----------------------------- MODULE MqttProofs -----------------------------
(***************************************************************************)
(* What the MQTT client tells its callers is true, for any number of       *)
(* tasks, messages and broken connections, and any limits.                 *)
(***************************************************************************)
EXTENDS MqttClient, SequenceTheorems, TLAPS

\* Too many pings are only there until Cycle has looked at them.
Probed ==
    /\ keepalive_probes > ProbeMax => client_state # "CONNECTED" \/ yielder \in {"look", "cycle"}
    /\ yielder = "again" => keepalive_probes <= ProbeMax

\* The walk is at a node, or just behind the last one.
Placed == node <= Len(list_pub) + 1

TypeInv == TypeOK /\ Probed /\ Placed

\* Only what was accepted is on its way, and only what was delivered is
\* acknowledged.
Travelling ==
    /\ \A i \in Ids : upstream[i] > 0 => i \in accepted
    /\ \A i \in Ids : downstream[i] > 0 => i \in delivered

Truthful ==
    /\ PublishTellsTruth
    /\ ToSet(list_pub) \subseteq accepted
    /\ invalid \subseteq delivered
    /\ Travelling

\* The client connects again after the program was told, and tells it after
\* that.
Told ==
    /\ ToldTruth
    /\ yielder = "close" => ~told
    /\ yielder \in {"again", "tell"} => client_state # "DISCONNECTED_RECONNECTING"

-----------------------------------------------------------------------------
(* The list.                                                               *)

\* A node is added at the end.
LEMMA AppendElements ==
  ASSUME NEW S, NEW s \in Seq(S), NEW x \in S
  PROVE  /\ Append(s, x) \in Seq(S)
         /\ Len(Append(s, x)) = Len(s) + 1
         /\ ToSet(Append(s, x)) = ToSet(s) \cup {x}
<1> DEFINE t == Append(s, x)
<1>1. /\ t \in Seq(S)
      /\ Len(t) = Len(s) + 1 /\ Len(s) \in Nat
      /\ \A k \in 1 .. Len(s) : t[k] = s[k]
      /\ t[Len(s) + 1] = x
  OBVIOUS
<1>2. DOMAIN t = 1 .. Len(s) + 1 /\ DOMAIN s = 1 .. Len(s)
  BY <1>1
<1> HIDE DEF t
<1>3. ToSet(t) = ToSet(s) \cup {x}
  BY <1>1, <1>2 DEF ToSet
<1> QED BY <1>1, <1>3 DEF t

\* A node is taken out: the other elements stay, and none is new.
LEMMA RemoveElements ==
  ASSUME NEW S, NEW s \in Seq(S), NEW i \in 1 .. Len(s)
  PROVE  /\ RemoveAt(s, i) \in Seq(S)
         /\ Len(RemoveAt(s, i)) = Len(s) - 1
         /\ ToSet(RemoveAt(s, i)) \subseteq ToSet(s)
         /\ ToSet(s) \ {s[i]} \subseteq ToSet(RemoveAt(s, i))
<1> DEFINE a == SubSeq(s, 1, i - 1)
           b == SubSeq(s, i + 1, Len(s))
           t == a \o b
<1>1. Len(s) \in Nat /\ i \in Int
  OBVIOUS
<1>2. /\ a \in Seq(S)
      /\ Len(a) = i - 1
      /\ \A k \in 1 .. i - 1 : a[k] = s[k]
  BY <1>1, SubSeqProperties
<1>3. /\ b \in Seq(S)
      /\ Len(b) = Len(s) - i
      /\ \A k \in 1 .. Len(s) - i : b[k] = s[k + i]
  BY <1>1, SubSeqProperties
<1>4. RemoveAt(s, i) = t
  BY DEF RemoveAt
<1> HIDE DEF a, b
<1>5. /\ t \in Seq(S)
      /\ Len(t) = Len(a) + Len(b)
      /\ \A k \in 1 .. Len(a) + Len(b) :
            t[k] = IF k <= Len(a) THEN a[k] ELSE b[k - Len(a)]
  BY <1>2, <1>3, ConcatProperties
<1> HIDE DEF t
<1>6. /\ DOMAIN t = 1 .. Len(s) - 1 /\ DOMAIN s = 1 .. Len(s)
      /\ Len(t) = Len(s) - 1
      /\ \A k \in 1 .. Len(s) - 1 : t[k] = IF k < i THEN a[k] ELSE b[k - (i - 1)]
  <2>1. Len(a) + Len(b) = Len(s) - 1
    BY <1>1, <1>2, <1>3
  <2>2. ASSUME NEW k \in 1 .. Len(s) - 1
        PROVE  t[k] = IF k < i THEN a[k] ELSE b[k - (i - 1)]
    <3>1. t[k] = IF k <= i - 1 THEN a[k] ELSE b[k - (i - 1)]
      BY <1>2, <1>5, <2>1
    <3>2. k <= i - 1 <=> k < i
      BY <1>1
    <3> QED BY <3>1, <3>2
  <2> QED BY <1>5, <2>1, <2>2
<1>7. ASSUME NEW k \in DOMAIN t PROVE t[k] \in ToSet(s)
  <2>1. CASE k < i
    <3>1. k \in 1 .. i - 1 /\ k \in DOMAIN s
      BY <1>1, <1>6, <2>1
    <3> QED BY <1>2, <1>6, <2>1, <3>1 DEF ToSet
  <2>2. CASE ~(k < i)
    <3>1. k - (i - 1) \in 1 .. Len(s) - i /\ (k - (i - 1)) + i \in DOMAIN s
      BY <1>1, <1>6, <2>2
    <3> QED BY <1>3, <1>6, <2>2, <3>1 DEF ToSet
  <2> QED BY <2>1, <2>2
<1>8. ASSUME NEW k \in DOMAIN s, k # i PROVE s[k] \in ToSet(t)
  <2>1. CASE k < i
    <3>1. k \in DOMAIN t /\ k \in 1 .. i - 1
      BY <1>1, <1>6, <2>1
    <3> QED BY <1>2, <1>6, <2>1, <3>1 DEF ToSet
  <2>2. CASE k > i
    <3>1. k - 1 \in DOMAIN t /\ ~(k - 1 < i) /\ k - i \in 1 .. Len(s) - i
      BY <1>1, <1>6, <2>2
    <3>2. (k - 1) - (i - 1) = k - i /\ (k - i) + i = k
      BY <1>1
    <3> QED BY <1>3, <1>6, <3>1, <3>2 DEF ToSet
  <2> QED BY <1>1, <1>8, <2>1, <2>2
<1>9. ToSet(t) \subseteq ToSet(s)
  BY <1>7 DEF ToSet
<1>10. ToSet(s) \ {s[i]} \subseteq ToSet(t)
  BY <1>8 DEF ToSet
<1> QED BY <1>4, <1>5, <1>6, <1>9, <1>10

LEMMA EmptyElements == ToSet(<< >>) = {}
  BY DEF ToSet

-----------------------------------------------------------------------------
(* The connection.                                                         *)

NetworkOK ==
    /\ link \in Links
    /\ upstream \in [Packets -> 0 .. MaxCopies]
    /\ downstream \in [Packets -> 0 .. MaxCopies]

\* Nothing new is on its way when the connection changes ...
LEMMA BecomesFacts ==
  ASSUME NEW l \in Links, Becomes(l)
  PROVE  /\ NetworkOK'
         /\ \A i \in Ids : upstream'[i] = 0 /\ downstream'[i] = 0
BY MqttClientAssumption DEF Becomes, Nothing, NetworkOK, Packets

\* ... and only the packet that is sent when one is.
LEMMA TransmitFacts ==
  ASSUME NetworkOK, NEW p \in Packets, Transmit(p)
  PROVE  /\ NetworkOK'
         /\ \A i \in Ids : upstream'[i] > 0 => upstream[i] > 0 \/ i = p
         /\ \A i \in Ids : downstream'[i] > 0 => downstream[i] > 0
<1>1. CASE /\ upstream[p] < MaxCopies
           /\ upstream' = [upstream EXCEPT ![p] = @ + 1]
           /\ UNCHANGED <<link, downstream>>
  <2>1. upstream[p] + 1 \in 0 .. MaxCopies
    BY <1>1, MqttClientAssumption DEF NetworkOK
  <2> QED BY <1>1, <2>1 DEF NetworkOK, Packets
<1>2. CASE Becomes("broken")
  BY <1>2, BecomesFacts DEF Links
<1>3. CASE UNCHANGED network
  BY <1>3 DEF NetworkOK, network
<1> QED BY <1>1, <1>2, <1>3 DEF Transmit

\* A send fails, or times out, without more being on its way.
LEMMA NotSentFacts == NotSent => UNCHANGED network
  BY DEF NotSent

LEMMA DelaysCounted ==
  ASSUME breaks \in 0 .. MaxBreaks, NotSent \/ \E p \in Packets : Transmit(p)
  PROVE  breaks' \in 0 .. MaxBreaks
  BY MqttClientAssumption DEF NotSent, Transmit, Delayed

-----------------------------------------------------------------------------
(* Types. Every step keeps TypeInv.                                        *)

LEMMA InitTypeInv == Init => TypeInv
<1> SUFFICES ASSUME Init PROVE TypeInv
  OBVIOUS
<1>1. list_pub \in Seq(Ids) /\ Len(list_pub) = 0
  BY DEF Init
<1>2. TypeOK
  <2>1. upstream \in [Packets -> 0 .. MaxCopies] /\ downstream \in [Packets -> 0 .. MaxCopies]
    BY MqttClientAssumption DEF Init, Nothing
  <2>2. id \in [Procs -> Packets] /\ task \in [Procs -> {"idle", "send", "failed"}]
    BY DEF Init, Packets, Other
  <2> QED BY <1>1, <2>1, <2>2, MqttClientAssumption DEF Init, TypeOK, Labels, Links
<1>3. Probed /\ Placed
  BY <1>1, MqttClientAssumption DEF Init, Probed, Placed
<1> QED BY <1>2, <1>3 DEF TypeInv

\* Steps that leave the list and the publications alone.
LEMMA ConnectionTypeInv ==
  ASSUME TypeInv, UNCHANGED <<list_pub, invalid, callers, delivered>>, NetworkOK',
         client_state' \in {"CONNECTED", "DISCONNECTED", "DISCONNECTED_RECONNECTING"},
         keepalive_probes' \in 0 .. ProbeMax + 1, yielder' \in Labels, told' \in BOOLEAN,
         node' \in {1, node}, breaks' \in 0 .. MaxBreaks, Probed'
  PROVE  TypeInv'
<1>1. Placed'
  BY DEF TypeInv, TypeOK, Placed
<1>2. TypeOK'
  BY MqttClientAssumption DEF TypeInv, TypeOK, NetworkOK, callers
<1> QED BY <1>1, <1>2 DEF TypeInv

LEMMA TypeNetwork == ASSUME TypeInv PROVE NetworkOK
  BY DEF TypeInv, TypeOK, NetworkOK

LEMMA CallTypeInv ==
  ASSUME TypeInv, NEW t \in Procs, Call(t)
  PROVE  TypeInv'
<1>1. packet_id' \in 0 .. MaxPublish /\ id' \in [Procs -> Packets]
  <2>1. CASE packet_id < MaxPublish /\ packet_id' = packet_id + 1 /\ id' = [id EXCEPT ![t] = packet_id']
    <3>1. packet_id' \in 0 .. MaxPublish /\ packet_id' \in Packets
      BY <2>1, MqttClientAssumption DEF TypeInv, TypeOK, Ids, Packets
    <3> QED BY <2>1, <3>1 DEF TypeInv, TypeOK
  <2>2. CASE id' = [id EXCEPT ![t] = Other] /\ UNCHANGED packet_id
    BY <2>2 DEF TypeInv, TypeOK, Packets
  <2> QED BY <2>1, <2>2 DEF Call
<1>2. task' \in [Procs -> {"idle", "send", "failed"}]
  BY DEF TypeInv, TypeOK, Call, Goto
<1>3. UNCHANGED <<network, state, pending, accepted, environment, yielder>>
  BY DEF Call
<1> QED BY <1>1, <1>2, <1>3 DEF TypeInv, TypeOK, Probed, Placed, network, state, pending, environment

LEMMA SendTypeInv ==
  ASSUME TypeInv, NEW t \in Procs, Send(t)
  PROVE  TypeInv'
<1> DEFINE i == id[t]
<1>1. i \in Packets /\ NetworkOK /\ Len(list_pub) \in Nat
  BY TypeNetwork DEF TypeInv, TypeOK
<1>2. /\ id' \in [Procs -> Packets]
      /\ task' \in [Procs -> {"idle", "send", "failed"}]
      /\ UNCHANGED <<state, invalid, node, packet_id, delivered, yielder>>
  BY DEF TypeInv, TypeOK, Send, Goto, Packets
<1>3. NetworkOK' /\ breaks' \in 0 .. MaxBreaks
  <2>1. CASE Transmit(i)
    BY <1>1, <2>1, TransmitFacts, DelaysCounted DEF TypeInv, TypeOK
  <2>2. CASE NotSent
    BY <1>1, <2>2, NotSentFacts, DelaysCounted DEF TypeInv, TypeOK, network, NetworkOK
  <2>3. CASE UNCHANGED <<network, breaks>>
    BY <1>1, <2>3 DEF TypeInv, TypeOK, network, NetworkOK
  <2> QED BY <2>1, <2>2, <2>3 DEF Send
<1>4. /\ list_pub' \in Seq(Ids) /\ Len(list_pub') <= ListMax
      /\ Len(list_pub) <= Len(list_pub')
      /\ ToSet(list_pub) \subseteq ToSet(list_pub')
  <2>1. CASE i \in Ids /\ ~Full(i) /\ list_pub' = Listed(i)
    <3>1. list_pub' = Append(list_pub, i)
      BY <2>1 DEF Listed
    <3>2. Len(list_pub) < ListMax
      BY <1>1, <2>1, MqttClientAssumption DEF Full
    <3> QED BY <1>1, <2>1, <3>1, <3>2, MqttClientAssumption, AppendElements DEF TypeInv, TypeOK
  <2>2. CASE list_pub' = list_pub
    BY <1>1, <2>2 DEF TypeInv, TypeOK
  <2> QED BY <2>1, <2>2 DEF Send, Listed, Unlisted
<1>5. accepted' \subseteq Ids
  BY DEF Send, TypeInv, TypeOK
<1>6. Placed' /\ Probed'
  BY <1>1, <1>2, <1>4, MqttClientAssumption
     DEF TypeInv, TypeOK, Probed, Placed, state
<1>7. TypeOK'
  BY <1>2, <1>3, <1>4, <1>5 DEF TypeInv, TypeOK, NetworkOK, state
<1> QED BY <1>6, <1>7 DEF TypeInv

LEMMA FailedTypeInv ==
  ASSUME TypeInv, NEW t \in Procs, Failed(t)
  PROVE  TypeInv'
BY DEF TypeInv, TypeOK, Probed, Placed, Failed, Goto, network, pending, environment

LEMMA AnswerTypeInv ==
  ASSUME TypeInv, NEW p \in Packets, Answer(p)
  PROVE  TypeInv'
<1>1. /\ upstream' \in [Packets -> 0 .. MaxCopies]
      /\ downstream' \in [Packets -> 0 .. MaxCopies]
  BY MqttClientAssumption DEF TypeInv, TypeOK, Answer
<1>2. delivered' \subseteq Ids
  BY DEF TypeInv, TypeOK, Answer
<1> QED BY <1>1, <1>2 DEF TypeInv, TypeOK, Probed, Placed, Answer, state, pending, callers

\* The steps of the connection, and of the yielder until it reads.
LEMMA KeepaliveTypeInv ==
  ASSUME TypeInv, Keepalive \/ Cycle \/ ReadFails \/ ReadNothing \/ Break \/ GiveUp
  PROVE  TypeInv'
<1>0. NetworkOK /\ Other \in Packets
  BY TypeNetwork DEF Packets
<1>1. UNCHANGED <<pending, callers, delivered>>
  BY DEF Keepalive, Ping, NoPing, Look, Close, Reconnect, Opening, Open, Hello, Connack, NoConnack,
         Again, Tell, Cycle, ReadFails, ReadNothing, Break, GiveUp, environment
<1>2. NetworkOK'
  <2>1. CASE \E l \in Links : Becomes(l)
    BY <2>1, BecomesFacts
  <2>2. CASE Transmit(Other)
    BY <1>0, <2>2, TransmitFacts
  <2>3. CASE UNCHANGED network
    BY <1>0, <2>3 DEF NetworkOK, network
  <2> QED
    BY <1>0, <2>1, <2>2, <2>3, NotSentFacts
    DEF NetworkOK, Keepalive, Ping, NoPing, Look, Close, Reconnect, Opening, Open, Hello, Connack,
        NoConnack, Again, Tell, Cycle, ReadFails, ReadNothing, Break, GiveUp, Links
<1>3. /\ client_state' \in {"CONNECTED", "DISCONNECTED", "DISCONNECTED_RECONNECTING"}
      /\ yielder' \in Labels
      /\ told' \in BOOLEAN
      /\ breaks' \in 0 .. MaxBreaks
  <2>1. client_state' \in {"CONNECTED", "DISCONNECTED", "DISCONNECTED_RECONNECTING"}
    BY DEF TypeInv, TypeOK, state, Keepalive, Ping, NoPing, Look, Close, Reconnect, Opening, Open, Hello, Connack,
        NoConnack, Again, Tell, Cycle, ReadFails, ReadNothing, Break, GiveUp
  <2>2. yielder' \in Labels
    BY DEF TypeInv, TypeOK, Labels, Keepalive, Ping, NoPing, Look, Close, Reconnect, Opening, Open, Hello, Connack,
        NoConnack, Again, Tell, Cycle, ReadFails, ReadNothing, Break, GiveUp
  <2>3. told' \in BOOLEAN
    BY DEF TypeInv, TypeOK, state, Keepalive, Ping, NoPing, Look, Close, Reconnect, Opening, Open, Hello, Connack,
        NoConnack, Again, Tell, Cycle, ReadFails, ReadNothing, Break, GiveUp
  <2>4. breaks' \in 0 .. MaxBreaks
    BY <1>0, DelaysCounted, MqttClientAssumption DEF TypeInv, TypeOK, environment, Keepalive, Ping, NoPing, Look, Close, Reconnect, Opening, Open, Hello, Connack,
        NoConnack, Again, Tell, Cycle, ReadFails, ReadNothing, Break, GiveUp
  <2> QED BY <2>1, <2>2, <2>3, <2>4
<1>4. keepalive_probes' \in 0 .. ProbeMax + 1 /\ Probed'
  BY MqttClientAssumption
  DEF TypeInv, TypeOK, Probed, state, environment, Keepalive, Ping, NoPing, Look, Close, Reconnect,
      Opening, Open, Hello, Connack, NoConnack, Again, Tell, Cycle, TooManyProbes, ReadFails,
      ReadNothing, Break, GiveUp
<1> QED BY <1>1, <1>2, <1>3, <1>4, ConnectionTypeInv DEF pending

LEMMA ReadTypeInv ==
  ASSUME TypeInv, NEW p \in Packets, Read(p)
  PROVE  TypeInv'
<1>1. downstream' \in [Packets -> 0 .. MaxCopies]
  BY MqttClientAssumption DEF TypeInv, TypeOK, Read
<1>2. invalid' \subseteq ToSet(list_pub)
  BY DEF TypeInv, TypeOK, Read, Mask
<1> QED BY <1>1, <1>2, MqttClientAssumption
        DEF TypeInv, TypeOK, Probed, Placed, Labels, Read, callers, environment

LEMMA UnlistTypeInv ==
  ASSUME TypeInv, Unlist
  PROVE  TypeInv'
<1>1. node \in 1 .. Len(list_pub) /\ Len(list_pub) \in Nat
  BY DEF TypeInv, TypeOK, Unlist
<1>2. /\ list_pub' \in Seq(Ids) /\ Len(list_pub') = Len(list_pub) - 1
      /\ ToSet(list_pub) \ {list_pub[node]} \subseteq ToSet(list_pub')
  BY <1>1, RemoveElements DEF TypeInv, TypeOK, Unlist
<1>3. TypeOK'
  BY <1>1, <1>2, MqttClientAssumption
  DEF TypeInv, TypeOK, Unlist, network, state, callers, environment
<1>4. Placed' /\ Probed'
  BY <1>1, <1>2 DEF TypeInv, Placed, Probed, Unlist, state
<1> QED BY <1>3, <1>4 DEF TypeInv

LEMMA RepublishTypeInv ==
  ASSUME TypeInv, NEW i \in Ids, Republish(i)
  PROVE  TypeInv'
<1>0. i \in Packets /\ NetworkOK /\ Len(list_pub) \in Nat
  BY TypeNetwork DEF TypeInv, TypeOK, Packets
<1>1. NetworkOK' /\ breaks' \in 0 .. MaxBreaks
  <2>1. CASE Transmit(i)
    BY <1>0, <2>1, TransmitFacts, DelaysCounted DEF TypeInv, TypeOK
  <2>2. CASE NotSent
    BY <1>0, <2>2, NotSentFacts, DelaysCounted DEF TypeInv, TypeOK, network, NetworkOK
  <2> QED BY <2>1, <2>2 DEF Republish
<1>2. node' \in 1 .. ListMax + 1 /\ Placed'
  BY <1>0, MqttClientAssumption DEF TypeInv, TypeOK, Placed, Republish
<1>3. /\ client_state' \in {"CONNECTED", "DISCONNECTED"} /\ yielder' \in Labels
      /\ Probed'
      /\ UNCHANGED <<keepalive_probes, told, list_pub, invalid, callers, delivered>>
  BY DEF TypeInv, TypeOK, Probed, Labels, Republish
<1> QED BY <1>1, <1>2, <1>3 DEF TypeInv, TypeOK, NetworkOK, callers

LEMMA WalkTypeInv ==
  ASSUME TypeInv, Skip \/ Walked
  PROVE  TypeInv'
<1>1. node' \in 1 .. ListMax + 1 /\ Placed' /\ yielder' \in Labels /\ Probed'
  <2>1. Len(list_pub) \in Nat
    BY DEF TypeInv, TypeOK
  <2> QED BY <2>1, MqttClientAssumption
          DEF TypeInv, TypeOK, Placed, Probed, Labels, Skip, Walked, state
<1>2. UNCHANGED <<network, state, list_pub, invalid, callers, environment>>
  BY DEF Skip, Walked
<1> QED BY <1>1, <1>2 DEF TypeInv, TypeOK, network, state, callers, environment

LEMMA NextTypeInv == TypeInv /\ [Next]_vars => TypeInv'
<1> SUFFICES ASSUME TypeInv, [Next]_vars PROVE TypeInv'
  OBVIOUS
<1>1. CASE \E t \in Procs : Call(t) \/ Send(t) \/ Failed(t)
  BY <1>1, CallTypeInv, SendTypeInv, FailedTypeInv
<1>2. CASE Keepalive \/ Cycle \/ ReadFails \/ ReadNothing \/ Break \/ GiveUp
  BY <1>2, KeepaliveTypeInv
<1>3. CASE \E p \in Packets : Read(p) \/ Answer(p)
  BY <1>3, ReadTypeInv, AnswerTypeInv
<1>4. CASE PubInfoProc
  BY <1>4, UnlistTypeInv, RepublishTypeInv, WalkTypeInv DEF PubInfoProc
<1>5. CASE UNCHANGED vars
  BY <1>5 DEF TypeInv, TypeOK, Probed, Placed, vars, network, state, pending, callers, environment
<1> QED BY <1>1, <1>2, <1>3, <1>4, <1>5 DEF Next, Yield, Reading

\* TypeOK, for any number of tasks and messages and any limits.
THEOREM TypeCorrect == Spec => []TypeOK
<1>1. TypeInv => TypeOK
  BY DEF TypeInv
<1> QED BY <1>1, InitTypeInv, NextTypeInv, PTL DEF Spec

-----------------------------------------------------------------------------
(* What a publication returns. Every step keeps Truthful.                  *)

LEMMA InitTruthful == Init => Truthful
  BY EmptyElements, MqttClientAssumption
  DEF Init, Truthful, PublishTellsTruth, Travelling, Nothing, Ids, Packets

\* Steps that change nothing but the connection, and put nothing new on its way.
LEMMA ConnectionTruthful ==
  ASSUME Truthful, UNCHANGED <<list_pub, invalid, accepted, delivered>>,
         \A i \in Ids : /\ upstream'[i] > 0 => upstream[i] > 0 \/ i \in accepted
                        /\ downstream'[i] > 0 => downstream[i] > 0
  PROVE  Truthful'
BY DEF Truthful, PublishTellsTruth, Travelling

LEMMA SendTruthful ==
  ASSUME TypeInv, Truthful, NEW t \in Procs, Send(t)
  PROVE  Truthful'
<1> DEFINE i == id[t]
<1>1. i \in Packets /\ NetworkOK /\ list_pub \in Seq(Ids)
  BY TypeNetwork DEF TypeInv, TypeOK
<1>2. UNCHANGED <<invalid, delivered>>
  BY DEF Send
<1>3. CASE UNCHANGED <<network, list_pub, accepted>>
  BY <1>2, <1>3, ConnectionTruthful DEF network
<1>4. CASE /\ Transmit(i)
           /\ list_pub' = Listed(i)
           /\ accepted' = accepted \cup ({i} \cap Ids)
  <2>1. ToSet(list_pub') = ToSet(list_pub) \cup ({i} \cap Ids)
    <3>1. CASE i \in Ids
      BY <1>1, <1>4, <3>1, AppendElements DEF Listed
    <3>2. CASE i \notin Ids
      BY <1>4, <3>2 DEF Listed
    <3> QED BY <3>1, <3>2
  <2>2. \A j \in Ids : /\ upstream'[j] > 0 => upstream[j] > 0 \/ j = i
                       /\ downstream'[j] > 0 => downstream[j] > 0
    BY <1>1, <1>4, TransmitFacts
  <2>3. Travelling'
    BY <1>2, <1>4, <2>2 DEF Truthful, Travelling
  <2>4. PublishTellsTruth'
    BY <1>2, <1>4, <2>1 DEF Truthful, PublishTellsTruth
  <2> QED BY <1>2, <1>4, <2>1, <2>3, <2>4 DEF Truthful
<1> QED BY <1>3, <1>4, NotSentFacts DEF Send, Unlisted

LEMMA AnswerTruthful ==
  ASSUME TypeInv, Truthful, NEW p \in Packets, Answer(p)
  PROVE  Truthful'
<1>1. /\ upstream \in [Packets -> 0 .. MaxCopies] /\ downstream \in [Packets -> 0 .. MaxCopies]
      /\ UNCHANGED <<list_pub, invalid, accepted>>
      /\ delivered' = delivered \cup ({p} \cap Ids)
  BY DEF TypeInv, TypeOK, Answer, pending, callers
<1>2. p \in Ids => p \in accepted
  BY DEF Answer, Truthful, Travelling
<1>3. \A i \in Ids : upstream'[i] > 0 => upstream[i] > 0
  BY <1>1, MqttClientAssumption DEF Answer, Packets
<1>4. \A i \in Ids : downstream'[i] > 0 => downstream[i] > 0 \/ i = p
  BY <1>1, MqttClientAssumption DEF Answer, Packets
<1>5. Travelling'
  BY <1>1, <1>3, <1>4 DEF Truthful, Travelling
<1> QED BY <1>1, <1>2, <1>5 DEF Truthful, PublishTellsTruth

LEMMA KeepaliveTruthful ==
  ASSUME TypeInv, Truthful, Keepalive \/ Cycle \/ ReadFails \/ ReadNothing \/ Break \/ GiveUp
  PROVE  Truthful'
<1>1. UNCHANGED <<list_pub, invalid, accepted, delivered>>
  BY DEF Keepalive, Ping, NoPing, Look, Close, Reconnect, Opening, Open, Hello, Connack, NoConnack,
         Again, Tell, Cycle, ReadFails, ReadNothing, Break, GiveUp, pending, callers, environment
<1>2. \A i \in Ids : /\ upstream'[i] > 0 => upstream[i] > 0
                     /\ downstream'[i] > 0 => downstream[i] > 0
  <2>1. CASE \E l \in Links : Becomes(l)
    BY <2>1, BecomesFacts
  <2>2. CASE Transmit(Other)
    BY <2>2, TransmitFacts, TypeNetwork DEF Packets, Ids, Other
  <2>3. CASE UNCHANGED network
    BY <2>3 DEF network
  <2> QED
    BY <2>1, <2>2, <2>3, TypeNetwork, NotSentFacts
    DEF NetworkOK, Keepalive, Ping, NoPing, Look, Close, Reconnect, Opening, Open, Hello, Connack,
        NoConnack, Again, Tell, Cycle, ReadFails, ReadNothing, Break, GiveUp, Links
<1> QED BY <1>1, <1>2, ConnectionTruthful

LEMMA ReadTruthful ==
  ASSUME TypeInv, Truthful, NEW p \in Packets, Read(p)
  PROVE  Truthful'
<1>1. \A i \in Ids : downstream'[i] > 0 => downstream[i] > 0
  BY MqttClientAssumption DEF TypeInv, TypeOK, Read, Packets
<1>2. p \in Ids => p \in delivered
  BY DEF Read, Truthful, Travelling
<1>3. UNCHANGED <<upstream, list_pub, accepted, delivered>>
  BY DEF Read, callers, environment
<1>4. invalid' \subseteq delivered
  <2>1. ToSet(list_pub) \subseteq Ids
    BY DEF TypeInv, TypeOK, ToSet
  <2> QED BY <1>2, <2>1 DEF Read, Mask, Truthful
<1> QED BY <1>1, <1>3, <1>4 DEF Truthful, PublishTellsTruth, Travelling

LEMMA UnlistTruthful ==
  ASSUME TypeInv, Truthful, Unlist
  PROVE  Truthful'
<1>1. node \in 1 .. Len(list_pub) /\ list_pub \in Seq(Ids)
  BY DEF TypeInv, TypeOK, Unlist
<1>2. /\ ToSet(list_pub') \subseteq ToSet(list_pub)
      /\ ToSet(list_pub) \ {list_pub[node]} \subseteq ToSet(list_pub')
  BY <1>1, RemoveElements DEF Unlist
<1>3. list_pub[node] \in delivered
  BY DEF Unlist, Truthful
<1>4. UNCHANGED <<upstream, downstream, accepted, delivered>> /\ invalid' \subseteq invalid
  BY DEF Unlist, network, callers, environment
<1> QED BY <1>2, <1>3, <1>4 DEF Truthful, PublishTellsTruth, Travelling

LEMMA RepublishTruthful ==
  ASSUME TypeInv, Truthful, NEW i \in Ids, Republish(i)
  PROVE  Truthful'
<1>1. i \in accepted
  <2>1. node \in DOMAIN list_pub
    BY DEF TypeInv, TypeOK, Republish
  <2>2. i \in ToSet(list_pub)
    BY <2>1 DEF Republish, ToSet
  <2> QED BY <2>2 DEF Truthful
<1>2. UNCHANGED <<list_pub, invalid, accepted, delivered>>
  BY DEF Republish, callers
<1>3. i \in Packets /\ NetworkOK
  BY TypeNetwork DEF Packets
<1>4. \A j \in Ids : /\ upstream'[j] > 0 => upstream[j] > 0 \/ j = i
                     /\ downstream'[j] > 0 => downstream[j] > 0
  BY <1>3, TransmitFacts, NotSentFacts DEF Republish, network
<1> QED BY <1>1, <1>2, <1>4, ConnectionTruthful

LEMMA NextTruthful == TypeInv /\ Truthful /\ [Next]_vars => Truthful'
<1> SUFFICES ASSUME TypeInv, Truthful, [Next]_vars PROVE Truthful'
  OBVIOUS
<1>1. CASE \E t \in Procs : Send(t)
  BY <1>1, SendTruthful
<1>2. CASE \E t \in Procs : Call(t) \/ Failed(t)
  BY <1>2, ConnectionTruthful DEF Call, Failed, network, pending, environment
<1>3. CASE Keepalive \/ Cycle \/ ReadFails \/ ReadNothing \/ Break \/ GiveUp
  BY <1>3, KeepaliveTruthful
<1>4. CASE \E p \in Packets : Read(p) \/ Answer(p)
  BY <1>4, ReadTruthful, AnswerTruthful
<1>5. CASE Skip \/ Walked
  BY <1>5, ConnectionTruthful DEF Skip, Walked, network, callers, environment
<1>6. CASE Unlist \/ \E i \in Ids : Republish(i)
  BY <1>6, UnlistTruthful, RepublishTruthful
<1>7. CASE UNCHANGED vars
  BY <1>7, ConnectionTruthful DEF vars, network, pending, callers, environment
<1> QED BY <1>1, <1>2, <1>3, <1>4, <1>5, <1>6, <1>7 DEF Next, Yield, Reading, PubInfoProc

\* PublishTellsTruth, whatever breaks and however many tasks publish: an
\* accepted message has arrived or is kept, a refused one never arrives.
THEOREM PublishTruthful == Spec => []PublishTellsTruth
<1>1. Truthful => PublishTellsTruth
  BY DEF Truthful
<1> QED BY <1>1, InitTypeInv, NextTypeInv, InitTruthful, NextTruthful, PTL DEF Spec

-----------------------------------------------------------------------------
(* What the program is told. Every step keeps Told.                        *)

LEMMA InitTold == Init => Told
  BY DEF Init, Told, ToldTruth

LEMMA NextTold == TypeInv /\ Told /\ [Next]_vars => Told'
<1> SUFFICES ASSUME TypeInv, Told, [Next]_vars PROVE Told'
  OBVIOUS
<1>1. CASE \E t \in Procs : Call(t) \/ Send(t)
  BY <1>1 DEF Told, ToldTruth, Call, Send, state
<1>2. CASE \E t \in Procs : Failed(t)
  BY <1>2 DEF Told, ToldTruth, Failed
<1>3. CASE Ping \/ NoPing \/ Look \/ Close
  BY <1>3 DEF Told, ToldTruth, Ping, NoPing, Look, Close, state
<1>4. CASE Reconnect \/ Opening \/ Hello \/ NoConnack
  BY <1>4 DEF Told, ToldTruth, Reconnect, Opening, Open, Hello, NoConnack, state
<1>5. CASE Connack \/ Again \/ Tell
  BY <1>5 DEF TypeInv, TypeOK, Told, ToldTruth, Connack, Again, Tell
<1>6. CASE Reading
  BY <1>6 DEF Told, ToldTruth, Reading, Cycle, ReadFails, ReadNothing, Read, state
<1>7. CASE PubInfoProc
  BY <1>7 DEF Told, ToldTruth, PubInfoProc, Unlist, Republish, Skip, Walked, state
<1>8. CASE Break \/ GiveUp \/ (\E p \in Packets : Answer(p)) \/ UNCHANGED vars
  BY <1>8 DEF Told, ToldTruth, Break, GiveUp, Answer, vars, state
<1> QED BY <1>1, <1>2, <1>3, <1>4, <1>5, <1>6, <1>7, <1>8 DEF Next, Yield, Keepalive

\* ToldTruth, however late the tasks report what they saw.
THEOREM ToldTruthful == Spec => []ToldTruth
<1>1. Told => ToldTruth
  BY DEF Told
<1> QED BY <1>1, InitTypeInv, NextTypeInv, InitTold, NextTold, PTL DEF Spec
=============================================================================
