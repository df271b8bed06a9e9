----------------------------- MODULE MqttClient -----------------------------
(***************************************************************************)
(* The MQTT client of linkkit (linkkit/mqtt/iotx_mqtt_client.c): what it   *)
(* publishes at QoS 1 is kept in a list until the broker acknowledges it,  *)
(* and sent again when that takes too long; pings find out that a          *)
(* connection is dead; and the client connects again by itself.            *)
(*                                                                         *)
(* One task at a time, holding lock_yield, is in wrapper_mqtt_yield: the   *)
(* yielder. Other tasks publish and subscribe without that lock. They look *)
(* at the state of the client first, send later, and report a failure to   *)
(* send by writing that state later still, when the connection it was      *)
(* about may be gone.                                                      *)
(***************************************************************************)
EXTENDS Integers, Sequences, SequencesExt

CONSTANTS
    Procs,       \* the tasks that publish and subscribe
    ListMax,     \* IOTX_MC_REPUB_NUM_MAX: 20
    ProbeMax,    \* IOTX_MC_KEEPALIVE_PROBE_MAX: 2
    MaxPublish,  \* bound of the model: QoS 1 messages, below the wrap of their ids
    MaxBreaks,   \* bound of the model: connections that break by themselves,
                 \* and sends that time out
    MaxCopies    \* bound of the model: copies of a packet on their way

ASSUME MqttClientAssumption ==
    /\ ListMax \in Nat
    /\ ProbeMax \in Nat
    /\ MaxPublish \in Nat
    /\ MaxBreaks \in Nat
    /\ MaxCopies \in Nat

Ids == 1 .. MaxPublish  \* packet ids

\* Any packet but a QoS 1 publication and its acknowledgement. What counts of
\* it is that it came.
Other == 0

Packets == Ids \cup {Other}

VARIABLES
    client_state,       \* of iotx_mc_client_t
    keepalive_probes,   \* pings since a packet was last received
    packet_id,          \* the last one given to a publication
    list_pub,           \* list_pub_wait_ack: the ids of its nodes
    invalid,            \* the ids whose nodes are IOTX_MC_NODE_STATE_INVALID
    yielder,            \* where wrapper_mqtt_yield is
    node,               \* where MQTTPubInfoProc is in the list
    task,               \* task -> where its publication is
    id,                 \* task -> packet id it is to send with, 0 at QoS 0
    told,               \* the program was last told that it is connected
    link,               \* the connection: see Links
    upstream,           \* packet -> copies on their way to the broker
    downstream,         \* packet -> answers on their way to the client
    delivered,          \* ids the broker has received
    accepted,           \* ids whose publication returned without an error
    breaks              \* connections that broke, and sends that timed out

network == <<link, upstream, downstream>>
state == <<client_state, keepalive_probes, told>>
pending == <<list_pub, invalid, node>>
callers == <<packet_id, task, id, accepted>>
environment == <<delivered, breaks>>
vars == <<network, state, pending, callers, environment, yielder>>

\* "tcp" is a connection without an MQTT session; "silent" one where nothing
\* arrives any more and nothing fails; on a "broken" one everything fails.
Links == {"closed", "tcp", "up", "silent", "broken"}

Labels == {"keepalive", "look", "close", "open", "hello", "connack", "again",
           "tell", "cycle", "read", "walk"}

TypeOK ==
    /\ client_state \in {"CONNECTED", "DISCONNECTED", "DISCONNECTED_RECONNECTING"}
    /\ keepalive_probes \in 0 .. ProbeMax + 1
    /\ packet_id \in 0 .. MaxPublish
    /\ list_pub \in Seq(Ids) /\ Len(list_pub) <= ListMax
    /\ invalid \subseteq ToSet(list_pub)
    /\ yielder \in Labels
    /\ node \in 1 .. ListMax + 1
    /\ task \in [Procs -> {"idle", "send", "failed"}]
    /\ id \in [Procs -> Packets]
    /\ told \in BOOLEAN
    /\ link \in Links
    /\ upstream \in [Packets -> 0 .. MaxCopies]
    /\ downstream \in [Packets -> 0 .. MaxCopies]
    /\ delivered \subseteq Ids
    /\ accepted \subseteq Ids
    /\ breaks \in 0 .. MaxBreaks

Nothing == [p \in Packets |-> 0]

\* IOT_MQTT_Construct has connected, and _mqtt_connect of iotx_cm_mqtt.c has
\* told the program.
Init ==
    /\ client_state = "CONNECTED"
    /\ keepalive_probes = 0
    /\ packet_id = 0
    /\ list_pub = << >>
    /\ invalid = {}
    /\ yielder = "keepalive"
    /\ node = 1
    /\ task = [p \in Procs |-> "idle"]
    /\ id = [p \in Procs |-> 0]
    /\ told = TRUE
    /\ link = "up"
    /\ upstream = Nothing
    /\ downstream = Nothing
    /\ delivered = {}
    /\ accepted = {}
    /\ breaks = 0

-----------------------------------------------------------------------------
(* The connection.                                                         *)

\* What is on its way is lost with the connection.
Becomes(l) ==
    /\ link' = l
    /\ upstream' = Nothing
    /\ downstream' = Nothing

\* The connection takes what is written to it.
Sends == link \in {"tcp", "up", "silent"}

Delayed ==
    /\ breaks < MaxBreaks
    /\ breaks' = breaks + 1

\* iotx_mc_send_packet fails: on the connection, or because the time of the
\* packet was over before the locks were got, and nothing was written.
NotSent ==
    \/ ~Sends /\ UNCHANGED <<network, breaks>>
    \/ Sends /\ Delayed /\ UNCHANGED network

\* iotx_mc_send_packet succeeds. A broker that is sent something before the
\* CONNECT packet closes the connection. A write of TLS that times out counts
\* as one that succeeds: it keeps its record for the next write, whose own
\* packet is then lost.
Transmit(p) ==
    \/ /\ link = "up"
       /\ upstream[p] < MaxCopies
       /\ upstream' = [upstream EXCEPT ![p] = @ + 1]
       /\ UNCHANGED <<link, downstream, breaks>>
    \/ link = "up" /\ Delayed /\ UNCHANGED network
    \/ link = "tcp" /\ Becomes("broken") /\ UNCHANGED breaks
    \/ link = "silent" /\ UNCHANGED <<network, breaks>>

\* The connection breaks, noticed by the client or not.
Break ==
    /\ link \in {"tcp", "up"}
    /\ breaks < MaxBreaks
    /\ breaks' = breaks + 1
    /\ \E l \in {"silent", "broken"} : Becomes(l)
    /\ UNCHANGED <<state, pending, callers, delivered, yielder>>

\* TCP gives up.
GiveUp ==
    /\ link = "silent"
    /\ Becomes("broken")
    /\ UNCHANGED <<state, pending, callers, environment, yielder>>

\* The broker receives a packet and answers it: PUBACK, PINGRESP, SUBACK.
Answer(p) ==
    /\ upstream[p] > 0
    /\ downstream[p] < MaxCopies
    /\ upstream' = [upstream EXCEPT ![p] = @ - 1]
    /\ downstream' = [downstream EXCEPT ![p] = @ + 1]
    /\ delivered' = delivered \cup ({p} \cap Ids)
    /\ UNCHANGED <<link, state, pending, callers, breaks, yielder>>

-----------------------------------------------------------------------------
(* wrapper_mqtt_publish, wrapper_mqtt_subscribe, wrapper_mqtt_unsubscribe,  *)
(* by any task. QoS 0 and subscriptions are not kept in the list.          *)

At(t, label) == task[t] = label
Goto(t, label) == task' = [task EXCEPT ![t] = label]

\* The state is looked at first: a call while not connected is refused.
Call(t) ==
    /\ At(t, "idle")
    /\ client_state = "CONNECTED"
    /\ \/ /\ packet_id < MaxPublish
          /\ packet_id' = packet_id + 1
          /\ id' = [id EXCEPT ![t] = packet_id']
       \/ /\ id' = [id EXCEPT ![t] = Other]
          /\ UNCHANGED packet_id
    /\ Goto(t, "send")
    /\ UNCHANGED <<network, state, pending, accepted, environment, yielder>>

\* MQTTPubInfoProc holds lock_list_pub for as long as it walks the list.
ListFree == yielder # "walk"

\* iotx_mc_push_pubInfo_to
Full(i) == i \in Ids /\ Len(list_pub) >= ListMax
Listed(i) == IF i \in Ids THEN Append(list_pub, i) ELSE list_pub

\* Mutant: a message that could not be sent stays in the list.
UnlistedNot(i) == Listed(i)

\* What could not be sent is taken out of the list again.
Unlisted(i) == list_pub

\* MQTTPublish, or the sending of a subscription, which needs no list.
Send(t) ==
    /\ At(t, "send")
    /\ id[t] \in Ids => ListFree
    /\ \/ /\ Full(id[t])
          /\ Goto(t, "idle")
          /\ UNCHANGED <<network, list_pub, accepted, breaks>>
       \/ /\ ~Full(id[t])
          /\ Transmit(id[t])
          /\ list_pub' = Listed(id[t])
          /\ accepted' = accepted \cup ({id[t]} \cap Ids)
          /\ Goto(t, "idle")
       \/ /\ ~Full(id[t])
          /\ NotSent
          /\ list_pub' = Unlisted(id[t])
          /\ Goto(t, "failed")
          /\ UNCHANGED accepted
    /\ id' = [id EXCEPT ![t] = Other]
    /\ UNCHANGED <<state, invalid, node, packet_id, delivered, yielder>>

\* MQTT_NETWORK_ERROR, with the locks of the sending released.
Failed(t) ==
    /\ At(t, "failed")
    /\ client_state' = "DISCONNECTED"
    /\ Goto(t, "idle")
    /\ UNCHANGED <<network, keepalive_probes, told, pending, packet_id, id, accepted,
                   environment, yielder>>

-----------------------------------------------------------------------------
(* iotx_mc_keepalive                                                       *)

\* Mutant: a ping is not counted.
PingUncounted ==
    /\ yielder = "keepalive"
    /\ client_state = "CONNECTED"
    /\ \/ Transmit(Other) /\ UNCHANGED client_state
       \/ NotSent /\ client_state' = "DISCONNECTED"
    /\ yielder' = "look"
    /\ UNCHANGED <<keepalive_probes, told, pending, callers, delivered>>

\* iotx_mc_keepalive_sub, when next_ping_time is over.
Ping ==
    /\ yielder = "keepalive"
    /\ client_state = "CONNECTED"
    /\ \/ /\ Transmit(Other)
          /\ keepalive_probes' = keepalive_probes + 1
          /\ UNCHANGED client_state
       \/ /\ NotSent
          /\ client_state' = "DISCONNECTED"
          /\ UNCHANGED keepalive_probes
    /\ yielder' = "look"
    /\ UNCHANGED <<told, pending, callers, delivered>>

\* iotx_mc_keepalive_sub, when it is not, or there is no connection.
NoPing ==
    /\ yielder = "keepalive"
    /\ yielder' = "look"
    /\ UNCHANGED <<network, state, pending, callers, environment>>

\* Mutant: the program is not told.
LookSilent ==
    /\ yielder = "look"
    /\ client_state # "DISCONNECTED_RECONNECTING"
    /\ yielder' = IF client_state = "DISCONNECTED" THEN "close" ELSE "cycle"
    /\ UNCHANGED <<network, state, pending, callers, environment>>

\* The state is read once; if the connection is lost, the program is told.
\* While reconnecting, rounds before reconnect_next_time change nothing.
Look ==
    /\ yielder = "look"
    /\ client_state # "DISCONNECTED_RECONNECTING"
    /\ IF client_state = "DISCONNECTED"
       THEN told' = FALSE /\ yielder' = "close"
       ELSE UNCHANGED told /\ yielder' = "cycle"
    /\ UNCHANGED <<network, client_state, keepalive_probes, pending, callers, environment>>

Close ==
    /\ yielder = "close"
    /\ Becomes("closed")
    /\ client_state' = "DISCONNECTED_RECONNECTING"
    /\ yielder' = "cycle"
    /\ UNCHANGED <<keepalive_probes, told, pending, callers, environment>>

\* iotx_mc_handle_reconnect, when reconnect_next_time has come.
Reconnect ==
    /\ yielder = "look"
    /\ client_state = "DISCONNECTED_RECONNECTING"
    /\ Becomes("closed")
    /\ yielder' = "open"
    /\ UNCHANGED <<state, pending, callers, environment>>

\* wrapper_mqtt_connect: whether or not there is a connection after three
\* tries, it goes on.
Open(l) ==
    /\ yielder = "open"
    /\ Becomes(l)
    /\ yielder' = "hello"
    /\ UNCHANGED <<state, pending, callers, environment>>

\* _mqtt_connect: MQTTConnect. (There is room for the first packet of a
\* connection, and its time begins with the lock held.)
Hello ==
    /\ yielder = "hello"
    /\ IF Sends
       THEN Becomes(IF link = "tcp" THEN "up" ELSE link) /\ yielder' = "connack"
       ELSE Becomes("closed") /\ yielder' = "cycle"
    /\ UNCHANGED <<state, pending, callers, environment>>

\* iotx_mc_wait_CONNACK gets the acknowledgement ...
Connack ==
    /\ yielder = "connack"
    /\ link = "up"
    /\ keepalive_probes' = 0
    /\ client_state' = "CONNECTED"
    /\ yielder' = "again"
    /\ UNCHANGED <<network, told, pending, callers, environment>>

\* ... or a refusal, or nothing in time: then it opens another connection,
\* which may fail, and tries again, eight times in all.
NoConnack ==
    /\ yielder = "connack"
    /\ \E l \in {"tcp", "closed"} : Becomes(l)
    /\ yielder' \in {"hello", "cycle"}
    /\ UNCHANGED <<state, pending, callers, environment>>

\* iotx_mc_handle_reconnect writes the state a second time.
Again ==
    /\ yielder = "again"
    /\ client_state' = "CONNECTED"
    /\ yielder' = "tell"
    /\ UNCHANGED <<network, keepalive_probes, told, pending, callers, environment>>

\* iotx_mc_reconnect_callback
Tell ==
    /\ yielder = "tell"
    /\ told' = TRUE
    /\ yielder' = "cycle"
    /\ UNCHANGED <<network, client_state, keepalive_probes, pending, callers, environment>>

-----------------------------------------------------------------------------
(* _mqtt_cycle. A second round of it is the same as a further yield.        *)

\* Mutant: one ping too many.
TooManyProbesLate == keepalive_probes > ProbeMax + 1

TooManyProbes == keepalive_probes > ProbeMax

\* iotx_mc_cycle up to the reading: it reads on after it has given up.
Cycle ==
    /\ yielder = "cycle"
    /\ yielder' = IF client_state = "CONNECTED" THEN "read" ELSE "keepalive"
    /\ IF client_state = "CONNECTED" /\ TooManyProbes
       THEN client_state' = "DISCONNECTED" /\ keepalive_probes' = 0
       ELSE UNCHANGED <<client_state, keepalive_probes>>
    /\ UNCHANGED <<network, told, pending, callers, environment>>

\* The list is not walked then.
ReadFails ==
    /\ yielder = "read"
    /\ ~Sends
    /\ client_state' = "DISCONNECTED"
    /\ yielder' = "keepalive"
    /\ UNCHANGED <<network, keepalive_probes, told, pending, callers, environment>>

ReadNothing ==
    /\ yielder = "read"
    /\ Sends
    /\ downstream = Nothing
    /\ yielder' = "walk"
    /\ UNCHANGED <<network, state, pending, callers, environment>>

\* Mutant: the acknowledgement is not noted.
MaskNothing(i) == UNCHANGED invalid

\* iotx_mc_mask_pubInfo_from
Mask(i) == invalid' = invalid \cup ({i} \cap ToSet(list_pub))

\* Any packet shows that the broker lives; a PUBACK masks its node. (What the
\* callback for a command publishes is like a Call of another task; the command
\* itself is like an answer to a ping.)
Read(p) ==
    /\ yielder = "read"
    /\ downstream[p] > 0
    /\ downstream' = [downstream EXCEPT ![p] = @ - 1]
    /\ keepalive_probes' = 0
    /\ Mask(p)
    /\ yielder' = "walk"
    /\ UNCHANGED <<link, upstream, client_state, told, list_pub, node, callers, environment>>

\* MQTTPubInfoProc. Acknowledged nodes go ...
Unlist ==
    /\ yielder = "walk"
    /\ node <= Len(list_pub)
    /\ list_pub[node] \in invalid
    /\ list_pub' = RemoveAt(list_pub, node)
    /\ invalid' = invalid \ {list_pub[node]}
    /\ UNCHANGED <<network, state, node, callers, environment, yielder>>

\* ... those that have waited too long are sent again, while connected ...
Republish(i) ==
    /\ yielder = "walk"
    /\ node <= Len(list_pub)
    /\ list_pub[node] = i
    /\ i \notin invalid
    /\ client_state = "CONNECTED"
    /\ \/ Transmit(i) /\ node' = node + 1 /\ UNCHANGED <<client_state, yielder>>
       \/ /\ NotSent
          /\ client_state' = "DISCONNECTED"
          /\ node' = 1
          /\ yielder' = "keepalive"
    /\ UNCHANGED <<keepalive_probes, told, list_pub, invalid, callers, delivered>>

\* ... and the others stay.
Skip ==
    /\ yielder = "walk"
    /\ node <= Len(list_pub)
    /\ list_pub[node] \notin invalid
    /\ node' = node + 1
    /\ UNCHANGED <<network, state, list_pub, invalid, callers, environment, yielder>>

Walked ==
    /\ yielder = "walk"
    /\ node > Len(list_pub)
    /\ node' = 1
    /\ yielder' = "keepalive"
    /\ UNCHANGED <<network, state, list_pub, invalid, callers, environment>>

-----------------------------------------------------------------------------

Opening == \E l \in {"tcp", "closed"} : Open(l)

Keepalive ==
    \/ Ping \/ NoPing \/ Look \/ Close
    \/ Reconnect \/ Opening \/ Hello \/ Connack \/ NoConnack \/ Again \/ Tell

Reading == Cycle \/ ReadFails \/ ReadNothing \/ \E p \in Packets : Read(p)

PubInfoProc == Unlist \/ (\E i \in Ids : Republish(i)) \/ Skip \/ Walked

Yield == Keepalive \/ Reading \/ PubInfoProc

Next ==
    \/ \E t \in Procs : Call(t) \/ Send(t) \/ Failed(t)
    \/ Yield
    \/ Break \/ GiveUp
    \/ \E p \in Packets : Answer(p)

Spec == Init /\ [][Next]_vars

\* The program yields for ever. Times come, to ping and to send again; the
\* broker acknowledges, and acknowledgements are read, though not only they; a
\* network that is tried again and again is there at last. The calls owe nothing.
FairSpec ==
    /\ Spec
    /\ WF_vars(Yield)
    /\ SF_vars(Ping)
    /\ SF_vars(Open("tcp")) /\ SF_vars(Connack)
    /\ SF_vars(\E i \in Ids : Republish(i))
    /\ SF_vars(\E i \in Ids : Read(i))
    /\ WF_vars(\E i \in Ids : Answer(i))

-----------------------------------------------------------------------------
(* Properties.                                                             *)

\* What wrapper_mqtt_publish returns at QoS 1 is true, whatever connections
\* break and come back in between: a message that was accepted has reached the
\* broker, or is kept to be sent again; one that was refused never gets there.
PublishTellsTruth ==
    /\ accepted \subseteq delivered \cup ToSet(list_pub)
    /\ delivered \subseteq accepted

\* The program was told the last change of the connection, whoever wrote the
\* state: between two rounds of iotx_mc_keepalive it never takes a client that
\* is connected for one that is not, or one that reconnects for a connected
\* one (IOTX_MQTT_EVENT_RECONNECT, IOTX_MQTT_EVENT_DISCONNECT).
ToldTruth ==
    /\ client_state = "CONNECTED" /\ yielder \notin {"again", "tell"} => told
    /\ client_state = "DISCONNECTED_RECONNECTING" => ~told

\* However many connections broke before, and with acknowledgements lost: once
\* there is one that lasts, every accepted message reaches the broker and is
\* acknowledged.
Lasting == link = "up" /\ client_state = "CONNECTED"
AcceptedIsAcknowledged ==
    <>[]Lasting =>
        \A i \in Ids : i \in accepted ~> i \in delivered /\ i \notin ToSet(list_pub)

\* A connection that is dead is found out, though nothing fails on it, and
\* though reports about earlier ones come late: there is a new one.
DeadLinkIsLeft == link = "silent" ~> link = "up" /\ client_state = "CONNECTED"
=============================================================================
