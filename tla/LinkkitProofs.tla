--------------------------- MODULE LinkkitProofs ----------------------------
(***************************************************************************)
(* The cache of linkkit stays within its limit, and every message is       *)
(* answered once at most, for any tasks, priorities, limits and messages.  *)
(***************************************************************************)
EXTENDS Linkkit, FiniteSetTheorems, TLAPS

\* The mutex of iotx_linkkit_ctx_t is held at these labels.
Holding == {"publish", "network", "room", "insert", "give"}

\* The waiting posts fit into the bound.
Bounded == posts + Cardinality(Waiters) <= MaxPosts

\* Posts come one at a time: the one that holds the mutex is the last, and is
\* new to the cache.
Serial ==
    \A p \in Procs : pc[p] \in Holding =>
        /\ mutex = p
        /\ id[p] = posts
        /\ posts \in Ids
        /\ pc[p] # "give" => posts \notin noted

\* What waits for an answer was noted.
Known ==
    /\ noted \subseteq 1 .. posts
    /\ cache \subseteq noted
    /\ ToSet(queue) \subseteq noted

\* The reply that is being handled.
Handled ==
    /\ pc[Demo] \in {"search", "enqueue", "remove"} => id[Demo] \in Ids
    /\ pc[Demo] = "enqueue" => id[Demo] \in cache

\* A message waits in one place, but for the moment between its two steps.
Once ==
    /\ IsInjective(queue)
    /\ \A i \in cache : i \in ToSet(queue) => pc[Demo] = "remove" /\ i = id[Demo]

\* Whoever has found room still has it.
HasRoom ==
    /\ CacheWithinLimit
    /\ \A p \in Procs : pc[p] = "insert" => Cardinality(cache) < CacheMax

Inv == TypeOK /\ Bounded /\ Serial /\ Known /\ Handled /\ Once /\ HasRoom

-----------------------------------------------------------------------------
(* Queues without duplicates.                                              *)

LEMMA AppendOnce ==
  ASSUME NEW S, NEW s \in Seq(S), NEW x \in S, IsInjective(s), x \notin ToSet(s)
  PROVE  /\ Append(s, x) \in Seq(S)
         /\ IsInjective(Append(s, x))
         /\ ToSet(Append(s, x)) = ToSet(s) \cup {x}
<1> DEFINE t == Append(s, x)
<1>1. /\ t \in Seq(S)
      /\ Len(t) = Len(s) + 1 /\ Len(s) \in Nat
      /\ \A k \in 1 .. Len(s) : t[k] = s[k]
      /\ t[Len(s) + 1] = x
  OBVIOUS
<1>2. DOMAIN t = 1 .. Len(s) + 1 /\ DOMAIN s = 1 .. Len(s)
  BY <1>1
<1> HIDE DEF t
<1>3. \A k \in DOMAIN s : s[k] # x
  BY DEF ToSet
<1>4. IsInjective(t)
  BY <1>1, <1>2, <1>3 DEF IsInjective
<1>5. ToSet(t) = ToSet(s) \cup {x}
  BY <1>1, <1>2 DEF ToSet
<1> QED BY <1>1, <1>4, <1>5 DEF t

LEMMA TailOnce ==
  ASSUME NEW S, NEW s \in Seq(S), IsInjective(s), s # << >>
  PROVE  /\ Tail(s) \in Seq(S)
         /\ Head(s) \in ToSet(s) /\ Head(s) \in S
         /\ IsInjective(Tail(s))
         /\ ToSet(Tail(s)) = ToSet(s) \ {Head(s)}
<1> DEFINE t == Tail(s)
<1>1. /\ t \in Seq(S)
      /\ Len(s) \in Nat \ {0} /\ Len(t) = Len(s) - 1
      /\ \A k \in 1 .. Len(s) - 1 : t[k] = s[k + 1]
      /\ Head(s) = s[1]
  OBVIOUS
<1>2. DOMAIN t = 1 .. Len(s) - 1 /\ DOMAIN s = 1 .. Len(s)
  BY <1>1
<1>3. s[1] \in S
  BY <1>1
<1> HIDE DEF t
<1>4. IsInjective(t)
  <2> SUFFICES ASSUME NEW a \in DOMAIN t, NEW b \in DOMAIN t, t[a] = t[b] PROVE a = b
    BY DEF IsInjective
  <2>1. s[a + 1] = s[b + 1] /\ a + 1 \in DOMAIN s /\ b + 1 \in DOMAIN s
    BY <1>1, <1>2
  <2>2. a + 1 = b + 1
    BY <2>1 DEF IsInjective
  <2> QED BY <1>1, <1>2, <2>2
<1>5. ASSUME NEW k \in DOMAIN s, k # 1
      PROVE  k - 1 \in DOMAIN t /\ t[k - 1] = s[k] /\ s[k] # s[1]
  <2>1. k - 1 \in 1 .. Len(s) - 1
    BY <1>1, <1>2, <1>5
  <2>2. t[k - 1] = s[(k - 1) + 1]
    BY <1>1, <2>1
  <2>3. 1 \in DOMAIN s
    BY <1>1, <1>2
  <2> QED BY <1>1, <1>2, <1>5, <2>1, <2>2, <2>3 DEF IsInjective
<1>6. ToSet(t) \subseteq ToSet(s) \ {s[1]}
  <2> SUFFICES ASSUME NEW k \in DOMAIN t PROVE t[k] \in ToSet(s) \ {s[1]}
    BY DEF ToSet
  <2>1. k + 1 \in DOMAIN s /\ k + 1 # 1 /\ t[k] = s[k + 1]
    BY <1>1, <1>2
  <2> QED BY <1>5, <2>1 DEF ToSet
<1>7. ToSet(s) \ {s[1]} \subseteq ToSet(t)
  BY <1>5 DEF ToSet
<1>8. ToSet(t) = ToSet(s) \ {s[1]} /\ s[1] \in ToSet(s)
  <2>1. 1 \in DOMAIN s
    BY <1>1, <1>2
  <2>2. s[1] \in ToSet(s)
    BY <2>1 DEF ToSet
  <2> QED BY <1>6, <1>7, <2>2
<1> QED BY <1>1, <1>3, <1>4, <1>8 DEF t

LEMMA EmptyOnce == IsInjective(<< >>) /\ ToSet(<< >>) = {}
  BY DEF IsInjective, ToSet

-----------------------------------------------------------------------------
(* Cardinalities.                                                          *)

\* Sets of messages are finite, and grow by one.
LEMMA IdsFinite ==
  ASSUME NEW s \in SUBSET Ids
  PROVE  /\ IsFiniteSet(s)
         /\ Cardinality(s) \in Nat
         /\ \A i \in Ids : Cardinality(s \cup {i}) <= Cardinality(s) + 1
         /\ \A i \in Ids : Cardinality(s \ {i}) <= Cardinality(s)
<1>1. IsFiniteSet(Ids)
  BY LinkkitAssumption, FS_Interval DEF Ids
<1>2. IsFiniteSet(s)
  BY <1>1, FS_Subset
<1>3. Cardinality(s) \in Nat
  BY <1>2, FS_CardinalityType
<1>4. \A i \in Ids : Cardinality(s \cup {i}) <= Cardinality(s) + 1
  BY <1>2, <1>3, FS_AddElement
<1>5. \A i \in Ids : Cardinality(s \ {i}) <= Cardinality(s)
  BY <1>2, FS_Subset
<1> QED BY <1>2, <1>3, <1>4, <1>5

LEMMA WaitersFinite ==
  ASSUME NEW s \in SUBSET Procs
  PROVE  /\ IsFiniteSet(s)
         /\ Cardinality(s) \in Nat
         /\ \A p \in Procs : Cardinality(s \cup {p}) <= Cardinality(s) + 1
         /\ \A p \in s : Cardinality(s \ {p}) = Cardinality(s) - 1
<1>1. IsFiniteSet(s) /\ Cardinality(s) \in Nat
  BY LinkkitAssumption, FS_Subset, FS_CardinalityType
<1>2. \A p \in Procs : Cardinality(s \cup {p}) <= Cardinality(s) + 1
  BY <1>1, FS_AddElement
<1>3. \A p \in s : Cardinality(s \ {p}) = Cardinality(s) - 1
  BY <1>1, FS_RemoveElement
<1> QED BY <1>1, <1>2, <1>3

-----------------------------------------------------------------------------
(* Every step keeps the invariant.                                         *)

LEMMA InitInv == Init => Inv
<1> SUFFICES ASSUME Init PROVE Inv
  OBVIOUS
<1>1. Waiters = {}
  BY DEF Init, Waiters
<1>2. Bounded
  BY <1>1, FS_EmptySet, LinkkitAssumption DEF Init, Bounded
<1>3. HasRoom
  BY FS_EmptySet, LinkkitAssumption DEF Init, HasRoom, CacheWithinLimit
<1>4. TypeOK
  BY LinkkitAssumption DEF Init, TypeOK, Labels, DemoLabels
<1>5. Known /\ Once
  BY EmptyOnce, LinkkitAssumption DEF Init, Known, Once
<1>6. Serial /\ Handled
  BY LinkkitAssumption DEF Init, Serial, Holding, Handled
<1> QED BY <1>2, <1>3, <1>4, <1>5, <1>6 DEF Inv

LEMMA PostInv ==
  ASSUME Inv, NEW p \in Procs, Post(p)
  PROVE  Inv'
<1>1. TypeOK'
  BY LinkkitAssumption DEF Inv, TypeOK, Serial, Handled, Ids, Post, At, Goto, Labels, DemoLabels
<1>2. Bounded'
  <2>1. Waiters' = Waiters \cup {p}
    BY DEF Inv, TypeOK, Post, Goto, Waiters
  <2>2. /\ Cardinality(Waiters) \in Nat
        /\ Cardinality(Waiters \cup {p}) <= Cardinality(Waiters) + 1
        /\ Cardinality(Waiters \cup {p}) \in Nat
    BY WaitersFinite, Waiters \in SUBSET Procs, Waiters \cup {p} \in SUBSET Procs DEF Waiters
  <2> QED BY <2>1, <2>2, LinkkitAssumption DEF Inv, TypeOK, Bounded, Post, MayPost
<1>3. Serial'
  BY LinkkitAssumption DEF Inv, TypeOK, Serial, Holding, Post, At, Goto, Labels, DemoLabels
<1>4. Known'
  BY LinkkitAssumption DEF Inv, TypeOK, Known, Post, At, Goto, Labels, DemoLabels
<1>5. Handled'
  BY LinkkitAssumption DEF Inv, TypeOK, Handled, Post, At, Goto, Labels, DemoLabels
<1>6. Once'
  BY LinkkitAssumption DEF Inv, TypeOK, Once, Post, At, Goto, Labels, DemoLabels
<1>7. HasRoom'
  BY LinkkitAssumption DEF Inv, TypeOK, HasRoom, CacheWithinLimit, Post, At, Goto, Labels, DemoLabels
<1> QED BY <1>1, <1>2, <1>3, <1>4, <1>5, <1>6, <1>7 DEF Inv

LEMMA TakeInv ==
  ASSUME Inv, NEW p \in Procs, Take(p)
  PROVE  Inv'
<1>0. /\ posts + 1 <= MaxPosts
      /\ Waiters' = Waiters \ {p}
      /\ Cardinality(Waiters') = Cardinality(Waiters) - 1
      /\ Cardinality(Waiters) \in Nat
  <2>1. p \in Waiters
    BY DEF Take, At, Waiters
  <2>2. Waiters' = Waiters \ {p}
    BY DEF Inv, TypeOK, Take, Goto, Waiters
  <2>3. Waiters \in SUBSET Procs /\ Waiters' \in SUBSET Procs
    BY <2>2 DEF Waiters
  <2>4. /\ Cardinality(Waiters) \in Nat /\ Cardinality(Waiters') \in Nat
        /\ Cardinality(Waiters \ {p}) = Cardinality(Waiters) - 1
    BY <2>1, <2>3, WaitersFinite
  <2> QED BY <2>2, <2>4, LinkkitAssumption DEF Inv, TypeOK, Bounded
<1>1. TypeOK'
  <2>1. posts' \in 0 .. MaxPosts /\ posts' \in Ids /\ mutex' \in Procs \cup {None}
    BY <1>0, LinkkitAssumption DEF Inv, TypeOK, Take, Ids
  <2>2. id' \in [Procs -> Ids \cup {0}]
    BY <2>1 DEF Inv, TypeOK, Take
  <2>3. /\ pc' \in [Procs -> Labels \cup DemoLabels]
        /\ \A q \in Procs \ {Demo} : pc'[q] \in Labels
        /\ pc'[Demo] # "idle"
    BY LinkkitAssumption DEF Inv, TypeOK, Take, Goto, Labels
  <2> QED BY <2>1, <2>2, <2>3 DEF Inv, TypeOK, Take
<1>2. Bounded'
  BY <1>0, LinkkitAssumption DEF Inv, TypeOK, Bounded, Take
<1>3. Serial'
  <2>1. \A q \in Procs : pc[q] \notin Holding
    BY LinkkitAssumption DEF Inv, Serial, Take
  <2>2. posts' \notin noted
    BY DEF Inv, TypeOK, Known, Take
  <2> QED BY <1>0, <2>1, <2>2, LinkkitAssumption DEF Inv, TypeOK, Serial, Holding, Take, At, Goto, Ids
<1>4. Known'
  BY LinkkitAssumption DEF Inv, TypeOK, Known, Take, At
<1>5. Handled'
  BY LinkkitAssumption DEF Inv, TypeOK, Handled, Take, At, Goto, Labels, DemoLabels
<1>6. Once'
  BY LinkkitAssumption DEF Inv, TypeOK, Once, Take, At, Goto, Labels, DemoLabels
<1>7. HasRoom'
  BY LinkkitAssumption DEF Inv, TypeOK, HasRoom, CacheWithinLimit, Take, At, Goto, Labels, DemoLabels
<1> QED BY <1>1, <1>2, <1>3, <1>4, <1>5, <1>6, <1>7 DEF Inv

LEMMA PublishInv ==
  ASSUME Inv, NEW p \in Procs, Publish(p) \/ Published(p)
  PROVE  Inv'
<1>0. id[p] = posts /\ posts \in Ids /\ mutex = p
  BY DEF Inv, Serial, Holding, Publish, Published, At
<1>1. TypeOK'
  BY <1>0, LinkkitAssumption DEF Inv, TypeOK, Publish, Published, At, Goto, Labels, DemoLabels
<1>2. Bounded'
  <2>1. Waiters' = Waiters /\ posts' = posts
    BY LinkkitAssumption DEF Inv, TypeOK, Waiters, Publish, Published, At, Goto
  <2> QED BY <2>1 DEF Inv, Bounded
<1>3. Serial'
  BY LinkkitAssumption DEF Inv, TypeOK, Serial, Holding, Publish, Published, At, Goto, Labels, DemoLabels
<1>4. Known'
  BY LinkkitAssumption DEF Inv, TypeOK, Known, Publish, Published, At, Goto, Labels, DemoLabels
<1>5. Handled'
  BY LinkkitAssumption DEF Inv, TypeOK, Handled, Publish, Published, At, Goto, Labels, DemoLabels
<1>6. Once'
  BY LinkkitAssumption DEF Inv, TypeOK, Once, Publish, Published, At, Goto, Labels, DemoLabels
<1>7. HasRoom'
  BY LinkkitAssumption DEF Inv, TypeOK, HasRoom, CacheWithinLimit, Publish, Published, At, Goto, Labels, DemoLabels
<1> QED BY <1>1, <1>2, <1>3, <1>4, <1>5, <1>6, <1>7 DEF Inv

LEMMA RoomInv ==
  ASSUME Inv, NEW p \in Procs, Room(p)
  PROVE  Inv'
<1>0. id[p] = posts /\ posts \in Ids /\ mutex = p
  BY DEF Inv, Serial, Holding, Room, At
<1>1. TypeOK'
  <2>1. lost' \subseteq Ids
    BY <1>0 DEF Inv, TypeOK, Room
  <2>2. PICK label \in {"give", "insert"} : pc' = [pc EXCEPT ![p] = label]
    BY DEF Room, Goto
  <2>3. /\ pc' \in [Procs -> Labels \cup DemoLabels]
        /\ \A q \in Procs \ {Demo} : pc'[q] \in Labels
        /\ pc'[Demo] # "idle"
    BY <2>2, LinkkitAssumption DEF Inv, TypeOK, Labels
  <2> QED BY <2>1, <2>3 DEF Inv, TypeOK, Room
<1>2. Bounded'
  BY LinkkitAssumption DEF Inv, TypeOK, Bounded, Waiters, Room, At, Goto, Labels, DemoLabels
<1>3. Serial'
  BY LinkkitAssumption DEF Inv, TypeOK, Serial, Holding, Room, At, Goto, Labels, DemoLabels
<1>4. Known'
  BY LinkkitAssumption DEF Inv, TypeOK, Known, Room, At, Goto, Labels, DemoLabels
<1>5. Handled'
  BY LinkkitAssumption DEF Inv, TypeOK, Handled, Room, At, Goto, Labels, DemoLabels
<1>6. Once'
  BY LinkkitAssumption DEF Inv, TypeOK, Once, Room, At, Goto, Labels, DemoLabels
<1>7. HasRoom'
  <2>1. Cardinality(cache) \in Nat
    BY IdsFinite DEF Inv, TypeOK
  <2>2. cache' = cache /\ (pc'[p] = "insert" => Cardinality(cache) < CacheMax)
    BY <2>1, LinkkitAssumption DEF Inv, TypeOK, Room, Goto
  <2>3. \A q \in Procs \ {p} : pc'[q] = pc[q]
    BY DEF Inv, TypeOK, Room, Goto
  <2> QED BY <2>2, <2>3 DEF Inv, HasRoom, CacheWithinLimit
<1> QED BY <1>1, <1>2, <1>3, <1>4, <1>5, <1>6, <1>7 DEF Inv

LEMMA InsertInv ==
  ASSUME Inv, NEW p \in Procs, Insert(p)
  PROVE  Inv'
<1>0. id[p] = posts /\ posts \in Ids /\ mutex = p /\ posts \notin noted
  BY DEF Inv, Serial, Holding, Insert, At
<1>1. TypeOK'
  BY <1>0, LinkkitAssumption DEF Inv, TypeOK, Insert, At, Goto, Labels, DemoLabels
<1>2. Bounded'
  BY LinkkitAssumption DEF Inv, TypeOK, Bounded, Waiters, Insert, At, Goto, Labels, DemoLabels
<1>3. Serial'
  BY LinkkitAssumption DEF Inv, TypeOK, Serial, Holding, Insert, At, Goto, Labels, DemoLabels
<1>4. Known'
  BY <1>0, LinkkitAssumption DEF Inv, TypeOK, Known, Insert, Ids
<1>5. Handled'
  BY LinkkitAssumption DEF Inv, TypeOK, Handled, Insert, At, Goto, Labels, DemoLabels
<1>6. Once'
  BY <1>0, LinkkitAssumption DEF Inv, TypeOK, Known, Once, Insert, At, Goto, Labels
<1>7. HasRoom'
  <2>1. /\ Cardinality(cache) \in Nat /\ Cardinality(cache') \in Nat
        /\ Cardinality(cache') <= Cardinality(cache) + 1
    BY <1>0, <1>1, IdsFinite DEF Inv, TypeOK, Insert
  <2>2. Cardinality(cache) < CacheMax
    BY DEF Inv, HasRoom, Insert, At
  <2>3. \A q \in Procs : pc'[q] # "insert"
    BY <1>0, LinkkitAssumption DEF Inv, TypeOK, Serial, Holding, Insert, Goto
  <2> QED BY <2>1, <2>2, <2>3, LinkkitAssumption DEF HasRoom, CacheWithinLimit
<1> QED BY <1>1, <1>2, <1>3, <1>4, <1>5, <1>6, <1>7 DEF Inv

LEMMA GiveInv ==
  ASSUME Inv, NEW p \in Procs, Give(p)
  PROVE  Inv'
<1>1. TypeOK'
  BY LinkkitAssumption DEF Inv, TypeOK, Serial, Handled, Ids, Give, At, Goto, Labels, DemoLabels
<1>2. Bounded'
  BY LinkkitAssumption DEF Inv, TypeOK, Bounded, Waiters, Give, At, Goto, Labels, DemoLabels
<1>3. Serial'
  BY LinkkitAssumption DEF Inv, TypeOK, Serial, Holding, Give, At, Goto, Labels, DemoLabels
<1>4. Known'
  BY LinkkitAssumption DEF Inv, TypeOK, Known, Give, At, Goto, Labels, DemoLabels
<1>5. Handled'
  BY LinkkitAssumption DEF Inv, TypeOK, Handled, Give, At, Goto, Labels, DemoLabels
<1>6. Once'
  BY LinkkitAssumption DEF Inv, TypeOK, Once, Give, At, Goto, Labels, DemoLabels
<1>7. HasRoom'
  BY LinkkitAssumption DEF Inv, TypeOK, HasRoom, CacheWithinLimit, Give, At, Goto, Labels, DemoLabels
<1> QED BY <1>1, <1>2, <1>3, <1>4, <1>5, <1>6, <1>7 DEF Inv

LEMMA ReceiveInv ==
  ASSUME Inv, Receive
  PROVE  Inv'
<1>1. TypeOK'
  BY LinkkitAssumption DEF Inv, TypeOK, Serial, Handled, Ids, Receive, At, Goto, Labels, DemoLabels
<1>2. Bounded'
  BY LinkkitAssumption DEF Inv, TypeOK, Bounded, Waiters, Receive, At, Goto, Labels, DemoLabels
<1>3. Serial'
  BY LinkkitAssumption DEF Inv, TypeOK, Serial, Holding, Receive, At, Goto, Labels, DemoLabels
<1>4. Known'
  BY LinkkitAssumption DEF Inv, TypeOK, Known, Receive, At, Goto, Labels, DemoLabels
<1>5. Handled'
  BY LinkkitAssumption DEF Inv, TypeOK, Handled, Receive, At, Goto, Labels, DemoLabels
<1>6. Once'
  BY LinkkitAssumption DEF Inv, TypeOK, Once, Receive, At, Goto, Labels, DemoLabels
<1>7. HasRoom'
  BY LinkkitAssumption DEF Inv, TypeOK, HasRoom, CacheWithinLimit, Receive, At, Goto, Labels, DemoLabels
<1> QED BY <1>1, <1>2, <1>3, <1>4, <1>5, <1>6, <1>7 DEF Inv

LEMMA SearchInv ==
  ASSUME Inv, Search
  PROVE  Inv'
<1>1. TypeOK'
  BY LinkkitAssumption DEF Inv, TypeOK, Serial, Handled, Ids, Search, At, Goto, Labels, DemoLabels
<1>2. Bounded'
  BY LinkkitAssumption DEF Inv, TypeOK, Bounded, Waiters, Search, At, Goto, Labels, DemoLabels
<1>3. Serial'
  BY LinkkitAssumption DEF Inv, TypeOK, Serial, Holding, Search, At, Goto, Labels, DemoLabels
<1>4. Known'
  BY LinkkitAssumption DEF Inv, TypeOK, Known, Search, At, Goto, Labels, DemoLabels
<1>5. Handled'
  BY LinkkitAssumption DEF Inv, TypeOK, Handled, Search, At, Goto, Labels, DemoLabels
<1>6. Once'
  BY LinkkitAssumption DEF Inv, TypeOK, Once, Search, At, Goto, Labels, DemoLabels
<1>7. HasRoom'
  BY LinkkitAssumption DEF Inv, TypeOK, HasRoom, CacheWithinLimit, Search, At, Goto, Labels, DemoLabels
<1> QED BY <1>1, <1>2, <1>3, <1>4, <1>5, <1>6, <1>7 DEF Inv

LEMMA TurnInv ==
  ASSUME Inv, YieldEnds \/ Ticked \/ Dispatched
  PROVE  Inv'
<1>1. TypeOK'
  BY LinkkitAssumption DEF Inv, TypeOK, Serial, Handled, Ids, YieldEnds, Ticked, Dispatched, At, Goto, Labels, DemoLabels
<1>2. Bounded'
  <2>1. Waiters' = Waiters /\ posts' = posts
    BY LinkkitAssumption DEF Inv, TypeOK, Waiters, YieldEnds, Ticked, Dispatched, At, Goto
  <2> QED BY <2>1 DEF Inv, Bounded
<1>3. Serial'
  BY LinkkitAssumption DEF Inv, TypeOK, Serial, Holding, YieldEnds, Ticked, Dispatched, At, Goto, Labels, DemoLabels
<1>4. Known'
  BY LinkkitAssumption DEF Inv, TypeOK, Known, YieldEnds, Ticked, Dispatched, At, Goto, Labels, DemoLabels
<1>5. Handled'
  BY LinkkitAssumption DEF Inv, TypeOK, Handled, YieldEnds, Ticked, Dispatched, At, Goto, Labels, DemoLabels
<1>6. Once'
  BY LinkkitAssumption DEF Inv, TypeOK, Once, YieldEnds, Ticked, Dispatched, At, Goto, Labels, DemoLabels
<1>7. HasRoom'
  BY LinkkitAssumption DEF Inv, TypeOK, HasRoom, CacheWithinLimit, YieldEnds, Ticked, Dispatched, At, Goto, Labels, DemoLabels
<1> QED BY <1>1, <1>2, <1>3, <1>4, <1>5, <1>6, <1>7 DEF Inv

\* What demo_task puts in the queue is not in it yet.
LEMMA SendOnce ==
  ASSUME Inv, NEW i \in cache, pc[Demo] # "remove", SendToUser(i)
  PROVE  /\ queue' \in Seq(Ids) /\ IsInjective(queue')
         /\ ToSet(queue') \in {ToSet(queue), ToSet(queue) \cup {i}}
         /\ lost' \subseteq Ids
<1>1. i \in Ids /\ i \notin ToSet(queue) /\ IsInjective(queue) /\ queue \in Seq(Ids)
  BY DEF Inv, TypeOK, Once
<1>2. CASE Len(queue) < QueueMax
  <2>1. queue' = Append(queue, i) /\ lost' = lost
    BY <1>2 DEF SendToUser
  <2>2. /\ Append(queue, i) \in Seq(Ids) /\ IsInjective(Append(queue, i))
        /\ ToSet(Append(queue, i)) = ToSet(queue) \cup {i}
    BY <1>1, AppendOnce
  <2> QED BY <2>1, <2>2 DEF Inv, TypeOK
<1>3. CASE ~(Len(queue) < QueueMax)
  BY <1>1, <1>3 DEF Inv, TypeOK, SendToUser
<1> QED BY <1>2, <1>3

LEMMA EnqueueInv ==
  ASSUME Inv, Enqueue
  PROVE  Inv'
<1>0. /\ queue' \in Seq(Ids) /\ IsInjective(queue')
      /\ ToSet(queue') \in {ToSet(queue), ToSet(queue) \cup {id[Demo]}}
      /\ lost' \subseteq Ids
  BY SendOnce DEF Inv, TypeOK, Handled, Enqueue, At
<1>1. TypeOK'
  BY <1>0, LinkkitAssumption DEF Inv, TypeOK, Enqueue, At, Goto, Labels, DemoLabels
<1>2. Bounded'
  BY LinkkitAssumption DEF Inv, TypeOK, Bounded, Waiters, Enqueue, At, Goto, Labels, DemoLabels
<1>3. Serial'
  BY LinkkitAssumption DEF Inv, TypeOK, Serial, Holding, Enqueue, At, Goto, Labels, DemoLabels
<1>4. Known'
  BY <1>0 DEF Inv, TypeOK, Known, Handled, Enqueue, At
<1>5. Handled'
  BY LinkkitAssumption DEF Inv, TypeOK, Handled, Enqueue, At, Goto, Labels, DemoLabels
<1>6. Once'
  BY <1>0, LinkkitAssumption DEF Inv, TypeOK, Once, Enqueue, At, Goto
<1>7. HasRoom'
  BY LinkkitAssumption DEF Inv, TypeOK, HasRoom, CacheWithinLimit, Enqueue, At, Goto, Labels, DemoLabels
<1> QED BY <1>1, <1>2, <1>3, <1>4, <1>5, <1>6, <1>7 DEF Inv

LEMMA UncacheInv ==
  ASSUME Inv, Uncache
  PROVE  Inv'
<1>0. id[Demo] \in Ids
  BY DEF Inv, Handled, Uncache, At
<1>1. TypeOK'
  BY LinkkitAssumption DEF Inv, TypeOK, Serial, Handled, Ids, Uncache, At, Goto, Labels, DemoLabels
<1>2. Bounded'
  BY LinkkitAssumption DEF Inv, TypeOK, Bounded, Waiters, Uncache, At, Goto, Labels, DemoLabels
<1>3. Serial'
  BY LinkkitAssumption DEF Inv, TypeOK, Serial, Holding, Uncache, At, Goto, Labels, DemoLabels
<1>4. Known'
  BY LinkkitAssumption DEF Inv, TypeOK, Known, Uncache, At, Goto, Labels, DemoLabels
<1>5. Handled'
  BY LinkkitAssumption DEF Inv, TypeOK, Handled, Uncache, At, Goto, Labels, DemoLabels
<1>6. Once'
  BY LinkkitAssumption DEF Inv, TypeOK, Once, Uncache, At, Goto, Labels, DemoLabels
<1>7. HasRoom'
  <2>1. /\ Cardinality(cache) \in Nat /\ Cardinality(cache') \in Nat
        /\ Cardinality(cache') <= Cardinality(cache)
    BY <1>0, <1>1, IdsFinite DEF Inv, TypeOK, Uncache
  <2>2. \A q \in Procs : pc'[q] = "insert" => pc[q] = "insert"
    BY DEF Inv, TypeOK, Uncache, Goto
  <2> QED BY <2>1, <2>2, LinkkitAssumption DEF Inv, HasRoom, CacheWithinLimit
<1> QED BY <1>1, <1>2, <1>3, <1>4, <1>5, <1>6, <1>7 DEF Inv

LEMMA AgeInv ==
  ASSUME Inv, NEW i \in Ids, Age(i)
  PROVE  Inv'
<1>1. TypeOK'
  BY LinkkitAssumption DEF Inv, TypeOK, Serial, Handled, Ids, Age, At, Goto, Labels, DemoLabels
<1>2. Bounded'
  BY LinkkitAssumption DEF Inv, TypeOK, Bounded, Waiters, Age, At, Goto, Labels, DemoLabels
<1>3. Serial'
  BY LinkkitAssumption DEF Inv, TypeOK, Serial, Holding, Age, At, Goto, Labels, DemoLabels
<1>4. Known'
  BY LinkkitAssumption DEF Inv, TypeOK, Known, Age, At, Goto, Labels, DemoLabels
<1>5. Handled'
  BY LinkkitAssumption DEF Inv, TypeOK, Handled, Age, At, Goto, Labels, DemoLabels
<1>6. Once'
  BY LinkkitAssumption DEF Inv, TypeOK, Once, Age, At, Goto, Labels, DemoLabels
<1>7. HasRoom'
  BY LinkkitAssumption DEF Inv, TypeOK, HasRoom, CacheWithinLimit, Age, At, Goto, Labels, DemoLabels
<1> QED BY <1>1, <1>2, <1>3, <1>4, <1>5, <1>6, <1>7 DEF Inv

LEMMA TimeoutInv ==
  ASSUME Inv, NEW i \in Ids, Timeout(i)
  PROVE  Inv'
<1>0. /\ queue' \in Seq(Ids) /\ IsInjective(queue')
      /\ ToSet(queue') \in {ToSet(queue), ToSet(queue) \cup {i}}
      /\ lost' \subseteq Ids
  BY SendOnce DEF Inv, TypeOK, Handled, Timeout, At
<1>1. TypeOK'
  BY <1>0, LinkkitAssumption DEF Inv, TypeOK, Timeout, At, Goto, Labels, DemoLabels
<1>2. Bounded'
  BY LinkkitAssumption DEF Inv, TypeOK, Bounded, Waiters, Timeout, At, Goto, Labels, DemoLabels
<1>3. Serial'
  BY LinkkitAssumption DEF Inv, TypeOK, Serial, Holding, Timeout, At, Goto, Labels, DemoLabels
<1>4. Known'
  BY <1>0 DEF Inv, TypeOK, Known, Handled, Timeout, At
<1>5. Handled'
  BY LinkkitAssumption DEF Inv, TypeOK, Handled, Timeout, At, Goto, Labels, DemoLabels
<1>6. Once'
  BY <1>0, LinkkitAssumption DEF Inv, TypeOK, Once, Timeout, At, Goto
<1>7. HasRoom'
  <2>1. /\ Cardinality(cache) \in Nat /\ Cardinality(cache') \in Nat
        /\ Cardinality(cache') <= Cardinality(cache)
    BY <1>0, <1>1, IdsFinite DEF Inv, TypeOK, Timeout
  <2>2. \A q \in Procs : pc'[q] = "insert" => pc[q] = "insert"
    BY DEF Inv, TypeOK, Timeout, Goto
  <2> QED BY <2>1, <2>2, LinkkitAssumption DEF Inv, HasRoom, CacheWithinLimit
<1> QED BY <1>1, <1>2, <1>3, <1>4, <1>5, <1>6, <1>7 DEF Inv

LEMMA DeliverInv ==
  ASSUME Inv, Deliver
  PROVE  Inv'
<1>0. /\ queue' \in Seq(Ids) /\ IsInjective(queue')
      /\ Head(queue) \in ToSet(queue) /\ Head(queue) \in Ids
      /\ ToSet(queue') = ToSet(queue) \ {Head(queue)}
  BY TailOnce DEF Inv, TypeOK, Once, Deliver
<1>1. TypeOK'
  <2>1. answers' \in [Ids -> Nat]
    BY <1>0 DEF Inv, TypeOK, Deliver
  <2>2. CASE UNCHANGED <<pc, back>>
    BY <1>0, <2>1, <2>2 DEF Inv, TypeOK, Deliver
  <2>3. CASE back' = [back EXCEPT ![Demo] = "dispatch"] /\ Goto(Demo, "take")
    BY <1>0, <2>1, <2>3, LinkkitAssumption DEF Inv, TypeOK, Deliver, Goto, Labels
  <2> QED BY <2>2, <2>3 DEF Deliver
<1>2. Bounded'
  <2>1. CASE UNCHANGED pc
    BY <2>1 DEF Inv, Bounded, Waiters, Deliver
  <2>2. CASE MayPost /\ Goto(Demo, "take")
    <3>1. Waiters' = Waiters \cup {Demo}
      BY <2>2, LinkkitAssumption DEF Inv, TypeOK, Goto, Waiters
    <3>2. /\ Cardinality(Waiters) \in Nat
          /\ Cardinality(Waiters \cup {Demo}) <= Cardinality(Waiters) + 1
          /\ Cardinality(Waiters \cup {Demo}) \in Nat
      BY WaitersFinite, LinkkitAssumption, Waiters \in SUBSET Procs,
         Waiters \cup {Demo} \in SUBSET Procs DEF Waiters
    <3> QED BY <2>2, <3>1, <3>2, LinkkitAssumption
            DEF Inv, TypeOK, Bounded, Deliver, MayPost
  <2> QED BY <2>1, <2>2 DEF Deliver
<1>3. Serial'
  BY LinkkitAssumption DEF Inv, TypeOK, Serial, Holding, Deliver, At, Goto, Labels, DemoLabels
<1>4. Known'
  BY <1>0 DEF Inv, Known, Deliver
<1>5. Handled'
  BY LinkkitAssumption DEF Inv, TypeOK, Handled, Deliver, At, Goto, Labels, DemoLabels
<1>6. Once'
  BY <1>0, LinkkitAssumption DEF Inv, TypeOK, Once, Deliver, At, Goto
<1>7. HasRoom'
  BY LinkkitAssumption DEF Inv, TypeOK, HasRoom, CacheWithinLimit, Deliver, At, Goto, Labels, DemoLabels
<1> QED BY <1>1, <1>2, <1>3, <1>4, <1>5, <1>6, <1>7 DEF Inv

LEMMA StepInv == Inv /\ [Next]_vars => Inv'
<1> SUFFICES ASSUME Inv, [Next]_vars PROVE Inv'
  OBVIOUS
<1>1. ASSUME NEW p \in Procs, Post(p) \/ Report(p) PROVE Inv'
  BY <1>1, PostInv, TakeInv, PublishInv, RoomInv, InsertInv, GiveInv DEF Report
<1>2. CASE Receive \/ Reply
  BY <1>2, ReceiveInv, SearchInv, EnqueueInv, UncacheInv DEF Reply
<1>3. CASE Dispatch
  BY <1>3, TurnInv, TimeoutInv, DeliverInv DEF Dispatch
<1>4. ASSUME NEW i \in Ids, Age(i) PROVE Inv'
  BY <1>4, AgeInv
<1>5. CASE UNCHANGED vars
  <2>1. UNCHANGED Waiters
    BY <1>5 DEF vars, Waiters
  <2> QED BY <1>5, <2>1 DEF vars, Inv, TypeOK, Bounded, Serial, Known, Handled, Once,
                            HasRoom, CacheWithinLimit
<1> QED BY <1>1, <1>2, <1>3, <1>4, <1>5 DEF Next

LEMMA Invariant == Spec => []Inv
<1> QED BY InitInv, StepInv, PTL DEF Spec

-----------------------------------------------------------------------------
(* The theorems.                                                           *)

\* Nothing but known messages is cached, queued, timed out and answered.
THEOREM TypeCorrect == Spec => []TypeOK
<1>1. Inv => TypeOK
  BY DEF Inv
<1> QED BY <1>1, Invariant, PTL

\* The cache never outgrows its limit, although the limit is looked at
\* outside the lock of the cache: the mutex of the posts is enough, for any
\* tasks.
THEOREM CacheBounded == Spec => []CacheWithinLimit
<1>1. Inv => CacheWithinLimit
  BY DEF Inv, HasRoom
<1> QED BY <1>1, Invariant, PTL

\* What a step means to the program that has posted.
LEMMA StepPromise == Inv /\ [Next]_vars => [Promise!Next]_<<noted, Waiting, answers>>
<1> SUFFICES ASSUME Inv, [Next]_vars PROVE [Promise!Next]_<<noted, Waiting, answers>>
  OBVIOUS
<1> USE DEF Waiting
<1>1. ASSUME NEW p \in Procs, Insert(p) PROVE Promise!Post(id[p]) /\ id[p] \in Ids
  BY <1>1 DEF Inv, Serial, Holding, Insert, At, Promise!Post
<1>2. CASE Enqueue
  <2>1. /\ id[Demo] \in cache
        /\ ToSet(queue') \in {ToSet(queue), ToSet(queue) \cup {id[Demo]}}
    BY <1>2, SendOnce DEF Inv, Handled, Enqueue, At
  <2> QED BY <1>2, <2>1 DEF Enqueue
<1>3. CASE Uncache
  <2>1. Waiting' \subseteq Waiting
    BY <1>3 DEF Uncache
  <2>2. Promise!GiveUp(Waiting \ Waiting')
    BY <1>3, <2>1 DEF Uncache, Promise!GiveUp
  <2> QED BY <2>2 DEF Promise!Next
<1>4. ASSUME NEW i \in Ids, Timeout(i) PROVE Promise!Next
  <2>1. i \in cache /\ ToSet(queue') \in {ToSet(queue), ToSet(queue) \cup {i}}
    BY <1>4, SendOnce DEF Inv, TypeOK, Timeout, At
  <2>2. Waiting' \subseteq Waiting
    BY <1>4, <2>1 DEF Timeout
  <2>3. Promise!GiveUp(Waiting \ Waiting')
    BY <1>4, <2>2 DEF Timeout, Promise!GiveUp
  <2> QED BY <2>3 DEF Promise!Next
<1>5. CASE Deliver
  <2>1. /\ Head(queue) \in ToSet(queue) /\ Head(queue) \in Ids
        /\ ToSet(queue') = ToSet(queue) \ {Head(queue)}
    BY <1>5, TailOnce DEF Inv, TypeOK, Once, Deliver
  <2>2. Head(queue) \notin cache
    BY <1>5, <2>1 DEF Inv, Once, Deliver, At
  <2>3. Promise!Answer(Head(queue))
    BY <1>5, <2>1, <2>2 DEF Deliver, Promise!Answer
  <2> QED BY <2>1, <2>3 DEF Promise!Next
<1>6. ASSUME NEW p \in Procs,
             Post(p) \/ Take(p) \/ Publish(p) \/ Published(p) \/ Room(p) \/ Give(p)
      PROVE  UNCHANGED <<noted, Waiting, answers>>
  BY <1>6 DEF Post, Take, Publish, Published, Room, Give
<1>7. CASE Receive \/ Search \/ YieldEnds \/ Ticked \/ Dispatched \/ UNCHANGED vars
  BY <1>7 DEF Receive, Search, YieldEnds, Ticked, Dispatched, vars
<1>8. ASSUME NEW i \in Ids, Age(i) PROVE UNCHANGED <<noted, Waiting, answers>>
  BY <1>8 DEF Age
<1> QED BY <1>1, <1>2, <1>3, <1>4, <1>5, <1>6, <1>7, <1>8
        DEF Next, Report, Reply, Dispatch, Promise!Next

\* Every message that was noted is answered once at most, and none but those:
\* the device model implements Answers.
THEOREM Implements == Spec => KeepsPromise
<1>1. Init => Promise!Init
  BY EmptyOnce DEF Init, Promise!Init, Waiting
<1> QED BY <1>1, Invariant, StepPromise, PTL DEF Spec, KeepsPromise, Promise!Spec
=============================================================================
