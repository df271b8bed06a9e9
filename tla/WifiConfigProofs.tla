-------------------------- MODULE WifiConfigProofs --------------------------
(***************************************************************************)
(* For any names and keys that the buffers hold, any commands and losses   *)
(* of power: a collection of the key-value store runs from its start to    *)
(* its end before a caller gets hold of the store, which KvFlash takes for *)
(* granted; the state keeps its types; and the name and the key that are   *)
(* tried belong together.                                                  *)
(***************************************************************************)
EXTENDS WifiConfig, SequenceTheorems, TLAPS

\* A caller takes the lock only while no collection task could run instead.
LEMMA LockAlone ==
  ASSUME NEW t \in Tasks, Lock(t), pc[Gc] \in GcLabels, Priority[t] < GcPriority
  PROVE  pc[Gc] = "absent"
<1> SUFFICES ASSUME pc[Gc] # "absent" PROVE FALSE
  OBVIOUS
<1>1. lock = None /\ Runs(t)
  BY DEF Lock, At
<1>2. Gc \in Procs /\ t \in Procs /\ t # Gc /\ None \notin Procs
  BY KvCallsAssumption DEF Procs
<1>3. Ready(Gc)
  BY <1>1 DEF Ready, GcLabels
<1>4. Inherited(t) = {Priority[t]} /\ GcPriority \in Inherited(Gc)
  BY <1>1, <1>2 DEF Inherited, Prio
<1> QED BY <1>1, <1>2, <1>3, <1>4, KvCallsAssumption DEF Runs, GcPriority

LEMMA GcLabelInit == Init => pc[Gc] \in GcLabels
  BY KvCallsAssumption DEF Init, KvInit, Booted, Procs, GcLabels

\* No step of a caller but the creation moves the collection task.
LEMMA GcLabelStep ==
  ASSUME pc[Gc] \in GcLabels, DOMAIN pc = Procs, [Next]_vars
  PROVE  (pc[Gc] \in GcLabels /\ DOMAIN pc = Procs)'
<1> USE KvCallsAssumption, WifiConfigAssumption DEF Goto, At, GcLabels, Procs
<1>1. ASSUME NEW t \in Tasks, TaskStep(t) PROVE (pc[Gc] \in GcLabels /\ DOMAIN pc = Procs)'
  BY <1>1 DEF TaskStep, Check, Count, Wait, Lock, Get, Set, Reset, Trigger, Create, Unlock
<1>2. CASE GcStep
  BY <1>2 DEF GcStep, Lock, Collect, Unlock, PostAll
<1>3. ASSUME NEW t \in Tasks, NEW c, Begin(t, c) \/ Rest(t) PROVE (pc[Gc] \in GcLabels /\ DOMAIN pc = Procs)'
  BY <1>3 DEF Begin, Rest
<1>4. Shell \in Tasks /\ Demo \in Tasks
  OBVIOUS
<1>5. CASE ShellStep \/ Factory \/ \E pair \in Configs : Enter(pair)
  BY <1>3, <1>4, <1>5
     DEF ShellStep, SameSsid, SameKey, SsidStored, KeyStored, ShellGoes, ShellRests,
         Factory, Enter
<1>6. CASE Wake \/ DemoStep \/ \E v \in Sessions : Session(v)
  BY <1>3, <1>4, <1>6 DEF Wake, DemoStep, GotSsid, GotKey, Stored, Session
<1>7. CASE Join \/ UNCHANGED vars
  BY <1>7 DEF Join, vars, kvVars
<1>8. CASE PowerFailure
  BY <1>8 DEF PowerFailure, KvReboot, Booted
<1> QED BY <1>1, <1>2, <1>5, <1>6, <1>7, <1>8 DEF Next, KvStep

\* kv_gc_task holds the lock from the creation of its task to the end of its
\* collection, as far as the callers can tell.
THEOREM CollectionComesFirst ==
  ASSUME \A t \in Tasks : Priority[t] < GcPriority
  PROVE  Spec => CollectFirst
<1> DEFINE I == pc[Gc] \in GcLabels /\ DOMAIN pc = Procs
           A == pc[Gc] # "absent" => lock' \in {lock, Gc, None}
<1>1. Init => I
  BY GcLabelInit DEF Init, KvInit, Booted
<1>2. I /\ [Next]_vars => I'
  BY GcLabelStep
<1>3. I /\ [Next]_vars => [A]_kvVars
  <2> SUFFICES ASSUME I, [Next]_vars PROVE [A]_kvVars
    OBVIOUS
  <2>1. ASSUME NEW t \in Tasks, TaskStep(t) PROVE A
    BY <2>1, LockAlone
       DEF TaskStep, Check, Count, Wait, Lock, Get, Set, Reset, Trigger, Create, Unlock
  <2>2. CASE GcStep
    BY <2>2 DEF GcStep, Lock, Collect, Unlock, PostAll
  <2>3. CASE ShellStep \/ Factory \/ \E pair \in Configs : Enter(pair)
    BY <2>3 DEF ShellStep, SameSsid, SameKey, SsidStored, KeyStored, ShellGoes,
                ShellRests, Factory, Enter, Begin, Rest
  <2>4. CASE Wake \/ DemoStep \/ \E v \in Sessions : Session(v)
    BY <2>4 DEF Wake, DemoStep, GotSsid, GotKey, Stored, Session, Begin, Rest
  <2>5. CASE Join \/ UNCHANGED vars
    BY <2>5 DEF Join, vars, kvVars
  <2>6. CASE PowerFailure
    BY <2>6 DEF PowerFailure, KvReboot
  <2> QED BY <2>1, <2>2, <2>3, <2>4, <2>5, <2>6 DEF Next, KvStep
<1> QED BY <1>1, <1>2, <1>3, PTL DEF Spec, CollectFirst

-----------------------------------------------------------------------------
(* The calls, whoever makes them.                                          *)

\* A process is where the lock is needed exactly if it holds it.
Holds == {"work", "reset", "trigger", "create", "unlock"}
Held == \A p \in Procs : lock = p <=> pc[p] \in Holds

LEMMA BeginType ==
  ASSUME KvTypeOK, NEW t \in Tasks, NEW c \in CallsOf, Begin(t, c)
  PROVE  /\ KvTypeOK'
         /\ pc'[t] \in {"check", "lock"} /\ call'[t] = c
         /\ \A p \in Procs : p # t => pc'[p] = pc[p]
         /\ \A u \in Tasks : u # t => call'[u] = call[u]
<1>1. /\ t \in Procs /\ t # Gc /\ c # None
      /\ pc \in [Procs -> TaskLabels \cup GcLabels] /\ call \in [Tasks -> CallsOf \cup {None}]
  BY KvCallsAssumption DEF Procs, KvTypeOK
<1>2. PICK l \in {"check", "lock"} : pc' = [pc EXCEPT ![t] = l]
  BY DEF Begin, Goto
<1>3. l \in TaskLabels
  BY DEF TaskLabels
<1>4. call' = [call EXCEPT ![t] = c] /\ UNCHANGED <<store, lock, trigger, waiter, sem, got>>
  BY DEF Begin
<1> QED BY <1>1, <1>2, <1>3, <1>4 DEF KvTypeOK

LEMMA RestType ==
  ASSUME KvTypeOK, NEW t \in Tasks, Rest(t)
  PROVE  /\ KvTypeOK'
         /\ pc'[t] = "idle" /\ UNCHANGED <<store, lock, call, got>>
         /\ \A p \in Procs : p # t => pc'[p] = pc[p]
<1>1. t \in Procs /\ t # Gc /\ pc \in [Procs -> TaskLabels \cup GcLabels]
  BY KvCallsAssumption DEF Procs, KvTypeOK
<1>2. /\ pc' = [pc EXCEPT ![t] = "idle"]
      /\ UNCHANGED <<store, lock, trigger, waiter, sem, call, got>>
  BY DEF Rest, Goto
<1>3. "idle" \in TaskLabels
  BY DEF TaskLabels
<1> QED BY <1>1, <1>2, <1>3 DEF KvTypeOK

\* A caller that goes on with its call.
LEMMA TaskStepType ==
  ASSUME KvTypeOK, NEW t \in Tasks, TaskStep(t)
  PROVE  KvTypeOK'
<1>1. /\ t \in Procs /\ t # Gc
      /\ pc \in [Procs -> TaskLabels \cup GcLabels] /\ store \in [Keys -> Vals \cup {None}]
      /\ call \in [Tasks -> CallsOf \cup {None}] /\ got \in [Tasks -> Vals \cup {None}]
      /\ pc[t] # "idle" => call[t] \in CallsOf
  BY KvCallsAssumption DEF Procs, KvTypeOK
<1>2. ASSUME NEW l \in TaskLabels, pc' = [pc EXCEPT ![t] = l], pc[t] # "idle",
             UNCHANGED <<call>>,
             lock' \in Procs \cup {None}, trigger' \in BOOLEAN,
             waiter' \in Nat, sem' \in Nat,
             store' \in [Keys -> Vals \cup {None}], got' \in [Tasks -> Vals \cup {None}]
      PROVE  KvTypeOK'
  BY <1>1, <1>2 DEF KvTypeOK
<1>3. CASE Check(t)
  BY <1>1, <1>2, <1>3 DEF Check, At, Goto, TaskLabels, KvTypeOK
<1>4. CASE Count(t)
  BY <1>1, <1>2, <1>4 DEF Count, At, Goto, TaskLabels, KvTypeOK
<1>5. CASE Wait(t)
  BY <1>1, <1>2, <1>5 DEF Wait, At, Goto, TaskLabels, KvTypeOK
<1>6. CASE Lock(t)
  BY <1>1, <1>2, <1>6 DEF Lock, At, Goto, TaskLabels, KvTypeOK
<1>7. CASE Get(t)
  <2>1. call[t].key \in Keys
    BY <1>1, <1>7 DEF Get, At, CallsOf
  <2>2. got' \in [Tasks -> Vals \cup {None}]
    BY <1>1, <1>7, <2>1 DEF Get
  <2> QED BY <1>1, <1>2, <1>7, <2>2 DEF Get, At, Goto, TaskLabels, KvTypeOK
<1>8. CASE Set(t)
  <2>1. call[t].key \in Keys /\ call[t].val \in Vals
    BY <1>1, <1>8 DEF Set, At, CallsOf
  <2>2. store' \in [Keys -> Vals \cup {None}]
    BY <1>1, <1>8, <2>1 DEF Set
  <2>3. \E l \in {"reset", "unlock"} : pc' = [pc EXCEPT ![t] = l]
    BY <1>8 DEF Set, Goto
  <2> QED BY <1>1, <1>2, <1>8, <2>2, <2>3 DEF Set, At, TaskLabels, KvTypeOK
<1>9. CASE Reset(t) \/ Trigger(t)
  <2>1. /\ pc[t] # "idle" /\ waiter' \in Nat /\ trigger' \in BOOLEAN
        /\ UNCHANGED <<store, lock, sem, call, got>>
    <3>1. CASE Reset(t)
      BY <3>1 DEF Reset, At, KvTypeOK
    <3>2. CASE Trigger(t)
      BY <3>2 DEF Trigger, At, KvTypeOK
    <3> QED BY <1>9, <3>1, <3>2
  <2>2. \E l \in {"trigger", "create"} : pc' = [pc EXCEPT ![t] = l]
    BY <1>9 DEF Reset, Trigger, Goto
  <2> QED BY <1>2, <2>1, <2>2 DEF TaskLabels, KvTypeOK
<1>10. CASE Create(t)
  <2>1. PICK g \in {"lock", "absent"} : pc' = [pc EXCEPT ![t] = "unlock", ![Gc] = g]
    BY <1>1, <1>10 DEF Create
  <2>2. Gc \in Procs /\ g \in GcLabels /\ "unlock" \in TaskLabels /\ pc[t] # "idle"
    BY <1>10 DEF Procs, GcLabels, TaskLabels, Create, At
  <2>3. UNCHANGED <<store, lock, trigger, waiter, sem, call, got>>
    BY <1>10 DEF Create
  <2>4. /\ pc'[Gc] = g /\ pc'[t] = "unlock" /\ DOMAIN pc' = Procs
        /\ \A p \in Procs : p # t /\ p # Gc => pc'[p] = pc[p]
        /\ pc' \in [Procs -> TaskLabels \cup GcLabels]
    BY <1>1, <2>1, <2>2
  <2>5. \A u \in Tasks : u \in Procs /\ u # Gc
    BY KvCallsAssumption DEF Procs
  <2> QED BY <2>2, <2>3, <2>4, <2>5 DEF KvTypeOK
<1>11. CASE Unlock(t)
  BY <1>1, <1>2, <1>11 DEF Unlock, At, Goto, TaskLabels, KvTypeOK
<1> QED BY <1>3, <1>4, <1>5, <1>6, <1>7, <1>8, <1>9, <1>10, <1>11 DEF TaskStep

\* The collection task.
LEMMA GcStepType ==
  ASSUME KvTypeOK, GcStep
  PROVE  KvTypeOK' /\ UNCHANGED <<store, call, got>> /\ \A t \in Tasks : pc'[t] = pc[t]
<1>1. /\ Gc \in Procs /\ \A t \in Tasks : t \in Procs /\ t # Gc
      /\ pc \in [Procs -> TaskLabels \cup GcLabels]
  BY KvCallsAssumption DEF Procs, KvTypeOK
<1>2. /\ lock' \in {lock, Gc, None} /\ trigger' \in BOOLEAN /\ sem' \in Nat
      /\ UNCHANGED <<store, waiter, call, got>>
  <2>1. CASE Lock(Gc) \/ Unlock(Gc)
    BY <2>1 DEF Lock, Unlock, KvTypeOK
  <2>2. CASE Collect
    BY <2>2 DEF Collect, KvTypeOK
  <2>3. CASE PostAll
    <3>1. sem' \in Nat
      BY <2>3 DEF PostAll, KvTypeOK
    <3> QED BY <2>3, <3>1 DEF PostAll, KvTypeOK
  <2> QED BY <2>1, <2>2, <2>3 DEF GcStep
<1>3. \E l \in GcLabels : pc' = [pc EXCEPT ![Gc] = l]
  BY DEF GcStep, Lock, Collect, Unlock, PostAll, Goto, GcLabels
<1> QED BY <1>1, <1>2, <1>3 DEF KvTypeOK

\* Who has the lock.
LEMMA HeldStep ==
  ASSUME KvTypeOK, Held, KvStep
  PROVE  Held'
<1>1. /\ Procs = Tasks \cup {Gc} /\ Gc \notin Tasks /\ None \notin Procs
      /\ pc \in [Procs -> TaskLabels \cup GcLabels]
      /\ \A p \in Procs : lock = p <=> pc[p] \in Holds
  BY KvCallsAssumption DEF Procs, KvTypeOK, Held
<1>2. ASSUME NEW p \in Procs, NEW l, pc' = [pc EXCEPT ![p] = l],
             \/ lock' = lock /\ (pc[p] \in Holds <=> l \in Holds)
             \/ lock = None /\ lock' = p /\ l \in Holds
             \/ pc[p] \in Holds /\ lock' = None /\ l \notin Holds
      PROVE  Held'
  BY <1>1, <1>2 DEF Held
<1>3. ASSUME NEW p \in Procs, Lock(p) \/ Unlock(p)
      PROVE  Held'
  <2>1. CASE Lock(p)
    BY <1>2, <1>3, <2>1 DEF Lock, At, Goto, Holds
  <2>2. CASE Unlock(p)
    <3>1. PICK l \in {"post", "done"} : pc' = [pc EXCEPT ![p] = l]
      BY <2>2 DEF Unlock, Goto
    <3> QED BY <1>2, <2>2, <3>1 DEF Unlock, At, Holds
  <2> QED BY <1>3, <2>1, <2>2
<1>4. ASSUME NEW t \in Tasks, TaskStep(t)
      PROVE  Held'
  <2>1. t \in Procs
    BY <1>1
  <2>2. CASE Check(t)
    <3>1. PICK l \in {"count", "lock"} : pc' = [pc EXCEPT ![t] = l]
      BY <2>2 DEF Check, Goto
    <3> QED BY <1>2, <2>1, <2>2, <3>1 DEF Check, At, Holds
  <2>3. CASE Count(t) \/ Wait(t) \/ Get(t) \/ Reset(t) \/ Trigger(t)
    BY <1>2, <2>1, <2>3 DEF Count, Wait, Get, Reset, Trigger, At, Goto, Holds
  <2>4. CASE Set(t)
    <3>1. PICK l \in {"reset", "unlock"} : pc' = [pc EXCEPT ![t] = l]
      BY <2>4 DEF Set, Goto
    <3> QED BY <1>2, <2>1, <2>4, <3>1 DEF Set, At, Holds
  <2>5. CASE Create(t)
    <3>1. PICK g \in {"lock", "absent"} : pc' = [pc EXCEPT ![t] = "unlock", ![Gc] = g]
      BY <1>1, <2>5 DEF Create
    <3>2. /\ pc'[t] = "unlock" /\ pc'[Gc] = g
          /\ \A p \in Procs : p # t /\ p # Gc => pc'[p] = pc[p]
      BY <1>1, <3>1
    <3> QED BY <1>1, <2>5, <3>2 DEF Create, At, Held, Holds
  <2> QED BY <1>3, <1>4, <2>1, <2>2, <2>3, <2>4, <2>5 DEF TaskStep
<1>5. CASE Collect \/ PostAll
  BY <1>1, <1>2, <1>5 DEF Collect, PostAll, At, Goto, Holds
<1> QED BY <1>1, <1>3, <1>4, <1>5 DEF KvStep, GcStep

-----------------------------------------------------------------------------
(* What is stored under the two keys fits into the buffers, so the lengths  *)
(* that demo_task is told stay in range.                                   *)

PairKeys == {"wifi_ssid", "wifi_key"}

\* demo_task reads the name or the key, and has read it.
Reading == demo \in {"ssid", "key"}
ReadKey == IF demo = "ssid" THEN "wifi_ssid" ELSE "wifi_key"
HasRead == Reading /\ pc[Demo] \in {"unlock", "done"}

Short(v) == v = None \/ Len(v) <= BufferLength

\* A caller that stores one of the two stores a short value.
ShortCall(c) == c.op = "set" /\ c.key \in PairKeys => Short(c.val)

ShortInv ==
    /\ TypeOK
    /\ \A k \in PairKeys : Short(store[k])
    /\ \A t \in Tasks : pc[t] # "idle" => ShortCall(call[t])
    /\ Reading => /\ pc[Demo] \in {"lock", "work", "unlock", "done"}
                  /\ call[Demo] = Read(ReadKey)
    /\ HasRead => Short(got[Demo])

LEMMA Callers ==
  /\ Shell \in Tasks /\ Demo \in Tasks /\ Shell # Demo
  /\ \A t \in Tasks : t \in Procs /\ t # Gc /\ t \in {Shell, Demo}
  /\ \A v \in Vals : v \in Seq(Nat) /\ Len(v) \in Nat \ {0}
BY KvCallsAssumption, WifiConfigAssumption DEF Procs

\* The calls of the two tasks.
LEMMA CallsType ==
  /\ \A k \in Keys : Read(k) \in CallsOf /\ ShortCall(Read(k))
  /\ \A k \in Keys, v \in Vals : /\ Write(k, v) \in CallsOf
                                 /\ k \notin PairKeys \/ Short(v) => ShortCall(Write(k, v))
BY DEF Read, Write, CallsOf, ShortCall

LEMMA PairsShort ==
  ASSUME NEW c \in Configs \cup {Invalid}
  PROVE  c[1] \in Vals /\ c[2] \in Vals /\ Short(c[1]) /\ Short(c[2])
<1>1. c[1] \in Vals /\ c[2] \in Vals
  BY WifiConfigAssumption
<1>2. CASE c \in Configs
  BY <1>1, <1>2, Callers, WifiConfigAssumption DEF Short, BufferLength
<1>3. CASE c = Invalid
  BY <1>1, <1>3 DEF Invalid, Short, BufferLength
<1> QED BY <1>1, <1>2, <1>3

\* kv_item_get writes over the beginning of a buffer.
LEMMA CopiedOver ==
  ASSUME NEW buffer \in Seq(Nat), NEW v \in Seq(Nat),
         Len(buffer) <= BufferLength, Len(v) <= BufferLength
  PROVE  /\ Copied(buffer, v) \in Seq(Nat)
         /\ Len(Copied(buffer, v)) <= BufferLength
         /\ IsPrefix(v, Copied(buffer, v))
<1> DEFINE rest == SubSeq(buffer, Len(v) + 1, Len(buffer))
<1>1. /\ rest \in Seq(Nat)
      /\ Len(rest) = IF Len(v) + 1 <= Len(buffer) THEN Len(buffer) - Len(v) ELSE 0
  BY SubSeqProperties, Len(v) \in Nat, Len(buffer) \in Nat
<1> HIDE DEF rest
<1> DEFINE c == v \o rest
<1>2. /\ c \in Seq(Nat) /\ Len(c) = Len(v) + Len(rest)
      /\ \A i \in 1 .. Len(v) : c[i] = v[i]
  <2>1. \A i \in 1 .. Len(v) + Len(rest) :
            c[i] = IF i <= Len(v) THEN v[i] ELSE rest[i - Len(v)]
    BY <1>1, ConcatProperties
  <2>2. c \in Seq(Nat) /\ Len(c) = Len(v) + Len(rest)
    BY <1>1, ConcatProperties
  <2>3. Len(v) \in Nat /\ Len(rest) \in Nat
    BY <1>1
  <2> HIDE DEF c
  <2> QED BY <2>1, <2>2, <2>3
<1>3. Copied(buffer, v) = c
  BY DEF Copied, rest
<1> HIDE DEF c
<1>4. SubSeq(v, 1, Len(v)) = SubSeq(c, 1, Len(v))
  BY <1>1, <1>2
<1> QED BY <1>1, <1>2, <1>3, <1>4 DEF IsPrefix, BufferLength

\* What a call does to the values, and to the other caller.
LEMMA TaskStepFacts ==
  ASSUME KvTypeOK, NEW t \in Tasks, TaskStep(t)
  PROVE  /\ call' = call /\ pc[t] # "idle"
         /\ \A u \in Tasks : u # t => pc'[u] = pc[u] /\ got'[u] = got[u]
         /\ \/ store' = store
            \/ /\ pc[t] = "work" /\ call[t].op = "set"
               /\ store' = [store EXCEPT ![call[t].key] = call[t].val]
         /\ \/ lock' \in {lock, None}
            \/ Lock(t) /\ lock' = t
<1>1. /\ pc \in [Procs -> TaskLabels \cup GcLabels] /\ got \in [Tasks -> Vals \cup {None}]
      /\ \A u \in Tasks : u \in Procs /\ u # Gc
  BY Callers DEF KvTypeOK
<1>2. CASE Check(t) \/ Count(t) \/ Wait(t) \/ Reset(t) \/ Trigger(t)
  BY <1>1, <1>2 DEF Check, Count, Wait, Reset, Trigger, At, Goto
<1>3. CASE Lock(t) \/ Unlock(t)
  BY <1>1, <1>3 DEF Lock, Unlock, At, Goto
<1>4. CASE Get(t)
  BY <1>1, <1>4 DEF Get, At, Goto
<1>5. CASE Set(t)
  <2>1. \E l \in {"reset", "unlock"} : pc' = [pc EXCEPT ![t] = l]
    BY <1>5 DEF Set, Goto
  <2>2. \/ store' = store
        \/ store' = [store EXCEPT ![call[t].key] = call[t].val]
    BY <1>5 DEF Set
  <2> QED BY <1>1, <1>5, <2>1, <2>2 DEF Set, At
<1>6. CASE Create(t)
  <2>1. \E g \in {"lock", "absent"} : pc' = [pc EXCEPT ![t] = "unlock", ![Gc] = g]
    BY <1>1, <1>6 DEF Create
  <2> QED BY <1>1, <1>6, <2>1 DEF Create, At
<1> QED BY <1>2, <1>3, <1>4, <1>5, <1>6 DEF TaskStep

\* What demo_task does while it reads.
LEMMA ReadStep ==
  ASSUME ShortInv, TaskStep(Demo), Reading
  PROVE  /\ store' = store
         /\ pc'[Demo] \in {"lock", "work", "unlock", "done"}
         /\ pc'[Demo] \in {"unlock", "done"} =>
               \/ pc[Demo] = "work" /\ lock' = lock /\ got'[Demo] = store[ReadKey]
               \/ pc[Demo] = "unlock" /\ lock' = None /\ got'[Demo] = got[Demo]
<1>1. /\ pc[Demo] \in {"lock", "work", "unlock", "done"} /\ call[Demo] = Read(ReadKey)
      /\ Demo \in Procs /\ Demo \in Tasks /\ Demo # Gc
      /\ pc \in [Procs -> TaskLabels \cup GcLabels] /\ got \in [Tasks -> Vals \cup {None}]
  BY Callers DEF ShortInv, TypeOK, KvTypeOK
<1>2. call[Demo].op = "get" /\ call[Demo].key = ReadKey
  BY <1>1 DEF Read
<1>3. Lock(Demo) \/ Get(Demo) \/ Unlock(Demo)
  BY <1>1, <1>2
     DEF TaskStep, Check, Count, Wait, Set, Reset, Trigger, Create, At
<1>4. CASE Lock(Demo)
  BY <1>1, <1>4 DEF Lock, Goto
<1>5. CASE Get(Demo)
  BY <1>1, <1>2, <1>5 DEF Get, At, Goto
<1>6. CASE Unlock(Demo)
  BY <1>1, <1>6 DEF Unlock, At, Goto
<1> QED BY <1>3, <1>4, <1>5, <1>6

\* What ShellTask does: it calls, or rests.
LEMMA ShellActs ==
  ASSUME TypeOK, ShellStep \/ Factory \/ \E pair \in Configs : Enter(pair)
  PROVE  /\ \/ \E c \in CallsOf : ShortCall(c) /\ Begin(Shell, c)
            \/ Rest(Shell)
         /\ shell' \in {"prompt", "same_ssid", "same_key", "ssid", "key"}
         /\ wanted' \in Configs \cup {Invalid}
         /\ commands' \in 0 .. MaxCommands
         /\ UNCHANGED <<demo, ssid, key, ssid_len, key_len, tried, failures>>
<1>1. wanted \in Configs \cup {Invalid} /\ commands \in 0 .. MaxCommands
  BY DEF TypeOK
<1>2. /\ wanted[1] \in Vals /\ wanted[2] \in Vals /\ Short(wanted[1]) /\ Short(wanted[2])
      /\ Invalid[1] \in Vals /\ Short(Invalid[1])
  BY <1>1, PairsShort
<1>3. "wifi_ssid" \in Keys /\ "wifi_key" \in Keys
  BY WifiConfigAssumption
<1>4. \A pair : Command(pair) => wanted' = pair /\ commands' \in 0 .. MaxCommands
  BY <1>1, WifiConfigAssumption DEF Command
<1>5. ASSUME NEW pair \in Configs, Enter(pair) PROVE wanted' = pair /\ commands' \in 0 .. MaxCommands
  BY <1>4, <1>5 DEF Enter
<1>6. CASE \E pair \in Configs : Enter(pair)
  BY <1>3, <1>5, <1>6, CallsType DEF Enter, ShellGoes
<1>7. CASE Factory
  BY <1>2, <1>3, <1>4, <1>7, CallsType DEF Factory, ShellGoes
<1>8. CASE SameSsid \/ SameKey
  BY <1>1, <1>2, <1>3, <1>8, CallsType DEF SameSsid, SameKey, Continues, ShellGoes, ShellRests
<1>9. CASE SsidStored \/ KeyStored
  BY <1>1, <1>2, <1>3, <1>9, CallsType DEF SsidStored, KeyStored, Continues, ShellGoes, ShellRests
<1> QED BY <1>6, <1>7, <1>8, <1>9 DEF ShellStep

LEMMA InitShort == Init => ShortInv
<1> SUFFICES ASSUME Init PROVE ShortInv
  OBVIOUS
<1>1. KvTypeOK
  <2>1. pc = Booted(trigger) /\ trigger \in BOOLEAN
    BY DEF Init, KvInit
  <2>2. /\ pc \in [Procs -> TaskLabels \cup GcLabels]
        /\ \A t \in Tasks : pc[t] = "idle"
        /\ pc[Gc] \in GcLabels
    BY <2>1, Callers DEF Booted, Procs, TaskLabels, GcLabels
  <2>3. /\ store \in [Keys -> Vals \cup {None}] /\ lock = None /\ waiter = 0 /\ sem = 0
        /\ call \in [Tasks -> CallsOf \cup {None}] /\ got \in [Tasks -> Vals \cup {None}]
    BY DEF Init, KvInit, NoneOf
  <2> QED BY <2>1, <2>2, <2>3 DEF KvTypeOK, TaskLabels
<1>2. TypeOK
  BY <1>1, WifiConfigAssumption DEF Init, TypeOK, BufferLength
<1>3. \A t \in Tasks : pc[t] = "idle"
  BY Callers DEF Init, KvInit, Booted
<1>4. \A k \in PairKeys : Short(store[k])
  BY WifiConfigAssumption DEF Init, KvInit, PairKeys, Short
<1> QED BY <1>2, <1>3, <1>4 DEF Init, ShortInv, Reading, HasRead

\* A caller goes on with its call.
LEMMA TaskStepShort ==
  ASSUME ShortInv, NEW t \in Tasks, TaskStep(t), UNCHANGED wifiVars
  PROVE  ShortInv'
<1>1. TypeOK /\ KvTypeOK /\ store \in [Keys -> Vals \cup {None}]
  BY DEF ShortInv, TypeOK, KvTypeOK
<1>2. TypeOK'
  BY <1>1, TaskStepType DEF TypeOK, wifiVars
<1>3. /\ call' = call /\ pc[t] # "idle"
      /\ \A u \in Tasks : u # t => pc'[u] = pc[u] /\ got'[u] = got[u]
      /\ \/ store' = store
         \/ /\ pc[t] = "work" /\ call[t].op = "set"
            /\ store' = [store EXCEPT ![call[t].key] = call[t].val]
  BY <1>1, TaskStepFacts
<1>4. \A k \in PairKeys : Short(store'[k])
  <2>1. PairKeys \subseteq Keys /\ \A k \in PairKeys : Short(store[k])
    BY WifiConfigAssumption DEF ShortInv, PairKeys
  <2>2. ASSUME call[t].op = "set",
               store' = [store EXCEPT ![call[t].key] = call[t].val]
        PROVE  \A k \in PairKeys : Short(store'[k])
    <3>1. call[t].key \in PairKeys => Short(call[t].val)
      BY <1>3, <2>2 DEF ShortInv, ShortCall
    <3>2. \A k \in Keys : store'[k] = IF k = call[t].key THEN call[t].val ELSE store[k]
      BY <1>1, <2>2
    <3> QED BY <2>1, <3>1, <3>2
  <2> QED BY <1>3, <2>1, <2>2
<1>5. \A u \in Tasks : pc'[u] # "idle" => ShortCall(call'[u])
  BY <1>3 DEF ShortInv
<1>6. demo' = demo /\ (Reading' = Reading) /\ ReadKey' = ReadKey
  BY DEF wifiVars, Reading, ReadKey
<1>7. CASE ~Reading
  BY <1>2, <1>4, <1>5, <1>6, <1>7 DEF ShortInv, HasRead
<1>8. CASE Reading /\ t = Demo
  <2>1. /\ pc'[Demo] \in {"lock", "work", "unlock", "done"}
        /\ pc'[Demo] \in {"unlock", "done"} =>
               \/ got'[Demo] = store[ReadKey]
               \/ pc[Demo] = "unlock" /\ got'[Demo] = got[Demo]
    BY <1>8, ReadStep
  <2>2. ReadKey \in PairKeys
    BY DEF ReadKey, PairKeys
  <2>3. HasRead' => Short(got'[Demo])
    BY <1>6, <1>8, <2>1, <2>2 DEF ShortInv, HasRead
  <2>4. call'[Demo] = Read(ReadKey)'
    BY <1>3, <1>6, <1>8 DEF ShortInv, Read
  <2> QED BY <1>2, <1>4, <1>5, <2>1, <2>3, <2>4 DEF ShortInv
<1>9. CASE Reading /\ t # Demo
  <2>1. pc'[Demo] = pc[Demo] /\ got'[Demo] = got[Demo]
    BY <1>3, <1>9, Callers
  <2>2. call'[Demo] = Read(ReadKey)'
    BY <1>3, <1>6, <1>9 DEF ShortInv, Read
  <2> QED BY <1>2, <1>4, <1>5, <1>6, <1>9, <2>1, <2>2 DEF ShortInv, HasRead
<1> QED BY <1>7, <1>8, <1>9

\* A caller calls, or rests; demo_task is then about to read what it has called
\* for, or does not read.
LEMMA CallerShort ==
  ASSUME ShortInv, TypeOK', NEW t \in Tasks,
         \/ \E c \in CallsOf : /\ ShortCall(c) /\ Begin(t, c)
                               /\ t = Demo /\ Reading' => c = Read(ReadKey)'
         \/ Rest(t) /\ ~(t = Demo /\ Reading'),
         t # Demo => demo' = demo
  PROVE  ShortInv'
<1>1. KvTypeOK
  BY DEF ShortInv, TypeOK
<1>2. UNCHANGED <<store, got>>
  BY DEF Begin, Rest
<1>3. /\ \A u \in Tasks : u # t => pc'[u] = pc[u] /\ call'[u] = call[u]
      /\ \/ /\ pc'[t] \in {"check", "lock"} /\ ShortCall(call'[t])
            /\ t = Demo /\ Reading' => call'[t] = Read(ReadKey)'
         \/ pc'[t] = "idle" /\ ~(t = Demo /\ Reading')
  <2>1. CASE Rest(t) /\ ~(t = Demo /\ Reading')
    BY <1>1, <2>1, RestType, Callers
  <2>2. CASE \E c \in CallsOf : /\ ShortCall(c) /\ Begin(t, c)
                                /\ t = Demo /\ Reading' => c = Read(ReadKey)'
    <3>1. PICK c \in CallsOf : /\ ShortCall(c) /\ Begin(t, c)
                               /\ t = Demo /\ Reading' => c = Read(ReadKey)'
      BY <2>2
    <3>2. /\ pc'[t] \in {"check", "lock"} /\ call'[t] = c
          /\ \A p \in Procs : p # t => pc'[p] = pc[p]
          /\ \A u \in Tasks : u # t => call'[u] = call[u]
      BY <1>1, <3>1, BeginType
    <3>3. ShortCall(call'[t])
      BY <3>1, <3>2
    <3>4. t = Demo /\ Reading' => call'[t] = Read(ReadKey)'
      BY <3>1, <3>2
    <3> QED BY <3>2, <3>3, <3>4, Callers
  <2> QED BY <2>1, <2>2
<1>4. \A u \in Tasks : pc'[u] # "idle" => ShortCall(call'[u])
  BY <1>3 DEF ShortInv
<1>5. CASE t = Demo
  <2>1. ~HasRead'
    BY <1>3, <1>5 DEF HasRead
  <2>2. Reading' => pc'[Demo] = "lock" /\ call'[Demo] = Read(ReadKey)'
    <3>1. \A c : Begin(Demo, c) /\ c.op = "get" => pc' = [pc EXCEPT ![Demo] = "lock"]
      BY DEF Begin, Goto
    <3>2. pc \in [Procs -> TaskLabels \cup GcLabels] /\ Demo \in Procs
      BY <1>1, Callers DEF KvTypeOK
    <3>3. (Read(ReadKey)').op = "get"
      BY DEF Read
    <3> QED BY <1>3, <1>5, <3>1, <3>2, <3>3
  <2> QED BY <1>2, <1>4, <2>1, <2>2 DEF ShortInv
<1>6. CASE t # Demo
  <2>1. pc'[Demo] = pc[Demo] /\ call'[Demo] = call[Demo] /\ demo' = demo
    BY <1>3, <1>6, Callers
  <2>2. Reading' = Reading /\ ReadKey' = ReadKey
    BY <2>1 DEF Reading, ReadKey
  <2> QED BY <1>2, <1>4, <2>1, <2>2 DEF ShortInv, HasRead, Read
<1> QED BY <1>5, <1>6

LEMMA BufferNat == BufferLength \in Nat
BY DEF BufferLength

\* What one kv_item_get does to a buffer and to its length.
LEMMA BufferType ==
  ASSUME NEW v \in Vals \cup {None}, Short(v),
         NEW buffer \in Seq(Nat), Len(buffer) <= BufferLength, NEW len \in 1 .. BufferLength
  PROVE  /\ Length(v, len) \in 1 .. BufferLength
         /\ LET b == IF Fits(v, len) THEN Copied(buffer, v) ELSE buffer
            IN  /\ b \in Seq(Nat) /\ Len(b) <= BufferLength
                /\ Fits(v, len) => v # None /\ Length(v, len) = Len(v) /\ IsPrefix(v, b)
<1>1. CASE v = None
  BY <1>1 DEF Length, Fits
<1>2. CASE v # None
  <2>1. v \in Seq(Nat) /\ Len(v) \in 1 .. BufferLength
    <3>1. v \in Vals
      BY <1>2
    <3>2. v \in Seq(Nat) /\ Len(v) \in Nat \ {0}
      BY <3>1, Callers
    <3>3. Len(v) <= BufferLength
      BY <1>2 DEF Short
    <3> QED BY <3>2, <3>3, BufferNat
  <2>2. /\ Copied(buffer, v) \in Seq(Nat)
        /\ Len(Copied(buffer, v)) <= BufferLength
        /\ IsPrefix(v, Copied(buffer, v))
    <3>1. Len(v) <= BufferLength
      BY <2>1, BufferNat
    <3> QED BY <2>1, <3>1, CopiedOver
  <2> QED BY <1>2, <2>1, <2>2 DEF Length, Fits
<1> QED BY <1>1, <1>2

\* demo_task, beside the joining.
LEMMA DemoShort ==
  ASSUME ShortInv, Wake \/ DemoStep \/ \E v \in Sessions : Session(v)
  PROVE  ShortInv'
<1>1. /\ TypeOK /\ KvTypeOK /\ Demo \in Tasks
      /\ ssid \in Seq(Nat) /\ Len(ssid) <= BufferLength /\ ssid_len \in 1 .. BufferLength
      /\ key \in Seq(Nat) /\ Len(key) <= BufferLength /\ key_len \in 1 .. BufferLength
      /\ got[Demo] \in Vals \cup {None}
  BY Callers DEF ShortInv, TypeOK, KvTypeOK
<1>2. /\ "wifi_ssid" \in Keys /\ "wifi_key" \in Keys /\ "session" \in Keys
      /\ Sessions \subseteq Vals
  BY WifiConfigAssumption
<1>3. \A c \in CallsOf : Begin(Demo, c) => KvTypeOK'
  BY <1>1, BeginType
<1>4. Rest(Demo) => KvTypeOK'
  BY <1>1, RestType
<1>5. CASE Wake
  <2>1. /\ Begin(Demo, Read("wifi_ssid")) /\ demo' = "ssid"
        /\ UNCHANGED <<shell, wanted, ssid, key, ssid_len, key_len, tried, commands, failures>>
    BY <1>5 DEF Wake
  <2>2. Read("wifi_ssid") \in CallsOf /\ ShortCall(Read("wifi_ssid"))
    BY <1>2, CallsType
  <2>3. TypeOK'
    BY <1>1, <1>3, <2>1, <2>2 DEF TypeOK
  <2>4. (Read(ReadKey))' = Read("wifi_ssid")
    BY <2>1 DEF Read, ReadKey
  <2> QED BY <1>1, <2>1, <2>2, <2>3, <2>4, CallerShort
<1>6. CASE GotSsid
  <2> DEFINE b == IF Fits(got[Demo], ssid_len) THEN Copied(ssid, got[Demo]) ELSE ssid
  <2>1. HasRead /\ ssid' = b /\ ssid_len' = Length(got[Demo], ssid_len)
    BY <1>6 DEF GotSsid, HasRead, Reading
  <2>2. b \in Seq(Nat) /\ Len(b) <= BufferLength /\ ssid_len' \in 1 .. BufferLength
    BY <1>1, <2>1, BufferType DEF ShortInv
  <2> HIDE DEF b
  <2>3. /\ \/ Begin(Demo, Read("wifi_key")) /\ demo' = "key"
           \/ Rest(Demo) /\ demo' = "wait"
        /\ UNCHANGED <<shell, wanted, key, key_len, tried, commands, failures>>
    BY <1>6 DEF GotSsid
  <2>4. Read("wifi_key") \in CallsOf /\ ShortCall(Read("wifi_key"))
    BY <1>2, CallsType
  <2>5. TypeOK'
    <3>1. KvTypeOK' /\ demo' \in {"key", "wait"}
      BY <1>3, <1>4, <2>3, <2>4
    <3> QED BY <1>1, <2>1, <2>2, <2>3, <3>1 DEF TypeOK
  <2>6. CASE Begin(Demo, Read("wifi_key")) /\ demo' = "key"
    <3>1. (Read(ReadKey))' = Read("wifi_key")
      BY <2>6 DEF Read, ReadKey
    <3> QED BY <1>1, <2>4, <2>5, <2>6, <3>1, CallerShort
  <2>7. CASE Rest(Demo) /\ demo' = "wait"
    BY <1>1, <2>5, <2>7, CallerShort DEF Reading
  <2> QED BY <2>3, <2>6, <2>7
<1>7. CASE GotKey
  <2> DEFINE b == IF Fits(got[Demo], key_len) THEN Copied(key, got[Demo]) ELSE key
  <2>1. HasRead /\ key' = b /\ key_len' = Length(got[Demo], key_len)
    BY <1>7 DEF GotKey, HasRead, Reading
  <2>2. b \in Seq(Nat) /\ Len(b) <= BufferLength /\ key_len' \in 1 .. BufferLength
    BY <1>1, <2>1, BufferType DEF ShortInv
  <2> HIDE DEF b
  <2>3. /\ \/ tried' = <<ssid, key'>> /\ demo' = "join"
           \/ tried' = tried /\ demo' = "wait"
        /\ Rest(Demo)
        /\ UNCHANGED <<shell, wanted, ssid, ssid_len, commands, failures>>
    BY <1>7 DEF GotKey
  <2>4. demo' \in {"join", "wait"} /\ tried' \in {None} \cup Seq(Nat) \X Seq(Nat)
    BY <1>1, <2>1, <2>2, <2>3 DEF TypeOK
  <2>5. TypeOK'
    BY <1>1, <1>4, <2>1, <2>2, <2>3, <2>4 DEF TypeOK
  <2> QED BY <1>1, <2>3, <2>4, <2>5, CallerShort DEF Reading
<1>8. CASE Stored
  <2>1. TypeOK'
    BY <1>1, <1>4, <1>8 DEF Stored, wifiVars, TypeOK
  <2> QED BY <1>1, <1>8, <2>1, CallerShort DEF Stored, wifiVars, Reading
<1>9. ASSUME NEW v \in Sessions, Session(v) PROVE ShortInv'
  <2>1. Begin(Demo, Write("session", v)) /\ demo = "online" /\ UNCHANGED wifiVars
    BY <1>9 DEF Session
  <2>2. Write("session", v) \in CallsOf /\ ShortCall(Write("session", v))
    BY <1>2, CallsType DEF PairKeys
  <2>3. TypeOK'
    BY <1>1, <1>3, <2>1, <2>2 DEF wifiVars, TypeOK
  <2>4. ~Reading'
    BY <2>1 DEF wifiVars, Reading
  <2> QED BY <1>1, <2>1, <2>2, <2>3, <2>4, CallerShort
<1> QED BY <1>5, <1>6, <1>7, <1>8, <1>9 DEF DemoStep

LEMMA StepShort ==
  ASSUME ShortInv, [Next]_vars
  PROVE  ShortInv'
<1>1. TypeOK /\ KvTypeOK /\ \A t \in Tasks : t \in Procs
  BY Callers DEF ShortInv, TypeOK
<1>2. ASSUME NEW t \in Tasks, TaskStep(t), UNCHANGED wifiVars PROVE ShortInv'
  BY <1>2, TaskStepShort
<1>3. CASE GcStep /\ UNCHANGED wifiVars
  <2>1. KvTypeOK' /\ UNCHANGED <<store, call, got>> /\ \A t \in Tasks : pc'[t] = pc[t]
    BY <1>1, <1>3, GcStepType
  <2>2. TypeOK'
    BY <1>1, <1>3, <2>1 DEF wifiVars, TypeOK
  <2>3. Reading' = Reading /\ ReadKey' = ReadKey
    BY <1>3 DEF wifiVars, Reading, ReadKey
  <2>4. HasRead' = HasRead
    BY <2>1, <2>3, Callers DEF HasRead
  <2> QED BY <2>1, <2>2, <2>3, <2>4, Callers DEF ShortInv, Read
<1>4. CASE ShellStep \/ Factory \/ \E pair \in Configs : Enter(pair)
  <2>1. /\ \/ \E c \in CallsOf : ShortCall(c) /\ Begin(Shell, c)
           \/ Rest(Shell)
        /\ shell' \in {"prompt", "same_ssid", "same_key", "ssid", "key"}
        /\ wanted' \in Configs \cup {Invalid}
        /\ commands' \in 0 .. MaxCommands
        /\ UNCHANGED <<demo, ssid, key, ssid_len, key_len, tried, failures>>
    BY <1>1, <1>4, ShellActs
  <2>2. KvTypeOK'
    BY <1>1, <2>1, BeginType, RestType, Callers
  <2>3. TypeOK'
    BY <1>1, <2>1, <2>2 DEF TypeOK
  <2> QED BY <2>1, <2>3, CallerShort, Callers
<1>5. CASE Wake \/ DemoStep \/ \E v \in Sessions : Session(v)
  BY <1>5, DemoShort
<1>6. CASE Join
  <2>1. /\ pc[Demo] = "idle" /\ demo = "join" /\ demo' \in {"wait", "online"}
        /\ UNCHANGED <<kvVars, shell, wanted, ssid, key, ssid_len, key_len, tried, commands, failures>>
    BY <1>6 DEF Join
  <2>2. TypeOK'
    BY <1>1, <2>1 DEF kvVars, TypeOK, KvTypeOK
  <2>3. ~Reading'
    BY <2>1 DEF Reading
  <2> QED BY <2>1, <2>2, <2>3 DEF kvVars, ShortInv, HasRead
<1>7. CASE PowerFailure
  <2>1. KvTypeOK' /\ store' = store /\ \A t \in Tasks : pc'[t] = "idle"
    <3>1. KvReboot
      BY <1>7 DEF PowerFailure
    <3>2. /\ pc' \in [Procs -> TaskLabels \cup GcLabels]
          /\ \A t \in Tasks : pc'[t] = "idle"
          /\ pc'[Gc] \in GcLabels
      BY <3>1, Callers DEF KvReboot, Booted, Procs, TaskLabels, GcLabels
    <3>3. /\ call' \in [Tasks -> CallsOf \cup {None}] /\ got' \in [Tasks -> Vals \cup {None}]
          /\ store' = store /\ lock' = None /\ trigger' \in BOOLEAN
          /\ waiter' = 0 /\ sem' = 0
      BY <3>1 DEF KvReboot, NoneOf
    <3> QED BY <1>1, <3>2, <3>3 DEF KvTypeOK, TaskLabels
  <2>2. TypeOK'
    <3>1. failures' \in 0 .. MaxFailures
      BY <1>1, <1>7, WifiConfigAssumption DEF PowerFailure, TypeOK
    <3> QED BY <1>1, <1>7, <2>1, <3>1 DEF PowerFailure, TypeOK, BufferLength
  <2>3. ~Reading'
    BY <1>7 DEF PowerFailure, Reading
  <2> QED BY <2>1, <2>2, <2>3 DEF ShortInv, HasRead
<1>8. CASE UNCHANGED vars
  <2>1. Reading' = Reading /\ ReadKey' = ReadKey /\ HasRead' = HasRead
    BY <1>8 DEF vars, kvVars, wifiVars, Reading, ReadKey, HasRead
  <2>2. TypeOK'
    BY <1>1, <1>8 DEF vars, kvVars, wifiVars, TypeOK, KvTypeOK
  <2> QED BY <1>8, <2>1, <2>2 DEF vars, kvVars, ShortInv, Read
<1> QED BY <1>2, <1>3, <1>4, <1>5, <1>6, <1>7, <1>8 DEF Next, KvStep

\* Store, calls and buffers keep their types, whoever runs: the lengths that
\* kv_item_get returns, also of what does not fit, stay within the buffers.
THEOREM TypeCorrect == Spec => []TypeOK
<1>1. ShortInv /\ [Next]_vars => ShortInv'
  BY StepShort
<1>2. ShortInv => TypeOK
  BY DEF ShortInv
<1> QED BY InitShort, <1>1, <1>2, PTL DEF Spec

-----------------------------------------------------------------------------
(* The pair. Between its two reads demo_task is ready, or waits for the     *)
(* lock behind the collection: ShellTask, of lower priority, cannot take    *)
(* the lock, without which it cannot store.                                *)

DemoFirst == Priority[Shell] < Priority[Demo]

\* The name is read, the key is not yet tried.
Between == HasRead \/ demo = "key"

PairInv ==
    /\ ShortInv
    /\ Held
    /\ Between => lock # Shell
    /\ HasRead => got[Demo] = store[ReadKey]
    /\ demo = "key" => Stands("wifi_ssid", ssid, ssid_len)

\* The lock is not taken by ShellTask when demo_task waits for it, or is ready.
LEMMA ShellWaits ==
  ASSUME DemoFirst, KvTypeOK, Lock(Shell),
         pc[Demo] \in {"lock", "work", "unlock", "done"}
  PROVE  FALSE
<1>1. lock = None /\ Runs(Shell)
  BY DEF Lock, At
<1>2. Shell \in Procs /\ Demo \in Procs /\ Shell # Gc /\ Demo # Gc /\ None \notin Procs
  BY Callers, KvCallsAssumption DEF Procs
<1>3. Ready(Demo)
  BY <1>1 DEF Ready
<1>4. Inherited(Shell) = {Priority[Shell]} /\ Priority[Demo] \in Inherited(Demo)
  BY <1>1, <1>2 DEF Inherited, Prio
<1>5. Priority[Shell] \in Nat /\ Priority[Demo] \in Nat
  BY Callers, KvCallsAssumption
<1> QED BY <1>1, <1>2, <1>3, <1>4, <1>5 DEF Runs, DemoFirst

\* A call of a task.
LEMMA TaskStepPair ==
  ASSUME DemoFirst, PairInv, ShortInv', NEW t \in Tasks, TaskStep(t), UNCHANGED wifiVars
  PROVE  PairInv'
<1>1. KvTypeOK /\ t \in Procs /\ t \in {Shell, Demo} /\ Demo \in Tasks /\ Shell # Demo
      /\ Demo \in Procs /\ Shell \in Procs /\ Shell \in Tasks
  BY Callers DEF PairInv, ShortInv, TypeOK
<1>2. Held'
  BY <1>1, HeldStep DEF PairInv, KvStep
<1>3. /\ \A u \in Tasks : u # t => pc'[u] = pc[u] /\ got'[u] = got[u]
      /\ \/ store' = store
         \/ pc[t] = "work"
      /\ \/ lock' \in {lock, None}
         \/ Lock(t) /\ lock' = t
  BY <1>1, TaskStepFacts
<1>4. /\ Reading' = Reading /\ ReadKey' = ReadKey /\ demo' = demo
      /\ UNCHANGED <<ssid, ssid_len>>
  BY DEF wifiVars, Reading, ReadKey
<1>5. Shell # None
  BY <1>1, KvCallsAssumption DEF Procs
<1>6. CASE ~Reading
  BY <1>2, <1>4, <1>6 DEF PairInv, Between, HasRead, Reading
<1>7. CASE Reading /\ t = Demo
  <2>1. /\ store' = store
        /\ pc'[Demo] \in {"unlock", "done"} =>
              \/ pc[Demo] = "work" /\ lock' = lock /\ got'[Demo] = store[ReadKey]
              \/ pc[Demo] = "unlock" /\ lock' = None /\ got'[Demo] = got[Demo]
    BY <1>7, ReadStep DEF PairInv
  <2>2. pc[Demo] = "work" => lock = Demo
    BY <1>1 DEF PairInv, Held, Holds
  <2>3. HasRead' => lock' # Shell
    BY <1>1, <1>5, <2>1, <2>2 DEF HasRead
  <2>4. demo = "key" => lock' # Shell
    <3>1. demo = "key" => lock # Shell
      BY DEF PairInv, Between
    <3> QED BY <1>1, <1>3, <1>5, <1>7, <3>1
  <2>5. HasRead' => got'[Demo] = store[ReadKey]
    BY <1>7, <2>1 DEF HasRead, PairInv
  <2>6. demo = "key" => Stands("wifi_ssid", ssid, ssid_len)'
    BY <1>4, <2>1 DEF PairInv, Stands
  <2> QED BY <1>2, <1>4, <2>1, <2>3, <2>4, <2>5, <2>6 DEF PairInv, Between
<1>8. CASE Reading /\ t = Shell
  <2>1. pc'[Demo] = pc[Demo] /\ got'[Demo] = got[Demo]
    BY <1>1, <1>3, <1>8
  <2>2. HasRead' = HasRead /\ Between' = Between
    BY <1>4, <2>1 DEF HasRead, Between
  <2>3. pc[Demo] \in {"lock", "work", "unlock", "done"}
    BY <1>8 DEF PairInv, ShortInv
  <2>4. ~Lock(Shell)
    BY <1>1, <2>3, ShellWaits
  <2>5. Between => lock' # Shell
    BY <1>3, <1>5, <1>8, <2>4 DEF PairInv
  <2>6. Between => store' = store
    BY <1>1, <1>3, <1>8 DEF PairInv, Held, Holds
  <2>7. HasRead => Between
    BY DEF Between
  <2>8. HasRead' => got'[Demo] = store'[ReadKey']
    BY <1>4, <2>1, <2>2, <2>6, <2>7 DEF PairInv
  <2>9. demo' = "key" => Stands("wifi_ssid", ssid, ssid_len)'
    BY <1>4, <2>6 DEF PairInv, Stands, Between
  <2> QED BY <1>2, <2>2, <2>5, <2>8, <2>9 DEF PairInv
<1> QED BY <1>1, <1>6, <1>7, <1>8

\* A step of the callers that leaves lock and values alone, calls or rests.
LEMMA HeldCaller ==
  ASSUME KvTypeOK, Held, NEW t \in Tasks, Rest(t) \/ \E c \in CallsOf : Begin(t, c)
  PROVE  Held' /\ UNCHANGED <<store, lock, got>>
<1>1. UNCHANGED <<store, lock, got>> /\ pc[t] \in {"idle", "done"}
  BY DEF Begin, Rest, At
<1>2. /\ \A p \in Procs : p # t => pc'[p] = pc[p]
      /\ pc'[t] \in {"check", "lock", "idle"}
  <2>1. CASE Rest(t)
    BY <2>1, RestType
  <2>2. CASE \E c \in CallsOf : Begin(t, c)
    BY <2>2, BeginType
  <2> QED BY <2>1, <2>2
<1> QED BY <1>1, <1>2, Callers DEF Held, Holds

\* What TriedTogether says of a step.
TryPair ==
    demo # "join" /\ demo' = "join" =>
        /\ Stands("wifi_ssid", tried'[1], ssid_len')
        /\ Stands("wifi_key", tried'[2], key_len')

\* demo_task goes on when a read is over.
LEMMA DemoPair ==
  ASSUME PairInv, ShortInv', Wake \/ DemoStep \/ \E v \in Sessions : Session(v)
  PROVE  PairInv' /\ TryPair
<1>1. /\ KvTypeOK /\ Held /\ Demo \in Tasks /\ got[Demo] \in Vals \cup {None}
      /\ ssid \in Seq(Nat) /\ Len(ssid) <= BufferLength /\ ssid_len \in 1 .. BufferLength
      /\ key \in Seq(Nat) /\ Len(key) <= BufferLength /\ key_len \in 1 .. BufferLength
  BY Callers DEF PairInv, ShortInv, TypeOK, KvTypeOK
<1>2. /\ Read("wifi_ssid") \in CallsOf /\ Read("wifi_key") \in CallsOf
      /\ \A v \in Sessions : Write("session", v) \in CallsOf
  BY WifiConfigAssumption, CallsType
<1>3. \A c \in CallsOf : Begin(Demo, c) =>
          /\ Held' /\ UNCHANGED <<store, lock, got>> /\ pc'[Demo] \in {"check", "lock"}
  BY <1>1, HeldCaller, BeginType
<1>4. Rest(Demo) => /\ Held' /\ UNCHANGED <<store, lock, got>> /\ pc'[Demo] = "idle"
  BY <1>1, HeldCaller, RestType
<1>5. ASSUME demo' # "key", pc'[Demo] \in {"check", "lock", "idle"}, Held'
      PROVE  PairInv'
  BY <1>5 DEF PairInv, Between, HasRead
<1>6. CASE Wake
  <2>1. Begin(Demo, Read("wifi_ssid")) /\ demo' = "ssid"
    BY <1>6 DEF Wake
  <2> QED BY <1>2, <1>3, <1>5, <2>1 DEF TryPair
<1>7. CASE GotSsid
  <2> DEFINE b == IF Fits(got[Demo], ssid_len) THEN Copied(ssid, got[Demo]) ELSE ssid
  <2>1. /\ HasRead /\ ReadKey = "wifi_ssid"
        /\ ssid' = b /\ ssid_len' = Length(got[Demo], ssid_len)
    BY <1>7 DEF GotSsid, HasRead, Reading, ReadKey
  <2>2. \/ /\ Begin(Demo, Read("wifi_key")) /\ demo' = "key"
           /\ Fits(got[Demo], ssid_len)
        \/ Rest(Demo) /\ demo' = "wait"
    BY <1>7 DEF GotSsid
  <2>3. CASE Rest(Demo) /\ demo' = "wait"
    BY <1>4, <1>5, <2>3 DEF TryPair
  <2>4. CASE /\ Begin(Demo, Read("wifi_key")) /\ demo' = "key"
             /\ Fits(got[Demo], ssid_len)
    <3>1. Held' /\ UNCHANGED <<store, lock, got>> /\ pc'[Demo] \in {"check", "lock"}
      BY <1>2, <1>3, <2>4
    <3>2. got[Demo] = store["wifi_ssid"] /\ lock # Shell /\ Short(got[Demo])
      BY <2>1 DEF PairInv, ShortInv, Between
    <3>3. /\ got[Demo] # None /\ Length(got[Demo], ssid_len) = Len(got[Demo])
          /\ IsPrefix(got[Demo], b)
      BY <1>1, <2>4, <3>2, BufferType
    <3> HIDE DEF b
    <3>4. Stands("wifi_ssid", ssid, ssid_len)'
      BY <2>1, <3>1, <3>2, <3>3 DEF Stands
    <3> QED BY <2>4, <3>1, <3>2, <3>4 DEF PairInv, HasRead, TryPair
  <2> QED BY <2>2, <2>3, <2>4
<1>8. CASE GotKey
  <2> DEFINE b == IF Fits(got[Demo], key_len) THEN Copied(key, got[Demo]) ELSE key
  <2>1. /\ HasRead /\ ReadKey = "wifi_key" /\ demo = "key"
        /\ key' = b /\ key_len' = Length(got[Demo], key_len)
        /\ Rest(Demo) /\ UNCHANGED ssid_len
        /\ \/ /\ tried' = <<ssid, key'>> /\ demo' = "join"
              /\ Fits(got[Demo], key_len)
           \/ demo' = "wait"
    BY <1>8 DEF GotKey, HasRead, Reading, ReadKey
  <2>2. PairInv'
    BY <1>4, <1>5, <2>1
  <2>3. ASSUME demo' = "join" PROVE TryPair
    <3>1. /\ got[Demo] = store["wifi_key"] /\ Short(got[Demo])
          /\ Stands("wifi_ssid", ssid, ssid_len)
      BY <2>1 DEF PairInv, ShortInv
    <3>2. Fits(got[Demo], key_len) /\ tried' = <<ssid, key'>>
      BY <2>1, <2>3
    <3>3. /\ got[Demo] # None /\ Length(got[Demo], key_len) = Len(got[Demo])
          /\ IsPrefix(got[Demo], b)
      BY <1>1, <3>1, <3>2, BufferType
    <3> HIDE DEF b
    <3>4. Stands("wifi_key", key', key_len')
      BY <2>1, <3>1, <3>3 DEF Stands
    <3>5. tried'[1] = ssid /\ tried'[2] = key'
      BY <3>2
    <3> QED BY <2>1, <3>1, <3>4, <3>5 DEF TryPair
  <2> QED BY <2>2, <2>3 DEF TryPair
<1>9. CASE Stored
  BY <1>4, <1>5, <1>9 DEF Stored, wifiVars, TryPair
<1>10. ASSUME NEW v \in Sessions, Session(v) PROVE PairInv' /\ TryPair
  <2>1. Begin(Demo, Write("session", v)) /\ demo' = "online"
    BY <1>10 DEF Session, wifiVars
  <2> QED BY <1>2, <1>3, <1>5, <2>1 DEF TryPair
<1> QED BY <1>6, <1>7, <1>8, <1>9, <1>10 DEF DemoStep

LEMMA StepPair ==
  ASSUME DemoFirst, PairInv, [Next]_vars
  PROVE  PairInv' /\ TryPair
<1>1. /\ ShortInv /\ ShortInv' /\ TypeOK /\ KvTypeOK /\ Held
      /\ Shell \in Tasks /\ Demo \in Procs /\ Shell # Demo
  BY StepShort, Callers DEF PairInv, ShortInv, TypeOK
<1>2. UNCHANGED demo => TryPair
  BY DEF TryPair
<1>3. ASSUME NEW t \in Tasks, TaskStep(t), UNCHANGED wifiVars PROVE PairInv' /\ TryPair
  BY <1>1, <1>2, <1>3, TaskStepPair DEF wifiVars
<1>4. ASSUME Held', UNCHANGED <<store, got, demo, ssid, ssid_len>>, pc'[Demo] = pc[Demo],
             lock' = Shell => lock = Shell
      PROVE  PairInv' /\ TryPair
  <2>1. Reading' = Reading /\ ReadKey' = ReadKey
    BY <1>4 DEF Reading, ReadKey
  <2>2. HasRead' = HasRead /\ Between' = Between
    BY <1>4, <2>1 DEF HasRead, Between
  <2>3. demo = "key" => Stands("wifi_ssid", ssid, ssid_len)'
    BY <1>4 DEF PairInv, Stands
  <2> QED BY <1>1, <1>2, <1>4, <2>1, <2>2, <2>3 DEF PairInv
<1>5. CASE GcStep /\ UNCHANGED wifiVars
  <2>1. UNCHANGED <<store, got>> /\ pc'[Demo] = pc[Demo]
    BY <1>1, <1>5, GcStepType, Callers
  <2>2. Held'
    BY <1>1, <1>5, HeldStep DEF KvStep
  <2>3. lock' \in {lock, Gc, None}
    BY <1>5 DEF GcStep, Lock, Collect, Unlock, PostAll
  <2>4. Shell # Gc /\ Shell # None
    BY <1>1, KvCallsAssumption
  <2> QED BY <1>4, <1>5, <2>1, <2>2, <2>3, <2>4 DEF wifiVars
<1>6. CASE ShellStep \/ Factory \/ \E pair \in Configs : Enter(pair)
  <2>1. /\ Rest(Shell) \/ \E c \in CallsOf : Begin(Shell, c)
        /\ UNCHANGED <<demo, ssid, ssid_len>>
    BY <1>1, <1>6, ShellActs
  <2>2. Held' /\ UNCHANGED <<store, lock, got>>
    BY <1>1, <2>1, HeldCaller
  <2>3. pc'[Demo] = pc[Demo]
    BY <1>1, <2>1, BeginType, RestType
  <2> QED BY <1>4, <2>1, <2>2, <2>3
<1>7. CASE Wake \/ DemoStep \/ \E v \in Sessions : Session(v)
  BY <1>1, <1>7, DemoPair
<1>8. CASE Join
  <2>1. /\ demo' \in {"wait", "online"} /\ Held' = Held
    BY <1>8 DEF Join, kvVars, Held
  <2> QED BY <1>1, <2>1 DEF PairInv, Between, HasRead, Reading, TryPair
<1>9. CASE PowerFailure
  <2>1. demo' = "wait" /\ lock' = None /\ \A p \in Procs : pc'[p] \in {"idle", "lock", "absent"}
    BY <1>9 DEF PowerFailure, KvReboot, Booted
  <2>2. Held'
    BY <2>1, KvCallsAssumption DEF Held, Holds, Procs
  <2> QED BY <1>1, <2>1, <2>2 DEF PairInv, Between, HasRead, Reading, TryPair
<1>10. CASE UNCHANGED vars
  <2>1. Held' = Held
    BY <1>10 DEF vars, kvVars, Held
  <2> QED BY <1>1, <1>4, <1>10, <2>1 DEF vars, kvVars, wifiVars
<1> QED BY <1>3, <1>5, <1>6, <1>7, <1>8, <1>9, <1>10 DEF Next, KvStep

\* If demo_task has the higher priority, the name and the key that it tries are
\* those that the store holds together at that moment, though it takes two
\* calls to read them and ShellTask two to store them: for any names and keys
\* that fit, any commands, collections and losses of power.
THEOREM PairTogether ==
  ASSUME DemoFirst
  PROVE  Spec => TriedTogether
<1>1. Init => PairInv
  <2> SUFFICES ASSUME Init PROVE PairInv
    OBVIOUS
  <2>1. lock = None /\ \A p \in Procs : pc[p] \in {"idle", "lock", "absent"}
    BY DEF Init, KvInit, Booted
  <2>2. Held
    BY <2>1, KvCallsAssumption DEF Held, Holds, Procs
  <2>3. demo = "wait"
    BY DEF Init
  <2> QED BY <2>2, <2>3, InitShort DEF PairInv, Between, HasRead, Reading
<1>2. PairInv /\ [Next]_vars => PairInv'
  BY StepPair
<1>3. PairInv /\ [Next]_vars => [TryPair]_vars
  BY StepPair
<1>4. [TryPair]_vars =>
        [demo # "join" /\ demo' = "join" =>
            /\ Stands("wifi_ssid", tried'[1], ssid_len')
            /\ Stands("wifi_key", tried'[2], key_len')]_vars
  BY DEF TryPair
<1> QED BY <1>1, <1>2, <1>3, <1>4, PTL DEF Spec, TriedTogether
=============================================================================
