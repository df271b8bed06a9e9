--------------------------- MODULE WmTimerProofs ----------------------------
(***************************************************************************)
(* Safety of the timer service for any number of tasks, events and calls.  *)
(***************************************************************************)
EXTENDS WmTimer, SequenceTheorems, TLAPS

\* The elements of a sequence without one position.
LEMMA RemoveAtElements ==
  ASSUME NEW S, NEW s \in Seq(S), NEW i \in 1 .. Len(s)
  PROVE  /\ RemoveAt(s, i) \in Seq(S)
         /\ Len(RemoveAt(s, i)) = Len(s) - 1
         /\ \A k \in 1 .. Len(s) - 1 :
               RemoveAt(s, i)[k] = IF k < i THEN s[k] ELSE s[k + 1]
<1> DEFINE a == SubSeq(s, 1, i - 1)
           b == SubSeq(s, i + 1, Len(s))
<1>1. Len(s) \in Nat /\ i \in Int
  OBVIOUS
<1>2. /\ a \in Seq(S)
      /\ Len(a) = i - 1
      /\ \A k \in 1 .. i - 1 : a[k] = s[k]
  BY <1>1, SubSeqProperties
<1>3. /\ b \in Seq(S)
      /\ Len(b) = Len(s) - i
      /\ \A k \in 1 .. Len(s) - i : b[k] = s[k + i]
  BY <1>1, SubSeqProperties
<1>4. RemoveAt(s, i) = a \o b
  BY DEF RemoveAt
<1> HIDE DEF a, b
<1>5. /\ a \o b \in Seq(S)
      /\ Len(a \o b) = Len(a) + Len(b)
      /\ \A k \in 1 .. Len(a) + Len(b) :
            (a \o b)[k] = IF k <= Len(a) THEN a[k] ELSE b[k - Len(a)]
  BY <1>2, <1>3, ConcatProperties
<1>6. ASSUME NEW k \in 1 .. Len(s) - 1
      PROVE  (a \o b)[k] = IF k < i THEN s[k] ELSE s[k + 1]
  <2>1. CASE k < i
    BY <1>1, <1>2, <1>3, <1>5, <2>1
  <2>2. CASE ~(k < i)
    <3>1. k - (i - 1) \in 1 .. Len(s) - i
      BY <1>1, <2>2
    <3>2. b[k - (i - 1)] = s[(k - (i - 1)) + i]
      BY <1>3, <3>1
    <3> QED BY <1>1, <1>2, <1>3, <1>5, <2>2, <3>2
  <2> QED BY <2>1, <2>2
<1> QED BY <1>1, <1>2, <1>3, <1>4, <1>5, <1>6

\* Removing one position of a sequence without duplicates removes one element.
LEMMA RemoveAtDistinct ==
  ASSUME NEW S, NEW s \in Seq(S), NEW i \in DOMAIN s, IsInjective(s)
  PROVE  /\ IsInjective(RemoveAt(s, i))
         /\ ToSet(RemoveAt(s, i)) = ToSet(s) \ {s[i]}
<1> DEFINE r == RemoveAt(s, i)
<1>1. i \in 1 .. Len(s) /\ Len(s) \in Nat /\ DOMAIN s = 1 .. Len(s)
  OBVIOUS
<1>2. /\ r \in Seq(S)
      /\ Len(r) = Len(s) - 1
      /\ \A k \in 1 .. Len(s) - 1 : r[k] = IF k < i THEN s[k] ELSE s[k + 1]
  BY <1>1, RemoveAtElements
<1>3. DOMAIN r = 1 .. Len(s) - 1
  BY <1>2
<1> HIDE DEF r
<1>4. IsInjective(r)
  <2> SUFFICES ASSUME NEW j \in DOMAIN r, NEW k \in DOMAIN r, r[j] = r[k]
               PROVE  j = k
    BY DEF IsInjective
  <2>1. \A m, n \in DOMAIN s : s[m] = s[n] => m = n
    BY DEF IsInjective
  <2> DEFINE Old(m) == IF m < i THEN m ELSE m + 1
  <2>2. /\ Old(j) \in DOMAIN s /\ r[j] = s[Old(j)]
        /\ Old(k) \in DOMAIN s /\ r[k] = s[Old(k)]
    BY <1>1, <1>2, <1>3
  <2>3. Old(j) = Old(k)
    BY <2>1, <2>2
  <2> QED BY <1>1, <1>3, <2>3
<1>5. ASSUME NEW x \in ToSet(r)
      PROVE  x \in ToSet(s) \ {s[i]}
  <2>1. PICK k \in 1 .. Len(s) - 1 : x = r[k]
    BY <1>3 DEF ToSet
  <2>2. PICK j \in 1 .. Len(s) : j # i /\ x = s[j]
    BY <1>1, <1>2, <2>1
  <2> QED BY <1>1, <2>2 DEF ToSet, IsInjective
<1>6. ASSUME NEW j \in DOMAIN s, s[j] # s[i]
      PROVE  s[j] \in ToSet(r)
  <2>1. CASE j < i
    <3>1. j \in DOMAIN r /\ r[j] = s[j]
      BY <1>1, <1>2, <1>3, <2>1
    <3> QED BY <3>1 DEF ToSet
  <2>2. CASE j > i
    <3>1. j - 1 \in DOMAIN r /\ r[j - 1] = s[j]
      BY <1>1, <1>2, <1>3, <2>2
    <3> QED BY <3>1 DEF ToSet
  <2> QED BY <1>1, <1>6, <2>1, <2>2
<1>7. ToSet(r) = ToSet(s) \ {s[i]}
  BY <1>5, <1>6 DEF ToSet
<1> QED BY <1>4, <1>7 DEF r

\* Linking a new element at the head.
LEMMA PrependFacts ==
  ASSUME NEW S, NEW s \in Seq(S), NEW e \in S, e \notin ToSet(s), IsInjective(s)
  PROVE  /\ <<e>> \o s \in Seq(S)
         /\ IsInjective(<<e>> \o s)
         /\ ToSet(<<e>> \o s) = ToSet(s) \cup {e}
<1> DEFINE r == <<e>> \o s
<1>1. /\ r \in Seq(S)
      /\ Len(r) = Len(s) + 1
      /\ \A k \in 1 .. Len(s) + 1 : r[k] = IF k <= 1 THEN e ELSE s[k - 1]
  BY ConcatProperties, <<e>> \in Seq(S), Len(<<e>>) = 1, <<e>>[1] = e
<1>2. DOMAIN r = 1 .. Len(s) + 1 /\ DOMAIN s = 1 .. Len(s) /\ Len(s) \in Nat
  BY <1>1
<1> HIDE DEF r
<1>3. ASSUME NEW k \in DOMAIN s
      PROVE  k + 1 \in DOMAIN r /\ r[k + 1] = s[k]
  BY <1>1, <1>2
<1>4. ASSUME NEW k \in DOMAIN r
      PROVE  IF k = 1 THEN r[k] = e ELSE k - 1 \in DOMAIN s /\ r[k] = s[k - 1]
  BY <1>1, <1>2
<1>5. IsInjective(r)
  <2> SUFFICES ASSUME NEW j \in DOMAIN r, NEW k \in DOMAIN r, r[j] = r[k]
               PROVE  j = k
    BY DEF IsInjective
  <2>1. CASE j = 1 \/ k = 1
    BY <1>4, <2>1 DEF ToSet
  <2>2. CASE j # 1 /\ k # 1
    <3>1. j - 1 = k - 1
      BY <1>4, <2>2 DEF IsInjective
    <3> QED BY <1>2, <3>1
  <2> QED BY <2>1, <2>2
<1>6. ToSet(r) = ToSet(s) \cup {e}
  <2>1. ToSet(r) \subseteq ToSet(s) \cup {e}
    BY <1>4 DEF ToSet
  <2>2. ToSet(s) \subseteq ToSet(r)
    BY <1>3 DEF ToSet
  <2>3. e \in ToSet(r)
    <3>1. 1 \in DOMAIN r /\ r[1] = e
      BY <1>1, <1>2
    <3> QED BY <3>1 DEF ToSet
  <2> QED BY <2>1, <2>2, <2>3
<1> QED BY <1>1, <1>5, <1>6 DEF r

-----------------------------------------------------------------------------

Inv == TypeOK /\ MutexProtectsList /\ WalkStaysOnList

LEMMA InitInv == Init => Inv
<1> SUFFICES ASSUME Init PROVE Inv
  OBVIOUS
<1> USE WmTimerAssumption
<1>1. TypeOK
  <2>1. pc \in [Procs -> TaskPCs \cup DaemonPCs]
    BY DEF Init, TaskPCs
  <2>2. (\A t \in Tasks : pc[t] \in TaskPCs) /\ pc[Daemon] \in DaemonPCs
    BY DEF Init, TaskPCs, DaemonPCs, Procs
  <2>3. /\ arg \in [Tasks -> Calls \cup {None}]
        /\ \A t \in Tasks : pc[t] # "idle" => arg[t] \in Calls
    BY DEF Init, Procs
  <2>4. list \in Seq(Names) /\ cmdq \in Seq({"start", "stop"})
    BY DEF Init
  <2>5. active \in BOOLEAN /\ blocked \in BOOLEAN
    BY DEF Init
  <2>6. left \in [Names -> Int] /\ cur \in Nat \ {0} /\ calls \in 0 .. MaxCalls
    BY DEF Init
  <2>7. owner \in Procs \cup {None}
    BY DEF Init
  <2> QED BY <2>1, <2>2, <2>3, <2>4, <2>5, <2>6, <2>7 DEF TypeOK
<1>2. MutexProtectsList
  BY DEF Init, MutexProtectsList, Critical
<1>3. WalkStaysOnList
  BY DEF Init, WalkStaysOnList, IsInjective, Procs
<1> QED BY <1>1, <1>2, <1>3 DEF Inv

LEMMA UnlinkFacts ==
  ASSUME TypeOK, IsInjective(list), NEW n \in Names, Unlink(n)
  PROVE  /\ list' \in Seq(Names)
         /\ IsInjective(list')
         /\ Listed' = Listed \ {n}
<1>1. CASE n \in Listed
  <2>1. PICK i \in DOMAIN list : list[i] = n /\ list' = RemoveAt(list, i)
    BY <1>1 DEF Unlink
  <2>2. list \in Seq(Names)
    BY DEF TypeOK
  <2>3. i \in 1 .. Len(list)
    BY <2>2
  <2>4. RemoveAt(list, i) \in Seq(Names)
    BY <2>2, <2>3, RemoveAtElements
  <2> QED BY <2>1, <2>2, <2>4, RemoveAtDistinct DEF Listed
<1>2. CASE n \notin Listed
  BY <1>2 DEF Unlink, Listed, TypeOK
<1> QED BY <1>1, <1>2

LEMMA SendType ==
  ASSUME TypeOK, NEW cmd \in {"start", "stop"}, Send(cmd)
  PROVE  cmdq' \in Seq({"start", "stop"})
BY DEF TypeOK, Send

\* The step of one process leaves the pc of the others alone.
LEMMA GotoFacts ==
  ASSUME TypeOK, NEW p \in Procs, NEW label, Goto(p, label),
         p = Daemon => label \in DaemonPCs,
         p \in Tasks => label \in TaskPCs
  PROVE  /\ pc' \in [Procs -> TaskPCs \cup DaemonPCs]
         /\ \A t \in Tasks : pc'[t] \in TaskPCs
         /\ pc'[Daemon] \in DaemonPCs
         /\ pc'[p] = label
         /\ \A q \in Procs \ {p} : pc'[q] = pc[q]
BY WmTimerAssumption DEF TypeOK, Goto, Procs

LEMMA CallInv ==
  ASSUME Inv, NEW t \in Tasks, NEW first \in {"start_check", "stop_take"},
         NEW n \in Names, NEW s \in Seconds \cup {0}, Call(t, first, n, s)
  PROVE  Inv'
<1> USE WmTimerAssumption DEF Inv
<1>1. t \in Procs /\ t # Daemon /\ first \in TaskPCs
  BY DEF Procs, TaskPCs
<1>2. /\ pc' \in [Procs -> TaskPCs \cup DaemonPCs]
      /\ \A u \in Tasks : pc'[u] \in TaskPCs
      /\ pc'[Daemon] \in DaemonPCs
      /\ pc'[t] = first
      /\ \A q \in Procs \ {t} : pc'[q] = pc[q]
  BY <1>1, GotoFacts DEF Call
<1>3. TypeOK'
  <2>1. [name |-> n, time |-> s] \in Calls
    BY DEF Calls
  <2>2. /\ arg' \in [Tasks -> Calls \cup {None}]
        /\ \A u \in Tasks : pc'[u] # "idle" => arg'[u] \in Calls
    BY <1>1, <1>2, <2>1 DEF Call, TypeOK, Procs
  <2>3. calls' \in 0 .. MaxCalls
    BY DEF Call, TypeOK
  <2> QED BY <1>2, <2>2, <2>3 DEF Call, TypeOK
<1>4. MutexProtectsList'
  BY <1>1, <1>2 DEF Call, MutexProtectsList, Critical
<1>5. WalkStaysOnList'
  BY <1>1, <1>2 DEF Call, WalkStaysOnList, Listed, TypeOK, Procs
<1> QED BY <1>3, <1>4, <1>5
LEMMA StartCheckInv ==
  ASSUME Inv, NEW t \in Tasks, StartCheck(t)
  PROVE  Inv'
<1> USE WmTimerAssumption DEF Inv
<1>1. t \in Procs /\ t # Daemon /\ "start_take" \in TaskPCs
  BY DEF Procs, TaskPCs
<1>2. /\ pc' \in [Procs -> TaskPCs \cup DaemonPCs]
      /\ \A u \in Tasks : pc'[u] \in TaskPCs
      /\ pc'[Daemon] \in DaemonPCs
      /\ pc'[t] = "start_take"
      /\ \A q \in Procs \ {t} : pc'[q] = pc[q]
  BY <1>1, GotoFacts DEF StartCheck
<1>3. TypeOK'
  <2>1. cmdq' \in Seq({"start", "stop"})
    BY SendType DEF StartCheck, TypeOK
  <2> QED BY <1>1, <1>2, <2>1 DEF StartCheck, TypeOK, Procs
<1>4. MutexProtectsList'
  BY <1>1, <1>2 DEF StartCheck, MutexProtectsList, Critical
<1>5. WalkStaysOnList'
  BY <1>1, <1>2 DEF StartCheck, WalkStaysOnList, Listed, TypeOK, Procs
<1> QED BY <1>3, <1>4, <1>5

LEMMA StopEmptyInv ==
  ASSUME Inv, NEW t \in Tasks, StopEmpty(t)
  PROVE  Inv'
<1> USE WmTimerAssumption DEF Inv
<1>1. t \in Procs /\ t # Daemon /\ "give" \in TaskPCs
  BY DEF Procs, TaskPCs
<1>2. /\ pc' \in [Procs -> TaskPCs \cup DaemonPCs]
      /\ \A u \in Tasks : pc'[u] \in TaskPCs
      /\ pc'[Daemon] \in DaemonPCs
      /\ pc'[t] = "give"
      /\ \A q \in Procs \ {t} : pc'[q] = pc[q]
  BY <1>1, GotoFacts DEF StopEmpty
<1>3. TypeOK'
  <2>1. cmdq' \in Seq({"start", "stop"})
    BY SendType DEF StopEmpty, TypeOK
  <2> QED BY <1>1, <1>2, <2>1 DEF StopEmpty, TypeOK, Procs
<1>4. MutexProtectsList'
  BY <1>1, <1>2 DEF StopEmpty, MutexProtectsList, Critical
<1>5. WalkStaysOnList'
  BY <1>1, <1>2 DEF StopEmpty, WalkStaysOnList, Listed, TypeOK, Procs
<1> QED BY <1>3, <1>4, <1>5

LEMMA StartFindInv ==
  ASSUME Inv, NEW t \in Tasks, StartFind(t)
  PROVE  Inv'
<1> USE WmTimerAssumption DEF Inv
<1>1. /\ t \in Procs
      /\ t # Daemon
      /\ arg[t] \in Calls
      /\ arg[t].name \in Names
      /\ owner = t
  BY DEF StartFind, TypeOK, Calls, Procs, MutexProtectsList, Critical
<1>2. pc[Daemon] \notin {"cb_visit", "cb_delete"}
  BY <1>1 DEF MutexProtectsList, Critical, Procs
<1>3. \A u \in Tasks \ {t} : pc[u] # "start_add"
  BY <1>1 DEF MutexProtectsList, Critical, Procs
<1>4. CASE Goto(t, "start_add") /\ Unlink(arg[t].name)
  <2>1. /\ pc' \in [Procs -> TaskPCs \cup DaemonPCs]
        /\ \A u \in Tasks : pc'[u] \in TaskPCs
        /\ pc'[Daemon] \in DaemonPCs
        /\ pc'[t] = "start_add"
        /\ \A q \in Procs \ {t} : pc'[q] = pc[q]
    BY <1>1, <1>4, "start_add" \in TaskPCs, GotoFacts DEF TaskPCs
  <2>2. /\ list' \in Seq(Names)
        /\ IsInjective(list')
        /\ Listed' = Listed \ {arg[t].name}
    BY <1>1, <1>4, UnlinkFacts DEF WalkStaysOnList
  <2>3. TypeOK'
    BY <1>1, <2>1, <2>2 DEF StartFind, TypeOK, Procs
  <2>4. MutexProtectsList'
    BY <1>1, <2>1 DEF StartFind, MutexProtectsList, Critical
  <2>5. WalkStaysOnList'
    BY <1>1, <1>2, <1>3, <2>1, <2>2 DEF StartFind, WalkStaysOnList, Procs
  <2> QED BY <2>3, <2>4, <2>5
<1>5. CASE Goto(t, "give") /\ UNCHANGED list
  <2>1. /\ pc' \in [Procs -> TaskPCs \cup DaemonPCs]
        /\ \A u \in Tasks : pc'[u] \in TaskPCs
        /\ pc'[Daemon] \in DaemonPCs
        /\ pc'[t] = "give"
        /\ \A q \in Procs \ {t} : pc'[q] = pc[q]
    BY <1>1, <1>5, "give" \in TaskPCs, GotoFacts DEF TaskPCs
  <2>2. TypeOK'
    BY <1>1, <1>5, <2>1 DEF StartFind, TypeOK, Procs
  <2>3. MutexProtectsList'
    BY <1>1, <2>1 DEF StartFind, MutexProtectsList, Critical
  <2>4. WalkStaysOnList'
    BY <1>1, <1>5, <2>1 DEF StartFind, WalkStaysOnList, Listed, Procs
  <2> QED BY <2>2, <2>3, <2>4
<1> QED BY <1>4, <1>5 DEF StartFind

LEMMA StartAddInv ==
  ASSUME Inv, NEW t \in Tasks, StartAdd(t)
  PROVE  Inv'
<1> USE WmTimerAssumption DEF Inv
<1>1. t \in Procs /\ t # Daemon /\ "give" \in TaskPCs
  BY DEF Procs, TaskPCs
<1>2. /\ pc' \in [Procs -> TaskPCs \cup DaemonPCs]
      /\ \A u \in Tasks : pc'[u] \in TaskPCs
      /\ pc'[Daemon] \in DaemonPCs
      /\ pc'[t] = "give"
      /\ \A q \in Procs \ {t} : pc'[q] = pc[q]
  BY <1>1, GotoFacts DEF StartAdd
<1>6. /\ arg[t].name \in Names
      /\ arg[t].time \in Int
      /\ owner = t
      /\ arg[t].name \notin Listed
  <2>1. arg[t] \in Calls
    BY DEF StartAdd, TypeOK
  <2>2. arg[t].name \in Names /\ arg[t].time \in Int
    <3>1. arg[t].name \in Names /\ arg[t].time \in Seconds \cup {0}
      BY <2>1 DEF Calls
    <3>2. Seconds \cup {0} \subseteq Int
      BY WmTimerAssumption
    <3> QED BY <3>1, <3>2
  <2>3. owner = t
    BY <1>1 DEF StartAdd, MutexProtectsList, Critical
  <2>4. arg[t].name \notin Listed
    BY DEF StartAdd, WalkStaysOnList
  <2> QED BY <2>2, <2>3, <2>4
<1>7. /\ list' \in Seq(Names)
      /\ IsInjective(list')
      /\ Listed' = Listed \cup {arg[t].name}
  BY <1>6, PrependFacts DEF StartAdd, TypeOK, WalkStaysOnList, Listed
<1>8. /\ pc[Daemon] \notin {"cb_visit", "cb_delete"}
      /\ \A u \in Tasks \ {t} : pc[u] # "start_add"
  BY <1>1, <1>6 DEF MutexProtectsList, Critical, Procs
<1>3. TypeOK'
  <2>1. left' \in [Names -> Int]
    BY <1>6 DEF StartAdd, TypeOK
  <2> QED BY <1>1, <1>2, <1>7, <2>1 DEF StartAdd, TypeOK, Procs
<1>4. MutexProtectsList'
  BY <1>1, <1>2 DEF StartAdd, MutexProtectsList, Critical
<1>5. WalkStaysOnList'
  BY <1>1, <1>2, <1>7, <1>8 DEF StartAdd, WalkStaysOnList, Procs
<1> QED BY <1>3, <1>4, <1>5

LEMMA StopFindInv ==
  ASSUME Inv, NEW t \in Tasks, StopFind(t)
  PROVE  Inv'
<1> USE WmTimerAssumption DEF Inv
<1> DEFINE next == IF list = << >> THEN "give" ELSE "stop_empty"
<1>1. t \in Procs /\ t # Daemon /\ next \in TaskPCs /\ next \in Critical
  BY DEF Procs, TaskPCs, Critical
<1>2. /\ pc' \in [Procs -> TaskPCs \cup DaemonPCs]
      /\ \A u \in Tasks : pc'[u] \in TaskPCs
      /\ pc'[Daemon] \in DaemonPCs
      /\ pc'[t] = next
      /\ \A q \in Procs \ {t} : pc'[q] = pc[q]
  BY <1>1, GotoFacts DEF StopFind
<1>3. arg[t].name \in Names /\ owner = t
  BY <1>1 DEF StopFind, TypeOK, Calls, MutexProtectsList, Critical
<1>4. list' \in Seq(Names) /\ IsInjective(list')
  BY <1>3, UnlinkFacts DEF StopFind, WalkStaysOnList
<1>5. /\ pc[Daemon] \notin {"cb_visit", "cb_delete"}
      /\ \A u \in Tasks : pc[u] # "start_add"
  BY <1>1, <1>3 DEF StopFind, MutexProtectsList, Critical, Procs
<1>6. TypeOK'
  BY <1>1, <1>2, <1>4 DEF StopFind, TypeOK, Procs
<1>7. MutexProtectsList'
  BY <1>1, <1>2, <1>3 DEF StopFind, MutexProtectsList
<1>8. WalkStaysOnList'
  BY <1>1, <1>2, <1>4, <1>5 DEF StopFind, WalkStaysOnList, Procs
<1> QED BY <1>6, <1>7, <1>8

LEMMA TakeMutexInv ==
  ASSUME Inv, NEW p \in Procs, TakeMutex(p)
  PROVE  Inv'
<1> USE WmTimerAssumption DEF Inv
<1> DEFINE next == CASE pc[p] = "start_take" -> "start_find"
                     [] pc[p] = "stop_take"  -> "stop_find"
                     [] pc[p] = "cb_take"    -> "cb_empty"
<1>1. /\ p = Daemon => next \in DaemonPCs /\ next \notin {"cb_visit", "cb_delete"}
      /\ p \in Tasks => next \in TaskPCs /\ next # "start_add" /\ pc[p] # "idle"
  BY DEF TakeMutex, WantsMutex, TypeOK, TaskPCs, DaemonPCs
<1>2. /\ pc' \in [Procs -> TaskPCs \cup DaemonPCs]
      /\ \A u \in Tasks : pc'[u] \in TaskPCs
      /\ pc'[Daemon] \in DaemonPCs
      /\ pc'[p] = next
      /\ \A q \in Procs \ {p} : pc'[q] = pc[q]
  BY <1>1, GotoFacts DEF TakeMutex
<1>3. TypeOK'
  BY <1>1, <1>2 DEF TakeMutex, TypeOK, Procs
<1>4. MutexProtectsList'
  <2>1. \A q \in Procs : pc[q] \notin Critical
    BY DEF TakeMutex, MutexProtectsList
  <2> QED BY <1>2, <2>1 DEF TakeMutex, MutexProtectsList
<1>5. WalkStaysOnList'
  <2> HIDE DEF next
  <2> QED BY <1>1, <1>2 DEF TakeMutex, WalkStaysOnList, Listed, Procs
<1> QED BY <1>3, <1>4, <1>5

LEMMA GiveMutexInv ==
  ASSUME Inv, NEW p \in Procs, GiveMutex(p)
  PROVE  Inv'
<1> USE WmTimerAssumption DEF Inv
<1>1. "idle" \in TaskPCs /\ "idle" \in DaemonPCs /\ owner = p
  BY DEF GiveMutex, TaskPCs, DaemonPCs, MutexProtectsList, Critical
<1>2. /\ pc' \in [Procs -> TaskPCs \cup DaemonPCs]
      /\ \A u \in Tasks : pc'[u] \in TaskPCs
      /\ pc'[Daemon] \in DaemonPCs
      /\ pc'[p] = "idle"
      /\ \A q \in Procs \ {p} : pc'[q] = pc[q]
  BY <1>1, GotoFacts DEF GiveMutex
<1>3. /\ arg' \in [Tasks -> Calls \cup {None}]
      /\ \A u \in Tasks \ {p} : arg'[u] = arg[u]
  BY DEF GiveMutex, TypeOK
<1>4. TypeOK'
  BY <1>2, <1>3 DEF GiveMutex, TypeOK, Procs
<1>5. MutexProtectsList'
  BY <1>1, <1>2 DEF GiveMutex, MutexProtectsList, Critical
<1>6. WalkStaysOnList'
  BY <1>2, <1>3 DEF GiveMutex, WalkStaysOnList, Listed, Procs
<1> QED BY <1>4, <1>5, <1>6

LEMMA ProcessCommandInv ==
  ASSUME Inv, ProcessCommand
  PROVE  Inv'
<1> USE WmTimerAssumption DEF Inv
<1>1. cmdq' \in Seq({"start", "stop"})
  BY DEF ProcessCommand, TypeOK
<1>2. active' \in BOOLEAN
  BY DEF ProcessCommand
<1>3. TypeOK'
  BY <1>1, <1>2 DEF ProcessCommand, TypeOK
<1>4. MutexProtectsList' /\ WalkStaysOnList'
  BY DEF ProcessCommand, MutexProtectsList, WalkStaysOnList, Listed
<1> QED BY <1>3, <1>4

LEMMA UnblockInv ==
  ASSUME Inv, Unblock
  PROVE  Inv'
BY DEF Inv, Unblock, TypeOK, MutexProtectsList, WalkStaysOnList, Listed

LEMMA ExpireInv ==
  ASSUME Inv, Expire
  PROVE  Inv'
<1> USE WmTimerAssumption DEF Inv
<1>1. Daemon \in Procs /\ Daemon \notin Tasks /\ "cb_take" \in DaemonPCs
  BY DEF Procs, DaemonPCs
<1>2. /\ pc' \in [Procs -> TaskPCs \cup DaemonPCs]
      /\ \A u \in Tasks : pc'[u] \in TaskPCs
      /\ pc'[Daemon] \in DaemonPCs
      /\ pc'[Daemon] = "cb_take"
      /\ \A q \in Procs \ {Daemon} : pc'[q] = pc[q]
  BY <1>1, GotoFacts DEF Expire
<1>3. TypeOK'
  BY <1>1, <1>2 DEF Expire, TypeOK, Procs
<1>4. MutexProtectsList'
  BY <1>1, <1>2 DEF Expire, MutexProtectsList, Critical
<1>5. WalkStaysOnList'
  BY <1>1, <1>2 DEF Expire, WalkStaysOnList, Listed, TypeOK, Procs
<1> QED BY <1>3, <1>4, <1>5

LEMMA CbEmptyInv ==
  ASSUME Inv, CbEmpty
  PROVE  Inv'
<1> USE WmTimerAssumption DEF Inv
<1>1. /\ Daemon \in Procs
      /\ Daemon \notin Tasks
      /\ {"idle", "cb_visit"} \subseteq DaemonPCs
      /\ owner = Daemon
  BY DEF CbEmpty, Procs, DaemonPCs, MutexProtectsList, Critical
<1>2. CASE list = << >>
  <2>1. /\ pc' \in [Procs -> TaskPCs \cup DaemonPCs]
        /\ \A u \in Tasks : pc'[u] \in TaskPCs
        /\ pc'[Daemon] \in DaemonPCs
        /\ pc'[Daemon] = "idle"
        /\ \A q \in Procs \ {Daemon} : pc'[q] = pc[q]
    BY <1>1, <1>2, GotoFacts DEF CbEmpty
  <2>2. cmdq' \in Seq({"start", "stop"})
    BY <1>2, SendType DEF CbEmpty
  <2>3. TypeOK'
    BY <1>1, <1>2, <2>1, <2>2 DEF CbEmpty, TypeOK, Procs
  <2>4. MutexProtectsList' /\ WalkStaysOnList'
    BY <1>1, <1>2, <2>1
       DEF CbEmpty, MutexProtectsList, Critical, WalkStaysOnList, Listed, Procs
  <2> QED BY <2>3, <2>4
<1>3. CASE list # << >>
  <2>1. /\ pc' \in [Procs -> TaskPCs \cup DaemonPCs]
        /\ \A u \in Tasks : pc'[u] \in TaskPCs
        /\ pc'[Daemon] \in DaemonPCs
        /\ pc'[Daemon] = "cb_visit"
        /\ \A q \in Procs \ {Daemon} : pc'[q] = pc[q]
    BY <1>1, <1>3, GotoFacts DEF CbEmpty
  <2>2. 1 \in DOMAIN list /\ cur' = 1
    BY <1>3 DEF CbEmpty, TypeOK
  <2>3. TypeOK'
    BY <1>1, <1>3, <2>1, <2>2 DEF CbEmpty, TypeOK, Procs
  <2>4. MutexProtectsList' /\ WalkStaysOnList'
    BY <1>1, <1>3, <2>1, <2>2
       DEF CbEmpty, MutexProtectsList, Critical, WalkStaysOnList, Listed, Procs
  <2> QED BY <2>3, <2>4
<1> QED BY <1>2, <1>3

LEMMA CbFunctionInv ==
  ASSUME Inv, CbFunction
  PROVE  Inv'
<1> USE WmTimerAssumption DEF Inv
<1>1. Daemon \in Procs /\ Daemon \notin Tasks /\ "cb_delete" \in DaemonPCs
  BY DEF Procs, DaemonPCs
<1>2. /\ pc' \in [Procs -> TaskPCs \cup DaemonPCs]
      /\ \A u \in Tasks : pc'[u] \in TaskPCs
      /\ pc'[Daemon] \in DaemonPCs
      /\ pc'[Daemon] = "cb_delete"
      /\ \A q \in Procs \ {Daemon} : pc'[q] = pc[q]
  BY <1>1, GotoFacts DEF CbFunction
<1>3. TypeOK'
  BY <1>1, <1>2 DEF CbFunction, TypeOK, Procs
<1>4. MutexProtectsList'
  BY <1>1, <1>2 DEF CbFunction, MutexProtectsList, Critical
<1>5. WalkStaysOnList'
  BY <1>1, <1>2 DEF CbFunction, WalkStaysOnList, Listed, TypeOK, Procs
<1> QED BY <1>3, <1>4, <1>5

LEMMA CbEndInv ==
  ASSUME Inv, CbEnd
  PROVE  Inv'
<1> USE WmTimerAssumption DEF Inv
<1>1. Daemon \in Procs /\ Daemon \notin Tasks /\ "cb_give" \in DaemonPCs
  BY DEF Procs, DaemonPCs
<1>2. /\ pc' \in [Procs -> TaskPCs \cup DaemonPCs]
      /\ \A u \in Tasks : pc'[u] \in TaskPCs
      /\ pc'[Daemon] \in DaemonPCs
      /\ pc'[Daemon] = "cb_give"
      /\ \A q \in Procs \ {Daemon} : pc'[q] = pc[q]
  BY <1>1, GotoFacts DEF CbEnd
<1>3. TypeOK'
  <2>1. cmdq' \in Seq({"start", "stop"})
    BY SendType DEF CbEnd, TypeOK
  <2> QED BY <1>1, <1>2, <2>1 DEF CbEnd, TypeOK, Procs
<1>4. MutexProtectsList'
  BY <1>1, <1>2 DEF CbEnd, MutexProtectsList, Critical
<1>5. WalkStaysOnList'
  BY <1>1, <1>2 DEF CbEnd, WalkStaysOnList, Listed, TypeOK, Procs
<1> QED BY <1>3, <1>4, <1>5

\* The walk stands on the list again, or leaves it.
LEMMA WalkOnFacts ==
  ASSUME TypeOK, NEW l \in Seq(Names), NEW i \in Nat \ {0}, WalkOn(l, i),
         pc[Daemon] \in Critical
  PROVE  /\ pc' \in [Procs -> TaskPCs \cup DaemonPCs]
         /\ \A u \in Tasks : pc'[u] \in TaskPCs
         /\ pc'[Daemon] \in DaemonPCs
         /\ pc'[Daemon] \in Critical
         /\ pc'[Daemon] \in {"cb_visit", "cb_delete"} => i \in DOMAIN l
         /\ \A q \in Procs \ {Daemon} : pc'[q] = pc[q]
<1> USE WmTimerAssumption
<1> DEFINE next == IF i > Len(l) THEN "cb_end" ELSE "cb_visit"
<1>1. /\ Daemon \in Procs
      /\ Daemon \notin Tasks
      /\ next \in DaemonPCs
      /\ next \in Critical
      /\ next \in {"cb_visit", "cb_delete"} => i \in DOMAIN l
  BY DEF Procs, DaemonPCs, Critical
<1>2. Goto(Daemon, next)
  BY DEF WalkOn
<1> HIDE DEF next
<1> QED BY <1>1, <1>2, GotoFacts

LEMMA CbCountDownInv ==
  ASSUME Inv, CbCountDown
  PROVE  Inv'
<1> USE WmTimerAssumption DEF Inv
<1>1. list \in Seq(Names) /\ cur \in Nat \ {0} /\ cur + 1 \in Nat \ {0}
  BY DEF TypeOK
<1>2. pc[Daemon] \in Critical
  BY DEF CbCountDown, Critical
<1>3. /\ pc' \in [Procs -> TaskPCs \cup DaemonPCs]
      /\ \A u \in Tasks : pc'[u] \in TaskPCs
      /\ pc'[Daemon] \in DaemonPCs
      /\ pc'[Daemon] \in Critical
      /\ pc'[Daemon] \in {"cb_visit", "cb_delete"} => cur + 1 \in DOMAIN list
      /\ \A q \in Procs \ {Daemon} : pc'[q] = pc[q]
  BY <1>1, <1>2, WalkOnFacts DEF CbCountDown
<1>4. left' \in [Names -> Int] /\ blocked' \in BOOLEAN
  <2>1. list[cur] \in Names
    BY <1>1 DEF CbCountDown, WalkStaysOnList
  <2>2. left' \in [Names -> Int]
    BY <2>1 DEF CbCountDown, TypeOK
  <2>3. blocked' \in BOOLEAN
    BY DEF CbCountDown
  <2> QED BY <2>2, <2>3
<1>5. TypeOK'
  BY <1>1, <1>3, <1>4 DEF CbCountDown, TypeOK, Procs
<1>6. MutexProtectsList'
  BY <1>2, <1>3 DEF CbCountDown, MutexProtectsList, Procs
<1>7. WalkStaysOnList'
  BY <1>3 DEF CbCountDown, WalkStaysOnList, Listed, Procs
<1> QED BY <1>5, <1>6, <1>7

LEMMA CbDeleteInv ==
  ASSUME Inv, CbDelete
  PROVE  Inv'
<1> USE WmTimerAssumption DEF Inv
<1>1. /\ list \in Seq(Names)
      /\ cur \in Nat \ {0}
      /\ cur \in DOMAIN list
      /\ IsInjective(list)
      /\ list' = RemoveAt(list, cur)
  BY DEF CbDelete, TypeOK, WalkStaysOnList
<1>2. pc[Daemon] \in Critical
  BY DEF CbDelete, Critical
<1>3. list' \in Seq(Names) /\ IsInjective(list')
  <2>1. cur \in 1 .. Len(list)
    BY <1>1
  <2> QED BY <1>1, <2>1, RemoveAtElements, RemoveAtDistinct
<1>4. /\ pc' \in [Procs -> TaskPCs \cup DaemonPCs]
      /\ \A u \in Tasks : pc'[u] \in TaskPCs
      /\ pc'[Daemon] \in DaemonPCs
      /\ pc'[Daemon] \in Critical
      /\ pc'[Daemon] \in {"cb_visit", "cb_delete"} => cur \in DOMAIN list'
      /\ \A q \in Procs \ {Daemon} : pc'[q] = pc[q]
  BY <1>1, <1>2, <1>3, WalkOnFacts DEF CbDelete
<1>5. \A t \in Tasks : pc[t] # "start_add"
  BY <1>2 DEF MutexProtectsList, Critical, Procs
<1>6. TypeOK'
  BY <1>3, <1>4 DEF CbDelete, TypeOK, Procs
<1>7. MutexProtectsList'
  BY <1>2, <1>4 DEF CbDelete, MutexProtectsList, Procs
<1>8. WalkStaysOnList'
  BY <1>3, <1>4, <1>5 DEF CbDelete, WalkStaysOnList, Procs
<1> QED BY <1>6, <1>7, <1>8

LEMMA StepInv == Inv /\ [Next]_vars => Inv'
<1> SUFFICES ASSUME Inv, [Next]_vars
             PROVE  Inv'
  OBVIOUS
<1>1. CASE \E t \in Tasks : TaskStep(t)
  <2>1. PICK t \in Tasks : TaskStep(t)
    BY <1>1
  <2>2. CASE CallStart(t) \/ CallStop(t)
    BY <2>2, CallInv DEF CallStart, CallStop
  <2>3. CASE ~(CallStart(t) \/ CallStop(t))
    BY <2>1, <2>3, StartCheckInv, StartFindInv, StartAddInv, StopFindInv,
       StopEmptyInv DEF TaskStep
  <2> QED BY <2>2, <2>3
<1>2. CASE \E p \in Procs : TakeMutex(p) \/ GiveMutex(p)
  BY <1>2, TakeMutexInv, GiveMutexInv
<1>3. CASE DaemonStep
  BY <1>3, ProcessCommandInv, ExpireInv, CbEmptyInv, CbCountDownInv,
     CbFunctionInv, CbDeleteInv, CbEndInv, UnblockInv DEF DaemonStep
<1>4. CASE UNCHANGED vars
  BY <1>4 DEF vars, Inv, TypeOK, MutexProtectsList, WalkStaysOnList, Listed
<1> QED BY <1>1, <1>2, <1>3, <1>4 DEF Next

\* The types hold, no two processes are inside the mutex, and the walk of
\* wm_s_timer_cb never leaves the list: for any tasks, events and calls.
THEOREM Safety == Spec => [](TypeOK /\ MutexProtectsList /\ WalkStaysOnList)
<1>1. Inv => TypeOK /\ MutexProtectsList /\ WalkStaysOnList
  BY DEF Inv
<1> QED BY InitInv, StepInv, <1>1, PTL DEF Spec

\* The two runs check of one instance what these say of all: the list, the
\* mutex and the calls under way are in range ...
THEOREM TypeCorrect == Spec => []TypeOK
<1> QED BY Safety, PTL

\* ... and wm_s_timer_cb, which keeps a pointer across the callbacks it makes,
\* never walks over an event that a callback or a task has unlinked.
THEOREM WalkStays == Spec => []WalkStaysOnList
<1> QED BY Safety, PTL

-----------------------------------------------------------------------------

\* Once wm_s_timer_cb has returned with the mutex held, no call of any task
\* and no later period gives it back.
THEOREM LeakPermanent == Spec => LeakIsForEver
<1>1. ASSUME Inv, [Next]_vars, MutexLeaked
      PROVE  MutexLeaked'
  <2> USE WmTimerAssumption DEF Inv
  <2>1. owner = Daemon /\ owner # None /\ Daemon \in Procs /\ Daemon \notin Tasks
    BY <1>1 DEF MutexLeaked, Procs
  <2>2. pc[Daemon] \in {"idle", "cb_take"} /\ pc \in [Procs -> TaskPCs \cup DaemonPCs]
    BY <1>1 DEF MutexLeaked, TypeOK
  <2>3. ASSUME NEW t \in Tasks, TaskStep(t)
        PROVE  MutexLeaked'
    <3>1. owner' = owner /\ pc'[Daemon] = pc[Daemon]
      BY <2>1, <2>2, <2>3
         DEF TaskStep, CallStart, CallStop, Call, StartCheck, StartFind, StartAdd,
             StopFind, StopEmpty, Goto
    <3> QED BY <1>1, <3>1 DEF MutexLeaked
  <2>4. ASSUME NEW p \in Procs, TakeMutex(p) \/ GiveMutex(p)
        PROVE  FALSE
    <3>1. GiveMutex(p)
      BY <2>1, <2>4 DEF TakeMutex
    <3>2. owner = p
      BY <1>1, <3>1 DEF GiveMutex, MutexProtectsList, Critical
    <3> QED BY <2>1, <2>2, <3>1, <3>2 DEF GiveMutex
  <2>5. ASSUME DaemonStep
        PROVE  MutexLeaked'
    <3>1. ProcessCommand \/ Expire \/ Unblock
      BY <2>2, <2>5
         DEF DaemonStep, CbEmpty, CbCountDown, CbFunction, CbDelete, CbEnd
    <3> QED BY <1>1, <2>1, <2>2, <3>1
            DEF ProcessCommand, Expire, Unblock, Goto, MutexLeaked
  <2>6. CASE UNCHANGED vars
    BY <1>1, <2>6 DEF vars, MutexLeaked
  <2> QED BY <1>1, <2>3, <2>4, <2>5, <2>6 DEF Next
<1>2. ASSUME Inv, [Next]_vars
      PROVE  [MutexLeaked => MutexLeaked']_vars
  BY <1>1, <1>2
<1> QED BY InitInv, StepInv, <1>2, PTL DEF Spec, LeakIsForEver

-----------------------------------------------------------------------------

Left == [n \in Listed |-> left[n]]
Firing == IF pc[Daemon] = "cb_delete" THEN {list[cur]} ELSE {}

\* A step that touches neither the list nor the walk is none of the table.
LEMMA Stutter ==
  ASSUME UNCHANGED <<list, left, cur>>,
         pc[Daemon] = "cb_delete" <=> pc'[Daemon] = "cb_delete"
  PROVE  UNCHANGED <<Left, Firing>>
BY DEF Left, Firing, Listed

\* A process inside the mutex finds no callback running, unless it is the
\* daemon.
LEMMA NotFiring ==
  ASSUME Inv, NEW t \in Tasks, pc[t] \in Critical
  PROVE  pc[Daemon] \notin {"cb_visit", "cb_delete"} /\ Firing = {}
BY WmTimerAssumption DEF Inv, MutexProtectsList, Critical, Procs, Firing

LEMMA TableStep ==
  ASSUME NEW n \in Names,
         \/ \E s \in Seconds \cup {0} : Table!Set(n, s)
         \/ Table!Clear(n)
         \/ Table!CountDown(n)
         \/ Table!Fire(n)
         \/ Table!Fired(n)
  PROVE  Table!Next
BY DEF Table!Next

LEMMA UnlinkClears ==
  ASSUME Inv, NEW n \in Names, Unlink(n), UNCHANGED left,
         Firing = {}, Firing' = {}
  PROVE  Table!Clear(n) \/ UNCHANGED <<Left, Firing>>
<1>1. Listed' = Listed \ {n}
  BY UnlinkFacts DEF Inv, WalkStaysOnList
<1>2. CASE n \in Listed
  BY <1>1, <1>2
     DEF Table!Clear, Table!Quiet, Table!Pending, Table!Drop, Firing
<1>3. CASE n \notin Listed
  BY <1>3 DEF Unlink, Left, Listed
<1> QED BY <1>2, <1>3

LEMMA TaskKeepsTable ==
  ASSUME Inv, NEW t \in Tasks, TaskStep(t)
  PROVE  Table!Next \/ UNCHANGED <<Left, Firing>>
<1> USE WmTimerAssumption
<1>1. /\ t # Daemon
      /\ pc'[Daemon] = pc[Daemon]
  <2>1. /\ t # Daemon
        /\ Daemon \in Procs
        /\ pc \in [Procs -> TaskPCs \cup DaemonPCs]
    BY DEF Inv, TypeOK, Procs
  <2> QED BY <2>1 DEF TaskStep, CallStart, CallStop, Call, StartCheck, StartFind,
                      StartAdd, StopFind, StopEmpty, Goto
<1>2. CASE CallStart(t) \/ CallStop(t) \/ StartCheck(t) \/ StopEmpty(t)
  BY <1>1, <1>2, Stutter DEF CallStart, CallStop, Call, StartCheck, StopEmpty
<1>3. CASE StartFind(t) \/ StopFind(t)
  <2>1. arg[t].name \in Names
    BY <1>3 DEF Inv, TypeOK, Calls, StartFind, StopFind
  <2>2. Firing = {} /\ Firing' = {}
    BY <1>1, <1>3, NotFiring DEF StartFind, StopFind, Critical, Firing
  <2>3. CASE Unlink(arg[t].name)
    BY <1>3, <2>1, <2>2, <2>3, UnlinkClears, TableStep
       DEF StartFind, StopFind
  <2>4. CASE UNCHANGED list
    BY <1>3, <2>2, <2>4 DEF StartFind, StopFind, Left, Listed
  <2> QED BY <1>3, <2>3, <2>4 DEF StartFind, StopFind
<1>4. CASE StartAdd(t)
  <2>1. arg[t].name \in Names /\ arg[t].time \in Seconds \cup {0}
    BY <1>4 DEF Inv, TypeOK, Calls, StartAdd
  <2>2. PICK n \in Names, s \in Seconds \cup {0} : n = arg[t].name /\ s = arg[t].time
    BY <2>1
  <2>3. Firing = {} /\ Firing' = {}
    BY <1>1, <1>4, NotFiring DEF StartAdd, Critical, Firing
  <2>4. n \notin Listed /\ Listed \subseteq Names
    BY <1>4, <2>2 DEF Inv, WalkStaysOnList, StartAdd, Listed, ToSet, TypeOK
  <2>5. Listed' = Listed \cup {n}
    BY <1>4, <2>2, <2>4, PrependFacts
       DEF StartAdd, Inv, TypeOK, WalkStaysOnList, Listed
  <2>6. left' = [left EXCEPT ![n] = s] /\ left \in [Names -> Int]
    BY <1>4, <2>2 DEF StartAdd, Inv, TypeOK
  <2>7. Table!Set(n, s)
    BY <2>3, <2>4, <2>5, <2>6
       DEF Table!Set, Table!Quiet, Table!Pending, Firing
  <2> QED BY <2>7, TableStep
<1> QED BY <1>2, <1>3, <1>4 DEF TaskStep

LEMMA DaemonKeepsTable ==
  ASSUME Inv, DaemonStep
  PROVE  Table!Next \/ UNCHANGED <<Left, Firing>>
<1> USE WmTimerAssumption
<1>1. Daemon \in Procs /\ pc \in [Procs -> TaskPCs \cup DaemonPCs]
  BY DEF Procs, Inv, TypeOK
<1>2. CASE ProcessCommand \/ Unblock \/ Expire \/ CbEmpty \/ CbEnd
  BY <1>1, <1>2, Stutter DEF ProcessCommand, Unblock, Expire, CbEnd, CbEmpty,
                             Goto, Left, Firing, Listed
<1>3. ASSUME pc[Daemon] \in {"cb_visit", "cb_delete"}
      PROVE  \E n \in Names : n = list[cur] /\ n \in Listed
  BY <1>3 DEF Inv, TypeOK, WalkStaysOnList, Listed, ToSet
<1>4. Listed \subseteq Names /\ left \in [Names -> Int]
  BY DEF Inv, TypeOK, Listed, ToSet
<1>5. CASE CbCountDown
  <2>1. PICK n \in Names : n = list[cur] /\ n \in Listed
    BY <1>3, <1>5 DEF CbCountDown
  <2>2. Firing = {} /\ Firing' = {}
    BY <1>1, <1>5 DEF CbCountDown, WalkOn, Goto, Firing
  <2>3. Listed' = Listed /\ left' = [left EXCEPT ![n] = @ - 1] /\ left[n] > 0
    BY <1>5, <2>1 DEF CbCountDown, Listed
  <2>4. Table!CountDown(n)
    BY <1>4, <2>1, <2>2, <2>3
       DEF Table!CountDown, Table!Quiet, Table!Pending, Firing
  <2> QED BY <2>4, TableStep
<1>6. CASE CbFunction
  <2>1. PICK n \in Names : n = list[cur] /\ n \in Listed
    BY <1>3, <1>6 DEF CbFunction
  <2>2. Firing = {} /\ Firing' = {n}
    BY <1>1, <1>6, <2>1 DEF CbFunction, Goto, Firing
  <2>3. UNCHANGED <<list, left>> /\ left[n] <= 0
    BY <1>6, <2>1 DEF CbFunction
  <2>4. Table!Fire(n)
    BY <2>1, <2>2, <2>3 DEF Table!Fire, Table!Pending, Firing, Listed
  <2> QED BY <2>4, TableStep
<1>7. CASE CbDelete
  <2>1. PICK n \in Names : n = list[cur] /\ n \in Listed
    BY <1>3, <1>7 DEF CbDelete
  <2>2. Firing = {n} /\ Firing' = {}
    BY <1>1, <1>7, <2>1 DEF CbDelete, WalkOn, Goto, Firing
  <2>3. Listed' = Listed \ {n} /\ UNCHANGED left
    BY <1>7, <2>1, RemoveAtDistinct
       DEF CbDelete, Inv, TypeOK, WalkStaysOnList, Listed
  <2>4. Table!Fired(n)
    BY <2>2, <2>3 DEF Table!Fired, Table!Drop, Firing
  <2> QED BY <2>4, TableStep
<1> QED BY <1>2, <1>5, <1>6, <1>7 DEF DaemonStep

\* The list, the mutex and the walk implement the table of events: every step
\* of the service is a step of EventTable or invisible there.
THEOREM Implements == Spec => KeepsTable
<1>1. Init => Table!Init
  BY DEF Init, Table!Init, Listed, ToSet, Procs
<1>2. ASSUME Inv, [Next]_vars
      PROVE  [Table!Next]_<<Left, Firing>>
  <2>1. ASSUME NEW p \in Procs, TakeMutex(p) \/ GiveMutex(p)
        PROVE  UNCHANGED <<Left, Firing>>
    <3>1. /\ pc \in [Procs -> TaskPCs \cup DaemonPCs]
          /\ Daemon \in Procs
          /\ UNCHANGED <<list, left, cur>>
      BY <1>2, <2>1 DEF TakeMutex, GiveMutex, Inv, TypeOK, Procs
    <3>2. CASE p = Daemon
      BY <2>1, <3>1, <3>2, Stutter DEF TakeMutex, GiveMutex, WantsMutex, Goto
    <3>3. CASE p # Daemon
      BY <2>1, <3>1, <3>3, Stutter DEF TakeMutex, GiveMutex, Goto
    <3> QED BY <3>2, <3>3
  <2>2. CASE UNCHANGED vars
    BY <2>2 DEF vars, Left, Firing, Listed
  <2> QED BY <1>2, <2>1, <2>2, TaskKeepsTable, DaemonKeepsTable DEF Next
<1> QED BY InitInv, StepInv, <1>1, <1>2, PTL
        DEF Spec, KeepsTable, Table!Spec, Left, Firing

=============================================================================
