------------------------- MODULE WashMachineProofs --------------------------
(***************************************************************************)
(* Safety of the controller for any programs, times and number of inputs.  *)
(***************************************************************************)
EXTENDS WashMachine, TLAPS

-----------------------------------------------------------------------------
(* The helpers.                                                            *)

\* What the setters of the panel store is in their range.
LEMMA ClampInRange ==
  ASSUME NEW x \in Int, NEW max \in Nat
  PROVE  Clamp(x, max) \in 0 .. max
BY DEF Clamp

LEMMA QuotientInt ==
  ASSUME NEW a \in Int, NEW b \in Nat \ {0}
  PROVE  Quotient(a, b) \in Int /\ Remainder(a, b) \in Int
<1>1. Quotient(a, b) \in Int
  <2>1. CASE a < 0
    <3>1. -a \in Nat
      BY <2>1
    <3> QED BY <2>1, <3>1 DEF Quotient
  <2>2. CASE ~(a < 0)
    BY <2>2 DEF Quotient
  <2> QED BY <2>1, <2>2
<1> QED BY <1>1 DEF Remainder

LEMMA ShowTimeType ==
  ASSUME NEW p \in PanelType, NEW time \in Int
  PROVE  /\ ShowTime(p, time) \in PanelType
         /\ ShowTime(p, time).running = p.running
<1>1. /\ PerMinute \in Nat \ {0}
      /\ MaxMinutes - 1 \in Nat
      /\ PerMinute - 1 \in Nat
  BY WashMachineAssumption
<1>2. Quotient(time, PerMinute) \in Int /\ Remainder(time, PerMinute) \in Int
  BY <1>1, QuotientInt
<1>3. Minutes(time) \in 0 .. MaxMinutes - 1 /\ SecondsOf(time) \in 0 .. PerMinute - 1
  BY <1>1, <1>2, ClampInRange DEF Minutes, SecondsOf
<1> QED BY <1>3 DEF ShowTime, PanelType

LEMMA ShowAllType ==
  ASSUME NEW p \in PanelType, NEW w \in WmType
  PROVE  /\ ShowAll(p, w) \in PanelType /\ ShowDry(p, w) \in PanelType
         /\ ShowAll(p, w).running = p.running /\ ShowDry(p, w).running = p.running
<1>1. w.left_time \in Int /\ w.washing_mode \in Nat /\ w.dry_switch \in BOOLEAN
  BY WashMachineAssumption DEF WmType, Modes
<1>2. /\ [p EXCEPT !.program = w.washing_mode] \in PanelType
      /\ [p EXCEPT !.program = w.washing_mode].running = p.running
  BY <1>1 DEF PanelType
<1>3. /\ [p EXCEPT !.option = w.dry_switch] \in PanelType
      /\ [p EXCEPT !.option = w.dry_switch].running = p.running
  BY <1>1 DEF PanelType
<1> QED BY <1>1, <1>2, <1>3, ShowTimeType DEF ShowAll, ShowDry

LEMMA CalculatedType ==
  ASSUME NEW w \in WmType
  PROVE  /\ Calculated(w) \in WmType
         /\ Calculated(w).work_state = w.work_state
<1>1. WholeTime(w) \in Int
  BY WashMachineAssumption DEF WholeTime, Valid, Hour, WmType
<1> QED BY <1>1 DEF Calculated, WmType

LEMMA ModeSetType ==
  ASSUME NEW w \in WmType, NEW mode \in Modes
  PROVE  /\ ModeSet(w, mode) \in WmType
         /\ w.work_state = WS_WORKING => ModeSet(w, mode) = w
         /\ w.work_state # WS_WORKING => ModeSet(w, mode).work_state # WS_WORKING
<1> DEFINE v == [w EXCEPT !.work_state = WS_IDLE, !.washing_mode = mode,
                          !.phases = Phases[mode], !.time_set = FALSE]
<1>1. v \in WmType /\ v.work_state = WS_IDLE
  BY WashMachineAssumption DEF WmType, WS_IDLE, Modes
<1>2. Calculated(v) \in WmType /\ Calculated(v).work_state = WS_IDLE
  BY <1>1, CalculatedType
<1> QED BY <1>2 DEF ModeSet, WS_IDLE, WS_WORKING

LEMMA DrySetType ==
  ASSUME NEW w \in WmType, NEW on \in BOOLEAN
  PROVE  /\ DrySet(w, on) \in WmType
         /\ DrySet(w, on).work_state = w.work_state
         /\ w.work_state = WS_WORKING => DrySet(w, on) = w
<1>1. w.left_time + DryTime \in Int /\ w.left_time - DryTime \in Int
  BY WashMachineAssumption DEF WmType
<1>2. \A t \in Int : Valid(t) \in Int
  BY WashMachineAssumption DEF Valid, Hour
<1> QED BY <1>1, <1>2 DEF DrySet, WmType

LEMMA StartType ==
  ASSUME NEW w \in WmType
  PROVE  Start(w) \in WmType /\ Start(w).work_state = WS_WORKING
<1> DEFINE fresh == IF w.work_state # WS_PAUSE THEN Calculated(w) ELSE w
           timed == IF fresh.left_time = 0 THEN ModeSet(fresh, fresh.washing_mode)
                                           ELSE fresh
<1>1. fresh \in WmType
  BY CalculatedType
<1> HIDE DEF fresh
<1>2. timed \in WmType
  BY <1>1, ModeSetType DEF WmType
<1>3. Start(w) = [timed EXCEPT !.work_state = WS_WORKING]
  BY DEF Start, fresh
<1> HIDE DEF timed
<1> QED BY <1>2, <1>3 DEF WmType, WS_WORKING

-----------------------------------------------------------------------------
(* Type correctness.                                                       *)

\* A table with an entry more, or one less.
LEMMA StartedType ==
  ASSUME TypeOK, NEW n \in EventNames, NEW s \in Int
  PROVE  /\ DOMAIN Started(n, s) = DOMAIN table \cup {n}
         /\ Started(n, s) \in [DOMAIN table \cup {n} -> Int]
         /\ Started(n, s)[n] = s
         /\ \A m \in DOMAIN table : m # n => Started(n, s)[m] = table[m]
BY DEF TypeOK, Started

LEMMA OthersType ==
  ASSUME TypeOK, NEW n \in EventNames
  PROVE  [m \in Others(n) |-> table[m]] \in [DOMAIN table \ {n} -> Int]
BY DEF TypeOK, Others

\* What the actions that are built from EventTable do to the table.
LEMMA EventsType ==
  ASSUME TypeOK, NEW n \in EventNames
  PROVE  /\ Events!CountDown(n) => /\ n \in DOMAIN table /\ firing = {} /\ firing' = {}
                                  /\ DOMAIN table' = DOMAIN table
                                  /\ table' \in [DOMAIN table' -> Int]
                                  /\ table'[n] = table[n] - 1
                                  /\ \A m \in DOMAIN table : m # n => table'[m] = table[m]
         /\ Events!Fire(n) => /\ n \in DOMAIN table /\ firing = {} /\ firing' = {n}
                             /\ table' = table
         /\ Events!Fired(n) => /\ firing = {n} /\ firing' = {}
                              /\ DOMAIN table' = DOMAIN table \ {n}
                              /\ table' \in [DOMAIN table' -> Int]
                              /\ \A m \in DOMAIN table' : table'[m] = table[m]
<1>1. table \in [DOMAIN table -> Int]
  BY DEF TypeOK
<1>2. Events!CountDown(n) => /\ n \in DOMAIN table /\ firing = {} /\ firing' = {}
                             /\ table' = [table EXCEPT ![n] = table[n] - 1]
  BY DEF Events!CountDown, Events!Quiet, Events!Pending
<1>3. Events!Fire(n) => /\ n \in DOMAIN table /\ firing = {} /\ firing' = {n}
                        /\ table' = table
  BY DEF Events!Fire, Events!Pending
<1>4. Events!Fired(n) => /\ firing = {n} /\ firing' = {}
                         /\ table' = [m \in DOMAIN table \ {n} |-> table[m]]
  BY DEF Events!Fired, Events!Drop
<1> QED BY <1>1, <1>2, <1>3, <1>4

LEMMA InitType == Init => TypeOK
<1> SUFFICES ASSUME Init PROVE TypeOK
  OBVIOUS
<1> DEFINE w == [work_state |-> WS_IDLE, left_time |-> 0, phases |-> Phases[0],
                 dry_switch |-> FALSE, washing_mode |-> 0, time_set |-> FALSE,
                 reserved |-> FALSE]
           p == [program |-> 0, option |-> FALSE, running |-> FALSE,
                 minute |-> 0, second |-> 0]
<1>1. w \in WmType
  BY WashMachineAssumption DEF WmType, WS_IDLE, Modes
<1>2. p \in PanelType
  BY WashMachineAssumption DEF PanelType
<1>3. wm = Calculated(w) /\ panel = ShowAll(p, wm)
  BY DEF Init
<1> HIDE DEF w, p
<1>4. wm \in WmType /\ panel \in PanelType
  BY <1>1, <1>2, <1>3, CalculatedType, ShowAllType
<1>5. table \in [DOMAIN table -> Int] /\ DOMAIN table = {} /\ firing = {}
  BY DEF Init, Events!Init
<1>6. pc \in [Tasks -> Labels] /\ arg \in [Tasks -> Calls] /\ local \in Modes
  BY WashMachineAssumption DEF Init, Labels, Calls, NoCall, EventNames, Modes
<1>7. /\ ticking = FALSE /\ leaked = FALSE /\ asked = FALSE /\ raced = FALSE
      /\ inputs \in 0 .. MaxInputs
  BY WashMachineAssumption DEF Init
<1> QED BY <1>4, <1>5, <1>6, <1>7 DEF TypeOK

\* Where a task goes, and what it calls wm_s_timer_start with.
LEMMA GotoType ==
  ASSUME TypeOK, NEW t \in Tasks
  PROVE  /\ \A label \in Labels : Goto(t, label) => pc' \in [Tasks -> Labels]
         /\ \A n \in EventNames, s \in Int, mode \in Modes :
              CallStart(t, n, s, mode) => /\ pc' \in [Tasks -> Labels]
                                         /\ arg' \in [Tasks -> Calls]
         /\ [arg EXCEPT ![t] = NoCall] \in [Tasks -> Calls]
         /\ Input(t) => inputs' \in 0 .. MaxInputs
         /\ Gui \in Tasks
<1>1. NoCall \in Calls
  BY WashMachineAssumption DEF NoCall, Calls, EventNames, Modes
<1>2. pc \in [Tasks -> Labels] /\ arg \in [Tasks -> Calls]
  BY DEF TypeOK
<1>3. ASSUME NEW n \in EventNames, NEW s \in Int, NEW mode \in Modes,
             CallStart(t, n, s, mode)
      PROVE  pc' \in [Tasks -> Labels] /\ arg' \in [Tasks -> Calls]
  <2>1. [name |-> n, time |-> s, cb_args |-> mode] \in Calls
    BY DEF Calls
  <2> QED BY <1>2, <1>3, <2>1 DEF CallStart, Goto, Labels
<1>4. Input(t) => inputs' \in 0 .. MaxInputs
  BY WashMachineAssumption DEF Input, TypeOK
<1> QED BY <1>1, <1>2, <1>3, <1>4 DEF Goto, Tasks

\* The beginning of wm_work_switch_changed.
LEMMA SwitchType ==
  ASSUME TypeOK, NEW t \in Tasks, NEW on \in BOOLEAN, Switch(t, on),
         panel' \in PanelType
  PROVE  TypeOK'
<1>1. wm \in WmType
  BY DEF TypeOK
<1>2. wm' \in WmType
  BY <1>1, StartType DEF Switch, WmType, WS_PAUSE
<1>3. wm'.left_time \in Int
  BY <1>2 DEF WmType
<1>4. "finish_timer" \in EventNames /\ 0 \in Modes /\ "stop_local" \in Labels
  BY WashMachineAssumption DEF EventNames, Labels, Modes
<1>5. pc' \in [Tasks -> Labels] /\ arg' \in [Tasks -> Calls]
  <2>1. CASE on
    BY <1>3, <1>4, <2>1, GotoType DEF Switch
  <2>2. CASE ~on
    BY <1>4, <2>2, GotoType DEF Switch, TypeOK
  <2> QED BY <2>1, <2>2
<1>6. asked' \in BOOLEAN /\ raced' \in BOOLEAN /\ inputs' \in 0 .. MaxInputs
  BY GotoType DEF Switch, TypeOK
<1> QED BY <1>2, <1>5, <1>6 DEF Switch, TypeOK, timer

\* The inputs of the panel, and what it restores.
LEMMA PanelInputsType ==
  ASSUME TypeOK, PanelInputs \/ Restore
  PROVE  TypeOK'
<1>1. /\ wm \in WmType /\ panel \in PanelType /\ wm.left_time \in Int
      /\ wm.washing_mode \in Nat
  BY WashMachineAssumption DEF TypeOK, WmType, Modes
<1>2. /\ Gui \in Tasks
      /\ Input(Gui) => inputs' \in 0 .. MaxInputs
      /\ \A label \in Labels : Goto(Gui, label) => pc' \in [Tasks -> Labels]
  BY GotoType DEF Tasks
<1>3. ASSUME NEW on \in BOOLEAN, PanelSwitch(on)
      PROVE  TypeOK'
  <2>1. panel' \in PanelType
    BY <1>1, <1>3 DEF PanelSwitch, PanelType
  <2> QED BY <1>2, <1>3, <2>1, SwitchType DEF PanelSwitch
<1>4. ASSUME NEW on \in BOOLEAN, PanelDry(on)
      PROVE  TypeOK'
  <2>1. wm' \in WmType
    BY <1>1, <1>4, DrySetType DEF PanelDry
  <2>2. panel' \in PanelType
    BY <1>1, <1>4 DEF PanelDry, PanelType
  <2>3. pc' \in [Tasks -> Labels]
    BY <1>2, <1>4 DEF PanelDry, Labels
  <2> QED BY <1>2, <1>4, <2>1, <2>2, <2>3 DEF PanelDry, TypeOK, timer
<1>5. ASSUME NEW mode \in Modes, PanelMode(mode)
      PROVE  TypeOK'
  <2>1. wm' \in WmType
    BY <1>1, <1>5, ModeSetType DEF PanelMode
  <2>2. panel' \in PanelType
    BY <1>1, <1>5, WashMachineAssumption DEF PanelMode, PanelType
  <2>3. pc' \in [Tasks -> Labels]
    BY <1>2, <1>5 DEF PanelMode, Labels
  <2> QED BY <1>2, <1>5, <2>1, <2>2, <2>3 DEF PanelMode, TypeOK, timer
<1>6. ASSUME NEW shown \in PanelType, NEW time \in Int, PanelTime(shown, time)
      PROVE  TypeOK'
  <2>1. Valid(time) \in Int
    BY WashMachineAssumption DEF Valid, Hour
  <2>2. wm' \in WmType
    BY <1>1, <1>6, <2>1 DEF PanelTime, WmType
  <2>3. pc' \in [Tasks -> Labels]
    BY <1>2, <1>6 DEF PanelTime, Labels
  <2>4. asked' \in BOOLEAN
    BY <1>6 DEF PanelTime
  <2> QED BY <1>2, <1>6, <2>2, <2>3, <2>4 DEF PanelTime, TypeOK, timer
<1>7. /\ PerMinute \in Nat \ {0}
      /\ Remainder(wm.left_time, PerMinute) \in Int
      /\ Quotient(wm.left_time, PerMinute) \in Int
  BY <1>1, WashMachineAssumption, QuotientInt
<1>8. ASSUME NEW minute \in 0 .. MaxMinutes - 1, PanelMinute(minute)
      PROVE  TypeOK'
  <2>1. minute * PerMinute + Remainder(wm.left_time, PerMinute) \in Int
    BY <1>7, WashMachineAssumption
  <2>2. [panel EXCEPT !.minute = minute] \in PanelType
    BY <1>1 DEF PanelType
  <2> QED BY <1>6, <1>8, <2>1, <2>2 DEF PanelMinute
<1>9. ASSUME NEW second \in 0 .. PerMinute - 1, PanelSecond(second)
      PROVE  TypeOK'
  <2>1. Quotient(wm.left_time, PerMinute) * PerMinute + second \in Int
    BY <1>7, WashMachineAssumption
  <2>2. [panel EXCEPT !.second = second] \in PanelType
    BY <1>1 DEF PanelType
  <2> QED BY <1>6, <1>9, <2>1, <2>2 DEF PanelSecond
<1>10. CASE Restore
  <2>1. panel' \in PanelType
    BY <1>1, <1>10 DEF Restore, RestoreMode, RestoreDry, Show, PanelType
  <2>2. pc' \in [Tasks -> Labels]
    BY <1>2, <1>10 DEF Restore, RestoreMode, RestoreDry, Show, Labels
  <2> QED BY <1>10, <2>1, <2>2
          DEF Restore, RestoreMode, RestoreDry, Show, TypeOK, timer
<1> QED BY <1>3, <1>4, <1>5, <1>8, <1>9, <1>10 DEF PanelInputs

\* The properties that the cloud sets, and the timers it asks for.
LEMMA RemoteInputsType ==
  ASSUME TypeOK, NEW t \in Remotes, RemoteInputs(t)
  PROVE  TypeOK'
<1>1. /\ wm \in WmType /\ panel \in PanelType
      /\ "local_timer" \in EventNames /\ "reservation_timer" \in EventNames
      /\ 0 \in Modes
  BY WashMachineAssumption DEF TypeOK, EventNames, Modes
<1>2. /\ t \in Tasks
      /\ Input(t) => inputs' \in 0 .. MaxInputs
      /\ \A label \in Labels : Goto(t, label) => pc' \in [Tasks -> Labels]
      /\ \A n \in EventNames, s \in Int, mode \in Modes :
           CallStart(t, n, s, mode) => /\ pc' \in [Tasks -> Labels]
                                      /\ arg' \in [Tasks -> Calls]
  BY GotoType DEF Tasks
<1>3. ASSUME NEW on \in BOOLEAN, RemoteSwitch(t, on)
      PROVE  TypeOK'
  BY <1>1, <1>2, <1>3, SwitchType DEF RemoteSwitch
<1>4. ASSUME NEW on \in BOOLEAN, RemoteDry(t, on)
      PROVE  TypeOK'
  <2>1. wm' \in WmType
    BY <1>1, <1>4, DrySetType DEF RemoteDry
  <2>2. pc' \in [Tasks -> Labels]
    BY <1>2, <1>4 DEF RemoteDry, Labels
  <2> QED BY <1>2, <1>4, <2>1, <2>2 DEF RemoteDry, TypeOK, timer
<1>5. ASSUME NEW mode \in Modes, RemoteMode(t, mode)
      PROVE  TypeOK'
  <2>1. wm' \in WmType
    BY <1>1, <1>5, ModeSetType DEF RemoteMode
  <2>2. pc' \in [Tasks -> Labels]
    BY <1>2, <1>5 DEF RemoteMode, Labels
  <2> QED BY <1>2, <1>5, <2>1, <2>2 DEF RemoteMode, TypeOK, timer
<1>6. ASSUME NEW minutes \in RemoteMinutes, RemoteLeftTime(t, minutes)
      PROVE  TypeOK'
  <2>1. minutes * PerMinute \in Int
    BY WashMachineAssumption
  <2>2. wm' \in WmType /\ wm'.left_time \in Int
    BY <1>1, <1>6, <2>1 DEF RemoteLeftTime, WmType
  <2>3. panel' \in PanelType
    BY <1>1, <1>6, <2>2, ShowTimeType DEF RemoteLeftTime
  <2> QED BY <1>2, <1>6, <2>2, <2>3 DEF RemoteLeftTime, TypeOK, timer
<1>7. ASSUME NEW counts \in RemotePhases, RemoteSetPhases(t, counts)
      PROVE  TypeOK'
  <2>1. wm' \in WmType
    BY <1>1, <1>7, WashMachineAssumption DEF RemoteSetPhases, WmType
  <2> QED BY <1>2, <1>7, <2>1 DEF RemoteSetPhases, TypeOK, timer
<1>8. ASSUME NEW state \in RemoteStates, RemoteState(t, state)
      PROVE  TypeOK'
  <2>1. wm' \in WmType
    BY <1>1, <1>8, WashMachineAssumption DEF RemoteState, WmType
  <2>2. raced' \in BOOLEAN
    BY <1>8 DEF RemoteState, Overwritten
  <2> QED BY <1>2, <1>8, <2>1, <2>2 DEF RemoteState, TypeOK, timer
<1>9. ASSUME NEW time \in ReserveTimes, Reserve(t, time)
      PROVE  TypeOK'
  <2>1. wm' \in WmType /\ time \in Int
    <3>1. PICK b \in BOOLEAN : b = (time # 0)
      OBVIOUS
    <3>2. wm' = [wm EXCEPT !.reserved = b]
      BY <1>9, <3>1 DEF Reserve
    <3> QED BY <1>1, <3>2, WashMachineAssumption DEF WmType
  <2>2. pc' \in [Tasks -> Labels] /\ arg' \in [Tasks -> Calls]
    BY <1>1, <1>2, <1>9, <2>1 DEF Reserve, TypeOK
  <2> QED BY <1>2, <1>9, <2>1, <2>2 DEF Reserve, TypeOK, timer
<1>10. ASSUME NEW time \in LocalTimes, NEW mode \in Modes, LocalTimerOn(t, time, mode)
       PROVE  TypeOK'
  <2>1. time \in Int
    BY WashMachineAssumption
  <2>2. pc' \in [Tasks -> Labels] /\ arg' \in [Tasks -> Calls]
    BY <1>1, <1>2, <1>10, <2>1 DEF LocalTimerOn
  <2> QED BY <1>2, <1>10, <2>2 DEF LocalTimerOn, TypeOK, timer
<1>11. ASSUME LocalTimerOff(t) PROVE TypeOK'
  <2>1. pc' \in [Tasks -> Labels]
    BY <1>2, <1>11 DEF LocalTimerOff, Labels
  <2> QED BY <1>2, <1>11, <2>1 DEF LocalTimerOff, TypeOK, timer
<1> QED BY <1>3, <1>4, <1>5, <1>6, <1>7, <1>8, <1>9, <1>10, <1>11 DEF RemoteInputs

\* A handler that goes on.
LEMMA GoesOnType ==
  ASSUME TypeOK, NEW t \in Tasks, GoesOn(t)
  PROVE  TypeOK'
<1>1. /\ wm \in WmType /\ panel \in PanelType /\ wm.left_time \in Int
      /\ DOMAIN table \subseteq EventNames /\ arg[t] \in Calls
  BY DEF TypeOK, WmType
<1>2. /\ \A label \in Labels : Goto(t, label) => pc' \in [Tasks -> Labels]
      /\ [arg EXCEPT ![t] = NoCall] \in [Tasks -> Calls]
  BY GotoType
<1>3. CASE Check(t)
  BY <1>2, <1>3 DEF Check, TypeOK, Labels
<1>4. CASE StartEvent(t)
  <2>1. arg[t].name \in EventNames /\ arg[t].time \in Int /\ arg[t].cb_args \in Modes
    BY <1>1 DEF Calls
  <2>2. /\ DOMAIN table' = DOMAIN table \cup {arg[t].name}
        /\ table' \in [DOMAIN table \cup {arg[t].name} -> Int]
    BY <1>4, <2>1, StartedType DEF StartEvent
  <2>3. firing' = {} /\ pc' \in [Tasks -> Labels]
    BY <1>2, <1>4 DEF StartEvent, MutexFree, Labels
  <2>4. local' \in Modes
    BY <1>4, <2>1 DEF StartEvent, TypeOK
  <2> QED BY <1>1, <1>2, <1>4, <2>1, <2>2, <2>3, <2>4 DEF StartEvent, TypeOK
<1>5. ASSUME NEW n \in EventNames, NEW next \in Labels, StopEvent(t, n, next)
      PROVE  TypeOK'
  <2>1. /\ table' \in [DOMAIN table \ {n} -> Int]
        /\ firing' = {} /\ pc' \in [Tasks -> Labels]
    BY <1>2, <1>5, OthersType DEF StopEvent, MutexFree
  <2>2. DOMAIN table' \subseteq EventNames /\ table' \in [DOMAIN table' -> Int]
    BY <1>1, <2>1
  <2>3. ticking' \in BOOLEAN /\ leaked' \in BOOLEAN
    BY <1>5 DEF StopEvent, TypeOK
  <2> QED BY <1>5, <2>1, <2>2, <2>3 DEF StopEvent, TypeOK
<1>6. CASE StopLocal(t) \/ StopFinish(t) \/ Cancel(t)
  BY <1>5, <1>6 DEF StopLocal, StopFinish, Cancel, EventNames, Labels
<1>7. CASE SwitchShown(t)
  <2>1. panel' \in PanelType
    BY <1>1, <1>7 DEF SwitchShown, PanelType
  <2> QED BY <1>2, <1>7, <2>1 DEF SwitchShown, TypeOK, timer, Labels
<1>8. CASE AllShown(t) \/ DryShown(t) \/ TimeShown(t)
  <2>1. panel' \in PanelType
    BY <1>1, <1>8, ShowAllType, ShowTimeType
       DEF AllShown, DryShown, TimeShown, Show
  <2>2. pc' \in [Tasks -> Labels]
    BY <1>2, <1>8 DEF AllShown, DryShown, TimeShown, Show, Labels
  <2> QED BY <1>8, <2>1, <2>2 DEF AllShown, DryShown, TimeShown, Show, TypeOK, timer
<1> QED BY <1>3, <1>4, <1>6, <1>7, <1>8 DEF GoesOn

\* The callbacks of the timer service.
LEMMA CallbacksType ==
  ASSUME TypeOK, DaemonStep
  PROVE  TypeOK'
<1>1. /\ wm \in WmType /\ panel \in PanelType /\ local \in Nat
      /\ DOMAIN table \subseteq EventNames /\ table \in [DOMAIN table -> Int]
      /\ firing \in {{}} \cup {{n} : n \in DOMAIN table}
  BY WashMachineAssumption DEF TypeOK
<1>2. "finish_timer" \in EventNames /\ "local_timer" \in EventNames
      /\ "reservation_timer" \in EventNames
  BY DEF EventNames
<1> DEFINE TableOK ==
      /\ DOMAIN table \subseteq EventNames
      /\ table \in [DOMAIN table -> Int]
      /\ firing \in {{}} \cup {{n} : n \in DOMAIN table}
<1>3. ASSUME NEW n \in EventNames,
             Events!CountDown(n) \/ Events!Fire(n) \/ Events!Fired(n)
      PROVE  TableOK'
  <2>1. CASE Events!CountDown(n)
    BY <1>1, <2>1, EventsType
  <2>2. CASE Events!Fire(n)
    BY <1>1, <2>2, EventsType
  <2>3. CASE Events!Fired(n)
    <3>1. firing' = {} /\ DOMAIN table' = DOMAIN table \ {n}
          /\ table' \in [DOMAIN table' -> Int]
      BY <2>3, EventsType
    <3> QED BY <1>1, <3>1
  <2> QED BY <1>3, <2>1, <2>2, <2>3
<1> HIDE DEF TableOK
<1>4. CASE FinishPeriodic
  <2>1. wm' \in WmType /\ wm'.left_time \in Int
    BY <1>1, <1>4 DEF FinishPeriodic, WmType
  <2>2. panel' \in PanelType
    BY <1>1, <1>4, <2>1, ShowTimeType DEF FinishPeriodic
  <2>3. TableOK' /\ raced' \in BOOLEAN
    BY <1>2, <1>3, <1>4 DEF FinishPeriodic
  <2> QED BY <1>4, <2>1, <2>2, <2>3 DEF FinishPeriodic, TypeOK, TableOK
<1>5. CASE FinishTimeout
  <2>1. wm' \in WmType
    BY <1>1, <1>5 DEF FinishTimeout, WmType, WS_FINISHED
  <2>2. TableOK' /\ raced' \in BOOLEAN
    BY <1>2, <1>3, <1>5 DEF FinishTimeout
  <2> QED BY <1>5, <2>1, <2>2 DEF FinishTimeout, TypeOK, TableOK
<1>6. ASSUME NEW n \in EventNames, Returns(n), panel' \in PanelType
      PROVE  TypeOK'
  <2>1. TableOK' /\ ticking' \in BOOLEAN
    BY <1>3, <1>6 DEF Returns, TypeOK
  <2> QED BY <1>6, <2>1 DEF Returns, TypeOK, TableOK
<1>7. CASE FinishReturns
  <2>1. panel' \in PanelType
    BY <1>1, <1>7 DEF FinishReturns, PanelType
  <2> QED BY <1>2, <1>6, <1>7, <2>1 DEF FinishReturns
<1>8. CASE LocalTimeout
  <2>1. wm' \in WmType
    BY <1>1, <1>8 DEF LocalTimeout, WmType
  <2>2. TableOK' /\ raced' \in BOOLEAN
    BY <1>2, <1>3, <1>8 DEF LocalTimeout, Overwritten
  <2> QED BY <1>8, <2>1, <2>2 DEF LocalTimeout, TypeOK, TableOK
<1>9. CASE ReservationTimeout
  <2>1. wm' \in WmType
    BY <1>1, <1>9 DEF ReservationTimeout, WmType
  <2>2. TableOK'
    BY <1>2, <1>3, <1>9 DEF ReservationTimeout
  <2> QED BY <1>9, <2>1, <2>2 DEF ReservationTimeout, TypeOK, TableOK
<1>10. ASSUME NEW n \in {"local_timer", "reservation_timer"}, OtherPeriod(n)
       PROVE  TypeOK'
  <2>1. TableOK'
    BY <1>2, <1>3, <1>10 DEF OtherPeriod
  <2> QED BY <1>10, <2>1 DEF OtherPeriod, TypeOK, TableOK
<1>11. ASSUME NEW n \in {"local_timer", "reservation_timer"}, OtherReturns(n)
       PROVE  TypeOK'
  BY <1>1, <1>2, <1>6, <1>11 DEF OtherReturns
<1>12. CASE EmptyPeriod
  BY <1>12 DEF EmptyPeriod, TypeOK
<1> QED BY <1>4, <1>5, <1>7, <1>8, <1>9, <1>10, <1>11, <1>12 DEF DaemonStep

LEMMA StepType == TypeOK /\ [Next]_vars => TypeOK'
<1> SUFFICES ASSUME TypeOK, [Next]_vars PROVE TypeOK'
  OBVIOUS
<1>1. CASE UNCHANGED vars
  BY <1>1 DEF vars, timer, TypeOK
<1> QED BY <1>1, PanelInputsType, RemoteInputsType, GoesOnType, CallbacksType DEF Next

\* Whatever panel, shell, cloud and timers do, and in whatever order, the
\* machine's state is in range: the panel shows minutes and seconds that
\* exist even of a left time that is negative or an hour and more, and the
\* event whose callback runs is one of the table.
THEOREM TypeCorrect == Spec => []TypeOK
BY InitType, StepType, PTL DEF Spec

-----------------------------------------------------------------------------
(* A wash is timed. The invariant says where the one start or stop stands   *)
(* that is under way undisturbed, and what its end leaves.                  *)

\* Where a start or stop stands that has not been disturbed.
Stands(t) ==
    /\ Starting(t, "finish_timer") => Working /\ arg[t].time = wm.left_time
    /\ pc[t] = "on" => /\ Working
                       /\ Events!Pending("finish_timer")
                       /\ "finish_timer" \notin firing
                       /\ wm.left_time = table["finish_timer"]
    /\ pc[t] \in {"stop_local", "stop_finish", "off"} => ~Working
    /\ pc[t] = "off" => ~Events!Pending("finish_timer")

\* What holds when no task is about it.
Settled ==
    IF "finish_timer" \in firing
    THEN ~Working
    ELSE /\ Working <=> Events!Pending("finish_timer")
         /\ Working => wm.left_time = table["finish_timer"]
         /\ panel.running = Working

TimedInv ==
    ~raced => /\ \A t, u \in Tasks : Switching(t) /\ Switching(u) => t = u
              /\ \A t \in Tasks : Stands(t)
              /\ (\A t \in Tasks : ~Switching(t)) => Settled

LEMMA InitTimed == Init => TimedInv
<1> SUFFICES ASSUME Init PROVE TimedInv
  OBVIOUS
<1> DEFINE w == [work_state |-> WS_IDLE, left_time |-> 0, phases |-> Phases[0],
                 dry_switch |-> FALSE, washing_mode |-> 0, time_set |-> FALSE,
                 reserved |-> FALSE]
           p == [program |-> 0, option |-> FALSE, running |-> FALSE,
                 minute |-> 0, second |-> 0]
<1>w. w \in WmType /\ w.work_state = WS_IDLE /\ p \in PanelType /\ ~p.running
  BY WashMachineAssumption DEF WmType, WS_IDLE, Modes, PanelType
<1>i. wm = Calculated(w) /\ panel = ShowAll(p, wm)
  BY DEF Init
<1> HIDE DEF w, p
<1>1. wm.work_state = WS_IDLE /\ ~panel.running /\ panel.running \in BOOLEAN
  BY <1>w, <1>i, CalculatedType, ShowAllType DEF PanelType
<1>2. DOMAIN table = {} /\ firing = {}
  BY DEF Init, Events!Init
<1>3. \A t \in Tasks : pc[t] = "idle"
  BY DEF Init
<1> QED BY <1>1, <1>2, <1>3 DEF TimedInv, Stands, Settled, Switching, Starting,
             Working, WS_IDLE, WS_WORKING, Events!Pending

\* Where a task goes, the others stay.
LEMMA GotoAt ==
  ASSUME TypeOK, NEW t \in Tasks, NEW label, Goto(t, label)
  PROVE  pc'[t] = label /\ \A u \in Tasks \ {t} : pc'[u] = pc[u]
BY DEF TypeOK, Goto

\* A step that leaves the wash, its event and the tasks about it alone, or that
\* disturbs them.
LEMMA UndisturbedTimed ==
  ASSUME TimedInv,
         \A t \in Tasks : \/ pc'[t] = pc[t] /\ arg'[t] = arg[t]
                          \/ ~Switching(t) /\ ~Switching(t)',
         \/ raced'
         \/ /\ raced' = raced
            /\ Working' = Working
            /\ Working => wm'.left_time = wm.left_time,
         "finish_timer" \in DOMAIN table' <=> "finish_timer" \in DOMAIN table,
         "finish_timer" \in DOMAIN table
            => table'["finish_timer"] = table["finish_timer"],
         "finish_timer" \in firing' <=> "finish_timer" \in firing,
         panel'.running = panel.running
  PROVE  TimedInv'
<1> SUFFICES ASSUME ~raced' PROVE TimedInv'
  BY DEF TimedInv
<1>1. /\ ~raced
      /\ Working' = Working
      /\ Working => wm'.left_time = wm.left_time
  OBVIOUS
<1>2. \A t \in Tasks : Switching(t)' <=> Switching(t)
  BY DEF Switching, Starting
<1>3. ASSUME NEW t \in Tasks PROVE Stands(t)'
  <2>1. Stands(t)
    BY <1>1 DEF TimedInv
  <2>2. CASE pc'[t] = pc[t] /\ arg'[t] = arg[t]
    BY <1>1, <2>1, <2>2 DEF Stands, Starting, Events!Pending
  <2>3. CASE ~Switching(t)'
    BY <2>3 DEF Stands, Switching
  <2> QED BY <1>2, <2>2, <2>3
<1>4. Settled => Settled'
  BY <1>1 DEF Settled, Events!Pending
<1> QED BY <1>1, <1>2, <1>3, <1>4 DEF TimedInv

\* A step after which t is the only task that may be about the wash.
LEMMA OneTimed ==
  ASSUME NEW t \in Tasks,
         ~raced' => /\ \A u \in Tasks \ {t} : ~Switching(u)'
                    /\ Stands(t)'
                    /\ ~Switching(t)' => Settled'
  PROVE  TimedInv'
<1> SUFFICES ASSUME ~raced' PROVE TimedInv'
  BY DEF TimedInv
<1>1. \A u \in Tasks \ {t} : Stands(u)'
  BY DEF Stands, Switching
<1> QED BY <1>1 DEF TimedInv

LEMMA SwitchTimed ==
  ASSUME TypeOK, NEW t \in Tasks, NEW on \in BOOLEAN, Switch(t, on)
  PROVE  TimedInv'
<1>1. arg \in [Tasks -> Calls] /\ wm \in WmType
  BY DEF TypeOK
<1>2. CASE on
  <2>1. /\ wm' = Start(wm)
        /\ CallStart(t, "finish_timer", wm'.left_time, 0)
        /\ raced' = \E u \in Tasks \ {t} : Switching(u)
    BY <1>2 DEF Switch
  <2>2. Working'
    BY <1>1, <2>1, StartType DEF Working
  <2>3. /\ pc'[t] = "check" /\ \A u \in Tasks \ {t} : pc'[u] = pc[u]
        /\ arg'[t] = [name |-> "finish_timer", time |-> wm'.left_time, cb_args |-> 0]
        /\ \A u \in Tasks \ {t} : arg'[u] = arg[u]
    BY <1>1, <2>1, GotoAt DEF CallStart
  <2>4. Stands(t)' /\ Switching(t)'
    BY <2>2, <2>3 DEF Stands, Switching, Starting
  <2>5. ~raced' => \A u \in Tasks \ {t} : ~Switching(u)'
    BY <2>1, <2>3 DEF Switching, Starting
  <2> QED BY <2>4, <2>5, OneTimed
<1>3. CASE ~on
  <2>1. /\ wm' = [wm EXCEPT !.work_state = WS_PAUSE]
        /\ Goto(t, "stop_local") /\ arg' = arg
        /\ raced' = \E u \in Tasks \ {t} : Switching(u)
    BY <1>3 DEF Switch
  <2>2. ~Working'
    BY <1>1, <2>1 DEF Working, WmType, WS_PAUSE, WS_WORKING
  <2>3. pc'[t] = "stop_local" /\ \A u \in Tasks \ {t} : pc'[u] = pc[u]
    BY <2>1, GotoAt
  <2>4. Stands(t)' /\ Switching(t)'
    BY <2>2, <2>3 DEF Stands, Switching, Starting
  <2>5. ~raced' => \A u \in Tasks \ {t} : ~Switching(u)'
    BY <2>1, <2>3 DEF Switching, Starting
  <2> QED BY <2>4, <2>5, OneTimed
<1> QED BY <1>2, <1>3

\* The other inputs of the panel are about no start or stop: none of them
\* changes whether a wash is under way, nor the time of one that is.
LEMMA PanelInputsTimed ==
  ASSUME TypeOK, TimedInv, PanelInputs \/ Restore
  PROVE  TimedInv'
<1>1. wm \in WmType /\ panel \in PanelType /\ Gui \in Tasks
  BY DEF TypeOK, Tasks
<1>2. ASSUME NEW label \in {"idle", "all", "time", "restore_mode", "restore_dry"},
             pc[Gui] \in {"idle", "restore_mode", "restore_dry"},
             Goto(Gui, label), arg' = arg, UNCHANGED timer, raced' = raced,
             Working' = Working, Working => wm'.left_time = wm.left_time,
             panel'.running = panel.running
      PROVE  TimedInv'
  <2>1. pc'[Gui] = label /\ \A u \in Tasks \ {Gui} : pc'[u] = pc[u]
    BY <1>1, <1>2, GotoAt
  <2>2. ~Switching(Gui) /\ ~Switching(Gui)'
    BY <1>2, <2>1 DEF Switching, Starting
  <2> QED BY <1>2, <2>1, <2>2, UndisturbedTimed DEF timer
<1>3. ASSUME NEW on \in BOOLEAN, PanelSwitch(on)
      PROVE  TimedInv'
  BY <1>1, <1>3, SwitchTimed DEF PanelSwitch
<1>4. ASSUME NEW on \in BOOLEAN, PanelDry(on)
      PROVE  TimedInv'
  <2>1. Working' = Working /\ (Working => wm'.left_time = wm.left_time)
    BY <1>1, <1>4, DrySetType DEF PanelDry, Working
  <2>2. panel'.running = panel.running
    BY <1>1, <1>4 DEF PanelDry, PanelType
  <2> QED BY <1>2, <1>4, <2>1, <2>2 DEF PanelDry, Input
<1>5. ASSUME NEW mode \in Modes, PanelMode(mode)
      PROVE  TimedInv'
  <2>1. Working' = Working /\ (Working => wm'.left_time = wm.left_time)
    BY <1>1, <1>5, ModeSetType DEF PanelMode, Working
  <2>2. panel'.running = panel.running
    BY <1>1, <1>5 DEF PanelMode, PanelType
  <2> QED BY <1>2, <1>5, <2>1, <2>2 DEF PanelMode, Input
<1>6. ASSUME NEW shown, shown.running = panel.running, NEW time, PanelTime(shown, time)
      PROVE  TimedInv'
  <2>1. Working' = Working /\ (Working => wm'.left_time = wm.left_time)
    BY <1>1, <1>6 DEF PanelTime, Working, WmType
  <2> QED BY <1>2, <1>6, <2>1 DEF PanelTime, Input
<1>7. ASSUME NEW minute, PanelMinute(minute)
      PROVE  TimedInv'
  BY <1>1, <1>6, <1>7 DEF PanelMinute, PanelType
<1>8. ASSUME NEW second, PanelSecond(second)
      PROVE  TimedInv'
  BY <1>1, <1>6, <1>8 DEF PanelSecond, PanelType
<1>9. CASE Restore
  <2>1. Working' = Working /\ wm' = wm
    BY <1>9 DEF Restore, RestoreMode, RestoreDry, Show, Working
  <2>2. panel'.running = panel.running
    BY <1>1, <1>9 DEF Restore, RestoreMode, RestoreDry, Show, PanelType
  <2> QED BY <1>2, <1>9, <2>1, <2>2 DEF Restore, RestoreMode, RestoreDry, Show
<1> QED BY <1>3, <1>4, <1>5, <1>7, <1>8, <1>9 DEF PanelInputs

LEMMA RemoteInputsTimed ==
  ASSUME TypeOK, TimedInv, NEW t \in Remotes, RemoteInputs(t)
  PROVE  TimedInv'
<1>1. wm \in WmType /\ panel \in PanelType /\ t \in Tasks /\ arg \in [Tasks -> Calls]
  BY DEF TypeOK, Tasks
<1> DEFINE SameWash == \/ raced'
                       \/ /\ raced' = raced
                          /\ Working' = Working
                          /\ Working => wm'.left_time = wm.left_time
<1>2. ASSUME NEW label \in {"cancel", "all", "dry"}, pc[t] = "idle",
             Goto(t, label), arg' = arg, UNCHANGED timer, SameWash,
             panel'.running = panel.running
      PROVE  TimedInv'
  <2>1. pc'[t] = label /\ \A u \in Tasks \ {t} : pc'[u] = pc[u]
    BY <1>1, <1>2, GotoAt
  <2>2. ~Switching(t) /\ ~Switching(t)'
    BY <1>2, <2>1 DEF Switching, Starting
  <2> QED BY <1>2, <2>1, <2>2, UndisturbedTimed DEF timer
<1>3. ASSUME UNCHANGED <<pc, arg, timer>>, SameWash, panel'.running = panel.running
      PROVE  TimedInv'
  BY <1>3, UndisturbedTimed DEF timer
<1>4. ASSUME NEW n \in {"local_timer", "reservation_timer"}, NEW s, NEW mode,
             pc[t] = "idle", CallStart(t, n, s, mode),
             UNCHANGED timer, SameWash, panel' = panel
      PROVE  TimedInv'
  <2>1. /\ pc'[t] = "check" /\ \A u \in Tasks \ {t} : pc'[u] = pc[u]
        /\ arg'[t].name = n /\ \A u \in Tasks \ {t} : arg'[u] = arg[u]
    BY <1>1, <1>4, GotoAt DEF CallStart
  <2>2. ~Switching(t) /\ ~Switching(t)'
    BY <1>4, <2>1 DEF Switching, Starting
  <2> QED BY <1>4, <2>1, <2>2, UndisturbedTimed DEF timer
<1>5. ASSUME NEW on \in BOOLEAN, RemoteSwitch(t, on)
      PROVE  TimedInv'
  BY <1>1, <1>5, SwitchTimed DEF RemoteSwitch
<1>6. ASSUME NEW on \in BOOLEAN, RemoteDry(t, on)
      PROVE  TimedInv'
  <2>1. SameWash
    BY <1>1, <1>6, DrySetType DEF RemoteDry, Working
  <2> QED BY <1>2, <1>6, <2>1 DEF RemoteDry, Input
<1>7. ASSUME NEW mode \in Modes, RemoteMode(t, mode)
      PROVE  TimedInv'
  <2>1. SameWash
    BY <1>1, <1>7, ModeSetType DEF RemoteMode, Working
  <2> QED BY <1>2, <1>7, <2>1 DEF RemoteMode, Input
<1>8. ASSUME NEW minutes \in RemoteMinutes, RemoteLeftTime(t, minutes)
      PROVE  TimedInv'
  <2>1. SameWash
    BY <1>1, <1>8 DEF RemoteLeftTime, Working, WmType
  <2>2. minutes * PerMinute \in Int
    BY WashMachineAssumption
  <2>3. wm'.left_time \in Int
    BY <1>1, <1>8, <2>2 DEF RemoteLeftTime, WmType
  <2>4. panel'.running = panel.running
    BY <1>1, <1>8, <2>3, ShowTimeType DEF RemoteLeftTime
  <2> QED BY <1>3, <1>8, <2>1, <2>4 DEF RemoteLeftTime
<1>9. ASSUME NEW counts, RemoteSetPhases(t, counts)
      PROVE  TimedInv'
  <2>1. SameWash
    BY <1>1, <1>9 DEF RemoteSetPhases, Working, WmType
  <2> QED BY <1>3, <1>9, <2>1 DEF RemoteSetPhases
<1>10. ASSUME NEW state, RemoteState(t, state)
       PROVE  TimedInv'
  <2>1. wm'.work_state = state /\ wm'.left_time = wm.left_time
    BY <1>1, <1>10 DEF RemoteState, WmType
  <2>2. SameWash
    BY <1>10, <2>1 DEF RemoteState, Overwritten, Working, TypeOK
  <2> QED BY <1>3, <1>10, <2>2 DEF RemoteState
<1>11. ASSUME NEW time, Reserve(t, time)
       PROVE  TimedInv'
  <2>1. SameWash
    BY <1>1, <1>11 DEF Reserve, Working, WmType
  <2> HIDE DEF SameWash
  <2>2. CASE time = 0
    BY <1>3, <1>11, <2>1, <2>2 DEF Reserve
  <2>3. CASE time # 0
    BY <1>4, <1>11, <2>1, <2>3 DEF Reserve, Input
  <2> QED BY <2>2, <2>3
<1>12. ASSUME NEW time, NEW mode, LocalTimerOn(t, time, mode)
       PROVE  TimedInv'
  BY <1>4, <1>12 DEF LocalTimerOn, Input, Working
<1>13. ASSUME LocalTimerOff(t) PROVE TimedInv'
  BY <1>2, <1>13 DEF LocalTimerOff, Input, Working
<1> QED BY <1>5, <1>6, <1>7, <1>8, <1>9, <1>10, <1>11, <1>12, <1>13 DEF RemoteInputs

\* The one undisturbed start or stop comes one step further; the other steps
\* of handlers are not about it.
LEMMA GoesOnTimed ==
  ASSUME TypeOK, TimedInv, NEW t \in Tasks, GoesOn(t)
  PROVE  TimedInv'
<1>1. /\ wm \in WmType /\ panel \in PanelType /\ wm.left_time \in Int
      /\ DOMAIN table \subseteq EventNames /\ table \in [DOMAIN table -> Int]
      /\ arg \in [Tasks -> Calls] /\ arg[t] \in Calls
      /\ firing \in {{}} \cup {{n} : n \in DOMAIN table}
  BY DEF TypeOK, WmType
<1>2. /\ "finish_timer" \in EventNames /\ arg[t].name \in EventNames
      /\ arg[t].time \in Int
  BY <1>1 DEF EventNames, Calls
<1>3. ~raced /\ Switching(t) => /\ Stands(t)
                                /\ \A u \in Tasks \ {t} : ~Switching(u)
  BY DEF TimedInv
\* What t leaves to others.
<1>4. ASSUME NEW label, Goto(t, label),
             arg' \in {arg, [arg EXCEPT ![t] = NoCall]}
      PROVE  /\ pc'[t] = label
             /\ \A u \in Tasks \ {t} : pc'[u] = pc[u] /\ arg'[u] = arg[u]
             /\ \A u \in Tasks \ {t} : Switching(u)' <=> Switching(u)
  <2>1. /\ pc'[t] = label
        /\ \A u \in Tasks \ {t} : pc'[u] = pc[u] /\ arg'[u] = arg[u]
    BY <1>1, <1>4, GotoAt
  <2> QED BY <2>1 DEF Switching, Starting
<1>5. CASE Check(t)
  <2>1. /\ pc[t] = "check" /\ pc'[t] = "start" /\ arg' = arg
        /\ \A u \in Tasks \ {t} : pc'[u] = pc[u]
    BY <1>4, <1>5 DEF Check
  <2>2. CASE arg[t].name = "finish_timer"
    <3>1. Switching(t) /\ Switching(t)' /\ Starting(t, "finish_timer")
      BY <2>1, <2>2 DEF Switching, Starting
    <3>2. ~raced => Stands(t)'
      BY <1>3, <1>5, <2>1, <2>2, <3>1 DEF Check, Stands, Starting, Working
    <3>3. raced' = raced /\ \A u \in Tasks \ {t} : Switching(u)' <=> Switching(u)
      BY <1>4, <1>5 DEF Check
    <3> QED BY <1>3, <3>1, <3>2, <3>3, OneTimed
  <2>3. CASE arg[t].name # "finish_timer"
    <3>1. ~Switching(t) /\ ~Switching(t)'
      BY <2>1, <2>3 DEF Switching, Starting
    <3> QED BY <1>5, <2>1, <3>1, UndisturbedTimed DEF Check, Working
  <2> QED BY <2>2, <2>3
<1>6. CASE StartEvent(t)
  <2>1. /\ pc[t] = "start" /\ firing = {} /\ firing' = {} /\ raced' = raced
        /\ wm' = wm /\ panel' = panel
        /\ table' = Started(arg[t].name, arg[t].time)
    BY <1>6 DEF StartEvent, MutexFree
  <2>2. /\ pc'[t] = IF arg[t].name = "finish_timer" THEN "on" ELSE "idle"
        /\ \A u \in Tasks \ {t} : pc'[u] = pc[u] /\ arg'[u] = arg[u]
        /\ \A u \in Tasks \ {t} : Switching(u)' <=> Switching(u)
    BY <1>4, <1>6 DEF StartEvent
  <2>3. /\ DOMAIN table' = DOMAIN table \cup {arg[t].name}
        /\ table'[arg[t].name] = arg[t].time
        /\ \A m \in DOMAIN table : m # arg[t].name => table'[m] = table[m]
    <3>1. PICK n \in EventNames, s \in Int : n = arg[t].name /\ s = arg[t].time
      BY <1>2
    <3>2. table' = Started(n, s)
      BY <2>1, <3>1
    <3> QED BY <3>1, <3>2, StartedType
  <2>4. CASE arg[t].name = "finish_timer"
    <3>1. Switching(t) /\ Switching(t)' /\ Starting(t, "finish_timer")
      BY <2>1, <2>2, <2>4 DEF Switching, Starting
    <3>2. ~raced => Working /\ arg[t].time = wm.left_time
      BY <1>3, <3>1 DEF Stands
    <3>3. ~raced => Stands(t)'
      BY <2>1, <2>2, <2>3, <2>4, <3>2 DEF Stands, Starting, Working, Events!Pending
    <3> QED BY <1>3, <2>1, <2>2, <3>1, <3>3, OneTimed
  <2>5. CASE arg[t].name # "finish_timer"
    <3>1. ~Switching(t) /\ ~Switching(t)'
      BY <2>1, <2>2, <2>5 DEF Switching, Starting
    <3>2. Working' = Working
      BY <2>1 DEF Working
    <3> QED BY <2>1, <2>2, <2>3, <2>5, <3>1, <3>2, UndisturbedTimed
  <2> QED BY <2>4, <2>5
<1>7. ASSUME NEW n \in EventNames, NEW next, StopEvent(t, n, next)
      PROVE  /\ DOMAIN table' = DOMAIN table \ {n}
             /\ \A m \in DOMAIN table' : table'[m] = table[m]
             /\ firing = {} /\ firing' = {} /\ raced' = raced
             /\ wm' = wm /\ Working' = Working /\ panel' = panel
             /\ pc'[t] = next
             /\ \A u \in Tasks \ {t} : pc'[u] = pc[u] /\ arg'[u] = arg[u]
             /\ \A u \in Tasks \ {t} : Switching(u)' <=> Switching(u)
  <2>1. table' = [m \in DOMAIN table \ {n} |-> table[m]]
    BY <1>7 DEF StopEvent, Others
  <2>2. Goto(t, next) /\ arg' = arg
    BY <1>7 DEF StopEvent
  <2> QED BY <1>4, <1>7, <2>1, <2>2 DEF StopEvent, MutexFree, Working
<1>8. CASE StopLocal(t)
  <2>1. pc[t] = "stop_local" /\ StopEvent(t, "local_timer", "stop_finish")
    BY <1>8 DEF StopLocal
  <2>2. "local_timer" \in EventNames
    BY DEF EventNames
  <2>3. pc'[t] = "stop_finish" /\ (Working' <=> Working)
    BY <1>7, <2>1, <2>2
  <2>4. /\ Switching(t) /\ Switching(t)'
        /\ ~raced => Stands(t)'
    BY <1>3, <2>1, <2>3 DEF Stands, Starting, Switching
  <2>5. raced' = raced /\ \A u \in Tasks \ {t} : Switching(u)' <=> Switching(u)
    BY <1>7, <2>1, <2>2
  <2> QED BY <1>3, <2>4, <2>5, OneTimed
<1>9. CASE StopFinish(t)
  <2>1. pc[t] = "stop_finish" /\ StopEvent(t, "finish_timer", "off")
    BY <1>9 DEF StopFinish
  <2>2. /\ pc'[t] = "off" /\ (Working' <=> Working)
        /\ "finish_timer" \notin DOMAIN table'
    BY <1>2, <1>7, <2>1
  <2>3. /\ Switching(t) /\ Switching(t)'
        /\ ~raced => Stands(t)'
    BY <1>3, <2>1, <2>2 DEF Stands, Starting, Switching, Events!Pending
  <2>4. raced' = raced /\ \A u \in Tasks \ {t} : Switching(u)' <=> Switching(u)
    BY <1>2, <1>7, <2>1
  <2> QED BY <1>3, <2>3, <2>4, OneTimed
<1>10. CASE Cancel(t)
  <2>1. pc[t] = "cancel" /\ StopEvent(t, "local_timer", "idle")
    BY <1>10 DEF Cancel
  <2>2. "local_timer" \in EventNames
    BY DEF EventNames
  <2>3. pc'[t] = "idle"
    BY <1>7, <2>1, <2>2
  <2>4. ~Switching(t) /\ ~Switching(t)'
    BY <2>1, <2>3 DEF Switching, Starting
  <2> QED BY <2>4, <1>7, <2>1, <2>2, <2>3, UndisturbedTimed
<1>11. CASE SwitchShown(t)
  <2>1. /\ pc[t] \in {"on", "off"} /\ wm' = wm /\ raced' = raced
        /\ panel'.running = (pc[t] = "on") /\ table' = table /\ firing' = firing
    BY <1>1, <1>11 DEF SwitchShown, timer, PanelType
  <2>2. /\ pc'[t] = "idle"
        /\ \A u \in Tasks \ {t} : Switching(u)' <=> Switching(u)
    BY <1>4, <1>11 DEF SwitchShown
  <2>3. Switching(t) /\ ~Switching(t)'
    BY <2>1, <2>2 DEF Switching, Starting
  <2>4. Working' = Working /\ Stands(t)'
    BY <2>1, <2>2 DEF Working, Stands, Starting
  <2>5. ~raced => Settled'
    <3>1. CASE pc[t] = "on"
      BY <1>3, <2>1, <2>3, <2>4, <3>1 DEF Stands, Settled, Events!Pending
    <3>2. CASE pc[t] = "off"
      <4>1. ~raced => ~Working /\ "finish_timer" \notin DOMAIN table
        BY <1>3, <2>3, <3>2 DEF Stands, Events!Pending
      <4>2. ~raced => "finish_timer" \notin firing
        BY <1>1, <4>1
      <4>3. panel'.running = FALSE
        BY <2>1, <3>2
      <4>4. ~raced => ~Working' /\ "finish_timer" \notin DOMAIN table'
        BY <2>1, <2>4, <4>1
      <4>5. ~raced => "finish_timer" \notin firing'
        BY <2>1, <4>2
      <4>6. ASSUME ~raced PROVE Settled'
        <5>1. ~Working' /\ "finish_timer" \notin DOMAIN table'
              /\ "finish_timer" \notin firing'
          BY <4>4, <4>5, <4>6
        <5>2. Working' = FALSE
          BY <5>1 DEF Working
        <5>3. panel'.running = Working'
          BY <4>3, <5>2
        <5>4. Working' <=> Events!Pending("finish_timer")'
          BY <5>1 DEF Events!Pending
        <5> QED BY <5>1, <5>3, <5>4, Zenon DEF Settled
      <4> QED BY <4>6
    <3> QED BY <2>1, <3>1, <3>2
  <2> QED BY <1>3, <2>1, <2>2, <2>3, <2>4, <2>5, OneTimed
<1>12. CASE AllShown(t) \/ DryShown(t) \/ TimeShown(t)
  <2>1. /\ pc[t] \in {"all", "dry", "time"} /\ Goto(t, "idle") /\ arg' = arg
        /\ wm' = wm /\ raced' = raced /\ UNCHANGED timer
    BY <1>12 DEF AllShown, DryShown, TimeShown, Show
  <2>2. panel'.running = panel.running
    BY <1>1, <1>12, ShowAllType, ShowTimeType DEF AllShown, DryShown, TimeShown, Show
  <2>3. ~Switching(t) /\ ~Switching(t)'
    BY <1>4, <2>1 DEF Switching, Starting
  <2>4. Working' = Working
    BY <2>1 DEF Working
  <2> QED BY <1>4, <2>1, <2>2, <2>3, <2>4, UndisturbedTimed DEF timer
<1> QED BY <1>5, <1>6, <1>8, <1>9, <1>10, <1>11, <1>12 DEF GoesOn

\* The callbacks: those of the wash itself either find no start of it under
\* way or disturb it.
LEMMA CallbacksTimed ==
  ASSUME TypeOK, TimedInv, DaemonStep
  PROVE  TimedInv'
<1>1. /\ wm \in WmType /\ panel \in PanelType /\ wm.left_time \in Int
      /\ table \in [DOMAIN table -> Int]
      /\ firing \in {{}} \cup {{n} : n \in DOMAIN table}
  BY DEF TypeOK, WmType
<1>2. "finish_timer" \in EventNames
  BY DEF EventNames
<1>3. CASE FinishPeriodic
  <2>1. /\ "finish_timer" \in DOMAIN table /\ firing = {} /\ firing' = {}
        /\ DOMAIN table' = DOMAIN table
        /\ table'["finish_timer"] = table["finish_timer"] - 1
    BY <1>2, <1>3, EventsType DEF FinishPeriodic
  <2>2. wm'.left_time = wm.left_time - 1 /\ Working' = Working
    BY <1>1, <1>3 DEF FinishPeriodic, Working, WmType
  <2>3. panel'.running = panel.running
    BY <1>1, <1>3, <2>2, ShowTimeType DEF FinishPeriodic
  <2>4. pc' = pc /\ arg' = arg
    BY <1>3 DEF FinishPeriodic
  <2>5. ~raced' => ~raced /\ \A t \in Tasks : ~Starting(t, "finish_timer")
    BY <1>3 DEF FinishPeriodic
  <2> SUFFICES ASSUME ~raced' PROVE TimedInv'
    BY DEF TimedInv
  <2>6. \A t \in Tasks : Switching(t)' <=> Switching(t)
    BY <2>4 DEF Switching, Starting
  <2>7. ASSUME NEW t \in Tasks PROVE Stands(t)'
    <3>1. Stands(t) /\ ~Starting(t, "finish_timer")
      BY <2>5 DEF TimedInv
    <3> QED BY <2>1, <2>2, <2>4, <3>1 DEF Stands, Starting, Events!Pending
  <2>8. Settled => Settled'
    BY <2>1, <2>2, <2>3 DEF Settled, Events!Pending
  <2> QED BY <2>5, <2>6, <2>7, <2>8 DEF TimedInv
<1>4. CASE FinishTimeout
  <2>1. /\ "finish_timer" \in DOMAIN table /\ firing = {}
        /\ firing' = {"finish_timer"} /\ table' = table
    BY <1>2, <1>4, EventsType DEF FinishTimeout
  <2>2. ~Working'
    BY <1>1, <1>4 DEF FinishTimeout, Working, WmType, WS_FINISHED, WS_WORKING
  <2>3. pc' = pc /\ arg' = arg
    BY <1>4 DEF FinishTimeout
  <2>4. ~raced' => /\ ~raced
                   /\ \A t \in Tasks : pc[t] # "on" /\ ~Starting(t, "finish_timer")
    BY <1>4 DEF FinishTimeout
  <2> SUFFICES ASSUME ~raced' PROVE TimedInv'
    BY DEF TimedInv
  <2>5. \A t \in Tasks : Switching(t)' <=> Switching(t)
    BY <2>3 DEF Switching, Starting
  <2>6. ASSUME NEW t \in Tasks PROVE Stands(t)'
    <3>1. Stands(t) /\ pc[t] # "on" /\ ~Starting(t, "finish_timer")
      BY <2>4 DEF TimedInv
    <3> QED BY <2>1, <2>2, <2>3, <3>1 DEF Stands, Starting, Events!Pending
  <2>7. Settled'
    BY <2>1, <2>2 DEF Settled
  <2> QED BY <2>4, <2>5, <2>6, <2>7 DEF TimedInv
<1>5. CASE FinishReturns
  <2>1. /\ firing = {"finish_timer"} /\ firing' = {}
        /\ DOMAIN table' = DOMAIN table \ {"finish_timer"}
    BY <1>2, <1>5, EventsType DEF FinishReturns, Returns
  <2>2. /\ panel'.running = FALSE /\ wm' = wm /\ pc' = pc /\ arg' = arg
        /\ raced' = raced
    BY <1>1, <1>5 DEF FinishReturns, Returns, PanelType
  <2> SUFFICES ASSUME ~raced' PROVE TimedInv'
    BY DEF TimedInv
  <2>3. \A t \in Tasks : Switching(t)' <=> Switching(t)
    BY <2>2 DEF Switching, Starting
  <2>4. ASSUME NEW t \in Tasks PROVE Stands(t)'
    <3>1. Stands(t)
      BY <2>2 DEF TimedInv
    <3> QED BY <2>1, <2>2, <3>1 DEF Stands, Starting, Working, Events!Pending
  <2>5. Settled => Settled'
    BY <2>1, <2>2 DEF Settled, Working, Events!Pending
  <2> QED BY <2>2, <2>3, <2>4, <2>5 DEF TimedInv
<1>6. CASE LocalTimeout
  <2>1. firing = {} /\ firing' = {"local_timer"} /\ table' = table
    BY <1>6, EventsType DEF LocalTimeout, EventNames
  <2>2. wm'.work_state = local /\ wm'.left_time = wm.left_time
    BY <1>1, <1>6 DEF LocalTimeout, WmType
  <2>3. raced' \/ (raced' = raced /\ Working' = Working)
    BY <1>6, <2>2 DEF LocalTimeout, Overwritten, Working, TypeOK
  <2> QED BY <1>6, <2>1, <2>2, <2>3, UndisturbedTimed DEF LocalTimeout
<1>7. CASE ReservationTimeout
  <2>1. firing = {} /\ firing' = {"reservation_timer"} /\ table' = table
    BY <1>7, EventsType DEF ReservationTimeout, EventNames
  <2>2. Working' = Working /\ wm'.left_time = wm.left_time
    BY <1>1, <1>7 DEF ReservationTimeout, Working, WmType
  <2> QED BY <1>7, <2>1, <2>2, UndisturbedTimed DEF ReservationTimeout
<1>8. ASSUME NEW n \in {"local_timer", "reservation_timer"},
             OtherPeriod(n) \/ OtherReturns(n)
      PROVE  TimedInv'
  <2>1. n \in EventNames /\ n # "finish_timer"
    BY DEF EventNames
  <2>2. /\ "finish_timer" \in DOMAIN table' <=> "finish_timer" \in DOMAIN table
        /\ "finish_timer" \in DOMAIN table
             => table'["finish_timer"] = table["finish_timer"]
        /\ "finish_timer" \notin firing /\ "finish_timer" \notin firing'
    <3>1. Events!CountDown(n) \/ Events!Fired(n)
      BY <1>8 DEF OtherPeriod, OtherReturns, Returns
    <3>2. CASE Events!CountDown(n)
      BY <2>1, <3>2, EventsType
    <3>3. CASE Events!Fired(n)
      BY <2>1, <3>3, EventsType
    <3> QED BY <3>1, <3>2, <3>3
  <2>3. Working' = Working
    BY <1>8 DEF OtherPeriod, OtherReturns, Returns, Working
  <2> QED BY <1>8, <2>2, <2>3, UndisturbedTimed DEF OtherPeriod, OtherReturns, Returns
<1>9. CASE EmptyPeriod
  BY <1>9, UndisturbedTimed DEF EmptyPeriod, Working
<1> QED BY <1>3, <1>4, <1>5, <1>6, <1>7, <1>8, <1>9 DEF DaemonStep

\* A wash is under way exactly as long as its event is pending, with as many
\* seconds left, and the panel shows it, whenever no start or stop is under way
\* and the last one ran undisturbed: for any number of tasks, programs, times
\* and inputs, WorkState written by the cloud and local timers included.
THEOREM WashTimed == Spec => []WashIsTimed
<1>1. TypeOK /\ TimedInv /\ [Next]_vars => TimedInv'
  <2> SUFFICES ASSUME TypeOK, TimedInv, [Next]_vars PROVE TimedInv'
    OBVIOUS
  <2>1. CASE UNCHANGED vars
    BY <2>1, UndisturbedTimed DEF vars, timer, Working
  <2> QED BY <2>1, PanelInputsTimed, RemoteInputsTimed, GoesOnTimed, CallbacksTimed
          DEF Next
<1>2. TimedInv => WashIsTimed
  BY DEF TimedInv, Settled, WashIsTimed
<1> QED BY InitType, StepType, InitTimed, <1>1, <1>2, PTL DEF Spec

-----------------------------------------------------------------------------
(* What most steps leave alone.                                            *)

\* A handler has computed on wm_ib when it calls the timer service or the cloud.
LEMMA GoesOnKeepsWash ==
  ASSUME NEW t \in Tasks, GoesOn(t)
  PROVE  wm' = wm /\ asked' = asked
<1>1. CASE Check(t) \/ StartEvent(t) \/ SwitchShown(t)
  BY <1>1 DEF Check, StartEvent, SwitchShown
<1>2. CASE StopLocal(t) \/ StopFinish(t) \/ Cancel(t)
  BY <1>2 DEF StopLocal, StopFinish, Cancel, StopEvent
<1>3. CASE AllShown(t) \/ DryShown(t) \/ TimeShown(t)
  BY <1>3 DEF AllShown, DryShown, TimeShown, Show
<1> QED BY <1>1, <1>2, <1>3 DEF GoesOn

\* The daemon moves no handler, and only callbacks of an event write wm_ib.
LEMMA DaemonKeepsWash ==
  ASSUME DaemonStep
  PROVE  /\ UNCHANGED <<pc, arg, asked>>
         /\ \/ wm' = wm
            \/ FinishPeriodic \/ FinishTimeout \/ LocalTimeout \/ ReservationTimeout
<1>1. CASE FinishPeriodic \/ FinishTimeout \/ LocalTimeout \/ ReservationTimeout
  BY <1>1 DEF FinishPeriodic, FinishTimeout, LocalTimeout, ReservationTimeout
<1>2. CASE EmptyPeriod \/ FinishReturns
  BY <1>2 DEF EmptyPeriod, FinishReturns, Returns
<1>3. ASSUME NEW n, OtherPeriod(n) \/ OtherReturns(n)
      PROVE  UNCHANGED <<pc, arg, asked, wm>>
  BY <1>3 DEF OtherPeriod, OtherReturns, Returns
<1> QED BY <1>1, <1>2, <1>3 DEF DaemonStep

-----------------------------------------------------------------------------
(* The left time.                                                          *)

\* wm_left_time_valid_check does what its comment says.
LEMMA ValidBelowHour ==
  ASSUME NEW time \in Int
  PROVE  Valid(time) \in Int /\ Valid(time) < Hour
BY WashMachineAssumption DEF Valid, Hour

LEMMA WholeTimeBelowHour ==
  ASSUME NEW w \in WmType
  PROVE  WholeTime(w) < Hour
<1>1. w.phases + (IF w.dry_switch THEN DryTime ELSE 0) \in Int
  BY WashMachineAssumption DEF WmType
<1> QED BY <1>1, ValidBelowHour DEF WholeTime

\* Computing, setting a mode, drying and starting keep a left time below the
\* hour there.
LEMMA HandlersBelowHour ==
  ASSUME NEW w \in WmType, w.left_time < Hour
  PROVE  /\ Calculated(w).left_time < Hour
         /\ \A mode \in Modes : ModeSet(w, mode).left_time < Hour
         /\ \A on \in BOOLEAN : DrySet(w, on).left_time < Hour
         /\ Start(w).left_time < Hour
<1>1. ASSUME NEW v \in WmType, v.left_time < Hour
      PROVE  Calculated(v).left_time < Hour
  BY <1>1, WholeTimeBelowHour DEF Calculated, WmType
<1>2. ASSUME NEW v \in WmType, v.left_time < Hour, NEW mode \in Modes
      PROVE  ModeSet(v, mode).left_time < Hour
  <2> DEFINE u == [v EXCEPT !.work_state = WS_IDLE, !.washing_mode = mode,
                            !.phases = Phases[mode], !.time_set = FALSE]
  <2>1. u \in WmType /\ u.left_time = v.left_time
    BY WashMachineAssumption DEF WmType, WS_IDLE, Modes
  <2>2. Calculated(u).left_time < Hour
    BY <1>1, <1>2, <2>1
  <2> QED BY <1>2, <2>2 DEF ModeSet
<1>3. ASSUME NEW on \in BOOLEAN
      PROVE  DrySet(w, on).left_time < Hour
  <2>1. w.left_time + DryTime \in Int /\ w.left_time - DryTime \in Int
    BY WashMachineAssumption DEF WmType
  <2>2. /\ Valid(w.left_time + DryTime) < Hour
        /\ Valid(w.left_time - DryTime) < Hour
    BY <2>1, ValidBelowHour
  <2> QED BY <2>2 DEF DrySet, WmType
<1>4. Start(w).left_time < Hour
  <2> DEFINE fresh == IF w.work_state # WS_PAUSE THEN Calculated(w) ELSE w
             timed == IF fresh.left_time = 0 THEN ModeSet(fresh, fresh.washing_mode)
                                             ELSE fresh
  <2>1. fresh \in WmType /\ fresh.left_time < Hour
    BY <1>1, CalculatedType
  <2> HIDE DEF fresh
  <2>2. fresh.washing_mode \in Modes
    BY <2>1 DEF WmType
  <2>3. timed \in WmType /\ timed.left_time < Hour
    BY <1>2, <2>1, <2>2, ModeSetType
  <2>4. Start(w) = [timed EXCEPT !.work_state = WS_WORKING]
    BY DEF Start, fresh
  <2> HIDE DEF timed
  <2> QED BY <2>3, <2>4 DEF WmType
<1> QED BY <1>1, <1>2, <1>3, <1>4

\* The cloud sends LeftTime values below the hour.
RemoteBelowHour == \A minutes \in RemoteMinutes : minutes * PerMinute < Hour

LEMMA StepBelowHour ==
  ASSUME RemoteBelowHour, TypeOK, LeftTimeBelowHour, [Next]_vars
  PROVE  LeftTimeBelowHour'
<1>1. wm \in WmType /\ wm.left_time \in Int /\ wm.left_time < Hour /\ Hour' = Hour
  BY DEF TypeOK, WmType, LeftTimeBelowHour, Hour
<1>2. wm'.left_time = wm.left_time => LeftTimeBelowHour'
  BY <1>1 DEF LeftTimeBelowHour
<1>3. ASSUME NEW t, NEW on \in BOOLEAN, Switch(t, on)
      PROVE  LeftTimeBelowHour'
  <2>1. wm' = IF on THEN Start(wm) ELSE [wm EXCEPT !.work_state = WS_PAUSE]
    BY <1>3 DEF Switch
  <2>2. [wm EXCEPT !.work_state = WS_PAUSE].left_time = wm.left_time
    BY <1>1 DEF WmType
  <2> QED BY <1>1, <2>1, <2>2, HandlersBelowHour DEF LeftTimeBelowHour
<1>4. ASSUME NEW shown, NEW time \in Int, PanelTime(shown, time)
      PROVE  LeftTimeBelowHour'
  <2>1. CASE Working
    BY <1>2, <1>4, <2>1 DEF PanelTime
  <2>2. CASE ~Working
    <3>1. wm'.left_time = Valid(time)
      BY <1>1, <1>4, <2>2 DEF PanelTime, WmType
    <3> QED BY <1>1, <3>1, ValidBelowHour DEF LeftTimeBelowHour
  <2> QED BY <2>1, <2>2
<1>5. /\ PerMinute \in Nat \ {0}
      /\ Remainder(wm.left_time, PerMinute) \in Int
      /\ Quotient(wm.left_time, PerMinute) \in Int
  BY <1>1, WashMachineAssumption, QuotientInt
<1>6. CASE PanelInputs
  <2>1. ASSUME NEW on \in BOOLEAN, PanelSwitch(on) \/ PanelDry(on)
        PROVE  LeftTimeBelowHour'
    BY <1>1, <1>3, <2>1, HandlersBelowHour
       DEF PanelSwitch, PanelDry, LeftTimeBelowHour
  <2>2. ASSUME NEW mode \in Modes, PanelMode(mode)
        PROVE  LeftTimeBelowHour'
    BY <1>1, <2>2, HandlersBelowHour DEF PanelMode, LeftTimeBelowHour
  <2>3. ASSUME NEW minute \in 0 .. MaxMinutes - 1, PanelMinute(minute)
        PROVE  LeftTimeBelowHour'
    <3>1. minute * PerMinute + Remainder(wm.left_time, PerMinute) \in Int
      BY <1>5, WashMachineAssumption
    <3> QED BY <1>4, <2>3, <3>1 DEF PanelMinute
  <2>4. ASSUME NEW second \in 0 .. PerMinute - 1, PanelSecond(second)
        PROVE  LeftTimeBelowHour'
    <3>1. Quotient(wm.left_time, PerMinute) * PerMinute + second \in Int
      BY <1>5, WashMachineAssumption
    <3> QED BY <1>4, <2>4, <3>1 DEF PanelSecond
  <2> QED BY <1>6, <2>1, <2>2, <2>3, <2>4 DEF PanelInputs
<1>7. ASSUME NEW t \in Remotes, RemoteInputs(t)
      PROVE  LeftTimeBelowHour'
  <2>1. ASSUME NEW on \in BOOLEAN, RemoteSwitch(t, on) \/ RemoteDry(t, on)
        PROVE  LeftTimeBelowHour'
    BY <1>1, <1>3, <2>1, HandlersBelowHour
       DEF RemoteSwitch, RemoteDry, LeftTimeBelowHour
  <2>2. ASSUME NEW mode \in Modes, RemoteMode(t, mode)
        PROVE  LeftTimeBelowHour'
    BY <1>1, <2>2, HandlersBelowHour DEF RemoteMode, LeftTimeBelowHour
  <2>3. ASSUME NEW minutes \in RemoteMinutes, RemoteLeftTime(t, minutes)
        PROVE  LeftTimeBelowHour'
    <3>1. wm'.left_time = minutes * PerMinute
      BY <1>1, <2>3 DEF RemoteLeftTime, WmType
    <3> QED BY <1>1, <3>1 DEF RemoteBelowHour, LeftTimeBelowHour
  <2>4. ASSUME NEW x, \/ RemoteSetPhases(t, x) \/ RemoteState(t, x) \/ Reserve(t, x)
                     \/ LocalTimerOff(t)
        PROVE  LeftTimeBelowHour'
    <3>1. wm'.left_time = wm.left_time
      BY <1>1, <2>4 DEF RemoteSetPhases, RemoteState, Reserve, LocalTimerOff, WmType
    <3> QED BY <1>2, <3>1
  <2>5. ASSUME NEW time, NEW mode, LocalTimerOn(t, time, mode)
        PROVE  LeftTimeBelowHour'
    BY <1>2, <2>5 DEF LocalTimerOn
  <2> QED BY <1>7, <2>1, <2>2, <2>3, <2>4, <2>5 DEF RemoteInputs
<1>8. CASE DaemonStep
  <2>1. CASE FinishPeriodic
    <3>1. wm'.left_time = wm.left_time - 1
      BY <1>1, <2>1 DEF FinishPeriodic, WmType
    <3>2. Hour \in Int
      BY WashMachineAssumption DEF Hour
    <3> QED BY <1>1, <3>1, <3>2 DEF LeftTimeBelowHour
  <2>2. CASE \/ FinishTimeout \/ LocalTimeout \/ ReservationTimeout
    <3>1. wm'.left_time = wm.left_time
      BY <1>1, <2>2 DEF FinishTimeout, LocalTimeout, ReservationTimeout, WmType
    <3> QED BY <1>2, <3>1
  <2> QED BY <1>2, <1>8, <2>1, <2>2, DaemonKeepsWash DEF DaemonStep
<1> QED BY <1>2, <1>6, <1>7, <1>8, GoesOnKeepsWash DEF Next, Restore, RestoreMode,
        RestoreDry, Show, vars

\* If the cloud writes LeftTime values below the hour only, the time left stays
\* below the hour, for any programs and drying time, and whatever else panel,
\* cloud and shell do: every other way to a left time goes through
\* wm_left_time_valid_check.
THEOREM LeftTimeLimited ==
  ASSUME RemoteBelowHour
  PROVE  Spec => []LeftTimeBelowHour
<1>1. Init => LeftTimeBelowHour
  <2> SUFFICES ASSUME Init PROVE LeftTimeBelowHour
    OBVIOUS
  <2> DEFINE w == [work_state |-> WS_IDLE, left_time |-> 0, phases |-> Phases[0],
                   dry_switch |-> FALSE, washing_mode |-> 0, time_set |-> FALSE,
                   reserved |-> FALSE]
  <2>1. w \in WmType /\ w.time_set = FALSE
    BY WashMachineAssumption DEF WmType, WS_IDLE, Modes
  <2>2. wm = Calculated(w)
    BY DEF Init
  <2> HIDE DEF w
  <2>3. wm.left_time = WholeTime(w)
    BY <2>1, <2>2 DEF Calculated, WmType
  <2> QED BY <2>1, <2>3, WholeTimeBelowHour DEF LeftTimeBelowHour
<1>2. RemoteBelowHour /\ TypeOK /\ LeftTimeBelowHour /\ [Next]_vars
        => LeftTimeBelowHour'
  BY StepBelowHour
<1> QED BY <1>1, <1>2, InitType, StepType, PTL DEF Spec

-----------------------------------------------------------------------------
(* Reservations. A reservation is withdrawn before its event is deleted.   *)

ReservedInv ==
    wm.reserved =>
        \/ Events!Pending("reservation_timer") /\ "reservation_timer" \notin firing
        \/ \E t \in Tasks : Starting(t, "reservation_timer")

\* What the handlers of the wash do to a reservation: nothing.
LEMMA HandlersKeepReserved ==
  ASSUME NEW w \in WmType
  PROVE  /\ \A mode \in Modes : ModeSet(w, mode).reserved = w.reserved
         /\ \A on \in BOOLEAN : DrySet(w, on).reserved = w.reserved
         /\ Start(w).reserved = w.reserved
<1>1. ASSUME NEW v \in WmType
      PROVE  Calculated(v).reserved = v.reserved
  BY <1>1 DEF Calculated, WmType
<1>2. ASSUME NEW v \in WmType, NEW mode \in Modes
      PROVE  ModeSet(v, mode).reserved = v.reserved
  <2> DEFINE u == [v EXCEPT !.work_state = WS_IDLE, !.washing_mode = mode,
                            !.phases = Phases[mode], !.time_set = FALSE]
  <2>1. u \in WmType /\ u.reserved = v.reserved
    BY WashMachineAssumption DEF WmType, WS_IDLE, Modes
  <2>2. Calculated(u).reserved = v.reserved
    BY <1>1, <2>1
  <2> QED BY <2>2 DEF ModeSet
<1>3. \A on \in BOOLEAN : DrySet(w, on).reserved = w.reserved
  BY DEF DrySet, WmType
<1>4. Start(w).reserved = w.reserved
  <2> DEFINE fresh == IF w.work_state # WS_PAUSE THEN Calculated(w) ELSE w
             timed == IF fresh.left_time = 0 THEN ModeSet(fresh, fresh.washing_mode)
                                             ELSE fresh
  <2>1. fresh \in WmType /\ fresh.reserved = w.reserved
    BY <1>1, CalculatedType
  <2> HIDE DEF fresh
  <2>2. fresh.washing_mode \in Modes
    BY <2>1 DEF WmType
  <2>3. timed \in WmType /\ timed.reserved = w.reserved
    BY <1>2, <2>1, <2>2, ModeSetType
  <2>4. Start(w) = [timed EXCEPT !.work_state = WS_WORKING]
    BY DEF Start, fresh
  <2> HIDE DEF timed
  <2> QED BY <2>3, <2>4 DEF WmType
<1> QED BY <1>2, <1>3, <1>4

\* A step that leaves the reservation, its event and the starts of it alone.
LEMMA ReservationKept ==
  ASSUME ReservedInv, wm'.reserved = wm.reserved,
         "reservation_timer" \in DOMAIN table => "reservation_timer" \in DOMAIN table',
         "reservation_timer" \in firing' => "reservation_timer" \in firing,
         \A t \in Tasks : Starting(t, "reservation_timer")
                             => Starting(t, "reservation_timer")'
  PROVE  ReservedInv'
BY DEF ReservedInv, Events!Pending

\* A task that was idle or in another call starts no reservation by its next
\* step unless it says so.
LEMMA HandlersReserved ==
  ASSUME TypeOK, ReservedInv, NEW t \in Tasks, wm'.reserved = wm.reserved,
         UNCHANGED timer,
         \/ ~Starting(t, "reservation_timer")
            /\ \A u \in Tasks \ {t} : pc'[u] = pc[u] /\ arg'[u] = arg[u]
         \/ UNCHANGED <<pc, arg>>
  PROVE  ReservedInv'
BY ReservationKept DEF timer, Starting

LEMMA StepReserved ==
  ASSUME TypeOK, ReservedInv, [Next]_vars
  PROVE  ReservedInv'
<1>1. /\ wm \in WmType /\ arg \in [Tasks -> Calls] /\ Gui \in Tasks
      /\ DOMAIN table \subseteq EventNames /\ table \in [DOMAIN table -> Int]
      /\ firing \in {{}} \cup {{n} : n \in DOMAIN table}
      /\ "finish_timer" \in EventNames /\ "local_timer" \in EventNames
      /\ "reservation_timer" \in EventNames
  BY DEF TypeOK, EventNames, Tasks
<1>2. ASSUME NEW t \in Tasks, pc[t] \notin {"check", "start"}, NEW label,
             Goto(t, label), arg' = arg, UNCHANGED timer, wm'.reserved = wm.reserved
      PROVE  ReservedInv'
  <2>1. \A u \in Tasks \ {t} : pc'[u] = pc[u] /\ arg'[u] = arg[u]
    BY <1>2, GotoAt
  <2> QED BY <1>2, <2>1, HandlersReserved DEF Starting
<1>3. ASSUME NEW t \in Tasks, pc[t] = "idle", NEW n, NEW s, NEW mode,
             CallStart(t, n, s, mode), UNCHANGED timer, wm'.reserved = wm.reserved
      PROVE  ReservedInv'
  <2>1. \A u \in Tasks \ {t} : pc'[u] = pc[u] /\ arg'[u] = arg[u]
    BY <1>1, <1>3, GotoAt DEF CallStart
  <2> QED BY <1>3, <2>1, HandlersReserved DEF Starting
<1>4. ASSUME NEW t \in Tasks, UNCHANGED <<pc, arg, timer>>, wm'.reserved = wm.reserved
      PROVE  ReservedInv'
  BY <1>4, HandlersReserved
<1>5. ASSUME NEW t \in Tasks, NEW on \in BOOLEAN, Switch(t, on)
      PROVE  ReservedInv'
  <2>1. wm'.reserved = wm.reserved
    BY <1>1, <1>5, HandlersKeepReserved DEF Switch, WmType
  <2>2. CASE on
    BY <1>3, <1>5, <2>1, <2>2 DEF Switch, Input
  <2>3. CASE ~on
    BY <1>2, <1>5, <2>1, <2>3 DEF Switch, Input
  <2> QED BY <2>2, <2>3
<1>6. CASE PanelInputs \/ Restore
  <2>1. ASSUME NEW on \in BOOLEAN, PanelDry(on)
        PROVE  ReservedInv'
    BY <1>1, <1>2, <2>1, HandlersKeepReserved DEF PanelDry, Input
  <2>2. ASSUME NEW mode \in Modes, PanelMode(mode)
        PROVE  ReservedInv'
    BY <1>1, <1>2, <2>2, HandlersKeepReserved DEF PanelMode, Input
  <2>3. ASSUME NEW shown, NEW time, PanelTime(shown, time)
        PROVE  ReservedInv'
    <3>1. wm'.reserved = wm.reserved
      BY <1>1, <2>3 DEF PanelTime, WmType
    <3> QED BY <1>1, <1>2, <2>3, <3>1 DEF PanelTime, Input
  <2>4. CASE Restore
    BY <1>1, <1>2, <2>4 DEF Restore, RestoreMode, RestoreDry, Show
  <2> QED BY <1>1, <1>5, <1>6, <2>1, <2>2, <2>3, <2>4
          DEF PanelInputs, PanelSwitch, PanelMinute, PanelSecond
<1>7. ASSUME NEW t \in Remotes, RemoteInputs(t)
      PROVE  ReservedInv'
  <2>1. t \in Tasks
    BY DEF Tasks
  <2>2. ASSUME NEW on \in BOOLEAN, RemoteDry(t, on)
        PROVE  ReservedInv'
    BY <1>1, <1>2, <2>1, <2>2, HandlersKeepReserved DEF RemoteDry, Input
  <2>3. ASSUME NEW mode \in Modes, RemoteMode(t, mode)
        PROVE  ReservedInv'
    BY <1>1, <1>2, <2>1, <2>3, HandlersKeepReserved DEF RemoteMode, Input
  <2>4. ASSUME NEW x, \/ RemoteLeftTime(t, x) \/ RemoteSetPhases(t, x)
                     \/ RemoteState(t, x)
        PROVE  ReservedInv'
    <3>1. wm'.reserved = wm.reserved
      BY <1>1, <2>4 DEF RemoteLeftTime, RemoteSetPhases, RemoteState, WmType
    <3> QED BY <1>4, <2>1, <2>4, <3>1 DEF RemoteLeftTime, RemoteSetPhases, RemoteState
  <2>5. ASSUME NEW time, Reserve(t, time)
        PROVE  ReservedInv'
    <3>1. wm'.reserved = (time # 0)
      BY <1>1, <2>5 DEF Reserve, WmType
    <3>2. CASE time = 0
      BY <3>1, <3>2 DEF ReservedInv
    <3>3. CASE time # 0
      <4>1. Starting(t, "reservation_timer")'
        BY <1>1, <2>1, <2>5, <3>3, GotoAt DEF Reserve, CallStart, Starting
      <4> QED BY <2>1, <4>1 DEF ReservedInv
    <3> QED BY <3>2, <3>3
  <2>6. ASSUME NEW time, NEW mode, LocalTimerOn(t, time, mode)
        PROVE  ReservedInv'
    BY <1>3, <2>1, <2>6 DEF LocalTimerOn, Input
  <2>7. ASSUME LocalTimerOff(t) PROVE ReservedInv'
    BY <1>2, <2>1, <2>7 DEF LocalTimerOff, Input
  <2> QED BY <1>5, <1>7, <2>1, <2>2, <2>3, <2>4, <2>5, <2>6, <2>7
          DEF RemoteInputs, RemoteSwitch
<1>8. ASSUME NEW t \in Tasks, GoesOn(t)
      PROVE  ReservedInv'
  <2>1. wm' = wm
    BY <1>8, GoesOnKeepsWash
  <2>2. CASE Check(t)
    <3>1. /\ pc[t] = "check" /\ pc'[t] = "start"
          /\ \A u \in Tasks \ {t} : pc'[u] = pc[u]
          /\ UNCHANGED <<arg, table, firing>>
      BY <2>2, GotoAt DEF Check
    <3> QED BY <2>1, <3>1, ReservationKept DEF Starting
  <2>3. CASE StartEvent(t)
    <3> DEFINE n == arg[t].name
    <3>1. n \in EventNames /\ arg[t].time \in Int
      BY <1>1 DEF Calls
    <3>2. /\ firing = {} /\ firing' = {} /\ table' = Started(n, arg[t].time)
          /\ \A u \in Tasks \ {t} : pc'[u] = pc[u] /\ arg'[u] = arg[u]
      BY <1>1, <2>3, GotoAt DEF StartEvent, MutexFree
    <3> HIDE DEF n
    <3>3. DOMAIN table' = DOMAIN table \cup {n}
      BY <3>1, <3>2, StartedType
    <3>4. CASE n = "reservation_timer"
      BY <3>2, <3>3, <3>4 DEF ReservedInv, Events!Pending
    <3>5. CASE n # "reservation_timer"
      <4>1. ~Starting(t, "reservation_timer")
        BY <3>5 DEF Starting, n
      <4>2. \A u \in Tasks : Starting(u, "reservation_timer")
                                => Starting(u, "reservation_timer")'
        BY <3>2, <4>1 DEF Starting
      <4> QED BY <2>1, <3>2, <3>3, <4>2, ReservationKept
    <3> QED BY <3>4, <3>5
  <2>4. ASSUME NEW n \in {"local_timer", "finish_timer"}, NEW next,
               pc[t] \notin {"check", "start"}, StopEvent(t, n, next)
        PROVE  ReservedInv'
    <3>1. /\ DOMAIN table' = DOMAIN table \ {n} /\ firing' = firing /\ arg' = arg
          /\ \A u \in Tasks \ {t} : pc'[u] = pc[u]
      BY <2>4, GotoAt DEF StopEvent, Others
    <3>2. \A u \in Tasks : Starting(u, "reservation_timer")
                              => Starting(u, "reservation_timer")'
      BY <2>4, <3>1 DEF Starting
    <3> QED BY <2>1, <3>1, <3>2, ReservationKept
  <2>5. CASE StopLocal(t) \/ StopFinish(t) \/ Cancel(t)
    BY <2>4, <2>5 DEF StopLocal, StopFinish, Cancel
  <2>6. CASE SwitchShown(t) \/ AllShown(t) \/ DryShown(t) \/ TimeShown(t)
    BY <1>2, <2>1, <2>6 DEF SwitchShown, AllShown, DryShown, TimeShown, Show
  <2> QED BY <1>8, <2>2, <2>3, <2>5, <2>6 DEF GoesOn
<1>9. CASE DaemonStep
  <2>1. UNCHANGED <<pc, arg>>
    BY <1>9, DaemonKeepsWash
  <2>2. ASSUME wm'.reserved = wm.reserved,
               "reservation_timer" \in DOMAIN table
                  => "reservation_timer" \in DOMAIN table',
               "reservation_timer" \in firing' => "reservation_timer" \in firing
        PROVE  ReservedInv'
    BY <2>1, <2>2, ReservationKept DEF Starting
  <2>3. CASE FinishPeriodic
    <3>1. wm'.reserved = wm.reserved
      BY <1>1, <2>3 DEF FinishPeriodic, WmType
    <3>2. DOMAIN table' = DOMAIN table /\ firing' = {}
      BY <1>1, <2>3, EventsType DEF FinishPeriodic
    <3> QED BY <2>2, <3>1, <3>2
  <2>4. CASE FinishTimeout \/ LocalTimeout
    <3>1. wm'.reserved = wm.reserved
      BY <1>1, <2>4 DEF FinishTimeout, LocalTimeout, WmType
    <3>2. table' = table /\ "reservation_timer" \notin firing'
      BY <1>1, <2>4, EventsType DEF FinishTimeout, LocalTimeout
    <3> QED BY <2>2, <3>1, <3>2
  <2>5. CASE FinishReturns
    <3>1. DOMAIN table' = DOMAIN table \ {"finish_timer"} /\ firing' = {} /\ wm' = wm
      BY <1>1, <2>5, EventsType DEF FinishReturns, Returns
    <3> QED BY <2>2, <3>1
  <2>6. CASE ReservationTimeout
    <3>1. wm'.reserved = FALSE
      BY <1>1, <2>6 DEF ReservationTimeout, WmType
    <3> QED BY <3>1 DEF ReservedInv
  <2>7. CASE EmptyPeriod
    BY <2>2, <2>7 DEF EmptyPeriod
  <2>8. ASSUME NEW n \in {"local_timer", "reservation_timer"}, OtherPeriod(n)
        PROVE  ReservedInv'
    <3>1. DOMAIN table' = DOMAIN table /\ firing' = {} /\ wm' = wm
      BY <1>1, <2>8, EventsType DEF OtherPeriod
    <3> QED BY <2>2, <3>1
  <2>9. ASSUME NEW n \in {"local_timer", "reservation_timer"}, OtherReturns(n)
        PROVE  ReservedInv'
    <3>1. /\ firing = {n} /\ firing' = {} /\ wm' = wm
          /\ DOMAIN table' = DOMAIN table \ {n}
      BY <1>1, <2>9, EventsType DEF OtherReturns, Returns
    <3>2. CASE n = "local_timer"
      BY <2>2, <3>1, <3>2
    <3>3. CASE n = "reservation_timer"
      <4>1. wm'.reserved => \E t \in Tasks : Starting(t, "reservation_timer")
        BY <3>1, <3>3 DEF ReservedInv
      <4> QED BY <2>1, <4>1 DEF ReservedInv, Starting
    <3> QED BY <3>2, <3>3
  <2> QED BY <1>9, <2>3, <2>4, <2>5, <2>6, <2>7, <2>8, <2>9 DEF DaemonStep
<1>10. CASE UNCHANGED vars
  BY <1>1, <1>4, <1>10 DEF vars
<1> QED BY <1>6, <1>7, <1>8, <1>9, <1>10 DEF Next

\* A reservation that the machine reports is being timed, or its handler is
\* about to start its event, whatever else starts and stops timers: a work
\* switch clears the other two events only, and the end of a reservation
\* withdraws it before its event is deleted.
THEOREM ReservationTimed == Spec => []ReservationIsTimed
<1>1. Init => ReservedInv
  <2> SUFFICES ASSUME Init PROVE ReservedInv
    OBVIOUS
  <2> DEFINE w == [work_state |-> WS_IDLE, left_time |-> 0, phases |-> Phases[0],
                   dry_switch |-> FALSE, washing_mode |-> 0, time_set |-> FALSE,
                   reserved |-> FALSE]
  <2>1. wm = Calculated(w)
    BY DEF Init
  <2>2. Calculated(w).reserved = FALSE
    BY DEF Calculated
  <2> QED BY <2>1, <2>2 DEF ReservedInv
<1>2. TypeOK /\ ReservedInv /\ [Next]_vars => ReservedInv'
  BY StepReserved
<1>3. ReservedInv => ReservationIsTimed
  BY DEF ReservedInv, ReservationIsTimed
<1> QED BY InitType, StepType, <1>1, <1>2, <1>3, PTL DEF Spec

-----------------------------------------------------------------------------
(* Fresh starts. A time that the machine keeps for its next start was set   *)
(* on the panel, and the start of a wash forgets it.                        *)

AskedInv == wm.time_set => asked

\* What FreshStartIsWhole says of a step.
FreshStart ==
    \A t \in Tasks :
        (wm.work_state # WS_PAUSE /\ ~asked /\ ~Starting(t, "finish_timer")
             /\ Starting(t, "finish_timer")')
           => wm'.left_time = WholeTime(wm')

\* The program of a mode that is accepted is whole, and no time is kept.
LEMMA ModeSetWhole ==
  ASSUME NEW w \in WmType, NEW mode \in Modes, w.work_state # WS_WORKING
  PROVE  /\ ModeSet(w, mode).left_time = WholeTime(ModeSet(w, mode))
         /\ ~ModeSet(w, mode).time_set
<1> DEFINE v == [w EXCEPT !.work_state = WS_IDLE, !.washing_mode = mode,
                          !.phases = Phases[mode], !.time_set = FALSE]
<1>1. v \in WmType /\ ~v.time_set
  BY WashMachineAssumption DEF WmType, WS_IDLE, Modes
<1>2. ModeSet(w, mode) = Calculated(v)
  BY DEF ModeSet
<1> HIDE DEF v
<1>3. Calculated(v) = [v EXCEPT !.left_time = WholeTime(v)]
  BY <1>1 DEF Calculated
<1>4. WholeTime(v) \in Int
  BY <1>1, WashMachineAssumption DEF WholeTime, Valid, Hour, WmType
<1>5. LET c == [v EXCEPT !.left_time = WholeTime(v)]
      IN  /\ c.left_time = WholeTime(v) /\ c.phases = v.phases
          /\ c.dry_switch = v.dry_switch /\ c.time_set = v.time_set
  BY <1>1 DEF WmType
<1> QED BY <1>1, <1>2, <1>3, <1>5 DEF WholeTime

\* What the handlers of the wash do to a time that is kept: nothing keeps one.
LEMMA HandlersKeepNoTime ==
  ASSUME NEW w \in WmType
  PROVE  /\ \A mode \in Modes : ModeSet(w, mode).time_set => w.time_set
         /\ \A on \in BOOLEAN : DrySet(w, on).time_set = w.time_set
         /\ Start(w).time_set => w.time_set /\ w.work_state = WS_PAUSE
         /\ w.work_state # WS_PAUSE /\ ~w.time_set
              => Start(w).left_time = WholeTime(Start(w))
<1>1. \A mode \in Modes : ModeSet(w, mode).time_set => w.time_set
  BY ModeSetType, ModeSetWhole
<1>2. \A on \in BOOLEAN : DrySet(w, on).time_set = w.time_set
  BY DEF DrySet, WmType
<1> DEFINE fresh == IF w.work_state # WS_PAUSE THEN Calculated(w) ELSE w
           timed == IF fresh.left_time = 0 THEN ModeSet(fresh, fresh.washing_mode)
                                           ELSE fresh
<1>3. /\ fresh \in WmType
      /\ fresh.work_state = w.work_state
      /\ fresh.time_set => w.time_set /\ w.work_state = WS_PAUSE
  BY CalculatedType DEF Calculated, WmType
<1>4. w.work_state # WS_PAUSE /\ ~w.time_set => fresh.left_time = WholeTime(fresh)
  <2> SUFFICES ASSUME w.work_state # WS_PAUSE, ~w.time_set
               PROVE  fresh.left_time = WholeTime(fresh)
    OBVIOUS
  <2>1. fresh = [w EXCEPT !.left_time = WholeTime(w)]
    BY DEF Calculated
  <2>2. LET c == [w EXCEPT !.left_time = WholeTime(w)]
        IN  /\ c.left_time = WholeTime(w) /\ c.phases = w.phases
            /\ c.dry_switch = w.dry_switch
    BY DEF WmType
  <2> QED BY <2>1, <2>2 DEF WholeTime
<1>5. Start(w) = [timed EXCEPT !.work_state = WS_WORKING]
  BY DEF Start
<1> HIDE DEF fresh
<1>6. fresh.washing_mode \in Modes
  BY <1>3 DEF WmType
<1>7. /\ timed \in WmType
      /\ timed.time_set => w.time_set /\ w.work_state = WS_PAUSE
  BY <1>3, <1>6, ModeSetType, ModeSetWhole
<1>8. w.work_state # WS_PAUSE /\ ~w.time_set
        => timed.left_time = WholeTime(timed)
  <2>1. CASE fresh.work_state = WS_WORKING
    BY <1>4, <2>1 DEF ModeSet
  <2>2. CASE fresh.work_state # WS_WORKING
    BY <1>3, <1>4, <1>6, <2>2, ModeSetWhole
  <2> QED BY <2>1, <2>2
<1> HIDE DEF timed
<1>9. /\ Start(w).left_time = timed.left_time /\ Start(w).phases = timed.phases
      /\ Start(w).dry_switch = timed.dry_switch /\ Start(w).time_set = timed.time_set
  BY <1>5, <1>7 DEF WmType
<1>10. WholeTime(Start(w)) = WholeTime(timed)
  BY <1>9 DEF WholeTime
<1> QED BY <1>1, <1>2, <1>7, <1>8, <1>9, <1>10

\* A step that is not a switch starts no wash, and one that keeps a time is a
\* time set on the panel.
LEMMA StepAsked ==
  ASSUME TypeOK, AskedInv, [Next]_vars
  PROVE  AskedInv' /\ FreshStart
<1>1. /\ wm \in WmType /\ arg \in [Tasks -> Calls] /\ asked \in BOOLEAN
      /\ Gui \in Tasks /\ (wm.time_set => asked)
  BY DEF TypeOK, AskedInv, Tasks
<1>2. ASSUME NEW t \in Tasks, pc[t] \notin {"check", "start"}, NEW label,
             label # "check", label # "start", Goto(t, label), arg' = arg,
             wm'.time_set => wm.time_set \/ asked', asked => asked'
      PROVE  AskedInv' /\ FreshStart
  <2>1. \A u \in Tasks : Starting(u, "finish_timer")' => Starting(u, "finish_timer")
    BY <1>2, GotoAt DEF Starting
  <2> QED BY <1>1, <1>2, <2>1 DEF AskedInv, FreshStart
<1>3. ASSUME NEW t \in Tasks, NEW n, n # "finish_timer", NEW s, NEW mode,
             CallStart(t, n, s, mode),
             wm'.time_set => wm.time_set, asked => asked'
      PROVE  AskedInv' /\ FreshStart
  <2>1. arg'[t].name = n /\ \A u \in Tasks \ {t} : arg'[u] = arg[u]
    BY <1>1, <1>3 DEF CallStart
  <2>2. \A u \in Tasks \ {t} : pc'[u] = pc[u]
    BY <1>3, GotoAt DEF CallStart
  <2>3. \A u \in Tasks : Starting(u, "finish_timer")' => Starting(u, "finish_timer")
    BY <1>3, <2>1, <2>2 DEF Starting
  <2> QED BY <1>1, <1>3, <2>3 DEF AskedInv, FreshStart
<1>4. ASSUME UNCHANGED <<pc, arg>>, wm'.time_set => wm.time_set, asked => asked'
      PROVE  AskedInv' /\ FreshStart
  BY <1>1, <1>4 DEF AskedInv, FreshStart, Starting
<1>5. ASSUME NEW t \in Tasks, NEW on \in BOOLEAN, Switch(t, on)
      PROVE  AskedInv' /\ FreshStart
  <2>1. /\ wm' = IF on THEN Start(wm) ELSE [wm EXCEPT !.work_state = WS_PAUSE]
        /\ asked' = (asked /\ ~(on /\ wm.work_state # WS_PAUSE))
    BY <1>5 DEF Switch
  <2>2. CASE on
    <3>1. wm' = Start(wm)
      BY <2>1, <2>2
    <3>2. wm'.time_set => wm.time_set /\ wm.work_state = WS_PAUSE
      BY <1>1, <3>1, HandlersKeepNoTime
    <3>3. AskedInv'
      BY <1>1, <2>1, <3>2 DEF AskedInv
    <3>4. ASSUME wm.work_state # WS_PAUSE, ~asked
          PROVE  wm'.left_time = WholeTime(wm')
      BY <1>1, <3>1, <3>4, HandlersKeepNoTime
    <3> QED BY <3>3, <3>4 DEF FreshStart
  <2>3. CASE ~on
    <3>1. wm'.time_set = wm.time_set
      BY <1>1, <2>1, <2>3 DEF WmType
    <3>2. asked' = asked
      BY <1>1, <2>1, <2>3
    <3>3. Goto(t, "stop_local") /\ arg' = arg /\ pc[t] = "idle"
      BY <1>5, <2>3 DEF Switch, Input
    <3> QED BY <1>2, <3>1, <3>2, <3>3
  <2> QED BY <2>2, <2>3
<1>6. CASE PanelInputs \/ Restore
  <2>1. ASSUME NEW on \in BOOLEAN, PanelDry(on)
        PROVE  AskedInv' /\ FreshStart
    BY <1>1, <1>2, <2>1, HandlersKeepNoTime DEF PanelDry, Input
  <2>2. ASSUME NEW mode \in Modes, PanelMode(mode)
        PROVE  AskedInv' /\ FreshStart
    BY <1>1, <1>2, <2>2, HandlersKeepNoTime DEF PanelMode, Input
  <2>3. ASSUME NEW shown, NEW time, PanelTime(shown, time)
        PROVE  AskedInv' /\ FreshStart
    <3>1. wm'.time_set => wm.time_set \/ asked'
      BY <1>1, <2>3 DEF PanelTime, WmType
    <3>2. asked => asked'
      BY <2>3 DEF PanelTime
    <3> QED BY <1>1, <1>2, <2>3, <3>1, <3>2 DEF PanelTime, Input
  <2>4. CASE Restore
    BY <1>1, <1>2, <2>4 DEF Restore, RestoreMode, RestoreDry, Show
  <2> QED BY <1>1, <1>5, <1>6, <2>1, <2>2, <2>3, <2>4
          DEF PanelInputs, PanelSwitch, PanelMinute, PanelSecond
<1>7. ASSUME NEW t \in Remotes, RemoteInputs(t)
      PROVE  AskedInv' /\ FreshStart
  <2>1. t \in Tasks
    BY DEF Tasks
  <2>2. ASSUME NEW on \in BOOLEAN, RemoteDry(t, on)
        PROVE  AskedInv' /\ FreshStart
    BY <1>1, <1>2, <2>1, <2>2, HandlersKeepNoTime DEF RemoteDry, Input
  <2>3. ASSUME NEW mode \in Modes, RemoteMode(t, mode)
        PROVE  AskedInv' /\ FreshStart
    BY <1>1, <1>2, <2>1, <2>3, HandlersKeepNoTime DEF RemoteMode, Input
  <2>4. ASSUME NEW x, \/ RemoteLeftTime(t, x) \/ RemoteSetPhases(t, x)
                     \/ RemoteState(t, x)
        PROVE  AskedInv' /\ FreshStart
    <3>1. wm'.time_set = wm.time_set /\ asked' = asked
      BY <1>1, <2>4 DEF RemoteLeftTime, RemoteSetPhases, RemoteState, WmType
    <3> QED BY <1>4, <2>4, <3>1 DEF RemoteLeftTime, RemoteSetPhases, RemoteState
  <2>5. ASSUME NEW time, Reserve(t, time)
        PROVE  AskedInv' /\ FreshStart
    <3>1. wm'.time_set = wm.time_set /\ asked' = asked
      BY <1>1, <2>5 DEF Reserve, WmType
    <3>2. CASE time = 0
      BY <1>4, <2>5, <3>1, <3>2 DEF Reserve
    <3>3. CASE time # 0
      BY <1>3, <2>1, <2>5, <3>1, <3>3 DEF Reserve
    <3> QED BY <3>2, <3>3
  <2>6. ASSUME NEW time, NEW mode, LocalTimerOn(t, time, mode)
        PROVE  AskedInv' /\ FreshStart
    BY <1>3, <2>1, <2>6 DEF LocalTimerOn
  <2>7. ASSUME LocalTimerOff(t) PROVE AskedInv' /\ FreshStart
    BY <1>2, <2>1, <2>7 DEF LocalTimerOff, Input
  <2> QED BY <1>5, <1>7, <2>1, <2>2, <2>3, <2>4, <2>5, <2>6, <2>7
          DEF RemoteInputs, RemoteSwitch
<1>8. ASSUME NEW t \in Tasks, GoesOn(t)
      PROVE  AskedInv' /\ FreshStart
  <2>1. wm' = wm /\ asked' = asked
    BY <1>8, GoesOnKeepsWash
  <2>2. ASSUME \A u \in Tasks : Starting(u, "finish_timer")'
                                   => Starting(u, "finish_timer")
        PROVE  AskedInv' /\ FreshStart
    BY <1>1, <2>1, <2>2 DEF AskedInv, FreshStart
  <2>3. CASE Check(t)
    <3>1. /\ pc[t] = "check" /\ arg' = arg
          /\ \A u \in Tasks \ {t} : pc'[u] = pc[u]
      BY <2>3, GotoAt DEF Check
    <3> QED BY <2>2, <3>1 DEF Starting
  <2>4. CASE StartEvent(t)
    <3>1. /\ pc'[t] \notin {"check", "start"}
          /\ \A u \in Tasks \ {t} : pc'[u] = pc[u] /\ arg'[u] = arg[u]
      BY <1>1, <2>4, GotoAt DEF StartEvent
    <3> QED BY <2>2, <3>1 DEF Starting
  <2>5. ASSUME NEW n, NEW next, pc[t] \notin {"check", "start"},
               next # "check", next # "start", StopEvent(t, n, next)
        PROVE  AskedInv' /\ FreshStart
    BY <1>2, <2>1, <2>5 DEF StopEvent
  <2>6. CASE StopLocal(t) \/ StopFinish(t) \/ Cancel(t)
    BY <2>5, <2>6 DEF StopLocal, StopFinish, Cancel
  <2>7. CASE SwitchShown(t) \/ AllShown(t) \/ DryShown(t) \/ TimeShown(t)
    BY <1>2, <2>1, <2>7 DEF SwitchShown, AllShown, DryShown, TimeShown, Show
  <2> QED BY <1>8, <2>3, <2>4, <2>6, <2>7 DEF GoesOn
<1>9. CASE DaemonStep
  <2>1. wm'.time_set = wm.time_set
    BY <1>1, <1>9, DaemonKeepsWash
       DEF FinishPeriodic, FinishTimeout, LocalTimeout, ReservationTimeout, WmType
  <2> QED BY <1>4, <1>9, <2>1, DaemonKeepsWash
<1>10. CASE UNCHANGED vars
  BY <1>4, <1>10 DEF vars
<1> QED BY <1>6, <1>7, <1>8, <1>9, <1>10 DEF Next

\* A wash that is started anew takes the time of its program, if no time was
\* set on the panel since the last such start: for any programs, times, tasks
\* and inputs, WorkState written by the cloud and local timers included.
THEOREM FreshStartWhole == Spec => FreshStartIsWhole
<1>1. Init => AskedInv
  <2> SUFFICES ASSUME Init PROVE AskedInv
    OBVIOUS
  <2> DEFINE w == [work_state |-> WS_IDLE, left_time |-> 0, phases |-> Phases[0],
                   dry_switch |-> FALSE, washing_mode |-> 0, time_set |-> FALSE,
                   reserved |-> FALSE]
  <2>1. wm = Calculated(w)
    BY DEF Init
  <2>2. Calculated(w).time_set = FALSE
    BY DEF Calculated
  <2> QED BY <2>1, <2>2 DEF AskedInv
<1>2. TypeOK /\ AskedInv /\ [Next]_vars => AskedInv'
  BY StepAsked
<1>3. TypeOK /\ AskedInv /\ [Next]_vars => [FreshStart]_vars
  BY StepAsked
<1>4. [FreshStart]_vars =>
        [\A t \in Tasks :
           (wm.work_state # WS_PAUSE /\ ~asked /\ ~Starting(t, "finish_timer")
                /\ Starting(t, "finish_timer")')
              => wm'.left_time = WholeTime(wm')]_vars
  BY DEF FreshStart
<1> QED BY InitType, StepType, <1>1, <1>2, <1>3, <1>4, PTL
        DEF Spec, FreshStartIsWhole

-----------------------------------------------------------------------------
(* The program that the panel shows.                                        *)

\* What OnlyDrySpoilsProgram says of a step.
ShownOn == ProgramShown /\ ~(pc[Gui] = "restore_dry" /\ pc'[Gui] = "idle")
              => ProgramShown'

\* What the handlers and setters do to the program.
LEMMA ProgramOf ==
  ASSUME NEW w \in WmType, NEW p \in PanelType
  PROVE  /\ \A on \in BOOLEAN : DrySet(w, on).washing_mode = w.washing_mode
         /\ Start(w).washing_mode = w.washing_mode
         /\ \A time \in Int : ShowTime(p, time).program = p.program
         /\ ShowAll(p, w).program = w.washing_mode
         /\ ShowDry(p, w).program = p.program
<1>1. \A v \in WmType : Calculated(v).washing_mode = v.washing_mode
  BY DEF Calculated, WmType
<1>2. \A v \in WmType : ModeSet(v, v.washing_mode).washing_mode = v.washing_mode
  <2> SUFFICES ASSUME NEW v \in WmType
               PROVE  ModeSet(v, v.washing_mode).washing_mode = v.washing_mode
    OBVIOUS
  <2> DEFINE u == [v EXCEPT !.work_state = WS_IDLE, !.washing_mode = v.washing_mode,
                            !.phases = Phases[v.washing_mode], !.time_set = FALSE]
  <2>1. u \in WmType /\ u.washing_mode = v.washing_mode
    BY WashMachineAssumption DEF WmType, WS_IDLE, Modes
  <2>2. Calculated(u).washing_mode = v.washing_mode
    BY <1>1, <2>1
  <2> QED BY <2>2 DEF ModeSet
<1>3. \A on \in BOOLEAN : DrySet(w, on).washing_mode = w.washing_mode
  BY DEF DrySet, WmType
<1>4. Start(w).washing_mode = w.washing_mode
  <2> DEFINE fresh == IF w.work_state # WS_PAUSE THEN Calculated(w) ELSE w
             timed == IF fresh.left_time = 0 THEN ModeSet(fresh, fresh.washing_mode)
                                             ELSE fresh
  <2>1. fresh \in WmType /\ fresh.washing_mode = w.washing_mode
    BY <1>1, CalculatedType
  <2>2. Start(w) = [timed EXCEPT !.work_state = WS_WORKING]
    BY DEF Start
  <2> HIDE DEF fresh
  <2>3. timed \in WmType /\ timed.washing_mode = w.washing_mode
    BY <1>2, <2>1, ModeSetType DEF WmType
  <2> HIDE DEF timed
  <2> QED BY <2>2, <2>3 DEF WmType
<1>5. \A q \in PanelType, time \in Int : ShowTime(q, time).program = q.program
  BY DEF ShowTime, PanelType
<1>6. w.left_time \in Int /\ w.washing_mode \in Nat /\ w.dry_switch \in BOOLEAN
  BY WashMachineAssumption DEF WmType, Modes
<1>7. /\ [p EXCEPT !.program = w.washing_mode] \in PanelType
      /\ [p EXCEPT !.program = w.washing_mode].program = w.washing_mode
      /\ [p EXCEPT !.option = w.dry_switch] \in PanelType
      /\ [p EXCEPT !.option = w.dry_switch].program = p.program
  BY <1>6 DEF PanelType
<1> QED BY <1>3, <1>4, <1>5, <1>6, <1>7 DEF ShowAll, ShowDry

\* A task that shows no program and keeps the machine's.
LEMMA SameProgram ==
  ASSUME TypeOK, wm'.washing_mode = wm.washing_mode, panel'.program = panel.program,
         \A t \in Tasks : pc[t] \in {"all", "restore_mode"} => pc'[t] = pc[t]
  PROVE  ShownOn
<1>1. CASE \A t \in Tasks : pc[t] \notin {"all", "restore_mode"}
  BY <1>1 DEF ShownOn, ProgramShown
<1>2. CASE \E t \in Tasks : pc[t] \in {"all", "restore_mode"}
  BY <1>2 DEF ShownOn, ProgramShown
<1> QED BY <1>1, <1>2

\* A handler that changes the program is going to show it, one that shows it
\* shows the machine's, and all other steps keep both: a rejected drying switch
\* is the one exception.
LEMMA StepShown ==
  ASSUME TypeOK, [Next]_vars
  PROVE  ShownOn
<1>1. /\ wm \in WmType /\ panel \in PanelType /\ wm.left_time \in Int
      /\ TypeOK' /\ wm' \in WmType /\ panel' \in PanelType /\ wm'.left_time \in Int
      /\ Gui \in Tasks
  BY StepType DEF TypeOK, WmType, Tasks
<1>2. ASSUME NEW t \in Tasks, pc[t] \notin {"all", "restore_mode"},
             NEW label, Goto(t, label),
             wm'.washing_mode = wm.washing_mode, panel'.program = panel.program
      PROVE  ShownOn
  BY <1>2, GotoAt, SameProgram
<1>3. ASSUME UNCHANGED pc,
             wm'.washing_mode = wm.washing_mode, panel'.program = panel.program
      PROVE  ShownOn
  BY <1>3, SameProgram
<1>4. ASSUME NEW t \in Tasks, NEW label \in {"all", "restore_mode"}, Goto(t, label)
      PROVE  ShownOn
  BY <1>4, GotoAt DEF ShownOn, ProgramShown
<1>5. ASSUME NEW t \in Tasks, NEW on \in BOOLEAN, Switch(t, on),
             panel'.program = panel.program
      PROVE  ShownOn
  <2>1. wm'.washing_mode = wm.washing_mode
    BY <1>1, <1>5, ProgramOf DEF Switch, WmType
  <2> QED BY <1>2, <1>5, <2>1 DEF Switch, CallStart, Input
<1>6. CASE PanelInputs \/ Restore
  <2>1. ASSUME NEW on \in BOOLEAN, PanelSwitch(on)
        PROVE  ShownOn
    BY <1>1, <1>5, <2>1 DEF PanelSwitch, PanelType
  <2>2. ASSUME NEW on \in BOOLEAN, PanelDry(on)
        PROVE  ShownOn
    <3>1. wm'.washing_mode = wm.washing_mode /\ panel'.program = panel.program
      BY <1>1, <2>2, ProgramOf DEF PanelDry, PanelType
    <3> QED BY <1>1, <1>2, <2>2, <3>1 DEF PanelDry, Input
  <2>3. ASSUME NEW mode \in Modes, PanelMode(mode)
        PROVE  ShownOn
    BY <1>1, <1>4, <2>3 DEF PanelMode
  <2>4. ASSUME NEW shown, shown.program = panel.program, NEW time,
               PanelTime(shown, time)
        PROVE  ShownOn
    <3>1. wm'.washing_mode = wm.washing_mode
      BY <1>1, <2>4 DEF PanelTime, WmType
    <3> QED BY <1>1, <1>2, <2>4, <3>1 DEF PanelTime, Input
  <2>5. ASSUME NEW minute, PanelMinute(minute) \/ PanelSecond(minute)
        PROVE  ShownOn
    BY <1>1, <2>4, <2>5 DEF PanelMinute, PanelSecond, PanelType
  <2>6. CASE RestoreMode
    <3>1. wm' = wm /\ panel'.program = wm.washing_mode
      BY <1>1, <2>6 DEF RestoreMode, Show, PanelType
    <3> QED BY <3>1 DEF ShownOn, ProgramShown
  <2>7. CASE RestoreDry
    BY <1>1, <2>7, GotoAt DEF RestoreDry, Show, ShownOn
  <2> QED BY <1>6, <2>1, <2>2, <2>3, <2>5, <2>6, <2>7 DEF PanelInputs, Restore
<1>7. ASSUME NEW t \in Remotes, RemoteInputs(t)
      PROVE  ShownOn
  <2>1. t \in Tasks
    BY DEF Tasks
  <2>2. ASSUME NEW on \in BOOLEAN, RemoteSwitch(t, on)
        PROVE  ShownOn
    BY <1>5, <2>1, <2>2 DEF RemoteSwitch
  <2>3. ASSUME NEW on \in BOOLEAN, RemoteDry(t, on)
        PROVE  ShownOn
    <3>1. wm'.washing_mode = wm.washing_mode /\ panel' = panel
      BY <1>1, <2>3, ProgramOf DEF RemoteDry
    <3> QED BY <1>2, <2>1, <2>3, <3>1 DEF RemoteDry, Input
  <2>4. ASSUME NEW mode \in Modes, RemoteMode(t, mode)
        PROVE  ShownOn
    BY <1>4, <2>1, <2>4 DEF RemoteMode
  <2>5. ASSUME NEW minutes \in RemoteMinutes, RemoteLeftTime(t, minutes)
        PROVE  ShownOn
    <3>1. wm'.washing_mode = wm.washing_mode /\ panel'.program = panel.program
      BY <1>1, <2>5, ProgramOf DEF RemoteLeftTime, WmType
    <3> QED BY <1>3, <2>5, <3>1 DEF RemoteLeftTime
  <2>6. ASSUME NEW x, RemoteSetPhases(t, x) \/ RemoteState(t, x)
        PROVE  ShownOn
    <3>1. wm'.washing_mode = wm.washing_mode /\ panel' = panel
      BY <1>1, <2>6 DEF RemoteSetPhases, RemoteState, WmType
    <3> QED BY <1>3, <2>6, <3>1 DEF RemoteSetPhases, RemoteState
  <2>7. ASSUME NEW time, Reserve(t, time)
        PROVE  ShownOn
    <3>1. wm'.washing_mode = wm.washing_mode /\ panel' = panel
      BY <1>1, <2>7 DEF Reserve, WmType
    <3>2. CASE time = 0
      BY <1>3, <2>7, <3>1, <3>2 DEF Reserve
    <3>3. CASE time # 0
      BY <1>2, <2>1, <2>7, <3>1, <3>3 DEF Reserve, CallStart, Input
    <3> QED BY <3>2, <3>3
  <2>8. ASSUME NEW time, NEW mode, LocalTimerOn(t, time, mode)
        PROVE  ShownOn
    BY <1>2, <2>1, <2>8 DEF LocalTimerOn, CallStart, Input
  <2>9. ASSUME LocalTimerOff(t) PROVE ShownOn
    BY <1>2, <2>1, <2>9 DEF LocalTimerOff, Input
  <2> QED BY <1>7, <2>2, <2>3, <2>4, <2>5, <2>6, <2>7, <2>8, <2>9 DEF RemoteInputs
<1>8. ASSUME NEW t \in Tasks, GoesOn(t)
      PROVE  ShownOn
  <2>1. wm' = wm
    BY <1>8, GoesOnKeepsWash
  <2>2. CASE Check(t) \/ StartEvent(t)
    BY <1>2, <2>1, <2>2 DEF Check, StartEvent
  <2>3. CASE StopLocal(t) \/ StopFinish(t) \/ Cancel(t)
    BY <1>2, <2>1, <2>3 DEF StopLocal, StopFinish, Cancel, StopEvent
  <2>4. CASE SwitchShown(t)
    <3>1. panel'.program = panel.program
      BY <1>1, <2>4 DEF SwitchShown, PanelType
    <3> QED BY <1>2, <2>1, <2>4, <3>1 DEF SwitchShown
  <2>5. CASE AllShown(t)
    <3>1. panel'.program = wm'.washing_mode
      BY <1>1, <2>1, <2>5, ProgramOf DEF AllShown, Show
    <3> QED BY <3>1 DEF ShownOn, ProgramShown
  <2>6. CASE DryShown(t) \/ TimeShown(t)
    <3>1. panel'.program = panel.program
      BY <1>1, <2>6, ProgramOf DEF DryShown, TimeShown, Show
    <3> QED BY <1>2, <2>1, <2>6, <3>1 DEF DryShown, TimeShown, Show
  <2> QED BY <1>8, <2>2, <2>3, <2>4, <2>5, <2>6 DEF GoesOn
<1>9. CASE DaemonStep
  <2>1. UNCHANGED pc
    BY <1>9, DaemonKeepsWash
  <2>2. wm'.washing_mode = wm.washing_mode
    BY <1>1, <1>9, DaemonKeepsWash
       DEF FinishPeriodic, FinishTimeout, LocalTimeout, ReservationTimeout, WmType
  <2>3. panel'.program = panel.program
    <3>1. CASE FinishPeriodic
      BY <1>1, <3>1, ProgramOf DEF FinishPeriodic
    <3>2. CASE FinishReturns
      BY <1>1, <3>2 DEF FinishReturns, PanelType
    <3>3. CASE FinishTimeout \/ LocalTimeout \/ ReservationTimeout \/ EmptyPeriod
      BY <3>3 DEF FinishTimeout, LocalTimeout, ReservationTimeout, EmptyPeriod
    <3>4. ASSUME NEW n, OtherPeriod(n) \/ OtherReturns(n)
          PROVE  panel' = panel
      BY <3>4 DEF OtherPeriod, OtherReturns
    <3> QED BY <1>9, <3>1, <3>2, <3>3, <3>4 DEF DaemonStep
  <2> QED BY <1>3, <2>1, <2>2, <2>3
<1>10. CASE UNCHANGED vars
  BY <1>3, <1>10 DEF vars
<1> QED BY <1>6, <1>7, <1>8, <1>9, <1>10 DEF Next

\* Once the panel shows the program of the machine it goes on to, unless it is
\* restoring a drying switch: whatever the cloud, the panel and the timers do
\* while GuiThread sleeps, WorkState and local timers included.
THEOREM OnlyDrySpoils == Spec => OnlyDrySpoilsProgram
<1>1. TypeOK /\ [Next]_vars => TypeOK'
  BY StepType
<1>2. TypeOK /\ [Next]_vars => [ShownOn]_vars
  BY StepShown
<1>3. [ShownOn]_vars =>
        [ProgramShown /\ ~(pc[Gui] = "restore_dry" /\ pc'[Gui] = "idle")
            => ProgramShown']_vars
  BY DEF ShownOn
<1> QED BY InitType, <1>1, <1>2, <1>3, PTL DEF Spec, OnlyDrySpoilsProgram
=============================================================================
