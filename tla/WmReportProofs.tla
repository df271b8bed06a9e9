--------------------------- MODULE WmReportProofs ---------------------------
(***************************************************************************)
(* The state of the report chain is in range for any processes, and with   *)
(* the four of this product the index passes the end of report_properties  *)
(* by thirteen at most, however long that is and however often properties  *)
(* change.                                                                 *)
(***************************************************************************)
EXTENDS WmReport, TLAPS

LEMMA TypeInit == Init => TypeOK
<1> SUFFICES ASSUME Init PROVE TypeOK
  OBVIOUS
<1>1. /\ pc \in [Procs -> Labels \cup DemoLabels]
      /\ \A p \in Procs : pc[p] \in DemoLabels => p = Demo
  BY DEF Init, Labels, DemoLabels
<1>2. current \in Nat /\ replies \in Nat /\ index \in [Procs -> Nat]
  BY WmReportAssumption DEF Init
<1>3. changes \in 0 .. MaxChanges /\ presses \in 0 .. MaxPresses
  BY WmReportAssumption DEF Init
<1>4. started \in BOOLEAN /\ connected \in BOOLEAN /\ error \in BOOLEAN /\ due \in BOOLEAN
  BY DEF Init
<1>5. stale \subseteq Properties
  BY DEF Init
<1> QED BY <1>1, <1>2, <1>3, <1>4, <1>5 DEF TypeOK

LEMMA TypeStep == TypeOK /\ [Next]_vars => TypeOK'
<1> SUFFICES ASSUME TypeOK, [Next]_vars PROVE TypeOK'
  OBVIOUS
<1> USE WmReportAssumption DEF TypeOK, At, Goto, Labels, DemoLabels
<1>1. ASSUME NEW p \in Procs, Change(p) \/ PostOne(p) PROVE TypeOK'
  BY <1>1 DEF Change, PostOne
<1>2. ASSUME NEW p \in Procs, Report(p) PROVE TypeOK'
  <2>1. CASE Request(p) \/ Check(p) \/ Read(p)
    BY <2>1 DEF Request, Check, Read
  <2>4. CASE Wrap(p)
    BY <2>4 DEF Wrap
  <2>2. CASE Advance(p) \/ Post(p) \/ Sent(p) \/ End(p)
    BY <2>2 DEF Advance, Post, Sent, End
  <2>3. CASE Finish(p) \/ Reset(p)
    BY <2>3 DEF Finish, Reset
  <2> QED BY <1>2, <2>1, <2>2, <2>3, <2>4 DEF Report
<1>3. CASE Reply
  BY <1>3 DEF Reply
<1>6. CASE Connection
  BY <1>6 DEF Connection
<1>7. CASE Press
  BY <1>7 DEF Press
<1>4. CASE ErrorLoop
  BY <1>4 DEF ErrorLoop, ErrorSeen, ErrorPost, ErrorSent, ErrorClear
<1>5. CASE UNCHANGED vars
  BY <1>5 DEF vars
<1> QED BY <1>1, <1>2, <1>3, <1>4, <1>5, <1>6, <1>7 DEF Next

\* Globals, flags and counters are in range, for any processes.
THEOREM TypeCorrect == Spec => []TypeOK
<1> QED BY TypeInit, TypeStep, PTL DEF Spec

-----------------------------------------------------------------------------
(* The four processes of this product, each of its own priority.           *)

\* Between the write of the index and the return of the call, which sets it
\* right when it is behind the end.
Late == {"post", "send", "end", "finish", "reset"}

\* What a process that has written the index, and not set it right yet, can
\* add to it: what all those that preempt it can, and one.
Push(p, k) == IF pc[p] \in Late THEN k ELSE 0

\* A process that is about to write the index has read it when those that
\* preempt it were waiting; the others cannot run before it has written.
Pushed(daemon, gui, shell) ==
    /\ \/ current <= N
       \/ current < N + Push(daemon, 1) + Push(Demo, 2) + Push(gui, 4) + Push(shell, 8)
    /\ pc[daemon] = "read" =>
          current < N + Push(Demo, 2) + Push(gui, 4) + Push(shell, 8)
    /\ pc[daemon] = "advance" =>
          index[daemon] < N + Push(Demo, 2) + Push(gui, 4) + Push(shell, 8)
    /\ pc[Demo] = "advance" => index[Demo] <= N + Push(gui, 4) + Push(shell, 8)
    /\ pc[gui] = "advance" => index[gui] <= N + 2 + Push(shell, 8)
    /\ pc[shell] = "advance" => index[shell] <= N + 6
    /\ \A p \in Procs : pc[p] \in Late => index[p] <= N + 13

\* How far behind the end of report_properties the calls read.
IndexWithin(k) ==
    \A p \in Procs : pc[p] \in {"advance", "post", "send"} => index[p] <= N + k

LEMMA PushedStep ==
  ASSUME NEW daemon \in Procs, NEW gui \in Procs, NEW shell \in Procs,
         Procs = {daemon, Demo, gui, shell},
         Priority[daemon] > Priority[Demo], Priority[Demo] > Priority[gui],
         Priority[gui] > Priority[shell],
         TypeOK, Pushed(daemon, gui, shell), [Next]_vars
  PROVE  Pushed(daemon, gui, shell)'
<1> DEFINE Waits == {"idle", "send", "error_send"}
<1>1. /\ daemon # Demo /\ daemon # gui /\ daemon # shell
      /\ Demo # gui /\ Demo # shell /\ gui # shell
  BY WmReportAssumption
<1>2. ASSUME NEW l, At(Demo, l) PROVE pc[Demo] = l /\ pc[daemon] \in Waits
  BY <1>2 DEF At, Runs, Ready
<1>3. ASSUME NEW l, At(gui, l)
      PROVE  pc[gui] = l /\ pc[daemon] \in Waits /\ pc[Demo] \in Waits
  BY <1>3, WmReportAssumption DEF At, Runs, Ready
<1>4. ASSUME NEW l, At(shell, l)
      PROVE  /\ pc[shell] = l
             /\ pc[daemon] \in Waits /\ pc[Demo] \in Waits /\ pc[gui] \in Waits
  BY <1>4, WmReportAssumption DEF At, Runs, Ready
<1> HIDE DEF Waits
<1> USE WmReportAssumption, <1>1 DEF Pushed, Push, Late, TypeOK, Goto
<1>5. ASSUME NEW p \in Procs, Change(p) \/ PostOne(p) PROVE Pushed(daemon, gui, shell)'
  BY <1>5 DEF Change, PostOne, At
<1>6. ASSUME Report(daemon) PROVE Pushed(daemon, gui, shell)'
  <2> USE DEF At
  <2>1. CASE Request(daemon) \/ Check(daemon)
    BY <2>1 DEF Request, Check
  <2>2. CASE Wrap(daemon)
    BY <2>2 DEF Wrap
  <2>3. CASE Read(daemon)
    BY <2>3 DEF Read
  <2>4. CASE Advance(daemon)
    BY <2>4 DEF Advance
  <2>5. CASE Post(daemon) \/ Sent(daemon)
    BY <2>5 DEF Post, Sent
  <2>6. CASE End(daemon)
    BY <2>6 DEF End
  <2>7. CASE Finish(daemon) \/ Reset(daemon)
    BY <2>7 DEF Finish, Reset
  <2> QED BY <1>6, <2>1, <2>2, <2>3, <2>4, <2>5, <2>6, <2>7 DEF Report
<1>7. ASSUME Report(Demo) PROVE Pushed(daemon, gui, shell)'
  <2> USE <1>2 DEF Waits
  <2>1. CASE Request(Demo) \/ Check(Demo)
    BY <2>1 DEF Request, Check
  <2>2. CASE Wrap(Demo)
    BY <2>2 DEF Wrap
  <2>3. CASE Read(Demo)
    BY <2>3 DEF Read
  <2>4. CASE Advance(Demo)
    BY <2>4 DEF Advance
  <2>5. CASE Post(Demo) \/ Sent(Demo)
    BY <2>5 DEF Post, Sent
  <2>6. CASE End(Demo)
    BY <2>6 DEF End
  <2>7. CASE Finish(Demo) \/ Reset(Demo)
    BY <2>7 DEF Finish, Reset
  <2> QED BY <1>7, <2>1, <2>2, <2>3, <2>4, <2>5, <2>6, <2>7 DEF Report
<1>8. ASSUME Report(gui) PROVE Pushed(daemon, gui, shell)'
  <2> USE <1>3 DEF Waits
  <2>1. CASE Request(gui) \/ Check(gui)
    BY <2>1 DEF Request, Check
  <2>2. CASE Wrap(gui)
    BY <2>2 DEF Wrap
  <2>3. CASE Read(gui)
    BY <2>3 DEF Read
  <2>4. CASE Advance(gui)
    BY <2>4 DEF Advance
  <2>5. CASE Post(gui) \/ Sent(gui)
    BY <2>5 DEF Post, Sent
  <2>6. CASE End(gui)
    BY <2>6 DEF End
  <2>7. CASE Finish(gui) \/ Reset(gui)
    BY <2>7 DEF Finish, Reset
  <2> QED BY <1>8, <2>1, <2>2, <2>3, <2>4, <2>5, <2>6, <2>7 DEF Report
<1>9. ASSUME Report(shell) PROVE Pushed(daemon, gui, shell)'
  <2> USE <1>4 DEF Waits
  <2>1. CASE Request(shell) \/ Check(shell)
    BY <2>1 DEF Request, Check
  <2>2. CASE Wrap(shell)
    BY <2>2 DEF Wrap
  <2>3. CASE Read(shell)
    BY <2>3 DEF Read
  <2>4. CASE Advance(shell)
    BY <2>4 DEF Advance
  <2>5. CASE Post(shell) \/ Sent(shell)
    BY <2>5 DEF Post, Sent
  <2>6. CASE End(shell)
    BY <2>6 DEF End
  <2>7. CASE Finish(shell) \/ Reset(shell)
    BY <2>7 DEF Finish, Reset
  <2> QED BY <1>9, <2>1, <2>2, <2>3, <2>4, <2>5, <2>6, <2>7 DEF Report
<1>10. CASE Reply \/ Connection \/ Press
  BY <1>10 DEF Reply, Connection, Press, At
<1>11. CASE ErrorLoop
  BY <1>11 DEF ErrorLoop, ErrorSeen, ErrorPost, ErrorSent, ErrorClear, At
<1>12. CASE UNCHANGED vars
  BY <1>12 DEF vars
<1> QED BY <1>5, <1>6, <1>7, <1>8, <1>9, <1>10, <1>11, <1>12 DEF Next

\* Whatever the timer daemon, demo_task, GuiThread and ShellTask report, and
\* wherever they preempt each other, for any number of properties, changes,
\* replies and disconnections: wm_report_all_pro_to_cloud never reads further
\* than thirteen entries behind the end of report_properties. (Each process
\* doubles what the ones that preempt it can add.)
THEOREM IndexWithinThirteen ==
  ASSUME NEW daemon \in Procs, NEW gui \in Procs, NEW shell \in Procs,
         Procs = {daemon, Demo, gui, shell},
         Priority[daemon] > Priority[Demo], Priority[Demo] > Priority[gui],
         Priority[gui] > Priority[shell]
  PROVE  Spec => []IndexWithin(13)
<1>1. Init => TypeOK /\ Pushed(daemon, gui, shell)
  BY TypeInit, WmReportAssumption DEF Init, Pushed, Push, Late
<1>2. TypeOK /\ Pushed(daemon, gui, shell) /\ [Next]_vars
        => (TypeOK /\ Pushed(daemon, gui, shell))'
  BY TypeStep, PushedStep
<1>3. TypeOK /\ Pushed(daemon, gui, shell) => IndexWithin(13)
  BY WmReportAssumption DEF TypeOK, Pushed, Push, Late, IndexWithin
<1> QED BY <1>1, <1>2, <1>3, PTL DEF Spec
=============================================================================
