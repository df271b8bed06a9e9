---------------------------- MODULE WashMachine -----------------------------
(***************************************************************************)
(* The controller of the washing machine demo                              *)
(* (source/demo_wm/washing_machine.c): the wash program wm_ib, the events  *)
(* it keeps at the timer service, and the panel (the Embedded Wizard       *)
(* object WasherDeviceClass) that shows it.                                *)
(*                                                                         *)
(* Inputs come from the panel (GuiThread), from the cloud and the shell    *)
(* (demo_task, ShellTask: the handlers they share are called Remote) and   *)
(* from the timer daemon. A handler computes on wm_ib in one step, and     *)
(* comes apart wherever it waits or another process may see it half done:  *)
(* at the test of the event list before the mutex, at the mutex, in a post *)
(* to the cloud, and in its sleep before it restores the panel. The daemon *)
(* and the other tasks may run between any two of its steps.               *)
(*                                                                         *)
(* The timer service is what EventTable promises, with the two ways in     *)
(* which it stops timing (see WmTimer): an event put in a list whose timer *)
(* has been stopped, and a mutex that wm_s_timer_cb keeps.                 *)
(*                                                                         *)
(* Times are counts of the timer, one a second; a minute has PerMinute.    *)
(***************************************************************************)
EXTENDS Integers

CONSTANTS
    Gui,            \* GuiThread
    Remotes,        \* the tasks that run Remote handlers: demo_task, ShellTask
    PerMinute,      \* counts of a minute: 60
    MaxMinutes,     \* the minutes left stay below this: 60
    DryTime,        \* counts that drying takes: 9 minutes
    Phases,         \* washing mode -> counts of its soak, wash, rinse and spin
    RemoteMinutes,  \* LeftTime values sent by the cloud
    RemotePhases,   \* counts that the cloud gives soak, wash, rinse and spin
    RemoteStates,   \* WorkState values sent by the cloud
    LocalTimes,     \* seconds of a LocalTimer request
    ReserveTimes,   \* seconds of a ReservationTimer request
    MaxInputs       \* bound of the model: inputs in one behaviour

\* wm_work_state_e
WS_IDLE     == 0
WS_WORKING  == 1
WS_FINISHED == 2
WS_PAUSE    == 4

Modes == DOMAIN Phases
Tasks == {Gui} \cup Remotes

ASSUME WashMachineAssumption ==
    /\ Gui \notin Remotes
    /\ PerMinute \in Nat \ {0}
    /\ MaxMinutes \in Nat \ {0}
    /\ DryTime \in Nat
    /\ 0 \in Modes /\ Modes \subseteq Nat
    /\ Phases \in [Modes -> Nat]
    /\ RemoteMinutes \subseteq Nat
    /\ RemotePhases \subseteq Nat
    /\ RemoteStates \subseteq Nat
    /\ LocalTimes \subseteq Nat
    /\ ReserveTimes \subseteq Nat
    /\ MaxInputs \in Nat

VARIABLES
    wm,         \* wm_ib and time_set_triggered of g_wm_ctx
    pc,         \* what each task does next
    arg,        \* the arguments of each task's call of wm_s_timer_start
    table,      \* the pending events: name -> seconds left
    firing,     \* the event whose callback runs
    local,      \* washing mode in the cb_args of the local timer
    ticking,    \* wm_second_timer runs
    leaked,     \* wm_s_timer_cb has returned with the mutex
    panel,      \* what the panel shows
    asked,      \* the user has set the time on the panel since a wash began anew
    raced,      \* another process came into the last start or stop of a wash,
                \* or has written WorkState since
    inputs      \* inputs so far

timer == <<table, firing, local, ticking, leaked>>
vars == <<wm, pc, arg, timer, panel, asked, raced, inputs>>

EventNames == {"finish_timer", "local_timer", "reservation_timer"}

Events == INSTANCE EventTable WITH Names <- EventNames, Seconds <- Int

-----------------------------------------------------------------------------
(* Time.                                                                   *)

\* Division and remainder of C's integers, which round towards zero.
Quotient(a, b) == IF a < 0 THEN -((-a) \div b) ELSE a \div b
Remainder(a, b) == a - b * Quotient(a, b)

Hour == MaxMinutes * PerMinute

\* wm_left_time_valid_check
Valid(time) == IF time >= Hour THEN Hour - PerMinute ELSE time

\* Counts of the whole program of w.
WholeTime(w) == Valid(w.phases + IF w.dry_switch THEN DryTime ELSE 0)

\* Mutant: time_set_triggered is not reset.
CalculatedKeeps(w) == IF w.time_set THEN w
                                    ELSE [w EXCEPT !.left_time = WholeTime(w)]

\* wm_left_time_calculate
Calculated(w) == IF w.time_set THEN [w EXCEPT !.time_set = FALSE]
                               ELSE [w EXCEPT !.left_time = WholeTime(w)]

-----------------------------------------------------------------------------
(* The panel: setters that clamp what they are given.                      *)

\* Mutant: no lower bound.
ClampAbove(x, max) == IF x > max THEN max ELSE x

Clamp(x, max) == IF x < 0 THEN 0 ELSE IF x > max THEN max ELSE x

\* What the panel shows of a left time (DeviceDriver_updateLeftTime).
Minutes(time) == Clamp(Quotient(time, PerMinute), MaxMinutes - 1)
SecondsOf(time) == Clamp(Remainder(time, PerMinute), PerMinute - 1)

ShowTime(p, time) ==
    [p EXCEPT !.minute = Minutes(time), !.second = SecondsOf(time)]

\* wm_report_all_to_gui
ShowAll(p, w) == ShowTime([p EXCEPT !.program = w.washing_mode], w.left_time)

\* wm_report_dryswitch_to_gui
ShowDry(p, w) == ShowTime([p EXCEPT !.option = w.dry_switch], w.left_time)

-----------------------------------------------------------------------------

Working == wm.work_state = WS_WORKING

WmType ==
    [work_state : Nat, left_time : Int, phases : Nat,
     dry_switch : BOOLEAN, washing_mode : Modes, time_set : BOOLEAN,
     reserved : BOOLEAN]

PanelType ==
    [program : Nat, option : BOOLEAN, running : BOOLEAN,
     minute : 0 .. MaxMinutes - 1, second : 0 .. PerMinute - 1]

\* cb_args matters for the local timer only.
Calls == [name : EventNames, time : Int, cb_args : Modes]
NoCall == [name |-> "finish_timer", time |-> 0, cb_args |-> 0]

Labels == {"idle", "check", "start", "on", "stop_local", "stop_finish", "off",
           "cancel", "all", "time", "dry", "restore_mode", "restore_dry"}

TypeOK ==
    /\ wm \in WmType
    /\ pc \in [Tasks -> Labels]
    /\ arg \in [Tasks -> Calls]
    /\ DOMAIN table \subseteq EventNames
    /\ table \in [DOMAIN table -> Int]
    /\ firing \in {{}} \cup {{n} : n \in DOMAIN table}
    /\ local \in Modes
    /\ ticking \in BOOLEAN /\ leaked \in BOOLEAN
    /\ panel \in PanelType
    /\ asked \in BOOLEAN /\ raced \in BOOLEAN
    /\ inputs \in 0 .. MaxInputs

\* wm_init has run: the standard program, shown by the panel.
Init ==
    /\ wm = Calculated([work_state |-> WS_IDLE, left_time |-> 0,
                        phases |-> Phases[0], dry_switch |-> FALSE,
                        washing_mode |-> 0, time_set |-> FALSE,
                        reserved |-> FALSE])
    /\ pc = [t \in Tasks |-> "idle"]
    /\ arg = [t \in Tasks |-> NoCall]
    /\ Events!Init
    /\ local = 0
    /\ ticking = FALSE /\ leaked = FALSE
    /\ panel = ShowAll([program |-> 0, option |-> FALSE, running |-> FALSE,
                        minute |-> 0, second |-> 0], wm)
    /\ asked = FALSE /\ raced = FALSE
    /\ inputs = 0

-----------------------------------------------------------------------------
(* The calls of the timer service.                                         *)

Goto(t, label) == pc' = [pc EXCEPT ![t] = label]

\* t is in wm_s_timer_start for event n.
Starting(t, n) == pc[t] \in {"check", "start"} /\ arg[t].name = n

\* t is in wm_work_switch_changed.
Switching(t) == pc[t] \in {"on", "stop_local", "stop_finish", "off"}
                    \/ Starting(t, "finish_timer")

\* The arguments are evaluated; nothing of wm_s_timer_start has run yet.
CallStart(t, n, s, mode) ==
    /\ Goto(t, "check")
    /\ arg' = [arg EXCEPT ![t] = [name |-> n, time |-> s, cb_args |-> mode]]

\* list_empty is read, and the timer started, before the mutex is taken.
Check(t) ==
    /\ pc[t] = "check"
    /\ ticking' = (ticking \/ DOMAIN table = {})
    /\ Goto(t, "start")
    /\ UNCHANGED <<wm, arg, table, firing, local, leaked, panel, asked, raced,
                   inputs>>

\* wm_timer_event_mutex can be taken: no callback runs.
MutexFree == ~leaked /\ firing = {}

Started(n, s) == [m \in DOMAIN table \cup {n} |-> IF m = n THEN s ELSE table[m]]

StartEvent(t) ==
    /\ pc[t] = "start"
    /\ MutexFree
    /\ table' = Started(arg[t].name, arg[t].time)
    /\ local' = IF arg[t].name = "local_timer" THEN arg[t].cb_args ELSE local
    /\ arg' = [arg EXCEPT ![t] = NoCall]
    /\ Goto(t, IF arg[t].name = "finish_timer" THEN "on" ELSE "idle")
    /\ UNCHANGED <<wm, firing, ticking, leaked, panel, asked, raced, inputs>>

\* Mutant: the walk goes on after it has found the event, and stops them all.
OthersNone(n) == {}

\* The events that a stop of n leaves.
Others(n) == DOMAIN table \ {n}

\* wm_s_timer_stop. A stop that empties the list stops the timer; a callback
\* of a last period may be waiting for the mutex, finds no event, and keeps it.
StopEvent(t, n, next) ==
    /\ MutexFree
    /\ table' = [m \in Others(n) |-> table[m]]
    /\ IF DOMAIN table # {} /\ Others(n) = {}
       THEN ticking' = FALSE /\ leaked' \in {FALSE, ticking}
       ELSE UNCHANGED <<ticking, leaked>>
    /\ Goto(t, next)
    /\ UNCHANGED <<wm, arg, firing, local, panel, asked, raced, inputs>>

-----------------------------------------------------------------------------
(* The handlers.                                                           *)

Input(t) == pc[t] = "idle" /\ inputs < MaxInputs /\ inputs' = inputs + 1

\* wm_washing_mode_set_handle: rejected during a wash.
ModeSet(w, mode) ==
    IF w.work_state = WS_WORKING
    THEN w
    ELSE Calculated([w EXCEPT !.work_state = WS_IDLE, !.washing_mode = mode,
                              !.phases = Phases[mode], !.time_set = FALSE])

\* Mutant: wm_left_time_valid_check is not called.
DrySetUnchecked(w, on) ==
    IF w.work_state = WS_WORKING
    THEN w
    ELSE [w EXCEPT !.dry_switch = on,
                   !.left_time = IF on THEN @ + DryTime ELSE @ - DryTime]

\* wm_dry_switch_set_handle: rejected during a wash.
DrySet(w, on) ==
    IF w.work_state = WS_WORKING
    THEN w
    ELSE [w EXCEPT !.dry_switch = on,
                   !.left_time = Valid(IF on THEN @ + DryTime ELSE @ - DryTime)]

\* The start of wm_work_switch_changed: a paused wash goes on, any other state
\* begins anew, and a wash with no time left takes its mode's time.
Start(w) ==
    LET fresh == IF w.work_state # WS_PAUSE THEN Calculated(w) ELSE w
        timed == IF fresh.left_time = 0 THEN ModeSet(fresh, fresh.washing_mode)
                                        ELSE fresh
    IN [timed EXCEPT !.work_state = WS_WORKING]

\* wm_work_switch_changed up to its first call of the timer service. The time
\* passed to wm_s_timer_start is read here, before that waits for the mutex.
Switch(t, on) ==
    /\ Input(t)
    /\ wm' = IF on THEN Start(wm) ELSE [wm EXCEPT !.work_state = WS_PAUSE]
    /\ IF on THEN CallStart(t, "finish_timer", wm'.left_time, 0)
             ELSE Goto(t, "stop_local") /\ UNCHANGED arg
    /\ asked' = (asked /\ ~(on /\ wm.work_state # WS_PAUSE))
    /\ raced' = \E u \in Tasks \ {t} : Switching(u)
    /\ UNCHANGED timer

StopLocal(t) ==
    pc[t] = "stop_local" /\ StopEvent(t, "local_timer", "stop_finish")

\* Mutant: the stop leaves finish_timer pending.
StopFinishNot(t) ==
    pc[t] = "stop_finish" /\ StopEvent(t, "local_timer", "off")

StopFinish(t) ==
    pc[t] = "stop_finish" /\ StopEvent(t, "finish_timer", "off")

\* wm_ui_handle_work_switch_on and wm_ui_handle_work_switch_off
SwitchShown(t) ==
    /\ pc[t] \in {"on", "off"}
    /\ panel' = [panel EXCEPT !.running = (pc[t] = "on")]
    /\ Goto(t, "idle")
    /\ UNCHANGED <<wm, arg, timer, asked, raced, inputs>>

-----------------------------------------------------------------------------
(* What a handler shows when its posts to the cloud have returned: what     *)
(* wm_ib holds by then.                                                     *)

Show(t, label, shown) ==
    /\ pc[t] = label
    /\ panel' = shown
    /\ Goto(t, "idle")
    /\ UNCHANGED <<wm, arg, timer, asked, raced, inputs>>

AllShown(t) == Show(t, "all", ShowAll(panel, wm))
DryShown(t) == Show(t, "dry", ShowDry(panel, wm))
TimeShown(t) == Show(t, "time", ShowTime(panel, wm.left_time))

-----------------------------------------------------------------------------
(* The panel. Its setters call back only when the value changes. The lists *)
(* are disabled while the panel shows a wash, but one set in motion before *)
(* comes to rest, and calls, after it.                                     *)

\* Device_SetRunning
PanelSwitch(on) ==
    /\ on # panel.running
    /\ Switch(Gui, on)
    /\ panel' = [panel EXCEPT !.running = on]

\* Device_SetProgram, wm_workmode_changed_by_ui
PanelMode(mode) ==
    /\ Input(Gui)
    /\ mode # panel.program
    /\ wm' = ModeSet(wm, mode)
    /\ panel' = [panel EXCEPT !.program = mode]
    /\ Goto(Gui, IF Working THEN "restore_mode" ELSE "all")
    /\ UNCHANGED <<arg, timer, asked, raced>>

\* Device_SetOption, wm_dryswitch_changed_by_gui
PanelDry(on) ==
    /\ Input(Gui)
    /\ on # panel.option
    /\ wm' = DrySet(wm, on)
    /\ panel' = [panel EXCEPT !.option = on]
    /\ Goto(Gui, IF Working THEN "restore_dry" ELSE "time")
    /\ UNCHANGED <<arg, timer, asked, raced>>

\* Mutant: the rejected mode stays on the panel.
RestoreModeNot == Show(Gui, "restore_mode", panel)

\* HAL_SleepMs(100) is over: both handlers call DeviceDriver_updateWashMode,
\* the second one with wm_ib.dry_switch.
RestoreMode ==
    Show(Gui, "restore_mode", [panel EXCEPT !.program = wm.washing_mode])

RestoreDry ==
    Show(Gui, "restore_dry",
         [panel EXCEPT !.program = IF wm.dry_switch THEN 1 ELSE 0])

\* A time set on the panel during a wash is only shown.
PanelTime(shown, time) ==
    /\ Input(Gui)
    /\ panel' = shown
    /\ wm' = IF Working THEN wm
             ELSE [wm EXCEPT !.time_set = TRUE, !.left_time = Valid(time)]
    /\ Goto(Gui, IF Working THEN "idle" ELSE "time")
    /\ asked' = (asked \/ ~Working)
    /\ UNCHANGED <<arg, timer, raced>>

\* Device_SetMinute, wm_minute_changed_by_gui
PanelMinute(minute) ==
    /\ minute # panel.minute
    /\ PanelTime([panel EXCEPT !.minute = minute],
                 minute * PerMinute + Remainder(wm.left_time, PerMinute))

\* Device_SetSecond, wm_second_changed_by_gui
PanelSecond(second) ==
    /\ second # panel.second
    /\ PanelTime([panel EXCEPT !.second = second],
                 Quotient(wm.left_time, PerMinute) * PerMinute + second)

-----------------------------------------------------------------------------
(* The cloud and the shell: wm_property_ib_set, wm_local_timer_event_hdl.  *)

RemoteSwitch(t, on) == Switch(t, on) /\ UNCHANGED panel

RemoteMode(t, mode) ==
    /\ Input(t)
    /\ wm' = ModeSet(wm, mode)
    /\ Goto(t, "all")
    /\ UNCHANGED <<arg, timer, panel, asked, raced>>

RemoteDry(t, on) ==
    /\ Input(t)
    /\ wm' = DrySet(wm, on)
    /\ Goto(t, "dry")
    /\ UNCHANGED <<arg, timer, panel, asked, raced>>

\* wm_lefttime_set_handle: rejected during a wash, taken as it is otherwise.
RemoteLeftTime(t, minutes) ==
    /\ Input(t)
    /\ ~Working
    /\ wm' = [wm EXCEPT !.left_time = minutes * PerMinute]
    /\ panel' = ShowTime(panel, wm'.left_time)
    /\ UNCHANGED <<pc, arg, timer, asked, raced>>

\* SoakTime, WashTime, RinshTime, RinshTimes and SpinTime, at any time.
RemoteSetPhases(t, counts) ==
    /\ Input(t)
    /\ wm' = [wm EXCEPT !.phases = counts]
    /\ UNCHANGED <<pc, arg, timer, panel, asked, raced>>

\* WorkState is written as it comes: a wash begins or ends without its timer.
Overwritten(state) == raced' = (raced \/ Working # (state = WS_WORKING))

RemoteState(t, state) ==
    /\ Input(t)
    /\ wm' = [wm EXCEPT !.work_state = state]
    /\ Overwritten(state)
    /\ UNCHANGED <<pc, arg, timer, panel, asked>>

LocalTimerOn(t, time, mode) ==
    /\ Input(t)
    /\ CallStart(t, "local_timer", time, mode)
    /\ UNCHANGED <<wm, timer, panel, asked, raced>>

LocalTimerOff(t) ==
    /\ Input(t)
    /\ Goto(t, "cancel")
    /\ UNCHANGED <<wm, arg, timer, panel, asked, raced>>

Cancel(t) == pc[t] = "cancel" /\ StopEvent(t, "local_timer", "idle")

\* RESERVATION_TIMER_PRO: zero is noted, but stops no timer.
Reserve(t, time) ==
    /\ Input(t)
    /\ wm' = [wm EXCEPT !.reserved = (time # 0)]
    /\ IF time # 0 THEN CallStart(t, "reservation_timer", time, 0)
                   ELSE UNCHANGED <<pc, arg>>
    /\ UNCHANGED <<timer, panel, asked, raced>>

-----------------------------------------------------------------------------
(* The callbacks of the timer service, once in a period.                   *)

Period == ticking /\ ~leaked

\* wm_s_timer_cb finds no event, because a start has not yet added its own:
\* it stops the timer and returns with the mutex.
EmptyPeriod ==
    /\ Period
    /\ DOMAIN table = {}
    /\ ticking' = FALSE
    /\ leaked' = TRUE
    /\ UNCHANGED <<wm, pc, arg, table, firing, local, panel, asked, raced, inputs>>

\* The event whose callback has returned is deleted, the timer stops with the
\* last one.
Returns(n) ==
    /\ Events!Fired(n)
    /\ ticking' = (ticking /\ DOMAIN table # {n})
    /\ UNCHANGED <<wm, pc, arg, local, leaked, asked, raced, inputs>>

\* wm_finish_timer_periodic_cb
FinishPeriodic ==
    /\ Period
    /\ Events!CountDown("finish_timer")
    /\ wm' = [wm EXCEPT !.left_time = @ - 1]
    /\ panel' = ShowTime(panel, wm'.left_time)
    /\ raced' = (raced \/ \E t \in Tasks : Starting(t, "finish_timer"))
    /\ UNCHANGED <<pc, arg, local, ticking, leaked, asked, inputs>>

\* Mutant: the callback leaves work_state as it is.
FinishTimeoutNoState ==
    /\ Period
    /\ Events!Fire("finish_timer")
    /\ UNCHANGED <<wm, pc, arg, local, ticking, leaked, panel, asked, raced, inputs>>

\* wm_finishtimer_timeout_cb, up to its report to the cloud ...
FinishTimeout ==
    /\ Period
    /\ Events!Fire("finish_timer")
    /\ wm' = [wm EXCEPT !.work_state = WS_FINISHED]
    /\ raced' = (raced \/ \E t \in Tasks :
                              pc[t] = "on" \/ Starting(t, "finish_timer"))
    /\ UNCHANGED <<pc, arg, local, ticking, leaked, panel, asked, inputs>>

\* ... and from there: wm_ui_handle_work_switch_off.
FinishReturns ==
    Returns("finish_timer") /\ panel' = [panel EXCEPT !.running = FALSE]

\* wm_localtimer_timeout_cb: the mode asked for is stored as the state.
LocalTimeout ==
    /\ Period
    /\ Events!Fire("local_timer")
    /\ wm' = [wm EXCEPT !.work_state = local]
    /\ Overwritten(local)
    /\ UNCHANGED <<pc, arg, local, ticking, leaked, panel, asked, inputs>>

\* wm_reservation_timeout_cb
ReservationTimeout ==
    /\ Period
    /\ Events!Fire("reservation_timer")
    /\ wm' = [wm EXCEPT !.reserved = FALSE]
    /\ UNCHANGED <<pc, arg, local, ticking, leaked, panel, asked, raced, inputs>>

\* The other events count down without effect, and are deleted.
OtherPeriod(n) ==
    /\ Period
    /\ Events!CountDown(n)
    /\ UNCHANGED <<wm, pc, arg, local, ticking, leaked, panel, asked, raced, inputs>>

OtherReturns(n) == Returns(n) /\ UNCHANGED panel

-----------------------------------------------------------------------------

PanelInputs ==
    \/ \E on \in BOOLEAN : PanelSwitch(on) \/ PanelDry(on)
    \/ \E mode \in Modes : PanelMode(mode)
    \/ \E minute \in 0 .. MaxMinutes - 1 : PanelMinute(minute)
    \/ \E second \in 0 .. PerMinute - 1 : PanelSecond(second)

RemoteInputs(t) ==
    \/ \E on \in BOOLEAN : RemoteSwitch(t, on) \/ RemoteDry(t, on)
    \/ \E mode \in Modes : RemoteMode(t, mode)
    \/ \E minutes \in RemoteMinutes : RemoteLeftTime(t, minutes)
    \/ \E counts \in RemotePhases : RemoteSetPhases(t, counts)
    \/ \E state \in RemoteStates : RemoteState(t, state)
    \/ \E time \in ReserveTimes : Reserve(t, time)
    \/ \E time \in LocalTimes, mode \in Modes : LocalTimerOn(t, time, mode)
    \/ LocalTimerOff(t)

\* A handler that has begun goes on.
GoesOn(t) ==
    \/ Check(t) \/ StartEvent(t) \/ StopLocal(t) \/ StopFinish(t) \/ Cancel(t)
    \/ SwitchShown(t) \/ AllShown(t) \/ DryShown(t) \/ TimeShown(t)

Restore == RestoreMode \/ RestoreDry

DaemonStep ==
    \/ EmptyPeriod
    \/ FinishPeriodic \/ FinishTimeout \/ FinishReturns
    \/ LocalTimeout \/ ReservationTimeout
    \/ \E n \in {"local_timer", "reservation_timer"} :
            OtherPeriod(n) \/ OtherReturns(n)

Next ==
    \/ PanelInputs \/ Restore
    \/ \E t \in Remotes : RemoteInputs(t)
    \/ \E t \in Tasks : GoesOn(t)
    \/ DaemonStep

Spec == Init /\ [][Next]_vars

\* A timer that runs comes to its periods, and the network lets callbacks and
\* handlers go on; where the timer has stopped or the mutex is kept, no
\* fairness helps.
FairSpec == Spec /\ WF_vars(DaemonStep) /\ \A t \in Tasks : WF_vars(GoesOn(t))

-----------------------------------------------------------------------------
(* Properties.                                                             *)

\* After a start or stop that ran undisturbed, a wash is under way exactly as
\* long as finish_timer is pending and its callback has not begun; the event
\* then has as many seconds left as the wash, and the panel shows a running
\* machine. What disturbs one is named by raced: a start or stop by another
\* task meanwhile, a period or the end of the wash between the writes of
\* wm_work_switch_changed and the end of its call of the timer service, and a
\* WorkState written by the cloud or by a local timer. The next undisturbed
\* start or stop makes it all agree again, whatever went before.
WashIsTimed ==
    (~raced /\ "finish_timer" \notin firing /\ \A t \in Tasks : ~Switching(t)) =>
        /\ Working <=> Events!Pending("finish_timer")
        /\ Working => wm.left_time = table["finish_timer"]
        /\ panel.running = Working

\* "left time shouldn't excet 60 minutes" (wm_left_time_valid_check), however
\* mode, drying, panel, pauses and LeftTime values below the hour follow one
\* another.
LeftTimeBelowHour == wm.left_time < Hour

\* A reservation that the machine reports to the cloud is being timed, or the
\* handler that noted it is about to start its event.
ReservationIsTimed ==
    wm.reserved => \/ Events!Pending("reservation_timer")
                   \/ \E t \in Tasks : Starting(t, "reservation_timer")

\* The panel shows the program of the machine, or a handler is about to show it.
ProgramShown ==
    (\A t \in Tasks : pc[t] \notin {"all", "restore_mode"})
        => panel.program = wm.washing_mode

\* Only a dry switch rejected during a wash can make it show another one.
OnlyDrySpoilsProgram ==
    [][ProgramShown /\ ~(pc[Gui] = "restore_dry" /\ pc'[Gui] = "idle")
            => ProgramShown']_vars

\* The timer service has stopped timing: the daemon has kept the mutex, or an
\* event waits in the list while the timer does not run.
Stalled == leaked \/ (DOMAIN table # {} /\ ~ticking)

\* A wash that has been started and not been raced comes to its end or is
\* switched off, unless the timer service stops timing.
WashEnds == (Working /\ ~raced) ~> (~Working \/ raced \/ Stalled)

\* "No need to update time, as time set by GUI" (wm_left_time_calculate) holds
\* for one wash: what is started anew takes the time of its program, however
\* its mode, drying and pauses followed one another, unless a time was set on
\* the panel since the last such start, be it in a pause.
FreshStartIsWhole ==
    [][\A t \in Tasks :
         (wm.work_state # WS_PAUSE /\ ~asked /\ ~Starting(t, "finish_timer")
              /\ Starting(t, "finish_timer")')
            => wm'.left_time = WholeTime(wm')]_vars
=============================================================================
