------------------------------ MODULE WmTimer -------------------------------
(***************************************************************************)
(* The software timer service of the washing machine demo                  *)
(* (source/demo_wm/washing_machine.c, the wm_s_timer functions): a list of *)
(* named one-shot events, a mutex over the list, and one auto-reload       *)
(* FreeRTOS timer that runs while the list is not empty.                   *)
(*                                                                         *)
(* The processes are the tasks that start and stop events (demo_task,      *)
(* GuiThread, ShellTask) and the FreeRTOS timer daemon, which runs         *)
(* wm_s_timer_cb once a period. A task is preempted between any two steps  *)
(* by one of higher priority and by the daemon; the mutex gives its owner  *)
(* the priority of the process it blocks.                                  *)
(*                                                                         *)
(* Each step is the code between two points at which another process can   *)
(* come in: a kernel call, or a read of the list outside the mutex.        *)
(***************************************************************************)
EXTENDS Integers, FiniteSets, Sequences, SequencesExt

CONSTANTS
    Tasks,      \* the calling tasks
    Daemon,     \* the FreeRTOS timer task
    None,       \* no process
    Names,      \* timer_event_name
    Seconds,    \* the values of time_s passed to wm_s_timer_start
    Priority,   \* process -> FreeRTOS priority
    QueueLen,   \* configTIMER_QUEUE_LENGTH
    HeapMayFail,\* pvPortMalloc can return NULL
    MaxCalls    \* bound of the model: calls made in one behaviour

Procs == Tasks \cup {Daemon}

ASSUME WmTimerAssumption ==
    /\ Daemon \notin Tasks
    /\ None \notin Procs
    /\ Seconds \subseteq Int
    /\ Priority \in [Procs -> Nat]
    /\ \A t \in Tasks : Priority[t] < Priority[Daemon]
    /\ QueueLen \in Nat \ {0}
    /\ HeapMayFail \in BOOLEAN
    /\ MaxCalls \in Nat

VARIABLES
    list,       \* wm_timer_event_head: the names of the linked events, in order
    left,       \* time_left of the event of each name, kept while it is linked
    owner,      \* holder of wm_timer_event_mutex, or None
    active,     \* wm_second_timer is in the kernel's list of running timers
    cmdq,       \* the timer daemon's command queue
    pc,         \* what each process does next
    arg,        \* the parameters of each task's call in progress, or None
    cur,        \* wte of wm_s_timer_cb: the position it has reached in the list
    blocked,    \* the daemon waits for the network inside an event's callback
    calls       \* calls made so far

vars == <<list, left, owner, active, cmdq, pc, arg, cur, blocked, calls>>

Listed == ToSet(list)

TaskPCs == {"idle", "start_check", "start_take", "start_find", "start_add",
            "stop_take", "stop_find", "stop_empty", "give"}
DaemonPCs == {"idle", "cb_take", "cb_empty", "cb_visit", "cb_delete",
              "cb_end", "cb_give"}

\* The parameters of a call: a stop has no time_s, which is written 0.
Calls == [name : Names, time : Seconds \cup {0}]

TypeOK ==
    /\ list \in Seq(Names)
    /\ left \in [Names -> Int]
    /\ owner \in Procs \cup {None}
    /\ active \in BOOLEAN
    /\ cmdq \in Seq({"start", "stop"})
    /\ pc \in [Procs -> TaskPCs \cup DaemonPCs]
    /\ \A t \in Tasks : pc[t] \in TaskPCs
    /\ pc[Daemon] \in DaemonPCs
    /\ arg \in [Tasks -> Calls \cup {None}]
    /\ \A t \in Tasks : pc[t] # "idle" => arg[t] \in Calls
    /\ cur \in Nat \ {0}
    /\ blocked \in BOOLEAN
    /\ calls \in 0 .. MaxCalls

Init ==
    /\ list = << >>
    /\ left = [n \in Names |-> 0]
    /\ owner = None
    /\ active = FALSE
    /\ cmdq = << >>
    /\ pc = [p \in Procs |-> "idle"]
    /\ arg = [t \in Tasks |-> None]
    /\ cur = 1
    /\ blocked = FALSE
    /\ calls = 0

-----------------------------------------------------------------------------
(* The scheduler.                                                          *)

WantsMutex(p) == pc[p] \in {"start_take", "stop_take", "cb_take"}

Ready(p) ==
    /\ WantsMutex(p) => owner = None
    /\ IF p = Daemon
       THEN IF pc[p] = "idle" THEN cmdq # << >> ELSE ~blocked
       ELSE pc[p] # "idle"

\* Priority inheritance: the owner runs at the priority of those it blocks.
Inherited(p) ==
    {Priority[q] : q \in {q \in Procs : q = p \/ (owner = p /\ WantsMutex(q))}}

\* A ready process runs at least at priority k.
Busy(k) == \E q \in Procs : Ready(q) /\ \E i \in Inherited(q) : i > k

\* p is among the ready processes of the highest priority.
Runs(p) == Ready(p) /\ \E i \in Inherited(p) : ~Busy(i)

Goto(p, label) == pc' = [pc EXCEPT ![p] = label]

-----------------------------------------------------------------------------
(* The FreeRTOS calls.                                                     *)

\* xTimerStart and xTimerStop post a command for the daemon; a full queue
\* drops it, the result is never looked at.
Send(cmd) == cmdq' = IF Len(cmdq) < QueueLen THEN Append(cmdq, cmd) ELSE cmdq

\* The daemon carries out a command of its queue.
ProcessCommand ==
    /\ pc[Daemon] = "idle"
    /\ cmdq # << >>
    /\ active' = (Head(cmdq) = "start")
    /\ cmdq' = Tail(cmdq)
    /\ UNCHANGED <<list, left, owner, pc, arg, cur, blocked, calls>>

\* The period ends: the daemon preempts whoever runs and calls
\* wm_s_timer_cb. It empties its command queue before it looks at the time.
Expire ==
    /\ pc[Daemon] = "idle"
    /\ cmdq = << >>
    /\ active
    /\ Goto(Daemon, "cb_take")
    /\ UNCHANGED <<list, left, owner, active, cmdq, arg, cur, blocked, calls>>

-----------------------------------------------------------------------------
(* wm_s_timer_start and wm_s_timer_stop.                                   *)

\* t calls wm_s_timer_start(n, s) or wm_s_timer_stop(n); it will run when the
\* scheduler lets it.
Call(t, first, n, s) ==
    /\ pc[t] = "idle"
    /\ calls < MaxCalls
    /\ calls' = calls + 1
    /\ arg' = [arg EXCEPT ![t] = [name |-> n, time |-> s]]
    /\ Goto(t, first)
    /\ UNCHANGED <<list, left, owner, active, cmdq, cur, blocked>>

CallStart(t) == \E n \in Names, s \in Seconds : Call(t, "start_check", n, s)
\* Mutant: the stop forgets xSemaphoreTake.
CallStopUnlocked(t) == \E n \in Names : Call(t, "stop_find", n, 0)

CallStop(t) == \E n \in Names : Call(t, "stop_take", n, 0)

\* list_empty is read, and the timer started, before the mutex is taken.
StartCheck(t) ==
    /\ pc[t] = "start_check"
    /\ Runs(t)
    /\ IF list = << >> THEN Send("start") ELSE UNCHANGED cmdq
    /\ Goto(t, "start_take")
    /\ UNCHANGED <<list, left, owner, active, arg, cur, blocked, calls>>

\* wm_s_timer_event_find, and list_del of what it found.
Unlink(n) ==
    IF n \in Listed
    THEN \E i \in DOMAIN list : list[i] = n /\ list' = RemoveAt(list, i)
    ELSE UNCHANGED list

\* Mutant: the event found under that name is not unlinked before it is reused.
StartFindNoUnlink(t) ==
    /\ pc[t] = "start_find"
    /\ Runs(t)
    /\ Goto(t, "start_add")
    /\ UNCHANGED <<list, left, owner, active, cmdq, arg, cur, blocked, calls>>

\* The event of that name is unlinked and reused, or a new one allocated.
StartFind(t) ==
    /\ pc[t] = "start_find"
    /\ Runs(t)
    /\ \/ Goto(t, "start_add") /\ Unlink(arg[t].name)
       \/ /\ HeapMayFail
          /\ arg[t].name \notin Listed
          /\ Goto(t, "give")
          /\ UNCHANGED list
    /\ UNCHANGED <<left, owner, active, cmdq, arg, cur, blocked, calls>>

\* list_add links the event at the head.
StartAdd(t) ==
    /\ pc[t] = "start_add"
    /\ Runs(t)
    /\ list' = <<arg[t].name>> \o list
    /\ left' = [left EXCEPT ![arg[t].name] = arg[t].time]
    /\ Goto(t, "give")
    /\ UNCHANGED <<owner, active, cmdq, arg, cur, blocked, calls>>

\* Mutant: a stop that finds the list empty returns without xSemaphoreGive.
StopFindNoGive(t) ==
    /\ pc[t] = "stop_find"
    /\ Runs(t)
    /\ Goto(t, IF list = << >> THEN "idle" ELSE "stop_empty")
    /\ Unlink(arg[t].name)
    /\ UNCHANGED <<left, owner, active, cmdq, arg, cur, blocked, calls>>

StopFind(t) ==
    /\ pc[t] = "stop_find"
    /\ Runs(t)
    /\ Goto(t, IF list = << >> THEN "give" ELSE "stop_empty")
    /\ Unlink(arg[t].name)
    /\ UNCHANGED <<left, owner, active, cmdq, arg, cur, blocked, calls>>

StopEmpty(t) ==
    /\ pc[t] = "stop_empty"
    /\ Runs(t)
    /\ IF list = << >> THEN Send("stop") ELSE UNCHANGED cmdq
    /\ Goto(t, "give")
    /\ UNCHANGED <<list, left, owner, active, arg, cur, blocked, calls>>

\* xSemaphoreTake(wm_timer_event_mutex, portMAX_DELAY)
TakeMutex(p) ==
    /\ WantsMutex(p)
    /\ Runs(p)
    /\ owner = None
    /\ owner' = p
    /\ Goto(p, CASE pc[p] = "start_take" -> "start_find"
                 [] pc[p] = "stop_take"  -> "stop_find"
                 [] pc[p] = "cb_take"    -> "cb_empty")
    /\ UNCHANGED <<list, left, active, cmdq, arg, cur, blocked, calls>>

\* xSemaphoreGive, after which the call returns.
GiveMutex(p) ==
    /\ pc[p] \in {"give", "cb_give"}
    /\ Runs(p)
    /\ owner' = None
    /\ arg' = IF p \in Tasks THEN [arg EXCEPT ![p] = None] ELSE arg
    /\ Goto(p, "idle")
    /\ UNCHANGED <<list, left, active, cmdq, cur, blocked, calls>>

-----------------------------------------------------------------------------
(* wm_s_timer_cb, run by the daemon.                                       *)

\* Mutant: the walk starts at the list head itself, which is no event.
CbEmptyFromHead ==
    /\ pc[Daemon] = "cb_empty"
    /\ cur' = 0
    /\ Goto(Daemon, "cb_visit")
    /\ UNCHANGED <<list, left, owner, active, cmdq, arg, blocked, calls>>

\* An empty list is an error: the timer is stopped and the callback returns,
\* without xSemaphoreGive.
CbEmpty ==
    /\ pc[Daemon] = "cb_empty"
    /\ IF list = << >>
       THEN Send("stop") /\ Goto(Daemon, "idle") /\ UNCHANGED cur
       ELSE Goto(Daemon, "cb_visit") /\ cur' = 1 /\ UNCHANGED cmdq
    /\ UNCHANGED <<list, left, owner, active, arg, blocked, calls>>

\* The walk has come to the end of list l at position i, or goes on there.
WalkOn(l, i) == Goto(Daemon, IF i > Len(l) THEN "cb_end" ELSE "cb_visit")

\* An event that has time left: count it down and run pcb_function, which
\* may post a property and so wait for the network.
CbCountDown ==
    /\ pc[Daemon] = "cb_visit"
    /\ ~blocked
    /\ left[list[cur]] > 0
    /\ left' = [left EXCEPT ![list[cur]] = @ - 1]
    /\ blocked' \in BOOLEAN
    /\ cur' = cur + 1
    /\ WalkOn(list, cur + 1)
    /\ UNCHANGED <<list, owner, active, cmdq, arg, calls>>

\* Mutant: the callback runs a second early.
CbFunctionEarly ==
    /\ pc[Daemon] = "cb_visit"
    /\ ~blocked
    /\ left[list[cur]] <= 1
    /\ Goto(Daemon, "cb_delete")
    /\ UNCHANGED <<list, left, owner, active, cmdq, arg, cur, blocked, calls>>

\* An event that has none left: run cb_function, which may wait as well.
CbFunction ==
    /\ pc[Daemon] = "cb_visit"
    /\ ~blocked
    /\ left[list[cur]] <= 0
    /\ blocked' \in BOOLEAN
    /\ Goto(Daemon, "cb_delete")
    /\ UNCHANGED <<list, left, owner, active, cmdq, arg, cur, calls>>

\* list_del, vPortFree, and wte->next of the freed event, which still names
\* its successor: no one runs in between.
CbDelete ==
    /\ pc[Daemon] = "cb_delete"
    /\ ~blocked
    /\ list' = RemoveAt(list, cur)
    /\ WalkOn(list', cur)
    /\ UNCHANGED <<left, owner, active, cmdq, arg, cur, blocked, calls>>

CbEnd ==
    /\ pc[Daemon] = "cb_end"
    /\ ~blocked
    /\ IF list = << >> THEN Send("stop") ELSE UNCHANGED cmdq
    /\ Goto(Daemon, "cb_give")
    /\ UNCHANGED <<list, left, owner, active, arg, cur, blocked, calls>>

\* The network lets the callback go on.
Unblock ==
    /\ blocked
    /\ blocked' = FALSE
    /\ UNCHANGED <<list, left, owner, active, cmdq, pc, arg, cur, calls>>

-----------------------------------------------------------------------------

TaskStep(t) ==
    \/ CallStart(t) \/ StartCheck(t) \/ StartFind(t) \/ StartAdd(t)
    \/ CallStop(t) \/ StopFind(t) \/ StopEmpty(t)

DaemonStep ==
    \/ ProcessCommand \/ Expire
    \/ CbEmpty \/ CbCountDown \/ CbFunction \/ CbDelete \/ CbEnd \/ Unblock

Next ==
    \/ \E t \in Tasks : TaskStep(t)
    \/ \E p \in Procs : TakeMutex(p) \/ GiveMutex(p)
    \/ DaemonStep

Spec == Init /\ [][Next]_vars

\* Every ready process gets to run: a round of wm_s_timer_cb is far shorter
\* than the period of a second, and each network call has a timeout.
TaskProgress(t) ==
    \/ StartCheck(t) \/ StartFind(t) \/ StartAdd(t) \/ StopFind(t)
    \/ StopEmpty(t) \/ TakeMutex(t) \/ GiveMutex(t)

DaemonProgress ==
    \/ ProcessCommand \/ CbEmpty \/ CbCountDown \/ CbFunction \/ CbDelete
    \/ CbEnd \/ Unblock \/ TakeMutex(Daemon) \/ GiveMutex(Daemon)

FairSpec ==
    Spec /\ WF_vars(DaemonProgress) /\ \A t \in Tasks : SF_vars(TaskProgress(t))

-----------------------------------------------------------------------------
(* Properties.                                                             *)

Critical == {"start_find", "start_add", "stop_find", "stop_empty", "give",
             "cb_empty", "cb_visit", "cb_delete", "cb_end", "cb_give"}

\* A process that looks at or changes the list between its xSemaphoreTake and
\* xSemaphoreGive holds wm_timer_event_mutex: no two processes are there at
\* once, though wm_s_timer_cb can return with the mutex still held.
MutexProtectsList == \A p \in Procs : pc[p] \in Critical => owner = p

\* The list holds one event of a name at most, a start links none that is
\* still linked, and the walk of wm_s_timer_cb stands on an event of the list,
\* whatever the tasks do while a callback waits for the network.
WalkStaysOnList ==
    /\ IsInjective(list)
    /\ \A t \in Tasks : pc[t] = "start_add" => arg[t].name \notin Listed
    /\ pc[Daemon] \in {"cb_visit", "cb_delete"} => cur \in DOMAIN list

\* wm_s_timer_cb returned without giving the mutex back.
MutexLeaked == owner = Daemon /\ pc[Daemon] \in {"idle", "cb_take"}

\* No later call and no later period repairs that: the mutex stays taken.
LeakIsForEver == [][MutexLeaked => MutexLeaked']_vars

\* That leak is the one way to hang: a call of a task returns, or the
\* daemon has kept the mutex.
CallsReturn ==
    \A t \in Tasks : pc[t] # "idle" ~> (pc[t] = "idle" \/ MutexLeaked)

\* The service keeps its promise: see EventTable. A start or stop takes effect
\* at one instant, whatever runs beside it, and no event runs early or twice.
Table == INSTANCE EventTable WITH
    Seconds <- Seconds \cup {0},
    table  <- [n \in Listed |-> left[n]],
    firing <- IF pc[Daemon] = "cb_delete" THEN {list[cur]} ELSE {}
KeepsTable == Table!Spec

\* "... timer started": once the calls have returned and the daemon has done
\* its commands, the timer runs if an event waits for it.
StartedEventsAreTimed ==
    (list # << >> /\ cmdq = << >> /\ \A p \in Procs : pc[p] = "idle") => active
=============================================================================
