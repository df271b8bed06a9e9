------------------------------ MODULE WmReport ------------------------------
(***************************************************************************)
(* How the washing machine demo reports its state to the cloud             *)
(* (source/demo_wm/washing_machine.c). A change asks for a round:          *)
(* wm_report_all_pro_to_cloud posts one property of report_properties, and *)
(* each reply of the cloud calls it for the next one. The index and the    *)
(* request flag are globals that demo_task, GuiThread, ShellTask and the   *)
(* timer daemon read and write without a lock.                             *)
(*                                                                         *)
(* The error event of the hardware button goes the same way, through a     *)
(* flag set by an interrupt and cleared by the main loop of wm_run.        *)
(*                                                                         *)
(* A step is the code between two accesses of the shared variables. A      *)
(* process runs when none of higher priority is ready; one that sends      *)
(* waits for the network and lets the others run.                          *)
(***************************************************************************)
EXTENDS Integers, FiniteSets

CONSTANTS
    Procs,      \* the processes that report
    Demo,       \* demo_task, which receives the replies of the cloud
    Priority,   \* process -> FreeRTOS priority
    N,          \* sizeof(report_properties)
    Offline,    \* whether the connection to the cloud can break
    MaxChanges, \* bound of the model: changes of properties
    MaxPresses  \* bound of the model: presses of the hardware button

ASSUME WmReportAssumption ==
    /\ IsFiniteSet(Procs)
    /\ Demo \in Procs
    /\ Priority \in [Procs -> Nat]
    /\ N \in Nat \ {0}
    /\ Offline \in BOOLEAN
    /\ MaxChanges \in Nat
    /\ MaxPresses \in Nat

VARIABLES
    current,    \* report_pro_current
    started,    \* report_started
    index,      \* process -> the index it has read
    pc,         \* process -> what it does next
    connected,  \* cloud_connected
    replies,    \* replies or timeouts that demo_task has still to see
    stale,      \* the properties whose last value the cloud has not been sent
    error,      \* report_error_to_cloud
    due,        \* the button was pressed since the last error event was built
    changes, presses

vars == <<current, started, index, pc, connected, replies, stale, error, due,
          changes, presses>>

Properties == 0 .. N - 1

Labels == {"idle", "request", "check", "wrap", "read", "advance", "post",
           "send", "end", "finish", "reset"}
DemoLabels == {"error_post", "error_send", "error_clear"}

TypeOK ==
    /\ current \in Nat
    /\ started \in BOOLEAN
    /\ index \in [Procs -> Nat]
    /\ pc \in [Procs -> Labels \cup DemoLabels]
    /\ \A p \in Procs : pc[p] \in DemoLabels => p = Demo
    /\ connected \in BOOLEAN
    /\ replies \in Nat
    /\ stale \subseteq Properties
    /\ error \in BOOLEAN
    /\ due \in BOOLEAN
    /\ changes \in 0 .. MaxChanges
    /\ presses \in 0 .. MaxPresses

\* wm_run has connected and calls wm_report_all_pro_to_cloud for the first time.
Init ==
    /\ current = N
    /\ started = TRUE
    /\ index = [p \in Procs |-> 0]
    /\ pc = [p \in Procs |-> IF p = Demo THEN "check" ELSE "idle"]
    /\ connected = TRUE
    /\ replies = 0
    /\ stale = Properties
    /\ error = FALSE
    /\ due = FALSE
    /\ changes = 0
    /\ presses = 0

-----------------------------------------------------------------------------

\* p neither waits for work nor for the network.
Ready(p) == pc[p] \notin {"idle", "send", "error_send"}

Runs(p) == \A q \in Procs : Priority[q] > Priority[p] => ~Ready(q)

\* p runs the code at a label, and goes on at the next one.
At(p, label) == pc[p] = label /\ Runs(p)
Goto(p, label) == pc' = [pc EXCEPT ![p] = label]

\* A handler changes a property; it asks for a round afterwards.
Change(p) ==
    /\ At(p, "idle")
    /\ changes < MaxChanges
    /\ changes' = changes + 1
    /\ \E i \in Properties : stale' = stale \cup {i}
    /\ Goto(p, "request")
    /\ UNCHANGED <<current, started, index, connected, replies, error, due, presses>>

\* Other handlers post the one property they have changed, and the cloud
\* answers that post as well.
PostOne(p) ==
    /\ At(p, "idle")
    /\ connected
    /\ changes < MaxChanges
    /\ changes' = changes + 1
    /\ replies' = replies + 1
    /\ UNCHANGED <<current, started, index, pc, connected, stale, error, due, presses>>

\* report_started = true
Request(p) ==
    /\ At(p, "request")
    /\ started' = TRUE
    /\ Goto(p, "check")
    /\ UNCHANGED <<current, index, connected, replies, stale, error, due, changes, presses>>

\* wm_report_reply_event_handler
Reply ==
    /\ At(Demo, "idle")
    /\ replies > 0
    /\ replies' = replies - 1
    /\ Goto(Demo, "check")
    /\ UNCHANGED <<current, started, index, connected, stale, error, due, changes, presses>>

-----------------------------------------------------------------------------
(* wm_report_all_pro_to_cloud                                              *)

\* No round is asked for, and none is under way.
Check(p) ==
    /\ At(p, "check")
    /\ Goto(p, IF current = N /\ ~started THEN "idle" ELSE "wrap")
    /\ UNCHANGED <<current, started, index, connected, replies, stale, error, due, changes, presses>>

\* Mutant: a round leaves out the first property.
WrapToSecond(p) ==
    /\ At(p, "wrap")
    /\ current' = IF current = N THEN 1 ELSE current
    /\ Goto(p, "read")
    /\ UNCHANGED <<started, index, connected, replies, stale, error, due, changes, presses>>

Wrap(p) ==
    /\ At(p, "wrap")
    /\ current' = IF current = N THEN 0 ELSE current
    /\ Goto(p, "read")
    /\ UNCHANGED <<started, index, connected, replies, stale, error, due, changes, presses>>

\* report_properties[report_pro_current++]: the index is read ...
Read(p) ==
    /\ At(p, "read")
    /\ index' = [index EXCEPT ![p] = current]
    /\ Goto(p, "advance")
    /\ UNCHANGED <<current, started, connected, replies, stale, error, due, changes, presses>>

\* Mutant: the index runs down.
AdvanceDown(p) ==
    /\ At(p, "advance")
    /\ current' = index[p] - 1
    /\ Goto(p, "post")
    /\ UNCHANGED <<started, index, connected, replies, stale, error, due, changes, presses>>

\* ... and written.
Advance(p) ==
    /\ At(p, "advance")
    /\ current' = index[p] + 1
    /\ Goto(p, "post")
    /\ UNCHANGED <<started, index, connected, replies, stale, error, due, changes, presses>>

\* wm_property_post: nothing while the cloud is not connected; otherwise the
\* payload is built with the value of this moment.
Post(p) ==
    /\ At(p, "post")
    /\ IF connected
       THEN stale' = stale \ {index[p]} /\ Goto(p, "send")
       ELSE UNCHANGED stale /\ Goto(p, "end")
    /\ UNCHANGED <<current, started, index, connected, replies, error, due, changes, presses>>

\* IOT_Linkkit_Report returns; the cloud will answer.
Sent(p) ==
    /\ At(p, "send")
    /\ replies' = replies + 1
    /\ Goto(p, "end")
    /\ UNCHANGED <<current, started, index, connected, stale, error, due, changes, presses>>

\* The last property has been reached.
End(p) ==
    /\ At(p, "end")
    /\ Goto(p, IF current >= N THEN "finish" ELSE "idle")
    /\ UNCHANGED <<current, started, index, connected, replies, stale, error, due, changes, presses>>

\* Mutant: the request is not withdrawn.
FinishStarted(p) ==
    /\ At(p, "finish")
    /\ Goto(p, "reset")
    /\ UNCHANGED <<current, started, index, connected, replies, stale, error, due, changes, presses>>

Finish(p) ==
    /\ At(p, "finish")
    /\ started' = FALSE
    /\ Goto(p, "reset")
    /\ UNCHANGED <<current, index, connected, replies, stale, error, due, changes, presses>>

Reset(p) ==
    /\ At(p, "reset")
    /\ current' = N
    /\ Goto(p, "idle")
    /\ UNCHANGED <<started, index, connected, replies, stale, error, due, changes, presses>>

-----------------------------------------------------------------------------
(* The button, and the main loop of wm_run.                                *)

\* HardButtonIsrCallback, wm_button_pressed
Press ==
    /\ presses < MaxPresses
    /\ presses' = presses + 1
    /\ error' = TRUE
    /\ due' = TRUE
    /\ UNCHANGED <<current, started, index, pc, connected, replies, stale, changes>>

\* Mutant: without a connection no event is built, and the flag is cleared.
ErrorSeenOnline ==
    /\ At(Demo, "idle")
    /\ error
    /\ Goto(Demo, IF connected THEN "error_post" ELSE "error_clear")
    /\ UNCHANGED <<current, started, index, connected, replies, stale, error, due, changes, presses>>

\* The loop, between two calls of IOT_Linkkit_Yield, sees the flag ...
ErrorSeen ==
    /\ At(Demo, "idle")
    /\ error
    /\ Goto(Demo, "error_post")
    /\ UNCHANGED <<current, started, index, connected, replies, stale, error, due, changes, presses>>

\* ... posts the event (wm_post_event) ...
ErrorPost ==
    /\ At(Demo, "error_post")
    /\ due' = FALSE
    /\ Goto(Demo, "error_send")
    /\ UNCHANGED <<current, started, index, connected, replies, stale, error, changes, presses>>

ErrorSent ==
    /\ At(Demo, "error_send")
    /\ Goto(Demo, "error_clear")
    /\ UNCHANGED <<current, started, index, connected, replies, stale, error, due, changes, presses>>

\* ... and clears the flag.
ErrorClear ==
    /\ At(Demo, "error_clear")
    /\ error' = FALSE
    /\ Goto(Demo, "idle")
    /\ UNCHANGED <<current, started, index, connected, replies, stale, due, changes, presses>>

\* wm_connected_event_handler, wm_disconnected_event_handler. A reply that is
\* lost with the connection is made up for by a timeout (see Linkkit), which
\* calls the same handler.
Connection ==
    /\ Offline
    /\ At(Demo, "idle")
    /\ connected' = ~connected
    /\ UNCHANGED <<current, started, index, pc, replies, stale, error, due, changes, presses>>

-----------------------------------------------------------------------------

Report(p) ==
    \/ Request(p) \/ Check(p) \/ Wrap(p) \/ Read(p) \/ Advance(p)
    \/ Post(p) \/ Sent(p) \/ End(p) \/ Finish(p) \/ Reset(p)

ErrorLoop == ErrorSeen \/ ErrorPost \/ ErrorSent \/ ErrorClear

Next ==
    \/ \E p \in Procs : Change(p) \/ PostOne(p) \/ Report(p)
    \/ Reply \/ Connection \/ Press \/ ErrorLoop

Spec == Init /\ [][Next]_vars

\* Each process runs on, the network lets a sender go on, and every post is
\* answered (see EveryPostAnswered in Linkkit).
FairSpec ==
    /\ Spec
    /\ \A p \in Procs : WF_vars(Report(p))
    /\ SF_vars(Reply)
    /\ WF_vars(ErrorLoop)

-----------------------------------------------------------------------------
(* Properties.                                                             *)

\* As long as the connection holds, a round that was asked for comes to its
\* end, whichever processes ask for rounds, and change the index, meanwhile.
RoundEnds == []connected => (started ~> ~started)

\* A property that changes when nothing is being reported is sent to the cloud,
\* whatever changes, and whichever process moves the index, in the meantime,
\* unless the connection breaks. (A round that stopped at a post without a
\* connection goes on from there with the next change, not from the beginning;
\* and what changes behind the index of a round under way is left out.)
QuietChange(i) ==
    /\ current = N /\ ~started /\ replies = 0
    /\ \E p \in Procs : pc[p] = "request" /\ \A q \in Procs \ {p} : pc[q] = "idle"
    /\ i \in stale
QuietChangeIsSent ==
    \A i \in Properties : QuietChange(i) ~> i \notin stale \/ ~connected

\* "Report Error Code to cloud" (wm_button_pressed): a press is followed by an
\* error event, but for one during the sending of the event of an earlier
\* press: the main loop clears the flag after it has sent.
PressReported ==
    (due /\ error /\ pc[Demo] \notin {"error_send", "error_clear"}) ~> ~due
=============================================================================
