----------------------------- MODULE EventTable -----------------------------
(***************************************************************************)
(* What the software timer service of source/demo_wm/washing_machine.c     *)
(* promises its callers, free of the list, the mutex and the FreeRTOS      *)
(* timer behind it: a table from the names of the pending events to the    *)
(* seconds left of each.                                                   *)
(*                                                                         *)
(* wm_s_timer_start sets an entry, wm_s_timer_stop clears it (a restart    *)
(* first clears the old one), each period counts an entry down by one. An  *)
(* event's callback runs only when nothing is left of it, and while it     *)
(* runs no event is started, stopped or counted: once a stop has returned, *)
(* the callback neither runs nor will run.                                 *)
(***************************************************************************)
EXTENDS Integers

CONSTANTS Names,      \* timer_event_name: "finish_timer", "local_timer", ...
          Seconds     \* the arguments time_s that callers pass, any int

VARIABLES table,      \* pending event name -> seconds left
          firing      \* the event whose callback runs: {} or {its name}

Pending(n) == n \in DOMAIN table

Init == /\ table = [n \in {} |-> 0]
        /\ firing = {}

Quiet == firing = {} /\ UNCHANGED firing

\* A start. The name is free: the service unlinks an event before it resets it.
Set(n, s) ==
    /\ Quiet
    /\ ~Pending(n)
    /\ table' = [m \in DOMAIN table \cup {n} |-> IF m = n THEN s ELSE table[m]]

\* The entry leaves the table.
Drop(n) == table' = [m \in DOMAIN table \ {n} |-> table[m]]

\* A stop, or the first half of a restart.
Clear(n) == Quiet /\ Pending(n) /\ Drop(n)

\* One period passes for one event.
CountDown(n) == /\ Quiet
                /\ Pending(n)
                /\ table[n] > 0
                /\ table' = [table EXCEPT ![n] = @ - 1]

\* The callback of an event with nothing left is called, and returns.
Fire(n) == /\ firing = {}
           /\ Pending(n)
           /\ table[n] <= 0
           /\ firing' = {n}
           /\ UNCHANGED table

Fired(n) == firing = {n} /\ firing' = {} /\ Drop(n)

Next == \E n \in Names : \/ \E s \in Seconds : Set(n, s)
                         \/ Clear(n)
                         \/ CountDown(n)
                         \/ Fire(n)
                         \/ Fired(n)

Spec == Init /\ [][Next]_<<table, firing>>
=============================================================================
