------------------------------ MODULE KvCalls -------------------------------
(***************************************************************************)
(* The calls that tasks make to the key-value store (component/kv/kv.c):   *)
(* the lock they take, and how a set that finds the flash nearly full      *)
(* starts the collection task, and later sets wait for it: gc_trigger,     *)
(* gc_waiter and a counting semaphore, read and written with and without   *)
(* the lock. What happens on the flash meanwhile is in KvFlash.            *)
(*                                                                         *)
(* A call begins with Begin and is over at "done", where the caller goes   *)
(* on; it leaves the processor to others when it is "idle". The module     *)
(* WifiConfig has the callers of this product.                             *)
(***************************************************************************)
EXTENDS Integers, FiniteSets

CONSTANTS
    Tasks,          \* the callers
    Gc,             \* the collection task, kv_gc_task
    None,           \* no task, no value, no call
    Priority,       \* caller -> FreeRTOS priority
    Keys, Vals,
    CreateFails     \* whether the creation of a task may fail

\* Mutant: the collection task has the priority of the panel.
GcPriorityLow == 2

\* kv_start_task
GcPriority == 4

CallsOf == [op : {"get"}, key : Keys] \cup [op : {"set"}, key : Keys, val : Vals]

ASSUME KvCallsAssumption ==
    /\ IsFiniteSet(Tasks)
    /\ Gc \notin Tasks
    /\ None \notin Tasks \cup {Gc} \cup Vals
    /\ None \notin CallsOf
    /\ Priority \in [Tasks -> Nat]
    /\ CreateFails \in BOOLEAN

VARIABLES
    store,      \* key -> value: the contents of the flash
    lock,       \* the holder of g_kv_mgr.lock
    trigger,    \* gc_trigger
    waiter,     \* gc_waiter
    sem,        \* count of gc_sem
    pc,         \* process -> what it does next
    call,       \* caller -> its call
    got         \* caller -> what its last get has found

kvVars == <<store, lock, trigger, waiter, sem, pc, call, got>>

Procs == Tasks \cup {Gc}

TaskLabels == {"idle", "check", "count", "wait", "lock", "work", "reset",
               "trigger", "create", "unlock", "done"}
GcLabels == {"absent", "lock", "work", "unlock", "post"}

KvTypeOK ==
    /\ store \in [Keys -> Vals \cup {None}]
    /\ lock \in Procs \cup {None}
    /\ trigger \in BOOLEAN
    /\ waiter \in Nat
    /\ sem \in Nat
    /\ pc \in [Procs -> TaskLabels \cup GcLabels]
    /\ \A t \in Tasks : pc[t] \in TaskLabels
    /\ pc[Gc] \in GcLabels
    /\ call \in [Tasks -> CallsOf \cup {None}]
    /\ \A t \in Tasks : pc[t] # "idle" => call[t] # None
    /\ got \in [Tasks -> Vals \cup {None}]

\* After kv_init, which may start a collection.
Booted(gc) ==
    [p \in Procs |-> IF p # Gc THEN "idle" ELSE IF gc THEN "lock" ELSE "absent"]
NoneOf == [t \in Tasks |-> None]

KvInit ==
    /\ store = [k \in Keys |-> None]
    /\ lock = None
    /\ trigger \in BOOLEAN
    /\ waiter = 0
    /\ sem = 0
    /\ pc = Booted(trigger)
    /\ call = NoneOf
    /\ got = NoneOf

\* The same after a loss of power, which leaves the flash.
KvReboot ==
    /\ UNCHANGED store
    /\ lock' = None
    /\ trigger' \in BOOLEAN
    /\ waiter' = 0
    /\ sem' = 0
    /\ pc' = Booted(trigger')
    /\ call' = NoneOf
    /\ got' = NoneOf

-----------------------------------------------------------------------------
(* The scheduler, and the mutex behind the lock, whose owner runs at the    *)
(* priority of those it blocks.                                            *)

Prio(p) == IF p = Gc THEN GcPriority ELSE Priority[p]

Ready(p) ==
    /\ pc[p] \notin {"idle", "absent"}
    /\ pc[p] = "lock" => lock = None
    /\ pc[p] = "wait" => sem > 0

Inherited(p) ==
    {Prio(q) : q \in {q \in Procs : q = p \/ (lock = p /\ pc[q] = "lock")}}

Runs(p) ==
    \A q \in Procs : Ready(q) =>
        \E i \in Inherited(p) : \A j \in Inherited(q) : i >= j

At(p, label) == pc[p] = label /\ Runs(p)
Goto(p, label) == pc' = [pc EXCEPT ![p] = label]

-----------------------------------------------------------------------------
(* kv_item_get, kv_item_set                                                *)

\* The caller calls: a get goes to the lock at once.
Begin(t, c) ==
    /\ pc[t] \in {"idle", "done"}
    /\ Runs(t)
    /\ call' = [call EXCEPT ![t] = c]
    /\ Goto(t, IF c.op = "set" THEN "check" ELSE "lock")
    /\ UNCHANGED <<store, lock, trigger, waiter, sem, got>>

\* The caller goes on without a call, and waits for something else.
Rest(t) ==
    /\ At(t, "done")
    /\ Goto(t, "idle")
    /\ UNCHANGED <<store, lock, trigger, waiter, sem, call, got>>

\* Is a collection under way? ...
Check(t) ==
    /\ At(t, "check")
    /\ Goto(t, IF trigger THEN "count" ELSE "lock")
    /\ UNCHANGED <<store, lock, trigger, waiter, sem, call, got>>

\* ... then be counted, and wait for its end.
Count(t) ==
    /\ At(t, "count")
    /\ waiter' = waiter + 1
    /\ Goto(t, "wait")
    /\ UNCHANGED <<store, lock, trigger, sem, call, got>>

Wait(t) ==
    /\ At(t, "wait")
    /\ sem > 0
    /\ sem' = sem - 1
    /\ Goto(t, "lock")
    /\ UNCHANGED <<store, lock, trigger, waiter, call, got>>

Lock(p) ==
    /\ At(p, "lock")
    /\ lock = None
    /\ lock' = p
    /\ Goto(p, "work")
    /\ UNCHANGED <<store, trigger, waiter, sem, call, got>>

Get(t) ==
    /\ At(t, "work")
    /\ call[t].op = "get"
    /\ got' = [got EXCEPT ![t] = store[call[t].key]]
    /\ Goto(t, "unlock")
    /\ UNCHANGED <<store, lock, trigger, waiter, sem, call>>

\* kv_item_update, kv_item_store: a value that is stored already is left
\* alone. kv_calc_position may ask for a collection, and may find no room.
Set(t) ==
    /\ At(t, "work")
    /\ call[t].op = "set"
    /\ LET k == call[t].key
           v == call[t].val
       IN  IF store[k] = v
           THEN UNCHANGED store /\ Goto(t, "unlock")
           ELSE \E room, collect \in BOOLEAN :
                    /\ ~room => collect
                    /\ store' = IF room THEN [store EXCEPT ![k] = v] ELSE store
                    /\ Goto(t, IF collect /\ ~trigger THEN "reset" ELSE "unlock")
    /\ UNCHANGED <<lock, trigger, waiter, sem, call, got>>

\* kv_trigger_gc: no waiters yet ...
Reset(t) ==
    /\ At(t, "reset")
    /\ waiter' = 0
    /\ Goto(t, "trigger")
    /\ UNCHANGED <<store, lock, trigger, sem, call, got>>

\* ... sets wait from here on ...
Trigger(t) ==
    /\ At(t, "trigger")
    /\ trigger' = TRUE
    /\ Goto(t, "create")
    /\ UNCHANGED <<store, lock, waiter, sem, call, got>>

\* Mutant: the waiters are forgotten after the trigger.
CreateForgets(t) ==
    /\ At(t, "create")
    /\ pc[Gc] = "absent"
    /\ pc' = [pc EXCEPT ![t] = "unlock", ![Gc] = "lock"]
    /\ waiter' = 0
    /\ UNCHANGED <<store, lock, trigger, sem, call, got>>

\* ... and the task is created. Nobody looks whether it was.
Create(t) ==
    /\ At(t, "create")
    /\ pc[Gc] = "absent"
    /\ \E created \in {TRUE, ~CreateFails} :
            pc' = [pc EXCEPT ![t] = "unlock", ![Gc] = IF created THEN "lock" ELSE @]
    /\ UNCHANGED <<store, lock, trigger, waiter, sem, call, got>>

Unlock(p) ==
    /\ At(p, "unlock")
    /\ lock' = None
    /\ Goto(p, IF p = Gc THEN "post" ELSE "done")
    /\ UNCHANGED <<store, trigger, waiter, sem, call, got>>

-----------------------------------------------------------------------------
(* kv_gc_task                                                              *)

\* Whatever it finds to collect, it withdraws the trigger.
Collect ==
    /\ At(Gc, "work")
    /\ trigger' = FALSE
    /\ Goto(Gc, "unlock")
    /\ UNCHANGED <<store, lock, waiter, sem, call, got>>

\* kv_sem_post_all lets one waiter go on.
PostAll ==
    /\ At(Gc, "post")
    /\ sem' = IF waiter > 0 THEN sem + 1 ELSE sem
    /\ Goto(Gc, "absent")
    /\ UNCHANGED <<store, lock, trigger, waiter, call, got>>

-----------------------------------------------------------------------------

TaskStep(t) ==
    \/ Check(t) \/ Count(t) \/ Wait(t) \/ Lock(t) \/ Get(t) \/ Set(t)
    \/ Reset(t) \/ Trigger(t) \/ Create(t) \/ Unlock(t)

GcStep == Lock(Gc) \/ Collect \/ Unlock(Gc) \/ PostAll

KvStep == GcStep \/ \E t \in Tasks : TaskStep(t)

-----------------------------------------------------------------------------
(* Properties.                                                             *)

\* A collection was asked for, but there was no memory for its task.
Abandoned ==
    trigger /\ pc[Gc] = "absent" /\ \A t \in Tasks : pc[t] # "create"

\* A set returns, though it may wait for a collection that was triggered, but
\* not yet created, when it looked: unless that creation fails, which leaves
\* gc_trigger set for ever. (It is for two callers: kv_sem_post_all posts once,
\* and a second waiter would stay behind.)
SetsReturn ==
    \A t \in Tasks : pc[t] = "check" ~> pc[t] \in {"done", "idle"} \/ Abandoned

\* No caller gets hold of the store between the start of a collection and its
\* end: what KvFlash takes for granted.
CollectFirst ==
    [][pc[Gc] # "absent" => lock' \in {lock, Gc, None}]_kvVars

=============================================================================
