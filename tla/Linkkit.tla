------------------------------ MODULE Linkkit -------------------------------
(***************************************************************************)
(* How the linkkit device model (linkkit/dev_model) brings the answer of   *)
(* the cloud back to the program. IOT_Linkkit_Report and                   *)
(* IOT_Linkkit_TriggerEvent publish a message under a mutex and then note  *)
(* it in the message cache (dm_message_cache.c). demo_task receives, in    *)
(* IOT_Linkkit_Yield, the replies, puts those the cache knows in the queue *)
(* between threads (dm_ipc.c) and removes them from the cache; then it     *)
(* times out what has been in the cache for ten seconds, and calls the     *)
(* program for everything in the queue. The program may post again from    *)
(* such a call.                                                            *)
(*                                                                         *)
(* Other tasks post while demo_task receives: the cache is noted after the *)
(* message has left, so the reply can come first, and its limit is looked  *)
(* at outside its lock.                                                    *)
(***************************************************************************)
EXTENDS Integers, Sequences, FiniteSets, SequencesExt

CONSTANTS
    Procs,      \* the tasks that post
    Demo,       \* demo_task, which calls IOT_Linkkit_Yield as well
    None,       \* no process
    Priority,   \* process -> FreeRTOS priority
    CacheMax,   \* CONFIG_MSGCACHE_QUEUE_MAXLEN: 50
    QueueMax,   \* CONFIG_DISPATCH_QUEUE_MAXLEN: 50
    MaxPosts    \* bound of the model: messages posted

ASSUME LinkkitAssumption ==
    /\ IsFiniteSet(Procs)
    /\ Demo \in Procs
    /\ None \notin Procs
    /\ Priority \in [Procs -> Nat]
    /\ CacheMax \in Nat
    /\ QueueMax \in Nat
    /\ MaxPosts \in Nat

Ids == 1 .. MaxPosts

VARIABLES
    mutex,      \* holder of the mutex of iotx_linkkit_ctx_t, or None
    posts,      \* messages posted so far: iotx_report_id
    cache,      \* dmc_list: the ids that wait for a reply
    old,        \* the ids in it that are older than the timeout
    wire,       \* ids whose replies are under way
    queue,      \* message_list of dm_ipc: the ids whose answers are ready
    pc,         \* process -> what it does next
    back,       \* process -> where it goes on after its post
    id,         \* process -> the message it handles
    noted,      \* the ids that were put into the cache
    answers,    \* id -> how often the program was called back for it
    lost        \* ids that were dropped because the cache or queue was full

vars == <<mutex, posts, cache, old, wire, queue, pc, back, id, noted, answers, lost>>

Labels == {"idle", "take", "publish", "network", "room", "insert", "give"}
DemoLabels == {"yield", "search", "enqueue", "remove", "tick", "dispatch"}

TypeOK ==
    /\ mutex \in Procs \cup {None}
    /\ posts \in 0 .. MaxPosts
    /\ cache \subseteq Ids
    /\ old \subseteq cache
    /\ wire \subseteq Ids
    /\ queue \in Seq(Ids)
    /\ pc \in [Procs -> Labels \cup DemoLabels]
    /\ back \in [Procs -> {"idle", "yield", "dispatch"}]
    /\ \A p \in Procs \ {Demo} : pc[p] \in Labels /\ back[p] = "idle"
    /\ pc[Demo] # "idle" /\ back[Demo] # "idle"
    /\ id \in [Procs -> Ids \cup {0}]
    /\ noted \subseteq Ids
    /\ answers \in [Ids -> Nat]
    /\ lost \subseteq Ids

Init ==
    /\ mutex = None
    /\ posts = 0
    /\ cache = {}
    /\ old = {}
    /\ wire = {}
    /\ queue = << >>
    /\ pc = [p \in Procs |-> IF p = Demo THEN "yield" ELSE "idle"]
    /\ back = pc
    /\ id = [p \in Procs |-> 0]
    /\ noted = {}
    /\ answers = [i \in Ids |-> 0]
    /\ lost = {}

-----------------------------------------------------------------------------
(* The scheduler. A process that sends, and demo_task while it yields, wait *)
(* for the network.                                                        *)

Ready(p) ==
    /\ pc[p] \notin {"idle", "yield", "network"}
    /\ pc[p] = "take" => mutex = None

\* The owner of the mutex runs at the priority of those it blocks.
Inherited(p) ==
    {Priority[q] : q \in {q \in Procs : q = p \/ (mutex = p /\ pc[q] = "take")}}

Runs(p) ==
    \A q \in Procs : Ready(q) =>
        \E i \in Inherited(p) : \A j \in Inherited(q) : i >= j

At(p, label) == pc[p] = label /\ Runs(p)
Goto(p, label) == pc' = [pc EXCEPT ![p] = label]

-----------------------------------------------------------------------------
(* IOT_Linkkit_Report, IOT_Linkkit_TriggerEvent                            *)

\* The bound counts the posts that wait for the mutex.
Waiters == {q \in Procs : pc[q] = "take"}
MayPost == posts + Cardinality(Waiters) < MaxPosts

\* From a task of its own, from the main loop of wm_run, or from a callback.
Post(p) ==
    /\ pc[p] \in {"idle", "yield"}
    /\ Runs(p)
    /\ MayPost
    /\ back' = [back EXCEPT ![p] = pc[p]]
    /\ Goto(p, "take")
    /\ UNCHANGED <<mutex, posts, cache, old, wire, queue, id, noted, answers, lost>>

\* Mutant: posts are not serialized.
TakeFree(p) ==
    /\ At(p, "take")
    /\ mutex' = p
    /\ posts' = posts + 1
    /\ id' = [id EXCEPT ![p] = posts']
    /\ Goto(p, "publish")
    /\ UNCHANGED <<cache, old, wire, queue, back, noted, answers, lost>>

\* Mutant: the identifier is the one before the increment.
TakeLast(p) ==
    /\ At(p, "take")
    /\ mutex = None
    /\ mutex' = p
    /\ posts' = posts + 1
    /\ id' = [id EXCEPT ![p] = posts]
    /\ Goto(p, "publish")
    /\ UNCHANGED <<cache, old, wire, queue, back, noted, answers, lost>>

Take(p) ==
    /\ At(p, "take")
    /\ mutex = None
    /\ mutex' = p
    /\ posts' = posts + 1
    /\ id' = [id EXCEPT ![p] = posts']
    /\ Goto(p, "publish")
    /\ UNCHANGED <<cache, old, wire, queue, back, noted, answers, lost>>

\* dm_client_publish: what becomes of the message, or of its reply, is not
\* looked at.
Publish(p) ==
    /\ At(p, "publish")
    /\ wire' \in {wire, wire \cup {id[p]}}
    /\ Goto(p, "network")
    /\ UNCHANGED <<mutex, posts, cache, old, queue, back, id, noted, answers, lost>>

Published(p) ==
    /\ At(p, "network")
    /\ Goto(p, "room")
    /\ UNCHANGED <<mutex, posts, cache, old, wire, queue, back, id, noted, answers, lost>>

\* dm_msg_cache_insert: the limit, without the lock of the cache ...
Room(p) ==
    /\ At(p, "room")
    /\ IF Cardinality(cache) >= CacheMax
       THEN lost' = lost \cup {id[p]} /\ Goto(p, "give")
       ELSE UNCHANGED lost /\ Goto(p, "insert")
    /\ UNCHANGED <<mutex, posts, cache, old, wire, queue, back, id, noted, answers>>

\* ... and the insertion, with it.
Insert(p) ==
    /\ At(p, "insert")
    /\ cache' = cache \cup {id[p]}
    /\ noted' = noted \cup {id[p]}
    /\ Goto(p, "give")
    /\ UNCHANGED <<mutex, posts, old, wire, queue, back, id, answers, lost>>

\* Mutant: the mutex is kept when there was no room.
GiveWhenNoted(p) ==
    /\ At(p, "give")
    /\ mutex' = IF id[p] \in lost THEN mutex ELSE None
    /\ Goto(p, back[p])
    /\ UNCHANGED <<posts, cache, old, wire, queue, back, id, noted, answers, lost>>

Give(p) ==
    /\ At(p, "give")
    /\ mutex' = None
    /\ Goto(p, back[p])
    /\ UNCHANGED <<posts, cache, old, wire, queue, back, id, noted, answers, lost>>

-----------------------------------------------------------------------------
(* IOT_Linkkit_Yield: iotx_dm_yield                                        *)

\* A reply comes in, perhaps not for the last time.
Receive ==
    /\ At(Demo, "yield")
    /\ \E i \in wire :
        /\ wire' \in {wire, wire \ {i}}
        /\ id' = [id EXCEPT ![Demo] = i]
    /\ Goto(Demo, "search")
    /\ UNCHANGED <<mutex, posts, cache, old, queue, back, noted, answers, lost>>

\* dm_msg_thing_event_property_post_reply: a message that is not, or not yet,
\* in the cache has no answer.
Search ==
    /\ At(Demo, "search")
    /\ Goto(Demo, IF id[Demo] \in cache THEN "enqueue" ELSE "remove")
    /\ UNCHANGED <<mutex, posts, cache, old, wire, queue, back, id, noted, answers, lost>>

\* _dm_msg_send_to_user, dm_ipc_msg_insert
SendToUser(i) ==
    IF Len(queue) < QueueMax
    THEN queue' = Append(queue, i) /\ UNCHANGED lost
    ELSE UNCHANGED queue /\ lost' = lost \cup {i}

Enqueue ==
    /\ At(Demo, "enqueue")
    /\ SendToUser(id[Demo])
    /\ Goto(Demo, "remove")
    /\ UNCHANGED <<mutex, posts, cache, old, wire, back, id, noted, answers>>

\* Mutant: the message stays in the cache.
UncacheNothing ==
    /\ At(Demo, "remove")
    /\ Goto(Demo, "yield")
    /\ UNCHANGED <<mutex, posts, cache, old, wire, queue, back, id, noted, answers, lost>>

\* dm_msg_cache_remove, whatever became of the answer.
Uncache ==
    /\ At(Demo, "remove")
    /\ cache' = cache \ {id[Demo]}
    /\ old' = old \ {id[Demo]}
    /\ Goto(Demo, "yield")
    /\ UNCHANGED <<mutex, posts, wire, queue, back, id, noted, answers, lost>>

\* The time of a yield is over.
YieldEnds ==
    /\ At(Demo, "yield")
    /\ Goto(Demo, "tick")
    /\ UNCHANGED <<mutex, posts, cache, old, wire, queue, back, id, noted, answers, lost>>

-----------------------------------------------------------------------------
(* IOT_Linkkit_Yield: iotx_dm_dispatch                                     *)

\* Ten seconds have passed since the insertion.
Age(i) ==
    /\ i \in cache \ old
    /\ old' = old \cup {i}
    /\ UNCHANGED <<mutex, posts, cache, wire, queue, pc, back, id, noted, answers, lost>>

\* Mutant: what is timed out is not sent to the program.
TimeoutSilent(i) ==
    /\ At(Demo, "tick")
    /\ i \in old
    /\ cache' = cache \ {i}
    /\ old' = old \ {i}
    /\ UNCHANGED <<mutex, posts, wire, queue, pc, back, id, noted, answers, lost>>

\* dm_msg_cache_tick: a timeout is sent to the program, if the queue has room
\* for it, and the message removed ...
Timeout(i) ==
    /\ At(Demo, "tick")
    /\ i \in old
    /\ SendToUser(i)
    /\ cache' = cache \ {i}
    /\ old' = old \ {i}
    /\ UNCHANGED <<mutex, posts, wire, pc, back, id, noted, answers>>

\* ... until none is left that is too old.
Ticked ==
    /\ At(Demo, "tick")
    /\ old = {}
    /\ Goto(Demo, "dispatch")
    /\ UNCHANGED <<mutex, posts, cache, old, wire, queue, back, id, noted, answers, lost>>

\* dm_ipc_msg_next, and the program is called back. It may post from there.
Deliver ==
    /\ At(Demo, "dispatch")
    /\ queue # << >>
    /\ queue' = Tail(queue)
    /\ answers' = [answers EXCEPT ![Head(queue)] = @ + 1]
    /\ \/ UNCHANGED <<pc, back>>
       \/ /\ MayPost
          /\ back' = [back EXCEPT ![Demo] = "dispatch"]
          /\ Goto(Demo, "take")
    /\ UNCHANGED <<mutex, posts, cache, old, wire, id, noted, lost>>

\* Only demo_task fills the queue: it is empty before the limit of
\* CONFIG_DISPATCH_QUEUE_MAXLEN calls is reached.
Dispatched ==
    /\ At(Demo, "dispatch")
    /\ queue = << >>
    /\ Goto(Demo, "yield")
    /\ UNCHANGED <<mutex, posts, cache, old, wire, queue, back, id, noted, answers, lost>>

-----------------------------------------------------------------------------

Report(p) ==
    Take(p) \/ Publish(p) \/ Published(p) \/ Room(p) \/ Insert(p) \/ Give(p)

Reply == Search \/ Enqueue \/ Uncache

Dispatch ==
    YieldEnds \/ (\E i \in Ids : Timeout(i)) \/ Ticked \/ Deliver \/ Dispatched

Next ==
    \/ \E p \in Procs : Post(p) \/ Report(p)
    \/ Receive \/ Reply \/ Dispatch
    \/ \E i \in Ids : Age(i)

Spec == Init /\ [][Next]_vars

\* demo_task comes round its loop, and lets the others run while it yields;
\* the network lets a sender go on; time passes.
FairSpec ==
    /\ Spec
    /\ \A p \in Procs : SF_vars(Report(p))
    /\ WF_vars(Reply)
    /\ SF_vars(Dispatch)
    /\ \A i \in Ids : WF_vars(Age(i))

-----------------------------------------------------------------------------
(* Properties.                                                             *)

\* A message is answered once, whether its reply comes early, late, twice or
\* never, and however the insertion, the reply and the timeout interleave:
\* see Answers.
Waiting == cache \cup ToSet(queue)
Promise == INSTANCE Answers WITH posted <- noted, waiting <- Waiting
KeepsPromise == Promise!Spec

\* CONFIG_MSGCACHE_QUEUE_MAXLEN bounds the cache, although the tasks compare
\* its length before they take its lock: the mutex of the posts sees to it.
CacheWithinLimit == Cardinality(cache) <= CacheMax

\* Every message is answered in the end, the ones whose reply is lost or
\* overtakes the insertion included, but for those that found the cache or
\* the queue full.
EveryPostAnswered ==
    \A i \in Ids : i <= posts ~> answers[i] = 1 \/ i \in lost

\* A post returns, though it waits for the mutex of others that send, and
\* though it is made from a callback.
PostsReturn == \A p \in Procs : pc[p] = "take" ~> pc[p] = back[p]
=============================================================================
