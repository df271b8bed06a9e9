------------------------------ MODULE KvFlash -------------------------------
(***************************************************************************)
(* The key-value store of component/kv/kv.c on its flash: blocks to which  *)
(* items are appended, the states of blocks and items that are programmed  *)
(* in place, the garbage collection that moves the items of a dirty block  *)
(* to a clean one, and kv_init, which repairs what a loss of power left.   *)
(*                                                                         *)
(* A step is one flash operation (kv_adapt.c runs each with interrupts     *)
(* off) with the code around it; the power may fail between any two steps  *)
(* and in the middle of writing an item. All calls hold one lock, and the  *)
(* collection task has the highest priority of its users, so one call or   *)
(* collection is under way at a time.                                      *)
(*                                                                         *)
(* All items have one size; C of them fit into a block. What a deleted     *)
(* item holds is never looked at again.                                    *)
(***************************************************************************)
EXTENDS Integers, FiniteSets, FiniteSetsExt, Sequences

CONSTANTS
    Keys, Vals,
    None,           \* no value, no position, no request
    PrefixSets, \* the sets of keys that share a prefix
    B,              \* KV_BLOCK_NUMS
    C,              \* the items that fit into a block
    PowerFails      \* the steps at which the power may fail

\* KV_RESERVED_BLOCKS
Reserved == 1

Blocks == 0 .. B - 1
Steps == {"scan", "settle", "idle", "write", "unlink", "mark", "copy",
          "header", "used", "spin"}

\* Loss of power while an item that stands at its own origin is copied.
CopyHome == "copy_home"

VARIABLES
    blocks,     \* the flash: block -> its state and items
    wb,         \* the block of write_pos
    gc,         \* gc_trigger
    pc,         \* what happens next
    at,         \* the position kv_item_traverse has reached
    todo,       \* the positions of the items left to delete
    store, req  \* auxiliary: contents at the last return, call in progress

vars == <<blocks, wb, gc, pc, at, todo, store, req>>

\* What the store promises its callers.
Promise == INSTANCE KvStore WITH down <- pc \in {"scan", "settle"}

\* The places of items: a block, and a number in it.
Positions == Blocks \X (1 .. C)

ASSUME KvFlashAssumption ==
    /\ None \notin Vals \cup Positions \cup Promise!Requests
    /\ PrefixSets \subseteq SUBSET Keys
    /\ B \in Nat /\ B > Reserved + 1
    /\ C \in Nat \ {0}
    /\ PowerFails \subseteq Steps \cup {CopyHome}

-----------------------------------------------------------------------------
(* Blocks and items.                                                       *)

Items == [key : Keys, val : Vals \cup {None}, origin : Positions \cup {None},
          ok : BOOLEAN]

Deleted == [deleted |-> TRUE]

Clean == [state |-> "clean", items |-> << >>]
Erased == [state |-> "none", items |-> << >>]

ItemCount(bs, b) == Len(bs[b].items)
At(bs, p) == bs[p[1]].items[p[2]]
Live(bs) == {p \in Positions : p[2] <= ItemCount(bs, p[1]) /\ At(bs, p) # Deleted}

Before(p, q) == p[1] < q[1] \/ (p[1] = q[1] /\ p[2] < q[2])

\* kv_item_search: the items of a key, and the first of them.
ItemsOf(bs, k) == {p \in Live(bs) : /\ At(bs, p).key = k
                                    /\ bs[p[1]].state # "clean"}
First(ps) == CHOOSE p \in ps : \A q \in ps \ {p} : Before(p, q)

\* What kv_item_get returns for each key.
Contents(bs) == [k \in Keys |-> LET ps == ItemsOf(bs, k)
                                IN IF ps = {} THEN None ELSE At(bs, First(ps)).val]

\* kv_set_block_state programs the state of a block in place.
SetState(bs, b, state) == [bs EXCEPT ![b].state = state]

\* A block is erased: it is left without a header, or with that of a clean one.
Format(bs, b, blank) == [bs EXCEPT ![b] = blank]

\* kv_item_del writes the state of the item, and then of its block.
Kill(bs, p) == [bs EXCEPT ![p[1]].items[p[2]] = Deleted]
Mark(bs, b) == IF bs[b].state = "used" THEN SetState(bs, b, "dirty") ELSE bs

Put(bs, b, item) == [bs EXCEPT ![b].items = Append(@, item)]

\* clean_blk_nums
CleanBlocks(bs) == {b \in Blocks : bs[b] = Clean}

\* Mutant: an item too many.
HasRoomFull(b) == ItemCount(blocks, b) <= C

HasRoom(b) == ItemCount(blocks, b) < C

\* The blocks from b's successor round to b, of which the first in S.
NextIn(b, S) == CHOOSE i \in S : \A j \in S : (i - b - 1) % B <= (j - b - 1) % B

States == {"none", "clean", "used", "dirty"}
BlockContents == [state : States, items : Seq(Items \cup {Deleted})]
Flash == {bs \in [Blocks -> BlockContents] : \A b \in Blocks : ItemCount(bs, b) <= C}

TypeOK ==
    /\ blocks \in Flash
    /\ wb \in Blocks
    /\ gc \in BOOLEAN
    /\ pc \in Steps
    /\ at \in (0 .. B) \X (1 .. C + 1)
    /\ todo \subseteq Positions

\* An erased flash, which kv_init is about to look at.
Init ==
    /\ blocks = [b \in Blocks |-> Erased]
    /\ wb = 0
    /\ gc = FALSE
    /\ pc = "scan"
    /\ at = <<0, 1>>
    /\ todo = {}
    /\ store = [k \in Keys |-> None]
    /\ req = None

\* The call or collection is over: the lock is released.
Return == pc' = "idle" /\ req' = None /\ store' = Contents(blocks')

-----------------------------------------------------------------------------
(* kv_init                                                                 *)

\* A block without a valid header is formatted.
ScanFormat ==
    /\ pc = "scan"
    /\ at[1] \in Blocks
    /\ blocks[at[1]].state = "none"
    /\ blocks' = Format(blocks, at[1], Clean)
    /\ at' = <<at[1] + 1, 1>>
    /\ UNCHANGED <<wb, gc, pc, todo, store, req>>

\* The item at p replaced the one at its origin, if that still stands there.
Replaces(p) == LET o == At(blocks, p).origin IN
    o \notin {None, p} /\ o \in Live(blocks) /\ At(blocks, o).key = At(blocks, p).key

\* Mutant: the checksum is not looked at.
RecoveredUnsound(p) ==
    IF At(blocks, p) = Deleted THEN Mark(blocks, p[1])
    ELSE IF Replaces(p)
    THEN Kill(blocks, At(blocks, p).origin)
    ELSE blocks

\* __item_recovery_cb. The state of a block is not known, and not changed,
\* before the scan has come to it; it then finds the deleted item there.
Recovered(p) ==
    IF At(blocks, p) = Deleted THEN Mark(blocks, p[1])
    ELSE IF ~At(blocks, p).ok THEN Mark(Kill(blocks, p), p[1])
    ELSE IF Replaces(p)
    THEN LET o == At(blocks, p).origin
         IN IF o[1] <= p[1] THEN Mark(Kill(blocks, o), o[1]) ELSE Kill(blocks, o)
    ELSE blocks

ScanItem ==
    /\ pc = "scan"
    /\ at[1] \in Blocks
    /\ at[2] <= ItemCount(blocks, at[1])
    /\ blocks' = Recovered(at)
    /\ at' = <<at[1], at[2] + 1>>
    /\ UNCHANGED <<wb, gc, pc, todo, store, req>>

ScanNext ==
    /\ pc = "scan"
    /\ IF at[1] = B
       THEN pc' = "settle" /\ UNCHANGED at
       ELSE /\ blocks[at[1]].state # "none"
            /\ at[2] > ItemCount(blocks, at[1])
            /\ at' = <<at[1] + 1, 1>>
            /\ UNCHANGED pc
    /\ UNCHANGED <<blocks, wb, gc, todo, store, req>>

\* Blocks that say they are clean and are not.
Unclean == {b \in Blocks : blocks[b].state = "clean" /\ blocks[b] # Clean}

\* Such a block is kept as a dirty one if a clean one is left, else formatted.
Settle ==
    /\ pc = "settle"
    /\ Unclean # {}
    /\ blocks' = IF Cardinality(CleanBlocks(blocks)) >= Reserved
                 THEN SetState(blocks, Max(Unclean), "dirty")
                 ELSE Format(blocks, Max(Unclean), Clean)
    /\ UNCHANGED <<wb, gc, pc, at, todo, store, req>>

\* There must be a clean block to collect into: block 0 if need be.
SettleClean ==
    /\ pc = "settle"
    /\ Unclean = {}
    /\ CleanBlocks(blocks) = {}
    /\ blocks' = Format(blocks, 0, Clean)
    /\ UNCHANGED <<wb, gc, pc, at, todo, store, req>>

\* The write position: the first block in use before a clean one.
LastInUse == {b \in Blocks : /\ blocks[b].state \in {"used", "dirty"}
                             /\ blocks[(b + 1) % B].state = "clean"}

Initialized ==
    /\ pc = "settle"
    /\ Unclean = {}
    /\ CleanBlocks(blocks) # {}
    /\ wb' = IF LastInUse = {} THEN 0 ELSE Min(LastInUse)
    /\ blocks' = IF CleanBlocks(blocks) = Blocks
                 THEN SetState(blocks, 0, "used") ELSE blocks
    /\ gc' = /\ ItemCount(blocks', wb') = C
             /\ Cardinality(CleanBlocks(blocks')) < Reserved + 1
    /\ Return
    /\ UNCHANGED <<at, todo>>

-----------------------------------------------------------------------------
(* kv_item_set, kv_item_delete, kv_item_delete_by_prefix                   *)

\* Mutant: no collection is triggered before the write block is full.
PositionLate ==
    LET room == {b \in Blocks : HasRoom(b)} IN
    IF HasRoom(wb)
    THEN pc' = "write" /\ UNCHANGED <<blocks, wb, gc>>
    ELSE /\ room # {}
         /\ wb' = NextIn(wb, room)
         /\ blocks' = IF blocks[wb'].state = "clean"
                      THEN SetState(blocks, wb', "used") ELSE blocks
         /\ pc' = "write"
         /\ UNCHANGED gc

\* kv_calc_position: the write block, or the next that has room, a clean one
\* becoming a used one. With none, the loop that looks for one ends when it
\* is back at the write block, which it never is when that is block 0.
Position ==
    LET room == {b \in Blocks : HasRoom(b)} IN
    IF HasRoom(wb)
    THEN /\ gc' = /\ ItemCount(blocks, wb) + 1 = C
                  /\ Cardinality(CleanBlocks(blocks)) <= Reserved
         /\ pc' = "write"
         /\ UNCHANGED <<blocks, wb>>
    ELSE IF room # {}
    THEN /\ wb' = NextIn(wb, room)
         /\ blocks' = IF blocks[wb'].state = "clean"
                      THEN SetState(blocks, wb', "used") ELSE blocks
         /\ pc' = "write"
         /\ UNCHANGED gc
    ELSE /\ pc' = IF wb = 0 THEN "spin" ELSE "idle"
         /\ gc' = (wb # 0)
         /\ UNCHANGED <<blocks, wb>>

\* A set to the value the key has already does nothing.
Set(k, v) ==
    LET old == ItemsOf(blocks, k) IN
    /\ pc = "idle" /\ ~gc
    /\ old # {} => At(blocks, First(old)).val # v
    /\ Position
    /\ req' = IF pc' = "idle" THEN None ELSE [op |-> "set", key |-> k, val |-> v]
    /\ todo' = IF pc' = "write" /\ old # {} THEN {First(old)} ELSE {}
    /\ UNCHANGED <<at, store>>

\* Mutant: the new item does not name the one it replaces.
WriteNoOrigin ==
    /\ pc = "write"
    /\ blocks' = Put(blocks, wb, [key |-> req.key, val |-> req.val, ok |-> TRUE,
                                  origin |-> None])
    /\ IF todo = {} THEN Return ELSE pc' = "unlink" /\ UNCHANGED <<store, req>>
    /\ UNCHANGED <<wb, gc, at, todo>>

\* kv_item_store
Write ==
    /\ pc = "write"
    /\ blocks' = Put(blocks, wb, [key |-> req.key, val |-> req.val, ok |-> TRUE,
                        origin |-> IF todo = {} THEN None ELSE First(todo)])
    /\ IF todo = {} THEN Return ELSE pc' = "unlink" /\ UNCHANGED <<store, req>>
    /\ UNCHANGED <<wb, gc, at, todo>>

\* kv_item_delete of the first item, kv_item_delete_by_prefix of all.
Delete(ks, ps) ==
    /\ pc = "idle" /\ ~gc
    /\ ps # {}
    /\ todo' = ps
    /\ req' = [op |-> "delete", keys |-> ks]
    /\ pc' = "unlink"
    /\ UNCHANGED <<blocks, wb, gc, at, store>>

DeleteKey(k) == LET ps == ItemsOf(blocks, k)
                IN Delete({k}, IF ps = {} THEN {} ELSE {First(ps)})
DeletePrefix(ks) == Delete(ks, {p \in Live(blocks) : At(blocks, p).key \in ks})

Unlink ==
    /\ pc = "unlink"
    /\ blocks' = Kill(blocks, First(todo))
    /\ pc' = "mark"
    /\ UNCHANGED <<wb, gc, at, todo, store, req>>

MarkDirty ==
    /\ pc = "mark"
    /\ blocks' = Mark(blocks, First(todo)[1])
    /\ todo' = todo \ {First(todo)}
    /\ IF todo' = {} THEN Return ELSE pc' = "unlink" /\ UNCHANGED <<store, req>>
    /\ UNCHANGED <<wb, gc, at>>

-----------------------------------------------------------------------------
(* kv_gc_task                                                              *)

Collect ==
    LET dirty == {b \in Blocks : blocks[b].state = "dirty"} IN
    /\ pc = "idle" /\ gc
    /\ IF CleanBlocks(blocks) # {} /\ dirty # {}
       THEN /\ wb' = Min(CleanBlocks(blocks))
            /\ at' = <<NextIn(wb, dirty), 1>>
            /\ pc' = "copy"
            /\ UNCHANGED gc
       ELSE gc' = FALSE /\ UNCHANGED <<wb, at, pc>>
    /\ UNCHANGED <<blocks, todo, store, req>>

\* The items of the dirty block that have not been looked at.
Left == {p \in Live(blocks) : p[1] = at[1] /\ p[2] >= at[2]}

\* __item_gc_cb
Copy ==
    /\ pc = "copy"
    /\ Left # {}
    /\ blocks' = Put(blocks, wb, At(blocks, First(Left)))
    /\ at' = <<at[1], First(Left)[2] + 1>>
    /\ UNCHANGED <<wb, gc, pc, todo, store, req>>

\* kv_block_format: the block is erased ...
Erase ==
    /\ pc = "copy"
    /\ Left = {}
    /\ blocks' = Format(blocks, at[1], Erased)
    /\ pc' = "header"
    /\ UNCHANGED <<wb, gc, at, todo, store, req>>

\* ... and gets its header.
Header ==
    /\ pc = "header"
    /\ blocks' = Format(blocks, at[1], Clean)
    /\ pc' = "used"
    /\ UNCHANGED <<wb, gc, at, todo, store, req>>

Collected ==
    /\ pc = "used"
    /\ blocks' = SetState(blocks, wb, "used")
    /\ gc' = FALSE
    /\ Return
    /\ UNCHANGED <<wb, at, todo>>

-----------------------------------------------------------------------------
(* Loss of power.                                                          *)

\* What an item whose writing is cut short leaves behind: nothing, one with a
\* wrong checksum, or one with a header that is not that of a valid item.
Torn(bs, key) ==
    {bs, Put(bs, wb, Deleted),
     Put(bs, wb, [key |-> key, val |-> None, origin |-> None, ok |-> FALSE])}

\* The copied block holds an item that an earlier collection has brought to
\* the very place of the item it once replaced.
AtHome == pc = "copy" /\ \E p \in Live(blocks) :
                            p[1] = at[1] /\ At(blocks, p).origin = p

PowerFailure ==
    /\ (IF AtHome THEN CopyHome ELSE pc) \in PowerFails
    /\ blocks' \in CASE pc = "write" -> Torn(blocks, req.key)
                     [] pc = "copy" /\ Left # {} ->
                            Torn(blocks, At(blocks, First(Left)).key)
                     [] OTHER -> {blocks}
    /\ pc' = "scan"
    /\ at' = <<0, 1>>
    /\ wb' = 0
    /\ gc' = FALSE
    /\ todo' = {}
    /\ UNCHANGED <<store, req>>

-----------------------------------------------------------------------------

Boot == ScanFormat \/ ScanItem \/ ScanNext \/ Settle \/ SettleClean \/ Initialized

Calls == \/ \E k \in Keys : DeleteKey(k) \/ \E v \in Vals : Set(k, v)
         \/ \E ks \in PrefixSets : DeletePrefix(ks)

Work == Write \/ Unlink \/ MarkDirty

Collection == Collect \/ Copy \/ Erase \/ Header \/ Collected

Next == Boot \/ Calls \/ Work \/ Collection \/ PowerFailure

Spec == Init /\ [][Next]_vars

-----------------------------------------------------------------------------
(* Properties.                                                             *)

\* The store keeps its promise: see KvStore. A call that returns has taken
\* effect, collections change nothing that a get returns, and after a loss of
\* power, whenever it happens, the call that was under way has taken effect or
\* has not.
KeepsStore == Promise!Spec

\* When no call is under way, a key has one item at most, every item is
\* sound, and the clean blocks are empty.
OneItemPerKey ==
    pc = "idle" =>
        /\ Unclean = {}
        /\ \A p \in Live(blocks) : At(blocks, p).ok
        /\ \A p, q \in Live(blocks) : At(blocks, p).key = At(blocks, q).key => p = q

\* Whatever becomes of a store without room, and at whatever step the power
\* fails: a call may lose values then, but no key gets back a value that was
\* replaced or deleted, nor one of another key.
Requested(k) ==
    IF req # None /\ req.op = "set" /\ req.key = k THEN {req.val} ELSE {}
NothingComesBack ==
    [][\A k \in Keys : store'[k] \in {store[k], None} \cup Requested(k)]_vars

\* "the reserved block for garbage collection" (KV_RESERVED_BLOCKS): sets
\* leave a clean block.
ReserveKept == pc = "idle" => CleanBlocks(blocks) # {}
=============================================================================
