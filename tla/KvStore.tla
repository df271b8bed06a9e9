------------------------------ MODULE KvStore -------------------------------
(***************************************************************************)
(* What the key-value store of component/kv promises its callers, free of  *)
(* blocks, headers and garbage collection: a function from keys to values  *)
(* that outlives a loss of power. A call that returns has taken effect as  *)
(* a whole. One during which the power fails has taken effect or has not,  *)
(* once the store is initialized again; only the deletion of a prefix may  *)
(* be left half done. Nothing else changes what a get returns.             *)
(***************************************************************************)
EXTENDS Integers

CONSTANTS Keys, Vals,
          None,         \* a key that has no value; no request
          PrefixSets      \* the sets of keys that share a prefix

VARIABLES store,        \* key -> what kv_item_get returns
          req,          \* the call in progress, or that the power cut short
          down          \* the store is not initialized

vars == <<store, req, down>>

Requests == [op : {"set"}, key : Keys, val : Vals]
       \cup [op : {"delete"}, keys : {{k} : k \in Keys} \cup PrefixSets]

\* The store after a request that has gone as far as the keys ks.
Effect(r, ks) ==
    [k \in Keys |-> IF k \notin ks THEN store[k]
                    ELSE IF r.op = "set" THEN r.val ELSE None]

KeysOf(r) == IF r = None THEN {} ELSE IF r.op = "set" THEN {r.key} ELSE r.keys

Init == store = [k \in Keys |-> None] /\ req = None /\ down = TRUE

Call == ~down /\ req = None /\ req' \in Requests /\ UNCHANGED <<store, down>>

Return ==
    /\ ~down
    /\ req # None
    /\ store' = Effect(req, KeysOf(req))
    /\ req' = None
    /\ UNCHANGED down

\* The power fails ...
Fail == ~down /\ down' /\ UNCHANGED <<store, req>>

\* ... and the store is initialized again.
Restart ==
    /\ down /\ ~down'
    /\ \E ks \in SUBSET KeysOf(req) : store' = Effect(req, ks)
    /\ req' = None

Next == Call \/ Return \/ Fail \/ Restart

Spec == Init /\ [][Next]_vars
=============================================================================
