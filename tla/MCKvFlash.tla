----------------------------- MODULE MCKvFlash ------------------------------
(* Instances of KvFlash for TLC: three blocks, one of them the reserve. *)
EXTENDS KvFlash, TLC

KeysAndVals == Permutations(Keys) \cup Permutations(Vals)

NoKeys == {}
AllKeys == {Keys}

AllSteps == Steps \cup {CopyHome}
NotAtHome == Steps
=============================================================================
