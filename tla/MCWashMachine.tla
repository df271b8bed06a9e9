--------------------------- MODULE MCWashMachine ----------------------------
(* Instances of WashMachine for TLC: a minute of two counts, and an hour of *)
(* four minutes, of which the longest program with drying takes three.      *)
EXTENDS WashMachine, TLC

MCPhases == 0 :> 2 @@ 1 :> 4
=============================================================================
