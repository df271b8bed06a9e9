----------------------------- MODULE MCLighting -----------------------------
(* Instances of Lighting for TLC: full brightness is four steps.           *)
EXTENDS Lighting

MCRequests == 0 .. Full + 1
=============================================================================
