----------------------------- MODULE MCWmReport -----------------------------
(* Instances of WmReport for TLC: priorities as in source/wiced_iperf.c.   *)
EXTENDS WmReport, TLC

CONSTANTS demo, gui

MCTwo == {demo, gui}
MCPriority == [p \in Procs |-> CASE p = demo -> 3 [] p = gui -> 2]
=============================================================================
