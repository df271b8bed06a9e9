----------------------------- MODULE MCLinkkit ------------------------------
(* Instances of Linkkit for TLC: priorities as in source/wiced_iperf.c.    *)
EXTENDS Linkkit

CONSTANTS demo, gui

MCProcs == {demo, gui}
MCPriority == [p \in Procs |-> CASE p = demo -> 3 [] p = gui -> 2]
=============================================================================
