----------------------------- MODULE MCWmTimer ------------------------------
(* Instances of WmTimer for TLC: priorities as in source/wiced_iperf.c.    *)
EXTENDS WmTimer, TLC

CONSTANTS demo, gui, tmr

MCTasks == {demo, gui}
MCPriority == tmr :> 4 @@ demo :> 3 @@ gui :> 2
MCNames == {"finish_timer", "local_timer"}
MCSeconds == {-1, 1}
=============================================================================
