---------------------------- MODULE MCWifiConfig ----------------------------
(* Instances of WifiConfig for TLC: priorities as in source/wiced_iperf.c   *)
(* and common_drivers/shell.c, letters are numbers. The second name begins  *)
(* like the first one, and is longer.                                       *)
EXTENDS WifiConfig

MCTasks == {Shell, Demo}
MCPriority == [t \in Tasks |-> CASE t = Demo -> 3 [] t = Shell -> 1]
MCKeys == {"wifi_ssid", "wifi_key", "session"}
MCMark == 255

MCConfigs == {<<<<1, 2>>, <<1, 2>>>>, <<<<1, 2, 3>>, <<3, 2>>>>}
MCNetworks == {<<<<1, 2, 3>>, <<3, 2>>>>}
MCSessions == {<<1>>, <<2>>}
MCVals == {<<255>>} \cup MCSessions \cup {c[1] : c \in MCConfigs} \cup {c[2] : c \in MCConfigs}
=============================================================================
