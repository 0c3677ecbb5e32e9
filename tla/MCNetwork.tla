----------------------------- MODULE MCNetwork ------------------------------
(* Two callers, one above and one below the TCP/IP thread, as the web      *)
(* camera's send task and the main task are.                               *)
EXTENDS Network
CONSTANTS send, main
MCApps   == {send, main}
MCPrio   == [t \in Apps \cup {"tcpip"} |-> CASE t = send -> 2 [] t = main -> 11
                                            [] OTHER -> 5]
MCCyclic == {"arp"}
MCPeriod == [arp |-> 2, tcp |-> 1]
MCPeriod1 == [arp |-> 1, tcp |-> 1]
=============================================================================
