------------------------------ MODULE MCWorkers ------------------------------
(* Workers with the firmware's three sending contexts, their priorities     *)
(* (command_dispatch.c:67-75, manifest.c:231-236), for TLC.                 *)
EXTENDS Workers

MCThreads == {"sys", "cmd", "man"}
MCPrio == [t \in MCThreads |->
             CASE t = "sys" -> 2 [] t = "cmd" -> 1 [] t = "man" -> 0]
=============================================================================
