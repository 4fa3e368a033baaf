---------------------------- MODULE MCDaemonLock ----------------------------
(* Instances of DaemonLock for TLC: the fourth gets the pid of the first.  *)
EXTENDS DaemonLock

CONSTANTS d1, d2, d3, d4

MCPidOf == [d \in Daemon |-> IF d = d4 THEN d1 ELSE d]
=============================================================================
