--------------------------- MODULE MCRunLifecycle ---------------------------
(***************************************************************************)
(* RunLifecycle for TLC: the keys, phases and points are strings of the    *)
(* specification, the limits and bounds are given in the configurations.   *)
(***************************************************************************)
EXTENDS RunLifecycle
=============================================================================
