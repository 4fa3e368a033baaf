---------------------------- MODULE MCContainment ----------------------------
(* Containment for TLC. *)
EXTENDS Containment
=============================================================================
