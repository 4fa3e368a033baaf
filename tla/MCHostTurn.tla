----------------------------- MODULE MCHostTurn -----------------------------
(* Instances of HostTurn for TLC: two requests of one host, one of another. *)
EXTENDS HostTurn, TLC

CONSTANTS h1, h2, r1, r2, r3

MCHostOf == (r1 :> h1) @@ (r2 :> h1) @@ (r3 :> h2)
=============================================================================
