-------------------------- MODULE MCStateMutation --------------------------
(* Instances of StateMutation for TLC. *)
EXTENDS StateMutation, TLC

CONSTANTS d1, d2, d3,            \* process instances
          e1, e2, e3,            \* their runtime-epoch requests
          submit, other,         \* a publish hand-over; a request that reuses
                                 \* its id, under CURRENT_EPOCH in some runs
          k1, k2, k3, kSubmit

\* The requestId of each request of an instance.
Keys == (e1 :> k1) @@ (e2 :> k2) @@ (e3 :> k3) @@ (submit :> kSubmit) @@ (other :> kSubmit)
MCKeyOf == [r \in Request |-> Keys[r]]

MCEpochRequestOf == [d \in Daemon |-> ((d1 :> e1) @@ (d2 :> e2) @@ (d3 :> e3))[d]]

\* All on one host; or the second process on another one, which shares the
\* data directory.  The third process has the pid of the first.
OneHost  == [d \in Daemon |-> "h1"]
TwoHosts == [d \in Daemon |-> IF d = d2 THEN "h2" ELSE "h1"]
Pids     == [d \in Daemon |-> IF d = d2 THEN 2 ELSE 1]
=============================================================================
