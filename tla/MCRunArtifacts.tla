--------------------------- MODULE MCRunArtifacts ---------------------------
(* Instances of RunArtifacts for TLC: trees and reviewers are model values. *)
EXTENDS RunArtifacts

CONSTANTS t0, t1, t2, r1, r2
=============================================================================
