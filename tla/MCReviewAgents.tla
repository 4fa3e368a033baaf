--------------------------- MODULE MCReviewAgents ---------------------------
(* Instances of ReviewAgents for TLC. *)
EXTENDS ReviewAgents
=============================================================================
