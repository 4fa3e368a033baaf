-------------------------- MODULE MCWorkspaceApply --------------------------
(* One operation of each type. *)
EXTENDS WorkspaceApply

MCType == [p \in 1 .. Paths |-> IF p = 1 THEN "ADD" ELSE IF p = 2 THEN "MODIFY" ELSE "DELETE"]
=============================================================================
