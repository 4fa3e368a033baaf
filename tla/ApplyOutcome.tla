---------------------------- MODULE ApplyOutcome ----------------------------
(***************************************************************************)
(* What publishing relies on in the workspace adapter (PublishStage!Apply, *)
(* publish-service.ts): one apply stores at most one result, stores it     *)
(* before it reports it, and when it throws there is none.  A crash leaves *)
(* what was stored.  COMMITTED is stored only when the candidate is in the *)
(* project, CONFLICT and UNKNOWN only when no part of it is, and so it     *)
(* stays while the apply goes on.  Paths that the user changes after the   *)
(* adapter has looked at them are the user's.                              *)
(***************************************************************************)
VARIABLES result, call,
          complete,     \* the project has all of the candidate
          untouched     \* the project has no part of the candidate

vars == <<result, call, complete, untouched>>

Init == /\ result = "none" /\ call = "running"
        /\ complete = FALSE /\ untouched = TRUE

\* What a stored result says of the project.
IsTrue(status, all, none) ==
    /\ status = "COMMITTED" => all
    /\ status \in {"CONFLICT", "UNKNOWN"} => none

\* The adapter writes, or the user edits.
Change ==
    /\ call = "running"
    /\ complete' \in BOOLEAN /\ untouched' \in BOOLEAN
    /\ IsTrue(result, complete', untouched')
    /\ UNCHANGED <<result, call>>

Store ==
    /\ call = "running" /\ result = "none"
    /\ result' \in {"COMMITTED", "CONFLICT", "PARTIAL", "UNKNOWN"}
    /\ IsTrue(result', complete, untouched)
    /\ UNCHANGED <<call, complete, untouched>>

End ==
    /\ call = "running"
    /\ \/ result # "none" /\ call' = "returned"
       \/ result = "none" /\ call' = "thrown"
       \/ call' = "crashed"
    /\ UNCHANGED <<result, complete, untouched>>

Spec == Init /\ [][Change \/ Store \/ End]_vars
=============================================================================
