---------------------------- MODULE AgentContract ----------------------------
(***************************************************************************)
(* What AgentAdapter (agent-adapter.ts) promises of one request for a      *)
(* review, whatever program answers it: one outcome; of the session that   *)
(* was to be resumed, or of none; and no answer any more once the adapter  *)
(* has agreed to stop.  A daemon that ends forgets the request.            *)
(***************************************************************************)
CONSTANTS Session, None

VARIABLES asked,     \* there is a request
          wanted,    \* the session that it is to resume, if any
          stopping,  \* a stop was agreed to and is yet to be reported
          outcome    \* of the last request

vars == <<asked, wanted, stopping, outcome>>

Kind        == {"COMPLETED", "FAILED", "TIMED_OUT", "CANCELED"}
Interrupted == {"TIMED_OUT", "CANCELED"}

Outcome == [kind : Kind, session : Session \cup {None}]

Idle == ~asked /\ wanted = None /\ stopping = FALSE /\ outcome = None

Init == Idle

Request ==
    /\ ~asked /\ asked' = TRUE /\ wanted' \in Session \cup {None}
    /\ UNCHANGED <<stopping, outcome>>

AgreeToStop ==
    /\ asked /\ outcome = None /\ ~stopping
    /\ stopping' = TRUE /\ UNCHANGED <<asked, wanted, outcome>>

\* A stop may be agreed to and reported at once.
Settle ==
    /\ asked /\ outcome = None
    /\ outcome' \in Outcome
    /\ stopping => outcome'.kind \in Interrupted
    /\ wanted # None => outcome'.session \in {wanted, None}
    /\ outcome'.kind = "COMPLETED" => outcome'.session # None
    /\ stopping' = FALSE /\ UNCHANGED <<asked, wanted>>

\* The runner has the outcome, or is gone.
Forget == asked /\ Idle'

Next == Request \/ AgreeToStop \/ Settle \/ Forget

Spec == Init /\ [][Next]_vars
=============================================================================
