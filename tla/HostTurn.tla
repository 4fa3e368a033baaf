------------------------------ MODULE HostTurn ------------------------------
(***************************************************************************)
(* The turns of a run's conversation: who may answer when the run pauses.  *)
(* Hosts poll and answer with smartflow_review_turn                        *)
(* (host-turn-coordinator.ts), and cancel and resume from outside          *)
(* (project-runtime.ts), while the daemon's own tasks pause the run, review *)
(* it and go on with it.  Several hosts may know the run, a request may be *)
(* repeated, and an answer may come late.                                  *)
(*                                                                         *)
(* A question stands for its turn token, which is a hash of the request    *)
(* that first met the pause, its host, and the pause code.  The tasks of   *)
(* the run are reduced to what they do to its phase and its turn; what     *)
(* drives them is in RunLifecycle.                                         *)
(***************************************************************************)
EXTENDS Naturals

CONSTANTS Host,        \* hostTurnIds of clients
          Request,     \* request ids; one may be sent again
          HostOf,      \* whose request it is
          NoTurn,      \* no hostTurn
          ReviewTurn,  \* the daemon reviewer's, AWAITING_REVIEW
          Pauses       \* bound: how often the run still pauses

VARIABLES phase,    \* of the run, "working" being all that are not named here
          pause,    \* code of the pause
          turn,     \* hostTurn: NoTurn, ReviewTurn, or an open question
          ending,   \* an attempt has ended whose process tree is yet to be checked
          recovering, \* a restarted daemon has yet to recover the run
          call,     \* what a request is about to commit
          current,  \* requests whose snapshot is still the document's stateVersion
          asked,    \* processedRequests of questions
          answered, \* processedRequests of answers
          timely,   \* history: the requests under way that have been given as an
                    \* answer since the open question was opened
          pauses

vars == <<phase, pause, turn, ending, recovering, call, current, asked, answered,
          timely, pauses>>

\* What each pause lists, inspect_* markers left out.  RECOVERY_BLOCKED is any
\* reason of RecoveryManager.pause.
ResumeActions ==
    [ATTEMPT_FAILED          |-> {"retry_provider", "cancel"},
     CONTAINMENT_REQUIRED    |-> {"cancel"},
     STAGE_FAILED            |-> {"retry", "cancel"},
     HOST_REVIEW_UNAVAILABLE |-> {"retry_host_review", "cancel"},
     APPROVED_SOURCE_DRIFT   |-> {"restore_approved_tasks", "cancel"},
     AUTOMATIC_REPAIR_LIMIT  |-> {"resume_review_decision", "cancel"},
     PRECHECK_CONFLICT       |-> {"retry_publish", "confirm_manual_publish", "cancel"},
     PROCESS_RECONCILIATION  |-> {"retry_cancel", "cancel"},
     RECOVERY_BLOCKED        |-> {"cancel"}]
PauseCode == DOMAIN ResumeActions
Answer    == UNION {ResumeActions[c] : c \in PauseCode}
Phase     == {"working", "reviewing", "paused", "canceling", "ended"}

\* AWAITING_USER_INPUT, with its token.
Question == [request : Request, owner : Host, code : PauseCode]

ASSUME TurnAssumption ==
    /\ HostOf \in [Request -> Host] /\ Pauses \in Nat
    /\ NoTurn \notin Question /\ ReviewTurn \notin Question /\ NoTurn # ReviewTurn

Idle == [kind |-> "idle", question |-> NoTurn, answer |-> "none"]
Call == [kind : {"idle", "ask", "answer", "cancel"}, question : Question \cup {NoTurn},
         answer : Answer \cup {"none"}]

\* The answers with a route; retry has none.  (What some routes ask of the attempt,
\* the review action and the publish record is in RunLifecycle.)
Accepted(a) == a \in ResumeActions[pause] /\ a # "retry"

\* mutableResumeActions
Listed == IF pause = "none" THEN {"cancel"} ELSE ResumeActions[pause]
PhaseAfter(a) == IF a \in {"cancel", "retry_cancel"} THEN "canceling" ELSE "working"

Init ==
    /\ phase = "working" /\ pause = "none" /\ turn = NoTurn
    /\ ending = FALSE /\ recovering = FALSE
    /\ call = [r \in Request |-> Idle] /\ current = {}
    /\ asked = {} /\ answered = {} /\ timely = {}
    /\ pauses = Pauses

-----------------------------------------------------------------------------
(* Requests *)

Receives(r, c) == call[r] = Idle /\ call' = [call EXCEPT ![r] = c]
Returns(r)     == call' = [call EXCEPT ![r] = Idle]

\* What hosts and daemon have said to each other.
Conversation == <<call, asked, answered, timely>>

\* The turn is nobody's: no answer under way is one to an open question.
Closes == turn' = NoTurn /\ timely' = {}

\* A commit makes every snapshot of the document an old one.
Commits == current' = {}

\* requireUserInput has read a paused run without a turn.  (If a question is open
\* already, its owner is shown it once more; every other host is refused, and
\* so is every host during the daemon's turn.)
Poll(r) ==
    /\ phase = "paused" /\ turn = NoTurn
    /\ Receives(r, [kind     |-> "ask",
                    question |-> [request |-> r, owner |-> HostOf[r], code |-> pause],
                    answer   |-> "none"])
    /\ current' = current \cup {r}
    /\ UNCHANGED <<phase, pause, turn, ending, recovering, asked, answered, timely, pauses>>

\* Faulty: whatever the version, a run that is paused gets the question.
AskUnversioned(r) ==
    LET q == call[r].question IN
    /\ call[r].kind = "ask" /\ phase = "paused" /\ q \notin asked
    /\ turn' = q /\ asked' = asked \cup {q}
    /\ Returns(r) /\ timely' = {} /\ Commits
    /\ UNCHANGED <<phase, pause, ending, recovering, answered, pauses>>

\* Faulty: the receipt of the request is not looked at.
AskRepeatedly(r) ==
    LET q == call[r].question IN
    /\ call[r].kind = "ask" /\ r \in current /\ phase = "paused"
    /\ turn' = q /\ asked' = asked \cup {q}
    /\ Returns(r) /\ timely' = {} /\ Commits
    /\ UNCHANGED <<phase, pause, ending, recovering, answered, pauses>>

\* persistHostTurn and USER_INPUT_REQUIRED.  The payload holds the time, so that a
\* request which has been a question before is refused as a reused key.
Ask(r) ==
    LET q == call[r].question IN
    /\ call[r].kind = "ask" /\ r \in current /\ phase = "paused" /\ q \notin asked
    /\ turn' = q /\ asked' = asked \cup {q}
    /\ Returns(r) /\ timely' = {} /\ Commits
    /\ UNCHANGED <<phase, pause, ending, recovering, answered, pauses>>

\* submitAnswer has read the state: the token is that of the open question, and
\* the answer is one that the pause lists now.
SubmitAnswer(r) ==
    /\ turn \in Question /\ turn.owner = HostOf[r]
    /\ \E a \in Listed : Receives(r, [kind |-> "answer", question |-> turn, answer |-> a])
    /\ current' = current \cup {r} /\ timely' = timely \cup {r}
    /\ UNCHANGED <<phase, pause, turn, ending, recovering, asked, answered, pauses>>

\* Faulty: the run goes on with its pause.
ContinuePaused(a) ==
    /\ phase' = PhaseAfter(a) /\ UNCHANGED pause
    /\ ending' = (ending /\ PhaseAfter(a) = "canceling")
    /\ Commits

\* The run goes on as the answer says.
Continue(a) ==
    /\ phase' = PhaseAfter(a) /\ pause' = "none"
    /\ ending' = (ending /\ PhaseAfter(a) = "canceling")
    /\ Commits

\* Faulty: resume leaves the turn as it is.
ApplyAnswerOnly(r) ==
    LET q == call[r].question  a == call[r].answer IN
    /\ call[r].kind = "answer" /\ a # "resume_review_decision"
    /\ phase = "paused" /\ turn \in {q, NoTurn}
    /\ [question |-> q, answer |-> a] \notin answered
    /\ Accepted(a) /\ Continue(a)
    /\ answered' = answered \cup {[question |-> q, answer |-> a]}
    /\ Returns(r)
    /\ UNCHANGED <<turn, recovering, asked, timely, pauses>>

\* resume() with clearHostTurn and expectedHostTurnToken.  assertHostTurnAuthority
\* lets the answer pass also when there is no turn any more.
ApplyAnswer(r) ==
    LET q == call[r].question  a == call[r].answer IN
    /\ call[r].kind = "answer" /\ a # "resume_review_decision"
    /\ phase = "paused" /\ turn \in {q, NoTurn}
    /\ [question |-> q, answer |-> a] \notin answered
    /\ Accepted(a) /\ Continue(a)
    /\ Closes
    /\ answered' = answered \cup {[question |-> q, answer |-> a]}
    /\ Returns(r)
    /\ UNCHANGED <<recovering, asked, pauses>>

\* resumeReviewDecision: the stored review is decided on once more, with the
\* rounds of repair counted from the beginning.
ResumeReviewDecision(r) ==
    LET q == call[r].question IN
    /\ call[r].kind = "answer" /\ call[r].answer = "resume_review_decision"
    /\ r \in current /\ phase = "paused" /\ turn = q /\ pause = "AUTOMATIC_REPAIR_LIMIT"
    /\ [question |-> q, answer |-> "resume_review_decision"] \notin answered
    /\ Continue("resume_review_decision")
    /\ Closes
    /\ answered' = answered \cup {[question |-> q, answer |-> "resume_review_decision"]}
    /\ Returns(r)
    /\ UNCHANGED <<recovering, asked, pauses>>

\* smartflow_resume by whomever: refused while anybody's turn is open.
Resume ==
    /\ phase = "paused" /\ turn = NoTurn
    /\ \E a \in Answer : Accepted(a) /\ Continue(a)
    /\ UNCHANGED <<turn, recovering, Conversation, pauses>>

\* smartflow_cancel arrives; it reads nothing before it commits.
RequestCancel(r) ==
    /\ Receives(r, [Idle EXCEPT !.kind = "cancel"])
    /\ UNCHANGED <<phase, pause, turn, ending, recovering, current, asked, answered,
                   timely, pauses>>

\* assertCancelAuthority: the owner of the question, or anybody when none is open.
Cancel(r) ==
    /\ call[r].kind = "cancel" /\ phase # "ended"
    /\ turn \in Question => turn.owner = HostOf[r]
    /\ phase' = "canceling" /\ pause' = "none" /\ Closes
    /\ Returns(r) /\ Commits
    /\ UNCHANGED <<ending, recovering, asked, answered, pauses>>

\* A request that is refused, replayed or fails ends and changes nothing.
Refuse(r) ==
    /\ call[r] # Idle /\ Returns(r)
    /\ current' = current \ {r} /\ timely' = timely \ {r}
    /\ UNCHANGED <<phase, pause, turn, ending, recovering, asked, answered, pauses>>

-----------------------------------------------------------------------------
(* The daemon's tasks *)

PausesWith(c) == phase' = "paused" /\ pause' = c /\ pauses > 0 /\ pauses' = pauses - 1

\* The worker's attempt completes, or fails and pauses the run.  Its tree is
\* checked later.
AttemptEnds ==
    /\ phase = "working" /\ ~ending /\ ending' = TRUE
    /\ PausesWith("ATTEMPT_FAILED") \/ UNCHANGED <<phase, pause, pauses>>
    /\ Commits /\ UNCHANGED <<turn, recovering, Conversation>>

\* reconcileContainment cannot prove the tree empty: it pauses, or changes the
\* reason of a pause that somebody may have been asked about.
TreeUnknown ==
    /\ ending /\ ending' = FALSE
    /\ phase \in {"working", "paused"}
    /\ phase' = "paused" /\ pause' = "CONTAINMENT_REQUIRED"
    /\ Commits /\ UNCHANGED <<turn, recovering, Conversation, pauses>>

TreeEmpty ==
    /\ ending /\ ending' = FALSE
    /\ UNCHANGED <<phase, pause, turn, recovering, Conversation, current, pauses>>

PublishConflicts ==
    /\ phase = "working" /\ ~ending /\ PausesWith("PRECHECK_CONFLICT")
    /\ Commits /\ UNCHANGED <<turn, ending, recovering, Conversation>>

BeginReview ==
    /\ phase = "working" /\ ~ending /\ phase' = "reviewing" /\ turn' = ReviewTurn
    /\ Commits /\ UNCHANGED <<pause, ending, recovering, Conversation, pauses>>

\* finalizeReview: accepted or to be repaired.
ReviewDone ==
    /\ phase = "reviewing" /\ turn = ReviewTurn
    /\ phase' = "working" /\ turn' = NoTurn
    /\ Commits /\ UNCHANGED <<pause, ending, recovering, Conversation, pauses>>

\* Faulty: the run is paused in the daemon's turn.
ReviewPausesInTurn ==
    /\ phase = "reviewing" /\ turn = ReviewTurn
    /\ \E c \in {"AUTOMATIC_REPAIR_LIMIT", "HOST_REVIEW_UNAVAILABLE", "APPROVED_SOURCE_DRIFT"} :
         PausesWith(c)
    /\ Commits /\ UNCHANGED <<turn, ending, recovering, Conversation>>

\* The repair limit, no reviewer, or another task source: the daemon takes its
\* turn back, so that a host can be asked.
ReviewPauses ==
    /\ phase = "reviewing" /\ turn = ReviewTurn
    /\ \E c \in {"AUTOMATIC_REPAIR_LIMIT", "HOST_REVIEW_UNAVAILABLE", "APPROVED_SOURCE_DRIFT"} :
         PausesWith(c)
    /\ turn' = NoTurn
    /\ Commits /\ UNCHANGED <<ending, recovering, Conversation>>

\* pauseFailure of a task with another key than review, which may have walked on
\* into the review: the turn stays.
StageFails ==
    /\ phase \in {"working", "reviewing"} /\ PausesWith("STAGE_FAILED")
    /\ Commits /\ UNCHANGED <<turn, ending, recovering, Conversation>>

CancelBlocked ==
    /\ phase = "canceling" /\ PausesWith("PROCESS_RECONCILIATION")
    /\ Commits /\ UNCHANGED <<turn, ending, recovering, Conversation>>

\* COMPLETED or CANCELED.
Ends ==
    /\ phase \in {"working", "canceling"} /\ phase' = "ended"
    /\ Commits /\ UNCHANGED <<pause, turn, ending, recovering, Conversation, pauses>>

\* The daemon ends and another one starts: requests and tasks are lost.  It sets
\* out to recover the run, unless a question is open.
Restart ==
    /\ call' = [r \in Request |-> Idle] /\ timely' = {} /\ ending' = FALSE
    /\ recovering' = (phase # "ended" /\ turn \notin Question)
    /\ Commits /\ UNCHANGED <<phase, pause, turn, asked, answered, pauses>>

\* RecoveryManager.pause: the artifacts of the run do not fit, or what its worker or
\* its publisher did is not known.  Also a pause is given the new reason, and a
\* review is paused in the daemon's turn.
RecoveryPauses ==
    /\ recovering /\ recovering' = FALSE
    /\ phase \in {"working", "reviewing", "paused"} /\ PausesWith("RECOVERY_BLOCKED")
    /\ Commits /\ UNCHANGED <<turn, ending, Conversation>>

\* The run needs no pause: it is left as it is, or goes on in its phase.
Recovered ==
    /\ recovering /\ recovering' = FALSE
    /\ UNCHANGED <<phase, pause, turn, ending, Conversation, current, pauses>>

\* Another run of the project commits.
OtherRuns ==
    /\ Commits /\ UNCHANGED <<phase, pause, turn, ending, recovering, Conversation, pauses>>

-----------------------------------------------------------------------------

Client(r) ==
    \/ Poll(r) \/ Ask(r) \/ SubmitAnswer(r) \/ ApplyAnswer(r) \/ ResumeReviewDecision(r)
    \/ RequestCancel(r) \/ Cancel(r) \/ Refuse(r)

Daemon ==
    \/ AttemptEnds \/ TreeUnknown \/ TreeEmpty \/ PublishConflicts \/ BeginReview
    \/ ReviewDone \/ ReviewPauses \/ StageFails \/ CancelBlocked \/ Ends
    \/ Restart \/ RecoveryPauses \/ Recovered \/ OtherRuns

Next == (\E r \in Request : Client(r)) \/ Resume \/ Daemon

Spec == Init /\ [][Next]_vars

-----------------------------------------------------------------------------

\* The types of the state; a pause has a code, and a run that goes on has none.
TypeOK ==
    /\ phase \in Phase /\ pause \in PauseCode \cup {"none"}
    /\ phase = "paused" <=> pause # "none"
    /\ turn \in Question \cup {NoTurn, ReviewTurn}
    /\ ending \in BOOLEAN /\ recovering \in BOOLEAN
    /\ call \in [Request -> Call] /\ current \subseteq Request /\ timely \subseteq Request
    /\ asked \subseteq Question
    /\ answered \subseteq [question : Question, answer : Answer]
    /\ pauses \in 0 .. Pauses

\* Whoever pauses, resumes, cancels or reviews the run: a question is open only
\* while the run is paused, and the daemon's turn covers the whole of a review,
\* which review-runner.ts and recovery-manager.ts rely on.
TurnsFollowPhases ==
    /\ turn \in Question => phase = "paused"
    /\ phase = "reviewing" => turn = ReviewTurn
    /\ turn = ReviewTurn => phase \in {"reviewing", "paused"}

\* An open question ends only with a request of its owner, which answers this very
\* question or cancels the run; no other host, second poll, earlier answer,
\* resume from outside, task or restart removes or replaces it.
OwnerDecides ==
    [][turn' # turn /\ turn \in Question =>
         /\ turn' = NoTurn /\ phase' # "paused"
         /\ \E r \in Request :
              /\ HostOf[r] = turn.owner /\ call'[r] = Idle
              /\ call[r].kind = "answer" => call[r].question = turn]_vars

\* An answer ends the question it was given to: no answer that was under way when
\* its question ended (by another answer, a cancellation) is taken for one to a
\* question that was opened later, of which the run may know the same pause code
\* and the same request.  (When no question is open by then, the code applies it to
\* whatever the run is paused for.)
AnswersAreTimely ==
    [][\A r \in Request :
         turn \in Question /\ turn' # turn /\ call[r].kind = "answer" /\ call'[r] = Idle
           => r \in timely]_vars

\* A paused run can be asked about: whatever pauses a review gives the daemon's turn
\* back, except a failing task that was not scheduled as a review (pauseFailure) and
\* the recovery after a restart (RecoveryManager.pause); no host can then be asked,
\* and only smartflow_cancel gets the run out.
PausedCanBeAsked ==
    phase = "paused" /\ turn = ReviewTurn =>
        pause \in {"STAGE_FAILED", "RECOVERY_BLOCKED"} /\ ~ending
=============================================================================
