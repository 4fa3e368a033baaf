---------------------------- MODULE RunArtifacts ----------------------------
(***************************************************************************)
(* What the record of a run says about its evidence: the workspace         *)
(* snapshots, the worker sessions, the candidate, the review, the leader's *)
(* decision, the repair that is to be continued and the publish attempt.   *)
(* verifyRunArtifacts (recovery-manager.ts) judges whether they fit each   *)
(* other; a run that it refuses can no longer be read, resumed, reviewed,  *)
(* published or recovered.  The record is written piece by piece by the    *)
(* worker, the repair, the review, the publishing, clients and recovery.   *)
(*                                                                         *)
(* One mutate() call is one step, and only the task of the run that was    *)
(* scheduled last is followed: what several of them do to each other is in *)
(* RunLifecycle.  The files themselves are taken to be intact.             *)
(***************************************************************************)
EXTENDS Naturals, Sequences

CONSTANTS Tree,           \* what a worker can leave in the workspace
          Incomplete,     \* those that make an empty candidate
          Baseline,       \* the run's baseline snapshot
          Reviewer,       \* reviewer sessions
          None,
          ReviewEnabled,  \* resolveReviewEnabled(), the same for all processes
          RepairLimit,    \* REPAIR_ROUND_LIMIT
          Attempts        \* bound: worker attempts of the run

ASSUME ArtifactAssumption ==
    /\ Incomplete \subseteq Tree /\ Baseline \notin Tree
    /\ None \notin Tree \cup {Baseline} \cup Reviewer \cup (1 .. Attempts)
    /\ ReviewEnabled \in BOOLEAN /\ RepairLimit \in Nat \ {0} /\ Attempts \in Nat

VARIABLES run,       \* the run's record in the document
          task,      \* its background task: the key, and how many attempts there
                     \* were when it was scheduled
          up,        \* whether the daemon runs
          noticed,   \* the receipt of a drift of the approved tasks
          stray,     \* a review that was written to its file and not committed: of
                     \* the turn that is still the run's, or of an earlier one
          restored,  \* tasks were restored under a run that had a candidate
          misfiled   \* a failing worker was recorded as a failing review

vars == <<run, task, up, noticed, stray, restored, misfiled>>

Snapshot == Tree \cup {Baseline}
Id       == 1 .. Attempts

Terminal == {"COMPLETED", "CANCELED"}
Phase    == {"PREPARING", "RUNNING", "FIXING", "REVIEW_PENDING", "REVIEWING",
             "READY_TO_PUBLISH", "PUBLISHING", "CANCELING", "PAUSED"} \cup Terminal

\* PROBE_FAILED and ATTEMPT_FAILED stand for the codes with an answer that leads
\* back to the worker, CONTAINMENT_REQUIRED and RECOVERY_BLOCKED for those with none,
\* PUBLISH_BLOCKED and PUBLISH_CONFLICT for those of the publisher with and without
\* one, and STAGE_FAILED and PUBLISH_STAGE_FAILED for RUNTIME_STAGE_FAILED.
PublishPause == {"PUBLISH_BLOCKED", "PUBLISH_CONFLICT"}
RepairPause  == {"REPAIR_USER_APPROVAL_REQUIRED", "REPAIR_NO_PROGRESS"}
PauseCode == PublishPause \cup RepairPause \cup
    {"PROBE_FAILED", "ATTEMPT_FAILED", "CONTAINMENT_REQUIRED", "STAGE_FAILED",
     "PUBLISH_STAGE_FAILED", "HOST_REVIEW_UNAVAILABLE", "APPROVED_SOURCE_DRIFT",
     "AUTOMATIC_REPAIR_LIMIT", "PROCESS_RECONCILIATION", "RECOVERY_BLOCKED"}

Key == {"pipeline", "review", "publish", "cancel", "recover"}
Idle == [key |-> "none", seen |-> 0]

\* workerAttempts.  A session is named by the attempt that created it; tree is what
\* captureCandidate found in the workspace (the record has no such field).
Attempt == [status : {"RUNNING", "COMPLETED", "ENDED"}, session : Id, tree : Tree \cup {None}]

\* A review action, a review and its history entry are named by the attempt whose
\* candidate they are of: each candidate gets one review attempt id.
Action       == [id : Id, tree : Tree, session : Id, bound : Reviewer \cup {None}]
Review       == [id : Id, tree : Tree, session : Id, accept : BOOLEAN]
Decision     == [review : Id, decision : {"accept", "repair", "pause"}]
Entry        == [id : Id, tree : Tree, reviewer : Reviewer]
Continuation == [source : Id, session : Id, seed : Tree]
Publish      == [tree : Tree, review : Id \cup {None}]

ASSUME NoneAssumption == None \notin Action \cup Review \cup Decision

\* The workspace directory is bound or not; input is None before there is a
\* gitWorkspace; captured is its current.candidate.
Run == [phase : Phase, pause : PauseCode \cup {"none"}, attempts : Seq(Attempt),
        workspace : BOOLEAN, input : Snapshot \cup {None}, result : Tree \cup {None},
        captured : Tree \cup {None}, candidate : Tree \cup {None},
        action : Action \cup {None}, review : Review \cup {None},
        leader : Decision \cup {None}, history : SUBSET Entry,
        round : BOOLEAN, continuation : Continuation \cup {None},
        untrusted : Tree \cup {None}, resumeReview : BOOLEAN,
        rounds : 0 .. RepairLimit, publish : Publish \cup {None}]

-----------------------------------------------------------------------------
(* verifyRunArtifacts *)

Last == run.attempts[Len(run.attempts)]

Completed(id) == id \in DOMAIN run.attempts /\ run.attempts[id].status = "COMPLETED"

\* runArtifactInventory: what the phase or the pause requires.
CandidateRequired ==
    \/ run.phase \in {"FIXING", "REVIEW_PENDING", "REVIEWING", "READY_TO_PUBLISH",
                      "PUBLISHING", "COMPLETED"}
    \/ run.phase = "PAUSED"
       /\ run.pause \in PublishPause \cup RepairPause \cup {"HOST_REVIEW_UNAVAILABLE"}

InventoryComplete ==
    /\ CandidateRequired => run.candidate # None /\ run.input # None
    /\ run.phase = "RUNNING" => run.input # None
    /\ run.untrusted # None => run.untrusted = run.candidate

ContinuationBound ==
    run.continuation # None =>
      /\ run.result = None /\ run.round
      /\ run.continuation.seed = run.input
      /\ Completed(run.continuation.source)
      /\ run.attempts[run.continuation.source].session = run.continuation.session

CandidateBound ==
    IF run.candidate = None THEN run.captured = None
                            ELSE /\ run.captured = run.candidate
                                 /\ run.result = run.candidate

ReviewBound ==
    run.review # None =>
      /\ run.candidate = run.review.tree
      /\ \E e \in run.history : e.id = run.review.id /\ e.tree = run.review.tree
      /\ \E i \in DOMAIN run.attempts :
           Completed(i) /\ run.attempts[i].session = run.review.session

LeaderBound ==
    run.leader # None => run.review # None /\ run.leader.review = run.review.id

\* requiresPublishApproval.
ApprovalRequired ==
    /\ ReviewEnabled
    /\ \/ run.phase \in {"READY_TO_PUBLISH", "PUBLISHING", "COMPLETED"}
       \/ run.phase = "PAUSED" /\ run.pause \in PublishPause \cup {"PUBLISH_STAGE_FAILED"}

Approved ==
    /\ run.review # None /\ run.review.accept
    /\ run.leader # None /\ run.leader.decision = "accept"

PublishBound ==
    run.publish # None =>
      /\ run.candidate = run.publish.tree
      /\ ReviewEnabled => run.review # None /\ run.review.id = run.publish.review

Verifies ==
    /\ InventoryComplete /\ ContinuationBound /\ CandidateBound
    /\ ReviewBound /\ LeaderBound /\ PublishBound
    /\ ApprovalRequired => Approved

-----------------------------------------------------------------------------
(* Steps of the task *)

Driven == up /\ task.key \in Key \ {"cancel"}

SetPhase(p) == [run EXCEPT !.phase = p, !.pause = "none"]
Pause(c)    == [run EXCEPT !.phase = "PAUSED", !.pause = c]

\* schedule(), with the context of the record as it is committed.
Schedule(key) == task' = [key |-> key, seen |-> Len(run.attempts)]

\* An active attempt of a run that is given up or taken up again.
EndActive(attempts) ==
    [i \in DOMAIN attempts |->
       IF attempts[i].status = "RUNNING" THEN [attempts[i] EXCEPT !.status = "ENDED"]
                                         ELSE attempts[i]]

Goes == UNCHANGED task
Ends == task' = Idle

Unmoved  == UNCHANGED <<up, noticed, restored, misfiled>>
SameTurn == UNCHANGED stray

\* A renewed action id makes a new turn of the review.
NewTurn == stray' = IF stray = "none" THEN "none" ELSE "earlier"

Init ==
    /\ run = [phase |-> "PREPARING", pause |-> "none", attempts |-> <<>>,
              workspace |-> FALSE, input |-> None, result |-> None, captured |-> None,
              candidate |-> None, action |-> None, review |-> None, leader |-> None,
              history |-> {}, round |-> FALSE, continuation |-> None, untrusted |-> None,
              resumeReview |-> FALSE, rounds |-> 0, publish |-> None]
    /\ task = [key |-> "pipeline", seen |-> 0]
    /\ up = TRUE /\ noticed = FALSE /\ stray = "none"
    /\ restored = FALSE /\ misfiled = FALSE

-----------------------------------------------------------------------------
(* The worker *)

\* resolveRepairContinuation and the seed checks of prepareWorkspace.
SeedFits ==
    run.continuation # None =>
      /\ run.round
      /\ Completed(run.continuation.source)
      /\ run.attempts[run.continuation.source].session = run.continuation.session
      /\ run.continuation.seed = run.input

\* prepareWorkspace: the workspace of an attempt without result is used again, else
\* current is made anew from its input, without result and candidate.
PrepareWorkspace ==
    /\ Driven /\ run.phase = "PREPARING" /\ SeedFits
    /\ run' = IF run.workspace /\ run.input # None /\ run.result = None
                THEN SetPhase("RUNNING")
                ELSE [SetPhase("RUNNING") EXCEPT
                        !.workspace = TRUE,
                        !.input     = IF @ = None THEN Baseline ELSE @,
                        !.result    = None,
                        !.captured  = None]
    /\ Goes /\ Unmoved /\ SameTurn

\* The provider or Git cannot be used.
ProbeFails ==
    /\ Driven /\ run.phase = "PREPARING"
    /\ run' = Pause("PROBE_FAILED")
    /\ Ends /\ Unmoved /\ SameTurn

\* beginAttempt and STARTED; a repair resumes the session of its source.
BeginAttempt ==
    /\ Driven /\ run.phase = "RUNNING"
    /\ Len(run.attempts) < Attempts
    /\ run.attempts # <<>> => Last.status # "RUNNING"
    /\ LET session == IF run.continuation = None THEN Len(run.attempts) + 1
                                                 ELSE run.continuation.session
       IN run' = [run EXCEPT !.attempts =
                    Append(@, [status |-> "RUNNING", session |-> session, tree |-> None])]
    /\ Goes /\ Unmoved /\ SameTurn

Working == Driven /\ run.phase = "RUNNING" /\ run.attempts # <<>> /\ Last.status = "RUNNING"

AttemptCompletes ==
    /\ Working
    /\ run' = [run EXCEPT !.attempts[Len(run.attempts)].status = "COMPLETED"]
    /\ Goes /\ Unmoved /\ SameTurn

AttemptFails ==
    /\ Working
    /\ \E c \in {"ATTEMPT_FAILED", "CONTAINMENT_REQUIRED"} :
         run' = [Pause(c) EXCEPT !.attempts[Len(run.attempts)].status = "ENDED"]
    /\ Ends /\ Unmoved /\ SameTurn

\* An attempt of this task has completed and is yet to be captured.
Capturable ==
    /\ Driven /\ run.phase = "RUNNING" /\ run.attempts # <<>>
    /\ Last.status = "COMPLETED" /\ Last.tree = None

\* reconcileContainment cannot show that the process tree is gone.
ContainmentBlocked ==
    /\ Capturable
    /\ run' = Pause("CONTAINMENT_REQUIRED")
    /\ Ends /\ Unmoved /\ SameTurn

\* The reviewer session all reviews of the run are bound to.
BoundReviewer ==
    IF run.history = {} THEN None ELSE (CHOOSE e \in run.history : TRUE).reviewer

\* Faulty: the reviewer of the run is not passed on.
NewActionUnbound(t) ==
    [id |-> Len(run.attempts), tree |-> t, session |-> Last.session, bound |-> None]

NewAction(t) ==
    [id |-> Len(run.attempts), tree |-> t, session |-> Last.session, bound |-> BoundReviewer]

\* Faulty: only the first candidate is reviewed.
PhaseAfterFirstReview(t) ==
    CASE t \in Incomplete -> "FIXING"
      [] t \notin Incomplete /\ ReviewEnabled /\ run.history = {} -> "REVIEW_PENDING"
      [] OTHER -> "READY_TO_PUBLISH"

PhaseAfter(t) ==
    CASE t \in Incomplete -> "FIXING"
      [] t \notin Incomplete /\ ReviewEnabled -> "REVIEW_PENDING"
      [] OTHER -> "READY_TO_PUBLISH"

\* Faulty: the repair that the attempt has continued remains to be continued.
CapturedAgain(t) ==
    [SetPhase(PhaseAfter(t)) EXCEPT
       !.attempts[Len(run.attempts)].tree = t,
       !.candidate = t, !.captured = t, !.result = t]

Captured(t) ==
    [SetPhase(PhaseAfter(t)) EXCEPT
       !.attempts[Len(run.attempts)].tree = t,
       !.candidate = t, !.captured = t, !.result = t, !.continuation = None]

\* captureCandidate.
CaptureCandidate ==
    /\ Capturable
    /\ \E t \in Tree :
         run' = [Captured(t) EXCEPT
                   !.action = IF PhaseAfter(t) = "REVIEW_PENDING" THEN NewAction(t) ELSE @]
    /\ Goes /\ Unmoved
    /\ stray' = "none"

-----------------------------------------------------------------------------
(* Repair *)

\* RepairCoordinator.prepare: the evidence of a review must order the repair.
RepairOrdered ==
    /\ run.candidate # None
    /\ run.review # None =>
         /\ run.leader # None /\ run.leader.decision = "repair"
         /\ run.leader.review = run.review.id /\ ~run.review.accept

\* Faulty: the snapshot that the last attempt started from.
SeedBefore == run.input

Seed == run.result

\* The next attempt continues the session of the last one in what it has left.
ContinueRepair ==
    /\ Driven /\ run.phase = "FIXING" /\ RepairOrdered
    /\ run.attempts # <<>> /\ Last.status = "COMPLETED" /\ run.result # None
    /\ run' = [SetPhase("PREPARING") EXCEPT
                 !.candidate = None, !.action = None, !.review = None, !.leader = None,
                 !.publish = None, !.captured = None, !.result = None,
                 !.round = TRUE, !.untrusted = None, !.resumeReview = FALSE,
                 !.continuation = [source  |-> Len(run.attempts),
                                   session |-> Last.session,
                                   seed    |-> Seed],
                 !.input = Seed]
    /\ Goes /\ Unmoved /\ SameTurn

\* Out of scope, or without progress.
RepairPauses ==
    /\ Driven /\ run.phase = "FIXING" /\ RepairOrdered
    /\ \/ run' = [Pause("REPAIR_USER_APPROVAL_REQUIRED") EXCEPT
                    !.round = TRUE, !.untrusted = run.candidate]
       \/ run' = [Pause("REPAIR_NO_PROGRESS") EXCEPT !.round = TRUE]
    /\ Ends /\ Unmoved /\ SameTurn

-----------------------------------------------------------------------------
(* Review *)

\* assertReviewerContext.
ReviewerContext ==
    /\ run.action # None
    /\ run.action.session = Last.session
    /\ run.action.bound = BoundReviewer
    /\ \A e \in run.history : e.id # run.action.id

BeginReview ==
    /\ Driven /\ run.phase = "REVIEW_PENDING"
    /\ Verifies /\ run.candidate # None /\ run.workspace /\ ReviewerContext
    /\ run' = SetPhase("REVIEWING")
    /\ Goes /\ Unmoved /\ SameTurn

Reviewed(accept, reviewer, decision, phase) ==
    [SetPhase(phase) EXCEPT
       !.action  = None,
       !.review  = [id |-> run.action.id, tree |-> run.action.tree,
                    session |-> Last.session, accept |-> accept],
       !.leader  = [review |-> run.action.id, decision |-> decision],
       !.history = @ \cup {[id |-> run.action.id, tree |-> run.action.tree,
                            reviewer |-> reviewer]}]

\* A reviewer answered: the one of the session, if there is one.
Answers(reviewer) ==
    /\ Driven /\ run.phase = "REVIEWING"
    /\ Verifies /\ run.action # None
    /\ run.action.bound = BoundReviewer
    /\ run.action.bound # None => reviewer = run.action.bound

\* Faulty: one round too many.
RoundsLeftOrNone == run.rounds <= RepairLimit

RoundsLeft == run.rounds < RepairLimit

\* finalizeReview.  The file of the review has the name of the review attempt and is
\* never written twice, unless with the same content.
FinalizeReview ==
    /\ \E reviewer \in Reviewer :
         /\ Answers(reviewer)
         /\ \/ run' = Reviewed(TRUE, reviewer, "accept", "READY_TO_PUBLISH") /\ Goes
            \/ /\ RoundsLeft
               /\ run' = [Reviewed(FALSE, reviewer, "repair", "FIXING") EXCEPT !.rounds = @ + 1]
               /\ Goes
            \/ /\ ~RoundsLeft
               /\ run' = [Reviewed(FALSE, reviewer, "pause", "PAUSED") EXCEPT
                            !.pause = "AUTOMATIC_REPAIR_LIMIT"]
               /\ Ends
    /\ stray # "earlier" /\ stray' = "none"
    /\ Unmoved

\* pauseForHostUnavailable.
ReviewExhausted ==
    /\ Driven /\ run.phase = "REVIEWING" /\ run.action # None
    /\ run' = Pause("HOST_REVIEW_UNAVAILABLE")
    /\ Ends /\ Unmoved /\ NewTurn

-----------------------------------------------------------------------------
(* Publishing *)

\* PublishCoordinator.publish up to the publish attempt, or back to one.
PreparePublish ==
    /\ Driven /\ run.phase = "READY_TO_PUBLISH" /\ Verifies
    /\ run' = [SetPhase("PUBLISHING") EXCEPT
                 !.publish = [tree   |-> run.candidate,
                              review |-> IF ReviewEnabled THEN run.review.id ELSE None]]
    /\ Goes /\ Unmoved /\ SameTurn

\* A conflict or another run's lease before there is an attempt, or an outcome of the
\* apply that leaves a question.
PublishPauses ==
    /\ Driven
    /\ \/ run.phase = "READY_TO_PUBLISH" /\ Verifies /\ run' = Pause("PUBLISH_BLOCKED")
       \/ run.phase = "PUBLISHING" /\ \E c \in PublishPause : run' = Pause(c)
    /\ Ends /\ Unmoved /\ SameTurn

PublishCommits ==
    /\ Driven /\ run.phase = "PUBLISHING"
    /\ run' = SetPhase("COMPLETED")
    /\ Ends /\ Unmoved /\ SameTurn

-----------------------------------------------------------------------------
(* What may come between *)

\* pauseFailure, with the context and the key the task was scheduled with.
FailureCode == CASE task.key = "publish" -> "PUBLISH_STAGE_FAILED"
                 [] task.key = "review"  -> "HOST_REVIEW_UNAVAILABLE"
                 [] OTHER                -> "STAGE_FAILED"

StageFails ==
    /\ Driven /\ run.phase \notin {"PAUSED", "CANCELING"} \cup Terminal
    /\ LET stale == task.seen # 0 /\ task.seen # Len(run.attempts)
       IN /\ run' = IF stale THEN run ELSE Pause(FailureCode)
          /\ misfiled' = (misfiled \/ (/\ ~stale /\ task.key = "review"
                                       /\ run.phase \in {"PREPARING", "RUNNING"}))
    /\ Ends
    /\ stray' \in {stray, IF run.phase = "REVIEWING" /\ run.action # None /\ stray = "none"
                            THEN "same" ELSE stray}
    /\ UNCHANGED <<up, noticed, restored>>

\* The approved tasks differ from their hash or cannot be read.  A drift that was
\* noticed before is answered from the receipt: nothing is paused, the task ends.
Drifts ==
    /\ Driven
    /\ run.phase \in {"PREPARING", "FIXING", "REVIEW_PENDING", "REVIEWING", "READY_TO_PUBLISH"}
    /\ run.phase = "FIXING" => run.review # None
    /\ \/ run.phase \in {"REVIEW_PENDING", "REVIEWING"} /\ run.action # None
          /\ run' = [Pause("APPROVED_SOURCE_DRIFT") EXCEPT !.resumeReview = TRUE]
          /\ NewTurn
       \/ run.phase \notin {"REVIEW_PENDING", "REVIEWING"}
          /\ run' = Pause("APPROVED_SOURCE_DRIFT") /\ SameTurn
       \/ noticed /\ UNCHANGED <<run, stray>>
    /\ noticed' = TRUE
    /\ Ends
    /\ UNCHANGED <<up, restored, misfiled>>

Crash ==
    /\ up /\ up' = FALSE
    /\ Ends
    /\ stray' \in {stray, IF run.phase = "REVIEWING" /\ run.action # None /\ stray = "none"
                            THEN "same" ELSE stray}
    /\ UNCHANGED <<run, noticed, restored, misfiled>>

\* RecoveryManager.recover finds a record that it refuses.
RecoverRefused ==
    /\ ~Verifies
    /\ IF run.phase \in {"CANCELING"} \cup Terminal THEN UNCHANGED run
                                                   ELSE run' = Pause("RECOVERY_BLOCKED")
    /\ Ends

\* recoverWorker.
RecoverRunning ==
    /\ Verifies /\ run.phase = "RUNNING"
    /\ \/ /\ run' = [SetPhase("PREPARING") EXCEPT !.workspace = FALSE,
                                                  !.attempts  = EndActive(@)]
          /\ Schedule("recover")
       \/ run' = Pause("RECOVERY_BLOCKED") /\ Ends

\* recoverPublish.
RecoverPublishing ==
    /\ Verifies /\ run.phase = "PUBLISHING"
    /\ run' \in {SetPhase("COMPLETED"), Pause("PUBLISH_CONFLICT")}
    /\ Ends

\* Every other phase is taken up where it is.
RecoverAsItIs ==
    /\ Verifies /\ run.phase \notin {"RUNNING", "PUBLISHING"}
    /\ UNCHANGED run
    /\ CASE run.phase \in {"PAUSED"} \cup Terminal -> Ends
         [] run.phase = "CANCELING" -> Schedule("cancel")
         [] OTHER -> Schedule("recover")

Boot ==
    /\ ~up /\ up' = TRUE
    /\ RecoverRefused \/ RecoverRunning \/ RecoverPublishing \/ RecoverAsItIs
    /\ SameTurn /\ UNCHANGED <<noticed, restored, misfiled>>

-----------------------------------------------------------------------------
(* Clients *)

\* resume(): every answer but those that cancel needs artifacts that fit.
Answerable(codes) == up /\ run.phase = "PAUSED" /\ run.pause \in codes /\ Verifies

ResumeWorker ==
    /\ Answerable({"PROBE_FAILED", "ATTEMPT_FAILED"})
    /\ run' = SetPhase("PREPARING") /\ Schedule("pipeline")
    /\ Unmoved /\ SameTurn

\* restore_approved_tasks: back to the review that was interrupted, else to the worker.
RestoreTasks ==
    /\ Answerable({"APPROVED_SOURCE_DRIFT"})
    /\ IF run.resumeReview
         THEN /\ run' = [SetPhase("REVIEW_PENDING") EXCEPT !.resumeReview = FALSE]
              /\ Schedule("review") /\ UNCHANGED restored
         ELSE /\ run' = SetPhase("PREPARING") /\ Schedule("pipeline")
              /\ restored' = (restored \/ run.candidate # None)
    /\ SameTurn /\ UNCHANGED <<up, noticed, misfiled>>

\* retry_host_review: the same review attempt under a new action id.
RetryReview ==
    /\ Answerable({"HOST_REVIEW_UNAVAILABLE"}) /\ run.action # None
    /\ run' = SetPhase("REVIEW_PENDING") /\ Schedule("review")
    /\ Unmoved /\ NewTurn

\* finalizeStoredReview: the same review, decided again.
ResumeDecision ==
    /\ Answerable({"AUTOMATIC_REPAIR_LIMIT"}) /\ run.review # None
    /\ run' = [SetPhase("FIXING") EXCEPT
                 !.leader = [review |-> run.review.id, decision |-> "repair"], !.rounds = 1]
    /\ Schedule("pipeline")
    /\ Unmoved /\ SameTurn

RetryPublish ==
    /\ Answerable({"PUBLISH_STAGE_FAILED", "PUBLISH_BLOCKED"})
    /\ run' = SetPhase("READY_TO_PUBLISH") /\ Schedule("publish")
    /\ Unmoved /\ SameTurn

\* smartflow_cancel, and the answers cancel and retry_cancel.
Cancel ==
    /\ up /\ run.phase \notin Terminal
    /\ run' = SetPhase("CANCELING") /\ Schedule("cancel")
    /\ Unmoved /\ SameTurn

\* CancelManager.reconcile.
FinishCancel ==
    /\ up /\ task.key = "cancel" /\ run.phase = "CANCELING"
    /\ \/ run' = [SetPhase("CANCELED") EXCEPT
                    !.action = None, !.attempts = EndActive(@)]
       \/ run' = Pause("PROCESS_RECONCILIATION")
    /\ Ends /\ Unmoved /\ SameTurn

-----------------------------------------------------------------------------

Worker  == PrepareWorkspace \/ ProbeFails \/ BeginAttempt \/ AttemptCompletes
           \/ AttemptFails \/ ContainmentBlocked \/ CaptureCandidate
Repair  == ContinueRepair \/ RepairPauses
Reviews == BeginReview \/ FinalizeReview \/ ReviewExhausted
Publisher == PreparePublish \/ PublishPauses \/ PublishCommits
Client  == ResumeWorker \/ RestoreTasks \/ RetryReview \/ ResumeDecision
           \/ RetryPublish \/ Cancel

Next == Worker \/ Repair \/ Reviews \/ Publisher \/ Client \/ FinishCancel
        \/ StageFails \/ Drifts \/ Crash \/ Boot

Spec == Init /\ [][Next]_vars

-----------------------------------------------------------------------------

\* The types of the record; the rounds of automatic repair stay within their limit.
TypeOK ==
    /\ run \in Run /\ Len(run.attempts) <= Attempts
    /\ task \in [key : Key \cup {"none"}, seen : 0 .. Attempts]
    /\ up \in BOOLEAN /\ noticed \in BOOLEAN
    /\ stray \in {"none", "same", "earlier"}
    /\ restored \in BOOLEAN /\ misfiled \in BOOLEAN

\* Whatever order the worker, repair, review, publishing, clients, crashes and
\* recovery write the record in, its evidence fits together after every commit:
\* verifyRunArtifacts accepts it, so that the run can be read and taken up again.
\* Two ways out of this are known: restored and misfiled.
HealthyRunVerifies == Verifies \/ restored \/ misfiled

\* While a review is due, its action is of the candidate that the last attempt left,
\* of that attempt's session and of the reviewer who reviewed the run before, and no
\* review has its id: what the reviewer answers can be recorded.
PendingReviewIsCurrent ==
    run.phase \in {"REVIEW_PENDING", "REVIEWING"} /\ ~restored =>
      /\ ReviewerContext /\ run.workspace
      /\ run.candidate = run.action.tree /\ Last.tree = run.action.tree

\* A repair starts from the tree that its source attempt left, also after restarts
\* and failed attempts in between, never from an older snapshot of the run.
ContinuesWhatItLeft ==
    run.continuation # None =>
        run.attempts[run.continuation.source].tree = run.continuation.seed

\* What is published is what the last attempt left, and with reviews enabled an
\* accepting review of this very tree: no repair, restored review or recovery comes
\* between.
ReadyIsReviewed ==
    run.phase \in {"READY_TO_PUBLISH", "PUBLISHING", "COMPLETED"} =>
      /\ run.candidate = Last.tree
      /\ ReviewEnabled => /\ run.review # None /\ run.review.accept
                          /\ run.review.tree = Last.tree
=============================================================================
