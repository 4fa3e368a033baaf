---------------------------- MODULE RunLifecycle ----------------------------
(***************************************************************************)
(* A run from its execution to its end: the background tasks of the stage  *)
(* modules, the clients that cancel and resume it (project-runtime.ts),    *)
(* the workers, the other runs of the project, and crashes and restarts of *)
(* the daemon.                                                             *)
(*                                                                         *)
(* Left out: damaged or drifted files of the data directory (which pause a *)
(* run for inspection or restoration), the ownership of a Host turn (which *)
(* only refuses clients), and the run's fence: a task never outlives its   *)
(* process here, StateMutation is about those that do.                     *)
(***************************************************************************)
EXTENDS WorkerStage, ReviewStage, PublishStage, CancelRecovery

CONSTANTS Restarts,  \* whether the daemon may end
          Requests,  \* bound: how many client requests the run still gets
          Failures   \* bound: how often a task still throws or the daemon ends

ASSUME BoundsAssumption == Restarts \in BOOLEAN /\ Requests \in Nat /\ Failures \in Nat

VARIABLES requests, failures

bounds == <<requests, failures>>

\* execute() has committed and scheduled the run.
Init ==
    /\ daemon = "up"
    /\ run = [phase |-> "PREPARING", pause |-> "none", attempt |-> "none", items |-> {},
              publish |-> "none", rounds |-> 0, noProgress |-> 0]
    /\ lease \in {"free", "other"}
    /\ receipts = {} /\ worker = {} /\ result = "none"
    /\ at = [k \in Key |-> IF k = "pipeline" THEN "start" ELSE "none"]
    /\ unbound = {"pipeline"} /\ stale = {} /\ current = {} /\ fresh = {}
    /\ requests = Requests /\ failures = Failures

-----------------------------------------------------------------------------
(* Clients *)

\* smartflow_cancel, and the answers cancel and retry_cancel of a pause.
Cancel ==
    /\ daemon = "up" /\ run.phase \notin Terminal
    /\ Save(SetPhase("CANCELING"))
    /\ Schedule("cancel")
    /\ ExceptTask

\* closedResumeRoute, and the guard of resume_review_decision.
Accepted(answer) ==
    CASE answer = "cancel" -> TRUE
      [] answer = "retry_cancel" -> run.pause = "PROCESS_RECONCILIATION"
      [] answer = "retry_provider_probe" -> run.pause = "PROBE_FAILED"
      [] answer = "retry_provider" -> run.pause = "ATTEMPT_FAILED" /\ run.attempt # "none"
      [] answer = "retry_host_review" ->
           run.pause = "HOST_REVIEW_UNAVAILABLE" /\ "action" \in run.items
      [] answer = "retry_publish" ->
           run.pause \in {"PUBLISH_STAGE_FAILED", "PUBLISH_BUSY", "PRECHECK_CONFLICT"}
      [] answer = "confirm_manual_publish" ->
           /\ run.pause \in {"PRECHECK_CONFLICT", "MANUAL_PUBLISH_TARGET_MISMATCH"}
           /\ run.publish = "none"
      [] answer = "resume_review_decision" -> run.pause = "AUTOMATIC_REPAIR_LIMIT"
      [] answer = "retry" -> FALSE

Resumable(answer) ==
    /\ daemon = "up" /\ run.phase = "PAUSED"
    /\ answer \in ResumeActions[run.pause] /\ Accepted(answer)

\* resume() of the worker, with the workspace and the session as they are.
ResumeWorker ==
    /\ \E answer \in {"retry_provider_probe", "retry_provider"} : Resumable(answer)
    /\ Save(SetPhase("PREPARING"))
    /\ Schedule("pipeline")
    /\ ExceptTask

\* The review gets a new action id; no reviewer asked before can answer it.
ResumeReview ==
    /\ Resumable("retry_host_review")
    /\ Save(SetPhase("REVIEW_PENDING"))
    /\ LET rid == {k \in current : at[k] # "reviewing"} IN
       IF at["review"] = "none"
         THEN at' = [at EXCEPT !["review"] = "start"] /\ current' = rid /\ UNCHANGED <<unbound, stale>>
         ELSE current' = rid /\ UNCHANGED <<at, unbound, stale>>
    /\ ExceptTask

ResumePublish ==
    /\ \/ Resumable("retry_publish") /\ Save(SetPhase("READY_TO_PUBLISH"))
       \/ Resumable("confirm_manual_publish")
          /\ Save(Items(SetPhase("READY_TO_PUBLISH"), {}, {"manual"}))
    /\ Schedule("publish")
    /\ ExceptTask

\* finalizeStoredReview: the repair limit is counted anew.
ResumeReviewDecision ==
    /\ Resumable("resume_review_decision")
    /\ Save([SetPhase("FIXING") EXCEPT !.rounds = 1])
    /\ Schedule("pipeline")
    /\ ExceptTask

-----------------------------------------------------------------------------
(* The environment *)

WorkerExits ==
    /\ \E p \in {"running", "old"} \cap worker : worker' = worker \ {p}
    /\ UNCHANGED <<daemon, run, lease, receipts, result, taskVars, fresh>>

\* Another run of the project commits, perhaps to take or to release the lease.
OtherRuns ==
    /\ daemon = "up"
    /\ fresh' = {}
    /\ lease' = CASE lease = "free"  -> "other"
                  [] lease = "other" -> "free"
                  [] lease = "mine"  -> "mine"
    /\ UNCHANGED <<daemon, run, receipts, worker, result, taskVars>>

\* The daemon ends or is killed.  Its workers may survive it.
Crash ==
    /\ Restarts /\ daemon = "up" /\ daemon' = "down"
    /\ at' = [k \in Key |-> "none"]
    /\ unbound' = {} /\ stale' = {} /\ current' = {} /\ fresh' = {}
    /\ UNCHANGED <<run, lease, receipts, worker, result>>

\* ProjectRuntime.recover: an epoch commit, and a task for a run that is active.
Boot ==
    /\ daemon = "down" /\ daemon' = "up"
    /\ Save(run)
    /\ IF run.phase \in Terminal THEN UNCHANGED taskVars ELSE Schedule("recover")
    /\ UNCHANGED <<lease, receipts, worker, result>>

-----------------------------------------------------------------------------

Step(k) ==
    \/ Start(k) \/ WorkerStep(k) \/ ReviewStep(k) \/ PublishStep(k)
    \/ CancelStep(k) \/ RecoverStep(k) \/ Fail(k)

Client == Cancel \/ ResumeWorker \/ ResumeReview \/ ResumePublish \/ ResumeReviewDecision

Next ==
    \/ /\ (\E k \in Key : Step(k)) \/ WorkerExits \/ OtherRuns \/ Boot
       /\ UNCHANGED bounds
    \/ /\ Client
       /\ requests > 0 /\ requests' = requests - 1 /\ UNCHANGED failures
    \/ /\ Crash \/ \E k \in Key : Throw(k)
       /\ failures > 0 /\ failures' = failures - 1 /\ UNCHANGED requests

Spec == Init /\ [][Next]_<<vars, bounds>>

\* The event loop runs every task that can go on, and what a task awaits comes
\* back: workers and reviewers have deadlines.
FairSpec == Spec /\ \A k \in Key : WF_<<vars, bounds>>(Step(k) /\ UNCHANGED bounds)

-----------------------------------------------------------------------------

\* The types of the state; the repair limits are kept.
TypeOK ==
    /\ daemon \in {"up", "down"}
    /\ run \in Run
    /\ lease \in {"free", "mine", "other"}
    /\ worker \subseteq {"registered", "running", "old"}
    /\ result \in {"none", "COMMITTED", "CONFLICT", "UNKNOWN"}
    /\ at \in [Key -> Point]
    /\ unbound \subseteq Live /\ stale \subseteq Live /\ current \subseteq Live
    /\ fresh \subseteq Key
    /\ requests \in 0 .. Requests /\ failures \in 0 .. Failures

\* A run that has ended leaves nothing open: not the project's publish lease, no
\* apply, canceled no publish attempt of unknown outcome, completed no candidate
\* that is not in the project (cancel-manager.ts, publish-coordinator.ts).
FinishedIsSettled ==
    run.phase \in Terminal =>
      /\ lease # "mine"
      /\ \A k \in Key : at[k] # "applying"
      /\ run.phase = "CANCELED" => run.publish \notin UnsettledPublish
      /\ run.phase = "COMPLETED" => "COMMITTED" \in {run.publish, result}

\* Whatever fails, crashes and is retried: a run is ready to publish, has a
\* publish attempt, or has files in the project only with a candidate that is
\* not empty and that a review has accepted.
OnlyAcceptedIsPublished ==
    run.phase \in {"READY_TO_PUBLISH", "PUBLISHING"} \/ run.publish # "none" \/ result # "none"
      => /\ "candidate" \in run.items /\ "empty" \notin run.items
         /\ ReviewEnabled => "accepted" \in run.items

\* Once requested, cancellation can only end in CANCELED or in a question about
\* what is still running; no task of the run that is under way, fails or is
\* retried takes it elsewhere, and an ended run stays as it is.
CancellationSticks ==
    [][/\ run.phase = "CANCELING" =>
            \/ run'.phase \in {"CANCELING", "CANCELED"}
            \/ run'.phase = "PAUSED" /\ run'.pause = "PROCESS_RECONCILIATION"
       /\ run.phase \in Terminal => UNCHANGED run]_vars

\* No task starts to write a candidate's files into the project that another one
\* is writing, or that have been submitted or written before.
AppliesOnce ==
    [][\A k \in Key : at[k] # "applying" /\ at'[k] = "applying" =>
         /\ \A j \in Key : at[j] # "applying"
         /\ result = "none"
         /\ run.publish = "PREPARED"]_vars

\* The background tasks of a run come to an end, by the end of the run or in a
\* pause: the rounds of repair, retry and review are finitely many.
TasksEnd == Live # {} ~> Live = {}

\* Violated.  A run that is to go on by itself has a task that drives it.
NoAbandonedRun == daemon = "up" /\ run.phase \in Automatic => Live # {}
=============================================================================
