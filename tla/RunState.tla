------------------------------ MODULE RunState ------------------------------
(***************************************************************************)
(* One run as the daemon keeps it in the project document, and the         *)
(* background tasks that drive it (project-runtime.ts).  The modules that  *)
(* extend this one add the stages: WorkerStage, ReviewStage, PublishStage  *)
(* and CancelRecovery; RunLifecycle composes them.                         *)
(*                                                                         *)
(* One mutate() call is one step (StateMutation shows why it may be);      *)
(* whatever a task awaits between two of them interleaves with the other   *)
(* tasks, with clients, with other runs of the project, and with a crash.  *)
(***************************************************************************)
EXTENDS Naturals, FiniteSets

CONSTANTS RepairLimit,      \* REPAIR_ROUND_LIMIT
          NoProgressLimit,  \* noProgressThreshold
          ReviewEnabled,    \* resolveReviewEnabled()
          Faults            \* whether stages and mutations may throw

ASSUME LimitsAssumption ==
    /\ RepairLimit \in Nat \ {0} /\ NoProgressLimit \in Nat \ {0}
    /\ ReviewEnabled \in BOOLEAN /\ Faults \in BOOLEAN

VARIABLES daemon,   \* "up" or "down"
          run,      \* the run's record in the document
          lease,    \* publishLease: "free", "mine" or "other" (another run's)
          receipts, \* processedRequests with keys that can come up again
          worker,   \* registry and processes of the worker attempts
          result,   \* what the workspace adapter stored of its apply
          at,       \* ProjectRuntime.background: where the task of each key is
          unbound,  \* tasks whose context was taken before the first attempt
          stale,    \* tasks whose context names an attempt that is not the last
          current,  \* tasks that captured the attempt or review action which is
                    \* still the document's
          fresh     \* tasks whose snapshot is still the document's stateVersion

taskVars == <<at, unbound, stale, current>>
vars == <<daemon, run, lease, receipts, worker, result, taskVars, fresh>>

Key == {"pipeline", "review", "publish", "cancel", "recover"}

Terminal  == {"COMPLETED", "CANCELED"}
Automatic == {"PREPARING", "RUNNING", "FIXING", "REVIEW_PENDING", "REVIEWING",
              "READY_TO_PUBLISH", "PUBLISHING", "CANCELING"}
Phase == Automatic \cup {"PAUSED"} \cup Terminal

\* Pause codes, with what they list.  PROBE_FAILED stands for PROVIDER_* and
\* GIT_* probe failures, ATTEMPT_FAILED and ATTEMPT_ENDED for the attempt codes
\* that closedResumeRoute does and does not know, INSPECT_ONLY for all that list
\* inspect_* markers, and STAGE_FAILED and PUBLISH_STAGE_FAILED for
\* RUNTIME_STAGE_FAILED.
ResumeActions ==
    [PROBE_FAILED                   |-> {"retry_provider_probe", "cancel"},
     ATTEMPT_FAILED                 |-> {"retry_provider", "cancel"},
     ATTEMPT_ENDED                  |-> {"retry_provider", "cancel"},
     INSPECT_ONLY                   |-> {"cancel"},
     STAGE_FAILED                   |-> {"retry", "cancel"},
     PUBLISH_STAGE_FAILED           |-> {"retry_publish", "cancel"},
     HOST_REVIEW_UNAVAILABLE        |-> {"retry_host_review", "cancel"},
     AUTOMATIC_REPAIR_LIMIT         |-> {"resume_review_decision", "cancel"},
     PROCESS_RECONCILIATION         |-> {"retry_cancel", "cancel"},
     PUBLISH_BUSY                   |-> {"retry_publish", "cancel"},
     PRECHECK_CONFLICT              |-> {"retry_publish", "confirm_manual_publish", "cancel"},
     MANUAL_PUBLISH_TARGET_MISMATCH |-> {"confirm_manual_publish", "retry_publish", "cancel"}]
PauseCode == DOMAIN ResumeActions

AttemptStatus == {"none", "PREPARING", "RUNNING", "COMPLETED", "ENDED"}
ActiveAttempt == {"PREPARING", "RUNNING"}
PublishStatus == {"none", "PREPARED", "SUBMITTED", "UNKNOWN", "CONFLICT", "COMMITTED"}

\* What else the record holds: the worker's process identity, the candidate and
\* whether it is empty, the last repair round and whether it was for an empty
\* candidate, the pending review action, an accepting decision, a requested
\* manual confirmation.
Item == {"identity", "candidate", "empty", "round", "emptyRound", "action",
         "accepted", "manual"}

Run == [phase : Phase, pause : PauseCode \cup {"none"}, attempt : AttemptStatus,
        items : SUBSET Item, publish : PublishStatus,
        rounds : 0 .. RepairLimit, noProgress : 0 .. NoProgressLimit]

WorkerPoints  == {"enter", "initial", "probing", "begin", "spawn", "spawned",
                  "streaming", "reconcile", "capture", "after", "repair"}
ReviewPoints  == {"review", "reviewing"}
\* beginRecovery of a publish attempt that was read with that status.
BindPoint == [PREPARED |-> "bindPrepared", SUBMITTED |-> "bindSubmitted",
              UNKNOWN |-> "bindUnknown", CONFLICT |-> "bindConflict"]
PublishPoints == {"publish", "confirm", "acquire", "preflight", "release", "existing",
                  "prepare", "bindPrepared", "bindSubmitted", "bindUnknown",
                  "bindConflict", "observe", "submit", "applying", "complete",
                  "committed", "blocked", "busy", "conflicted"}
CancelPoints  == {"cancel", "stopped", "unstopped"}
RecoverPoints == {"recover", "workerStopped", "workerUnknown", "reconcilePublish"}
Point == {"none", "start", "failed"} \cup WorkerPoints \cup ReviewPoints
         \cup PublishPoints \cup CancelPoints \cup RecoverPoints

Live == {k \in Key : at[k] # "none"}

-----------------------------------------------------------------------------
(* Steps of a task *)

\* Points from which a task does not go back to what it has captured.
Uncaptured == {"after", "enter", "initial", "probing", "begin", "repair", "review",
               "publish", "cancel", "failed"}

Goto(k, p) ==
    /\ at' = [at EXCEPT ![k] = p]
    /\ current' = IF p \in Uncaptured THEN current \ {k} ELSE current
    /\ UNCHANGED <<unbound, stale>>

\* The task goes on with what it has just read of the record.
Capture(k, p) ==
    /\ at' = [at EXCEPT ![k] = p]
    /\ current' = current \cup {k}
    /\ UNCHANGED <<unbound, stale>>

\* The task's promise settles and its key leaves the background map.
End(k) ==
    /\ at' = [at EXCEPT ![k] = "none"]
    /\ unbound' = unbound \ {k} /\ stale' = stale \ {k} /\ current' = current \ {k}

\* A committed mutation increments stateVersion.
Save(r) == run' = r /\ fresh' = {}

Unsaved == UNCHANGED <<run, fresh>>

\* The task goes on with the stateVersion it has just read.
Snapshot(k) == fresh' = fresh \cup {k} /\ UNCHANGED run
ExceptTask == UNCHANGED <<daemon, lease, receipts, worker, result>>

SetPhase(p) == [run EXCEPT !.phase = p, !.pause = "none"]
Pause(c)    == [run EXCEPT !.phase = "PAUSED", !.pause = c]

\* The record r with items taken out and others put in.
Items(r, out, in) == [r EXCEPT !.items = (@ \ out) \cup in]

\* schedule(): a key that is still in the background map is left alone.  The
\* context is taken from the state just committed, whose attempt is the run's.
Schedule(k) ==
    IF at[k] = "none"
      THEN /\ at' = [at EXCEPT ![k] = "start"]
           /\ unbound' = IF run.attempt = "none" THEN unbound \cup {k} ELSE unbound
           /\ UNCHANGED <<stale, current>>
      ELSE UNCHANGED taskVars

EntryPoint == [pipeline |-> "enter", review |-> "review", publish |-> "publish",
               cancel |-> "cancel", recover |-> "recover"]

\* The callback of the key begins with contextCurrent.
Start(k) ==
    /\ at[k] = "start"
    /\ IF k \in stale \/ run.phase \in Terminal THEN End(k) ELSE Goto(k, EntryPoint[k])
    /\ Unsaved /\ ExceptTask

\* Points whose awaits may throw: file system, Git, artifacts, SQLite, a
\* stateVersion that another run has moved on.
Fallible == {"enter", "initial", "probing", "begin", "reconcile", "capture", "after",
             "repair", "review", "reviewing", "publish", "confirm", "acquire",
             "preflight", "release", "prepare", "bindPrepared", "bindSubmitted",
             "bindUnknown", "bindConflict", "observe", "complete", "committed",
             "blocked", "busy", "conflicted", "stopped", "unstopped", "recover",
             "workerStopped", "workerUnknown", "reconcilePublish"}

Throw(k) ==
    /\ Faults /\ at[k] \in Fallible
    /\ Goto(k, "failed")
    /\ fresh' = fresh \ {k}
    /\ UNCHANGED run /\ ExceptTask

\* Faulty: whatever fails before the review is put down to publishing.
FailureCodeByDefault(k) == IF k = "review" THEN "HOST_REVIEW_UNAVAILABLE"
                                           ELSE "PUBLISH_STAGE_FAILED"

FailureCode(k) == CASE k = "publish" -> "PUBLISH_STAGE_FAILED"
                    [] k = "review"  -> "HOST_REVIEW_UNAVAILABLE"
                    [] OTHER         -> "STAGE_FAILED"

\* Faulty: a failure is recorded in a run that is being canceled, too.
FailWhileCanceling(k) ==
    /\ at[k] = "failed"
    /\ End(k)
    /\ IF k \in stale \/ run.phase \in {"PAUSED"} \cup Terminal
         THEN Unsaved
         ELSE Save(Pause(FailureCode(k)))
    /\ ExceptTask

\* pauseFailure, with the context the task was scheduled with.  When its own
\* mutation throws, nothing handles the rejection and the process ends (Crash).
Fail(k) ==
    /\ at[k] = "failed"
    /\ End(k)
    /\ IF k \in stale \/ run.phase \in {"PAUSED", "CANCELING"} \cup Terminal
         THEN Unsaved
         ELSE Save(Pause(FailureCode(k)))
    /\ ExceptTask
=============================================================================
