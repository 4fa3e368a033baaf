--------------------------- MODULE CancelRecovery ---------------------------
(***************************************************************************)
(* Giving a run up (cancel-manager.ts) and taking it up again after a      *)
(* restart (recovery-manager.ts), with the stopping of a worker that both  *)
(* use (runtime-composition.ts).                                           *)
(***************************************************************************)
EXTENDS RunState

\* What stopPersistedAttempt knows of a worker it does not terminate.
KnownGone == IF "registered" \in worker THEN "running" \notin worker
                                        ELSE run.attempt = "PREPARING"

\* stopPersistedAttempt: a running process is terminated if its identity is the
\* persisted one, and its tree may still not become empty.
StopPersisted(k, gone, unknown) ==
    \/ KnownGone /\ UNCHANGED worker /\ Capture(k, gone)
    \/ ~KnownGone /\ UNCHANGED worker /\ Capture(k, unknown)
    \/ /\ {"registered", "running"} \subseteq worker /\ "identity" \in run.items
       /\ worker' = worker \ {"running"} /\ Capture(k, gone)

\* PiProvider.cancel: this process still holds the handle of the attempt.
StopOwn(k) ==
    /\ \E j \in current : at[j] \in {"spawned", "streaming"}
    /\ worker' = worker \ {"running"}
    /\ Capture(k, "stopped")

\* CancelManager.reconcile up to the answer of stopWorker.  What else it has read
\* of the record stays as it is for as long as the phase is CANCELING.
StopWorker(k) ==
    /\ at[k] = "cancel"
    /\ CASE run.phase = "CANCELED" -> End(k) /\ UNCHANGED worker
         [] run.phase = "CANCELING" ->
              IF run.attempt \in ActiveAttempt
                THEN StopOwn(k) \/ StopPersisted(k, "stopped", "unstopped")
                ELSE Capture(k, "stopped") /\ UNCHANGED worker
         [] OTHER -> Goto(k, "failed") /\ UNCHANGED worker
    /\ Unsaved
    /\ UNCHANGED <<daemon, lease, receipts, result>>

UnsettledPublish == {"PREPARED", "SUBMITTED", "UNKNOWN"}

\* blockedReasons; the reviewer may refuse to be canceled.
BlockedReasons(k) ==
    {r \cup (IF at[k] = "unstopped" THEN {"worker"} ELSE {})
       \cup (IF run.publish \in UnsettledPublish THEN {"publish"} ELSE {}) :
     r \in IF Faults /\ "action" \in run.items THEN {{}, {"action"}} ELSE {{}}}

\* An active attempt of a run that is given up.
Ended(r) == [r EXCEPT !.attempt = IF @ \in ActiveAttempt THEN "ENDED" ELSE @]

\* Faulty: a run may end with the project's publish lease.
CommitCanceledLeased(k) ==
    IF run.phase = "CANCELING" /\ k \in current
      THEN Save(Items(Ended(SetPhase("CANCELED")), {"action"}, {})) /\ End(k)
      ELSE Unsaved /\ Goto(k, "failed")

\* The schema refuses a publish lease of a run that is not active.
CommitCanceled(k) ==
    IF run.phase = "CANCELING" /\ k \in current /\ lease # "mine"
      THEN Save(Items(Ended(SetPhase("CANCELED")), {"action"}, {})) /\ End(k)
      ELSE Unsaved /\ Goto(k, "failed")

\* The mutation's key names the reasons only: the same reasons a second time are
\* answered from the receipt, and the run stays CANCELING.
CommitBlocked(k, reasons) ==
    CASE <<"cancel", reasons>> \in receipts -> Unsaved /\ End(k) /\ UNCHANGED receipts
      [] <<"cancel", reasons>> \notin receipts /\ run.phase = "CANCELING" /\ k \in current ->
           /\ Save(Pause("PROCESS_RECONCILIATION"))
           /\ receipts' = receipts \cup {<<"cancel", reasons>>}
           /\ End(k)
      [] OTHER -> Unsaved /\ Goto(k, "failed") /\ UNCHANGED receipts

\* CancelManager.reconcile from there.
FinishCancel(k) ==
    /\ at[k] \in {"stopped", "unstopped"}
    /\ \E reasons \in BlockedReasons(k) :
         IF reasons = {} THEN CommitCanceled(k) /\ UNCHANGED receipts
                         ELSE CommitBlocked(k, reasons)
    /\ UNCHANGED <<daemon, lease, worker, result>>

-----------------------------------------------------------------------------

RecoveryPoint == [FIXING |-> "repair", REVIEW_PENDING |-> "review", REVIEWING |-> "review",
                  READY_TO_PUBLISH |-> "publish", PREPARING |-> "enter",
                  CANCELING |-> "cancel", PUBLISHING |-> "reconcilePublish"]

\* RecoveryManager.recover of a phase that needs no worker stopped.
Recover(k) ==
    /\ at[k] = "recover"
    /\ run.phase # "RUNNING"
    /\ IF run.phase \in DOMAIN RecoveryPoint THEN Goto(k, RecoveryPoint[run.phase]) ELSE End(k)
    /\ IF run.phase = "PUBLISHING" THEN Snapshot(k) ELSE Unsaved
    /\ ExceptTask

\* recoverWorker: the worker of the process that is gone is stopped, if it can be.
InspectWorker(k) ==
    /\ at[k] = "recover" /\ run.phase = "RUNNING"
    /\ IF run.attempt \in ActiveAttempt
         THEN StopPersisted(k, "workerStopped", "workerUnknown")
         ELSE Capture(k, "workerStopped") /\ UNCHANGED worker
    /\ Snapshot(k)
    /\ UNCHANGED <<daemon, lease, receipts, result>>

\* expectedStateVersion and expectedPhases of a recovery's commit.
Unmoved(k, phase) == k \in fresh /\ run.phase = phase

\* A new attempt is started, or the user is asked.
RecoverWorker(k) ==
    /\ at[k] \in {"workerStopped", "workerUnknown"}
    /\ IF ~Unmoved(k, "RUNNING")
         THEN Unsaved /\ Goto(k, "failed")
         ELSE \/ /\ at[k] = "workerStopped"
                 /\ Save(Ended(SetPhase("PREPARING"))) /\ Goto(k, "enter")
              \/ /\ at[k] = "workerUnknown"
                 /\ Save(Pause("INSPECT_ONLY")) /\ End(k)
    /\ ExceptTask

\* recoverPublish: the stored result of the apply decides.
RecoverPublish(k) ==
    /\ at[k] = "reconcilePublish"
    /\ IF ~Unmoved(k, "PUBLISHING")
         THEN Unsaved /\ Goto(k, "failed") /\ UNCHANGED lease
         ELSE /\ End(k)
              /\ \/ /\ result = "COMMITTED"
                    /\ Save([SetPhase("COMPLETED") EXCEPT !.publish = "COMMITTED"])
                    /\ lease' = IF lease = "mine" THEN "free" ELSE lease
                 \/ /\ result = "CONFLICT"
                    /\ Save([Pause("INSPECT_ONLY") EXCEPT !.publish = "CONFLICT"])
                    /\ lease' = IF lease = "mine" THEN "free" ELSE lease
                 \/ /\ result \notin {"COMMITTED", "CONFLICT"}
                    /\ Save(Pause("INSPECT_ONLY")) /\ UNCHANGED lease
    /\ UNCHANGED <<daemon, receipts, worker, result>>

CancelStep(k) == StopWorker(k) \/ FinishCancel(k)
RecoverStep(k) == Recover(k) \/ InspectWorker(k) \/ RecoverWorker(k) \/ RecoverPublish(k)
=============================================================================
