------------------------- MODULE RunLifecycleProofs -------------------------
(***************************************************************************)
(* What holds of a run for every limit, every number of requests and       *)
(* failures, with or without review: its types and repair limits, that a   *)
(* cancellation sticks, that a candidate is applied at most once and only  *)
(* when accepted, what a finished run leaves, and that the work of its     *)
(* tasks is finite.                                                        *)
(***************************************************************************)
EXTENDS RunLifecycle, TLAPS

-----------------------------------------------------------------------------
(* The record.  Without progress a run pauses at the limit, and such a     *)
(* pause can only be canceled: the counter never passes the limit.         *)

Exhausted ==
    run.noProgress = NoProgressLimit =>
      /\ run.phase \in {"PAUSED", "CANCELING", "CANCELED"}
      /\ run.phase = "PAUSED" => run.pause \in {"INSPECT_ONLY", "PROCESS_RECONCILIATION"}

RecordOK ==
    /\ run \in Run /\ Exhausted
    /\ result \in {"none", "COMMITTED", "CONFLICT", "UNKNOWN"}

LEMMA PauseCodes ==
    PauseCode = {"PROBE_FAILED", "ATTEMPT_FAILED", "ATTEMPT_ENDED", "INSPECT_ONLY",
                 "STAGE_FAILED", "PUBLISH_STAGE_FAILED", "HOST_REVIEW_UNAVAILABLE",
                 "AUTOMATIC_REPAIR_LIMIT", "PROCESS_RECONCILIATION", "PUBLISH_BUSY",
                 "PRECHECK_CONFLICT", "MANUAL_PUBLISH_TARGET_MISMATCH"}
BY DEF PauseCode, ResumeActions

\* What the operators that change a record leave alone.
LEMMA PhaseSet ==
    ASSUME run \in Run, NEW p \in Phase
    PROVE  /\ SetPhase(p) \in Run
           /\ SetPhase(p).phase = p /\ SetPhase(p).noProgress = run.noProgress
BY DEF SetPhase, Run

LEMMA Paused ==
    ASSUME run \in Run, NEW c \in PauseCode
    PROVE  /\ Pause(c) \in Run
           /\ Pause(c).phase = "PAUSED" /\ Pause(c).pause = c
           /\ Pause(c).noProgress = run.noProgress
BY DEF Pause, Run, Phase

LEMMA ItemsChanged ==
    ASSUME NEW r \in Run, NEW out, NEW in \in SUBSET Item
    PROVE  /\ Items(r, out, in) \in Run
           /\ Items(r, out, in).phase = r.phase /\ Items(r, out, in).pause = r.pause
           /\ Items(r, out, in).noProgress = r.noProgress
BY DEF Items, Run

LEMMA AttemptSet ==
    ASSUME NEW r \in Run, NEW a \in AttemptStatus
    PROVE  [r EXCEPT !.attempt = a, !.pause = "none"] \in Run
BY DEF Run

LEMMA NoProgressSet ==
    ASSUME NEW r \in Run, NEW n \in 0 .. NoProgressLimit, NEW s \in PublishStatus
    PROVE  /\ [r EXCEPT !.noProgress = n] \in Run
           /\ [r EXCEPT !.noProgress = n].phase = r.phase
           /\ [r EXCEPT !.noProgress = n].pause = r.pause
           /\ [r EXCEPT !.noProgress = n, !.publish = s] \in Run
           /\ [r EXCEPT !.noProgress = n, !.publish = s].noProgress = n
BY DEF Run

LEMMA CompletedRecord ==
    ASSUME NEW k \in Key, Completed(k), RecordOK
    PROVE  RecordOK'
<1>1. run \in Run /\ result' = result BY DEF RecordOK, Completed, Rest
<1>2. CASE Running(k)
  <2>1. run' = [run EXCEPT !.attempt = "COMPLETED", !.pause = "none"]
        BY <1>2 DEF Completed, Save
  <2>2. "COMPLETED" \in AttemptStatus BY DEF AttemptStatus
  <2>3. run' \in Run BY <1>1, <2>1, <2>2, AttemptSet
  <2>4. run'.phase = "RUNNING" /\ run'.noProgress = run.noProgress
        BY <1>1, <1>2, <2>1 DEF Run, Running
  <2>5. QED BY <1>1, <1>2, <2>3, <2>4 DEF RecordOK, Exhausted, Running
<1>3. CASE ~Running(k)
  <2>1. run' = run BY <1>3 DEF Completed, Unsaved
  <2>2. QED BY <1>1, <2>1 DEF RecordOK, Exhausted
<1>4. QED BY <1>2, <1>3

LEMMA RepairRecord ==
    ASSUME NEW k \in Key, Repair(k), RecordOK
    PROVE  RecordOK'
<1>1. run \in Run /\ result' = result BY DEF RecordOK, Repair, ExceptTask
<1>2. CASE run' = run BY <1>1, <1>2 DEF RecordOK, Exhausted
<1>3. CASE run' = Pause("INSPECT_ONLY")
  <2>1. "INSPECT_ONLY" \in PauseCode BY PauseCodes
  <2>2. QED BY <1>1, <1>3, <2>1, Paused DEF RecordOK, Exhausted
<1>4. ASSUME run' # run, run' # Pause("INSPECT_ONLY")
      PROVE  RecordOK'
  <2>1. run.phase = "FIXING" BY <1>4 DEF Repair, Unsaved
  <2>2. run.noProgress \in 0 .. NoProgressLimit /\ run.noProgress # NoProgressLimit
        BY <1>1, <2>1 DEF RecordOK, Exhausted, Run
  <2> DEFINE paused(n) == [Pause("INSPECT_ONLY") EXCEPT !.noProgress = n]
             going(n) == [SetPhase("PREPARING") EXCEPT !.noProgress = n, !.publish = "none"]
             marks == IF "empty" \in run.items THEN {"round", "emptyRound"} ELSE {"round"}
  <2>3. PICK n \in NoProgressAfter :
          \/ n >= NoProgressLimit /\ run' = paused(n)
          \/ n < NoProgressLimit /\ run' = Items(going(n), Item \ {"identity"}, marks)
        BY <1>4, <2>1 DEF Repair, Save
  <2>4. n \in 0 .. NoProgressLimit
    <3>1. n \in {0, run.noProgress + 1} BY DEF NoProgressAfter
    <3>2. QED BY <2>2, <3>1, LimitsAssumption
  <2>5. CASE n >= NoProgressLimit /\ run' = paused(n)
    <3>1. "INSPECT_ONLY" \in PauseCode BY PauseCodes
    <3>2. /\ Pause("INSPECT_ONLY") \in Run /\ Pause("INSPECT_ONLY").phase = "PAUSED"
          /\ Pause("INSPECT_ONLY").pause = "INSPECT_ONLY"
          BY <1>1, <3>1, Paused
    <3>3. run' \in Run /\ run'.phase = "PAUSED" /\ run'.pause = "INSPECT_ONLY"
      <4>1. "none" \in PublishStatus BY DEF PublishStatus
      <4>2. QED BY <2>4, <2>5, <3>2, <4>1, NoProgressSet
    <3>4. QED BY <1>1, <3>3 DEF RecordOK, Exhausted
  <2>6. CASE n < NoProgressLimit /\ run' = Items(going(n), Item \ {"identity"}, marks)
    <3>1. SetPhase("PREPARING") \in Run
          BY <1>1, PhaseSet DEF Phase, Automatic
    <3>2. "none" \in PublishStatus BY DEF PublishStatus
    <3>3. going(n) \in Run /\ going(n).noProgress = n
          BY <2>4, <3>1, <3>2, NoProgressSet
    <3>4. marks \in SUBSET Item BY DEF Item
    <3> HIDE DEF going, marks
    <3>5. run' \in Run /\ run'.noProgress = n BY <2>6, <3>3, <3>4, ItemsChanged
    <3>6. n # NoProgressLimit BY <2>4, <2>6, LimitsAssumption
    <3>7. QED BY <1>1, <3>5, <3>6 DEF RecordOK, Exhausted
  <2>7. QED BY <2>3, <2>5, <2>6
<1>5. QED BY <1>2, <1>3, <1>4

LEMMA WorkerRecord ==
    ASSUME NEW k \in Key, WorkerStep(k), RecordOK
    PROVE  RecordOK'
<1> USE PauseCodes, PhaseSet, Paused, ItemsChanged DEF RecordOK, Exhausted,
           Save, Unsaved, Snapshot, Run, Phase, Automatic, Terminal,
           AttemptStatus, ActiveAttempt, PublishStatus, Item, ExceptTask, Rest
<1>1. CASE Enter(k) BY <1>1 DEF Enter
<1>2. CASE Initial(k) BY <1>2 DEF Initial
<1>3. CASE ProbeFails(k) BY <1>3 DEF ProbeFails
<1>4. CASE Prepare(k) BY <1>4 DEF Prepare
<1>5. CASE PrepareRefused(k) BY <1>5 DEF PrepareRefused
<1>6. CASE BeginAttempt(k) BY <1>6 DEF BeginAttempt
<1>7. CASE Spawn(k) BY <1>7 DEF Spawn
<1>8. CASE Started(k) BY <1>8 DEF Started, Running
<1>9. CASE Disowned(k) BY <1>9 DEF Disowned
<1>10. CASE Completed(k) BY <1>10, CompletedRecord DEF RecordOK
<1>11. CASE AttemptEnds(k) BY <1>11 DEF AttemptEnds, Running
<1>12. CASE Reconcile(k) BY <1>12 DEF Reconcile
<1>13. CASE CaptureCandidate(k) BY <1>13 DEF CaptureCandidate, Running
<1>14. CASE After(k) BY <1>14 DEF After
<1>15. CASE Repair(k) BY <1>15, RepairRecord DEF RecordOK
<1> QED BY <1>1, <1>2, <1>3, <1>4, <1>5, <1>6, <1>7, <1>8, <1>9, <1>10,
           <1>11, <1>12, <1>13, <1>14, <1>15 DEF WorkerStep

LEMMA ReviewRecord ==
    ASSUME NEW k \in Key, ReviewStep(k), RecordOK
    PROVE  RecordOK'
<1> USE PauseCodes, PhaseSet, Paused, ItemsChanged DEF RecordOK, Exhausted,
           Save, Unsaved, Run, Phase, Automatic, Terminal, AttemptStatus,
           ActiveAttempt, PublishStatus, Item, ExceptTask
<1>1. CASE Review(k) BY <1>1 DEF Review
<1>2. CASE ReviewLapses(k) BY <1>2 DEF ReviewLapses
<1>3. CASE Accept(k) BY <1>3 DEF Accept, ReviewActive
<1>4. CASE OrderRepair(k)
  <2>1. result' = result /\ run.phase = "REVIEWING"
        BY <1>4 DEF OrderRepair, ReviewActive
  <2>2. CASE run.rounds < RepairLimit
    <3> DEFINE r == [SetPhase("FIXING") EXCEPT !.rounds = @ + 1]
    <3>1. run' = Items(r, {"action"}, {})
          BY <1>4, <2>2, LimitsAssumption DEF OrderRepair
    <3>2. r \in Run /\ r.noProgress = run.noProgress
      <4>1. SetPhase("FIXING") \in Run /\ SetPhase("FIXING").rounds = run.rounds
            /\ SetPhase("FIXING").noProgress = run.noProgress
            BY PhaseSet DEF SetPhase
      <4>2. run.rounds + 1 \in 0 .. RepairLimit BY <2>2, LimitsAssumption
      <4>3. QED BY <4>1, <4>2
    <3> HIDE DEF r
    <3>3. run' \in Run /\ run'.noProgress = run.noProgress
          BY <3>1, <3>2, ItemsChanged
    <3>4. QED BY <2>1, <3>3
  <2>3. CASE run.rounds >= RepairLimit
    <3>1. run' = Items(Pause("AUTOMATIC_REPAIR_LIMIT"), {"action"}, {})
          BY <1>4, <2>3, LimitsAssumption DEF OrderRepair
    <3>2. "AUTOMATIC_REPAIR_LIMIT" \in PauseCode BY PauseCodes
    <3>3. run' \in Run /\ run'.noProgress = run.noProgress
          BY <3>1, <3>2, Paused, ItemsChanged
    <3>4. QED BY <2>1, <3>3
  <2>4. QED BY <2>2, <2>3, LimitsAssumption
<1>5. CASE ReviewExhausted(k) BY <1>5 DEF ReviewExhausted, ReviewActive
<1> QED BY <1>1, <1>2, <1>3, <1>4, <1>5 DEF ReviewStep

LEMMA PublishRecord ==
    ASSUME NEW k \in Key, PublishStep(k), RecordOK
    PROVE  RecordOK'
<1> USE PauseCodes, PhaseSet, Paused, ItemsChanged DEF RecordOK, Exhausted,
           Save, Unsaved, Run, Phase, Automatic, Terminal, AttemptStatus,
           ActiveAttempt, PublishStatus, Item, ExceptTask, In, Refused
<1>1. CASE Publish(k) BY <1>1 DEF Publish
<1>2. CASE ConfirmManually(k) BY <1>2 DEF ConfirmManually
<1>3. CASE AcquireLease(k) BY <1>3 DEF AcquireLease
<1>4. CASE Preflight(k) BY <1>4 DEF Preflight
<1>5. CASE ReleaseLease(k) BY <1>5 DEF ReleaseLease
<1>6. CASE ReadAttempt(k) BY <1>6 DEF ReadAttempt
<1>7. CASE PrepareAttempt(k) BY <1>7 DEF PrepareAttempt
<1>8. CASE BeginRecovery(k)
  <2>1. result' = result BY <1>8 DEF BeginRecovery
  <2>2. DOMAIN BindPoint \subseteq PublishStatus BY DEF BindPoint
  <2>3. PICK s \in PublishStatus :
          \/ run' = run
          \/ /\ run.phase \in {"READY_TO_PUBLISH", "PUBLISHING"}
             /\ run' = [SetPhase("PUBLISHING") EXCEPT !.publish = s]
    <3>1. PICK s \in DOMAIN BindPoint :
            /\ at[k] = BindPoint[s]
            /\ LET next == IF s = "PREPARED" THEN "submit" ELSE "observe" IN
               CASE <<"begin", s>> \in receipts -> Goto(k, next) /\ Unsaved /\ UNCHANGED receipts
                 [] <<"begin", s>> \notin receipts /\ In(k, {"READY_TO_PUBLISH", "PUBLISHING"}) ->
                      /\ Save([SetPhase("PUBLISHING") EXCEPT !.publish = s])
                      /\ receipts' = receipts \cup {<<"begin", s>>}
                      /\ Goto(k, next)
                 [] OTHER -> Refused(k) /\ UNCHANGED receipts
          BY <1>8 DEF BeginRecovery
    <3>2. CASE <<"begin", s>> \in receipts BY <2>2, <3>1, <3>2
    <3>3. CASE /\ <<"begin", s>> \notin receipts
               /\ In(k, {"READY_TO_PUBLISH", "PUBLISHING"})
          BY <2>2, <3>1, <3>3
    <3>4. CASE /\ <<"begin", s>> \notin receipts
               /\ ~In(k, {"READY_TO_PUBLISH", "PUBLISHING"})
          BY <2>2, <3>1, <3>4
    <3>5. QED BY <3>2, <3>3, <3>4
  <2>4. CASE run' = run BY <2>1, <2>4
  <2>5. CASE /\ run.phase \in {"READY_TO_PUBLISH", "PUBLISHING"}
             /\ run' = [SetPhase("PUBLISHING") EXCEPT !.publish = s]
    <3>1. run' \in Run /\ run'.noProgress = run.noProgress BY <2>5, PhaseSet
    <3>2. QED BY <2>1, <2>5, <3>1
  <2>6. QED BY <2>3, <2>4, <2>5
<1>9. CASE Submit(k) BY <1>9 DEF Submit, Submittable
<1>10. CASE Apply(k) BY <1>10 DEF Apply
<1>11. CASE Complete(k) BY <1>11 DEF Complete
<1>12. CASE NothingObserved(k) BY <1>12 DEF NothingObserved
<1>13. CASE ReportOutcome(k) BY <1>13 DEF ReportOutcome
<1>14. CASE ReportObstacle(k) BY <1>14 DEF ReportObstacle
<1> QED BY <1>1, <1>2, <1>3, <1>4, <1>5, <1>6, <1>7, <1>8, <1>9, <1>10,
           <1>11, <1>12, <1>13, <1>14 DEF PublishStep

LEMMA CancelRecord ==
    ASSUME NEW k \in Key, CancelStep(k), RecordOK
    PROVE  RecordOK'
<1> USE PauseCodes, PhaseSet, Paused, ItemsChanged DEF RecordOK, Exhausted,
           Save, Unsaved, Run, Phase, Automatic, Terminal, AttemptStatus,
           ActiveAttempt, PublishStatus, Item, ExceptTask
<1>1. CASE StopWorker(k) BY <1>1 DEF StopWorker, StopOwn, StopPersisted
<1>2. CASE FinishCancel(k) BY <1>2 DEF FinishCancel, CommitCanceled, CommitBlocked, Ended
<1> QED BY <1>1, <1>2 DEF CancelStep

LEMMA RecoverRecord ==
    ASSUME NEW k \in Key, RecoverStep(k), RecordOK
    PROVE  RecordOK'
<1> USE PauseCodes, PhaseSet, Paused, ItemsChanged DEF RecordOK, Exhausted,
           Save, Unsaved, Snapshot, Run, Phase, Automatic, Terminal,
           AttemptStatus, ActiveAttempt, PublishStatus, Item, ExceptTask
<1>1. CASE Recover(k) BY <1>1 DEF Recover
<1>2. CASE InspectWorker(k) BY <1>2 DEF InspectWorker, StopPersisted
<1>3. CASE RecoverWorker(k) BY <1>3 DEF RecoverWorker, Ended, Unmoved
<1>4. CASE RecoverPublish(k) BY <1>4 DEF RecoverPublish, Unmoved
<1> QED BY <1>1, <1>2, <1>3, <1>4 DEF RecoverStep

-----------------------------------------------------------------------------
(* The tasks: only a task that is under way is unbound, stale or current. *)

TasksOK ==
    /\ at \in [Key -> Point]
    /\ unbound \subseteq Live /\ stale \subseteq Live /\ current \subseteq Live

LEMMA PointSet ==
    Point = {"none", "start", "failed",
             "enter", "initial", "probing", "begin", "spawn", "spawned",
             "streaming", "reconcile", "capture", "after", "repair",
             "review", "reviewing",
             "publish", "confirm", "acquire", "preflight", "release", "existing",
             "prepare", "bindPrepared", "bindSubmitted", "bindUnknown",
             "bindConflict", "observe", "submit", "applying", "complete",
             "committed", "blocked", "busy", "conflicted",
             "cancel", "stopped", "unstopped",
             "recover", "workerStopped", "workerUnknown", "reconcilePublish"}
BY DEF Point, WorkerPoints, ReviewPoints, PublishPoints, CancelPoints, RecoverPoints

LEMMA GotoKeeps ==
    ASSUME TasksOK, NEW k \in Key, NEW p \in Point \ {"none"}, Goto(k, p)
    PROVE  TasksOK'
<1>1. at' \in [Key -> Point] /\ at' = [at EXCEPT ![k] = p]
      BY DEF TasksOK, Goto
<1>2. Live \subseteq Live' BY <1>1 DEF TasksOK, Live
<1>3. current' \subseteq current /\ unbound' = unbound /\ stale' = stale BY DEF Goto
<1>4. QED BY <1>1, <1>2, <1>3 DEF TasksOK

LEMMA CaptureKeeps ==
    ASSUME TasksOK, NEW k \in Key, NEW p \in Point \ {"none"}, Capture(k, p)
    PROVE  TasksOK'
<1>1. at' \in [Key -> Point] /\ at' = [at EXCEPT ![k] = p]
      BY DEF TasksOK, Capture
<1>2. Live \cup {k} \subseteq Live' BY <1>1 DEF TasksOK, Live
<1>3. current' \subseteq current \cup {k} /\ unbound' = unbound /\ stale' = stale
      BY DEF Capture
<1>4. QED BY <1>1, <1>2, <1>3 DEF TasksOK

LEMMA EndKeeps ==
    ASSUME TasksOK, NEW k \in Key, End(k)
    PROVE  TasksOK'
<1>1. at' \in [Key -> Point] /\ at' = [at EXCEPT ![k] = "none"]
      BY PointSet DEF TasksOK, End
<1>2. Live \ {k} \subseteq Live' BY <1>1 DEF TasksOK, Live
<1>3. /\ current' = current \ {k} /\ unbound' = unbound \ {k} /\ stale' = stale \ {k}
      BY DEF End
<1>4. QED BY <1>1, <1>2, <1>3 DEF TasksOK

LEMMA ScheduleKeeps ==
    ASSUME TasksOK, NEW k \in Key, Schedule(k)
    PROVE  TasksOK'
<1>1. CASE at[k] = "none"
  <2>1. at' \in [Key -> Point] /\ at' = [at EXCEPT ![k] = "start"]
        BY <1>1, PointSet DEF TasksOK, Schedule
  <2>2. Live \cup {k} \subseteq Live' BY <2>1 DEF TasksOK, Live
  <2>3. current' = current /\ unbound' \subseteq unbound \cup {k} /\ stale' = stale
        BY <1>1 DEF Schedule
  <2>4. QED BY <2>1, <2>2, <2>3 DEF TasksOK
<1>2. CASE at[k] # "none" BY <1>2 DEF TasksOK, Schedule, taskVars, Live
<1>3. QED BY <1>1, <1>2

LEMMA WorkerTasks ==
    ASSUME NEW k \in Key, WorkerStep(k), TasksOK, run \in Run
    PROVE  TasksOK'
<1> USE PointSet, GotoKeeps, CaptureKeeps, EndKeeps
<1>1. CASE Enter(k) BY <1>1 DEF Enter
<1>2. CASE Initial(k) BY <1>2 DEF Initial
<1>3. CASE ProbeFails(k) BY <1>3 DEF ProbeFails
<1>4. CASE Prepare(k) BY <1>4 DEF Prepare
<1>5. CASE PrepareRefused(k) BY <1>5 DEF PrepareRefused
<1>6. CASE BeginAttempt(k)
  <2>1. CASE Goto(k, "failed") BY <2>1
  <2>2. CASE ~Goto(k, "failed")
    <3>1. /\ at' = [at EXCEPT ![k] = "spawn"]
          /\ current' = {k} /\ unbound' = unbound
          /\ stale' = stale \cup (Live \ unbound)
          BY <1>6, <2>2 DEF BeginAttempt
    <3>2. at' \in [Key -> Point] BY <3>1 DEF TasksOK
    <3>3. Live \cup {k} \subseteq Live' BY <3>1, <3>2 DEF TasksOK, Live
    <3>4. QED BY <3>1, <3>2, <3>3 DEF TasksOK
  <2>3. QED BY <2>1, <2>2
<1>7. CASE Spawn(k) BY <1>7 DEF Spawn
<1>8. CASE Started(k) BY <1>8 DEF Started
<1>9. CASE Disowned(k) BY <1>9 DEF Disowned
<1>10. CASE Completed(k) BY <1>10 DEF Completed
<1>11. CASE AttemptEnds(k) BY <1>11 DEF AttemptEnds
<1>12. CASE Reconcile(k) BY <1>12 DEF Reconcile
<1>13. CASE CaptureCandidate(k) BY <1>13 DEF CaptureCandidate
<1>14. CASE After(k) BY <1>14 DEF After
<1>15. CASE Repair(k) BY <1>15 DEF Repair
<1> QED BY <1>1, <1>2, <1>3, <1>4, <1>5, <1>6, <1>7, <1>8, <1>9, <1>10,
           <1>11, <1>12, <1>13, <1>14, <1>15 DEF WorkerStep

LEMMA ReviewTasks ==
    ASSUME NEW k \in Key, ReviewStep(k), TasksOK, run \in Run
    PROVE  TasksOK'
<1> USE PointSet, GotoKeeps, CaptureKeeps, EndKeeps
<1>1. CASE Review(k) BY <1>1 DEF Review
<1>2. CASE ReviewLapses(k) BY <1>2 DEF ReviewLapses
<1>3. CASE Accept(k) BY <1>3 DEF Accept
<1>4. CASE OrderRepair(k) BY <1>4 DEF OrderRepair
<1>5. CASE ReviewExhausted(k)
  <2>1. /\ at' = [at EXCEPT ![k] = "none"]
        /\ current' \subseteq current \ {k}
        /\ unbound' = unbound \ {k} /\ stale' = stale \ {k}
        BY <1>5 DEF ReviewExhausted
  <2>2. at' \in [Key -> Point] BY <2>1 DEF TasksOK
  <2>3. Live \ {k} \subseteq Live' BY <2>1, <2>2 DEF TasksOK, Live
  <2>4. QED BY <2>1, <2>2, <2>3 DEF TasksOK
<1> QED BY <1>1, <1>2, <1>3, <1>4, <1>5 DEF ReviewStep

LEMMA PublishTasks ==
    ASSUME NEW k \in Key, PublishStep(k), TasksOK, run \in Run
    PROVE  TasksOK'
<1> USE PointSet, GotoKeeps, CaptureKeeps, EndKeeps DEF Refused
<1>1. CASE Publish(k) BY <1>1 DEF Publish
<1>2. CASE ConfirmManually(k) BY <1>2 DEF ConfirmManually
<1>3. CASE AcquireLease(k) BY <1>3 DEF AcquireLease
<1>4. CASE Preflight(k) BY <1>4 DEF Preflight
<1>5. CASE ReleaseLease(k) BY <1>5 DEF ReleaseLease
<1>6. CASE ReadAttempt(k)
  <2>1. run.publish \in PublishStatus BY DEF Run
  <2>2. run.publish \in {"none", "COMMITTED"}
        \/ BindPoint[run.publish] \in Point \ {"none"}
        BY <2>1, PointSet DEF PublishStatus, BindPoint
  <2>3. \E p \in Point \ {"none"} : Goto(k, p)
        BY <1>6, <2>2, PointSet DEF ReadAttempt
  <2>4. QED BY <2>3
<1>7. CASE PrepareAttempt(k) BY <1>7 DEF PrepareAttempt
<1>8. CASE BeginRecovery(k) BY <1>8 DEF BeginRecovery
<1>9. CASE Submit(k) BY <1>9 DEF Submit
<1>10. CASE Apply(k) BY <1>10 DEF Apply
<1>11. CASE Complete(k) BY <1>11 DEF Complete
<1>12. CASE NothingObserved(k) BY <1>12 DEF NothingObserved
<1>13. CASE ReportOutcome(k) BY <1>13 DEF ReportOutcome
<1>14. CASE ReportObstacle(k) BY <1>14 DEF ReportObstacle
<1> QED BY <1>1, <1>2, <1>3, <1>4, <1>5, <1>6, <1>7, <1>8, <1>9, <1>10,
           <1>11, <1>12, <1>13, <1>14 DEF PublishStep

LEMMA CancelTasks ==
    ASSUME NEW k \in Key, CancelStep(k), TasksOK, run \in Run
    PROVE  TasksOK'
<1> USE PointSet, GotoKeeps, CaptureKeeps, EndKeeps
<1>1. CASE StopWorker(k) BY <1>1 DEF StopWorker, StopOwn, StopPersisted
<1>2. CASE FinishCancel(k) BY <1>2 DEF FinishCancel, CommitCanceled, CommitBlocked
<1> QED BY <1>1, <1>2 DEF CancelStep

LEMMA RecoverTasks ==
    ASSUME NEW k \in Key, RecoverStep(k), TasksOK, run \in Run
    PROVE  TasksOK'
<1> USE PointSet, GotoKeeps, CaptureKeeps, EndKeeps
<1>1. CASE Recover(k)
  <2>1. \A p \in DOMAIN RecoveryPoint : RecoveryPoint[p] \in Point \ {"none"}
        BY PointSet DEF RecoveryPoint
  <2>2. (\E p \in Point \ {"none"} : Goto(k, p)) \/ End(k)
        BY <1>1, <2>1 DEF Recover
  <2>3. QED BY <2>2
<1>2. CASE InspectWorker(k) BY <1>2 DEF InspectWorker, StopPersisted
<1>3. CASE RecoverWorker(k) BY <1>3 DEF RecoverWorker
<1>4. CASE RecoverPublish(k) BY <1>4 DEF RecoverPublish
<1> QED BY <1>1, <1>2, <1>3, <1>4 DEF RecoverStep

-----------------------------------------------------------------------------
(* What is around the run: the lease, the workers, the snapshots. *)

WorldOK ==
    /\ lease \in {"free", "mine", "other"}
    /\ worker \subseteq {"registered", "running", "old"}
    /\ fresh \subseteq Key
    /\ daemon \in {"up", "down"}

LEMMA WorkerWorld ==
    ASSUME NEW k \in Key, WorkerStep(k), WorldOK
    PROVE  WorldOK'
<1> USE DEF WorldOK, Save, Unsaved, Snapshot, ExceptTask, Rest
<1>1. CASE Enter(k) BY <1>1 DEF Enter
<1>2. CASE Initial(k) BY <1>2 DEF Initial
<1>3. CASE ProbeFails(k) BY <1>3 DEF ProbeFails
<1>4. CASE Prepare(k) BY <1>4 DEF Prepare
<1>5. CASE PrepareRefused(k) BY <1>5 DEF PrepareRefused
<1>6. CASE BeginAttempt(k) BY <1>6 DEF BeginAttempt
<1>7. CASE Spawn(k) BY <1>7 DEF Spawn
<1>8. CASE Started(k) BY <1>8 DEF Started
<1>9. CASE Disowned(k) BY <1>9 DEF Disowned
<1>10. CASE Completed(k) BY <1>10 DEF Completed
<1>11. CASE AttemptEnds(k) BY <1>11 DEF AttemptEnds
<1>12. CASE Reconcile(k) BY <1>12 DEF Reconcile, Stopping
<1>13. CASE CaptureCandidate(k) BY <1>13 DEF CaptureCandidate
<1>14. CASE After(k) BY <1>14 DEF After
<1>15. CASE Repair(k) BY <1>15 DEF Repair
<1> QED BY <1>1, <1>2, <1>3, <1>4, <1>5, <1>6, <1>7, <1>8, <1>9, <1>10,
           <1>11, <1>12, <1>13, <1>14, <1>15 DEF WorkerStep

LEMMA ReviewWorld ==
    ASSUME NEW k \in Key, ReviewStep(k), WorldOK
    PROVE  WorldOK'
<1> USE DEF WorldOK, Save, Unsaved, ExceptTask
<1>1. CASE Review(k) BY <1>1 DEF Review
<1>2. CASE ReviewLapses(k) BY <1>2 DEF ReviewLapses
<1>3. CASE Accept(k) BY <1>3 DEF Accept
<1>4. CASE OrderRepair(k) BY <1>4 DEF OrderRepair
<1>5. CASE ReviewExhausted(k) BY <1>5 DEF ReviewExhausted
<1> QED BY <1>1, <1>2, <1>3, <1>4, <1>5 DEF ReviewStep

LEMMA PublishWorld ==
    ASSUME NEW k \in Key, PublishStep(k), WorldOK
    PROVE  WorldOK'
<1> USE DEF WorldOK, Save, Unsaved, ExceptTask, In, Refused
<1>1. CASE Publish(k) BY <1>1 DEF Publish
<1>2. CASE ConfirmManually(k) BY <1>2 DEF ConfirmManually
<1>3. CASE AcquireLease(k) BY <1>3 DEF AcquireLease
<1>4. CASE Preflight(k) BY <1>4 DEF Preflight
<1>5. CASE ReleaseLease(k) BY <1>5 DEF ReleaseLease
<1>6. CASE ReadAttempt(k) BY <1>6 DEF ReadAttempt
<1>7. CASE PrepareAttempt(k) BY <1>7 DEF PrepareAttempt
<1>8. CASE BeginRecovery(k) BY <1>8 DEF BeginRecovery
<1>9. CASE Submit(k) BY <1>9 DEF Submit
<1>10. CASE Apply(k) BY <1>10 DEF Apply
<1>11. CASE Complete(k) BY <1>11 DEF Complete
<1>12. CASE NothingObserved(k) BY <1>12 DEF NothingObserved
<1>13. CASE ReportOutcome(k) BY <1>13 DEF ReportOutcome
<1>14. CASE ReportObstacle(k) BY <1>14 DEF ReportObstacle
<1> QED BY <1>1, <1>2, <1>3, <1>4, <1>5, <1>6, <1>7, <1>8, <1>9, <1>10,
           <1>11, <1>12, <1>13, <1>14 DEF PublishStep

LEMMA CancelWorld ==
    ASSUME NEW k \in Key, CancelStep(k), WorldOK
    PROVE  WorldOK'
<1> USE DEF WorldOK, Save, Unsaved, ExceptTask
<1>1. CASE StopWorker(k) BY <1>1 DEF StopWorker, StopOwn, StopPersisted
<1>2. CASE FinishCancel(k) BY <1>2 DEF FinishCancel, CommitCanceled, CommitBlocked
<1> QED BY <1>1, <1>2 DEF CancelStep

LEMMA RecoverWorld ==
    ASSUME NEW k \in Key, RecoverStep(k), WorldOK
    PROVE  WorldOK'
<1> USE DEF WorldOK, Save, Unsaved, Snapshot, ExceptTask
<1>1. CASE Recover(k) BY <1>1 DEF Recover
<1>2. CASE InspectWorker(k) BY <1>2 DEF InspectWorker, StopPersisted
<1>3. CASE RecoverWorker(k) BY <1>3 DEF RecoverWorker
<1>4. CASE RecoverPublish(k) BY <1>4 DEF RecoverPublish
<1> QED BY <1>1, <1>2, <1>3, <1>4 DEF RecoverStep

-----------------------------------------------------------------------------
(* The types of the whole. *)

IInv ==
    /\ RecordOK /\ TasksOK /\ WorldOK
    /\ requests \in 0 .. Requests /\ failures \in 0 .. Failures

LEMMA IInvInit == Init => IInv
<1> SUFFICES ASSUME Init PROVE IInv OBVIOUS
<1>1. RecordOK
      BY LimitsAssumption DEF Init, RecordOK, Exhausted, Run, Phase, Automatic,
         AttemptStatus, PublishStatus
<1>2. TasksOK BY PointSet DEF Init, TasksOK, Live, Key
<1>3. WorldOK BY DEF Init, WorldOK
<1>4. QED BY <1>1, <1>2, <1>3, BoundsAssumption DEF Init, IInv

\* The first and the last step of a task.
LEMMA EndsRecord ==
    ASSUME NEW k \in Key, RecordOK, TasksOK, WorldOK,
           Start(k) \/ Fail(k) \/ Throw(k)
    PROVE  RecordOK' /\ TasksOK' /\ WorldOK'
<1> USE PointSet, GotoKeeps, EndKeeps DEF ExceptTask
<1>1. CASE Start(k)
  <2>1. \A j \in Key : EntryPoint[j] \in Point \ {"none"} BY DEF EntryPoint, Key
  <2>2. TasksOK' BY <1>1, <2>1 DEF Start
  <2>3. RecordOK' /\ WorldOK'
        BY <1>1 DEF Start, Unsaved, RecordOK, Exhausted, WorldOK
  <2>4. QED BY <2>2, <2>3
<1>2. CASE Fail(k)
  <2>1. TasksOK' BY <1>2 DEF Fail
  <2>2. WorldOK' BY <1>2 DEF Fail, Save, Unsaved, WorldOK
  <2>3. result' = result BY <1>2 DEF Fail
  <2>4. CASE run' = run BY <2>1, <2>2, <2>3, <2>4 DEF RecordOK, Exhausted
  <2>5. CASE run' # run
    <3>1. run' = Pause(FailureCode(k)) /\ run.phase \notin {"PAUSED", "CANCELING", "CANCELED"}
          BY <1>2, <2>5 DEF Fail, Save, Unsaved, Terminal
    <3>2. FailureCode(k) \in PauseCode BY PauseCodes DEF FailureCode
    <3>3. run' \in Run /\ run'.noProgress = run.noProgress
          BY <3>1, <3>2, Paused DEF RecordOK
    <3>4. QED BY <2>1, <2>2, <2>3, <3>1, <3>3 DEF RecordOK, Exhausted
  <2>6. QED BY <2>1, <2>2, <2>4, <2>5
<1>3. CASE Throw(k)
  <2>1. TasksOK' BY <1>3 DEF Throw
  <2>2. RecordOK' /\ WorldOK'
        BY <1>3 DEF Throw, RecordOK, Exhausted, WorldOK
  <2>3. QED BY <2>1, <2>2
<1>4. QED BY <1>1, <1>2, <1>3

LEMMA StepKeeps ==
    ASSUME NEW k \in Key, RecordOK, TasksOK, WorldOK, Step(k)
    PROVE  RecordOK' /\ TasksOK' /\ WorldOK'
<1>1. run \in Run BY DEF RecordOK
<1>2. CASE Start(k) \/ Fail(k) BY <1>2, EndsRecord
<1>3. CASE WorkerStep(k) BY <1>1, <1>3, WorkerRecord, WorkerTasks, WorkerWorld
<1>4. CASE ReviewStep(k) BY <1>1, <1>4, ReviewRecord, ReviewTasks, ReviewWorld
<1>5. CASE PublishStep(k) BY <1>1, <1>5, PublishRecord, PublishTasks, PublishWorld
<1>6. CASE CancelStep(k) BY <1>1, <1>6, CancelRecord, CancelTasks, CancelWorld
<1>7. CASE RecoverStep(k) BY <1>1, <1>7, RecoverRecord, RecoverTasks, RecoverWorld
<1>8. QED BY <1>2, <1>3, <1>4, <1>5, <1>6, <1>7 DEF Step

\* What a client asks for.  Nothing but cancel is accepted of a run that has
\* come to the limit.
LEMMA ClientKeeps ==
    ASSUME RecordOK, TasksOK, WorldOK, Client
    PROVE  RecordOK' /\ TasksOK' /\ WorldOK'
<1> USE PhaseSet, ItemsChanged, ScheduleKeeps DEF Save, ExceptTask
<1>1. {"CANCELING", "PREPARING", "REVIEW_PENDING", "READY_TO_PUBLISH", "FIXING"} \subseteq Phase
      BY DEF Phase, Automatic
<1>2. WorldOK'
      BY DEF Client, Cancel, ResumeWorker, ResumeReview, ResumePublish,
             ResumeReviewDecision, WorldOK
<1>3. CASE Cancel
  <2>1. TasksOK' BY <1>3 DEF Cancel, Key
  <2>2. RecordOK' BY <1>1, <1>3 DEF Cancel, RecordOK, Exhausted
  <2>3. QED BY <1>2, <2>1, <2>2
<1>4. CASE ResumeWorker
  <2>1. TasksOK' BY <1>4 DEF ResumeWorker, Key
  <2>2. run.phase = "PAUSED" /\ run.pause \in {"PROBE_FAILED", "ATTEMPT_FAILED"}
        BY <1>4 DEF ResumeWorker, Resumable, Accepted
  <2>3. RecordOK' BY <1>1, <1>4, <2>2 DEF ResumeWorker, RecordOK, Exhausted
  <2>4. QED BY <1>2, <2>1, <2>3
<1>5. CASE ResumeReview
  <2>1. run.phase = "PAUSED" /\ run.pause = "HOST_REVIEW_UNAVAILABLE"
        BY <1>5 DEF ResumeReview, Resumable, Accepted
  <2>2. RecordOK' BY <1>1, <1>5, <2>1 DEF ResumeReview, RecordOK, Exhausted
  <2>3. /\ at' \in [Key -> Point] /\ Live \subseteq Live'
        BY <1>5, PointSet DEF ResumeReview, TasksOK, Live
  <2>4. current' \subseteq current /\ unbound' = unbound /\ stale' = stale
        BY <1>5 DEF ResumeReview
  <2>5. QED BY <1>2, <2>2, <2>3, <2>4 DEF TasksOK
<1>6. CASE ResumePublish
  <2>1. TasksOK' BY <1>6 DEF ResumePublish, Key
  <2>2. run.phase = "PAUSED" /\ run.pause \notin {"INSPECT_ONLY", "PROCESS_RECONCILIATION"}
        BY <1>6 DEF ResumePublish, Resumable, Accepted
  <2>3. run.noProgress # NoProgressLimit BY <2>2 DEF RecordOK, Exhausted
  <2>4. run' = SetPhase("READY_TO_PUBLISH") \/ run' = Items(SetPhase("READY_TO_PUBLISH"), {}, {"manual"})
        BY <1>6 DEF ResumePublish
  <2>5. {"manual"} \in SUBSET Item BY DEF Item
  <2>6. run' \in Run /\ run'.noProgress = run.noProgress
        BY <1>1, <2>4, <2>5 DEF RecordOK
  <2>7. result' = result BY <1>6 DEF ResumePublish
  <2>8. QED BY <1>2, <2>1, <2>3, <2>6, <2>7 DEF RecordOK, Exhausted
<1>7. CASE ResumeReviewDecision
  <2>1. TasksOK' BY <1>7 DEF ResumeReviewDecision, Key
  <2>2. run.phase = "PAUSED" /\ run.pause = "AUTOMATIC_REPAIR_LIMIT"
        BY <1>7 DEF ResumeReviewDecision, Resumable, Accepted
  <2>3. run.noProgress # NoProgressLimit BY <2>2 DEF RecordOK, Exhausted
  <2>4. SetPhase("FIXING") \in Run /\ SetPhase("FIXING").noProgress = run.noProgress
        BY <1>1 DEF RecordOK
  <2>5. run' = [SetPhase("FIXING") EXCEPT !.rounds = 1]
        BY <1>7 DEF ResumeReviewDecision
  <2>6. run' \in Run /\ run'.noProgress = run.noProgress
        BY <2>4, <2>5, LimitsAssumption DEF Run
  <2>7. result' = result BY <1>7 DEF ResumeReviewDecision
  <2>8. QED BY <1>2, <2>1, <2>3, <2>6, <2>7 DEF RecordOK, Exhausted
<1>8. QED BY <1>3, <1>4, <1>5, <1>6, <1>7 DEF Client

LEMMA EnvironmentKeeps ==
    ASSUME RecordOK, TasksOK, WorldOK, WorkerExits \/ OtherRuns \/ Crash \/ Boot
    PROVE  RecordOK' /\ TasksOK' /\ WorldOK'
<1>1. CASE WorkerExits
      BY <1>1 DEF WorkerExits, RecordOK, Exhausted, TasksOK, WorldOK, Live, taskVars
<1>2. CASE OtherRuns
      BY <1>2 DEF OtherRuns, RecordOK, Exhausted, TasksOK, WorldOK, Live, taskVars
<1>3. CASE Crash
  <2>1. TasksOK' BY <1>3, PointSet DEF Crash, TasksOK
  <2>2. QED BY <1>3, <2>1 DEF Crash, RecordOK, Exhausted, WorldOK
<1>4. CASE Boot
  <2>1. TasksOK'
    <3>1. CASE UNCHANGED taskVars BY <3>1 DEF TasksOK, Live, taskVars
    <3>2. CASE Schedule("recover") BY <3>2, ScheduleKeeps DEF Key
    <3>3. QED BY <1>4, <3>1, <3>2 DEF Boot
  <2>2. QED BY <1>4, <2>1 DEF Boot, Save, RecordOK, Exhausted, WorldOK
<1>5. QED BY <1>1, <1>2, <1>3, <1>4

LEMMA IInvNext == IInv /\ [Next]_<<vars, bounds>> => IInv'
<1> SUFFICES ASSUME IInv, [Next]_<<vars, bounds>> PROVE IInv' OBVIOUS
<1> USE DEF IInv
<1>1. ASSUME NEW k \in Key, Step(k), UNCHANGED bounds PROVE IInv'
      BY <1>1, StepKeeps DEF bounds
<1>2. CASE (WorkerExits \/ OtherRuns \/ Boot) /\ UNCHANGED bounds
      BY <1>2, EnvironmentKeeps DEF bounds
<1>3. CASE Client /\ requests > 0 /\ requests' = requests - 1 /\ UNCHANGED failures
      BY <1>3, ClientKeeps, BoundsAssumption
<1>4. CASE /\ Crash \/ \E k \in Key : Throw(k)
           /\ failures > 0 /\ failures' = failures - 1 /\ UNCHANGED requests
  <2>1. RecordOK' /\ TasksOK' /\ WorldOK' BY <1>4, EnvironmentKeeps, EndsRecord
  <2>2. QED BY <1>4, <2>1, BoundsAssumption
<1>5. CASE UNCHANGED <<vars, bounds>>
      BY <1>5 DEF vars, bounds, taskVars, RecordOK, Exhausted, TasksOK, WorldOK, Live
<1>6. QED BY <1>1, <1>2, <1>3, <1>4, <1>5 DEF Next

\* The state has its types, and the repair rounds and the attempts without
\* progress stay within their limits (review-decision.ts, repair-loop.ts), for
\* all limits and any number of requests and failures.
THEOREM TypeCorrect == Spec => []TypeOK
<1>1. IInv => TypeOK BY DEF IInv, RecordOK, TasksOK, WorldOK, TypeOK
<1>2. QED BY <1>1, IInvInit, IInvNext, PTL DEF Spec

-----------------------------------------------------------------------------
(* A cancellation sticks. *)

Sticks ==
    /\ run.phase = "CANCELING" =>
         \/ run'.phase \in {"CANCELING", "CANCELED"}
         \/ run'.phase = "PAUSED" /\ run'.pause = "PROCESS_RECONCILIATION"
    /\ run.phase \in Terminal => UNCHANGED run

LEMMA WorkerSticks ==
    ASSUME NEW k \in Key, WorkerStep(k), run \in Run
    PROVE  Sticks
<1> USE DEF Sticks, Save, Unsaved, Snapshot, SetPhase, Pause, Items,
           Terminal, Run
<1>1. CASE Enter(k) BY <1>1 DEF Enter
<1>2. CASE Initial(k) BY <1>2 DEF Initial
<1>3. CASE ProbeFails(k) BY <1>3 DEF ProbeFails
<1>4. CASE Prepare(k) BY <1>4 DEF Prepare
<1>5. CASE PrepareRefused(k) BY <1>5 DEF PrepareRefused
<1>6. CASE BeginAttempt(k) BY <1>6 DEF BeginAttempt
<1>7. CASE Spawn(k) BY <1>7 DEF Spawn
<1>8. CASE Started(k) BY <1>8 DEF Started, Running
<1>9. CASE Disowned(k) BY <1>9 DEF Disowned
<1>10. CASE Completed(k) BY <1>10 DEF Completed, Running
<1>11. CASE AttemptEnds(k) BY <1>11 DEF AttemptEnds, Running
<1>12. CASE Reconcile(k) BY <1>12 DEF Reconcile
<1>13. CASE CaptureCandidate(k) BY <1>13 DEF CaptureCandidate, Running
<1>14. CASE After(k) BY <1>14 DEF After
<1>15. CASE Repair(k) BY <1>15 DEF Repair, NoProgressAfter
<1> QED BY <1>1, <1>2, <1>3, <1>4, <1>5, <1>6, <1>7, <1>8, <1>9, <1>10,
           <1>11, <1>12, <1>13, <1>14, <1>15 DEF WorkerStep

LEMMA ReviewSticks ==
    ASSUME NEW k \in Key, ReviewStep(k), run \in Run
    PROVE  Sticks
<1> USE DEF Sticks, Save, Unsaved, SetPhase, Pause, Items, Terminal, Run
<1>1. CASE Review(k) BY <1>1 DEF Review
<1>2. CASE ReviewLapses(k) BY <1>2 DEF ReviewLapses
<1>3. CASE Accept(k) BY <1>3 DEF Accept, ReviewActive
<1>4. CASE OrderRepair(k) BY <1>4 DEF OrderRepair, ReviewActive
<1>5. CASE ReviewExhausted(k) BY <1>5 DEF ReviewExhausted, ReviewActive
<1> QED BY <1>1, <1>2, <1>3, <1>4, <1>5 DEF ReviewStep

LEMMA PublishSticks ==
    ASSUME NEW k \in Key, PublishStep(k), run \in Run
    PROVE  Sticks
<1> USE DEF Sticks, Save, Unsaved, SetPhase, Pause, Items, Terminal, Run, In,
           Refused
<1>1. CASE Publish(k) BY <1>1 DEF Publish
<1>2. CASE ConfirmManually(k) BY <1>2 DEF ConfirmManually
<1>3. CASE AcquireLease(k) BY <1>3 DEF AcquireLease
<1>4. CASE Preflight(k) BY <1>4 DEF Preflight
<1>5. CASE ReleaseLease(k) BY <1>5 DEF ReleaseLease
<1>6. CASE ReadAttempt(k) BY <1>6 DEF ReadAttempt
<1>7. CASE PrepareAttempt(k) BY <1>7 DEF PrepareAttempt
<1>8. CASE BeginRecovery(k) BY <1>8 DEF BeginRecovery
<1>9. CASE Submit(k) BY <1>9 DEF Submit, Submittable
<1>10. CASE Apply(k) BY <1>10 DEF Apply
<1>11. CASE Complete(k) BY <1>11 DEF Complete
<1>12. CASE NothingObserved(k) BY <1>12 DEF NothingObserved
<1>13. CASE ReportOutcome(k) BY <1>13 DEF ReportOutcome
<1>14. CASE ReportObstacle(k) BY <1>14 DEF ReportObstacle
<1> QED BY <1>1, <1>2, <1>3, <1>4, <1>5, <1>6, <1>7, <1>8, <1>9, <1>10,
           <1>11, <1>12, <1>13, <1>14 DEF PublishStep

LEMMA CancelSticks ==
    ASSUME NEW k \in Key, CancelStep(k), run \in Run
    PROVE  Sticks
<1> USE DEF Sticks, Save, Unsaved, SetPhase, Pause, Items, Terminal, Run
<1>1. CASE StopWorker(k) BY <1>1 DEF StopWorker, StopOwn, StopPersisted
<1>2. CASE FinishCancel(k) BY <1>2 DEF FinishCancel, CommitCanceled, CommitBlocked, Ended
<1> QED BY <1>1, <1>2 DEF CancelStep

LEMMA RecoverSticks ==
    ASSUME NEW k \in Key, RecoverStep(k), run \in Run
    PROVE  Sticks
<1> USE DEF Sticks, Save, Unsaved, Snapshot, SetPhase, Pause, Items,
           Terminal, Run
<1>1. CASE Recover(k) BY <1>1 DEF Recover
<1>2. CASE InspectWorker(k) BY <1>2 DEF InspectWorker, StopPersisted
<1>3. CASE RecoverWorker(k) BY <1>3 DEF RecoverWorker, Ended, Unmoved
<1>4. CASE RecoverPublish(k) BY <1>4 DEF RecoverPublish, Unmoved
<1> QED BY <1>1, <1>2, <1>3, <1>4 DEF RecoverStep

\* Once requested, cancellation ends in CANCELED or in a question about what is
\* still running, and an ended run stays as it is, whatever the tasks, the
\* clients, the other runs and a restarted daemon do (cancel-manager.ts,
\* pauseFailure and the expectedPhases of the stages' mutations).
THEOREM CancellationIsKept == Spec => CancellationSticks
<1>1. IInv /\ [Next]_<<vars, bounds>> => [Sticks]_vars
  <2> SUFFICES ASSUME IInv, Next PROVE Sticks \/ UNCHANGED vars
      BY DEF vars
  <2>1. run \in Run BY DEF IInv, RecordOK
  <2>2. ASSUME NEW k \in Key, Step(k) PROVE Sticks
    <3>1. CASE Start(k) BY <3>1 DEF Start, Unsaved, Sticks
    <3>2. CASE Fail(k) BY <3>2 DEF Fail, Unsaved, Save, Sticks, Terminal
    <3>3. QED BY <2>1, <2>2, <3>1, <3>2, WorkerSticks, ReviewSticks, PublishSticks,
                 CancelSticks, RecoverSticks DEF Step
  <2>3. CASE WorkerExits \/ OtherRuns \/ Boot
        BY <2>3 DEF WorkerExits, OtherRuns, Boot, Save, Sticks
  <2>4. CASE Client
    <3>1. CASE Cancel BY <2>1, <3>1 DEF Cancel, Save, SetPhase, Sticks, Terminal, Run
    <3>2. CASE ~Cancel
          BY <2>4, <3>2 DEF Client, ResumeWorker, ResumeReview, ResumePublish,
             ResumeReviewDecision, Resumable, Sticks, Terminal
    <3>3. QED BY <3>1, <3>2
  <2>5. CASE Crash \/ \E k \in Key : Throw(k) BY <2>5 DEF Crash, Throw, Sticks
  <2>6. QED BY <2>2, <2>3, <2>4, <2>5 DEF Next
<1>2. QED BY <1>1, IInvInit, IInvNext, PTL DEF Spec, CancellationSticks, Sticks

-----------------------------------------------------------------------------
(* A candidate is applied at most once. *)

\* No task begins to apply, and what has been submitted or applied is kept.
NoneBegins == \A j \in Key : at'[j] = "applying" => at[j] = "applying"
Quiet == receipts \subseteq receipts' /\ result' = result /\ NoneBegins

LEMMA GotoQuiet ==
    ASSUME TasksOK, NEW k \in Key, NEW p,
           Goto(k, p) \/ Capture(k, p), p # "applying"
    PROVE  NoneBegins
BY DEF TasksOK, Goto, Capture, NoneBegins

LEMMA EndQuiet ==
    ASSUME TasksOK, NEW k \in Key, End(k) \/ Schedule(k)
    PROVE  NoneBegins
BY DEF TasksOK, End, Schedule, NoneBegins, taskVars

LEMMA WorkerQuiet ==
    ASSUME NEW k \in Key, WorkerStep(k), TasksOK, run \in Run
    PROVE  Quiet
<1> USE GotoQuiet, EndQuiet DEF Quiet, ExceptTask, Rest
<1>1. CASE Enter(k) BY <1>1 DEF Enter
<1>2. CASE Initial(k) BY <1>2 DEF Initial
<1>3. CASE ProbeFails(k) BY <1>3 DEF ProbeFails
<1>4. CASE Prepare(k) BY <1>4 DEF Prepare
<1>5. CASE PrepareRefused(k) BY <1>5 DEF PrepareRefused
<1>6. CASE BeginAttempt(k)
      BY <1>6 DEF BeginAttempt, TasksOK, NoneBegins, Goto
<1>7. CASE Spawn(k) BY <1>7 DEF Spawn
<1>8. CASE Started(k) BY <1>8 DEF Started
<1>9. CASE Disowned(k) BY <1>9 DEF Disowned
<1>10. CASE Completed(k) BY <1>10 DEF Completed
<1>11. CASE AttemptEnds(k) BY <1>11 DEF AttemptEnds
<1>12. CASE Reconcile(k) BY <1>12 DEF Reconcile
<1>13. CASE CaptureCandidate(k) BY <1>13 DEF CaptureCandidate
<1>14. CASE After(k) BY <1>14 DEF After
<1>15. CASE Repair(k) BY <1>15 DEF Repair
<1> QED BY <1>1, <1>2, <1>3, <1>4, <1>5, <1>6, <1>7, <1>8, <1>9, <1>10,
           <1>11, <1>12, <1>13, <1>14, <1>15 DEF WorkerStep

LEMMA ReviewQuiet ==
    ASSUME NEW k \in Key, ReviewStep(k), TasksOK, run \in Run
    PROVE  Quiet
<1> USE GotoQuiet, EndQuiet DEF Quiet, ExceptTask
<1>1. CASE Review(k) BY <1>1 DEF Review
<1>2. CASE ReviewLapses(k) BY <1>2 DEF ReviewLapses
<1>3. CASE Accept(k) BY <1>3 DEF Accept
<1>4. CASE OrderRepair(k) BY <1>4 DEF OrderRepair
<1>5. CASE ReviewExhausted(k)
      BY <1>5 DEF ReviewExhausted, TasksOK, NoneBegins
<1> QED BY <1>1, <1>2, <1>3, <1>4, <1>5 DEF ReviewStep

LEMMA PublishQuiet ==
    ASSUME NEW k \in Key, PublishStep(k), TasksOK, run \in Run, ~Submit(k), ~Apply(k)
    PROVE  Quiet
<1> USE GotoQuiet, EndQuiet DEF Quiet, ExceptTask, Refused
<1>1. CASE Publish(k) BY <1>1 DEF Publish
<1>2. CASE ConfirmManually(k) BY <1>2 DEF ConfirmManually
<1>3. CASE AcquireLease(k) BY <1>3 DEF AcquireLease
<1>4. CASE Preflight(k) BY <1>4 DEF Preflight
<1>5. CASE ReleaseLease(k) BY <1>5 DEF ReleaseLease
<1>6. CASE ReadAttempt(k)
  <2>1. run.publish \in PublishStatus BY DEF Run
  <2>2. \A s \in PublishStatus \ {"none", "COMMITTED"} : BindPoint[s] # "applying"
        BY DEF PublishStatus, BindPoint
  <2>3. \E p \in Point : Goto(k, p) /\ p # "applying"
        BY <1>6, <2>1, <2>2, PointSet DEF ReadAttempt, PublishStatus, BindPoint
  <2>4. QED BY <1>6, <2>3 DEF ReadAttempt
<1>7. CASE PrepareAttempt(k) BY <1>7 DEF PrepareAttempt
<1>8. CASE BeginRecovery(k) BY <1>8 DEF BeginRecovery
<1>9. CASE Complete(k) BY <1>9 DEF Complete
<1>10. CASE NothingObserved(k) BY <1>10 DEF NothingObserved
<1>11. CASE ReportOutcome(k) BY <1>11 DEF ReportOutcome
<1>12. CASE ReportObstacle(k) BY <1>12 DEF ReportObstacle
<1> QED BY <1>1, <1>2, <1>3, <1>4, <1>5, <1>6, <1>7, <1>8, <1>9, <1>10,
           <1>11, <1>12 DEF PublishStep

LEMMA CancelQuiet ==
    ASSUME NEW k \in Key, CancelStep(k), TasksOK, run \in Run
    PROVE  Quiet
<1> USE GotoQuiet, EndQuiet DEF Quiet, ExceptTask
<1>1. CASE StopWorker(k) BY <1>1 DEF StopWorker, StopOwn, StopPersisted
<1>2. CASE FinishCancel(k) BY <1>2 DEF FinishCancel, CommitCanceled, CommitBlocked
<1> QED BY <1>1, <1>2 DEF CancelStep

LEMMA RecoverQuiet ==
    ASSUME NEW k \in Key, RecoverStep(k), TasksOK, run \in Run
    PROVE  Quiet
<1> USE GotoQuiet, EndQuiet DEF Quiet, ExceptTask
<1>1. CASE Recover(k)
  <2>1. \A p \in DOMAIN RecoveryPoint : RecoveryPoint[p] # "applying"
        BY DEF RecoveryPoint
  <2>2. NoneBegins BY <1>1, <2>1 DEF Recover
  <2>3. QED BY <1>1, <2>2 DEF Recover
<1>2. CASE InspectWorker(k) BY <1>2 DEF InspectWorker, StopPersisted
<1>3. CASE RecoverWorker(k) BY <1>3 DEF RecoverWorker
<1>4. CASE RecoverPublish(k) BY <1>4 DEF RecoverPublish
<1> QED BY <1>1, <1>2, <1>3, <1>4 DEF RecoverStep

Applied == (\E k \in Key : at[k] = "applying") \/ result # "none"
SubmittedFirst == Applied => <<"submitted">> \in receipts

Begins(k) == at[k] # "applying" /\ at'[k] = "applying"
BeginsAlone ==
    \A k \in Key : Begins(k) =>
      /\ \A j \in Key : at[j] # "applying"
      /\ result = "none"
      /\ run.publish = "PREPARED"

\* The two steps that are not quiet.
LEMMA SubmitOnce ==
    ASSUME TasksOK, SubmittedFirst, NEW k \in Key, Submit(k)
    PROVE  SubmittedFirst' /\ BeginsAlone
<1>1. result' = result BY DEF Submit
<1>2. CASE Goto(k, "applying")
  <2>1. Submittable(k) /\ receipts' = receipts \cup {<<"submitted">>}
    <3>1. ~Goto(k, "blocked")
          BY <1>2 DEF Goto, TasksOK
    <3>2. QED BY <3>1 DEF Submit
  <2>2. ~Applied /\ run.publish = "PREPARED"
        BY <2>1 DEF Submittable, SubmittedFirst
  <2>3. QED BY <2>1, <2>2 DEF SubmittedFirst, BeginsAlone, Applied
<1>3. CASE Goto(k, "blocked")
  <2>1. receipts \subseteq receipts' BY DEF Submit
  <2>2. NoneBegins BY <1>3, GotoQuiet
  <2>3. QED BY <1>1, <2>1, <2>2 DEF SubmittedFirst, BeginsAlone, Begins, NoneBegins, Applied
<1>4. QED BY <1>2, <1>3 DEF Submit

LEMMA ApplyOnce ==
    ASSUME TasksOK, SubmittedFirst, NEW k \in Key, Apply(k)
    PROVE  SubmittedFirst' /\ BeginsAlone
<1>1. <<"submitted">> \in receipts /\ receipts' = receipts
      BY DEF Apply, SubmittedFirst, Applied
<1>2. Goto(k, "complete") \/ Goto(k, "blocked") BY DEF Apply
<1>3. NoneBegins BY <1>2, GotoQuiet
<1>4. QED BY <1>1, <1>3 DEF SubmittedFirst, BeginsAlone, Begins, NoneBegins

LEMMA QuietKeeps ==
    ASSUME SubmittedFirst, Quiet
    PROVE  SubmittedFirst' /\ BeginsAlone
BY DEF SubmittedFirst, Applied, Quiet, BeginsAlone, Begins, NoneBegins

LEMMA OthersQuiet ==
    ASSUME TasksOK, Client \/ WorkerExits \/ OtherRuns \/ Crash \/ Boot
    PROVE  Quiet
<1> USE EndQuiet DEF ExceptTask, Quiet
<1>1. CASE Cancel BY <1>1 DEF Cancel, Key
<1>2. CASE ResumeWorker BY <1>2 DEF ResumeWorker, Key
<1>3. CASE ResumeReview BY <1>3 DEF ResumeReview, TasksOK, NoneBegins
<1>4. CASE ResumePublish BY <1>4 DEF ResumePublish, Key
<1>5. CASE ResumeReviewDecision BY <1>5 DEF ResumeReviewDecision, Key
<1>6. CASE WorkerExits \/ OtherRuns
      BY <1>6 DEF WorkerExits, OtherRuns, taskVars, NoneBegins
<1>7. CASE Crash BY <1>7 DEF Crash, NoneBegins
<1>8. CASE Boot BY <1>8 DEF Boot, taskVars, NoneBegins, Key
<1>9. QED BY <1>1, <1>2, <1>3, <1>4, <1>5, <1>6, <1>7, <1>8 DEF Client

LEMMA ApplyNext ==
    ASSUME IInv, SubmittedFirst, Next
    PROVE  SubmittedFirst' /\ BeginsAlone
<1>1. TasksOK /\ run \in Run BY DEF IInv, RecordOK
<1>2. ASSUME NEW k \in Key, Step(k) PROVE SubmittedFirst' /\ BeginsAlone
  <2>1. CASE Submit(k) \/ Apply(k) BY <1>1, <2>1, SubmitOnce, ApplyOnce
  <2>2. CASE Start(k)
    <3>1. \A j \in Key : EntryPoint[j] # "applying" BY DEF EntryPoint, Key
    <3>2. Quiet BY <1>1, <2>2, <3>1, GotoQuiet, EndQuiet DEF Start, ExceptTask, Quiet
    <3>3. QED BY <3>2, QuietKeeps
  <2>3. CASE Fail(k)
    <3>1. Quiet BY <1>1, <2>3, EndQuiet DEF Fail, ExceptTask, Quiet
    <3>2. QED BY <3>1, QuietKeeps
  <2>4. CASE PublishStep(k) /\ ~Submit(k) /\ ~Apply(k)
        BY <1>1, <2>4, PublishQuiet, QuietKeeps
  <2>5. CASE WorkerStep(k) \/ ReviewStep(k) \/ CancelStep(k) \/ RecoverStep(k)
        BY <1>1, <2>5, WorkerQuiet, ReviewQuiet, CancelQuiet, RecoverQuiet, QuietKeeps
  <2>6. QED BY <1>2, <2>1, <2>2, <2>3, <2>4, <2>5 DEF Step
<1>3. ASSUME NEW k \in Key, Throw(k) PROVE SubmittedFirst' /\ BeginsAlone
  <2>1. Quiet BY <1>1, <1>3, GotoQuiet DEF Throw, ExceptTask, Quiet
  <2>2. QED BY <2>1, QuietKeeps
<1>4. CASE Client \/ WorkerExits \/ OtherRuns \/ Crash \/ Boot
      BY <1>1, <1>4, OthersQuiet, QuietKeeps
<1>5. QED BY <1>2, <1>3, <1>4 DEF Next

\* However a run is retried, restarted and recovered, no task begins to write a
\* candidate's files while another one does, or after they have been submitted:
\* the receipt of the submission comes first (markSubmittedAndApply).
THEOREM CandidateAppliedOnce == Spec => AppliesOnce
<1>1. Init => SubmittedFirst
      BY DEF Init, SubmittedFirst, Applied
<1>2. IInv /\ SubmittedFirst /\ [Next]_<<vars, bounds>> => SubmittedFirst' /\ [BeginsAlone]_vars
  <2>1. CASE UNCHANGED <<vars, bounds>>
        BY <2>1 DEF vars, taskVars, SubmittedFirst, Applied
  <2>2. QED BY <2>1, ApplyNext
<1>3. QED BY <1>1, <1>2, IInvInit, IInvNext, PTL DEF Spec, AppliesOnce, BeginsAlone, Begins

-----------------------------------------------------------------------------
(* What a run has published, for every limit, every number of requests and *)
(* failures, with or without review: nothing but what was accepted, and    *)
(* all of it or nothing when the run has ended.                            *)

-----------------------------------------------------------------------------
(* The stages of a run exclude each other, also when it is paused in one.  *)

BeginningPause == {"PROBE_FAILED", "ATTEMPT_FAILED", "ATTEMPT_ENDED", "AUTOMATIC_REPAIR_LIMIT"}
PublishPause == {"PUBLISH_STAGE_FAILED", "PUBLISH_BUSY", "PRECHECK_CONFLICT",
                 "MANUAL_PUBLISH_TARGET_MISMATCH"}

\* A worker attempt goes on or follows, by itself or by an answer.
Works(r) == \/ r.phase \in {"PREPARING", "RUNNING", "FIXING"}
            \/ r.phase = "PAUSED" /\ r.pause \in BeginningPause

\* The same of a review, and of publishing.
Reviews(r) == r.phase \in {"REVIEW_PENDING", "REVIEWING"} \/ "action" \in r.items

Publishes(r) == \/ r.phase \in {"READY_TO_PUBLISH", "PUBLISHING"} \/ r.publish # "none"
                \/ r.phase = "PAUSED" /\ r.pause \in PublishPause

Built(r)    == "candidate" \in r.items /\ "empty" \notin r.items
Approved(r) == Built(r) /\ (ReviewEnabled => "accepted" \in r.items)
Decided(r)  == Approved(r) /\ ~Works(r) /\ ~Reviews(r)

StagesOK(r) == /\ Works(r) => "action" \notin r.items
               /\ Reviews(r) => Built(r)
               /\ Publishes(r) => Decided(r)

\* A task publishes, or has submitted what is published.
Advanced == at["publish"] # "none" \/ <<"submitted">> \in receipts

DecisionInv == StagesOK(run) /\ (Advanced => Decided(run))

\* A step keeps what is decided, and brings nothing else to be published.
Moves == StagesOK(run') /\ (Decided(run) => Decided(run'))
Holds == Advanced' => Advanced \/ Publishes(run')

LEMMA DecisionStep ==
  ASSUME DecisionInv, Moves, Holds PROVE DecisionInv'
BY DEF DecisionInv, Moves, Holds, StagesOK

\* The fields of the record that the stages depend on.
LEMMA PhaseFields ==
  ASSUME run \in Run, NEW p \in Phase
  PROVE  /\ SetPhase(p).phase = p /\ SetPhase(p).pause = "none"
         /\ SetPhase(p).items = run.items /\ SetPhase(p).publish = run.publish
BY DEF SetPhase, Run

LEMMA ItemFields ==
  ASSUME NEW r \in Run, NEW out, NEW in
  PROVE  /\ Items(r, out, in).phase = r.phase /\ Items(r, out, in).pause = r.pause
         /\ Items(r, out, in).items = (r.items \ out) \cup in
         /\ Items(r, out, in).publish = r.publish
BY DEF Items, Run

\* Evidence and phase are as before.
LEMMA SameStage ==
  ASSUME DecisionInv, run'.phase = run.phase, run'.pause = run.pause,
         run'.publish = run.publish,
         \A i \in {"action", "candidate", "empty", "accepted"} : i \in run'.items <=> i \in run.items
  PROVE  Moves
BY DEF DecisionInv, Moves, StagesOK, Decided, Approved, Built, Works, Reviews, Publishes

LEMMA AttemptFields ==
  ASSUME run \in Run, NEW a \in AttemptStatus
  PROVE  /\ [run EXCEPT !.attempt = a] \in Run
         /\ [run EXCEPT !.attempt = a].phase = run.phase
         /\ [run EXCEPT !.attempt = a].pause = run.pause
         /\ [run EXCEPT !.attempt = a].items = run.items
         /\ [run EXCEPT !.attempt = a].publish = run.publish
BY DEF Run

LEMMA WorkerMoves ==
  ASSUME NEW k \in Key, WorkerStep(k), RecordOK, DecisionInv
  PROVE  Moves
<1> USE PauseCodes DEF RecordOK, Moves, DecisionInv, StagesOK, Decided, Approved, Built, Works,
        Reviews, Publishes, BeginningPause, PublishPause, Save, Unsaved, Snapshot, SetPhase,
        Pause, Items, Run
<1>1. CASE Enter(k) BY <1>1 DEF Enter
<1>2. CASE Initial(k) BY <1>2 DEF Initial
<1>3. CASE ProbeFails(k) BY <1>3 DEF ProbeFails
<1>4. CASE Prepare(k) BY <1>4 DEF Prepare
<1>5. CASE PrepareRefused(k) BY <1>5 DEF PrepareRefused
<1>6. CASE BeginAttempt(k)
  <2>1. \/ run' = run
        \/ run' = Items([run EXCEPT !.attempt = "PREPARING"], {"identity"}, {})
    BY <1>6 DEF BeginAttempt
  <2> HIDE DEF Items, Run, Moves, DecisionInv
  <2>2. "PREPARING" \in AttemptStatus
    BY DEF AttemptStatus
  <2>3. CASE run' = Items([run EXCEPT !.attempt = "PREPARING"], {"identity"}, {})
    <3> DEFINE r == [run EXCEPT !.attempt = "PREPARING"]
    <3>1. /\ r \in Run /\ r.phase = run.phase /\ r.pause = run.pause
          /\ r.items = run.items /\ r.publish = run.publish
      BY <2>2, AttemptFields
    <3>2. run' = Items(r, {"identity"}, {})
      BY <2>3
    <3> HIDE DEF r
    <3>3. /\ run'.phase = run.phase /\ run'.pause = run.pause /\ run'.publish = run.publish
          /\ run'.items = (run.items \ {"identity"}) \cup {}
      BY <3>1, <3>2, ItemFields
    <3> QED
      BY <3>3, SameStage
  <2> QED
    BY <2>1, <2>3, SameStage
<1>7. CASE Spawn(k) BY <1>7 DEF Spawn
<1>8. CASE Started(k)
  <2>1. \/ run' = run
        \/ run' = Items([run EXCEPT !.attempt = "RUNNING"], {}, {"identity"})
    BY <1>8 DEF Started
  <2> HIDE DEF Items, Run, Moves, DecisionInv
  <2>2. "RUNNING" \in AttemptStatus
    BY DEF AttemptStatus
  <2>3. CASE run' = Items([run EXCEPT !.attempt = "RUNNING"], {}, {"identity"})
    <3> DEFINE r == [run EXCEPT !.attempt = "RUNNING"]
    <3>1. /\ r \in Run /\ r.phase = run.phase /\ r.pause = run.pause
          /\ r.items = run.items /\ r.publish = run.publish
      BY <2>2, AttemptFields
    <3>2. run' = Items(r, {}, {"identity"})
      BY <2>3
    <3> HIDE DEF r
    <3>3. /\ run'.phase = run.phase /\ run'.pause = run.pause /\ run'.publish = run.publish
          /\ run'.items = (run.items \ {}) \cup {"identity"}
      BY <3>1, <3>2, ItemFields
    <3> QED
      BY <3>3, SameStage
  <2> QED
    BY <2>1, <2>3, SameStage
<1>9. CASE Disowned(k) BY <1>9 DEF Disowned
<1>10. CASE Completed(k) BY <1>10 DEF Completed, Running
<1>11. CASE AttemptEnds(k) BY <1>11 DEF AttemptEnds, Running
<1>12. CASE Reconcile(k) BY <1>12 DEF Reconcile
<1>13. CASE CaptureCandidate(k)
  <2>1. CASE run' = run
    BY <2>1
  <2>2. CASE run' # run
    <3>1. /\ run.phase = "RUNNING"
          /\ \/ run' = Items(SetPhase("FIXING"), {}, {"candidate", "empty"})
             \/ /\ ReviewEnabled
                /\ run' = Items(SetPhase("REVIEW_PENDING"), {"empty"}, {"candidate", "action"})
             \/ /\ ~ReviewEnabled
                /\ run' = Items(SetPhase("READY_TO_PUBLISH"), {"empty"}, {"candidate"})
      BY <1>13, <2>2 DEF CaptureCandidate, Running
    <3> HIDE DEF Items, SetPhase, Run
    <3>2. {"FIXING", "REVIEW_PENDING", "READY_TO_PUBLISH"} \subseteq Phase
      BY DEF Phase, Automatic
    <3>3. \A p \in {"FIXING", "REVIEW_PENDING", "READY_TO_PUBLISH"} :
            /\ SetPhase(p) \in Run /\ SetPhase(p).phase = p
            /\ SetPhase(p).items = run.items /\ SetPhase(p).publish = run.publish
      BY <3>2, PhaseSet, PhaseFields
    <3> QED
      BY <3>1, <3>3, ItemFields
  <2> QED
    BY <2>1, <2>2
<1>14. CASE After(k) BY <1>14 DEF After
<1>15. CASE Repair(k)
  <2>1. CASE run.phase # "FIXING"
    BY <1>15, <2>1 DEF Repair
  <2>2. CASE run.phase = "FIXING"
    <3> DEFINE going(n) == [SetPhase("PREPARING") EXCEPT !.noProgress = n, !.publish = "none"]
               marks == IF "empty" \in run.items THEN {"round", "emptyRound"} ELSE {"round"}
    <3>1. \/ run' = Pause("INSPECT_ONLY")
          \/ \E n \in NoProgressAfter : run' = [Pause("INSPECT_ONLY") EXCEPT !.noProgress = n]
          \/ \E n \in NoProgressAfter : run' = Items(going(n), Item \ {"identity"}, marks)
      BY <1>15, <2>2 DEF Repair
    <3>2. CASE run' = Pause("INSPECT_ONLY")
      BY <2>2, <3>2
    <3>3. ASSUME NEW n, run' = [Pause("INSPECT_ONLY") EXCEPT !.noProgress = n]
          PROVE  Moves
      BY <2>2, <3>3
    <3>4. ASSUME NEW n, run' = Items(going(n), Item \ {"identity"}, marks)
          PROVE  Moves
      <4>1. /\ going(n).phase = "PREPARING" /\ going(n).items = run.items
            /\ going(n).publish = "none"
        OBVIOUS
      <4>2. /\ run'.phase = "PREPARING" /\ run'.publish = "none"
            /\ run'.items = (run.items \ (Item \ {"identity"})) \cup marks
        BY <3>4
      <4>3. "action" \in Item /\ "action" \notin marks
        BY DEF Item
      <4>4. Works(run') /\ ~Reviews(run') /\ ~Publishes(run') /\ ~Decided(run)
        BY <2>2, <4>2, <4>3
      <4> QED
        BY <4>2, <4>3, <4>4
    <3> QED
      BY <3>1, <3>2, <3>3, <3>4
  <2> QED
    BY <2>1, <2>2
<1> QED BY <1>1, <1>2, <1>3, <1>4, <1>5, <1>6, <1>7, <1>8, <1>9, <1>10,
           <1>11, <1>12, <1>13, <1>14, <1>15 DEF WorkerStep

LEMMA ReviewMoves ==
  ASSUME NEW k \in Key, ReviewStep(k), RecordOK, DecisionInv
  PROVE  Moves
<1> USE PauseCodes DEF RecordOK, Moves, DecisionInv, StagesOK, Decided, Approved, Built, Works,
        Reviews, Publishes, BeginningPause, PublishPause, Save, Unsaved, SetPhase, Pause, Items, Run
<1>1. CASE Review(k) BY <1>1 DEF Review
<1>2. CASE ReviewLapses(k) BY <1>2 DEF ReviewLapses
<1>3. CASE Accept(k) BY <1>3 DEF Accept, ReviewActive
<1>4. CASE OrderRepair(k)
  <2>1. /\ run.phase = "REVIEWING"
        /\ \/ run' = Items([SetPhase("FIXING") EXCEPT !.rounds = @ + 1], {"action"}, {})
           \/ run' = Items(Pause("AUTOMATIC_REPAIR_LIMIT"), {"action"}, {})
    BY <1>4 DEF OrderRepair, ReviewActive
  <2>2. CASE run' = Items([SetPhase("FIXING") EXCEPT !.rounds = @ + 1], {"action"}, {})
    <3>1. run'.phase = "FIXING" /\ run'.items = run.items \ {"action"} /\ run'.publish = run.publish
      BY <2>2
    <3> QED
      BY <2>1, <3>1
  <2>3. CASE run' = Items(Pause("AUTOMATIC_REPAIR_LIMIT"), {"action"}, {})
    <3>1. /\ run'.phase = "PAUSED" /\ run'.pause = "AUTOMATIC_REPAIR_LIMIT"
          /\ run'.items = run.items \ {"action"} /\ run'.publish = run.publish
      BY <2>3
    <3> QED
      BY <2>1, <3>1
  <2> QED
    BY <2>1, <2>2, <2>3
<1>5. CASE ReviewExhausted(k) BY <1>5 DEF ReviewExhausted, ReviewActive
<1> QED BY <1>1, <1>2, <1>3, <1>4, <1>5 DEF ReviewStep

LEMMA PublishMoves ==
  ASSUME NEW k \in Key, PublishStep(k), RecordOK, DecisionInv
  PROVE  Moves
<1> USE PauseCodes DEF RecordOK, Moves, DecisionInv, StagesOK, Decided, Approved, Built, Works,
        Reviews, Publishes, BeginningPause, PublishPause, Save, Unsaved, SetPhase, Pause, Items, Run,
        In, Refused
<1>1. CASE Publish(k) BY <1>1 DEF Publish
<1>2. CASE ConfirmManually(k)
  <2>1. \/ run' = run
        \/ /\ run.phase = "READY_TO_PUBLISH"
           /\ \/ run' = Items(Pause("MANUAL_PUBLISH_TARGET_MISMATCH"), {"manual"}, {})
              \/ run' = Items([SetPhase("COMPLETED") EXCEPT !.publish = "COMMITTED"], {"manual"}, {})
    BY <1>2 DEF ConfirmManually
  <2>2. CASE run' = Items(Pause("MANUAL_PUBLISH_TARGET_MISMATCH"), {"manual"}, {})
    <3>1. /\ run'.phase = "PAUSED" /\ run'.pause = "MANUAL_PUBLISH_TARGET_MISMATCH"
          /\ run'.items = run.items \ {"manual"}
      BY <2>2
    <3> QED
      BY <2>1, <3>1
  <2>3. CASE run' = Items([SetPhase("COMPLETED") EXCEPT !.publish = "COMMITTED"], {"manual"}, {})
    <3>1. run'.phase = "COMPLETED" /\ run'.items = run.items \ {"manual"}
      BY <2>3
    <3> QED
      BY <2>1, <3>1
  <2> QED
    BY <2>1, <2>2, <2>3
<1>3. CASE AcquireLease(k) BY <1>3 DEF AcquireLease
<1>4. CASE Preflight(k) BY <1>4 DEF Preflight
<1>5. CASE ReleaseLease(k) BY <1>5 DEF ReleaseLease
<1>6. CASE ReadAttempt(k) BY <1>6 DEF ReadAttempt
<1>7. CASE PrepareAttempt(k) BY <1>7 DEF PrepareAttempt
<1>8. CASE BeginRecovery(k) BY <1>8 DEF BeginRecovery
<1>9. CASE Submit(k) BY <1>9 DEF Submit, Submittable
<1>10. CASE Apply(k) BY <1>10 DEF Apply
<1>11. CASE Complete(k) BY <1>11 DEF Complete
<1>12. CASE NothingObserved(k) BY <1>12 DEF NothingObserved
<1>13. CASE ReportOutcome(k)
  <2>1. \/ run' = run
        \/ /\ run.phase = "PUBLISHING"
           /\ \/ run' = Items(SetPhase("COMPLETED"), {"manual"}, {})
              \/ run' = Items(Pause("INSPECT_ONLY"), {"manual"}, {})
    BY <1>13 DEF ReportOutcome
  <2>2. ASSUME run' # run
        PROVE  /\ run'.phase = "COMPLETED" \/ (run'.phase = "PAUSED" /\ run'.pause = "INSPECT_ONLY")
               /\ run'.items = run.items \ {"manual"} /\ run.phase = "PUBLISHING"
    BY <2>1, <2>2
  <2> QED
    BY <2>2
<1>14. CASE ReportObstacle(k)
  <2>1. \/ run' = run
        \/ /\ run.phase = "READY_TO_PUBLISH"
           /\ \E c \in {"PUBLISH_BUSY", "PRECHECK_CONFLICT"} :
                run' = Items(Pause(c), {"manual"}, {})
    BY <1>14 DEF ReportObstacle
  <2>2. ASSUME NEW c \in {"PUBLISH_BUSY", "PRECHECK_CONFLICT"}, run' = Items(Pause(c), {"manual"}, {})
        PROVE  run'.phase = "PAUSED" /\ run'.pause = c /\ run'.items = run.items \ {"manual"}
    BY <2>2
  <2> QED
    BY <2>1, <2>2
<1> QED BY <1>1, <1>2, <1>3, <1>4, <1>5, <1>6, <1>7, <1>8, <1>9, <1>10,
           <1>11, <1>12, <1>13, <1>14 DEF PublishStep

LEMMA CancelMoves ==
  ASSUME NEW k \in Key, CancelStep(k), RecordOK, DecisionInv
  PROVE  Moves
<1> USE PauseCodes DEF RecordOK, Moves, DecisionInv, StagesOK, Decided, Approved, Built, Works,
        Reviews, Publishes, BeginningPause, PublishPause, Save, Unsaved, SetPhase, Pause, Items, Run
<1>1. CASE StopWorker(k) BY <1>1 DEF StopWorker, StopOwn, StopPersisted
<1>2. CASE FinishCancel(k)
  <2>1. \/ run' = run
        \/ /\ run.phase = "CANCELING"
           /\ \/ run' = Items(Ended(SetPhase("CANCELED")), {"action"}, {})
              \/ run' = Pause("PROCESS_RECONCILIATION")
    BY <1>2 DEF FinishCancel, CommitCanceled, CommitBlocked
  <2>2. CASE run' = Items(Ended(SetPhase("CANCELED")), {"action"}, {})
    <3>1. /\ run'.phase = "CANCELED" /\ run'.items = run.items \ {"action"}
          /\ run'.publish = run.publish
      BY <2>2 DEF Ended
    <3> QED
      BY <2>1, <3>1
  <2> QED
    BY <2>1, <2>2
<1> QED BY <1>1, <1>2 DEF CancelStep

LEMMA RecoverMoves ==
  ASSUME NEW k \in Key, RecoverStep(k), RecordOK, DecisionInv
  PROVE  Moves
<1> USE PauseCodes DEF RecordOK, Moves, DecisionInv, StagesOK, Decided, Approved, Built, Works,
        Reviews, Publishes, BeginningPause, PublishPause, Save, Unsaved, Snapshot, SetPhase, Pause,
        Items, Run
<1>1. CASE Recover(k) BY <1>1 DEF Recover
<1>2. CASE InspectWorker(k) BY <1>2 DEF InspectWorker, StopPersisted
<1>3. CASE RecoverWorker(k) BY <1>3 DEF RecoverWorker, Ended, Unmoved
<1>4. CASE RecoverPublish(k) BY <1>4 DEF RecoverPublish, Unmoved
<1> QED BY <1>1, <1>2, <1>3, <1>4 DEF RecoverStep

-----------------------------------------------------------------------------
(* How an apply comes out. *)

Done == run.phase = "COMPLETED"

\* What is applied is not settled, and what has settled is as the adapter stored it,
\* but for a run that was completed without it.
OutcomeInv ==
    /\ \A k \in Key : at[k] = "applying" =>
         /\ result = "none" /\ run.publish \in UnsettledPublish
         /\ \A j \in Key : at[j] = "applying" => j = k
    /\ \A k \in Key : at[k] \in {"complete", "bindConflict"} => result # "none"
    /\ \A k \in Key : at[k] = "committed" => Done \/ result = "COMMITTED"
    /\ run.publish = "COMMITTED" => Done \/ result = "COMMITTED"
    /\ run.publish = "CONFLICT" => result # "none"
    /\ FinishedIsSettled

Marked == {"applying", "complete", "bindConflict", "committed"}

\* No task starts, and none comes to a point that OutcomeInv is about.
Steady == \A j \in Key : /\ at[j] = "none" => at'[j] = "none"
                         /\ at'[j] \in Marked => at'[j] = at[j]

Unsubmitted == <<"submitted">> \in receipts' => <<"submitted">> \in receipts

\* A step that has nothing to do with the outcome.
Calm == /\ Steady /\ Unsubmitted /\ result' = result
        /\ lease' = "mine" => lease = "mine"
        /\ run'.publish = run.publish \/ (run'.publish = "none" /\ run.phase = "FIXING")
        /\ run'.phase \in Terminal => run' = run
        /\ run.phase \in Terminal => run' = run

OutcomeOK == IInv /\ SubmittedFirst /\ DecisionInv /\ OutcomeInv

\* While a worker is at work, nothing has been submitted.
LEMMA WorkBefore ==
  ASSUME OutcomeOK, run.phase = "FIXING"
  PROVE  <<"submitted">> \notin receipts /\ result = "none" /\ \A k \in Key : at[k] # "applying"
BY DEF OutcomeOK, DecisionInv, Advanced, Decided, Works, SubmittedFirst, Applied

LEMMA CalmKeeps ==
  ASSUME OutcomeOK, Calm
  PROVE  OutcomeInv' /\ Holds
<1>1. Holds
  BY DEF Calm, Steady, Unsubmitted, Holds, Advanced, Key
<1>2. OutcomeInv
  BY DEF OutcomeOK
<1>3. CASE run'.publish = run.publish
  <2>1. \A k \in Key : at'[k] \in Marked => at'[k] = at[k]
    BY DEF Calm, Steady
  <2>2. /\ result' = result
        /\ Done' => Done
        /\ Done => Done'
    BY DEF Calm, Done, Terminal
  <2>3. (\A k \in Key : at[k] = "applying" =>
          /\ result = "none" /\ run.publish \in UnsettledPublish
          /\ \A j \in Key : at[j] = "applying" => j = k)'
    BY <1>2, <1>3, <2>1, <2>2 DEF OutcomeInv, Marked
  <2>4. /\ (\A k \in Key : at[k] \in {"complete", "bindConflict"} => result # "none")'
        /\ (\A k \in Key : at[k] = "committed" => Done \/ result = "COMMITTED")'
        /\ (run.publish = "COMMITTED" => Done \/ result = "COMMITTED")'
        /\ (run.publish = "CONFLICT" => result # "none")'
    BY <1>2, <1>3, <2>1, <2>2 DEF OutcomeInv, Marked
  <2>5. FinishedIsSettled'
    BY <1>2, <2>1, <2>2 DEF OutcomeInv, FinishedIsSettled, Calm, Marked
  <2> QED
    BY <1>1, <2>3, <2>4, <2>5 DEF OutcomeInv
<1>4. CASE run'.publish = "none" /\ run.phase = "FIXING"
  <2>1. /\ \A k \in Key : at'[k] \in Marked => at'[k] = at[k]
        /\ result' = "none" /\ \A k \in Key : at'[k] # "applying"
    BY <1>4, WorkBefore DEF Calm, Steady, Marked
  <2>2. \A k \in Key : at[k] \notin Marked
    BY <1>2, <1>4, WorkBefore DEF OutcomeInv, Marked, Done
  <2>3. ~(run'.phase \in Terminal)
    BY <1>4 DEF Calm, Terminal
  <2> QED
    BY <1>1, <1>4, <2>1, <2>2, <2>3 DEF OutcomeInv, FinishedIsSettled, Marked
<1> QED
  BY <1>1, <1>3, <1>4 DEF Calm

LEMMA GotoSteady ==
  ASSUME TasksOK, NEW k \in Key, NEW p, at[k] # "none", p \notin Marked,
         Goto(k, p) \/ Capture(k, p)
  PROVE  Steady
BY DEF TasksOK, Goto, Capture, Steady

LEMMA EndSteady ==
  ASSUME TasksOK, NEW k \in Key, End(k)
  PROVE  Steady
BY DEF TasksOK, End, Steady, Marked

LEMMA WorkerSteady ==
  ASSUME NEW k \in Key, WorkerStep(k), TasksOK
  PROVE  Steady
<1> USE GotoSteady, EndSteady DEF Marked
<1>1. CASE Enter(k) BY <1>1 DEF Enter
<1>2. CASE Initial(k) BY <1>2 DEF Initial
<1>3. CASE ProbeFails(k) BY <1>3 DEF ProbeFails
<1>4. CASE Prepare(k) BY <1>4 DEF Prepare
<1>5. CASE PrepareRefused(k) BY <1>5 DEF PrepareRefused
<1>6. CASE BeginAttempt(k) BY <1>6 DEF BeginAttempt, TasksOK, Steady, Goto
<1>7. CASE Spawn(k) BY <1>7 DEF Spawn
<1>8. CASE Started(k) BY <1>8 DEF Started
<1>9. CASE Disowned(k) BY <1>9 DEF Disowned
<1>10. CASE Completed(k) BY <1>10 DEF Completed
<1>11. CASE AttemptEnds(k) BY <1>11 DEF AttemptEnds
<1>12. CASE Reconcile(k) BY <1>12 DEF Reconcile
<1>13. CASE CaptureCandidate(k) BY <1>13 DEF CaptureCandidate
<1>14. CASE After(k) BY <1>14 DEF After
<1>15. CASE Repair(k) BY <1>15 DEF Repair
<1> QED BY <1>1, <1>2, <1>3, <1>4, <1>5, <1>6, <1>7, <1>8, <1>9, <1>10,
           <1>11, <1>12, <1>13, <1>14, <1>15 DEF WorkerStep

\* What the steps of the worker stage do to the record.
LEMMA WorkerPublish ==
  ASSUME NEW k \in Key, WorkerStep(k), run \in Run
  PROVE  /\ run'.publish = run.publish \/ (run'.publish = "none" /\ run.phase = "FIXING")
         /\ run'.phase \in Terminal => run' = run
<1> USE DEF Save, Unsaved, Snapshot, SetPhase, Pause, Items, Terminal, Run
<1>1. CASE Enter(k) BY <1>1 DEF Enter
<1>2. CASE Initial(k) BY <1>2 DEF Initial
<1>3. CASE ProbeFails(k) BY <1>3 DEF ProbeFails
<1>4. CASE Prepare(k) BY <1>4 DEF Prepare
<1>5. CASE PrepareRefused(k) BY <1>5 DEF PrepareRefused
<1>6. CASE BeginAttempt(k) BY <1>6 DEF BeginAttempt
<1>7. CASE Spawn(k) BY <1>7 DEF Spawn
<1>8. CASE Started(k) BY <1>8 DEF Started, Running
<1>9. CASE Disowned(k) BY <1>9 DEF Disowned
<1>10. CASE Completed(k) BY <1>10 DEF Completed, Running
<1>11. CASE AttemptEnds(k) BY <1>11 DEF AttemptEnds, Running
<1>12. CASE Reconcile(k) BY <1>12 DEF Reconcile
<1>13. CASE CaptureCandidate(k) BY <1>13 DEF CaptureCandidate, Running
<1>14. CASE After(k) BY <1>14 DEF After
<1>15. CASE Repair(k) BY <1>15 DEF Repair, NoProgressAfter
<1> QED BY <1>1, <1>2, <1>3, <1>4, <1>5, <1>6, <1>7, <1>8, <1>9, <1>10,
           <1>11, <1>12, <1>13, <1>14, <1>15 DEF WorkerStep

LEMMA WorkerCalm ==
  ASSUME NEW k \in Key, WorkerStep(k), IInv
  PROVE  Calm
<1>1. run \in Run /\ TasksOK
  BY DEF IInv, RecordOK
<1>2. UNCHANGED <<lease, receipts, result>>
  BY DEF WorkerStep, Enter, Initial, ProbeFails, Prepare, PrepareRefused, BeginAttempt, Spawn,
     Started, Disowned, Completed, AttemptEnds, Reconcile, CaptureCandidate, After, Repair,
     ExceptTask, Rest
<1> QED
  BY <1>1, <1>2, WorkerSteady, WorkerPublish, WorkerSticks DEF Calm, Unsubmitted, Sticks

LEMMA ReviewCalm ==
  ASSUME NEW k \in Key, ReviewStep(k), IInv
  PROVE  Calm
<1>1. run \in Run /\ TasksOK
  BY DEF IInv, RecordOK
<1>2. UNCHANGED <<lease, receipts, result>>
  BY DEF ReviewStep, Review, ReviewLapses, Accept, OrderRepair, ReviewExhausted, ExceptTask
<1>3. Steady
  <2> USE <1>1, GotoSteady, EndSteady DEF Marked
  <2>1. CASE Review(k) BY <2>1 DEF Review
  <2>2. CASE ReviewLapses(k) BY <2>2 DEF ReviewLapses
  <2>3. CASE Accept(k) BY <2>3 DEF Accept
  <2>4. CASE OrderRepair(k) BY <2>4 DEF OrderRepair
  <2>5. CASE ReviewExhausted(k) BY <2>5 DEF ReviewExhausted, TasksOK, Steady
  <2> QED BY <2>1, <2>2, <2>3, <2>4, <2>5 DEF ReviewStep
<1>4. run'.publish = run.publish /\ (run'.phase \in Terminal => run' = run)
  <2> USE <1>1 DEF Save, Unsaved, SetPhase, Pause, Items, Terminal, Run
  <2>1. CASE Review(k) BY <2>1 DEF Review
  <2>2. CASE ReviewLapses(k) BY <2>2 DEF ReviewLapses
  <2>3. CASE Accept(k) BY <2>3 DEF Accept
  <2>4. CASE OrderRepair(k) BY <2>4 DEF OrderRepair
  <2>5. CASE ReviewExhausted(k) BY <2>5 DEF ReviewExhausted
  <2> QED BY <2>1, <2>2, <2>3, <2>4, <2>5 DEF ReviewStep
<1> QED
  BY <1>1, <1>2, <1>3, <1>4, ReviewSticks DEF Calm, Unsubmitted, Sticks

LEMMA ReceiptNames ==
  /\ \A r : <<"cancel", r>> # <<"submitted">>
  /\ \A r : <<"begin", r>> # <<"submitted">>
  /\ \A r : <<"complete", r>> # <<"submitted">>
  /\ <<"PUBLISH_BUSY">> # <<"submitted">> /\ <<"PRECHECK_CONFLICT">> # <<"submitted">>
OBVIOUS

LEMMA ReceiptsGrow ==
  ASSUME NEW r, r # <<"submitted">>, receipts' = receipts \cup {r}
  PROVE  Unsubmitted
BY DEF Unsubmitted

LEMMA PublishCalm ==
  ASSUME NEW k \in Key, IInv,
         Publish(k) \/ Preflight(k) \/ ReleaseLease(k) \/ NothingObserved(k) \/ ReportObstacle(k)
  PROVE  Calm
<1>1. run \in Run /\ TasksOK
  BY DEF IInv, RecordOK
<1>2. result' = result /\ (lease' = "mine" => lease = "mine")
  BY DEF Publish, Preflight, ReleaseLease, NothingObserved, ReportObstacle, ExceptTask
<1>3. Steady
  BY <1>1, GotoSteady, EndSteady
     DEF Publish, Preflight, ReleaseLease, NothingObserved, ReportObstacle, Marked, Refused
<1>4. Unsubmitted
  <2>1. CASE receipts' = receipts
    BY <2>1 DEF Unsubmitted
  <2>2. CASE receipts' # receipts
    <3>1. receipts' = receipts \cup {<<IF at[k] = "busy" THEN "PUBLISH_BUSY"
                                                       ELSE "PRECHECK_CONFLICT">>}
      BY <2>2 DEF Publish, Preflight, ReleaseLease, NothingObserved, ReportObstacle, ExceptTask
    <3> QED
      BY <3>1, ReceiptNames, ReceiptsGrow
  <2> QED
    BY <2>1, <2>2
<1>5. run'.publish = run.publish /\ (run'.phase \in Terminal => run' = run)
  BY <1>1 DEF Publish, Preflight, ReleaseLease, NothingObserved, ReportObstacle, Refused,
     Save, Unsaved, Pause, Items, Terminal, Run
<1>6. run.phase \in Terminal => run' = run
  BY <1>1, PublishSticks DEF PublishStep, Sticks
<1> QED
  BY <1>2, <1>3, <1>4, <1>5, <1>6 DEF Calm

LEMMA RefusedCalm ==
  ASSUME NEW k \in Key, OutcomeOK, Refused(k) \/ (\E p : p \notin Marked /\ Goto(k, p) /\ Unsaved),
         at[k] # "none",
         UNCHANGED <<lease, receipts, result>>
  PROVE  Calm
<1>1. Steady
  BY GotoSteady DEF OutcomeOK, IInv, Refused, Marked
<1> QED
  BY <1>1 DEF Calm, Unsubmitted, Refused, Unsaved

LEMMA ConfirmOutcome ==
  ASSUME NEW k \in Key, OutcomeOK, ConfirmManually(k)
  PROVE  OutcomeInv' /\ Holds
<1>1. CASE Refused(k) /\ UNCHANGED lease
  BY <1>1, CalmKeeps, RefusedCalm DEF ConfirmManually
<1>2. CASE ~(Refused(k) /\ UNCHANGED lease)
  <2>1. run \in Run /\ TasksOK
    BY DEF OutcomeOK, IInv, RecordOK
  <2>2. /\ End(k) /\ UNCHANGED <<receipts, result>>
        /\ run.publish = "none" /\ run.phase = "READY_TO_PUBLISH"
        /\ \/ run' = Items(Pause("MANUAL_PUBLISH_TARGET_MISMATCH"), {"manual"}, {}) /\ lease' = lease
           \/ /\ run' = Items([SetPhase("COMPLETED") EXCEPT !.publish = "COMMITTED"], {"manual"}, {})
              /\ lease' # "mine"
    BY <1>2 DEF ConfirmManually, In, Save
  <2>3. Steady
    BY <2>1, <2>2, EndSteady
  <2>4. CASE run' = Items(Pause("MANUAL_PUBLISH_TARGET_MISMATCH"), {"manual"}, {}) /\ lease' = lease
    <3>1. run'.publish = run.publish /\ run'.phase = "PAUSED"
      BY <2>1, <2>4 DEF Items, Pause, Run
    <3> QED
      BY <2>2, <2>3, <2>4, <3>1, CalmKeeps DEF Calm, Unsubmitted, Terminal
  <2>5. CASE /\ run' = Items([SetPhase("COMPLETED") EXCEPT !.publish = "COMMITTED"], {"manual"}, {})
             /\ lease' # "mine"
    <3>1. run'.publish = "COMMITTED" /\ run'.phase = "COMPLETED"
      BY <2>1, <2>5 DEF Items, SetPhase, Run
    <3>2. \A j \in Key : at'[j] # "applying"
      BY <2>2, <2>3 DEF OutcomeOK, OutcomeInv, UnsettledPublish, Steady, Marked
    <3>3. Holds
      BY <2>2, <2>3 DEF Holds, Advanced, Steady, Key
    <3> QED
      BY <2>2, <2>3, <2>5, <3>1, <3>2, <3>3
         DEF OutcomeOK, OutcomeInv, FinishedIsSettled, Done, Steady, Marked
  <2> QED
    BY <2>2, <2>4, <2>5
<1> QED
  BY <1>1, <1>2

LEMMA LeaseOutcome ==
  ASSUME NEW k \in Key, OutcomeOK, AcquireLease(k)
  PROVE  OutcomeInv' /\ Holds
<1>1. Steady /\ UNCHANGED <<receipts, result, run>>
  BY GotoSteady DEF OutcomeOK, IInv, AcquireLease, Refused, Unsaved, Save, Marked
<1>2. lease' = "mine" => lease = "mine" \/ run.phase \notin Terminal
  BY DEF AcquireLease, In, Terminal
<1>3. CASE run.phase \in Terminal
  BY <1>1, <1>2, <1>3, CalmKeeps DEF Calm, Unsubmitted
<1>4. CASE run.phase \notin Terminal
  BY <1>1, <1>4 DEF OutcomeOK, OutcomeInv, FinishedIsSettled, Done, Steady, Marked, Holds,
     Advanced, Key
<1> QED
  BY <1>3, <1>4

LEMMA ReadOutcome ==
  ASSUME NEW k \in Key, OutcomeOK, ReadAttempt(k)
  PROVE  OutcomeInv' /\ Holds
<1>1. UNCHANGED <<receipts, result, run, lease>> /\ run \in Run /\ TasksOK /\ at[k] = "existing"
  BY DEF OutcomeOK, IInv, RecordOK, ReadAttempt, Unsaved, ExceptTask
<1>2. PICK p \in {"prepare", "committed", "bindPrepared", "bindSubmitted", "bindUnknown",
                  "bindConflict"} :
        /\ Goto(k, p)
        /\ p = "committed" => run.publish = "COMMITTED"
        /\ p = "bindConflict" => run.publish = "CONFLICT"
  BY <1>1 DEF ReadAttempt, BindPoint, Run, PublishStatus
<1>3. at' = [at EXCEPT ![k] = p]
  BY <1>2 DEF Goto
<1>4. Holds
  BY <1>1, <1>3 DEF Holds, Advanced, TasksOK, Key
<1>5. FinishedIsSettled'
  BY <1>1, <1>3 DEF OutcomeOK, OutcomeInv, FinishedIsSettled, TasksOK
<1> QED
  BY <1>1, <1>2, <1>3, <1>4, <1>5 DEF OutcomeOK, OutcomeInv, Done, TasksOK

LEMMA PrepareOutcome ==
  ASSUME NEW k \in Key, OutcomeOK, PrepareAttempt(k)
  PROVE  OutcomeInv' /\ Holds
<1>1. /\ UNCHANGED <<receipts, result, lease>> /\ run \in Run /\ TasksOK /\ at[k] = "prepare"
  BY DEF OutcomeOK, IInv, RecordOK, PrepareAttempt, ExceptTask
<1>2. CASE Refused(k) \/ (Goto(k, "submit") /\ Unsaved)
  BY <1>1, <1>2, CalmKeeps, RefusedCalm DEF Marked
<1>3. CASE ~(Refused(k) \/ (Goto(k, "submit") /\ Unsaved))
  <2>1. /\ run.publish = "none" /\ run.phase = "READY_TO_PUBLISH" /\ Goto(k, "submit")
        /\ run' = [SetPhase("PUBLISHING") EXCEPT !.publish = "PREPARED"]
    BY <1>3 DEF PrepareAttempt, In, Save
  <2>2. run'.publish = "PREPARED" /\ run'.phase = "PUBLISHING"
    BY <1>1, <2>1 DEF SetPhase, Run
  <2>3. Steady
    BY <1>1, <2>1, GotoSteady DEF Marked
  <2>4. \A j \in Key : at'[j] = "committed" => result = "COMMITTED"
    BY <2>1, <2>3 DEF OutcomeOK, OutcomeInv, UnsettledPublish, Steady, Marked, Done
  <2>5. \A j \in Key : at'[j] # "applying"
    BY <2>1, <2>3 DEF OutcomeOK, OutcomeInv, UnsettledPublish, Steady, Marked
  <2>6. Holds
    BY <1>1, <2>3 DEF Holds, Advanced, Steady, Key
  <2> QED
    BY <1>1, <2>2, <2>3, <2>4, <2>5, <2>6
       DEF OutcomeOK, OutcomeInv, FinishedIsSettled, Terminal, Steady, Marked
<1> QED
  BY <1>2, <1>3

LEMMA RecoveryOutcome ==
  ASSUME NEW k \in Key, OutcomeOK, BeginRecovery(k)
  PROVE  OutcomeInv' /\ Holds
<1>1. /\ UNCHANGED <<result, lease>> /\ run \in Run /\ TasksOK
  BY DEF OutcomeOK, IInv, RecordOK, BeginRecovery
<1>2. PICK s \in DOMAIN BindPoint :
        /\ at[k] = BindPoint[s]
        /\ LET next == IF s = "PREPARED" THEN "submit" ELSE "observe" IN
           CASE <<"begin", s>> \in receipts -> Goto(k, next) /\ Unsaved /\ UNCHANGED receipts
             [] <<"begin", s>> \notin receipts /\ In(k, {"READY_TO_PUBLISH", "PUBLISHING"}) ->
                  /\ Save([SetPhase("PUBLISHING") EXCEPT !.publish = s])
                  /\ receipts' = receipts \cup {<<"begin", s>>}
                  /\ Goto(k, next)
             [] OTHER -> Refused(k) /\ UNCHANGED receipts
  BY DEF BeginRecovery
<1>3. s \in {"PREPARED", "SUBMITTED", "UNKNOWN", "CONFLICT"} /\ at[k] # "none"
      /\ (s = "CONFLICT" => at[k] = "bindConflict")
  BY <1>2 DEF BindPoint
<1>4. CASE Refused(k) /\ UNCHANGED receipts
  BY <1>1, <1>3, <1>4, CalmKeeps, RefusedCalm
<1>5. CASE /\ UNCHANGED receipts
           /\ Unsaved /\ Goto(k, IF s = "PREPARED" THEN "submit" ELSE "observe")
  BY <1>1, <1>3, <1>5, CalmKeeps, RefusedCalm DEF Marked
<1>6. CASE /\ In(k, {"READY_TO_PUBLISH", "PUBLISHING"})
           /\ Save([SetPhase("PUBLISHING") EXCEPT !.publish = s])
           /\ receipts' = receipts \cup {<<"begin", s>>}
           /\ Goto(k, IF s = "PREPARED" THEN "submit" ELSE "observe")
  <2>1. run'.publish = s /\ run'.phase = "PUBLISHING" /\ ~Done
    BY <1>1, <1>6 DEF SetPhase, Run, Save, In, Done
  <2>2. Steady
    BY <1>1, <1>3, <1>6, GotoSteady DEF Marked
  <2>3. Unsubmitted
    BY <1>6, ReceiptNames, ReceiptsGrow
  <2>4. s = "CONFLICT" => result # "none"
    BY <1>3 DEF OutcomeOK, OutcomeInv
  <2>5. Holds
    BY <2>2, <2>3 DEF Holds, Advanced, Steady, Unsubmitted, Key
  <2> QED
    BY <1>1, <1>3, <2>1, <2>2, <2>4, <2>5
       DEF OutcomeOK, OutcomeInv, FinishedIsSettled, Terminal, Steady, Marked, UnsettledPublish
<1> QED
  BY <1>2, <1>4, <1>5, <1>6

LEMMA SubmitOutcome ==
  ASSUME NEW k \in Key, OutcomeOK, Submit(k)
  PROVE  OutcomeInv' /\ Holds
<1>1. UNCHANGED <<result, lease>> /\ run \in Run /\ TasksOK /\ at[k] = "submit"
  BY DEF OutcomeOK, IInv, RecordOK, Submit
<1>2. CASE Goto(k, "blocked") /\ Unsaved /\ UNCHANGED receipts
  BY <1>1, <1>2, CalmKeeps, RefusedCalm DEF Marked
<1>3. CASE /\ Submittable(k)
           /\ Save([run EXCEPT !.publish = "SUBMITTED"])
           /\ Goto(k, "applying") \/ Goto(k, "blocked")
  <2>1. run'.publish = "SUBMITTED" /\ run'.phase = "PUBLISHING" /\ run.phase = "PUBLISHING"
    BY <1>1, <1>3 DEF Save, Run, Submittable, In
  <2>2. result = "none" /\ \A j \in Key : at[j] # "applying"
    BY <1>3 DEF OutcomeOK, SubmittedFirst, Applied, Submittable
  <2>3. PICK p \in {"applying", "blocked"} : at' = [at EXCEPT ![k] = p]
    BY <1>3 DEF Goto
  <2>4. Holds
    BY <2>1 DEF Holds, Publishes
  <2> QED
    BY <1>1, <2>1, <2>2, <2>3, <2>4
       DEF OutcomeOK, OutcomeInv, FinishedIsSettled, Terminal, UnsettledPublish, TasksOK, Done
<1> QED
  BY <1>2, <1>3 DEF Submit

LEMMA AppliedOutcome ==
  ASSUME NEW k \in Key, OutcomeOK, Apply(k)
  PROVE  OutcomeInv' /\ Holds
<1>1. UNCHANGED <<run, receipts, lease>> /\ TasksOK /\ at[k] = "applying"
  BY DEF OutcomeOK, IInv, Apply, Unsaved
<1>2. /\ result = "none" /\ run.publish \in UnsettledPublish
      /\ \A j \in Key : at[j] = "applying" => j = k
  BY <1>1 DEF OutcomeOK, OutcomeInv
<1>3. PICK p \in {"complete", "blocked"} :
        at' = [at EXCEPT ![k] = p] /\ (p = "complete" => result' # "none")
  BY DEF Apply, Goto
<1>4. \A j \in Key : /\ at'[j] # "applying" /\ at'[j] # "bindConflict"
                     /\ at'[j] = "complete" => j = k
                     /\ at'[j] = "committed" => at[j] = "committed"
                     /\ at'[j] = "none" <=> at[j] = "none"
  BY <1>1, <1>2, <1>3 DEF OutcomeOK, OutcomeInv, TasksOK
<1>5. Done => FALSE
  BY <1>1 DEF OutcomeOK, OutcomeInv, FinishedIsSettled, Done, Terminal
<1>6. Holds
  BY <1>1, <1>4 DEF Holds, Advanced, Key
<1>7. FinishedIsSettled'
  BY <1>1 DEF OutcomeOK, OutcomeInv, FinishedIsSettled
<1> QED
  BY <1>1, <1>2, <1>3, <1>4, <1>5, <1>6, <1>7 DEF OutcomeOK, OutcomeInv, UnsettledPublish, TasksOK

LEMMA CompleteOutcome ==
  ASSUME NEW k \in Key, OutcomeOK, Complete(k)
  PROVE  OutcomeInv' /\ Holds
<1>1. UNCHANGED result /\ run \in Run /\ TasksOK /\ at[k] # "none" /\ result # "none"
  BY DEF OutcomeOK, OutcomeInv, IInv, RecordOK, Complete
<1>2. \A j \in Key : at[j] # "applying"
  BY <1>1 DEF OutcomeOK, OutcomeInv
<1>3. CASE Refused(k) /\ UNCHANGED <<lease, receipts>>
  BY <1>1, <1>3, CalmKeeps, RefusedCalm
<1>4. CASE ~(Refused(k) /\ UNCHANGED <<lease, receipts>>)
  <2>1. Goto(k, IF result = "COMMITTED" THEN "committed" ELSE "blocked")
    BY <1>4 DEF Complete
  <2>2. PICK p \in {"committed", "blocked"} :
          at' = [at EXCEPT ![k] = p] /\ (p = "committed" => result = "COMMITTED")
    BY <2>1 DEF Goto
  <2>3. \A j \in Key : /\ at'[j] # "applying"
                       /\ at'[j] = "committed" => at[j] = "committed" \/ result = "COMMITTED"
                       /\ at[j] = "none" => at'[j] = "none"
    BY <1>1, <1>2, <2>2 DEF TasksOK
  <2>4. \/ UNCHANGED <<run, lease, receipts>>
        \/ /\ run.phase = "PUBLISHING" /\ run' = [run EXCEPT !.publish = result]
           /\ receipts' = receipts \cup {<<"complete", result>>}
    BY <1>4 DEF Complete, In, Save, Unsaved
  <2>5. CASE UNCHANGED <<run, lease, receipts>>
    BY <1>1, <2>3, <2>5 DEF OutcomeOK, OutcomeInv, FinishedIsSettled, Done, Holds, Advanced, Key
  <2>6. CASE /\ run.phase = "PUBLISHING" /\ run' = [run EXCEPT !.publish = result]
             /\ receipts' = receipts \cup {<<"complete", result>>}
    <3>1. run'.publish = result /\ run'.phase = "PUBLISHING"
      BY <1>1, <2>6 DEF Run
    <3>2. Unsubmitted
      BY <2>6, ReceiptNames, ReceiptsGrow
    <3>3. Holds
      BY <2>3, <3>2 DEF Holds, Advanced, Unsubmitted, Key
    <3> QED
      BY <1>1, <2>3, <2>6, <3>1, <3>3 DEF OutcomeOK, OutcomeInv, FinishedIsSettled, Terminal, Done
  <2> QED
    BY <2>4, <2>5, <2>6
<1> QED
  BY <1>3, <1>4

LEMMA ReportedOutcome ==
  ASSUME NEW k \in Key, OutcomeOK, ReportOutcome(k)
  PROVE  OutcomeInv' /\ Holds
<1>1. /\ UNCHANGED <<result, receipts, lease>> /\ run \in Run /\ TasksOK /\ at[k] # "none"
  BY DEF OutcomeOK, IInv, RecordOK, ReportOutcome, ExceptTask
<1>2. CASE Refused(k)
  BY <1>1, <1>2, CalmKeeps, RefusedCalm
<1>3. CASE ~Refused(k)
  <2>1. /\ End(k) /\ run.phase = "PUBLISHING"
        /\ \/ /\ at[k] = "committed" /\ lease # "mine"
              /\ run' = Items(SetPhase("COMPLETED"), {"manual"}, {})
           \/ run' = Items(Pause("INSPECT_ONLY"), {"manual"}, {})
    BY <1>3 DEF ReportOutcome, In, Save
  <2>2. Steady
    BY <1>1, <2>1, EndSteady
  <2>3. CASE run' = Items(Pause("INSPECT_ONLY"), {"manual"}, {})
    <3>1. run'.phase = "PAUSED" /\ run'.publish = run.publish
      BY <1>1, <2>3 DEF Items, Pause, Run
    <3> QED
      BY <1>1, <2>1, <2>2, <3>1, CalmKeeps DEF Calm, Unsubmitted, Terminal
  <2>4. CASE /\ at[k] = "committed" /\ lease # "mine"
             /\ run' = Items(SetPhase("COMPLETED"), {"manual"}, {})
    <3>1. run'.phase = "COMPLETED" /\ run'.publish = run.publish
      BY <1>1, <2>4 DEF Items, SetPhase, Run
    <3>2. result = "COMMITTED"
      BY <2>1, <2>4 DEF OutcomeOK, OutcomeInv, Done
    <3>3. \A j \in Key : at'[j] # "applying"
      BY <2>2, <3>2 DEF OutcomeOK, OutcomeInv, Steady, Marked
    <3>4. Holds
      BY <1>1, <2>2 DEF Holds, Advanced, Steady, Key
    <3> QED
      BY <1>1, <2>4, <3>1, <3>2, <3>3, <3>4 DEF OutcomeInv, FinishedIsSettled, Done
  <2> QED
    BY <2>1, <2>3, <2>4
<1> QED
  BY <1>2, <1>3

LEMMA PublishOutcome ==
  ASSUME NEW k \in Key, OutcomeOK, PublishStep(k)
  PROVE  OutcomeInv' /\ Holds
<1>1. IInv
  BY DEF OutcomeOK
<1> QED
  BY <1>1, PublishCalm, CalmKeeps, ConfirmOutcome, LeaseOutcome, ReadOutcome, PrepareOutcome,
     RecoveryOutcome, SubmitOutcome, AppliedOutcome, CompleteOutcome, ReportedOutcome
     DEF PublishStep

LEMMA CancelOutcome ==
  ASSUME NEW k \in Key, OutcomeOK, CancelStep(k)
  PROVE  OutcomeInv' /\ Holds
<1>1. run \in Run /\ TasksOK
  BY DEF OutcomeOK, IInv, RecordOK
<1>2. UNCHANGED <<result, lease>> /\ at[k] # "none"
  BY DEF CancelStep, StopWorker, FinishCancel
<1>3. Steady
  BY <1>1, GotoSteady, EndSteady DEF CancelStep, StopWorker, StopOwn, StopPersisted, FinishCancel,
     CommitCanceled, CommitBlocked, Marked
<1>4. Unsubmitted
  <2>1. CASE receipts' = receipts
    BY <2>1 DEF Unsubmitted
  <2>2. CASE receipts' # receipts
    <3>1. PICK r : receipts' = receipts \cup {<<"cancel", r>>}
      BY <2>2 DEF CancelStep, StopWorker, FinishCancel, CommitBlocked
    <3> QED
      BY <3>1, ReceiptNames, ReceiptsGrow
  <2> QED
    BY <2>1, <2>2
<1>5. run.phase \in Terminal => run' = run
  BY <1>1, CancelSticks DEF Sticks
<1>6. CASE run' = run \/ run' = Pause("PROCESS_RECONCILIATION")
  <2>1. run'.publish = run.publish /\ (run'.phase \in Terminal => run' = run)
    BY <1>1, <1>6 DEF Pause, Run, Terminal
  <2> QED
    BY <1>2, <1>3, <1>4, <1>5, <2>1, CalmKeeps DEF Calm
<1>7. CASE ~(run' = run \/ run' = Pause("PROCESS_RECONCILIATION"))
  <2>1. FinishCancel(k)
    BY <1>7 DEF CancelStep, StopWorker, Unsaved
  <2>2. /\ run.publish \notin UnsettledPublish /\ lease # "mine" /\ run.phase = "CANCELING"
        /\ run' = Items(Ended(SetPhase("CANCELED")), {"action"}, {})
    BY <1>7, <2>1 DEF FinishCancel, CommitCanceled, CommitBlocked, Unsaved, Save, BlockedReasons
  <2>3. run'.phase = "CANCELED" /\ run'.publish = run.publish
    BY <1>1, <2>2 DEF Items, Ended, SetPhase, Run
  <2>4. \A j \in Key : at'[j] # "applying"
    BY <1>3, <2>2 DEF OutcomeOK, OutcomeInv, Steady, Marked
  <2>5. Holds
    BY <1>3, <1>4 DEF Holds, Advanced, Steady, Unsubmitted, Key
  <2>6. ~Done
    BY <2>2 DEF Done
  <2> QED
    BY <1>2, <1>3, <2>2, <2>3, <2>4, <2>5, <2>6
       DEF OutcomeOK, OutcomeInv, FinishedIsSettled, Steady, Marked
<1> QED
  BY <1>6, <1>7

LEMMA RecoverOutcome ==
  ASSUME NEW k \in Key, OutcomeOK, RecoverStep(k)
  PROVE  OutcomeInv' /\ Holds
<1>1. run \in Run /\ TasksOK
  BY DEF OutcomeOK, IInv, RecordOK
<1>2. UNCHANGED <<result, receipts>> /\ at[k] # "none" /\ (lease' = "mine" => lease = "mine")
  BY DEF RecoverStep, Recover, InspectWorker, RecoverWorker, RecoverPublish, ExceptTask
<1>3. Steady
  <2>1. \A p \in DOMAIN RecoveryPoint : RecoveryPoint[p] \notin Marked
    BY DEF RecoveryPoint, Marked
  <2>2. CASE Recover(k)
    BY <1>1, <1>2, <2>1, <2>2, GotoSteady, EndSteady DEF Recover
  <2>3. CASE InspectWorker(k) \/ RecoverWorker(k) \/ RecoverPublish(k)
    BY <1>1, <1>2, <2>3, GotoSteady, EndSteady
       DEF InspectWorker, StopPersisted, RecoverWorker, RecoverPublish, Marked
  <2> QED
    BY <2>2, <2>3 DEF RecoverStep
<1>4. run.phase \in Terminal => run' = run
  BY <1>1, RecoverSticks DEF Sticks
<1>5. Holds
  BY <1>2, <1>3 DEF Holds, Advanced, Steady, Key
<1>6. CASE ~RecoverPublish(k)
  <2>1. run'.publish = run.publish /\ (run'.phase \in Terminal => run' = run)
    BY <1>1, <1>6 DEF RecoverStep, Recover, InspectWorker, RecoverWorker, Unsaved, Snapshot, Save,
       Ended, SetPhase, Pause, Run, Terminal
  <2> QED
    BY <1>2, <1>3, <1>4, <2>1, CalmKeeps DEF Calm, Unsubmitted
<1>7. CASE RecoverPublish(k)
  <2>1. CASE run' = run
    BY <1>2, <1>3, <2>1, CalmKeeps DEF Calm, Unsubmitted
  <2>2. CASE run' = Pause("INSPECT_ONLY")
    <3>1. run'.publish = run.publish /\ run'.phase = "PAUSED"
      BY <1>1, <2>2 DEF Pause, Run
    <3> QED
      BY <1>2, <1>3, <1>4, <3>1, CalmKeeps DEF Calm, Unsubmitted, Terminal
  <2>3. CASE /\ result = "COMMITTED" /\ lease' # "mine"
             /\ run' = [SetPhase("COMPLETED") EXCEPT !.publish = "COMMITTED"]
    <3>1. run'.phase = "COMPLETED" /\ run'.publish = "COMMITTED"
      BY <1>1, <2>3 DEF SetPhase, Run
    <3>2. \A j \in Key : at'[j] # "applying"
      BY <1>3, <2>3 DEF OutcomeOK, OutcomeInv, Steady, Marked
    <3> QED
      BY <1>2, <1>5, <2>3, <3>1, <3>2 DEF OutcomeInv, FinishedIsSettled, Done
  <2>4. CASE /\ run' # run /\ result = "CONFLICT"
             /\ run' = [Pause("INSPECT_ONLY") EXCEPT !.publish = "CONFLICT"]
    <3>1. run'.phase = "PAUSED" /\ run'.publish = "CONFLICT" /\ run.phase = "PUBLISHING"
      BY <1>1, <1>7, <2>4 DEF Pause, Run, RecoverPublish, Unmoved, Unsaved
    <3>2. \A j \in Key : at'[j] # "applying"
      BY <1>3, <2>4 DEF OutcomeOK, OutcomeInv, Steady, Marked
    <3> QED
      BY <1>2, <1>3, <1>5, <2>4, <3>1, <3>2
         DEF OutcomeOK, OutcomeInv, FinishedIsSettled, Terminal, Done, Steady, Marked
  <2> QED
    BY <1>7, <2>1, <2>2, <2>3, <2>4 DEF RecoverPublish, Unsaved, Save
<1> QED
  BY <1>6, <1>7

\* Start, Fail and Throw.
LEMMA EndsOutcome ==
  ASSUME NEW k \in Key, OutcomeOK, Start(k) \/ Fail(k) \/ Throw(k)
  PROVE  OutcomeInv' /\ Holds /\ Moves
<1>1. run \in Run /\ TasksOK
  BY DEF OutcomeOK, IInv, RecordOK
<1>2. UNCHANGED <<result, receipts, lease>> /\ at[k] # "none"
  BY DEF Start, Fail, Throw, ExceptTask, Fallible
<1>3. Steady
  <2>1. EntryPoint[k] \notin Marked
    BY DEF EntryPoint, Key, Marked
  <2>2. "failed" \notin Marked
    BY DEF Marked
  <2> QED
    BY <1>1, <1>2, <2>1, <2>2, GotoSteady, EndSteady DEF Start, Fail, Throw
<1>4. \/ run' = run
      \/ /\ run.phase \notin Terminal /\ run.phase \notin {"PAUSED", "CANCELING"}
         /\ run' = Pause(FailureCode(k))
         /\ at[k] = "failed"
  BY DEF Start, Fail, Throw, Unsaved, Save
<1>5. CASE run' = run
  <2>1. Calm
    BY <1>2, <1>3, <1>5 DEF Calm, Unsubmitted
  <2>2. Moves
    BY <1>5 DEF OutcomeOK, DecisionInv, Moves
  <2> QED
    BY <2>1, <2>2, CalmKeeps
<1>6. CASE /\ run.phase \notin Terminal /\ run.phase \notin {"PAUSED", "CANCELING"}
           /\ run' = Pause(FailureCode(k)) /\ at[k] = "failed"
  <2>1. /\ run'.phase = "PAUSED" /\ run'.pause = FailureCode(k)
        /\ run'.items = run.items /\ run'.publish = run.publish
    BY <1>1, <1>6 DEF Pause, Run
  <2>2. Calm
    BY <1>2, <1>3, <1>6, <2>1 DEF Calm, Unsubmitted, Terminal
  <2>3. FailureCode(k) \in {"STAGE_FAILED", "HOST_REVIEW_UNAVAILABLE", "PUBLISH_STAGE_FAILED"}
        /\ (FailureCode(k) = "PUBLISH_STAGE_FAILED" => k = "publish")
    BY DEF FailureCode
  <2>4. FailureCode(k) = "PUBLISH_STAGE_FAILED" => Decided(run)
    BY <1>2, <2>3 DEF OutcomeOK, DecisionInv, Advanced
  <2>5. Moves
    BY <2>1, <2>3, <2>4 DEF OutcomeOK, DecisionInv, Moves, StagesOK, Decided, Approved, Built,
       Works, Reviews, Publishes, BeginningPause, PublishPause
  <2> QED
    BY <2>2, <2>5, CalmKeeps
<1> QED
  BY <1>4, <1>5, <1>6

\* Only a run that is ready to publish gets the publish task.
LEMMA ClientOutcome ==
  ASSUME OutcomeOK, Client
  PROVE  OutcomeInv' /\ Holds /\ Moves
<1>1. run \in Run /\ TasksOK /\ UNCHANGED <<result, receipts, lease>> /\ run.phase \notin Terminal
  BY DEF OutcomeOK, IInv, RecordOK, Client, Cancel, ResumeWorker, ResumeReview, ResumePublish,
     ResumeReviewDecision, ExceptTask, Resumable, Terminal
<1>2. /\ \A j \in Key : at'[j] \in Marked => at'[j] = at[j]
      /\ ~ResumePublish => at'["publish"] = at["publish"]
  BY <1>1 DEF Client, Cancel, ResumeWorker, ResumeReview, ResumePublish, ResumeReviewDecision,
     Schedule, TasksOK, taskVars, Marked, Key
<1>3. PICK p \in {"CANCELING", "PREPARING", "REVIEW_PENDING", "READY_TO_PUBLISH", "FIXING"} :
        /\ run'.phase = p /\ run'.publish = run.publish
        /\ run'.items = run.items \/ (p = "READY_TO_PUBLISH" /\ run'.items = run.items \cup {"manual"})
        /\ p = "PREPARING" => run.phase = "PAUSED" /\ run.pause \in {"PROBE_FAILED", "ATTEMPT_FAILED"}
        /\ p = "REVIEW_PENDING" => "action" \in run.items
        /\ p = "READY_TO_PUBLISH" => run.phase = "PAUSED" /\ run.pause \in PublishPause
        /\ p = "FIXING" => run.phase = "PAUSED" /\ run.pause = "AUTOMATIC_REPAIR_LIMIT"
        /\ ResumePublish => p = "READY_TO_PUBLISH"
  <2>1. CASE Cancel
    <3>1. run' = SetPhase("CANCELING")
      BY <2>1 DEF Cancel, Save
    <3>2. ResumePublish => run'.phase = "READY_TO_PUBLISH"
      BY <1>1 DEF ResumePublish, Save, SetPhase, Items, Run
    <3>3. run'.phase = "CANCELING" /\ run'.publish = run.publish /\ run'.items = run.items
      BY <1>1, <3>1 DEF SetPhase, Run
    <3> QED
      BY <3>2, <3>3
  <2>2. CASE ResumeWorker
    BY <1>1, <2>2 DEF ResumeWorker, ResumePublish, Resumable, Accepted, Save, SetPhase, Run
  <2>3. CASE ResumeReview
    BY <1>1, <2>3 DEF ResumeReview, ResumePublish, Resumable, Accepted, Save, SetPhase, Run
  <2>4. CASE ResumePublish
    BY <1>1, <2>4 DEF ResumePublish, Resumable, Accepted, Save, SetPhase, Items, Run, PublishPause
  <2>5. CASE ResumeReviewDecision
    BY <1>1, <2>5 DEF ResumeReviewDecision, ResumePublish, Resumable, Accepted, Save, SetPhase, Run
  <2> QED
    BY <2>1, <2>2, <2>3, <2>4, <2>5 DEF Client
<1>4. Holds
  BY <1>1, <1>2, <1>3 DEF Holds, Advanced, Publishes
<1>5. Moves
  BY <1>3 DEF OutcomeOK, DecisionInv, Moves, StagesOK, Decided, Approved, Built, Works, Reviews,
     Publishes, BeginningPause, PublishPause
<1>6. run'.phase \notin Terminal /\ ~Done
  BY <1>1, <1>3 DEF Terminal, Done
<1> QED
  BY <1>1, <1>2, <1>3, <1>4, <1>5, <1>6 DEF OutcomeOK, OutcomeInv, FinishedIsSettled, Marked

LEMMA OthersOutcome ==
  ASSUME OutcomeOK, WorkerExits \/ OtherRuns \/ Crash \/ Boot
  PROVE  OutcomeInv' /\ Holds /\ Moves
<1>1. TasksOK /\ lease \in {"free", "mine", "other"}
  BY DEF OutcomeOK, IInv, WorldOK
<1>2. UNCHANGED <<run, result, receipts>> /\ (lease' = "mine" => lease = "mine")
  BY <1>1 DEF WorkerExits, OtherRuns, Crash, Boot, Save
<1>3. \A j \in Key : at'[j] \in Marked => at'[j] = at[j]
  BY <1>1 DEF WorkerExits, OtherRuns, Crash, Boot, Schedule, taskVars, Marked, TasksOK, Key
<1>4. at'["publish"] # "none" => at["publish"] # "none"
  BY <1>1 DEF WorkerExits, OtherRuns, Crash, Boot, Schedule, taskVars, TasksOK, Key
<1>5. Holds /\ Moves
  BY <1>2, <1>4 DEF Holds, Advanced, Moves, OutcomeOK, DecisionInv
<1> QED
  BY <1>2, <1>3, <1>5 DEF OutcomeOK, OutcomeInv, FinishedIsSettled, Done, Marked

LEMMA OutcomeNext ==
  ASSUME OutcomeOK, [Next]_<<vars, bounds>>
  PROVE  OutcomeOK'
<1>1. RecordOK /\ DecisionInv /\ IInv
  BY DEF OutcomeOK, IInv
<1>2. IInv'
  BY <1>1, IInvNext
<1>3. SubmittedFirst'
  BY ApplyNext DEF OutcomeOK, vars, taskVars, SubmittedFirst, Applied
<1>4. ASSUME NEW k \in Key, Step(k)
      PROVE  OutcomeInv' /\ Holds /\ Moves
  <2>1. CASE Start(k) \/ Fail(k)
    BY <2>1, EndsOutcome
  <2>2. CASE WorkerStep(k)
    BY <1>1, <2>2, WorkerCalm, CalmKeeps, WorkerMoves
  <2>3. CASE ReviewStep(k)
    BY <1>1, <2>3, ReviewCalm, CalmKeeps, ReviewMoves
  <2>4. CASE PublishStep(k)
    BY <1>1, <2>4, PublishOutcome, PublishMoves
  <2>5. CASE CancelStep(k)
    BY <1>1, <2>5, CancelOutcome, CancelMoves
  <2>6. CASE RecoverStep(k)
    BY <1>1, <2>6, RecoverOutcome, RecoverMoves
  <2> QED
    BY <1>4, <2>1, <2>2, <2>3, <2>4, <2>5, <2>6 DEF Step
<1>5. CASE Next
  <2>1. OutcomeInv' /\ Holds /\ Moves
    BY <1>4, <1>5, EndsOutcome, ClientOutcome, OthersOutcome DEF Next
  <2> QED
    BY <1>1, <1>2, <1>3, <2>1, DecisionStep DEF OutcomeOK
<1>6. CASE UNCHANGED <<vars, bounds>>
  BY <1>2, <1>3, <1>6 DEF OutcomeOK, OutcomeInv, FinishedIsSettled, Done, DecisionInv, Advanced,
     vars, taskVars
<1> QED
  BY <1>5, <1>6

LEMMA OutcomeInit == Init => OutcomeOK
<1> SUFFICES ASSUME Init PROVE OutcomeOK
  OBVIOUS
<1>1. IInv
  BY IInvInit
<1>2. SubmittedFirst /\ DecisionInv
  BY DEF Init, SubmittedFirst, Applied, DecisionInv, StagesOK, Works, Reviews, Publishes, Advanced, Key
<1>3. OutcomeInv
  BY DEF Init, OutcomeInv, FinishedIsSettled, Terminal
<1> QED
  BY <1>1, <1>2, <1>3 DEF OutcomeOK

-----------------------------------------------------------------------------

THEOREM OutcomeInvariance == Spec => []OutcomeOK
  BY OutcomeInit, OutcomeNext, PTL DEF Spec

\* Whatever fails, crashes and is retried, a run is ready to publish, has a publish
\* attempt, or has files in the project only with a candidate that is not empty and
\* that a review has accepted.
THEOREM AcceptedIsPublished == Spec => []OnlyAcceptedIsPublished
<1>1. OutcomeOK => OnlyAcceptedIsPublished
  BY DEF OutcomeOK, SubmittedFirst, Applied, DecisionInv, Advanced, StagesOK, Publishes, Decided,
     Approved, Built, OnlyAcceptedIsPublished
<1> QED
  BY <1>1, OutcomeInvariance, PTL

\* A run that has ended leaves neither the publish lease nor an apply open, canceled
\* no attempt of unknown outcome, completed no candidate that is not in the project.
THEOREM FinishedRunsAreSettled == Spec => []FinishedIsSettled
<1>1. OutcomeOK => FinishedIsSettled
  BY DEF OutcomeOK, OutcomeInv
<1> QED
  BY <1>1, OutcomeInvariance, PTL

-----------------------------------------------------------------------------
(* The work of a run's tasks is finite: a measure that every step lowers   *)
(* which a client, a failure or a task takes.                              *)

\* How far each program point is from the end of its task, as long as the task
\* enters no other round.
Ahead ==
    [none |-> 0, failed |-> 1,
     committed |-> 2, blocked |-> 2, busy |-> 2, conflicted |-> 2, stopped |-> 2, unstopped |-> 2,
     complete |-> 3, applying |-> 4, cancel |-> 4, observe |-> 5, submit |-> 5,
     bindPrepared |-> 6, bindSubmitted |-> 6, bindUnknown |-> 6, bindConflict |-> 6,
     prepare |-> 6, existing |-> 7, release |-> 7, preflight |-> 8, acquire |-> 9,
     confirm |-> 9, publish |-> 10, reviewing |-> 11, review |-> 12, repair |-> 13,
     after |-> 14, capture |-> 15, reconcile |-> 16, streaming |-> 17, spawned |-> 18,
     spawn |-> 19, begin |-> 20, probing |-> 21, initial |-> 22, enter |-> 23,
     workerStopped |-> 24, workerUnknown |-> 24, reconcilePublish |-> 24,
     recover |-> 25, start |-> 26]

WayLeft == Ahead[at["pipeline"]] + Ahead[at["review"]] + Ahead[at["publish"]]
           + Ahead[at["cancel"]] + Ahead[at["recover"]]

\* What a round may still lead to: another review, a first candidate without
\* changes, another attempt without progress.
Attempting(r) == r.phase \in {"PREPARING", "RUNNING", "FIXING"}
RoundsLeft(r) == 2 * (RepairLimit - r.rounds) + (IF Attempting(r) THEN 1 ELSE 0)
Novelty(r)    == IF r.phase = "FIXING" /\ "empty" \notin r.items THEN 2
                 ELSE IF {"round", "emptyRound"} \subseteq r.items THEN 0 ELSE 1
Patience(r)   == NoProgressLimit - r.noProgress

\* Whether the daemon is still to be started again.
Down == IF daemon = "down" THEN 1 ELSE 0

Fewer(r, s) ==
    \/ RoundsLeft(s) < RoundsLeft(r)
    \/ RoundsLeft(s) = RoundsLeft(r) /\ Novelty(s) < Novelty(r)
    \/ RoundsLeft(s) = RoundsLeft(r) /\ Novelty(s) = Novelty(r) /\ Patience(s) < Patience(r)

Alike(r, s) ==
    RoundsLeft(s) = RoundsLeft(r) /\ Novelty(s) = Novelty(r) /\ Patience(s) = Patience(r)

\* The lexicographic order of requests and failures, restart, rounds, way.
LessWork ==
    LET budget == requests + failures IN
    \/ budget' < budget
    \/ budget' = budget /\ Down' < Down
    \/ budget' = budget /\ Down' = Down /\ Fewer(run, run')
    \/ budget' = budget /\ Down' = Down /\ Alike(run, run') /\ WayLeft' < WayLeft

Idles == UNCHANGED <<daemon, run, receipts, result, at, bounds>>

\* All parts of the measure are natural numbers.
WorkIsCounted ==
    /\ requests + failures \in Nat /\ Down \in Nat /\ WayLeft \in Nat
    /\ RoundsLeft(run) \in Nat /\ Novelty(run) \in Nat /\ Patience(run) \in Nat

-----------------------------------------------------------------------------

LEMMA AheadOf ==
    /\ Ahead["none"] = 0 /\ Ahead["failed"] = 1
    /\ \A p \in {"committed", "blocked", "busy", "conflicted", "stopped", "unstopped"} : Ahead[p] = 2
    /\ Ahead["complete"] = 3 /\ Ahead["applying"] = 4 /\ Ahead["cancel"] = 4
    /\ Ahead["observe"] = 5 /\ Ahead["submit"] = 5
    /\ \A p \in {"bindPrepared", "bindSubmitted", "bindUnknown", "bindConflict", "prepare"} : Ahead[p] = 6
    /\ Ahead["existing"] = 7 /\ Ahead["release"] = 7 /\ Ahead["preflight"] = 8
    /\ Ahead["acquire"] = 9 /\ Ahead["confirm"] = 9 /\ Ahead["publish"] = 10
    /\ Ahead["reviewing"] = 11 /\ Ahead["review"] = 12 /\ Ahead["repair"] = 13
    /\ Ahead["after"] = 14 /\ Ahead["capture"] = 15 /\ Ahead["reconcile"] = 16
    /\ Ahead["streaming"] = 17 /\ Ahead["spawned"] = 18 /\ Ahead["spawn"] = 19
    /\ Ahead["begin"] = 20 /\ Ahead["probing"] = 21 /\ Ahead["initial"] = 22
    /\ Ahead["enter"] = 23
    /\ \A p \in {"workerStopped", "workerUnknown", "reconcilePublish"} : Ahead[p] = 24
    /\ Ahead["recover"] = 25 /\ Ahead["start"] = 26
BY DEF Ahead

LEMMA AheadIsNatural == \A p \in Point : Ahead[p] \in Nat
BY AheadOf, PointSet

\* Task k is at p next, which is nearer to its end.
Moved(k, p) == at' = [at EXCEPT ![k] = p]
Onward(k) == \E p \in Point : Moved(k, p) /\ Ahead[p] < Ahead[at[k]]

LEMMA OnwardIsShorter ==
    ASSUME TasksOK, NEW k \in Key, Onward(k)
    PROVE  WayLeft' < WayLeft
<1>1. PICK p \in Point : Moved(k, p) /\ Ahead[p] < Ahead[at[k]] BY DEF Onward
<1>2. \A j \in Key : /\ Ahead[at[j]] \in Nat /\ Ahead[at'[j]] \in Nat
                     /\ j # k => at'[j] = at[j]
      BY <1>1, AheadIsNatural DEF TasksOK, Moved
<1>3. at'[k] = p BY <1>1 DEF TasksOK, Moved
<1>4. \A j \in Key : Ahead[at'[j]] <= Ahead[at[j]] BY <1>1, <1>2, <1>3
<1>5. Ahead[at'[k]] < Ahead[at[k]] BY <1>1, <1>3
<1>6. k \in {"pipeline", "review", "publish", "cancel", "recover"} BY DEF Key
<1>7. QED BY <1>2, <1>4, <1>5, <1>6 DEF WayLeft, Key

-----------------------------------------------------------------------------
(* What a commit does to the rounds that are left.                         *)

SameEffort(r, s) ==
    /\ s.rounds = r.rounds /\ s.noProgress = r.noProgress
    /\ \A i \in {"round", "emptyRound"} : i \in s.items <=> i \in r.items

NoMore(r, s) == Fewer(r, s) \/ Alike(r, s)

LEMMA RestingNoMore ==
    ASSUME NEW r \in Run, NEW s \in Run, SameEffort(r, s), ~Attempting(s)
    PROVE  NoMore(r, s)
<1>1. r.rounds \in Nat /\ RepairLimit \in Nat BY LimitsAssumption DEF Run
<1>2. Patience(s) = Patience(r) BY DEF Patience, SameEffort
<1>3. Novelty(s) <= Novelty(r) BY DEF Novelty, SameEffort, Attempting
<1>4. CASE Attempting(r)
      BY <1>1, <1>4 DEF RoundsLeft, NoMore, Fewer, SameEffort
<1>5. CASE ~Attempting(r)
  <2>1. RoundsLeft(s) = RoundsLeft(r) BY <1>5 DEF RoundsLeft, SameEffort
  <2>2. Novelty(s) \in Nat /\ Novelty(r) \in Nat BY DEF Novelty
  <2>3. QED BY <1>2, <1>3, <2>1, <2>2 DEF NoMore, Fewer, Alike
<1>6. QED BY <1>4, <1>5

LEMMA AttemptingNoMore ==
    ASSUME NEW r \in Run, NEW s \in Run, SameEffort(r, s), Attempting(r), Attempting(s),
           s.phase = "FIXING" => "empty" \in s.items
    PROVE  NoMore(r, s)
<1>1. Patience(s) = Patience(r) BY DEF Patience, SameEffort
<1>2. RoundsLeft(s) = RoundsLeft(r) BY DEF RoundsLeft, SameEffort
<1>3. Novelty(s) <= Novelty(r) BY DEF Novelty, SameEffort
<1>4. Novelty(s) \in Nat /\ Novelty(r) \in Nat BY DEF Novelty
<1>5. QED BY <1>1, <1>2, <1>3, <1>4 DEF NoMore, Fewer, Alike

LEMMA SameNoMore == ASSUME NEW r PROVE NoMore(r, r)
BY DEF NoMore, Alike

\* The fields that a commit's operators keep.
LEMMA PhaseEffort ==
    ASSUME run \in Run, NEW p \in Phase
    PROVE  SetPhase(p).phase = p /\ SetPhase(p).items = run.items /\ SameEffort(run, SetPhase(p))
BY DEF SetPhase, Run, SameEffort

LEMMA PauseEffort ==
    ASSUME run \in Run, NEW c \in PauseCode
    PROVE  Pause(c).phase = "PAUSED" /\ Pause(c).items = run.items /\ SameEffort(run, Pause(c))
BY DEF Pause, Run, SameEffort

LEMMA ItemsEffort ==
    ASSUME NEW r \in Run, NEW out, NEW in,
           \A i \in {"round", "emptyRound"} : i \notin out /\ i \notin in
    PROVE  Items(r, out, in).phase = r.phase /\ SameEffort(r, Items(r, out, in))
BY DEF Items, Run, SameEffort

LEMMA AttemptEffort ==
    ASSUME NEW r \in Run, NEW a \in AttemptStatus
    PROVE  /\ [r EXCEPT !.attempt = a] \in Run
           /\ [r EXCEPT !.attempt = a].phase = r.phase
           /\ [r EXCEPT !.attempt = a].items = r.items
           /\ SameEffort(r, [r EXCEPT !.attempt = a])
BY DEF Run, SameEffort

LEMMA PublishEffort ==
    ASSUME NEW r \in Run, NEW s \in PublishStatus
    PROVE  /\ [r EXCEPT !.publish = s] \in Run
           /\ [r EXCEPT !.publish = s].phase = r.phase
           /\ [r EXCEPT !.publish = s].items = r.items
           /\ SameEffort(r, [r EXCEPT !.publish = s])
BY DEF Run, SameEffort

LEMMA EffortAdds ==
    ASSUME NEW r, NEW s, NEW t, SameEffort(r, s), SameEffort(s, t) PROVE SameEffort(r, t)
BY DEF SameEffort

\* A step of a task brings it nearer to its end and the run no farther from its
\* own, or it leaves less for the rounds to come and enters the next one.
Progress(k) == \/ Onward(k) /\ NoMore(run, run')
               \/ Fewer(run, run') /\ Moved(k, "enter")

LEMMA RestingProgress ==
    ASSUME NEW k \in Key, run \in Run, run' \in Run, Onward(k),
           SameEffort(run, run'), ~Attempting(run')
    PROVE  Progress(k)
BY RestingNoMore DEF Progress

LEMMA AttemptingProgress ==
    ASSUME NEW k \in Key, run \in Run, run' \in Run, Onward(k),
           SameEffort(run, run'), Attempting(run), Attempting(run'),
           run'.phase = "FIXING" => "empty" \in run'.items
    PROVE  Progress(k)
BY AttemptingNoMore DEF Progress

LEMMA UnsavedProgress ==
    ASSUME NEW k \in Key, Onward(k), run' = run
    PROVE  Progress(k)
BY SameNoMore DEF Progress

\* A task that goes to a nearer point.
LEMMA GotoOnward ==
    ASSUME NEW k \in Key, NEW p \in Point, Ahead[p] < Ahead[at[k]],
           Goto(k, p) \/ Capture(k, p) \/ (p = "none" /\ End(k))
    PROVE  Onward(k)
BY DEF Onward, Moved, Goto, Capture, End

LEMMA PausedProgress ==
    ASSUME NEW k \in Key, run \in Run, run' \in Run, Onward(k),
           NEW c \in PauseCode, run' = Pause(c)
    PROVE  Progress(k)
<1>1. SameEffort(run, run') /\ ~Attempting(run') BY PauseEffort DEF Attempting
<1>2. QED BY <1>1, RestingProgress

LEMMA RepairProgress ==
    ASSUME NEW k \in Key, run \in Run, run' \in Run, Repair(k)
    PROVE  Progress(k)
<1>1. at[k] = "repair" BY DEF Repair
<1>2. "none" \in Point /\ "failed" \in Point BY PointSet
<1>3. Ahead["none"] < Ahead[at[k]] /\ Ahead["failed"] < Ahead[at[k]] BY <1>1, AheadOf
<1>4. CASE run' = run /\ Goto(k, "failed")
      BY <1>2, <1>3, <1>4, GotoOnward, UnsavedProgress
<1>5. CASE End(k) /\ run' = Pause("INSPECT_ONLY")
  <2>1. Onward(k) BY <1>2, <1>3, <1>5, GotoOnward
  <2>2. QED BY <1>5, <2>1, PausedProgress, PauseCodes
<1>6. ASSUME NEW n \in NoProgressAfter, run.phase = "FIXING", End(k),
             run' = [Pause("INSPECT_ONLY") EXCEPT !.noProgress = n]
      PROVE  Progress(k)
  <2>1. Onward(k) BY <1>2, <1>3, <1>6, GotoOnward
  <2>2. run'.phase = "PAUSED" /\ run'.rounds = run.rounds
        BY <1>6 DEF Pause, Run
  <2>3. RoundsLeft(run') < RoundsLeft(run)
        BY <1>6, <2>2, LimitsAssumption DEF RoundsLeft, Attempting, Run
  <2>4. QED BY <2>1, <2>3 DEF Progress, NoMore, Fewer
<1>7. ASSUME NEW n \in NoProgressAfter, run.phase = "FIXING", Goto(k, "enter"),
             run' = Items([SetPhase("PREPARING") EXCEPT !.noProgress = n, !.publish = "none"],
                          Item \ {"identity"},
                          IF "empty" \in run.items THEN {"round", "emptyRound"} ELSE {"round"})
      PROVE  Progress(k)
  <2>1. Moved(k, "enter") BY <1>7 DEF Goto, Moved
  <2>2. run'.phase = "PREPARING" /\ run'.rounds = run.rounds /\ run'.noProgress = n
        BY <1>7 DEF Items, SetPhase, Run
  <2>3. RoundsLeft(run') = RoundsLeft(run) BY <1>7, <2>2 DEF RoundsLeft, Attempting
  <2>4. run'.items = (run.items \ (Item \ {"identity"}))
                       \cup (IF "empty" \in run.items THEN {"round", "emptyRound"} ELSE {"round"})
        BY <1>7 DEF Items, SetPhase, Run
  <2>5. CASE "empty" \notin run.items
    <3>1. "emptyRound" \notin run'.items BY <2>4, <2>5 DEF Item
    <3>2. Novelty(run') = 1 /\ Novelty(run) = 2 BY <1>7, <2>2, <2>5, <3>1 DEF Novelty
    <3>3. QED BY <2>1, <2>3, <3>2 DEF Progress, Fewer
  <2>6. CASE "empty" \in run.items
    <3>1. {"round", "emptyRound"} \subseteq run'.items BY <2>4, <2>6
    <3>2. Novelty(run') = 0 BY <2>2, <3>1 DEF Novelty
    <3>3. CASE {"round", "emptyRound"} \subseteq run.items
      <4>1. n = run.noProgress + 1 BY <1>7, <2>6, <3>3 DEF NoProgressAfter
      <4>2. Patience(run') < Patience(run)
            BY <2>2, <4>1, LimitsAssumption DEF Patience, Run
      <4>3. Novelty(run) = 0 BY <2>6, <3>3 DEF Novelty
      <4>4. QED BY <2>1, <2>3, <3>2, <4>2, <4>3 DEF Progress, Fewer
    <3>4. CASE ~({"round", "emptyRound"} \subseteq run.items)
      <4>1. Novelty(run) = 1 BY <2>6, <3>4 DEF Novelty
      <4>2. QED BY <2>1, <2>3, <3>2, <4>1 DEF Progress, Fewer
    <3>5. QED BY <3>3, <3>4
  <2>7. QED BY <2>5, <2>6
<1>8. QED BY <1>4, <1>5, <1>6, <1>7 DEF Repair, Save, Unsaved

LEMMA WorkerProgress ==
    ASSUME NEW k \in Key, run \in Run, run' \in Run, WorkerStep(k)
    PROVE  Progress(k)
<1> USE PointSet, AheadOf
<1>1. CASE Enter(k)
  <2>1. Onward(k) BY <1>1, GotoOnward DEF Enter
  <2>2. QED BY <1>1, <2>1, UnsavedProgress DEF Enter, Unsaved
<1>2. CASE Initial(k)
  <2>1. Onward(k) BY <1>2, GotoOnward DEF Initial
  <2>2. QED BY <1>2, <2>1, UnsavedProgress DEF Initial, Unsaved, Snapshot
<1>3. CASE ProbeFails(k)
  <2>1. Onward(k) BY <1>3, GotoOnward DEF ProbeFails
  <2>2. QED BY <1>3, <2>1, PausedProgress, PauseCodes DEF ProbeFails, Save
<1>4. CASE Prepare(k)
  <2>1. Onward(k) BY <1>4, GotoOnward DEF Prepare
  <2>2. run' = SetPhase("RUNNING") /\ run.phase = "PREPARING" BY <1>4 DEF Prepare, Save
  <2>3. run'.phase = "RUNNING" /\ SameEffort(run, run')
        BY <2>2, PhaseEffort DEF Phase, Automatic
  <2>4. QED BY <2>1, <2>2, <2>3, AttemptingProgress DEF Attempting
<1>5. CASE PrepareRefused(k)
  <2>1. Onward(k) BY <1>5, GotoOnward DEF PrepareRefused
  <2>2. QED BY <1>5, <2>1, UnsavedProgress DEF PrepareRefused, Unsaved
<1>6. CASE BeginAttempt(k)
  <2>1. CASE Unsaved /\ Goto(k, "failed")
    <3>1. Onward(k) BY <1>6, <2>1, GotoOnward DEF BeginAttempt
    <3>2. QED BY <2>1, <3>1, UnsavedProgress DEF Unsaved
  <2>2. CASE /\ run.phase = "RUNNING" /\ at' = [at EXCEPT ![k] = "spawn"]
             /\ run' = Items([run EXCEPT !.attempt = "PREPARING"], {"identity"}, {})
    <3>1. Onward(k) BY <1>6, <2>2 DEF BeginAttempt, Onward, Moved
    <3>2. run'.phase = "RUNNING" /\ SameEffort(run, run')
          BY <2>2 DEF Items, Run, SameEffort
    <3>3. QED BY <2>2, <3>1, <3>2, AttemptingProgress DEF Attempting
  <2>3. QED BY <1>6, <2>1, <2>2 DEF BeginAttempt, Save
<1>7. CASE Spawn(k)
  <2>1. Onward(k) BY <1>7, GotoOnward DEF Spawn
  <2>2. QED BY <1>7, <2>1, UnsavedProgress DEF Spawn, Unsaved
<1>8. CASE Started(k)
  <2>1. Onward(k) BY <1>8, GotoOnward DEF Started
  <2>2. CASE run' = run BY <2>1, <2>2, UnsavedProgress
  <2>3. CASE /\ run.phase = "RUNNING"
             /\ run' = Items([run EXCEPT !.attempt = "RUNNING"], {}, {"identity"})
    <3>1. run'.phase = "RUNNING" /\ SameEffort(run, run')
          BY <2>3 DEF Items, Run, SameEffort
    <3>2. QED BY <2>1, <2>3, <3>1, AttemptingProgress DEF Attempting
  <2>4. QED BY <1>8, <2>2, <2>3 DEF Started, Running, Save, Unsaved
<1>9. CASE Disowned(k)
  <2>1. Onward(k) BY <1>9, GotoOnward DEF Disowned
  <2>2. QED BY <1>9, <2>1, UnsavedProgress DEF Disowned, Unsaved
<1>10. CASE Completed(k)
  <2>1. Onward(k) BY <1>10, GotoOnward DEF Completed
  <2>2. CASE run' = run BY <2>1, <2>2, UnsavedProgress
  <2>3. CASE /\ run.phase = "RUNNING"
             /\ run' = [run EXCEPT !.attempt = "COMPLETED", !.pause = "none"]
    <3>1. run'.phase = "RUNNING" /\ SameEffort(run, run') BY <2>3 DEF Run, SameEffort
    <3>2. QED BY <2>1, <2>3, <3>1, AttemptingProgress DEF Attempting
  <2>4. QED BY <1>10, <2>2, <2>3 DEF Completed, Running, Save, Unsaved
<1>11. CASE AttemptEnds(k)
  <2>1. Onward(k) BY <1>11, GotoOnward DEF AttemptEnds
  <2>2. CASE run' = run BY <2>1, <2>2, UnsavedProgress
  <2>3. ASSUME NEW c \in PauseCode, run' = [Pause(c) EXCEPT !.attempt = "ENDED"]
        PROVE  Progress(k)
    <3>1. Pause(c) \in Run /\ Pause(c).phase = "PAUSED" /\ SameEffort(run, Pause(c))
          BY Paused, PauseEffort
    <3>2. run'.phase = "PAUSED" /\ SameEffort(run, run')
          BY <2>3, <3>1, AttemptEffort, EffortAdds DEF AttemptStatus
    <3>3. QED BY <2>1, <3>2, RestingProgress DEF Attempting
  <2>4. QED BY <1>11, <2>2, <2>3, PauseCodes DEF AttemptEnds, Save, Unsaved
<1>12. CASE Reconcile(k)
  <2>1. Onward(k) BY <1>12, GotoOnward DEF Reconcile
  <2>2. run' = run \/ run' = Pause("INSPECT_ONLY") BY <1>12 DEF Reconcile, Save, Unsaved
  <2>3. QED BY <2>1, <2>2, UnsavedProgress, PausedProgress, PauseCodes
<1>13. CASE CaptureCandidate(k)
  <2>1. Onward(k) BY <1>13, GotoOnward DEF CaptureCandidate
  <2>2. CASE run' = run BY <2>1, <2>2, UnsavedProgress
  <2>3. CASE /\ run.phase = "RUNNING"
             /\ run' = Items(SetPhase("FIXING"), {}, {"candidate", "empty"})
    <3>1. SetPhase("FIXING").phase = "FIXING" /\ SameEffort(run, SetPhase("FIXING"))
          BY PhaseEffort DEF Phase, Automatic
    <3>2. SetPhase("FIXING") \in Run BY PhaseSet DEF Phase, Automatic
    <3>3. run'.phase = "FIXING" /\ SameEffort(run, run')
          BY <2>3, <3>1, <3>2, ItemsEffort, EffortAdds
    <3>4. "empty" \in run'.items BY <2>3, <3>2, ItemFields
    <3>5. QED BY <2>1, <2>3, <3>3, <3>4, AttemptingProgress DEF Attempting
  <2>4. ASSUME NEW p \in {"REVIEW_PENDING", "READY_TO_PUBLISH"},
               NEW in \in {{"candidate"}, {"candidate", "action"}},
               run' = Items(SetPhase(p), {"empty"}, in)
        PROVE  Progress(k)
    <3>1. SetPhase(p) \in Run /\ SetPhase(p).phase = p /\ SameEffort(run, SetPhase(p))
          BY PhaseSet, PhaseEffort DEF Phase, Automatic
    <3>2. run'.phase = p /\ SameEffort(run, run')
          BY <2>4, <3>1, ItemsEffort, EffortAdds
    <3>3. QED BY <2>1, <3>2, RestingProgress DEF Attempting
  <2>5. QED BY <1>13, <2>2, <2>3, <2>4 DEF CaptureCandidate, Running, Save, Unsaved
<1>14. CASE After(k)
  <2>1. Onward(k) BY <1>14, GotoOnward DEF After
  <2>2. QED BY <1>14, <2>1, UnsavedProgress DEF After, Unsaved
<1>15. CASE Repair(k) BY <1>15, RepairProgress
<1>16. QED BY <1>1, <1>2, <1>3, <1>4, <1>5, <1>6, <1>7, <1>8, <1>9, <1>10, <1>11, <1>12,
              <1>13, <1>14, <1>15 DEF WorkerStep

LEMMA ReviewProgress ==
    ASSUME NEW k \in Key, run \in Run, run' \in Run, ReviewStep(k)
    PROVE  Progress(k)
<1> USE PointSet, AheadOf
<1>1. CASE Review(k)
  <2>1. Onward(k) BY <1>1, GotoOnward DEF Review
  <2>2. CASE run' = run BY <2>1, <2>2, UnsavedProgress
  <2>3. CASE run' = SetPhase("REVIEWING")
    <3>1. run'.phase = "REVIEWING" /\ SameEffort(run, run')
          BY <2>3, PhaseEffort DEF Phase, Automatic
    <3>2. QED BY <2>1, <3>1, RestingProgress DEF Attempting
  <2>4. QED BY <1>1, <2>2, <2>3 DEF Review, Save, Unsaved
<1>2. CASE ReviewLapses(k)
  <2>1. Onward(k) BY <1>2, GotoOnward DEF ReviewLapses
  <2>2. QED BY <1>2, <2>1, UnsavedProgress DEF ReviewLapses, Unsaved
<1>3. CASE Accept(k)
  <2>1. Onward(k) BY <1>3, GotoOnward DEF Accept
  <2>2. run' = Items(SetPhase("READY_TO_PUBLISH"), {"action"}, {"accepted"})
        BY <1>3 DEF Accept, Save
  <2>3. /\ SetPhase("READY_TO_PUBLISH") \in Run
        /\ SetPhase("READY_TO_PUBLISH").phase = "READY_TO_PUBLISH"
        /\ SameEffort(run, SetPhase("READY_TO_PUBLISH"))
        BY PhaseSet, PhaseEffort DEF Phase, Automatic
  <2>4. run'.phase = "READY_TO_PUBLISH" /\ SameEffort(run, run')
        BY <2>2, <2>3, ItemsEffort, EffortAdds
  <2>5. QED BY <2>1, <2>4, RestingProgress DEF Attempting
<1>4. CASE OrderRepair(k)
  <2>1. CASE /\ run.rounds < RepairLimit /\ Goto(k, "enter")
             /\ run' = Items([SetPhase("FIXING") EXCEPT !.rounds = @ + 1], {"action"}, {})
    <3>1. run.phase = "REVIEWING" BY <1>4 DEF OrderRepair, ReviewActive
    <3>2. run'.rounds = run.rounds + 1 BY <2>1 DEF Items, SetPhase, Run
    <3>3. RoundsLeft(run') < RoundsLeft(run)
          BY <2>1, <3>1, <3>2, LimitsAssumption DEF RoundsLeft, Attempting, Run
    <3>4. QED BY <2>1, <3>3 DEF Progress, Fewer, Moved, Goto
  <2>2. CASE End(k) /\ run' = Items(Pause("AUTOMATIC_REPAIR_LIMIT"), {"action"}, {})
    <3>1. Onward(k) BY <1>4, <2>2, GotoOnward DEF OrderRepair
    <3>2. /\ Pause("AUTOMATIC_REPAIR_LIMIT") \in Run
          /\ Pause("AUTOMATIC_REPAIR_LIMIT").phase = "PAUSED"
          /\ SameEffort(run, Pause("AUTOMATIC_REPAIR_LIMIT"))
          BY Paused, PauseEffort, PauseCodes
    <3>3. run'.phase = "PAUSED" /\ SameEffort(run, run')
          BY <2>2, <3>2, ItemsEffort, EffortAdds
    <3>4. QED BY <3>1, <3>3, RestingProgress DEF Attempting
  <2>3. QED BY <1>4, <2>1, <2>2 DEF OrderRepair, Save
<1>5. CASE ReviewExhausted(k)
  <2>1. Onward(k) BY <1>5 DEF ReviewExhausted, Onward, Moved
  <2>2. QED BY <1>5, <2>1, PausedProgress, PauseCodes DEF ReviewExhausted, Save
<1>6. QED BY <1>1, <1>2, <1>3, <1>4, <1>5 DEF ReviewStep

\* A commit that leaves the run with no attempt to come.
Rests == run' = run \/ (SameEffort(run, run') /\ ~Attempting(run'))

LEMMA RestsProgress ==
    ASSUME NEW k \in Key, run \in Run, run' \in Run, Onward(k), Rests
    PROVE  Progress(k)
BY UnsavedProgress, RestingProgress DEF Rests

LEMMA ItemsRest ==
    ASSUME run \in Run, NEW r \in Run, SameEffort(run, r), ~Attempting(r),
           NEW out \in {{"manual"}, {"action"}}, run' = Items(r, out, {})
    PROVE  Rests
<1>1. run'.phase = r.phase /\ SameEffort(r, run') BY ItemsEffort
<1>2. QED BY <1>1, EffortAdds DEF Rests, Attempting

\* A phase without attempts, with or without an outcome of the publish attempt.
LEMMA PhaseRests ==
    ASSUME run \in Run, NEW p \in Phase \ {"PREPARING", "RUNNING", "FIXING"},
           NEW s \in PublishStatus,
           NEW r, r = SetPhase(p) \/ r = [SetPhase(p) EXCEPT !.publish = s]
    PROVE  r \in Run /\ SameEffort(run, r) /\ ~Attempting(r)
<1>1. SetPhase(p) \in Run /\ SetPhase(p).phase = p /\ SameEffort(run, SetPhase(p))
      BY PhaseSet, PhaseEffort
<1>2. CASE r = SetPhase(p) BY <1>1, <1>2 DEF Attempting
<1>3. CASE r = [SetPhase(p) EXCEPT !.publish = s]
  <2>1. r \in Run /\ r.phase = p BY <1>1, <1>3, PublishEffort
  <2>2. SameEffort(run, r) BY <1>1, <1>3, PublishEffort, EffortAdds
  <2>3. QED BY <2>1, <2>2 DEF Attempting
<1>4. QED BY <1>2, <1>3

LEMMA PauseRests ==
    ASSUME run \in Run, NEW c \in PauseCode
    PROVE  Pause(c) \in Run /\ SameEffort(run, Pause(c)) /\ ~Attempting(Pause(c))
BY Paused, PauseEffort DEF Attempting

LEMMA PublishProgress ==
    ASSUME NEW k \in Key, run \in Run, run' \in Run, PublishStep(k)
    PROVE  Progress(k)
<1> USE PointSet, AheadOf, GotoOnward, RestsProgress
<1>1. CASE Publish(k) BY <1>1 DEF Publish, Unsaved, Rests
<1>2. CASE ConfirmManually(k)
  <2>1. Onward(k) BY <1>2 DEF ConfirmManually, Refused
  <2>2. CASE run' = run BY <2>1, <2>2 DEF Rests
  <2>3. CASE run' = Items(Pause("MANUAL_PUBLISH_TARGET_MISMATCH"), {"manual"}, {})
        BY <2>1, <2>3, PauseRests, PauseCodes, ItemsRest
  <2>4. CASE run' = Items([SetPhase("COMPLETED") EXCEPT !.publish = "COMMITTED"], {"manual"}, {})
        BY <2>1, <2>4, PhaseRests, ItemsRest DEF Phase, Terminal, PublishStatus
  <2>5. QED BY <1>2, <2>2, <2>3, <2>4 DEF ConfirmManually, Refused, Save, Unsaved
<1>3. CASE AcquireLease(k) BY <1>3 DEF AcquireLease, Refused, Save, Unsaved, Rests
<1>4. CASE Preflight(k) BY <1>4 DEF Preflight, Unsaved, Rests
<1>5. CASE ReleaseLease(k) BY <1>5 DEF ReleaseLease, Refused, Save, Unsaved, Rests
<1>6. CASE ReadAttempt(k)
  <2>1. at[k] = "existing" /\ run' = run BY <1>6 DEF ReadAttempt, Unsaved
  <2>2. run.publish \in PublishStatus BY DEF Run
  <2>3. PICK p \in {"prepare", "committed", "bindPrepared", "bindSubmitted", "bindUnknown",
                    "bindConflict"} : Goto(k, p)
        BY <1>6, <2>2 DEF ReadAttempt, PublishStatus, BindPoint
  <2>4. Onward(k) BY <2>1, <2>3
  <2>5. QED BY <2>1, <2>4 DEF Rests
<1>7. CASE PrepareAttempt(k)
  <2>1. Onward(k) BY <1>7 DEF PrepareAttempt, Refused
  <2>2. run' = run \/ run' = [SetPhase("PUBLISHING") EXCEPT !.publish = "PREPARED"]
        BY <1>7 DEF PrepareAttempt, Refused, Save, Unsaved
  <2>3. QED BY <2>1, <2>2, PhaseRests DEF Rests, Phase, Automatic, PublishStatus
<1>8. CASE BeginRecovery(k)
  <2>1. PICK s \in {"PREPARED", "SUBMITTED", "UNKNOWN", "CONFLICT"} :
          /\ at[k] \in {"bindPrepared", "bindSubmitted", "bindUnknown", "bindConflict"}
          /\ Goto(k, "submit") \/ Goto(k, "observe") \/ Goto(k, "failed")
          /\ run' = run \/ run' = [SetPhase("PUBLISHING") EXCEPT !.publish = s]
        BY <1>8 DEF BeginRecovery, BindPoint, Refused, Save, Unsaved
  <2>2. Onward(k) BY <2>1
  <2>3. CASE run' = run BY <2>2, <2>3 DEF Rests
  <2>4. CASE run' = [SetPhase("PUBLISHING") EXCEPT !.publish = s]
    <3>1. s \in PublishStatus /\ "PUBLISHING" \in Phase BY <2>1 DEF PublishStatus, Phase, Automatic
    <3>2. QED BY <2>2, <2>4, <3>1, PhaseRests DEF Rests
  <2>5. QED BY <2>1, <2>3, <2>4
<1>9. CASE Submit(k)
  <2>1. Onward(k) BY <1>9 DEF Submit
  <2>2. run' = run \/ (run' = [run EXCEPT !.publish = "SUBMITTED"] /\ run.phase = "PUBLISHING")
        BY <1>9 DEF Submit, Submittable, In, Save, Unsaved
  <2>3. CASE run' = run BY <2>1, <2>3 DEF Rests
  <2>4. CASE run' = [run EXCEPT !.publish = "SUBMITTED"] /\ run.phase = "PUBLISHING"
    <3>1. run'.phase = "PUBLISHING" /\ SameEffort(run, run') BY <2>4 DEF Run, SameEffort
    <3>2. QED BY <2>1, <3>1 DEF Rests, Attempting
  <2>5. QED BY <2>2, <2>3, <2>4
<1>10. CASE Apply(k)
  <2>1. Onward(k) BY <1>10 DEF Apply
  <2>2. QED BY <1>10, <2>1 DEF Apply, Unsaved, Rests
<1>11. CASE Complete(k)
  <2>1. Onward(k) BY <1>11 DEF Complete, Refused
  <2>2. run' = run \/ (run' = [run EXCEPT !.publish = result] /\ run.phase = "PUBLISHING")
        BY <1>11 DEF Complete, Refused, In, Save, Unsaved
  <2>3. CASE run' = run BY <2>1, <2>3 DEF Rests
  <2>4. CASE run' = [run EXCEPT !.publish = result] /\ run.phase = "PUBLISHING"
    <3>1. run'.phase = "PUBLISHING" /\ SameEffort(run, run') BY <2>4 DEF Run, SameEffort
    <3>2. QED BY <2>1, <3>1 DEF Rests, Attempting
  <2>5. QED BY <2>2, <2>3, <2>4
<1>12. CASE NothingObserved(k)
  <2>1. Onward(k) BY <1>12 DEF NothingObserved
  <2>2. QED BY <1>12, <2>1 DEF NothingObserved, Unsaved, Rests
<1>13. CASE ReportOutcome(k)
  <2>1. Onward(k) BY <1>13 DEF ReportOutcome, Refused
  <2>2. CASE run' = run BY <2>1, <2>2 DEF Rests
  <2>3. CASE run' = Items(SetPhase("COMPLETED"), {"manual"}, {})
        BY <2>1, <2>3, PhaseRests, ItemsRest DEF Phase, Terminal, PublishStatus
  <2>4. CASE run' = Items(Pause("INSPECT_ONLY"), {"manual"}, {})
        BY <2>1, <2>4, PauseRests, PauseCodes, ItemsRest
  <2>5. QED BY <1>13, <2>2, <2>3, <2>4 DEF ReportOutcome, Refused, Save, Unsaved
<1>14. CASE ReportObstacle(k)
  <2>1. Onward(k) BY <1>14 DEF ReportObstacle, Refused
  <2>2. CASE run' = run BY <2>1, <2>2 DEF Rests
  <2>3. ASSUME NEW c \in {"PUBLISH_BUSY", "PRECHECK_CONFLICT"},
               run' = Items(Pause(c), {"manual"}, {})
        PROVE  Progress(k)
        BY <2>1, <2>3, PauseRests, PauseCodes, ItemsRest
  <2>4. QED BY <1>14, <2>2, <2>3 DEF ReportObstacle, Refused, Save, Unsaved
<1>15. QED BY <1>1, <1>2, <1>3, <1>4, <1>5, <1>6, <1>7, <1>8, <1>9, <1>10, <1>11, <1>12,
              <1>13, <1>14 DEF PublishStep

LEMMA EndedKeeps ==
    ASSUME NEW r \in Run
    PROVE  Ended(r) \in Run /\ Ended(r).phase = r.phase /\ SameEffort(r, Ended(r))
BY DEF Ended, Run, AttemptStatus, SameEffort

LEMMA CancelProgress ==
    ASSUME NEW k \in Key, run \in Run, run' \in Run, CancelStep(k)
    PROVE  Progress(k)
<1> USE PointSet, AheadOf, GotoOnward, RestsProgress
<1>1. CASE StopWorker(k)
  <2>1. Onward(k) BY <1>1 DEF StopWorker, StopOwn, StopPersisted
  <2>2. QED BY <1>1, <2>1 DEF StopWorker, Unsaved, Rests
<1>2. CASE FinishCancel(k)
  <2>1. Onward(k) BY <1>2 DEF FinishCancel, CommitCanceled, CommitBlocked
  <2>2. CASE run' = run BY <2>1, <2>2 DEF Rests
  <2>3. CASE run' = Pause("PROCESS_RECONCILIATION")
        BY <2>1, <2>3, PauseRests, PauseCodes DEF Rests
  <2>4. CASE run' = Items(Ended(SetPhase("CANCELED")), {"action"}, {})
    <3>1. SetPhase("CANCELED") \in Run /\ SameEffort(run, SetPhase("CANCELED"))
          /\ SetPhase("CANCELED").phase = "CANCELED"
          BY PhaseSet, PhaseEffort DEF Phase, Terminal
    <3>2. /\ Ended(SetPhase("CANCELED")) \in Run /\ SameEffort(run, Ended(SetPhase("CANCELED")))
          /\ Ended(SetPhase("CANCELED")).phase = "CANCELED"
          BY <3>1, EffortAdds, EndedKeeps
    <3>3. QED BY <2>1, <2>4, <3>2, ItemsRest DEF Attempting
  <2>5. QED BY <1>2, <2>2, <2>3, <2>4 DEF FinishCancel, CommitCanceled, CommitBlocked, Save, Unsaved
<1>3. QED BY <1>1, <1>2 DEF CancelStep

LEMMA RecoverProgress ==
    ASSUME NEW k \in Key, run \in Run, run' \in Run, RecoverStep(k)
    PROVE  Progress(k)
<1> USE PointSet, AheadOf, GotoOnward, RestsProgress
<1>1. CASE Recover(k)
  <2>1. Onward(k) BY <1>1 DEF Recover, RecoveryPoint
  <2>2. QED BY <1>1, <2>1 DEF Recover, Snapshot, Unsaved, Rests
<1>2. CASE InspectWorker(k)
  <2>1. Onward(k) BY <1>2 DEF InspectWorker, StopPersisted
  <2>2. QED BY <1>2, <2>1 DEF InspectWorker, Snapshot, Rests
<1>3. CASE RecoverWorker(k)
  <2>1. Onward(k) BY <1>3 DEF RecoverWorker
  <2>2. CASE run' = Ended(SetPhase("PREPARING")) /\ run.phase = "RUNNING"
    <3>1. SetPhase("PREPARING") \in Run /\ SameEffort(run, SetPhase("PREPARING"))
          /\ SetPhase("PREPARING").phase = "PREPARING"
          BY PhaseSet, PhaseEffort DEF Phase, Automatic
    <3>2. run'.phase = "PREPARING" /\ SameEffort(run, run')
          BY <2>2, <3>1, EndedKeeps, EffortAdds
    <3>3. QED BY <2>1, <2>2, <3>2, AttemptingProgress DEF Attempting
  <2>3. CASE run' = run \/ run' = Pause("INSPECT_ONLY")
        BY <2>1, <2>3, PauseRests, PauseCodes DEF Rests
  <2>4. QED BY <1>3, <2>2, <2>3 DEF RecoverWorker, Unmoved, Save, Unsaved
<1>4. CASE RecoverPublish(k)
  <2>1. Onward(k) BY <1>4 DEF RecoverPublish
  <2>2. CASE run' = run BY <2>1, <2>2 DEF Rests
  <2>3. CASE run' = [SetPhase("COMPLETED") EXCEPT !.publish = "COMMITTED"]
        BY <2>1, <2>3, PhaseRests DEF Rests, Phase, Terminal, PublishStatus
  <2>4. CASE run' = [Pause("INSPECT_ONLY") EXCEPT !.publish = "CONFLICT"]
    <3>1. /\ Pause("INSPECT_ONLY") \in Run /\ SameEffort(run, Pause("INSPECT_ONLY"))
          /\ Pause("INSPECT_ONLY").phase = "PAUSED"
          BY Paused, PauseEffort, PauseCodes
    <3>2. run'.phase = "PAUSED" /\ SameEffort(run, run')
          BY <2>4, <3>1, PublishEffort, EffortAdds DEF PublishStatus
    <3>3. QED BY <2>1, <3>2 DEF Rests, Attempting
  <2>5. CASE run' = Pause("INSPECT_ONLY") BY <2>1, <2>5, PauseRests, PauseCodes DEF Rests
  <2>6. QED BY <1>4, <2>2, <2>3, <2>4, <2>5 DEF RecoverPublish, Save, Unsaved
<1>5. QED BY <1>1, <1>2, <1>3, <1>4 DEF RecoverStep

LEMMA StepProgress ==
    ASSUME NEW k \in Key, run \in Run, run' \in Run, TasksOK, Step(k)
    PROVE  Progress(k)
<1> USE PointSet, AheadOf, GotoOnward
<1>1. CASE Start(k)
  <2>1. at[k] = "start" /\ run' = run BY <1>1 DEF Start, Unsaved
  <2>2. EntryPoint[k] \in Point /\ Ahead[EntryPoint[k]] < 26 BY DEF EntryPoint, Key
  <2>3. Onward(k) BY <1>1, <2>1, <2>2 DEF Start
  <2>4. QED BY <2>1, <2>3, UnsavedProgress
<1>2. CASE Fail(k)
  <2>1. Onward(k) BY <1>2 DEF Fail
  <2>2. run' = run \/ run' = Pause(FailureCode(k)) BY <1>2 DEF Fail, Save, Unsaved
  <2>3. FailureCode(k) \in PauseCode BY PauseCodes DEF FailureCode
  <2>4. QED BY <2>1, <2>2, <2>3, UnsavedProgress, PausedProgress
<1>3. QED BY <1>1, <1>2, WorkerProgress, ReviewProgress, PublishProgress, CancelProgress,
             RecoverProgress DEF Step

-----------------------------------------------------------------------------

LEMMA DaemonStays == ASSUME NEW k \in Key, Step(k) PROVE daemon' = daemon
<1> USE DEF Save, Unsaved, Snapshot, ExceptTask, Rest
<1>1. CASE Start(k) \/ Fail(k) BY <1>1 DEF Start, Fail
<1>2. CASE WorkerStep(k)
  <2>1. CASE Enter(k) \/ Initial(k) \/ ProbeFails(k) \/ Prepare(k) \/ PrepareRefused(k)
        BY <2>1 DEF Enter, Initial, ProbeFails, Prepare, PrepareRefused
  <2>2. CASE BeginAttempt(k) \/ Spawn(k) \/ Started(k)
        BY <2>2 DEF BeginAttempt, Spawn, Started
  <2>3. CASE Disowned(k) \/ Completed(k) \/ AttemptEnds(k)
        BY <2>3 DEF Disowned, Completed, AttemptEnds
  <2>4. CASE Reconcile(k) \/ CaptureCandidate(k)
        BY <2>4 DEF Reconcile, CaptureCandidate
  <2>5. CASE After(k) \/ Repair(k)
        BY <2>5 DEF After, Repair
  <2>6. QED BY <1>2, <2>1, <2>2, <2>3, <2>4, <2>5 DEF WorkerStep
<1>3. CASE ReviewStep(k)
      BY <1>3 DEF ReviewStep, Review, ReviewLapses, Accept, OrderRepair, ReviewExhausted
<1>4. CASE PublishStep(k)
      BY <1>4 DEF PublishStep, Publish, ConfirmManually, AcquireLease, Preflight, ReleaseLease,
                  ReadAttempt, PrepareAttempt, BeginRecovery, Submit, Apply, Complete,
                  NothingObserved, ReportOutcome, ReportObstacle, Refused
<1>5. CASE CancelStep(k)
      BY <1>5 DEF CancelStep, StopWorker, FinishCancel, CommitCanceled, CommitBlocked
<1>6. CASE RecoverStep(k)
      BY <1>6 DEF RecoverStep, Recover, InspectWorker, RecoverWorker, RecoverPublish
<1>7. QED BY <1>1, <1>2, <1>3, <1>4, <1>5, <1>6 DEF Step

LEMMA ProgressIsLess ==
    ASSUME TasksOK, NEW k \in Key, Progress(k), UNCHANGED <<daemon, bounds>>
    PROVE  LessWork
<1>1. requests' + failures' = requests + failures /\ Down' = Down BY DEF bounds, Down
<1>2. CASE Fewer(run, run') BY <1>1, <1>2 DEF LessWork
<1>3. CASE Onward(k) /\ Alike(run, run') BY <1>1, <1>3, OnwardIsShorter DEF LessWork
<1>4. QED BY <1>2, <1>3 DEF Progress, NoMore

\* The requests, rounds, attempts and points that are left are natural numbers: a
\* run makes no round of repair beyond its limits (review-decision.ts, repair-loop.ts).
LEMMA WorkIsFinite == Spec => []WorkIsCounted
<1>1. IInv => WorkIsCounted
  <2> SUFFICES ASSUME IInv PROVE WorkIsCounted OBVIOUS
  <2>1. run \in Run BY DEF IInv, RecordOK
  <2>2. requests + failures \in Nat BY BoundsAssumption DEF IInv
  <2>3. RoundsLeft(run) \in Nat
    <3>1. RepairLimit - run.rounds \in Nat BY <2>1, LimitsAssumption DEF Run
    <3>2. QED BY <3>1 DEF RoundsLeft
  <2>4. Patience(run) \in Nat BY <2>1, LimitsAssumption DEF Run, Patience
  <2>5. Novelty(run) \in Nat /\ Down \in Nat BY DEF Novelty, Down
  <2>6. \A k \in Key : Ahead[at[k]] \in Nat BY AheadIsNatural DEF IInv, TasksOK
  <2>7. WayLeft \in Nat BY <2>6 DEF WayLeft, Key
  <2>8. QED BY <2>2, <2>3, <2>4, <2>5, <2>7 DEF WorkIsCounted
<1>2. QED BY <1>1, IInvInit, IInvNext, PTL DEF Spec

\* Every step of a task, of a client, of a failure or of a starting daemon leaves
\* less work; only workers that exit and other runs leave as much.  So no loop of
\* runPipeline, of repair, retry or recovery goes on for ever between two requests
\* (worker-runner.ts, repair-loop.ts, publish-coordinator.ts, cancel-manager.ts).
THEOREM WorkRunsOut == Spec => []WorkIsCounted /\ [][LessWork \/ Idles]_<<vars, bounds>>
<1>1. ASSUME IInv, Next PROVE LessWork \/ Idles
  <2>1. IInv' BY <1>1, IInvNext
  <2>2. run \in Run /\ run' \in Run /\ TasksOK BY <1>1, <2>1 DEF IInv, RecordOK
  <2>3. requests \in Nat /\ failures \in Nat BY <1>1, BoundsAssumption DEF IInv
  <2>4. ASSUME NEW k \in Key, Step(k), UNCHANGED bounds PROVE LessWork
        BY <2>2, <2>4, StepProgress, DaemonStays, ProgressIsLess
  <2>5. CASE (WorkerExits \/ OtherRuns) /\ UNCHANGED bounds
        BY <2>5 DEF WorkerExits, OtherRuns, Idles, taskVars
  <2>6. CASE Boot /\ UNCHANGED bounds
    <3>1. Down = 1 /\ Down' = 0 BY <2>6 DEF Boot, Down
    <3>2. requests' + failures' = requests + failures BY <2>6 DEF bounds
    <3>3. QED BY <3>1, <3>2 DEF LessWork
  <2>7. CASE requests > 0 /\ requests' = requests - 1 /\ UNCHANGED failures
        BY <2>3, <2>7 DEF LessWork
  <2>8. CASE failures > 0 /\ failures' = failures - 1 /\ UNCHANGED requests
        BY <2>3, <2>8 DEF LessWork
  <2>9. QED BY <1>1, <2>4, <2>5, <2>6, <2>7, <2>8 DEF Next
<1>2. IInv /\ [Next]_<<vars, bounds>> => [LessWork \/ Idles]_<<vars, bounds>>
      BY <1>1
<1>3. QED BY WorkIsFinite, <1>2, IInvInit, IInvNext, PTL DEF Spec
=============================================================================
