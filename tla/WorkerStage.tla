---------------------------- MODULE WorkerStage ----------------------------
(***************************************************************************)
(* runPipeline of runtime-composition.ts: one worker attempt after another *)
(* (worker-runner.ts), with the repair rounds between them                 *)
(* (repair-coordinator.ts).  Review and publish are entered in the same    *)
(* task, by its program point.                                             *)
(***************************************************************************)
EXTENDS RunState

Rest == UNCHANGED <<daemon, lease, receipts, result>>
Running(k) == run.phase = "RUNNING" /\ k \in current

\* runPipeline: the checks of the context and of the approved source, and the
\* phase read after them.
Enter(k) ==
    /\ at[k] = "enter"
    /\ CASE run.phase = "FIXING"    -> Goto(k, "repair")
         [] run.phase = "PREPARING" -> Goto(k, "initial")
         [] OTHER                   -> End(k)
    /\ Unsaved /\ ExceptTask

\* WorkerRunner.run reads the state its preparation must not miss a change of.
Initial(k) ==
    /\ at[k] = "initial"
    /\ IF run.phase = "PREPARING"
         THEN Goto(k, "probing") /\ Snapshot(k)
         ELSE Goto(k, "failed") /\ Unsaved
    /\ ExceptTask

\* The provider probe or the Git probe fails: pause().
ProbeFails(k) ==
    /\ at[k] = "probing" /\ k \in fresh /\ run.phase = "PREPARING"
    /\ Save(Pause("PROBE_FAILED"))
    /\ Goto(k, "after") /\ ExceptTask

\* prepareWorkspace rebuilds the workspace directory and commits.
Prepare(k) ==
    /\ at[k] = "probing" /\ k \in fresh /\ run.phase = "PREPARING"
    /\ Save(SetPhase("RUNNING"))
    /\ Goto(k, "begin") /\ ExceptTask

\* Either commit is refused because the document has changed: run() returns
\* without a word.
PrepareRefused(k) ==
    /\ at[k] = "probing" /\ k \notin fresh
    /\ Goto(k, "after")
    /\ Unsaved /\ ExceptTask

\* beginAttempt appends an attempt; the schema allows one active attempt.
BeginAttempt(k) ==
    /\ at[k] = "begin"
    /\ IF run.phase = "RUNNING" /\ run.attempt \notin ActiveAttempt
         THEN /\ Save(Items([run EXCEPT !.attempt = "PREPARING"], {"identity"}, {}))
              /\ at' = [at EXCEPT ![k] = "spawn"]
              /\ current' = {k}
              /\ stale' = stale \cup (Live \ unbound)
              /\ worker' = IF "running" \in worker \/ "old" \in worker THEN {"old"} ELSE {}
              /\ UNCHANGED unbound
         ELSE Goto(k, "failed") /\ Unsaved /\ UNCHANGED worker
    /\ Rest

\* The sandbox registers and starts the worker process.
Spawn(k) ==
    /\ at[k] = "spawn"
    /\ worker' = worker \cup (IF k \in current THEN {"registered", "running"} ELSE {"old"})
    /\ Goto(k, "spawned")
    /\ Unsaved /\ Rest

\* STARTED is persisted, or refused; then the loop is left and with it the
\* provider's generator, which forgets the process without stopping it.
Started(k) ==
    /\ at[k] = "spawned"
    /\ IF Running(k)
         THEN /\ Save(Items([run EXCEPT !.attempt = "RUNNING"], {}, {"identity"}))
              /\ Goto(k, "streaming")
         ELSE Goto(k, "after") /\ Unsaved
    /\ ExceptTask

\* An event of an attempt that is no longer the run's.
Disowned(k) ==
    /\ at[k] = "streaming" /\ k \notin current
    /\ Goto(k, "after")
    /\ Unsaved /\ ExceptTask

\* COMPLETED is yielded once the process tree is gone.
Completed(k) ==
    /\ at[k] = "streaming"
    /\ worker' = IF k \in current THEN worker \ {"running"} ELSE worker
    /\ IF Running(k)
         THEN Save([run EXCEPT !.attempt = "COMPLETED", !.pause = "none"]) /\ Goto(k, "reconcile")
         ELSE Goto(k, "after") /\ Unsaved
    /\ Rest

\* FAILED, TIMED_OUT, CANCELED, BLOCKED, or a closed stream: the leading process
\* is gone or was told to stop; its tree may live on.
AttemptEnds(k) ==
    /\ at[k] \in {"spawn", "spawned", "streaming"}
    /\ \/ UNCHANGED worker
       \/ k \in current /\ worker' = worker \ {"running"}
    /\ IF Running(k)
         THEN /\ \/ \E c \in {"ATTEMPT_FAILED", "ATTEMPT_ENDED"} :
                        Save([Pause(c) EXCEPT !.attempt = "ENDED"])
                 \/ /\ at[k] = "streaming"
                    /\ Save([Pause("INSPECT_ONLY") EXCEPT !.attempt = "ENDED"])
              /\ Goto(k, "reconcile")
         ELSE Goto(k, "after") /\ Unsaved
    /\ Rest

\* A registered process of known identity is stopped, if it can be.
Stopping(w) == IF "identity" \in run.items THEN {w, w \ {"running"}} ELSE {w}

\* reconcileContainment: without a persisted identity only a missing registry
\* entry shows that there is no process tree.
TreeIsEmpty(w) ==
    IF "identity" \in run.items THEN "running" \notin w ELSE "registered" \notin w

Reconcile(k) ==
    /\ at[k] = "reconcile"
    /\ IF k \notin current
         THEN Goto(k, "after") /\ Unsaved /\ UNCHANGED worker
         ELSE \E w \in Stopping(worker) :
                /\ worker' = w
                /\ CASE TreeIsEmpty(w) ->
                          /\ Goto(k, IF run.attempt = "COMPLETED" THEN "capture" ELSE "after")
                          /\ Unsaved
                     [] ~TreeIsEmpty(w) /\ run.phase \in {"RUNNING", "PAUSED"} ->
                          Goto(k, "after") /\ Save(Pause("INSPECT_ONLY"))
                     [] OTHER -> Goto(k, "failed") /\ Unsaved
    /\ Rest

\* captureCandidate.
CaptureCandidate(k) ==
    /\ at[k] = "capture"
    /\ CASE k \notin current -> Goto(k, "after") /\ Unsaved
         [] Running(k) /\ run.attempt = "COMPLETED" ->
              /\ Goto(k, "after")
              /\ \/ Save(Items(SetPhase("FIXING"), {}, {"candidate", "empty"}))
                 \/ IF ReviewEnabled
                      THEN Save(Items(SetPhase("REVIEW_PENDING"), {"empty"},
                                      {"candidate", "action"}))
                      ELSE Save(Items(SetPhase("READY_TO_PUBLISH"), {"empty"}, {"candidate"}))
         [] OTHER -> Goto(k, "failed") /\ Unsaved
    /\ ExceptTask

\* runPipeline reads the state again and goes on with whatever phase it finds.
After(k) ==
    /\ at[k] = "after"
    /\ CASE run.phase = "FIXING"           -> Goto(k, "repair")
         [] run.phase = "REVIEW_PENDING"   -> Goto(k, "review")
         [] run.phase = "READY_TO_PUBLISH" -> Goto(k, "publish")
         [] OTHER                          -> End(k)
    /\ Unsaved /\ ExceptTask

\* Faulty: an empty candidate does not count against progress.
NoProgressAfterReviewOnly ==
    IF "empty" \in run.items THEN {run.noProgress} ELSE {0, run.noProgress + 1}

\* assessRepairProgress: the first round counts as progress; two empty candidates
\* in a row differ in nothing.
NoProgressAfter ==
    CASE "round" \notin run.items -> {0}
      [] {"empty", "emptyRound"} \subseteq run.items -> {run.noProgress + 1}
      [] OTHER -> {0, run.noProgress + 1}

\* RepairCoordinator.prepare: out of scope or without progress it pauses, else
\* the next attempt resumes the Pi session, without the old evidence.
Repair(k) ==
    /\ at[k] = "repair"
    /\ IF run.phase # "FIXING"
         THEN Goto(k, "failed") /\ Unsaved
         ELSE \/ Save(Pause("INSPECT_ONLY")) /\ End(k)
              \/ \E n \in NoProgressAfter :
                   \/ /\ n >= NoProgressLimit
                      /\ Save([Pause("INSPECT_ONLY") EXCEPT !.noProgress = n])
                      /\ End(k)
                   \/ /\ n < NoProgressLimit
                      /\ run.attempt = "COMPLETED"
                      /\ Save(Items([SetPhase("PREPARING") EXCEPT !.noProgress = n,
                                                                 !.publish = "none"],
                                    Item \ {"identity"},
                                    IF "empty" \in run.items THEN {"round", "emptyRound"}
                                                             ELSE {"round"}))
                      /\ Goto(k, "enter")
    /\ ExceptTask

WorkerStep(k) ==
    \/ Enter(k) \/ Initial(k) \/ ProbeFails(k) \/ Prepare(k) \/ PrepareRefused(k)
    \/ BeginAttempt(k) \/ Spawn(k) \/ Started(k) \/ Disowned(k) \/ Completed(k)
    \/ AttemptEnds(k) \/ Reconcile(k) \/ CaptureCandidate(k) \/ After(k) \/ Repair(k)
=============================================================================
