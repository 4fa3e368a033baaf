# SmartFlow in TLA+

SmartFlow runs a coding agent on an approved list of tasks: a *host* (the
client's AI tool) starts a run, the *daemon* drives a worker in a private
workspace, has the result reviewed, repairs it, and publishes the accepted
candidate into the user's project. Clients come and go, the daemon crashes and
restarts, workers outlive it, several daemons and hosts may share one data
directory. This directory holds a model of the part of that program where the
order of things matters, the checks TLC makes of it, and proofs.

Paths below are relative to `src/`; `apps/daemon/src` is written `daemon`.

## 1. Inventory

| Component (code) | State it keeps | Operations | Talks to | What is hard | What makes it correct |
|---|---|---|---|---|---|
| **State store** (`packages/state-store/src/state-store.ts`, `schema.ts`) | one SQLite row with the project document (runs, receipts, publish lease, `stateVersion`, `projectFence`), one `mutation_lease` row | acquire, renew, release the lease; compare-and-set write | executor | suspended or dead owners, pid reuse, several hosts, expiry between two transactions | the lease excludes on one host; a dead owner's lease turns over; a lost lease commits nothing |
| **Mutation executor** (`daemon/runtime/project-mutation-executor.ts`) | a queue per directory | `mutate`: lease, read, replay, guards, build, commit, hand-over to an external effect | all managers | retried requests, stale fences, failure after the commit | each request applied at most once; whoever is answered finds its receipt; an effect starts at most once and only after its commit |
| **Instance lock and IPC endpoint** (`packages/state-store/src/project-lock.ts`, `daemon/transport/local-ipc-server.ts`, `daemon/main.ts`) | `daemon.lock`, `daemon.sock` | start, recover, listen, close | file system | check and unlink in separate steps, crash between create and write, close racing start | one daemon owns the installation; the ready one can be reached |
| **Project runtime** (`daemon/runtime/project-runtime.ts`, `runtime-composition.ts`) | the map of background tasks by key, their captured contexts | execute, cancel, resume, recover, schedule, pauseFailure, status | all stages | tasks of one run interleave with clients, failures, other runs; a key in use drops a schedule | cancellation sticks, tasks come to an end, a run always has somebody who drives it |
| **Worker runner** (`daemon/worker/worker-runner.ts`) | attempts of a run, candidate | prepare, begin attempt, stream provider events, contain, capture candidate | provider, sandbox, executor | an attempt that is no longer the run's, refused commits, a process tree that lives on | only the current attempt writes; at most one is active |
| **Repair** (`daemon/repair/`) | rounds, counter without progress | prepare | worker, review | counters across retries and restarts | limits are kept |
| **Review** (`daemon/review/`) | pending action, decision | begin or reuse, finalize, pause | reviewers, executor | late answers for an old action | a decision is for the current candidate |
| **Publish** (`daemon/publish/`, `packages/publish/src/`) | publish lease, attempt record, results stored by the adapter | lease, preflight, prepare, submit and apply, complete, observe, report | executor, project files | effect and commit are two things; retries, crash after the apply | applied once, only what was accepted, nothing left open at the end |
| **Cancel, recovery** (`daemon/cancel/`, `daemon/recovery/`) | none of their own | stop the worker, settle, commit; per-phase recovery | worker, publish, executor | crash at every point; unknown processes | a canceled run leaves nothing running or unsettled |
| **Host turn** (`daemon/review/host-turn-coordinator.ts`) | `hostTurn` of a run: nobody's, the daemon reviewer's, or a question with its token | poll, answer, cancel, resume | clients, runtime | concurrent polls, repeated requests, late answers, tasks that change the pause meanwhile | a question is ended by the host that was asked, by an answer to that very question |
| **Provider, sandbox** (`packages/provider-pi`, `packages/execution-sandbox`) | process registry, process groups | spawn, terminate, inspect | operating system | pid reuse, trees that survive | never kill a foreign process, know when a tree is gone |
| **Run artifacts** (`daemon/recovery/recovery-manager.ts`, and whoever commits a run) | snapshots, sessions, candidate, review, decision, continuation, publish attempt in the record | written piece by piece by all stages; `verifyRunArtifacts` before every resume, review, publish and recovery | all stages | one field that is not reset in one of many orders makes the run unusable | the evidence fits together after every commit |
| **Review agents** (`packages/review/src/agents/`) | the active request, its process, signals and timers; the last-message file | create or resume a session, cancel, deadline | agent CLIs and app-server, review runner | a stop races the answer, a process ignores SIGTERM or outlives its daemon, notifications out of order | one outcome per request, of the right session; no reviewer left running |
| **Workspace** (`packages/workspace`, but the sandbox), **task manifest**, **MCP server**, **CLI**, **protocol** | files, none, or per-call | sequential I/O, parsing, forwarding | | | outcome of a function of its input |

`PROJECT.json` lists each with its status, and under `hazards` each place of the
code that these interleavings make delicate, with the property that watches it
or the reason why none does yet.

### How they compose

A client request reaches `ProjectRuntime` through the socket. Every change of
the project document goes through `mutate()`, which takes the SQLite lease, and
hence is one step of the rest. After a commit the runtime *schedules* a task
under the key of its job and kind (`pipeline`, `review`, `publish`, `cancel`,
`recover`). A task awaits the provider, reviewers, Git and the file system
between its mutations; everything else happens in those gaps.

## 2. Modules

```
SerialProject  <--refines--  StateMutation  <-- MCStateMutation, StateMutationProofs
DaemonLock  <-- MCDaemonLock, DaemonLockProofs
RunState  <-- WorkerStage, ReviewStage, PublishStage, CancelRecovery
          <-- RunLifecycle  <-- MCRunLifecycle, RunLifecycleProofs
ApplyOutcome  <--refines--  WorkspaceApply  <-- MCWorkspaceApply, WorkspaceApplyProofs
HostTurn  <-- MCHostTurn, HostTurnProofs
RunArtifacts  <-- MCRunArtifacts, RunArtifactsProofs
AgentCall  <-- CodexCli, CodexDesktop, ClaudeCode  <-- ReviewAgents  <-- MCReviewAgents, ReviewAgentsProofs
AgentContract  <--refines--  ReviewAgents
Containment  <-- MCContainment, ContainmentProofs
```

**SerialProject** is the abstract specification: a project is a sequence of
whole transactions. A request key is applied once, a fenced request only for a
task that has read the document in the present epoch (since the last
runtime-epoch mutation), an effect starts once and after its own transaction.

**StateMutation** is the executor and the lease that implement it. One step is
one SQLite transaction or one await-free stretch of `mutate()`; `pc[d]` is where
the call of daemon `d` is. A "daemon" is one process instance (the start token
makes instances distinct); its host and pid are constants, so a pid can be
reused. `leaseFlags` says whether the row has expired and whether its owner
token belongs to no call any more (a release that failed). Time is the action
`Expire`; nothing ties it to clocks. A task captures `run.fence` by reading the
document, for which it needs no lease, so `contexts[d]` has the fence of every
document since `d` started, also those of a daemon that has superseded `d`; a fenced
call picks any of them (`token`). The history variables `epoch` (also as part of
what was captured) and `started` exist for the refinement mapping.

**DaemonLock** is the lock file and socket of a data directory on one host, each
file system call a step. A file carries the name of the instance that made it;
`unlink` removes whatever is there by then, and `found[d]` is the instance whose record
`d` has read. An instance that has closed, or failed to start, is `leaving`: its background
tasks may go on, but it owns no file any more. `RemovalsAreAlone` says of a step that while an instance is between its
read and its unlink nobody puts another file at the path; `UnracedSpec` is `Spec`
restricted to such steps.

**RunState** holds the record of one run (`run`) reduced to what guards and
properties tell apart, the publish lease as that run sees it, the receipts whose
keys can come up twice, the worker process, the result the apply adapter has
stored, and the tasks: `at[k]` is the program point of key `k`. What a task has
captured is represented by membership, not by value:
`stale` (its context names an older attempt), `unbound` (its context was taken
before there was an attempt), `current` (the attempt or review action it holds
is still the document's), `fresh` (the `stateVersion` it has read is still the
document's). `Schedule`, `Start`, `Fail`, `Throw` are the runtime's `schedule`,
the entry of a callback, `pauseFailure`, and any await that throws.

**WorkerStage, ReviewStage, PublishStage, CancelRecovery** have one action per
mutation or await of `worker-runner.ts` and `repair-coordinator.ts`,
`review-runner.ts` and `review-coordinator.ts`, `publish-coordinator.ts` with
`publish-service.ts`, `cancel-manager.ts` and `recovery-manager.ts`. A task walks
from one to the next as `runPipeline` does, by the phase it finds.

**RunLifecycle** composes them with the clients (`Cancel`, `ResumeWorker`,
`ResumeReview`, `ResumePublish`, `ResumeReviewDecision`), workers that exit,
other runs of the project that commit and take the publish lease, `Crash` and
`Boot`. `StateMutation` is the reason why one `mutate()` is one step here. The
fence is left out: in this model a task never outlives its process.

**WorkspaceApply** is what one step of `PublishStage!Apply` hides: the operations of
one apply in their order, each path preflighted, staged, preflighted again and
renamed by a step of its own, the cleanup, the observation and the stored result.
Any call may fail, the user may edit any file at any time, the daemon may end.
The history variables `written`, `late`, `lost` and `unstaged` say which paths were
renamed, which were edited after their last preflight, where an earlier edit was
overwritten, and whose staging failed. One instance is one apply: `RunLifecycle!AppliesOnce` says that an
operation id is applied once. **ApplyOutcome** is what `PublishStage` relies on: a
result is stored at most once and before it is reported, `COMMITTED` only if all paths
are published, `CONFLICT` or `UNKNOWN` only if none is, and that stays true while the
apply goes on (`IsTrue`). Its `complete` and `untouched` are `Complete` and `Untouched`
of `WorkspaceApply`; a path in `late` is the user's and counts for neither.

**HostTurn** has the `hostTurn` of one run and the requests of its hosts. A request
reads, and commits in a later step; `current` are those whose `stateVersion` is
still the document's. A question record stands for its token, which the code
computes from the same three things. The tasks of the run are reduced to what
they do to its phase and its turn. `recovering` says that a restarted daemon has
yet to look at the run: it goes on with it (`Recovered`), or `RecoveryManager.pause`
pauses it with its turn (`RecoveryPauses`, all its reasons being one code). `timely` has
the requests that answer the question which is open now, and not an earlier one. The order in which the executor serves the
calls of one process is left out, so requests may be later than they are.

**RunArtifacts** has the fields of a run's record that refer to each other, each as
the attempt, the tree or the reviewer it is of; a hash is the thing hashed. `Verifies` is
`verifyRunArtifacts`, conjunct by conjunct. One step is one commit of the worker, the
repair, the review, the publisher, a client, a failure, a drift of the approved tasks
or the recovery. What lies between the commits is in `RunLifecycle`; here only the task
that was scheduled last is followed. Four variables remember what a property has to
exclude or a later step depends on:
`noticed` (the receipt of a drift), `stray` (a review in its file whose commit did not
happen), `restored` and `misfiled` (see below).

**AgentContract** is what `AgentAdapter` promises the review runner of one request.
**AgentCall** is the state the adapters share: the request (`call`), the processes in
the order of their start with the signal they got and the timer that will send the
next, the app-server conversation (`rpc`) and the last-message file (`output`).
**CodexCli**, **CodexDesktop** and **ClaudeCode** add the steps of their adapter: each
event handler, timer, `await` and stop. (The fourth adapter delegates to `ClaudeCode`.)
A process may say anything in any order, of its own or a foreign thread; it may end at
any time, or never by itself. **ReviewAgents** composes them with `ReviewRunner.run`,
the deadline, a cancellation with `revokeAction`, retries, and daemons that end while
their reviewers do not.

**Containment** has the worker processes of a run: `group[a]` is the process group of
attempt `a` (idle until prompted, working, a tree without its leading process, gone, or a
foreign group with the same pid), `file` the registry, `mine` and `theirs` the maps of the
adapter that runs the attempt and of the one that is stopping it for a cancellation,
a recovery or `reconcileContainment`. `task` and `stopper` are the program
points of `WorkerRunner.run` with `PiProvider.start`, and of the cancellation or
the recovery. A signal may leave the group as it is.

Definitions called "Faulty" are plausible bugs. No specification uses them:
each is the mutated form of the definition that follows it, with which some
property must fail.

## 3. What is checked

| Run | Instance | Shows |
|---|---|---|
| `StateMutationHosts` | 2 daemons on 2 hosts; 2 epoch requests, a fenced one with an effect, a fenced one with `CURRENT_EPOCH` that reuses its key | `TypeOK`; `AnswersAreDurable`; the executor implements `SerialProject` |
| `StateMutationHost` | 3 daemons on one host, the third with the first one's pid; releases may fail | `LeaseExclusion` |
| `StateMutationLive` | 3 daemons, 2 hosts, reused pid; releases may fail | `LeaseTurnsOver`, `CallsSettle` |
| `DaemonLockRestart` | 4 instances, the fourth with the first one's pid; `UnracedSpec` | `SingletonDaemon`, `ReadyIsReachable` |
| `DaemonLockRace` | 3 instances; `Spec` | **violates** `SingletonDaemon` |
| `RunLifecycle` | 1 client request, 1 failure or crash | `TypeOK`, `FinishedIsSettled`, `OnlyAcceptedIsPublished`, `CancellationSticks`, `AppliesOnce`, `TasksEnd` |
| `RunLifecycleAbandoned` | no request, no failure | **violates** `NoAbandonedRun` |
| `WorkspaceApply` | an added, a modified and a deleted file; 2 edits; any failure, a crash | `TypeOK`, `CheckedEditsSurvive`, `TemporariesRemoved`, `RefinesApplyOutcome`, `ApplySettles` |
| `HostTurn` | 3 requests of 2 hosts, 2 pauses | `TypeOK`, `TurnsFollowPhases`, `PausedCanBeAsked`, `OwnerDecides`, `AnswersAreTimely` |
| `RunArtifacts` | 4 attempts, 3 trees of which one makes an empty candidate, 2 reviewers, 1 repair round | `TypeOK`, `HealthyRunVerifies`, `PendingReviewIsCurrent`, `ContinuesWhatItLeft`, `ReadyIsReviewed` |
| `ReviewAgents` | each adapter; 2 processes, 2 attempts, 1 retry, 1 daemon that ends | `NoReviewerLeft`, `AnswerIsOwn`, `CanceledIsStopped`, `RefinesContract`, `ReviewEnds`, `ReviewersEnd` |
| `Containment` | 2 worker attempts | `NoForeignSignal`, `RegistryRemembers`, `OneWriter`, `CompletedIsGone`, `CanceledIsStill` |

`StateMutation!BuildsAreCurrent`, `WorkspaceApply!CommittedIsComplete` and
`FailureLeavesProject` are in no run: they are parts of proved theorems. The last two are
also what `ApplyOutcome` says of a stored result, so `RefinesApplyOutcome` checks them. `TypeOK` of `DaemonLock`,
`ReviewAgents` and `Containment` is in no run either; it is proved.

### Bounds

* `Requests` bounds the client requests after `execute`, `Failures` the throws and
  crashes together. The interesting sequences have a pause or a cancel that races
  something, and one failure. With two requests the safety properties hold too
  (2.2 million states, over two minutes), but not in the time of a routine run
  with liveness. The theorems have no such bound.
* `RepairLimit = NoProgressLimit = 1`: a limit is reached, and exceeded by a
  mutant, in the first round. The theorems hold for all limits.
* `ReviewEnabled = TRUE` in the runs, where the review stage is part of the run;
  the theorems hold for both values.
* `StateMutation`: two daemons are a competitor and its victim, the third reuses a pid.
* `DaemonLock`: the dead owner of the lock, the instance that removes it and one that
  competes make the race of `DaemonLockRace`; the fourth of `DaemonLockRestart` reuses
  the dead owner's pid. The theorems hold for any number of instances and pids.
* `WorkspaceApply`: one path of each type is every case of `Expected` and `Target`,
  and gives each path a predecessor or a successor that fails or is edited; the
  second edit is the one after the check that saw the first. The theorems hold for
  any number of operations.
* `HostTurn`: two requests of the owner (which race or repeat each other), one of
  another host; with two pauses a token or an answer of the first can meet the
  second. The theorems hold for any number.
* `RunArtifacts`: the first review, a repair, its review and one more attempt after a failure
  are four attempts; a tree that changes, one that changes back and an incomplete one
  are three. The properties hold too with reviews disabled, and with two rounds of
  three attempts; the theorems hold for any number.
* `ReviewAgents`: a process that outlives its attempt and its successor are two; one retry
  lets an old outcome meet a new turn. Three processes give the same result.
  The safety theorems and the refinement hold for any number.
* `Containment`: two attempts are the one that survives and the one that meets it. With
  three (6.8 million states) the properties hold too.
* `version` is bounded by the number of request keys; no counter needs a cap.
* `DaemonLock`, `StateMutation`, `RunLifecycle`, `WorkspaceApply`, `ReviewAgents` and
  `Containment` may stop (every instance dead, the run ended, the attempts used up), so deadlock is not an error there; that calls and tasks do not
  get stuck before is what the liveness properties say.

### Fairness

`StateMutation!FairSpec`: time passes (`Expire`), and a live process goes on with
its call (`Mutate(d)`): Node's event loop runs every continuation, SQLite calls
return, and `acquireMutationLease` polls up to a deadline. No fairness is
assumed of new requests, crashes, or renewals; a suspended process is one whose
step is late.

`RunLifecycle!FairSpec`: each task goes on (weak fairness of `Step(k)` for each key
separately). What it awaits comes back because workers, reviewers and Git
commands have deadlines in the code. No fairness is assumed of clients, other
runs, exits of workers, `Crash` or `Boot`. Fairness per key and not per outcome:
TLC may choose every review to be rejected, and `TasksEnd` still holds because of
the repair limits.

`WorkspaceApply!FairSpec`: the apply goes on (`Step`): its calls return or fail. No
fairness of edits or of the crash. `HostTurn` states no liveness: a host may never
come back.

`ReviewAgents!FairSpec`: the runner's loop, file access, settled promises and timers of a
living daemon go on, time passes, the cancellation goes on, and a process that was sent SIGKILL
exits and its exit is noticed. Of the agent itself nothing is assumed: it may never
say anything and may ignore SIGTERM. `ReviewEnds` therefore rests on the deadline, and
`ReviewersEnd` on the kill timers.

### Assumptions

* A process writes no more to its last-message file once it was sent SIGTERM.
* One runner asks a review agent at a time and waits for the outcome, so that
  `CODEX_RUN_ACTIVE` and `CLAUDE_RUN_ACTIVE` never apply; the runtime has one review task
  per run.
* In `RunArtifacts` the files are intact, and all processes resolve the same
  `ReviewEnabled`.
* In `Containment` there is one driving task and one stopper, and each adapter runs one
  `terminate()` at a time. A pid does not come round again within the seconds in
  which an adapter waits for the end of its group or the provider has the attempt, and
  an adapter whose attempt has ended has written the registry before the probe of the next
  attempt (a second) is over. Outside of these windows pids are reused at any time.

### What the properties exclude

Each exclusion names the ways in which the property fails in the code, mostly by a history
variable; without it TLC shows a trace. The checked property says that there is
no other way.

* `restored`: a drift noticed in `FIXING` or `READY_TO_PUBLISH` is resumed with the worker
  (`approvedSourceDriftResumePhase` knows `REVIEW_PENDING` only), under the candidate and
  the review of the former attempt. `prepareWorkspace` resets the workspace's result but
  not these, and the next verification refuses the run.
* `misfiled`: the task of a review walks on into the repair. If the worker then fails to
  prepare, `pauseFailure` records `HOST_REVIEW_UNAVAILABLE`, a pause that requires a candidate
  the repair has cleared.
* `missed`: `cancel()` finds no run while `CodexAdapter` removes the old output; the reviewer
  starts after the run was committed `CANCELED`.
* `strays`: a reviewer that outlives its daemon may write the last message over that of its
  successor, which has the same path.
* `unproved`: an attempt that ends with a failure is committed before its containment is
  checked. If the daemon ends or the run is canceled between, an attempt that is no longer active is taken
  to have no process, though its tree may live.
* `PausedCanBeAsked` excludes two pauses that keep the daemon's turn: that of the pipeline task
  which walks on into the review and fails there (`pauseFailure` clears the turn only for
  "review"), and that of the recovery after a restart, when the artifacts of a run in review do
  not fit (`RecoveryManager.pause`). Polls are refused because the daemon owns the turn, resumes
  because a turn is open; a cancel is the only way out.
* `LeaseTurnsOver` excludes the row of a live owner whose DELETE has failed (`Leaked`):
  `release()` does not repeat it, and for the host of the owner the row is never stale. Every
  caller there gets `PROJECT_LOCKED` until that process ends; `CallsSettle` says that it gets
  that much.
* `TemporariesRemoved` excludes the paths whose own staging failed (`unstaged`).
* `AnswersAreTimely` speaks of open questions. An answer that comes when its question has ended
  and no other one is open is applied to whatever the run is paused for, if that pause lists it:
  `assertHostTurnAuthority` lets it pass.

No property excludes `stray`, which only stops a review: `finalizeReview` writes the file of the
review before it commits. If the commit does not happen and the review is repeated under
another turn, the file cannot be written with other content, and the review fails until the run
is canceled.

### What the violations show

1. `DaemonLockRace`. `removeStaleLocalLock` reads the lock file, looks for its
   process and unlinks the *path*. Of two daemons that start over the lock of a
   dead one, the slower can unlink the lock that the faster has created since.
   Both then own the installation. The mutation lease still protects the
   document (`StateMutation`), not the recovery effects. This race is the only
   way: without it there is one owner, however many instances start and die
   (`OneDaemon`). It takes three instances (`TwoInstances`), two of which start
   at the same time (`StartsInTurn`).
2. `RunLifecycleAbandoned`. When another run of the project commits while a
   workspace is being prepared, the prepared run's commit is refused on its
   `expectedStateVersion`, `WorkerRunner.run` returns, and `runPipeline` ends
   with the run in `PREPARING`: not paused, with no task. Only a cancel or a
   restart gets it out.
The module `RunLifecycle` shows further ways to an abandoned run, which the hazards list
at their lines: a resume whose key is still in the background map, a second
blocked cancellation or a second `PUBLISH_BUSY` that is answered from the
receipt of the first, a failure that `pauseFailure` drops because it judges by an
old context, and a cancellation that comes between `acquireLease` and `prepare`
(the schema refuses the `CANCELED` document while the run holds the lease).
`NoAbandonedRun` is one property, so one run reports the shortest of them; the longer ones
are in the model, but no property watches them separately.
`retry_publish` after an apply whose report failed runs the preflight before it looks for
the earlier attempt; the files of the earlier apply are conflicts now, so the publish lease is
released while the attempt is still `SUBMITTED`.
`HostTurn` shows that a question may keep the code of a failed attempt after the
containment check has replaced the pause (its answers are those of the new one),
and that `retry`, which a failed stage offers, has no route (`Accepted`).
`CheckedEditsSurvive` excludes the edits that come after the final preflight of their
path: those are overwritten.

## 4. What is proved

For every value of the constants that satisfies the named assumptions:

| Theorem | Statement | Assumes |
|---|---|---|
| `StateMutationProofs!TypeCorrect` | `Spec => []TypeOK` | `ConstantsAssumption` |
| `StateMutationProofs!LeaseExcludes` | `Spec => [](LeaseExclusion /\ BuildsAreCurrent)` | the same, all daemons on one host |
| `StateMutationProofs!BuildsStayCurrent` | `Spec => []BuildsAreCurrent` | the same |
| `StateMutationProofs!AnswersDurable` | `Spec => []AnswersAreDurable` | `ConstantsAssumption` |
| `StateMutationProofs!Refinement` | `Spec => RefinesSerialProject` | `ConstantsAssumption` |
| `StateMutationProofs!NoUpdateLost` | `Spec => [](VersionsAreCommits /\ EffectsAreCommitted)` | `ConstantsAssumption` |
| `DaemonLockProofs!TypeCorrect` | `Spec => []TypeOK` | `NoDaemonAssumption` |
| `DaemonLockProofs!OneDaemon` | `UnracedSpec => []SingletonDaemon` | the same |
| `DaemonLockProofs!ReadyDaemonIsReached` | `UnracedSpec => []ReadyIsReachable` | the same |
| `DaemonLockProofs!TwoInstances` | `Spec => [](SingletonDaemon /\ ReadyIsReachable)` | the same, no three distinct instances |
| `DaemonLockProofs!StartsInTurn` | `Spec /\ []OneStarts => [](SingletonDaemon /\ ReadyIsReachable)` | the same |
| `RunLifecycleProofs!TypeCorrect` | `Spec => []TypeOK` | `LimitsAssumption`, `BoundsAssumption` |
| `RunLifecycleProofs!CancellationIsKept` | `Spec => CancellationSticks` | the same |
| `RunLifecycleProofs!CandidateAppliedOnce` | `Spec => AppliesOnce` | the same |
| `RunLifecycleProofs!AcceptedIsPublished` | `Spec => []OnlyAcceptedIsPublished` | the same |
| `RunLifecycleProofs!FinishedRunsAreSettled` | `Spec => []FinishedIsSettled` | the same |
| `RunLifecycleProofs!WorkRunsOut` | `Spec => []WorkIsCounted /\ [][LessWork \/ Idles]_<<vars, bounds>>` | the same |
| `WorkspaceApplyProofs!TypeCorrect` | `Spec => []TypeOK` | `OperationsAssumption` |
| `WorkspaceApplyProofs!EditsSurvive` | `Spec => []CheckedEditsSurvive` | the same |
| `WorkspaceApplyProofs!ResultIsTrue` | `Spec => [](CommittedIsComplete /\ FailureLeavesProject /\ TemporariesRemoved)` | the same |
| `WorkspaceApplyProofs!CommitsAreComplete` | `Spec => []CommittedIsComplete` | the same |
| `WorkspaceApplyProofs!Refinement` | `Spec => RefinesApplyOutcome` | the same |
| `WorkspaceApplyProofs!WorkRunsOut` | `Spec => []WorkIsCounted /\ [][LessToDo]_vars` | the same |
| `HostTurnProofs!TypeCorrect` | `Spec => []TypeOK` | `TurnAssumption` |
| `HostTurnProofs!TurnsWithPhases` | `Spec => []TurnsFollowPhases` | the same |
| `HostTurnProofs!PausesAreAskable` | `Spec => []PausedCanBeAsked` | the same |
| `HostTurnProofs!OwnersDecide` | `Spec => OwnerDecides` | the same |
| `HostTurnProofs!AnswersInTime` | `Spec => AnswersAreTimely` | the same |
| `RunArtifactsProofs!TypeCorrect` | `Spec => []TypeOK` | `ArtifactAssumption`, `NoneAssumption` |
| `RunArtifactsProofs!HealthyRunsVerify` | `Spec => []HealthyRunVerifies` | the same |
| `RunArtifactsProofs!PendingReviewsAreCurrent` | `Spec => []PendingReviewIsCurrent` | the same |
| `RunArtifactsProofs!ContinuesFromSource` | `Spec => []ContinuesWhatItLeft` | the same |
| `RunArtifactsProofs!PublishesReviewed` | `Spec => []ReadyIsReviewed` | the same |
| `ContainmentProofs!TypeCorrect` | `Spec => []TypeOK` | `AttemptAssumption` |
| `ContainmentProofs!SignalsOwnOnly` | `Spec => []NoForeignSignal` | the same |
| `ContainmentProofs!RegistryIsComplete` | `Spec => []RegistryRemembers` | the same |
| `ContainmentProofs!OneWriterAtATime` | `Spec => []OneWriter` | the same |
| `ContainmentProofs!CompletedAttemptsAreGone` | `Spec => []CompletedIsGone` | the same |
| `ContainmentProofs!CanceledRunsAreStill` | `Spec => []CanceledIsStill` | the same |
| `ReviewAgentsProofs!TypeCorrect` | `Spec => []TypeOK` | `CallAssumption`, `OutcomeAssumption`, `MessageAssumption`, `RunnerAssumption` |
| `ReviewAgentsProofs!ReviewersAreListenedTo` | `Spec => []NoReviewerLeft` | the same |
| `ReviewAgentsProofs!AnswersAreOwn` | `Spec => []AnswerIsOwn` | the same |
| `ReviewAgentsProofs!CanceledAreStopped` | `Spec => []CanceledIsStopped` | the same |
| `ReviewAgentsProofs!Refinement` | `Spec => RefinesContract` | the same |
| `ReviewAgentsProofs!ReviewRunsOut` | `Spec => []ReviewIsCounted /\ [][(LessReview \/ SameReview) /\ (GoesOn => LessReview)]_vars` | the same |

*LeaseExcludes.* A call that is running is one of a live process, and the row of a
live process is never stale for an observer on the same host (`LiveOwnerKept`):
its pid is in use and its start token is its own. So nobody acquires over it, and
the document cannot change between `Read` and `Commit`. On two hosts the lemma
fails and so does exclusion.

*Refinement.* Needs no exclusion: the compare-and-set of `version`, the check of
ownership in the write transaction and the receipts are enough. The invariant
says that a call past its commit finds its own receipt, that its effect has not
started, and that what a task has captured belongs to one epoch, whose request has its
receipt (`FenceInv`): fences only grow, so a captured fence that equals the document's is
of the present epoch.

*NoUpdateLost.* `stateVersion` is the number of request keys that have a receipt, and a started
effect has a receipt: a commit that overwrote another, or a request applied twice, would break the
count. That is an invariant of `SerialProject`'s steps; `Refinement` carries it over to the
executor, on any hosts and with any expired or stolen leases.

*DaemonLock.* `RecordsInv` holds with or without the race: who has written a record owns the
lock, is leaving or is dead, and who is about to unlink has read the record of such an instance.
`HeldInv` needs `RemovalsAreAlone`: who holds the lock has its own file at the path; what a
remover finds there is the file it has read, or none; and who unlinks has seen that owner dead
(a reused pid only keeps the file longer). The hypothesis excludes only that a file is created
under an instance that is about to unlink, the first step of `DaemonLockRace`; `TwoInstances`
and `StartsInTurn` derive it from `Spec`.

*RunLifecycle, types.* `TypeOK` is not inductive: `Repair` increments
`noProgress`, and that it stays within the limit is due to the fact that a run at
the limit is paused, or being canceled, with a code that no answer but `cancel`
resumes. `IInv` adds this (`Exhausted`). The other limit, `rounds`, is guarded
where it is counted.

*CancellationIsKept* is an action property, proved from `IInv` step by step: each
stage's commits have a phase guard that excludes `CANCELING`, and only
`FinishCancel` and `CommitBlocked` leave it.

*CandidateAppliedOnce* rests on `SubmittedFirst`: whenever an apply is under way or
has left a result, the receipt of the submission is stored; a second `Submit` is
answered from it and starts nothing. This survives crashes because receipts and
results are both on disk and are never removed.

*AcceptedIsPublished.* The property is not inductive, since a run may fall back to earlier
work. `DecisionInv` divides the record into stages that exclude each other also in a
pause, by its code: `Works` (an attempt runs or can be resumed), `Reviews` (or a review action
is pending) and `Publishes`. A run in the last one is `Decided`, and so is one with a
publish task or a submission (`Advanced`), for which no step leads back: a
publish task that fails late can only pause a run that is decided.

*FinishedRunsAreSettled.* `OutcomeInv` says what overlapping publish tasks may have read: one
that found CONFLICT or that completes follows a stored result, so it meets no apply;
an apply in progress has no result and an unsettled attempt, which no cancellation
commits over. Most steps are `Calm`: no task comes to such a point and the publish status stays.

*WorkspaceApply.* The invariant has one part per stage of `apply()`: which files are
staged at which point (`StagingOK`), that a path which passed a preflight is as the
operation expects or was edited late (`ChecksOK`), that a renamed and an observed
path stays as it was found but for late edits (`ObservedOK`), and what a stored
result says (`ResultOK`). The refinement reads off it that each step changes the
project only as `ApplyOutcome` allows.

*HostTurn.* A snapshot that is still good has seen no turn (`CallsOK`), since whatever
opens or ends one commits: so `Ask` never replaces a question. An answer in flight
belongs to the owner of its question, and that question has left its receipt. A question
with a receipt is not asked again, so what answers the open one was given since it was
opened (`TimelyOK`).

*RunArtifacts.* `Verifies` is far from inductive: it says nothing of the fields that a later
phase will require. The invariant has two parts. `Kept` holds of every run: the result
is what the last attempt left, the continuation's source left its seed, an action is of the last
attempt, what can be published is the last attempt's and approved. `Fits` holds unless `restored`: the
workspace's candidate, the record's candidate and the result are the same, the review
and the action are of it and of its session, all reviews have one reviewer and none
the id of a pending action, and each phase has what it needs. `Kept` alone gives
`ContinuesWhatItLeft` and `ReadyIsReviewed`, also for runs that `restored` has spoilt: the code refuses
such a run, it does not publish something else.

*Containment.* `Maps` says that whoever may write the registry knows all of it, and that what a map
calls exited is gone: an adapter that was made before another one spawned its process has no
part in the run any more. `Stopping`: somebody stops a worker in a cancellation, or before
anything else of the run starts. `Cleared`: no attempt is begun before the process of the last one is
gone or has outlived the end of its attempt; this is what `reconcileContainment` and
the recovery have to establish on every path. `Signals`, `Completing` and
`Stillness` follow the program points between a signal, its answer and the commit.

*ReviewAgents.* `AgentInv` speaks of the request and its processes: in which stage a process
is there (`CallFits`), that from the turn on the kept message is of it (`ConversationFits`),
that a process without owner was left by a daemon that ended and that `codex exec` is sent
SIGTERM as soon as its timer is set (`ProcessesFit`), so that an earlier process cannot write
the last message of a later one (`OutputFits`), and that after a revocation the request
comes to no further process (`RevokedFits`). Every step of an adapter is one of five kinds
(settles, agrees to stop, starts the process, goes on with it, changes a process only); one lemma
for each shows that it keeps `AgentInv` and is a step of `AgentContract` or none, so that the
refinement and the invariants share one case analysis.

*WorkRunsOut, ReviewRunsOut.* The half of termination that needs no fairness: a tuple of natural
numbers that steps lower in the lexicographic order, so only finitely many of them follow each other.

* `RunLifecycle`: client requests and failures left; whether the daemon must still boot; what the
  repair limits leave (`RoundsLeft`, then `Novelty`, whether the first round or the first empty
  one is still to come, then `Patience`); the steps all tasks still have to their ends
  (`WayLeft`). Every step lowers it but those of the environment that touch neither run, tasks
  nor receipts (`Idles`). So tasks that schedule each other, resume and repair cannot go
  on for ever, whatever reviewers and workers answer. Without the count of attempts without progress it would be false.
* `WorkspaceApply`: edits left, the stage, the paths left in its loop, the paths not yet observed;
  every step lowers it.
* `ReviewAgents`: retries and restarts left, attempts left, the stages before the request's
  outcome. No step raises it, and each step of the runner or of its adapter lowers it:
  a process may say what it likes, the request gets no longer.

### Only model-checked

The liveness properties (`LeaseTurnsOver`, `CallsSettle`, `TasksEnd`, `ApplySettles`, `ReviewEnds`,
`ReviewersEnd`): the prover does not treat fairness and ENABLED. Of `TasksEnd`, `ApplySettles` and
`ReviewEnds` the finite half is proved (above); that the next step is always enabled and taken is
TLC's. `SingletonDaemon` for `Spec` is false with three instances. No recursive
definition and no induction over data occurs in the proofs.

## 5. Not modelled

* The content of artifacts and snapshots, the Git plumbing that makes them, task manifests, prompts,
  protocol schemas and logs: sequential I/O and data that no property tells apart.
  `RunArtifacts` has their identities only, and takes the files to be intact.
* `execute()` and its checks: the run exists when the model begins.
* Several active runs of one project: each module follows one run, the others are an
  environment that commits and takes the publish lease.
* In `RunLifecycle`, the host turn: it only refuses clients, so leaving it out gives
  more client steps than the code has.
* In an apply, symbolic links, the parent directories it creates, and the derivation
  of the operations from Git. A file whose own write or `chmod` fails stays beside
  its target: it never enters the map that is cleaned up.
* The sandbox profile, the capability probe, and the framing of the provider's and the
  app-server's messages.
* Stateless forwarding (MCP server), the command line and the resolution of the configuration.

## 6. Plan

1. **StartupRecovery**: `recover()` with two or more active runs, whose epoch
   commits race the tasks already scheduled.
2. **RepairProgress, ReviewDecision**: the pure functions behind `NoProgressAfter`
   and `Accept`/`OrderRepair`, checked against a reference definition.
3. Passing properties for the longer ways to an abandoned run: a schedule that meets its key
   in use, a commit answered from a receipt of an earlier outcome, a failure judged by an old context.
4. Proofs: measures for `CallsSettle` and `ReviewersEnd`; that a task's next step is enabled.
