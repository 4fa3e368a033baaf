----------------------------- MODULE Containment -----------------------------
(***************************************************************************)
(* The worker processes of a run: started in a sandbox of their own, known *)
(* to the registry file of the run (execution-sandbox-adapter.ts), driven  *)
(* by the provider (pi-provider.ts) and stopped by it, by their deadline,  *)
(* by cancellation and by the recovery of a later daemon, which knows them *)
(* from the file and from the run's record alone.                          *)
(*                                                                         *)
(* Every adapter reads the file when it is made and writes all that it     *)
(* knows at every change.  A process group can outlive its daemon, its     *)
(* leading process and both signals, and its pid can come round again.     *)
(* One task drives the run and one stops its worker; what several do to    *)
(* each other is in RunLifecycle.                                          *)
(***************************************************************************)
EXTENDS Naturals

CONSTANT Attempts   \* bound: worker attempts of the run

ASSUME AttemptAssumption == Attempts \in Nat \ {0}

Attempt == 1 .. Attempts

VARIABLES phase,     \* of the run; "stuck" is a pause that only a cancellation ends
          count,     \* attempts that were begun, the last being the current one
          status,    \* workerAttempts[].status
          known,     \* attempts with containmentId and processIdentity in the record
          file,      \* pi-containments.json
          mine,      \* executions of the adapter that runs the current attempt
          theirs,    \* executions of the adapter that is stopping a worker for others
          signaled,  \* terminate() of the former adapter is under way
          waited,    \* and its wait() has seen the exit of the leading process
          group,     \* the process groups
          task,      \* where WorkerRunner.run and PiProvider.start are
          stopper,   \* where the cancellation or the recovery is
          up,        \* whether a daemon runs
          unproved,  \* attempts that were ended while their processes lived
          harmed     \* a process group was signaled that is no worker of the run

record    == <<phase, count, status, known>>
adapters  == <<file, mine, theirs, signaled, waited>>
processes == <<group, harmed>>
daemon    == <<task, stopper, up>>
vars == <<record, adapters, processes, daemon, unproved>>

Phase  == {"preparing", "running", "captured", "paused", "stuck", "canceling", "canceled"}
Status == {"none", "PREPARING", "RUNNING", "COMPLETED", "ENDED"}
Record == [status : {"none", "STARTING", "RUNNING", "EXITED", "UNKNOWN"}, pid : BOOLEAN]

\* A group is idle until it is prompted; "tree" is one whose leading process is gone,
\* "foreign" another process group with the pid.
Group == {"none", "idle", "working", "tree", "gone", "foreign"}

Idle  == {"none", "enter", "begin", "begun", "repair"}
Attached == {"identified", "prompting", "streaming", "finishing", "failing"}
Task  == Idle \cup Attached \cup
         {"constructed", "registered", "spawned", "completed", "ends", "reconcile",
          "reconciling", "capture"}
Stopper == {"none", "cancel", "own", "persisted", "signaled", "stopped", "unstopped"}

Nothing == [a \in Attempt |-> [status |-> "none", pid |-> FALSE]]

Alive(a)   == group[a] \in {"idle", "working", "tree"}
Writing(a) == group[a] \in {"working", "tree"}
Active(a)  == status[a] \in {"PREPARING", "RUNNING"}

Init ==
    /\ phase = "preparing" /\ count = 0 /\ known = {}
    /\ status = [a \in Attempt |-> "none"]
    /\ file = Nothing /\ mine = Nothing /\ theirs = Nothing /\ signaled = FALSE
    /\ waited = FALSE
    /\ group = [a \in Attempt |-> "none"] /\ harmed = FALSE
    /\ task = "enter" /\ stopper = "none" /\ up = TRUE
    /\ unproved = {}

-----------------------------------------------------------------------------
(* The adapter *)

\* processGroupExists: kill(-pid, 0).
GroupExists(a) == group[a] \in {"idle", "working", "tree", "foreign"}

\* Faulty: whoever has the pid is the worker.
AnyProcessMatches(a, r) == r.pid /\ GroupExists(a)

\* processIdentityMatches: the leading process is there, with its start token.
IdentityMatches(a, r) == r.pid /\ group[a] \in {"idle", "working"}

\* The constructor.
Load == [a \in Attempt |->
           IF file[a].status = "RUNNING" /\ ~IdentityMatches(a, file[a])
             THEN [file[a] EXCEPT !.status = "UNKNOWN"] ELSE file[a]]

Query(m, a) ==
    CASE m[a].status = "none"    -> "NOT_FOUND"
      [] m[a].status = "EXITED"  -> IF m[a].pid /\ GroupExists(a) THEN "UNKNOWN" ELSE "EXITED"
      [] m[a].status = "RUNNING" -> IF IdentityMatches(a, m[a]) THEN "RUNNING" ELSE "UNKNOWN"
      [] OTHER                   -> "UNKNOWN"

\* terminate() up to its signals, which a group may survive, as a whole or without
\* its leading process.
Terminable(m, a) ==
    /\ m[a].pid /\ m[a].status # "UNKNOWN"
    /\ m[a].status = "RUNNING" => IdentityMatches(a, m[a])

Signal(a) ==
    IF GroupExists(a)
      THEN /\ \E g \in {group[a], "gone"} \cup (IF group[a] = "working" THEN {"tree"} ELSE {}) :
                group' = [group EXCEPT ![a] = g]
           /\ harmed' = (harmed \/ group[a] = "foreign")
      ELSE UNCHANGED processes

\* Faulty: what was signaled is gone.
ConcludedAnyway(m, a) == [m EXCEPT ![a].status = "EXITED"]

\* terminate() after its signals, and wait(): what is left of the group.
Concluded(m, a) == [m EXCEPT ![a].status = IF GroupExists(a) THEN "UNKNOWN" ELSE "EXITED"]

Quiet == UNCHANGED <<theirs, signaled, waited, processes, stopper, up, unproved>>

\* terminate() of the attempt's own adapter, for whomever.
SignalOwn == Terminable(mine, count) /\ ~signaled /\ signaled' = TRUE /\ Signal(count)

ConcludeOwn ==
    /\ signaled /\ signaled' = FALSE
    /\ mine' = Concluded(mine, count) /\ file' = mine'
    /\ task' = IF task = "finishing" /\ mine'[count].status # "EXITED" THEN "failing"
                                                                      ELSE task
    /\ UNCHANGED <<record, theirs, waited, processes, stopper, up, unproved>>

\* The deadline of the attempt.
TimeOut ==
    /\ up /\ count > 0 /\ ~waited /\ SignalOwn
    /\ UNCHANGED <<record, file, mine, theirs, waited, daemon, unproved>>

\* wait(): the leading process has exited.  What is left of its group is not
\* terminated, for the identity of the leading process is gone with it.
Exited ==
    /\ up /\ count > 0 /\ mine[count].pid /\ ~waited /\ waited' = TRUE
    /\ group[count] \notin {"idle", "working"}
    /\ mine' = Concluded(mine, count) /\ file' = mine'
    /\ UNCHANGED <<record, theirs, signaled, processes, daemon, unproved>>

-----------------------------------------------------------------------------
(* The attempt *)

\* prepareWorkspace.
Prepare ==
    /\ task = "enter"
    /\ IF phase = "preparing" /\ count < Attempts
         THEN phase' = "running" /\ task' = "begin" ELSE UNCHANGED phase /\ task' = "none"
    /\ UNCHANGED <<count, status, known, file, mine>> /\ Quiet

\* beginAttempt, refused or not.
BeginAttempt ==
    /\ task = "begin"
    /\ IF phase = "running"
         THEN /\ count' = count + 1 /\ status' = [status EXCEPT ![count + 1] = "PREPARING"]
              /\ task' = "begun"
         ELSE UNCHANGED <<count, status>> /\ task' = "none"
    /\ UNCHANGED <<phase, known, file, mine>> /\ Quiet

\* PiProvider.start makes an adapter, whose probe takes its time.
Construct ==
    /\ task = "begun"
    /\ mine' = Load /\ task' = "constructed"
    /\ UNCHANGED <<record, file>> /\ Quiet

\* No sandbox, no credential, another configuration, a deadline that has passed.
SpawnRefused ==
    /\ task \in {"begun", "constructed"}
    /\ task' = "ends"
    /\ UNCHANGED <<record, file, mine>> /\ Quiet

\* Faulty: the file is written when the process runs.
RegisterInMemory ==
    /\ task = "constructed" /\ ~signaled
    /\ mine' = [mine EXCEPT ![count] = [status |-> "STARTING", pid |-> FALSE]]
    /\ waited' = FALSE /\ task' = "registered"
    /\ UNCHANGED <<record, file, theirs, signaled, processes, stopper, up, unproved>>

\* spawn(): the attempt is in the file before there is a process.  After the second that
\* the probe takes the adapter of an earlier attempt has written what it saw of it.
Register ==
    /\ task = "constructed" /\ ~signaled
    /\ mine' = [mine EXCEPT ![count] = [status |-> "STARTING", pid |-> FALSE]]
    /\ file' = mine' /\ waited' = FALSE /\ task' = "registered"
    /\ UNCHANGED <<record, theirs, signaled, processes, stopper, up, unproved>>

Spawn ==
    /\ task = "registered"
    /\ \/ group' = [group EXCEPT ![count] = "idle"] /\ task' = "spawned"
       \/ UNCHANGED group /\ task' = "ends"
    /\ UNCHANGED <<record, adapters, harmed, stopper, up, unproved>>

\* The start token is read, or the group is killed without waiting for its end.
Identify ==
    /\ task = "spawned"
    /\ \/ /\ group[count] = "idle"
          /\ mine' = [mine EXCEPT ![count] = [status |-> "RUNNING", pid |-> TRUE]]
          /\ task' = "identified" /\ UNCHANGED group
       \/ /\ mine' = [mine EXCEPT ![count].status = "UNKNOWN"]
          /\ group' \in {group, [group EXCEPT ![count] = "gone"]} /\ task' = "ends"
    /\ file' = mine'
    /\ UNCHANGED <<record, theirs, signaled, waited, harmed, stopper, up, unproved>>

\* STARTED: only when the identity is in the record the worker is given its prompt.
\* When the commit is refused the process is left to its deadline.
Started ==
    /\ task = "identified"
    /\ IF phase = "running"
         THEN /\ status' = [status EXCEPT ![count] = "RUNNING"]
              /\ known' = known \cup {count} /\ task' = "prompting"
         ELSE UNCHANGED <<status, known>> /\ task' = "none"
    /\ UNCHANGED <<phase, count, file, mine>> /\ Quiet

Prompt ==
    /\ task = "prompting" /\ group[count] = "idle"
    /\ group' = [group EXCEPT ![count] = "working"] /\ task' = "streaming"
    /\ UNCHANGED <<record, adapters, harmed, stopper, up, unproved>>

\* agent_end, or an error of the protocol: the group is terminated, or is being so.
Finish ==
    /\ \/ task = "streaming" /\ task' = IF signaled \/ Terminable(mine, count)
                                        THEN "finishing" ELSE "failing"
       \/ task \in {"identified", "prompting", "streaming"} /\ task' = "failing"
    /\ IF Terminable(mine, count) /\ ~signaled THEN SignalOwn
                                               ELSE UNCHANGED <<signaled, processes>>
    /\ UNCHANGED <<record, file, mine, theirs, waited, stopper, up, unproved>>

\* The exit of the process is awaited in any case; COMPLETED needs an empty tree.
Finished ==
    /\ waited /\ ~signaled
    /\ \/ task = "finishing" /\ task' = "completed"
       \/ task \in Attached /\ task' = "ends"
    /\ UNCHANGED <<record, file, mine>> /\ Quiet

\* Storing an event fails: the loop is left, and the generator with it.
EventLost ==
    /\ task \in Attached \ {"finishing", "failing"}
    /\ task' = "ends"
    /\ UNCHANGED <<record, file, mine>> /\ Quiet

\* COMPLETED is committed, or refused.
Complete ==
    /\ task = "completed"
    /\ IF phase = "running"
         THEN status' = [status EXCEPT ![count] = "COMPLETED"] /\ task' = "reconcile"
         ELSE UNCHANGED status /\ task' = "none"
    /\ UNCHANGED <<phase, count, known, file, mine>> /\ Quiet

\* The other ends.  BLOCKED can only be canceled.
End ==
    /\ task = "ends"
    /\ IF phase = "running"
         THEN /\ status' = [status EXCEPT ![count] = "ENDED"]
              /\ phase' \in {"paused", "stuck"} /\ task' = "reconcile"
              /\ unproved' = IF Alive(count) THEN unproved \cup {count} ELSE unproved
         ELSE UNCHANGED <<status, phase, unproved>> /\ task' = "none"
    /\ UNCHANGED <<count, known, adapters, processes, stopper, up>>

Blocked ==
    /\ phase' = IF phase \in {"running", "paused", "stuck"} THEN "stuck" ELSE phase
    /\ task' = "none"

Proved ==
    /\ task' = IF status[count] = "COMPLETED" THEN "capture" ELSE "none"
    /\ UNCHANGED phase

\* reconcileContainment; a canceled run is not active any more.
Reconcile ==
    /\ task = "reconcile"
    /\ LET seen == Query(Load, count) IN
       CASE phase = "canceled" -> task' = "none" /\ UNCHANGED <<phase, theirs, processes>>
         [] phase # "canceled" /\ seen = "RUNNING" /\ count \in known ->
              Signal(count) /\ theirs' = Load /\ task' = "reconciling" /\ UNCHANGED phase
         [] OTHER -> /\ IF seen = IF count \in known THEN "EXITED" ELSE "NOT_FOUND"
                          THEN Proved ELSE Blocked
                     /\ theirs' = Load /\ UNCHANGED processes
    /\ UNCHANGED <<count, status, known, file, mine, signaled, waited, stopper, up, unproved>>

Reconciled ==
    /\ task = "reconciling"
    /\ theirs' = Concluded(theirs, count) /\ file' = theirs'
    /\ IF theirs'[count].status = "EXITED" THEN Proved ELSE Blocked
    /\ UNCHANGED <<count, status, known, mine, signaled, waited, processes, stopper, up, unproved>>

\* captureCandidate, and the repair that may follow.
Capture ==
    /\ task = "capture"
    /\ IF phase = "running" THEN phase' = "captured" /\ task' = "repair"
                            ELSE UNCHANGED phase /\ task' = "none"
    /\ UNCHANGED <<count, status, known, file, mine>> /\ Quiet

Repair ==
    /\ task = "repair"
    /\ \/ phase = "captured" /\ phase' = "preparing" /\ task' = "enter"
       \/ UNCHANGED phase /\ task' = "none"
    /\ UNCHANGED <<count, status, known, file, mine>> /\ Quiet

\* pauseFailure: something else of the run fails, or the task itself.
StageFails ==
    /\ up /\ phase \in {"preparing", "running", "captured"}
    /\ phase' = "stuck" /\ task' \in {task} \cup (IF task \in Idle THEN {"none"} ELSE {})
    /\ UNCHANGED <<count, status, known, file, mine>> /\ Quiet

-----------------------------------------------------------------------------
(* Cancellation and recovery *)

\* smartflow_cancel, and the answers cancel and retry_cancel.
Cancel ==
    /\ up /\ phase # "canceled" /\ stopper = "none"
    /\ phase' = "canceling" /\ stopper' = "cancel"
    /\ UNCHANGED <<count, status, known, adapters, processes, task, up, unproved>>

\* retry_provider, dropped while the task that it needs still runs.
Resume ==
    /\ up /\ phase = "paused"
    /\ phase' = "preparing" /\ task' = IF task = "none" THEN "enter" ELSE task
    /\ UNCHANGED <<count, status, known, file, mine>> /\ Quiet

\* stopWorker: an attempt that has ended has no worker; the provider stops its own.
StopWorker ==
    /\ stopper = "cancel"
    /\ CASE count = 0 \/ ~Active(count) ->
              stopper' = "stopped" /\ UNCHANGED <<signaled, processes>>
         [] count > 0 /\ Active(count) /\ task \in Attached /\ signaled ->
              stopper' = "own" /\ UNCHANGED <<signaled, processes>>
         [] count > 0 /\ Active(count) /\ task \in Attached /\ Terminable(mine, count)
              /\ ~signaled -> stopper' = "own" /\ SignalOwn
         [] OTHER -> stopper' = "persisted" /\ UNCHANGED <<signaled, processes>>
    /\ UNCHANGED <<record, file, mine, theirs, waited, task, up, unproved>>

StoppedOwn ==
    /\ stopper = "own" /\ ~signaled
    /\ stopper' = IF mine[count].status = "EXITED" THEN "stopped" ELSE "persisted"
    /\ UNCHANGED <<record, adapters, processes, task, up, unproved>>

\* Faulty: a worker that cannot be identified is taken to be gone.
AnswerWithoutIdentity(seen) ==
    CASE seen \in {"NOT_FOUND", "UNKNOWN"} -> status[count] = "PREPARING"
      [] seen = "EXITED"                   -> TRUE
      [] OTHER                             -> FALSE

\* Faulty: what is not running is taken to be gone.
AnswerUnlessRunning(seen) == IF seen = "NOT_FOUND" THEN status[count] = "PREPARING"
                                                   ELSE seen # "RUNNING"

\* What stopPersistedAttempt knows without a signal.
Answer(seen) ==
    CASE seen = "NOT_FOUND" -> status[count] = "PREPARING"
      [] seen = "EXITED"    -> TRUE
      [] OTHER              -> FALSE

\* stopPersistedAttempt: only a process of the identity in the record is terminated.
StopPersisted ==
    /\ stopper = "persisted"
    /\ theirs' = Load
    /\ LET seen == Query(Load, count) IN
       IF seen = "RUNNING" /\ count \in known
         THEN Signal(count) /\ stopper' = "signaled"
         ELSE /\ stopper' = IF Answer(seen) THEN "stopped" ELSE "unstopped"
              /\ UNCHANGED processes
    /\ UNCHANGED <<record, file, mine, signaled, waited, task, up, unproved>>

StoppedPersisted ==
    /\ stopper = "signaled"
    /\ theirs' = Concluded(theirs, count) /\ file' = theirs'
    /\ stopper' = IF theirs'[count].status = "EXITED" THEN "stopped" ELSE "unstopped"
    /\ UNCHANGED <<record, mine, signaled, waited, processes, task, up, unproved>>

Ended == [a \in Attempt |-> IF Active(a) THEN "ENDED" ELSE status[a]]

\* The cancellation ends in CANCELED or in a question; the recovery of a running
\* attempt starts another one, or asks.
Decide ==
    /\ stopper \in {"stopped", "unstopped"} /\ stopper' = "none"
    /\ CASE phase = "canceling" /\ stopper = "stopped" ->
              phase' = "canceled" /\ status' = Ended /\ UNCHANGED task
         [] phase = "running" /\ stopper = "stopped" ->
              phase' = "preparing" /\ status' = Ended /\ task' = "enter"
         [] OTHER -> phase' = "stuck" /\ UNCHANGED <<status, task>>
    /\ UNCHANGED <<count, known, adapters, processes, up, unproved>>

Crash ==
    /\ up /\ up' = FALSE
    /\ task' = "none" /\ stopper' = "none"
    /\ mine' = Nothing /\ theirs' = Nothing /\ signaled' = FALSE /\ waited' = FALSE
    /\ UNCHANGED <<record, file, processes, unproved>>

\* RecoveryManager.recover of the phases with a worker.
Boot ==
    /\ ~up /\ up' = TRUE
    /\ CASE phase = "running"   -> /\ stopper' = IF count > 0 /\ Active(count) THEN "persisted"
                                                                               ELSE "stopped"
                                   /\ UNCHANGED task
         [] phase = "canceling" -> stopper' = "cancel" /\ UNCHANGED task
         [] phase = "preparing" -> task' = "enter" /\ UNCHANGED stopper
         [] phase = "captured"  -> task' = "repair" /\ UNCHANGED stopper
         [] OTHER               -> UNCHANGED <<task, stopper>>
    /\ UNCHANGED <<record, adapters, processes, unproved>>

-----------------------------------------------------------------------------
(* The operating system *)

\* A group ends, or its leading process, with or without a reason.
Dies ==
    /\ \E a \in Attempt :
         /\ Alive(a)
         /\ \/ group' = [group EXCEPT ![a] = "gone"]
            \/ group[a] = "working" /\ group' = [group EXCEPT ![a] = "tree"]
    /\ UNCHANGED <<record, adapters, harmed, daemon, unproved>>

\* A pid comes round again, but not in the seconds in which terminate() waits for the
\* end of its group, wait() for the exit or the provider has the attempt.
Reuse ==
    /\ task \notin Attached \cup {"spawned", "completed", "ends", "reconciling"}
    /\ ~signaled /\ stopper \notin {"own", "signaled"}
    /\ count > 0 /\ mine[count].pid => waited
    /\ \E a \in Attempt :
         \/ group[a] = "gone" /\ file[a].pid /\ group' = [group EXCEPT ![a] = "foreign"]
         \/ group[a] = "foreign" /\ group' = [group EXCEPT ![a] = "gone"]
    /\ UNCHANGED <<record, adapters, harmed, daemon, unproved>>

-----------------------------------------------------------------------------

Worker == Prepare \/ BeginAttempt \/ Construct \/ SpawnRefused \/ Register \/ Spawn
          \/ Identify \/ Started \/ Prompt \/ Finish \/ Finished \/ EventLost \/ Complete
          \/ End \/ Reconcile \/ Reconciled \/ Capture \/ Repair
Stop   == StopWorker \/ StoppedOwn \/ StopPersisted \/ StoppedPersisted \/ Decide
Others == ConcludeOwn \/ TimeOut \/ Exited \/ StageFails \/ Cancel \/ Resume
          \/ Crash \/ Boot \/ Dies \/ Reuse

Next == Worker \/ Stop \/ Others

Spec == Init /\ [][Next]_vars

-----------------------------------------------------------------------------

\* The types of the state.
TypeOK ==
    /\ phase \in Phase /\ count \in 0 .. Attempts
    /\ status \in [Attempt -> Status] /\ known \subseteq Attempt
    /\ file \in [Attempt -> Record] /\ mine \in [Attempt -> Record]
    /\ theirs \in [Attempt -> Record] /\ signaled \in BOOLEAN /\ waited \in BOOLEAN
    /\ group \in [Attempt -> Group] /\ harmed \in BOOLEAN
    /\ task \in Task /\ stopper \in Stopper /\ up \in BOOLEAN
    /\ unproved \subseteq Attempt

\* Whatever is read from the registry of an earlier daemon, whose pids may have come
\* round again: no process group is signaled that is not the worker's.
NoForeignSignal == ~harmed

\* Every worker process that lives is in the registry file, whichever adapter has
\* written it last.
RegistryRemembers == \A a \in Attempt : Alive(a) => file[a].status # "none"

\* No worker process is started for an attempt of the run while one of an earlier
\* attempt lives, that could write in the same workspace, unless the earlier one
\* survived the end of its attempt.
OneWriter ==
    \A a, b \in Attempt : a < b /\ Alive(a) /\ group[b] # "none" => a \in unproved

\* A completed attempt has no process left that could still change the workspace
\* of which the candidate is taken.
CompletedIsGone == \A a \in Attempt : status[a] = "COMPLETED" => ~Alive(a)

\* In a canceled run no worker writes that has not survived the end of its attempt.
CanceledIsStill ==
    phase = "canceled" => \A a \in Attempt : Writing(a) => a \in unproved
=============================================================================
