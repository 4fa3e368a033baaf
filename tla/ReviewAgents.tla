----------------------------- MODULE ReviewAgents -----------------------------
(***************************************************************************)
(* ReviewRunner.run (review-runner.ts) and the agents it asks: the attempts *)
(* of one review, its deadline, the cancellation of the run that revokes it *)
(* and daemons that end in between.  What is decided about the candidate is *)
(* in ReviewStage and RunArtifacts.                                         *)
(***************************************************************************)
EXTENDS CodexCli, CodexDesktop, ClaudeCode

CONSTANTS MaxAttempts,  \* REVIEW_MAX_ATTEMPTS
          Retries,      \* bound: retry_host_review
          Restarts      \* bound: daemons that end

ASSUME RunnerAssumption ==
    MaxAttempts \in Nat \ {0} /\ Retries \in Nat /\ Restarts \in Nat

VARIABLES runner,    \* the loop of ReviewRunner.run
          phase,     \* what the record says of the run
          revoking,  \* CancelManager.reconcile
          late,      \* the deadline of the turn is over
          bound,     \* the reviewer session that the action is bound to
          decided,   \* the answer that became the review
          strays,    \* a daemon ended while its agent was running
          missed,    \* cancel() came before CodexAdapter has registered the run
          retries, restarts

agentVars == <<agent, call, rpc, process, output>>
vars == <<agent, call, rpc, process, output, runner, phase, revoking, late, bound,
          decided, strays, missed, retries, restarts>>

Runner == [point : {"check", "call", "done"}, attempt : 1 .. MaxAttempts + 1,
           session : Session \cup {None}]

StartRunner == [point |-> "check", attempt |-> 1, session |-> bound]

Init ==
    /\ agent \in Agent /\ bound \in {None, Past}
    /\ call = NoCall /\ rpc = NoRpc /\ process = <<>> /\ output = None
    /\ runner = StartRunner /\ phase = "reviewing" /\ revoking = "no"
    /\ late = FALSE /\ decided = None /\ strays = FALSE /\ missed = FALSE
    /\ retries = Retries /\ restarts = Restarts

-----------------------------------------------------------------------------
(* The runner *)

\* matchesActiveContext.
StillActive == phase = "reviewing"

Done == [runner EXCEPT !.point = "done"]

\* pause(): nothing, when the review was taken away.
PauseReview ==
    /\ runner' = Done
    /\ phase' = IF StillActive THEN "paused" ELSE phase

AttemptsUsed == runner.attempt > MaxAttempts

\* The head of the loop, up to the request.
Attempt ==
    /\ runner.point = "check"
    /\ IF ~StillActive
         THEN runner' = Done /\ UNCHANGED <<agentVars, phase>>
       ELSE IF late \/ AttemptsUsed
         THEN PauseReview /\ UNCHANGED agentVars
       ELSE /\ Request(runner.session)
            /\ runner' = [runner EXCEPT !.point = "call"]
            /\ UNCHANGED phase
    /\ UNCHANGED <<revoking, late, bound, decided, strays, missed, retries, restarts>>

NextAttempt(session) ==
    runner' = [point |-> "check", attempt |-> runner.attempt + 1, session |-> session]

\* finalize(): accepted, or too late, or the task source has changed, or the commit
\* fails and pauseFailure takes the run.
Finalize(session) ==
    IF ~StillActive THEN runner' = Done /\ UNCHANGED <<phase, decided>>
    ELSE \/ /\ ~late /\ phase' = "decided" /\ runner' = Done
            /\ decided' = [session |-> session, text |-> call.outcome.text,
                           process |-> Child]
         \/ PauseReview /\ UNCHANGED decided

\* The body of the loop behind the request; the answer may not fit the schema.
TakeOutcome ==
    LET outcome == call.outcome
        session == IF runner.session = None THEN outcome.session ELSE runner.session
    IN
    /\ runner.point = "call" /\ call.stage = "settled"
    /\ call' = NoCall
    /\ \/ /\ outcome.kind = "CANCELED" /\ ~StillActive
          /\ runner' = Done /\ UNCHANGED <<phase, decided>>
       \/ /\ ~(outcome.kind = "CANCELED" /\ ~StillActive)
          /\ NextAttempt(session) /\ UNCHANGED <<phase, decided>>
       \/ /\ outcome.kind = "COMPLETED" /\ outcome.session = session
          /\ Finalize(session)
    /\ UNCHANGED <<agent, rpc, process, output, revoking, late, bound, strays,
                   missed, retries, restarts>>

-----------------------------------------------------------------------------
(* What comes between *)

Others == UNCHANGED <<runner, bound, decided, strays, retries, restarts>>

DeadlinePasses ==
    /\ ~late /\ late' = TRUE
    /\ UNCHANGED <<agentVars, phase, revoking, missed>> /\ Others

Stoppable  == CliStoppable \/ ClaudeStoppable \/ DesktopStoppable
Stop(kind) ==
    \/ CliStoppable     /\ CliStop(kind)
    \/ ClaudeStoppable  /\ ClaudeStop(kind)
    \/ DesktopStoppable /\ DesktopStop(kind)

DeadlineFires ==
    /\ late /\ DeadlineArmed /\ Stop("TIMED_OUT")
    /\ UNCHANGED <<phase, revoking, late, missed>> /\ Others

\* smartflow_cancel.
Cancel ==
    /\ phase \in {"reviewing", "paused", "decided"}
    /\ phase' = "canceling" /\ revoking' = "due"
    /\ UNCHANGED <<agentVars, late, missed>> /\ Others

\* revokeAction does not look at what cancel() returns.
Revoke ==
    /\ revoking = "due" /\ revoking' = "asked"
    /\ IF Stoppable THEN Stop("CANCELED") ELSE UNCHANGED agentVars
    /\ missed' = (missed \/ (Cli /\ call.stage = "prepare"))
    /\ UNCHANGED <<phase, late>> /\ Others

\* ClaudeCodeAdapter.cancel waits for the request to be settled.
CommitCanceled ==
    /\ revoking = "asked" /\ (Claude => ~Active)
    /\ revoking' = "no" /\ phase' = "canceled"
    /\ UNCHANGED <<agentVars, late, missed>> /\ Others

\* retry_host_review, or restore_approved_tasks: a new turn of the same review.
Retry ==
    /\ phase = "paused" /\ runner.point = "done" /\ retries > 0
    /\ retries' = retries - 1
    /\ phase' = "reviewing" /\ runner' = StartRunner /\ late' = FALSE
    /\ UNCHANGED <<agentVars, revoking, bound, decided, strays, missed, restarts>>

\* The daemon ends, its agents do not; the next daemon takes the run up again.
Restart ==
    /\ restarts > 0 /\ restarts' = restarts - 1
    /\ call' = NoCall /\ rpc' = NoRpc
    /\ process' = [p \in DOMAIN process |->
                     [process[p] EXCEPT !.owned = FALSE, !.timer = "none"]]
    /\ strays' = (strays \/ \E p \in DOMAIN process : process[p].open)
    /\ runner' = IF StillActive THEN StartRunner ELSE Done
    /\ revoking' = IF phase = "canceling" THEN "due" ELSE "no"
    /\ UNCHANGED <<agent, output, phase, late, bound, decided, missed, retries>>

-----------------------------------------------------------------------------

RunnerWaits == UNCHANGED <<phase, revoking, late, missed>> /\ Others

AgentNext ==
    /\ \/ CliNext \/ ClaudeNext \/ DesktopNext
       \/ \E p \in DOMAIN process : TimerFires(p) \/ ExitUnheard(p) \/ CliWrites(p)
    /\ RunnerWaits

Next == Attempt \/ TakeOutcome \/ DeadlinePasses \/ DeadlineFires \/ Cancel \/ Revoke
        \/ CommitCanceled \/ Retry \/ Restart \/ AgentNext

Spec == Init /\ [][Next]_vars

\* Pending promises and timers are served; time passes; what was sent SIGKILL exits,
\* and an exit is noticed.
SignalDue(p) == p \in DOMAIN process /\ TimerFires(p)

Killed(p) ==
    /\ p \in DOMAIN process /\ process[p].open /\ process[p].signal = "KILL"
    /\ ExitUnheard(p) \/ (p = Child /\ ClaudeCloses)

Fairness ==
    /\ WF_vars(Attempt) /\ WF_vars(TakeOutcome)
    /\ WF_vars(DeadlinePasses) /\ WF_vars(DeadlineFires)
    /\ WF_vars(Revoke) /\ WF_vars(CommitCanceled)
    /\ WF_vars(CliStep /\ RunnerWaits) /\ WF_vars(ClaudeStep /\ RunnerWaits)
    /\ WF_vars(DesktopStep /\ RunnerWaits)
    /\ \A p \in Own : /\ WF_vars(SignalDue(p) /\ RunnerWaits)
                      /\ WF_vars(Killed(p) /\ RunnerWaits)

FairSpec == Spec /\ Fairness

-----------------------------------------------------------------------------

\* The types of the state.
TypeOK ==
    /\ AgentTypeOK /\ rpc \in Rpc
    /\ runner \in Runner /\ bound \in {None, Past}
    /\ phase \in {"reviewing", "paused", "decided", "canceling", "canceled"}
    /\ revoking \in {"no", "due", "asked"} /\ (phase = "canceling" <=> revoking # "no")
    /\ late \in BOOLEAN /\ strays \in BOOLEAN /\ missed \in BOOLEAN
    /\ decided \in [session : Session, text : Own \cup {Foreign}, process : Own] \cup {None}
    /\ retries \in 0 .. Retries /\ restarts \in 0 .. Restarts

\* A process of this daemon that nobody asked to end is the one that the request
\* listens to: no outcome, deadline, retry or cancellation leaves a reviewer behind.
NoReviewerLeft ==
    \A p \in DOMAIN process :
      process[p].owned /\ ~Leaving(p) =>
        p = Child /\ call.stage \in {"running", "finishing"}

\* The review that is recorded is the answer of the process and the thread whose
\* session it is recorded under, and of the session the action is bound to.
AnswerIsOwn ==
    decided # None =>
      /\ bound # None => decided.session = bound
      /\ strays \/ decided.text = decided.process

\* A canceled run has no reviewer at work, unless the cancellation was missed.
CanceledIsStopped ==
    phase = "canceled" /\ ~missed =>
      \A p \in DOMAIN process : process[p].owned => Leaving(p)

Contract == INSTANCE AgentContract WITH
    asked    <- call.stage # "idle",
    wanted   <- call.expected,
    stopping <- Active /\ call.requested # None,
    outcome  <- IF call.outcome = None THEN None
                ELSE [kind |-> call.outcome.kind, session |-> call.outcome.session]

\* Each of the adapters is an AgentAdapter.
RefinesContract == Contract!Spec

\* Every review comes to its end, whatever the agent does or fails to do.
ReviewEnds == []<>(runner.point = "done")

\* Every reviewer that a daemon has started is gone in the end, unless the daemon
\* goes first.
ReviewersEnd == <>[](\A p \in DOMAIN process : ~process[p].owned)
=============================================================================
