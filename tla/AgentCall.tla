------------------------------ MODULE AgentCall ------------------------------
(***************************************************************************)
(* The state of the review agents (packages/review/src/agents): the request *)
(* that an adapter works on, the processes it has started and the signals   *)
(* they were sent.  CodexCli, CodexDesktop and ClaudeCode add the steps of  *)
(* each adapter, ReviewAgents the runner that makes the requests.           *)
(*                                                                         *)
(* There is one request at a time: the runner of a run is the only caller   *)
(* and waits for each outcome, so that the guards against a second request  *)
(* for the same run id (CODEX_RUN_ACTIVE, CLAUDE_RUN_ACTIVE) never apply.   *)
(* Reads and removals of files that follow each other are one step.         *)
(***************************************************************************)
EXTENDS Naturals, Sequences, FiniteSets

CONSTANTS None,
          Past,       \* the session of an earlier review of the run
          Foreign,    \* a session, thread or turn that is not of this request
          Refused,    \* how a promise is settled that is not fulfilled
          Processes   \* bound: processes ever started

ASSUME CallAssumption ==
    /\ Processes \in Nat
    /\ Cardinality({None, Past, Foreign, Refused}) = 4
    /\ {None, Past, Foreign, Refused} \cap Nat = {}

VARIABLES agent,    \* which adapter the run is bound to
          call,     \* the request
          rpc,      \* the conversation with an app-server (CodexDesktop)
          process,  \* the processes that were started, in order
          output    \* whose last message is in the request's outputPath (CodexCli)

Agent == {"codex-cli", "codex-desktop", "claude-code"}

\* A session is named by the process that created it.
Own     == 1 .. Processes
Session == Own \cup {Past}

Interrupted == {"TIMED_OUT", "CANCELED"}

\* text: the process that the answer is of, or Foreign.
Outcome == [kind : Interrupted \cup {"COMPLETED", "FAILED"},
            session : Session \cup {None}, text : Own \cup {None, Foreign}]

\* stage: "prepare" before the spawn, "running" while the process is listened to,
\* "finishing" during the file access after its end.  expected is the session to be
\* resumed, session the one that is known; done and failed are what events said.
Call == [stage : {"idle", "prepare", "running", "finishing", "settled"},
         expected : Session \cup {None}, session : Session \cup {None},
         requested : Interrupted \cup {None}, done : BOOLEAN, failed : BOOLEAN,
         outcome : Outcome \cup {None}]

ASSUME OutcomeAssumption == None \notin Outcome \cup Interrupted

NoCall == [stage |-> "idle", expected |-> None, session |-> None, requested |-> None,
           done |-> FALSE, failed |-> FALSE, outcome |-> None]

\* owned: it is open and its daemon still runs.  timer: the signal that is to follow.
Process == [open : BOOLEAN, owned : BOOLEAN,
            signal : {"none", "TERM", "KILL"}, timer : {"none", "TERM", "KILL"}]

Gone == [open |-> FALSE, owned |-> FALSE, signal |-> "none", timer |-> "none"]

Child     == Len(process)
ChildOpen == process # <<>> /\ process[Child].owned

Active == call.stage \in {"prepare", "running", "finishing"}

\* Asked to end, now or by a timer.
Leaving(p) == process[p].signal # "none" \/ process[p].timer # "none"

-----------------------------------------------------------------------------
(* What the adapters have in common *)

\* createSession or resume.
Request(session) ==
    /\ call.stage = "idle"
    /\ call' = [NoCall EXCEPT !.stage = "prepare", !.expected = session, !.session = session]
    /\ UNCHANGED <<agent, rpc, process, output>>

Settled(kind, session, text) ==
    [NoCall EXCEPT !.stage = "settled", !.expected = call.expected,
                   !.outcome = [kind |-> kind, session |-> session, text |-> text]]

Spawn == process' = Append(process, [open |-> TRUE, owned |-> TRUE,
                                     signal |-> "none", timer |-> "none"])

\* Faulty: a process that ignores SIGTERM is left alone.
TerminateOnce ==
    process' = IF ChildOpen THEN [process EXCEPT ![Child].signal = "TERM"] ELSE process

\* SIGTERM for the process group, SIGKILL after forceKillAfterMs.
Terminate ==
    process' = IF ChildOpen
                 THEN [process EXCEPT ![Child].signal = "TERM", ![Child].timer = "KILL"]
                 ELSE process

\* A timer of the adapter signals the process group.
TimerFires(p) ==
    /\ process[p].open /\ process[p].timer # "none"
    /\ process' = [process EXCEPT
                     ![p].signal = process[p].timer,
                     ![p].timer  = IF process[p].timer = "TERM" THEN "KILL" ELSE "none"]
    /\ UNCHANGED <<agent, call, rpc, output>>

Exit(p) == [process EXCEPT ![p] = Gone]

\* A process to which no adapter listens any more exits, of itself or by a signal.
Unheard(p) == ~ (p = Child /\ process[p].owned /\ call.stage \in {"running", "finishing"})

ExitUnheard(p) ==
    /\ process[p].open /\ Unheard(p)
    /\ process' = Exit(p)
    /\ UNCHANGED <<agent, call, rpc, output>>

\* Faulty: only one adapter has a deadline.
DeadlineArmedByClaude == Active /\ agent = "claude-code"

\* The deadline timer of the request: two adapters start it with their process.
DeadlineArmed ==
    \/ call.stage \in {"running", "finishing"}
    \/ call.stage = "prepare" /\ agent = "claude-code"

AgentTypeOK ==
    /\ agent \in Agent /\ call \in Call
    /\ process \in Seq(Process) /\ Len(process) <= Processes
    /\ output \in Own \cup {None}
    /\ call.stage = "settled" <=> call.outcome # None
=============================================================================
