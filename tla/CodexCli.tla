------------------------------- MODULE CodexCli -------------------------------
(* CodexAdapter (codex/cli/adapter.ts): `codex exec` writes its last message to *)
(* outputPath, and events to stdout.                                            *)
EXTENDS AgentCall

Cli == agent = "codex-cli"

\* run() up to the process.  The run is registered behind the removal of the old
\* output: there is nothing to stop before.
CliPrepare ==
    /\ Cli /\ call.stage = "prepare"
    /\ \/ /\ call' = Settled("FAILED", call.expected, None)
          /\ output' \in {output, None} /\ UNCHANGED process
       \/ /\ Child < Processes /\ Spawn
          /\ call' = [call EXCEPT !.stage = "running"] /\ output' = None
    /\ UNCHANGED <<agent, rpc>>

Listening == Cli /\ call.stage = "running" /\ ChildOpen

\* reduceCodexEventLine: the first failure stays.
CliEvent ==
    /\ Listening
    /\ LET own == IF call.expected = None THEN Child ELSE call.expected IN
       \/ call' = [call EXCEPT !.session = own]                       \* thread.started
       \/ call.session # None /\ call' = [call EXCEPT !.failed = TRUE] \* another thread
       \/ call' = [call EXCEPT !.done = TRUE]                         \* turn.completed
       \/ call' = [call EXCEPT !.failed = TRUE]                       \* turn.failed, error
    /\ UNCHANGED <<agent, rpc, process, output>>

\* --output-last-message.  A process writes nothing after SIGTERM.
CliWrites(p) ==
    /\ Cli /\ process[p].open /\ process[p].signal = "none"
    /\ output' = p
    /\ UNCHANGED <<agent, call, rpc, process>>

\* close and finishRun up to the output file, or an error event of the process.
CliCloses ==
    /\ Listening
    /\ process' = Exit(Child)
    /\ \/ call' = Settled("FAILED", call.session, None)
       \/ /\ ~call.failed /\ call.done /\ call.session # None
          /\ call' = [call EXCEPT !.stage = "finishing"]
    /\ UNCHANGED <<agent, rpc, output>>

\* finishRun: the output may be missing, unreadable or no JSON.
CliReads ==
    /\ Cli /\ call.stage = "finishing"
    /\ \/ call' = Settled("FAILED", call.session, None)
       \/ output # None /\ call' = Settled("COMPLETED", call.session, output)
    /\ UNCHANGED <<agent, rpc, process, output>>

\* stop(): the outcome does not wait for the end of the process.
CliStoppable == Cli /\ call.stage \in {"running", "finishing"}

CliStop(kind) ==
    /\ call' = Settled(kind, call.session, None)
    /\ Terminate /\ UNCHANGED <<agent, rpc, output>>

CliStep == CliPrepare \/ CliReads
CliNext == CliStep \/ CliEvent \/ CliCloses
=============================================================================
