------------------------------ MODULE ClaudeCode ------------------------------
(* ClaudeCodeAdapter (claude/code-cli/adapter.ts): `claude -p` prints one result *)
(* and ends.  The request is settled when the process is gone.                    *)
EXTENDS AgentCall

Claude == agent = "claude-code"

\* Faulty: an answer that came in time counts although a stop was agreed to.
OrAnswered(next) == next

\* What stop() has asked for comes before every other outcome.
OrInterrupted(next) ==
    IF call.requested = None THEN next
                             ELSE Settled(call.requested, call.expected, None)

\* run() up to the process.
ClaudePrepare ==
    /\ Claude /\ call.stage = "prepare"
    /\ \/ /\ call' = OrInterrupted(Settled("FAILED", call.expected, None))
          /\ UNCHANGED process
       \/ /\ call.requested = None /\ Child < Processes /\ Spawn
          /\ call' = [call EXCEPT !.stage = "running"]
    /\ UNCHANGED <<agent, rpc, output>>

\* close: no result, one of another session, a failure, or a success whose
\* structured output is written to a file.
ClaudeCloses ==
    /\ Claude /\ call.stage = "running" /\ ChildOpen
    /\ process' = Exit(Child)
    /\ LET own == IF call.expected = None THEN Child ELSE call.expected IN
       \/ \E s \in {call.expected, own} : call' = OrInterrupted(Settled("FAILED", s, None))
       \/ call' = OrInterrupted([call EXCEPT !.stage = "finishing", !.session = own])
    /\ UNCHANGED <<agent, rpc, output>>

ClaudeWrites ==
    /\ Claude /\ call.stage = "finishing"
    /\ \E answer \in {Settled("COMPLETED", call.session, Child),
                      Settled("FAILED", call.session, None)} :
         call' = OrInterrupted(answer)
    /\ UNCHANGED <<agent, rpc, process, output>>

ClaudeStoppable == Claude /\ Active /\ call.requested = None

ClaudeStop(kind) ==
    /\ call' = [call EXCEPT !.requested = kind]
    /\ IF call.stage = "running" THEN Terminate ELSE UNCHANGED process
    /\ UNCHANGED <<agent, rpc, output>>

ClaudeStep == ClaudePrepare \/ ClaudeWrites
ClaudeNext == ClaudeStep \/ ClaudeCloses
=============================================================================
