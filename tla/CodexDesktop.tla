----------------------------- MODULE CodexDesktop -----------------------------
(***************************************************************************)
(* CodexDesktopAdapter (codex/desktop/adapter.ts): a conversation with      *)
(* `codex app-server` in JSON-RPC.  Messages are handled as they come, the   *)
(* coroutine that awaits the replies goes on later: several messages of one  *)
(* chunk may be handled in between.                                          *)
(***************************************************************************)
EXTENDS AgentCall

Desktop == agent = "codex-desktop"

\* What the coroutine awaits: initialize and config/read, thread/start or /resume,
\* turn/start, turn/completed.
Point == {"setup", "thread", "turn", "completion"}

Message == [thread : Session \cup {Foreign}, turn : {"own", Foreign}]
ASSUME MessageAssumption == None \notin Message \cup {"own"}

\* reply is what the pending request was answered with; message the last
\* agentMessage, completion what the completion promise was first settled with (ok:
\* it is of the turn of this request, whose status is completed).
Completion == [thread : Session \cup {Foreign}, ok : BOOLEAN]
Rpc == [point : Point, pending : BOOLEAN,
        reply : Session \cup {None, Foreign, Refused},
        turn : {"own", None}, message : Message \cup {None},
        completion : Completion \cup {None, Refused}]

NoRpc == [point |-> "setup", pending |-> FALSE, reply |-> None, turn |-> None,
          message |-> None, completion |-> None]

-----------------------------------------------------------------------------
(* Before the process *)

\* Faulty: a stop before the process is agreed to and forgotten.
ForgetStop == FALSE

StopRemembered == call.requested # None

\* run() up to initialize.
DesktopPrepare ==
    /\ Desktop /\ call.stage = "prepare"
    /\ \/ /\ StopRemembered
          /\ call' = Settled(call.requested, call.expected, None)
          /\ UNCHANGED <<process, rpc>>
       \/ /\ ~StopRemembered
          /\ call' = Settled("FAILED", call.expected, None)
          /\ UNCHANGED <<process, rpc>>
       \/ /\ ~StopRemembered /\ Child < Processes /\ Spawn
          /\ call' = [call EXCEPT !.stage = "running"]
          /\ rpc' = [NoRpc EXCEPT !.pending = TRUE]
    /\ UNCHANGED <<agent, output>>

-----------------------------------------------------------------------------
(* Messages of the app-server *)

Heard == Desktop /\ call.stage \in {"running", "finishing"}

\* The thread of this request: the one to be resumed, or the one that is new.
OwnThread == IF call.expected = None THEN Child ELSE call.expected
Threads   == {OwnThread, Foreign}

Receives(r) == Heard /\ ChildOpen /\ rpc' = r /\ UNCHANGED <<agent, call, process, output>>

\* abortProtocol: whoever waits is refused; a completion that came stays.
Aborted ==
    [rpc EXCEPT !.pending    = FALSE,
                !.reply      = IF rpc.pending THEN Refused ELSE @,
                !.completion = IF @ = None THEN Refused ELSE @]

\* A response; a thread without id, or an error, is a refusal of this request only.
Response ==
    /\ rpc.pending
    /\ \E reply \in {OwnThread, Refused} \cup (IF rpc.point = "thread" /\ call.expected # None THEN {Foreign} ELSE {}) :
         Receives([rpc EXCEPT !.pending = FALSE, !.reply = reply])

\* item/completed of an agentMessage.
AgentMessage ==
    \E m \in [thread : Threads, turn : {"own", Foreign}] :
      Receives(IF \/ call.session # None /\ m.thread # call.session
                  \/ rpc.turn # None /\ m.turn # rpc.turn
                 THEN Aborted ELSE [rpc EXCEPT !.message = m])

TurnCompleted ==
    \E c \in [thread : Threads, ok : BOOLEAN] :
      Receives([rpc EXCEPT !.completion = IF @ = None THEN c ELSE @])

\* An error, a request of the server, an unknown id, or no message at all.
Trouble == Receives(Aborted)

\* close; what is complete is not disturbed.
DesktopCloses ==
    /\ Heard /\ ChildOpen
    /\ process' = Exit(Child) /\ rpc' = Aborted
    /\ UNCHANGED <<agent, call, output>>

-----------------------------------------------------------------------------
(* The coroutine *)

\* Faulty: the server is trusted to end with its input.
EndInputOnly == UNCHANGED process

\* finish() with "graceful": the end of its input, and SIGTERM only after a while.
ShutDownGracefully ==
    process' = IF ChildOpen THEN [process EXCEPT ![Child].timer = "TERM"] ELSE process

Fails ==
    /\ call' = Settled("FAILED", call.session, None)
    /\ Terminate /\ rpc' = NoRpc

\* requestRpc; a closed stdin fails it.
Asks(point, next) ==
    IF ChildOpen
      THEN /\ rpc' = [rpc EXCEPT !.point = point, !.pending = TRUE, !.reply = None]
           /\ call' = next /\ UNCHANGED process
      ELSE Fails

ThreadOpened ==
    IF rpc.reply # OwnThread
      THEN Fails
      ELSE Asks("turn", [call EXCEPT !.session = rpc.reply])

\* Faulty: what came before the turn was known is taken to be of it.
EarlyMessageTrusted == TRUE

\* The messages that came before the turn was known are looked at now.
EarlyMessageFits ==
    rpc.message # None => rpc.message.thread = call.session /\ rpc.message.turn = "own"

TurnStarted ==
    IF EarlyMessageFits
      THEN /\ rpc' = [rpc EXCEPT !.point = "completion", !.reply = None, !.turn = "own"]
           /\ UNCHANGED <<call, process>>
      ELSE Fails

Replied ==
    /\ rpc.reply # None
    /\ IF rpc.reply = Refused THEN Fails
       ELSE \/ rpc.point = "setup"  /\ Asks("thread", call)
            \/ rpc.point = "thread" /\ ThreadOpened
            \/ rpc.point = "turn"   /\ TurnStarted

CompletionFits ==
    /\ rpc.completion # Refused
    /\ rpc.completion.thread = call.session /\ rpc.completion.ok
    /\ rpc.message # None

Completed ==
    /\ rpc.point = "completion" /\ rpc.completion # None
    /\ IF CompletionFits
         THEN call' = [call EXCEPT !.stage = "finishing"] /\ UNCHANGED <<rpc, process>>
         ELSE Fails

Proceed ==
    /\ Desktop /\ call.stage = "running"
    /\ Replied \/ Completed
    /\ UNCHANGED <<agent, output>>

Author == IF rpc.message.thread = call.session /\ rpc.message.turn = "own"
            THEN Child ELSE Foreign

\* The answer was written to outputPath; it may be no JSON.
DesktopWrites ==
    /\ Desktop /\ call.stage = "finishing"
    /\ \/ Fails
       \/ /\ call' = Settled("COMPLETED", call.session, Author)
          /\ ShutDownGracefully /\ rpc' = NoRpc
    /\ UNCHANGED <<agent, output>>

-----------------------------------------------------------------------------

\* stop(): remembered before the process runs, else the outcome; a turn that runs is
\* interrupted first.
DesktopStoppable == Desktop /\ Active /\ (call.stage = "prepare" => call.requested = None)

DesktopStop(kind) ==
    /\ IF call.stage = "prepare"
         THEN call' = [call EXCEPT !.requested = kind] /\ UNCHANGED <<process, rpc>>
         ELSE /\ call' = Settled(kind, call.session, None) /\ rpc' = NoRpc
              /\ IF call.session # None /\ rpc.turn # None
                   THEN ShutDownGracefully ELSE Terminate
    /\ UNCHANGED <<agent, output>>

DesktopStep == DesktopPrepare \/ Proceed \/ DesktopWrites
DesktopNext == DesktopStep \/ Response \/ AgentMessage \/ TurnCompleted \/ Trouble
               \/ DesktopCloses
=============================================================================
