-------------------------- MODULE ReviewAgentsProofs --------------------------
(***************************************************************************)
(* For any number of processes, attempts, retries and daemons: no adapter   *)
(* leaves a reviewer behind or takes an answer that is not its own, each of *)
(* them implements AgentContract, and the work of a review is finite.       *)
(***************************************************************************)
EXTENDS ReviewAgents, SequenceTheorems, TLAPS

Running == call.stage \in {"running", "finishing"}

\* The request and its process.  In "finishing" the process of two adapters is gone;
\* a stop that is yet to be reported has been passed on to the process.
CallFits ==
    /\ call.stage = "idle" => call.expected = None
    /\ Active /\ call.expected # None => call.session \in {call.expected, None}
    /\ Active /\ call.requested # None => Claude \/ (Desktop /\ call.stage = "prepare")
    /\ Running => process # <<>>
    /\ call.stage = "finishing" => call.session # None
    /\ call.stage = "finishing" /\ ~Desktop => ~process[Child].owned
    /\ Claude /\ call.requested # None /\ call.stage = "running" =>
         (process[Child].owned => Leaving(Child))

MessageFits == rpc.message.thread = call.session /\ rpc.message.turn = "own"

\* From the turn on, the message that is kept is of the thread and the turn.
ConversationFits ==
    Desktop /\ Running =>
      /\ rpc.turn = "own" <=> rpc.point = "completion"
      /\ rpc.point \in {"turn", "completion"} => call.session # None
      /\ rpc.point = "completion" /\ rpc.message # None => MessageFits
      /\ call.stage = "finishing" => rpc.point = "completion" /\ rpc.message # None

\* A process that no daemon owns was left by one that ended; `codex exec` is sent
\* SIGTERM as soon as a timer is set for it.
ProcessesFit ==
    \A p \in DOMAIN process :
      /\ process[p].open /\ ~process[p].owned => strays
      /\ Cli /\ process[p].timer # "none" => process[p].signal # "none"

\* So nobody but the process of the request writes its last message.
OutputFits == Cli /\ Running => strays \/ output \in {None, Child}

AnswerFits ==
    call.stage = "settled" /\ call.outcome.kind = "COMPLETED" =>
      /\ process # <<>> /\ call.outcome.session # None /\ call.outcome.text \in Own
      /\ strays \/ call.outcome.text = Child

RunnerFits ==
    /\ bound # None => runner.session = bound
    /\ runner.point = "call" => runner.attempt <= MaxAttempts

AllLeaving == \A p \in DOMAIN process : process[p].owned => Leaving(p)

\* Once the agent was asked to stop, the request can come to no other process.
RevokedFits ==
    (revoking = "asked" \/ phase = "canceled") /\ ~missed =>
      /\ AllLeaving
      /\ Active => /\ ~Cli /\ call.requested # None
                   /\ Desktop => call.stage = "prepare"

AgentInv ==
    /\ AgentTypeOK /\ rpc \in Rpc
    /\ CallFits /\ ConversationFits /\ ProcessesFit /\ OutputFits /\ AnswerFits
    /\ NoReviewerLeft /\ RevokedFits

-----------------------------------------------------------------------------
(* The processes *)

\* No process becomes one that it was not; those that were asked to end still are.
Lessens ==
    /\ process' \in Seq(Process) /\ Len(process') = Len(process)
    /\ \A p \in DOMAIN process :
         /\ process'[p].owned => process[p].owned
         /\ process'[p].owned /\ Leaving(p) => Leaving(p)'
         /\ process'[p].open /\ ~process'[p].owned => process[p].open /\ ~process[p].owned
         /\ Cli /\ (process[p].timer # "none" => process[p].signal # "none") =>
              (process'[p].timer # "none" => process'[p].signal # "none")

ChildLeaves == process # <<>> => (process'[Child].owned => Leaving(Child)')

LEMMA SameLessens ==
    ASSUME AgentTypeOK, process' = process
    PROVE  Lessens
BY DEF Lessens, Leaving, AgentTypeOK

LEMMA OneProcess ==
    ASSUME AgentTypeOK, NEW p \in DOMAIN process, NEW q \in Process,
           process' = [process EXCEPT ![p] = q],
           q.owned => process[p].owned,
           q.owned /\ Leaving(p) => q.signal # "none" \/ q.timer # "none",
           q.open /\ ~q.owned => process[p].open /\ ~process[p].owned,
           Cli /\ (process[p].timer # "none" => process[p].signal # "none") =>
             (q.timer # "none" => q.signal # "none")
    PROVE  Lessens /\ process'[p] = q
<1>1. process \in Seq(Process) BY DEF AgentTypeOK
<1>2. process' \in Seq(Process) /\ Len(process') = Len(process) /\ DOMAIN process = 1 .. Len(process)
  BY <1>1
<1>3. process'[p] = q /\ \A r \in DOMAIN process : r # p => process'[r] = process[r]
  BY <1>1
<1>4. ASSUME NEW r \in DOMAIN process
      PROVE  /\ process'[r].owned => process[r].owned
             /\ process'[r].owned /\ Leaving(r) => Leaving(r)'
             /\ process'[r].open /\ ~process'[r].owned => process[r].open /\ ~process[r].owned
             /\ Cli /\ (process[r].timer # "none" => process[r].signal # "none") =>
                  (process'[r].timer # "none" => process'[r].signal # "none")
  <2>1. CASE r = p BY <1>3, <2>1 DEF Leaving
  <2>2. CASE r # p
    <3>1. process'[r] = process[r] BY <1>3, <2>2
    <3> QED BY <3>1 DEF Leaving
  <2> QED BY <2>1, <2>2
<1> QED BY <1>2, <1>3, <1>4 DEF Lessens

LEMMA ProcessFields ==
    ASSUME AgentTypeOK, NEW p \in DOMAIN process
    PROVE  /\ process[p] \in Process
           /\ process[p].owned \in BOOLEAN /\ process[p].open \in BOOLEAN
           /\ process[p].signal \in {"none", "TERM", "KILL"}
           /\ process[p].timer \in {"none", "TERM", "KILL"}
<1>1. process \in Seq(Process) BY DEF AgentTypeOK
<1>2. process[p] \in Process BY <1>1
<1> QED BY <1>2 DEF Process

LEMMA ChildInDomain ==
    ASSUME AgentTypeOK
    PROVE  /\ process # <<>> => Child \in DOMAIN process /\ Child \in Own /\ Child # None
           /\ Child \in Nat /\ DOMAIN process = 1 .. Child
BY CallAssumption DEF AgentTypeOK, Child, Own

LEMMA ExitLessens ==
    ASSUME AgentTypeOK, NEW p \in DOMAIN process, process' = Exit(p)
    PROVE  Lessens /\ ~process'[p].owned
<1>1. Gone \in Process BY DEF Gone, Process
<1>2. Gone.owned = FALSE /\ Gone.open = FALSE /\ Gone.timer = "none" BY DEF Gone
<1> QED BY <1>1, <1>2, OneProcess DEF Exit

LEMMA TerminateLessens ==
    ASSUME AgentTypeOK, Terminate
    PROVE  Lessens /\ ChildLeaves
<1>1. CASE ChildOpen
  <2> DEFINE q == [process[Child] EXCEPT !.signal = "TERM", !.timer = "KILL"]
  <2>1. Child \in DOMAIN process BY <1>1, ChildInDomain DEF ChildOpen
  <2>2. q \in Process /\ q.owned = process[Child].owned /\ q.open = process[Child].open
        /\ q.signal = "TERM" /\ q.timer = "KILL"
    BY <2>1, ProcessFields DEF Process
  <2>3. process' = [process EXCEPT ![Child] = q] BY <1>1, <2>1 DEF Terminate
  <2> HIDE DEF q
  <2>4. Lessens /\ process'[Child] = q BY <2>1, <2>2, <2>3, OneProcess
  <2> QED BY <2>2, <2>4, ChildInDomain DEF ChildLeaves, Leaving, Lessens, Child
<1>2. CASE ~ChildOpen
  <2>1. process' = process BY <1>2 DEF Terminate
  <2> QED BY <1>2, <2>1, SameLessens DEF ChildLeaves, ChildOpen
<1> QED BY <1>1, <1>2

LEMMA ShutDownLessens ==
    ASSUME AgentTypeOK, ShutDownGracefully, Desktop
    PROVE  Lessens /\ ChildLeaves
<1>1. CASE ChildOpen
  <2> DEFINE q == [process[Child] EXCEPT !.timer = "TERM"]
  <2>1. Child \in DOMAIN process BY <1>1, ChildInDomain DEF ChildOpen
  <2>2. q \in Process /\ q.owned = process[Child].owned /\ q.open = process[Child].open
        /\ q.timer = "TERM"
    BY <2>1, ProcessFields DEF Process
  <2>3. process' = [process EXCEPT ![Child] = q] BY <1>1, <2>1 DEF ShutDownGracefully
  <2> HIDE DEF q
  <2>4. ~Cli BY DEF Cli, Desktop
  <2>5. Lessens /\ process'[Child] = q BY <2>1, <2>2, <2>3, <2>4, OneProcess
  <2> QED BY <2>2, <2>5, ChildInDomain DEF ChildLeaves, Leaving, Lessens, Child
<1>2. CASE ~ChildOpen
  <2>1. process' = process BY <1>2 DEF ShutDownGracefully
  <2> QED BY <1>2, <2>1, SameLessens DEF ChildLeaves, ChildOpen
<1> QED BY <1>1, <1>2

LEMMA TimerLessens ==
    ASSUME AgentTypeOK, NEW p \in DOMAIN process, TimerFires(p)
    PROVE  Lessens
<1> DEFINE q == [process[p] EXCEPT !.signal = process[p].timer,
                                  !.timer = IF process[p].timer = "TERM" THEN "KILL" ELSE "none"]
<1>1. process[p] \in Process /\ process[p].timer # "none" BY ProcessFields DEF TimerFires
<1>2. q \in Process /\ q.owned = process[p].owned /\ q.open = process[p].open
      /\ q.signal = process[p].timer
  BY <1>1 DEF Process
<1>3. process' = [process EXCEPT ![p] = q] BY DEF TimerFires
<1> HIDE DEF q
<1> QED BY <1>1, <1>2, <1>3, OneProcess

LEMMA SpawnAppends ==
    ASSUME AgentTypeOK, Spawn, Child < Processes
    PROVE  /\ process' \in Seq(Process) /\ Len(process') = Child + 1
           /\ Len(process') <= Processes /\ process' # <<>>
           /\ \A p \in DOMAIN process : process'[p] = process[p]
           /\ DOMAIN process' = DOMAIN process \cup {Child + 1}
           /\ process'[Child + 1] = [open |-> TRUE, owned |-> TRUE,
                                     signal |-> "none", timer |-> "none"]
<1> DEFINE q == [open |-> TRUE, owned |-> TRUE, signal |-> "none", timer |-> "none"]
<1>1. q \in Process BY DEF Process
<1>2. process' = Append(process, q) /\ process \in Seq(Process) BY DEF Spawn, AgentTypeOK
<1> HIDE DEF q
<1>3. /\ process' \in Seq(Process) /\ Len(process') = Len(process) + 1
      /\ process'[Len(process) + 1] = q
      /\ \A p \in 1 .. Len(process) : process'[p] = process[p]
  BY <1>1, <1>2, AppendProperties
<1>4. DOMAIN process' = 1 .. Len(process) + 1 /\ DOMAIN process = 1 .. Len(process)
      /\ Len(process) \in Nat
  BY <1>2, <1>3
<1> QED BY <1>3, <1>4, CallAssumption DEF Child, q

-----------------------------------------------------------------------------
(* What one step makes of the request *)

LEMMA CallFields ==
    ASSUME AgentTypeOK
    PROVE  /\ call \in Call
           /\ call.stage \in {"idle", "prepare", "running", "finishing", "settled"}
           /\ call.expected \in Session \cup {None} /\ call.session \in Session \cup {None}
           /\ call.requested \in Interrupted \cup {None}
           /\ call.stage = "settled" <=> call.outcome # None
           /\ call.outcome \in Outcome \cup {None}
BY DEF AgentTypeOK, Call

LEMMA SettledFields ==
    ASSUME AgentTypeOK, NEW kind \in Interrupted \cup {"COMPLETED", "FAILED"},
           NEW session \in Session \cup {None}, NEW text \in Own \cup {None, Foreign}
    PROVE  LET c == Settled(kind, session, text) IN
           /\ c \in Call /\ c.stage = "settled" /\ c.expected = call.expected
           /\ c.requested = None /\ c.outcome # None
           /\ c.outcome = [kind |-> kind, session |-> session, text |-> text]
<1> DEFINE o == [kind |-> kind, session |-> session, text |-> text]
<1>1. o \in Outcome BY DEF Outcome
<1>2. o # None BY <1>1, OutcomeAssumption
<1> HIDE DEF o
<1>3. call.expected \in Session \cup {None} BY CallFields
<1>4. Settled(kind, session, text) =
        [NoCall EXCEPT !.stage = "settled", !.expected = call.expected, !.outcome = o]
  BY DEF Settled, o
<1> QED BY <1>1, <1>2, <1>3, <1>4 DEF NoCall, Call, o

LEMMA SameChild ==
    ASSUME AgentTypeOK, Lessens
    PROVE  /\ Child' = Child /\ DOMAIN process' = DOMAIN process
           /\ process' # <<>> <=> process # <<>>
           /\ Len(process') <= Processes
<1>1. process \in Seq(Process) /\ process' \in Seq(Process) /\ Len(process') = Len(process)
  BY DEF AgentTypeOK, Lessens
<1> QED BY <1>1 DEF Child, AgentTypeOK

\* The process of the request is the only one that was not asked to end.
LEMMA EveryoneLeaves ==
    ASSUME AgentInv, Lessens,
           Running /\ process # <<>> => (process'[Child].owned => Leaving(Child)')
    PROVE  AllLeaving'
<1>1. ASSUME NEW p \in DOMAIN process, process'[p].owned PROVE Leaving(p)'
  <2>1. CASE Leaving(p) BY <1>1, <2>1 DEF Lessens
  <2>2. CASE ~Leaving(p)
    <3>1. process[p].owned BY <1>1 DEF Lessens
    <3>2. p = Child /\ Running BY <2>2, <3>1 DEF AgentInv, NoReviewerLeft, Running
    <3>3. process # <<>> BY <3>2 DEF AgentInv, CallFits
    <3>4. Child' = Child BY SameChild DEF AgentInv
    <3> QED BY <1>1, <3>2, <3>3, <3>4 DEF Leaving
  <2> QED BY <2>1, <2>2
<1>2. DOMAIN process' = DOMAIN process BY DEF Lessens, AgentInv, AgentTypeOK
<1> QED BY <1>1, <1>2 DEF AllLeaving

LEMMA LessensFits ==
    ASSUME AgentInv, Lessens, agent' = agent, strays' = strays
    PROVE  ProcessesFit'
<1>1. DOMAIN process' = DOMAIN process BY SameChild DEF AgentInv
<1>2. Cli' = Cli BY DEF Cli
<1>3. ASSUME NEW p \in DOMAIN process
      PROVE  /\ process'[p].open /\ ~process'[p].owned => strays'
             /\ Cli' /\ process'[p].timer # "none" => process'[p].signal # "none"
  BY <1>2, <1>3 DEF Lessens, AgentInv, ProcessesFit
<1> QED BY <1>1, <1>3 DEF ProcessesFit

\* A step of the contract or none.
Allowed  == Contract!Next \/ UNCHANGED Contract!vars
StepFits == AgentInv' /\ Allowed

\* As long as the contract sees the same request, it sees no step.
LEMMA SameRequest ==
    ASSUME AgentInv, Active \/ call' = call, Active' = Active, call'.expected = call.expected,
           call'.requested = call.requested, call'.outcome = call.outcome
    PROVE  Allowed
<1>1. call'.stage # "idle" <=> call.stage # "idle" BY DEF Active
<1> QED BY <1>1 DEF Allowed, Contract!vars

\* The request is settled.
LEMMA SettleKeeps ==
    ASSUME AgentInv, Active, Lessens, agent' = agent, strays' = strays, rpc' \in Rpc,
           output' \in Own \cup {None},
           Running => ChildLeaves,
           NEW kind \in Interrupted \cup {"COMPLETED", "FAILED"},
           NEW session \in Session \cup {None}, NEW text \in Own \cup {None, Foreign},
           call' = Settled(kind, session, text),
           \/ kind \in Interrupted \/ call.requested = None
           \/ Cli \/ (Desktop /\ Running),
           call.expected # None => session \in {call.expected, call.session},
           kind = "COMPLETED" => /\ process # <<>> /\ session # None /\ text \in Own
                                 /\ strays \/ text = Child
    PROVE  StepFits
<1>0. AgentTypeOK BY DEF AgentInv
<1>1. /\ call' \in Call /\ call'.stage = "settled" /\ call'.expected = call.expected
      /\ call'.requested = None /\ call'.outcome # None
      /\ call'.outcome = [kind |-> kind, session |-> session, text |-> text]
  BY <1>0, SettledFields
<1> HIDE DEF Settled
<1>2. AllLeaving' BY EveryoneLeaves DEF ChildLeaves
<1>3. AgentTypeOK' BY <1>0, <1>1, SameChild DEF AgentTypeOK, Lessens
<1>4. CallFits' /\ ConversationFits' /\ OutputFits'
  BY <1>1 DEF CallFits, ConversationFits, OutputFits, Running, Active
<1>5. ProcessesFit' BY LessensFits
<1>6. AnswerFits' BY <1>0, <1>1, SameChild DEF AnswerFits
<1>7. NoReviewerLeft' BY <1>2 DEF NoReviewerLeft, AllLeaving
<1>8. RevokedFits' BY <1>1, <1>2 DEF RevokedFits, Active
<1>9. Contract!Settle
  <2> DEFINE o == [kind |-> kind, session |-> session]
  <2>1. o \in Contract!Outcome
    BY DEF Contract!Outcome, Contract!Kind, Interrupted
  <2>2. call.outcome = None /\ call.stage # "idle" /\ call'.stage # "idle"
    BY <1>0, <1>1, CallFields DEF Active
  <2>3. call.expected # None => session \in {call.expected, None}
    BY DEF AgentInv, CallFits
  <2>4. call.requested = None \/ kind \in Interrupted
    BY DEF AgentInv, CallFits, Running, Cli, Claude, Desktop
  <2>5. ~Active' BY <1>1 DEF Active
  <2>6. (IF call'.outcome = None THEN None
         ELSE [kind |-> call'.outcome.kind, session |-> call'.outcome.session]) = o
    BY <1>1
  <2> QED BY <1>1, <2>1, <2>2, <2>3, <2>4, <2>5, <2>6
      DEF Contract!Settle, Contract!Interrupted, Interrupted
<1>10. AgentInv' BY <1>3, <1>4, <1>5, <1>6, <1>7, <1>8 DEF AgentInv
<1> QED BY <1>9, <1>10 DEF StepFits, Allowed, Contract!Next

\* A stop is agreed to and remembered.
LEMMA AgreeKeeps ==
    ASSUME AgentInv, Lessens, agent' = agent, strays' = strays, rpc' = rpc, output' = output,
           NEW kind \in Interrupted, call.requested = None,
           (Claude /\ Active) \/ (Desktop /\ call.stage = "prepare"),
           call' = [call EXCEPT !.requested = kind],
           call.stage = "running" => ChildLeaves
    PROVE  StepFits
<1>0. AgentTypeOK BY DEF AgentInv
<1>1. /\ call' \in Call /\ call'.stage = call.stage /\ call'.expected = call.expected
      /\ call'.session = call.session /\ call'.outcome = call.outcome
      /\ call'.requested = kind /\ kind # None
  BY <1>0, CallFields, OutcomeAssumption DEF Call
<1>2. Running => Claude /\ (call.stage = "finishing" => process # <<>> /\ ~process[Child].owned)
  BY DEF AgentInv, CallFits, Running, Claude, Desktop, Active
<1>3. Running => ChildLeaves
  <2>1. CASE call.stage = "finishing"
    <3>1. process # <<>> /\ ~process[Child].owned BY <1>2, <2>1 DEF Running
    <3>2. ~process'[Child].owned BY <1>0, <3>1, ChildInDomain DEF Lessens
    <3> QED BY <3>2 DEF ChildLeaves
  <2> QED BY <2>1 DEF Running
<1>4. AllLeaving' BY <1>3, EveryoneLeaves DEF ChildLeaves
<1>5. AgentTypeOK' BY <1>0, <1>1, SameChild DEF AgentTypeOK, Lessens
<1>6. CallFits'
  <2>1. Active' <=> Active BY <1>1 DEF Active
  <2>2. Claude' = Claude /\ Desktop' = Desktop BY DEF Claude, Desktop
  <2>3. Running' <=> Running BY <1>1 DEF Running
  <2>4. call'.stage = "finishing" /\ ~Desktop' => ~process'[Child'].owned
    BY <1>0, <1>1, <1>2, <2>2, SameChild, ChildInDomain DEF Lessens, Running
  <2>5. Running => process # <<>> BY DEF AgentInv, CallFits
  <2>6. Running' => process' # <<>> BY <1>0, <2>3, <2>5, SameChild
  <2>7. call'.stage = "running" => (process'[Child'].owned => Leaving(Child)')
    BY <1>0, <1>1, <1>3, <2>5, SameChild DEF Running, ChildLeaves
  <2> QED BY <1>1, <2>1, <2>2, <2>4, <2>6, <2>7 DEF AgentInv, CallFits
<1>7. ConversationFits' /\ OutputFits'
  BY <1>0, <1>1, <1>2, SameChild
  DEF AgentInv, ConversationFits, OutputFits, Running, Claude, Desktop, Cli
<1>8. ProcessesFit' BY LessensFits
<1>9. AnswerFits'
  <2>1. call'.stage # "settled" BY <1>1 DEF Active
  <2> QED BY <2>1 DEF AnswerFits
<1>10. NoReviewerLeft' BY <1>4 DEF NoReviewerLeft, AllLeaving
<1>11. RevokedFits' BY <1>1, <1>4 DEF RevokedFits, Active, Claude, Desktop, Cli
<1>12. Contract!AgreeToStop
  <2>1. Active /\ Active' BY <1>1 DEF Active
  <2>2. call.outcome = None BY <1>0, <2>1, CallFields DEF Active
  <2> QED BY <1>1, <2>1, <2>2 DEF Contract!AgreeToStop, Active
<1>13. AgentInv' BY <1>5, <1>6, <1>7, <1>8, <1>9, <1>10, <1>11 DEF AgentInv
<1> QED BY <1>12, <1>13 DEF StepFits, Allowed, Contract!Next

\* The process is started.
LEMMA SpawnKeeps ==
    ASSUME AgentInv, Spawn, Child < Processes, call.stage = "prepare",
           call.requested = None, call' = [call EXCEPT !.stage = "running"],
           UNCHANGED <<agent, strays, phase, revoking, missed>>,
           rpc' \in Rpc, Desktop => rpc'.point = "setup" /\ rpc'.turn = None,
           output' \in Own \cup {None}, Cli => output' = None
    PROVE  StepFits
<1>0. AgentTypeOK BY DEF AgentInv
<1>1. /\ call' \in Call /\ call'.stage = "running" /\ call'.expected = call.expected
      /\ call'.session = call.session /\ call'.outcome = call.outcome
      /\ call'.requested = None
  BY <1>0, CallFields DEF Call
<1>2. /\ process' \in Seq(Process) /\ Len(process') = Child + 1
      /\ Len(process') <= Processes /\ process' # <<>>
      /\ \A p \in DOMAIN process : process'[p] = process[p]
      /\ DOMAIN process' = DOMAIN process \cup {Child + 1}
      /\ process'[Child + 1] = [open |-> TRUE, owned |-> TRUE,
                                signal |-> "none", timer |-> "none"]
  BY <1>0, SpawnAppends
<1>3. Child' = Child + 1 BY <1>2 DEF Child
<1>4. AllLeaving
  <2>1. ~Running BY DEF Running
  <2> QED BY <2>1 DEF AgentInv, NoReviewerLeft, AllLeaving, Running
<1>5. AgentTypeOK' BY <1>0, <1>1, <1>2 DEF AgentTypeOK
<1>6. CallFits'
  <2>1. Active BY DEF Active
  <2> QED BY <1>1, <1>2, <2>1 DEF AgentInv, CallFits
<1>7. ConversationFits'
  <2>1. "own" # None BY MessageAssumption
  <2> QED BY <1>1, <2>1 DEF ConversationFits, Desktop
<1>8. ProcessesFit'
  <2>1. ASSUME NEW p \in DOMAIN process'
        PROVE  /\ process'[p].open /\ ~process'[p].owned => strays'
               /\ Cli' /\ process'[p].timer # "none" => process'[p].signal # "none"
    <3>1. CASE p \in DOMAIN process BY <1>2, <3>1 DEF AgentInv, ProcessesFit, Cli
    <3>2. CASE p = Child + 1 BY <1>2, <3>2
    <3> QED BY <1>2, <3>1, <3>2
  <2> QED BY <2>1 DEF ProcessesFit
<1>9. OutputFits' BY DEF OutputFits, Cli
<1>10. AnswerFits' BY <1>1 DEF AnswerFits
<1>11. NoReviewerLeft'
  <2>1. ASSUME NEW p \in DOMAIN process', process'[p].owned, ~Leaving(p)' PROVE p = Child'
    <3>1. CASE p \in DOMAIN process BY <1>2, <1>4, <2>1, <3>1 DEF AllLeaving, Leaving
    <3> QED BY <1>2, <1>3, <3>1
  <2> QED BY <1>1, <2>1 DEF NoReviewerLeft
<1>12. RevokedFits'
  <2>1. ~((revoking = "asked" \/ phase = "canceled") /\ ~missed)
    BY DEF AgentInv, RevokedFits, Active
  <2> QED BY <2>1 DEF RevokedFits
<1>13. Allowed
  <2>1. Active /\ Active' BY <1>1 DEF Active
  <2> QED BY <1>1, <2>1, SameRequest
<1> QED BY <1>5, <1>6, <1>7, <1>8, <1>9, <1>10, <1>11, <1>12, <1>13 DEF AgentInv, StepFits

\* The request goes on with its process.
LEMMA RunKeeps ==
    ASSUME AgentInv, Lessens, Running,
           UNCHANGED <<agent, strays, phase, revoking, missed>>,
           call' \in Call, call'.stage \in {call.stage, "finishing"},
           call'.expected = call.expected, call'.requested = call.requested,
           call'.outcome = call.outcome,
           call.expected # None => call'.session \in {call.expected, None},
           call'.stage = "finishing" => /\ call'.session # None
                                        /\ Desktop \/ ~process'[Child].owned,
           rpc' \in Rpc, ConversationFits',
           output' \in Own \cup {None}, Cli /\ ~strays => output' \in {None, Child}
    PROVE  StepFits
<1>0. AgentTypeOK BY DEF AgentInv
<1>1. process # <<>> /\ Child \in DOMAIN process /\ Child' = Child /\ process' # <<>>
      /\ DOMAIN process' = DOMAIN process
  BY <1>0, SameChild, ChildInDomain DEF AgentInv, CallFits
<1>2. Running' /\ Active /\ Active' BY DEF Running, Active
<1>3. AgentTypeOK' BY <1>0, <1>2, SameChild DEF AgentTypeOK, Lessens, Running
<1>4. CallFits'
  <2>1. Claude' /\ call'.requested # None /\ call'.stage = "running" =>
          (process'[Child'].owned => Leaving(Child)')
    <3> SUFFICES ASSUME Claude', call'.requested # None, call'.stage = "running",
                        process'[Child].owned
                 PROVE  Leaving(Child)'
      BY <1>1
    <3>1. call.stage = "running" /\ Claude BY DEF Running, Claude
    <3>2. process[Child].owned BY <1>1 DEF Lessens
    <3>3. Leaving(Child) BY <3>1, <3>2 DEF AgentInv, CallFits
    <3>4. Leaving(Child') = Leaving(Child) BY <1>1
    <3> QED BY <1>1, <3>3 DEF Lessens, Leaving
  <2>2. call'.requested # None => Claude'
    BY <1>2 DEF AgentInv, CallFits, Running, Claude, Desktop
  <2> QED BY <1>1, <1>2, <2>1, <2>2 DEF CallFits, Running, Desktop, Claude
<1>5. ProcessesFit' BY LessensFits
<1>6. OutputFits' BY <1>1 DEF OutputFits, Cli
<1>7. AnswerFits' BY <1>2 DEF AnswerFits, Active
<1>8. NoReviewerLeft'
  <2>1. ASSUME NEW p \in DOMAIN process, process'[p].owned, ~Leaving(p)' PROVE p = Child
    BY <2>1 DEF Lessens, AgentInv, NoReviewerLeft
  <2> QED BY <1>1, <1>2, <2>1 DEF NoReviewerLeft, Running
<1>9. RevokedFits'
  <2>1. AllLeaving => AllLeaving' BY <1>1 DEF AllLeaving, Lessens
  <2>2. Desktop => call.stage # "prepare" BY DEF Running
  <2> QED BY <1>2, <2>1, <2>2 DEF AgentInv, RevokedFits, Cli, Desktop
<1>10. Allowed BY <1>2, SameRequest
<1> QED BY <1>3, <1>4, <1>5, <1>6, <1>7, <1>8, <1>9, <1>10 DEF AgentInv, StepFits

\* Only processes change.
LEMMA ProcessKeeps ==
    ASSUME AgentInv, Lessens,
           UNCHANGED <<agent, call, rpc, output, strays, phase, revoking, missed>>
    PROVE  StepFits
<1>0. AgentTypeOK BY DEF AgentInv
<1>1. Child' = Child /\ DOMAIN process' = DOMAIN process /\ (process' # <<>> <=> process # <<>>)
  BY <1>0, SameChild
<1>2. AgentTypeOK' BY <1>0, SameChild DEF AgentTypeOK, Lessens
<1>3. Active' = Active /\ Running' = Running /\ Cli' = Cli /\ Claude' = Claude /\ Desktop' = Desktop
  BY DEF Active, Running, Cli, Claude, Desktop
<1>4. CallFits'
  <2>1. Running => process # <<>> /\ Child \in DOMAIN process
    BY <1>0, ChildInDomain DEF AgentInv, CallFits
  <2>2. Running => /\ process'[Child].owned => process[Child].owned
                   /\ process'[Child].owned /\ Leaving(Child) => Leaving(Child)'
    BY <1>1, <2>1 DEF Lessens, Leaving
  <2> QED BY <1>1, <1>3, <2>1, <2>2 DEF AgentInv, CallFits, Running
<1>5. ConversationFits' /\ OutputFits' /\ AnswerFits'
  BY <1>1, <1>3 DEF AgentInv, ConversationFits, OutputFits, AnswerFits, MessageFits
<1>6. ProcessesFit' BY LessensFits
<1>7. NoReviewerLeft' BY <1>1 DEF AgentInv, NoReviewerLeft, Lessens
<1>8. RevokedFits'
  <2>1. AllLeaving => AllLeaving' BY <1>1 DEF AllLeaving, Lessens
  <2> QED BY <1>3, <2>1 DEF AgentInv, RevokedFits
<1>9. Allowed BY <1>3, SameRequest
<1> QED BY <1>2, <1>4, <1>5, <1>6, <1>7, <1>8, <1>9 DEF AgentInv, StepFits

-----------------------------------------------------------------------------
(* The steps of each adapter *)

Quiet == UNCHANGED <<strays, phase, revoking, missed>>

LEMMA CliKeeps == AgentInv /\ CliNext /\ Quiet => StepFits
<1> SUFFICES ASSUME AgentInv, CliNext, Quiet PROVE StepFits OBVIOUS
<1>0. AgentTypeOK /\ rpc \in Rpc /\ output \in Own \cup {None} BY DEF AgentInv, AgentTypeOK
<1> USE DEF Quiet
<1>1. Cli /\ ~Desktop /\ ~Claude /\ Active
  BY DEF CliNext, CliStep, CliPrepare, CliReads, CliEvent, CliCloses, Listening, Cli, Desktop, Claude,
      Active
<1>2. CASE CliPrepare
  <2>1. call.stage = "prepare" /\ rpc' = rpc /\ agent' = agent /\ ~Running
    BY <1>2 DEF CliPrepare, Running
  <2>2. CASE call' = Settled("FAILED", call.expected, None) /\ output' \in {output, None}
             /\ UNCHANGED process
    <3>1. Lessens BY <1>0, <2>2, SameLessens
    <3>2. call.expected \in Session \cup {None} BY <1>0, CallFields
    <3> QED BY <1>0, <1>1, <2>1, <2>2, <3>1, <3>2, SettleKeeps
  <2>3. CASE Child < Processes /\ Spawn /\ call' = [call EXCEPT !.stage = "running"]
             /\ output' = None
    <3>1. call.requested = None BY <1>1, <2>1 DEF AgentInv, CallFits, Active
    <3> QED BY <1>0, <1>1, <2>1, <2>3, <3>1, SpawnKeeps
  <2> QED BY <1>2, <2>2, <2>3 DEF CliPrepare
<1>3. CASE CliEvent
  <2> DEFINE own == IF call.expected = None THEN Child ELSE call.expected
  <2>1. /\ call.stage = "running" /\ Running /\ process # <<>>
        /\ UNCHANGED <<agent, rpc, process, output>>
    BY <1>3 DEF CliEvent, Listening, ChildOpen, Running
  <2>2. own \in Session /\ (call.expected # None => own = call.expected)
    BY <1>0, <2>1, ChildInDomain, CallFields DEF Session
  <2>3. \/ call' = [call EXCEPT !.session = own]
        \/ call' = [call EXCEPT !.failed = TRUE]
        \/ call' = [call EXCEPT !.done = TRUE]
    BY <1>3 DEF CliEvent
  <2> HIDE DEF own
  <2>4. /\ call' \in Call /\ call'.stage = "running" /\ call'.expected = call.expected
        /\ call'.requested = call.requested /\ call'.outcome = call.outcome
        /\ call'.session \in {call.session, own}
    BY <1>0, <2>1, <2>2, <2>3, CallFields DEF Call
  <2>5. call.expected # None => call'.session \in {call.expected, None}
    BY <2>1, <2>2, <2>4 DEF AgentInv, CallFits, Active
  <2>6. ConversationFits' BY <1>1, <2>1 DEF ConversationFits, Desktop
  <2>7. Lessens BY <1>0, <2>1, SameLessens
  <2>8. Cli /\ ~strays => output' \in {None, Child} BY <2>1 DEF AgentInv, OutputFits
  <2> QED BY <1>0, <2>1, <2>4, <2>5, <2>6, <2>7, <2>8, RunKeeps
<1>4. CASE CliCloses
  <2>1. /\ call.stage = "running" /\ Running /\ Child \in DOMAIN process
        /\ process' = Exit(Child) /\ UNCHANGED <<agent, rpc, output>>
    BY <1>0, <1>4, ChildInDomain DEF CliCloses, Listening, ChildOpen, Running
  <2>2. Lessens /\ ~process'[Child].owned BY <1>0, <2>1, ExitLessens
  <2>3. CASE call' = Settled("FAILED", call.session, None)
    <3>1. ChildLeaves BY <2>2 DEF ChildLeaves
    <3>2. call.session \in Session \cup {None} BY <1>0, CallFields
    <3> QED BY <1>0, <1>1, <2>1, <2>2, <2>3, <3>1, <3>2, SettleKeeps
  <2>4. CASE call.session # None /\ call' = [call EXCEPT !.stage = "finishing"]
    <3>1. /\ call' \in Call /\ call'.stage = "finishing" /\ call'.expected = call.expected
          /\ call'.requested = call.requested /\ call'.outcome = call.outcome
          /\ call'.session = call.session
      BY <1>0, <2>4, CallFields DEF Call
    <3>2. call.expected # None => call'.session \in {call.expected, None}
      BY <2>1, <3>1 DEF AgentInv, CallFits, Active
    <3>3. ConversationFits' BY <1>1, <2>1 DEF ConversationFits, Desktop
    <3>4. Cli /\ ~strays => output' \in {None, Child} BY <2>1 DEF AgentInv, OutputFits
    <3> QED BY <1>0, <2>1, <2>2, <2>4, <3>1, <3>2, <3>3, <3>4, RunKeeps
  <2> QED BY <1>4, <2>3, <2>4 DEF CliCloses
<1>5. CASE CliReads
  <2>1. call.stage = "finishing" /\ Running /\ UNCHANGED <<agent, rpc, process, output>>
    BY <1>5 DEF CliReads, Running
  <2>2. /\ process # <<>> /\ call.session # None /\ Child \in DOMAIN process
        /\ ~process[Child].owned
    BY <1>0, <1>1, <2>1, ChildInDomain DEF AgentInv, CallFits
  <2>3. Lessens /\ ChildLeaves
    BY <1>0, <2>1, <2>2, SameLessens DEF ChildLeaves
  <2>4. call.session \in Session \cup {None} BY <1>0, CallFields
  <2>5. CASE call' = Settled("FAILED", call.session, None)
    BY <1>0, <1>1, <2>1, <2>3, <2>4, <2>5, SettleKeeps
  <2>6. CASE output # None /\ call' = Settled("COMPLETED", call.session, output)
    <3>1. strays \/ output = Child BY <1>1, <2>1, <2>6 DEF AgentInv, OutputFits
    <3>2. output \in Own BY <1>0, <2>6
    <3> QED BY <1>0, <1>1, <2>1, <2>2, <2>3, <2>4, <2>6, <3>1, <3>2, SettleKeeps
  <2> QED BY <1>5, <2>5, <2>6 DEF CliReads
<1> QED BY <1>2, <1>3, <1>4, <1>5 DEF CliNext, CliStep

\* A process that was left by this daemon has been sent SIGTERM.
LEMMA WritesKeeps ==
    ASSUME AgentInv, NEW p \in DOMAIN process, CliWrites(p), Quiet
    PROVE  StepFits
<1>0. AgentTypeOK BY DEF AgentInv
<1> USE DEF Quiet
<1>1. /\ Cli /\ process[p].open /\ process[p].signal = "none" /\ output' = p
      /\ UNCHANGED <<agent, call, rpc, process>>
  BY DEF CliWrites
<1>2. strays \/ p = Child
  <2>1. CASE process[p].owned
    <3>1. ~Leaving(p) BY <1>1 DEF Leaving, AgentInv, ProcessesFit
    <3> QED BY <2>1, <3>1 DEF AgentInv, NoReviewerLeft
  <2>2. CASE ~process[p].owned BY <1>1, <2>2 DEF AgentInv, ProcessesFit
  <2> QED BY <2>1, <2>2
<1>3. p \in Own BY <1>0, ChildInDomain, CallAssumption DEF AgentTypeOK, Own, Child
<1>4. AgentTypeOK' BY <1>0, <1>1, <1>3 DEF AgentTypeOK
<1>5. OutputFits' BY <1>1, <1>2 DEF OutputFits, Child
<1>6. AgentInv'
  BY <1>1, <1>4, <1>5
  DEF AgentInv, CallFits, ConversationFits, ProcessesFit, AnswerFits, NoReviewerLeft,
      RevokedFits, Active, Running, Cli, Claude, Desktop, Child, Leaving, AllLeaving, MessageFits
<1>7. Active' = Active BY <1>1 DEF Active
<1>8. Allowed BY <1>1, <1>7, SameRequest
<1> QED BY <1>6, <1>8 DEF StepFits

LEMMA ClaudeKeeps == AgentInv /\ ClaudeNext /\ Quiet => StepFits
<1> SUFFICES ASSUME AgentInv, ClaudeNext, Quiet PROVE StepFits OBVIOUS
<1>0. AgentTypeOK /\ rpc \in Rpc /\ output \in Own \cup {None} BY DEF AgentInv, AgentTypeOK
<1> USE DEF Quiet
<1>1. Claude /\ ~Desktop /\ ~Cli /\ Active /\ UNCHANGED <<agent, rpc, output>>
  BY DEF ClaudeNext, ClaudeStep, ClaudePrepare, ClaudeWrites, ClaudeCloses, Cli, Desktop, Claude,
      Active
<1>2. /\ call.expected \in Session \cup {None} /\ call.session \in Session \cup {None}
      /\ call.requested \in Interrupted \cup {None}
  BY <1>0, CallFields
<1>3. ASSUME Lessens, Running => ChildLeaves,
             call.requested # None => call' = Settled(call.requested, call.expected, None),
             NEW kind \in {"COMPLETED", "FAILED"}, NEW session \in Session \cup {None},
             NEW text \in Own \cup {None},
             call.requested = None => call' = Settled(kind, session, text),
             call.expected # None => session \in {call.expected, call.session},
             kind = "COMPLETED" => process # <<>> /\ session # None /\ text \in Own /\ text = Child
      PROVE  StepFits
  <2>1. CASE call.requested = None BY <1>0, <1>1, <1>3, <2>1, SettleKeeps
  <2>2. CASE call.requested # None
    <3>1. call.requested # "COMPLETED" /\ call.requested \in Interrupted
      BY <1>2, <2>2 DEF Interrupted
    <3> QED BY <1>0, <1>1, <1>2, <1>3, <2>2, <3>1, SettleKeeps
  <2> QED BY <2>1, <2>2
<1>4. CASE ClaudePrepare
  <2>1. call.stage = "prepare" /\ ~Running BY <1>4 DEF ClaudePrepare, Running
  <2>2. CASE call' = OrInterrupted(Settled("FAILED", call.expected, None)) /\ UNCHANGED process
    <3>1. Lessens BY <1>0, <2>2, SameLessens
    <3> QED BY <1>2, <1>3, <2>1, <2>2, <3>1 DEF OrInterrupted
  <2>3. CASE call.requested = None /\ Child < Processes /\ Spawn
             /\ call' = [call EXCEPT !.stage = "running"]
    BY <1>0, <1>1, <2>1, <2>3, SpawnKeeps
  <2> QED BY <1>4, <2>2, <2>3 DEF ClaudePrepare
<1>5. CASE ClaudeCloses
  <2> DEFINE own == IF call.expected = None THEN Child ELSE call.expected
  <2>1. call.stage = "running" /\ Running /\ process # <<>> /\ Child \in DOMAIN process
        /\ process' = Exit(Child)
    BY <1>0, <1>5, ChildInDomain DEF ClaudeCloses, ChildOpen, Running
  <2>2. Lessens /\ ~process'[Child].owned /\ ChildLeaves
    BY <1>0, <2>1, ExitLessens DEF ChildLeaves
  <2>3. own \in Session /\ own # None /\ (call.expected # None => own = call.expected)
    BY <1>0, <1>2, <2>1, ChildInDomain DEF Session
  <2>4. CASE \E s \in {call.expected, own} : call' = OrInterrupted(Settled("FAILED", s, None))
    <3>1. PICK s \in {call.expected, own} : call' = OrInterrupted(Settled("FAILED", s, None))
      BY <2>4
    <3>2. s \in Session \cup {None} BY <1>2, <2>3
    <3> QED BY <1>3, <2>2, <3>1, <3>2 DEF OrInterrupted
  <2>5. CASE call' = OrInterrupted([call EXCEPT !.stage = "finishing", !.session = own])
    <3>1. CASE call.requested # None BY <1>2, <1>3, <2>2, <2>5, <3>1 DEF OrInterrupted
    <3>2. CASE call.requested = None
      <4> HIDE DEF own
      <4>1. call' = [call EXCEPT !.stage = "finishing", !.session = own]
        BY <2>5, <3>2 DEF OrInterrupted
      <4>2. /\ call' \in Call /\ call'.stage = "finishing" /\ call'.expected = call.expected
            /\ call'.requested = call.requested /\ call'.outcome = call.outcome
            /\ call'.session = own
        BY <1>0, <2>3, <4>1, CallFields DEF Call
      <4>3. ConversationFits' BY <1>1 DEF ConversationFits, Desktop
      <4> QED BY <1>0, <1>1, <2>1, <2>2, <2>3, <4>2, <4>3, RunKeeps
    <3> QED BY <3>1, <3>2
  <2> QED BY <1>5, <2>4, <2>5 DEF ClaudeCloses
<1>6. CASE ClaudeWrites
  <2>1. call.stage = "finishing" /\ Running /\ UNCHANGED process
    BY <1>6 DEF ClaudeWrites, Running
  <2>2. /\ process # <<>> /\ call.session # None /\ Child \in DOMAIN process /\ Child \in Own
        /\ ~process[Child].owned
    BY <1>0, <1>1, <2>1, ChildInDomain DEF AgentInv, CallFits
  <2>3. Lessens /\ ChildLeaves
    BY <1>0, <2>1, <2>2, SameLessens DEF ChildLeaves
  <2>4. \/ call' = OrInterrupted(Settled("COMPLETED", call.session, Child))
        \/ call' = OrInterrupted(Settled("FAILED", call.session, None))
    BY <1>6 DEF ClaudeWrites
  <2>5. CASE call' = OrInterrupted(Settled("COMPLETED", call.session, Child))
    BY <1>2, <1>3, <2>2, <2>3, <2>5 DEF OrInterrupted
  <2>6. CASE call' = OrInterrupted(Settled("FAILED", call.session, None))
    BY <1>2, <1>3, <2>2, <2>3, <2>6 DEF OrInterrupted
  <2> QED BY <2>4, <2>5, <2>6
<1> QED BY <1>4, <1>5, <1>6 DEF ClaudeNext, ClaudeStep

LEMMA RpcFields ==
    ASSUME rpc \in Rpc
    PROVE  /\ rpc.point \in Point /\ rpc.pending \in BOOLEAN
           /\ rpc.reply \in Session \cup {None, Foreign, Refused}
           /\ rpc.turn \in {"own", None} /\ rpc.message \in Message \cup {None}
           /\ rpc.completion \in Completion \cup {None, Refused}
BY DEF Rpc

LEMMA NoRpcTyped ==
    NoRpc \in Rpc /\ [NoRpc EXCEPT !.pending = TRUE] \in Rpc
BY DEF NoRpc, Rpc, Point

\* A message of the app-server, or its end.
LEMMA ReceiveKeeps ==
    ASSUME AgentInv, Quiet, Desktop, Running, Lessens, UNCHANGED <<agent, call, output>>,
           rpc' \in Rpc, rpc'.point = rpc.point, rpc'.turn = rpc.turn,
           \/ rpc'.message = rpc.message
           \/ /\ rpc'.message # None
              /\ call.session # None => rpc'.message.thread = call.session
              /\ rpc.turn # None => rpc'.message.turn = rpc.turn
    PROVE  StepFits
<1>0. AgentTypeOK /\ output' \in Own \cup {None} BY DEF AgentInv, AgentTypeOK
<1>1. ~Cli BY DEF Cli, Desktop
<1>2. call' \in Call /\ call.stage \in {call.stage, "finishing"} BY <1>0, CallFields
<1>3. call.expected # None => call'.session \in {call.expected, None}
  BY DEF AgentInv, CallFits, Running, Active
<1>4. call'.stage = "finishing" => call'.session # None BY DEF AgentInv, CallFits
<1>5. ConversationFits'
  <2>1. "own" # None BY MessageAssumption
  <2> QED BY <2>1 DEF AgentInv, ConversationFits, MessageFits, Desktop, Running
<1> QED BY <1>0, <1>1, <1>2, <1>3, <1>4, <1>5, RunKeeps DEF Quiet

LEMMA AbortedKeeps ==
    ASSUME rpc \in Rpc
    PROVE  /\ Aborted \in Rpc /\ Aborted.point = rpc.point /\ Aborted.turn = rpc.turn
           /\ Aborted.message = rpc.message
BY DEF Aborted, Rpc

LEMMA MessageKeeps ==
    ASSUME AgentInv, Quiet,
           Response \/ AgentMessage \/ TurnCompleted \/ Trouble \/ DesktopCloses
    PROVE  StepFits
<1>0. AgentTypeOK /\ rpc \in Rpc BY DEF AgentInv
<1>1. Desktop /\ Running /\ process # <<>> /\ UNCHANGED <<agent, call, output>>
      /\ Child \in DOMAIN process
  BY <1>0, ChildInDomain
  DEF Response, AgentMessage, TurnCompleted, Trouble, DesktopCloses, Receives, Heard, Running, ChildOpen
<1>2. OwnThread \in Session BY <1>0, <1>1, ChildInDomain, CallFields DEF OwnThread, Session
<1>3. ASSUME process' = process PROVE Lessens BY <1>0, <1>3, SameLessens
<1>4. CASE Response
  <2>1. PICK reply \in {OwnThread, Refused, Foreign} :
          Receives([rpc EXCEPT !.pending = FALSE, !.reply = reply])
    BY <1>4 DEF Response
  <2>2. rpc' = [rpc EXCEPT !.pending = FALSE, !.reply = reply] /\ process' = process
    BY <2>1 DEF Receives
  <2>3. rpc' \in Rpc /\ rpc'.point = rpc.point /\ rpc'.turn = rpc.turn
        /\ rpc'.message = rpc.message
    BY <1>0, <1>2, <2>2 DEF Rpc
  <2> QED BY <1>1, <1>3, <2>2, <2>3, ReceiveKeeps
<1>5. CASE AgentMessage
  <2>1. PICK m \in [thread : Threads, turn : {"own", Foreign}] :
          Receives(IF \/ call.session # None /\ m.thread # call.session
                      \/ rpc.turn # None /\ m.turn # rpc.turn
                     THEN Aborted ELSE [rpc EXCEPT !.message = m])
    BY <1>5 DEF AgentMessage
  <2>2. process' = process BY <2>1 DEF Receives
  <2>3. CASE rpc' = Aborted BY <1>0, <1>1, <1>3, <2>2, <2>3, AbortedKeeps, ReceiveKeeps
  <2>4. CASE /\ rpc' = [rpc EXCEPT !.message = m]
             /\ ~(call.session # None /\ m.thread # call.session)
             /\ ~(rpc.turn # None /\ m.turn # rpc.turn)
    <3>1. m \in Message BY <1>2 DEF Message, Threads
    <3>2. m # None BY <3>1, MessageAssumption
    <3>3. rpc' \in Rpc /\ rpc'.point = rpc.point /\ rpc'.turn = rpc.turn /\ rpc'.message = m
      BY <1>0, <2>4, <3>1 DEF Rpc
    <3> QED BY <1>1, <1>3, <2>2, <2>4, <3>2, <3>3, ReceiveKeeps
  <2> QED BY <2>1, <2>3, <2>4 DEF Receives
<1>6. CASE TurnCompleted
  <2>1. PICK c \in [thread : Threads, ok : BOOLEAN] :
          Receives([rpc EXCEPT !.completion = IF @ = None THEN c ELSE @])
    BY <1>6 DEF TurnCompleted
  <2>2. process' = process
        /\ rpc' = [rpc EXCEPT !.completion = IF rpc.completion = None THEN c ELSE rpc.completion]
    BY <2>1 DEF Receives
  <2>3. c \in Completion BY <1>2 DEF Completion, Threads
  <2>4. rpc' \in Rpc /\ rpc'.point = rpc.point /\ rpc'.turn = rpc.turn
        /\ rpc'.message = rpc.message
    BY <1>0, <2>2, <2>3 DEF Rpc
  <2> QED BY <1>1, <1>3, <2>2, <2>4, ReceiveKeeps
<1>7. CASE Trouble
  <2>1. rpc' = Aborted /\ process' = process BY <1>7 DEF Trouble, Receives
  <2> QED BY <1>0, <1>1, <1>3, <2>1, AbortedKeeps, ReceiveKeeps
<1>8. CASE DesktopCloses
  <2>1. rpc' = Aborted /\ process' = Exit(Child) BY <1>8 DEF DesktopCloses
  <2>2. Lessens BY <1>0, <1>1, <2>1, ExitLessens
  <2> QED BY <1>0, <1>1, <2>1, <2>2, AbortedKeeps, ReceiveKeeps
<1> QED BY <1>4, <1>5, <1>6, <1>7, <1>8

LEMMA FailsKeeps ==
    ASSUME AgentInv, Fails, Desktop, Running, UNCHANGED <<agent, output, strays>>
    PROVE  StepFits
<1>0. AgentTypeOK /\ output \in Own \cup {None} BY DEF AgentInv, AgentTypeOK
<1>1. Lessens /\ ChildLeaves BY <1>0, TerminateLessens DEF Fails
<1>2. call' = Settled("FAILED", call.session, None) /\ rpc' = NoRpc /\ Active
  BY DEF Fails, Running, Active
<1>3. call.session \in Session \cup {None} BY <1>0, CallFields
<1> QED BY <1>0, <1>1, <1>2, <1>3, NoRpcTyped, SettleKeeps

\* The coroutine goes on.
LEMMA ProceedKeeps == AgentInv /\ Proceed /\ Quiet => StepFits
<1> SUFFICES ASSUME AgentInv, Proceed, Quiet, ~Fails PROVE StepFits
  BY FailsKeeps DEF Proceed, Quiet, Running
<1>0. AgentTypeOK /\ rpc \in Rpc /\ output \in Own \cup {None} BY DEF AgentInv, AgentTypeOK
<1>1. /\ Desktop /\ ~Cli /\ call.stage = "running" /\ Running /\ process # <<>>
      /\ UNCHANGED <<agent, output>>
  BY DEF Proceed, Desktop, Cli, Running, AgentInv, CallFits
<1>2. Running /\ Active /\ "own" # None BY <1>1, MessageAssumption DEF Running, Active
<1>3. rpc.turn = "own" <=> rpc.point = "completion"
  BY <1>1 DEF AgentInv, ConversationFits
<1>4. OwnThread \in Session /\ OwnThread # None
      /\ (call.expected # None => OwnThread = call.expected)
  BY <1>0, <1>1, ChildInDomain, CallFields DEF OwnThread, Session
<1>5. ASSUME process' = process, call' \in Call, call'.stage \in {"running", "finishing"},
             call'.expected = call.expected, call'.requested = call.requested,
             call'.outcome = call.outcome,
             call'.session \in {call.session, OwnThread},
             call'.stage = "finishing" => call'.session # None,
             rpc' \in Rpc, ConversationFits'
      PROVE  StepFits
  <2>1. Lessens BY <1>0, <1>5, SameLessens
  <2>2. call.expected # None => call'.session \in {call.expected, None}
    BY <1>2, <1>4, <1>5 DEF AgentInv, CallFits
  <2> QED BY <1>0, <1>1, <1>2, <1>5, <2>1, <2>2, RunKeeps DEF Quiet
<1>6. CASE Completed
  <2>1. CompletionFits /\ call' = [call EXCEPT !.stage = "finishing"]
        /\ UNCHANGED <<rpc, process>> /\ rpc.point = "completion" /\ rpc.message # None
    BY <1>6 DEF Completed, CompletionFits
  <2>2. call.session # None BY <1>1, <2>1 DEF AgentInv, ConversationFits
  <2>3. /\ call' \in Call /\ call'.stage = "finishing" /\ call'.expected = call.expected
        /\ call'.requested = call.requested /\ call'.outcome = call.outcome
        /\ call'.session = call.session
    BY <1>0, <2>1, CallFields DEF Call
  <2>4. ConversationFits'
    BY <1>1, <1>2, <2>1, <2>3 DEF AgentInv, ConversationFits, MessageFits, Desktop, Running
  <2> QED BY <1>0, <1>5, <2>1, <2>2, <2>3, <2>4
<1>7. CASE rpc.point = "setup" /\ Asks("thread", call)
  <2>1. /\ rpc' = [rpc EXCEPT !.point = "thread", !.pending = TRUE, !.reply = None]
        /\ UNCHANGED <<call, process>>
    BY <1>7 DEF Asks
  <2>2. rpc' \in Rpc /\ rpc'.point = "thread" /\ rpc'.turn = rpc.turn
        /\ rpc'.message = rpc.message
    BY <1>0, <2>1 DEF Rpc, Point
  <2>3. rpc'.turn # "own" BY <1>3, <1>7, <2>2
  <2>4. ConversationFits' BY <1>1, <2>1, <2>2, <2>3 DEF ConversationFits
  <2> QED BY <1>0, <1>1, <1>5, <2>1, <2>2, <2>4, CallFields
<1>8. CASE rpc.point = "thread" /\ ThreadOpened
  <2>1. /\ rpc.reply = OwnThread
        /\ rpc' = [rpc EXCEPT !.point = "turn", !.pending = TRUE, !.reply = None]
        /\ call' = [call EXCEPT !.session = rpc.reply] /\ UNCHANGED process
    BY <1>8 DEF ThreadOpened, Asks
  <2>2. rpc' \in Rpc /\ rpc'.point = "turn" /\ rpc'.turn = rpc.turn
        /\ rpc'.message = rpc.message
    BY <1>0, <2>1 DEF Rpc, Point
  <2>3. rpc'.turn # "own" BY <1>3, <1>8, <2>2
  <2>4. call' = [call EXCEPT !.session = OwnThread] BY <2>1
  <2> HIDE DEF OwnThread
  <2>5. /\ call' \in Call /\ call'.stage = "running" /\ call'.expected = call.expected
        /\ call'.requested = call.requested /\ call'.outcome = call.outcome
        /\ call'.session = OwnThread
    BY <1>0, <1>1, <1>4, <2>4, CallFields DEF Call
  <2>6. ConversationFits' BY <1>4, <2>2, <2>3, <2>5 DEF ConversationFits
  <2> QED BY <1>5, <2>1, <2>2, <2>5, <2>6
<1>9. CASE rpc.point = "turn" /\ TurnStarted
  <2>1. /\ EarlyMessageFits
        /\ rpc' = [rpc EXCEPT !.point = "completion", !.reply = None, !.turn = "own"]
        /\ UNCHANGED <<call, process>>
    BY <1>9 DEF TurnStarted
  <2>2. rpc' \in Rpc /\ rpc'.point = "completion" /\ rpc'.turn = "own"
        /\ rpc'.message = rpc.message
    BY <1>0, <2>1 DEF Rpc, Point
  <2>3. call.session # None BY <1>1, <1>9 DEF AgentInv, ConversationFits
  <2>4. ConversationFits'
    BY <1>1, <2>1, <2>2, <2>3 DEF ConversationFits, EarlyMessageFits, MessageFits
  <2> QED BY <1>0, <1>1, <1>5, <2>1, <2>2, <2>4, CallFields
<1> QED BY <1>6, <1>7, <1>8, <1>9 DEF Proceed, Replied

LEMMA DesktopKeeps == AgentInv /\ DesktopNext /\ Quiet => StepFits
<1> SUFFICES ASSUME AgentInv, DesktopNext, Quiet PROVE StepFits OBVIOUS
<1>0. AgentTypeOK /\ rpc \in Rpc /\ output \in Own \cup {None} BY DEF AgentInv, AgentTypeOK
<1>1. call.expected \in Session \cup {None} /\ call.session \in Session \cup {None}
      /\ call.requested \in Interrupted \cup {None}
  BY <1>0, CallFields
<1>2. CASE DesktopPrepare
  <2>1. /\ Desktop /\ ~Cli /\ call.stage = "prepare" /\ ~Running /\ Active
        /\ UNCHANGED <<agent, output>>
    BY <1>2 DEF DesktopPrepare, Desktop, Cli, Running, Active
  <2>2. ASSUME NEW kind \in Interrupted \cup {"FAILED"}, kind \in Interrupted \/ call.requested = None,
               call' = Settled(kind, call.expected, None), UNCHANGED <<process, rpc>>
        PROVE  StepFits
    <3>1. Lessens BY <1>0, <2>2, SameLessens
    <3>2. kind # "COMPLETED" BY DEF Interrupted
    <3> QED BY <1>0, <1>1, <2>1, <2>2, <3>1, <3>2, SettleKeeps DEF Quiet
  <2>3. CASE /\ ~StopRemembered /\ Child < Processes /\ Spawn
             /\ call' = [call EXCEPT !.stage = "running"]
             /\ rpc' = [NoRpc EXCEPT !.pending = TRUE]
    <3>1. call.requested = None BY <2>3 DEF StopRemembered
    <3>2. rpc' \in Rpc /\ rpc'.point = "setup" /\ rpc'.turn = None
      BY <2>3, NoRpcTyped DEF NoRpc
    <3> QED BY <1>0, <2>1, <2>3, <3>1, <3>2, SpawnKeeps DEF Quiet
  <2> QED BY <1>1, <1>2, <2>2, <2>3 DEF DesktopPrepare, StopRemembered
<1>3. CASE Proceed BY <1>3, ProceedKeeps
<1>4. CASE DesktopWrites
  <2>1. /\ Desktop /\ call.stage = "finishing" /\ Running /\ Active
        /\ UNCHANGED <<agent, output>>
    BY <1>4 DEF DesktopWrites, Running, Active
  <2>2. CASE Fails BY <2>1, <2>2, FailsKeeps DEF Quiet
  <2>3. CASE /\ call' = Settled("COMPLETED", call.session, Author)
             /\ ShutDownGracefully /\ rpc' = NoRpc
    <3>1. Lessens /\ ChildLeaves BY <1>0, <2>1, <2>3, ShutDownLessens
    <3>2. /\ process # <<>> /\ call.session # None /\ MessageFits
      BY <2>1 DEF AgentInv, CallFits, ConversationFits
    <3>3. Author = Child /\ Child \in Own
      BY <1>0, <3>2, ChildInDomain DEF Author, MessageFits
    <3> QED BY <1>0, <1>1, <2>1, <2>3, <3>1, <3>2, <3>3, NoRpcTyped, SettleKeeps DEF Quiet
  <2> QED BY <1>4, <2>2, <2>3 DEF DesktopWrites
<1> QED BY <1>2, <1>3, <1>4, MessageKeeps DEF DesktopNext, DesktopStep

LEMMA ProcessStepKeeps ==
    ASSUME AgentInv, NEW p \in DOMAIN process, TimerFires(p) \/ ExitUnheard(p), Quiet
    PROVE  StepFits
<1>0. AgentTypeOK BY DEF AgentInv
<1>1. UNCHANGED <<agent, call, rpc, output>> BY DEF TimerFires, ExitUnheard
<1>2. Lessens BY <1>0, TimerLessens, ExitLessens DEF ExitUnheard
<1> QED BY <1>1, <1>2, ProcessKeeps DEF Quiet

\* A deadline or a cancellation, whatever the record says meanwhile.
LEMMA StopKeeps ==
    ASSUME AgentInv, NEW kind \in Interrupted, Stop(kind), strays' = strays
    PROVE  StepFits
<1>0. AgentTypeOK /\ rpc \in Rpc /\ output \in Own \cup {None} BY DEF AgentInv, AgentTypeOK
<1>1. call.session \in Session \cup {None} /\ kind # "COMPLETED" BY <1>0, CallFields DEF Interrupted
<1>2. CASE CliStoppable /\ CliStop(kind)
  <2>1. Terminate /\ UNCHANGED <<agent, rpc, output>> /\ call' = Settled(kind, call.session, None)
    BY <1>2 DEF CliStop
  <2>2. Lessens /\ ChildLeaves BY <1>0, <2>1, TerminateLessens
  <2>3. Active BY <1>2 DEF CliStoppable, Active
  <2> QED BY <1>0, <1>1, <2>1, <2>2, <2>3, SettleKeeps
<1>3. CASE ClaudeStoppable /\ ClaudeStop(kind)
  <2>1. /\ Claude /\ Active /\ call' = [call EXCEPT !.requested = kind]
        /\ call.requested = None
        /\ UNCHANGED <<agent, rpc, output>>
        /\ IF call.stage = "running" THEN Terminate ELSE UNCHANGED process
    BY <1>3 DEF ClaudeStoppable, ClaudeStop
  <2>2. Lessens /\ (call.stage = "running" => ChildLeaves)
    BY <1>0, <2>1, TerminateLessens, SameLessens
  <2> QED BY <2>1, <2>2, AgreeKeeps
<1>4. CASE DesktopStoppable /\ DesktopStop(kind)
  <2>1. Desktop /\ Active /\ UNCHANGED <<agent, output>>
    BY <1>4 DEF DesktopStoppable, DesktopStop
  <2>2. CASE call.stage = "prepare"
    <3>1. call' = [call EXCEPT !.requested = kind] /\ UNCHANGED <<process, rpc>>
          /\ call.requested = None
      BY <1>4, <2>2 DEF DesktopStop, DesktopStoppable
    <3>2. Lessens BY <1>0, <3>1, SameLessens
    <3> QED BY <2>1, <2>2, <3>1, <3>2, AgreeKeeps
  <2>3. CASE call.stage # "prepare"
    <3>1. /\ call' = Settled(kind, call.session, None) /\ rpc' = NoRpc
          /\ (ShutDownGracefully \/ Terminate)
      BY <1>4, <2>3 DEF DesktopStop
    <3>2. Lessens /\ ChildLeaves BY <1>0, <2>1, <3>1, TerminateLessens, ShutDownLessens
    <3> QED BY <1>0, <1>1, <2>1, <3>1, <3>2, NoRpcTyped, SettleKeeps
  <2> QED BY <2>2, <2>3
<1> QED BY <1>2, <1>3, <1>4 DEF Stop

-----------------------------------------------------------------------------
(* The runner, the record and the daemon *)

RecordTypes ==
    /\ runner \in Runner /\ bound \in {None, Past}
    /\ phase \in {"reviewing", "paused", "decided", "canceling", "canceled"}
    /\ revoking \in {"no", "due", "asked"} /\ (phase = "canceling" <=> revoking # "no")
    /\ late \in BOOLEAN /\ strays \in BOOLEAN /\ missed \in BOOLEAN
    /\ decided \in [session : Session, text : Own \cup {Foreign}, process : Own] \cup {None}
    /\ retries \in 0 .. Retries /\ restarts \in 0 .. Restarts

RecordInv == RecordTypes /\ RunnerFits /\ AnswerIsOwn

StepHolds == RecordInv' /\ StepFits

LEMMA NoCallTyped ==
    NoCall \in Call /\ NoCall.stage = "idle" /\ NoCall.expected = None /\ NoCall.outcome = None
BY DEF NoCall, Call

\* No request is there any more.
LEMMA IdleKeeps ==
    ASSUME AgentInv, call' = NoCall, rpc' \in Rpc, output' = output, agent' = agent,
           process' \in Seq(Process), Len(process') <= Processes,
           ProcessesFit', NoReviewerLeft', RevokedFits'
    PROVE  AgentInv'
<1>1. AgentTypeOK' BY NoCallTyped DEF AgentInv, AgentTypeOK
<1>2. CallFits' /\ ConversationFits' /\ OutputFits' /\ AnswerFits'
  BY NoCallTyped DEF CallFits, ConversationFits, OutputFits, AnswerFits, Running, Active
<1> QED BY <1>1, <1>2 DEF AgentInv

LEMMA ForgetAllowed ==
    ASSUME AgentInv, call' = NoCall
    PROVE  Allowed
<1>1. CASE call.stage = "idle"
  <2>1. call.outcome = None /\ call.expected = None
    BY <1>1, CallFields DEF AgentInv, CallFits
  <2>2. ~Active /\ ~Active' BY <1>1, NoCallTyped DEF Active
  <2> QED BY <1>1, <2>1, <2>2, NoCallTyped DEF Allowed, Contract!vars
<1>2. CASE call.stage # "idle"
  <2>1. Contract!Forget
    BY <1>2, NoCallTyped DEF Contract!Forget, Contract!Idle, Active
  <2> QED BY <2>1 DEF Allowed, Contract!Next
<1> QED BY <1>1, <1>2

\* The record changes, the agents do not.
LEMMA RecordKeeps ==
    ASSUME AgentInv, UNCHANGED agentVars, strays' = strays, RevokedFits'
    PROVE  StepFits
<1> USE DEF agentVars
<1>1. Active' = Active BY DEF Active
<1>2. Allowed BY <1>1, SameRequest
<1> QED BY <1>2
    DEF StepFits, AgentInv, AgentTypeOK, CallFits, ConversationFits, ProcessesFit, OutputFits,
        AnswerFits, NoReviewerLeft, Active, Running, Cli, Claude, Desktop, Child, Leaving,
        MessageFits

\* Nobody has asked an agent of this review to stop, or the run is gone.
LEMMA ActiveUnrevoked ==
    ASSUME RecordTypes, phase \in {"reviewing", "paused", "decided"}
    PROVE  revoking = "no" /\ phase # "canceled" /\ phase # "canceling"
BY DEF RecordTypes

LEMMA StartFits ==
    ASSUME RecordTypes
    PROVE  /\ StartRunner \in Runner /\ StartRunner.point = "check"
           /\ StartRunner.session = bound
           /\ Done \in Runner /\ Done.point = "done" /\ Done.session = runner.session
           /\ Done.attempt = runner.attempt
           /\ runner.attempt \in 1 .. MaxAttempts + 1 /\ runner.session \in Session \cup {None}
           /\ runner.point \in {"check", "call", "done"}
BY RunnerAssumption DEF RecordTypes, Runner, StartRunner, Done, Session

LEMMA AttemptHolds == AgentInv /\ RecordInv /\ Attempt => StepHolds
<1> SUFFICES ASSUME AgentInv, RecordInv, Attempt PROVE StepHolds OBVIOUS
<1>0. RecordTypes BY DEF RecordInv
<1>1. UNCHANGED <<revoking, late, bound, decided, strays, missed, retries, restarts>>
  BY DEF Attempt
<1>2. CASE ~StillActive /\ runner' = Done /\ UNCHANGED <<agentVars, phase>>
  <2>1. RevokedFits'
    BY <1>1, <1>2 DEF AgentInv, RevokedFits, AllLeaving, Active, Cli, Desktop, Leaving, agentVars
  <2>2. StepFits BY <1>1, <1>2, <2>1, RecordKeeps
  <2> QED BY <1>0, <1>1, <1>2, <2>2, StartFits
      DEF StepHolds, RecordInv, RecordTypes, RunnerFits, AnswerIsOwn
<1>3. CASE StillActive /\ PauseReview /\ UNCHANGED agentVars
  <2>1. runner' = Done /\ phase' = "paused" /\ revoking = "no"
    BY <1>0, <1>3, ActiveUnrevoked DEF PauseReview, StillActive
  <2>2. RevokedFits' BY <1>1, <2>1 DEF RevokedFits
  <2>3. StepFits BY <1>1, <1>3, <2>2, RecordKeeps
  <2> QED BY <1>0, <1>1, <2>1, <2>3, StartFits
      DEF StepHolds, RecordInv, RecordTypes, RunnerFits, AnswerIsOwn
<1>4. CASE /\ StillActive /\ ~AttemptsUsed /\ Request(runner.session)
           /\ runner' = [runner EXCEPT !.point = "call"] /\ UNCHANGED phase
  <2> DEFINE session == runner.session
  <2>1. /\ call.stage = "idle"
        /\ call' = [NoCall EXCEPT !.stage = "prepare", !.expected = session,
                                  !.session = session]
        /\ UNCHANGED <<agent, rpc, process, output>>
    BY <1>4 DEF Request
  <2>2. session \in Session \cup {None} BY <1>0, StartFits
  <2> HIDE DEF session
  <2>3. /\ call' \in Call /\ call'.stage = "prepare" /\ call'.expected = session
        /\ call'.session = session /\ call'.requested = None /\ call'.outcome = None
    BY <2>1, <2>2 DEF NoCall, Call
  <2>4. ~((revoking' = "asked" \/ phase' = "canceled") /\ ~missed')
    BY <1>0, <1>1, <1>4, ActiveUnrevoked DEF StillActive
  <2>5. AgentInv'
    <3>1. AgentTypeOK' BY <2>1, <2>3 DEF AgentInv, AgentTypeOK
    <3>2. CallFits' /\ ConversationFits' /\ OutputFits' /\ AnswerFits' /\ RevokedFits'
      BY <2>3, <2>4
      DEF CallFits, ConversationFits, OutputFits, AnswerFits, RevokedFits, Running, Active
    <3>3. NoReviewerLeft' BY <2>1 DEF AgentInv, NoReviewerLeft, Leaving, Child
    <3>4. ProcessesFit' BY <1>1, <2>1 DEF AgentInv, ProcessesFit, Cli
    <3> QED BY <2>1, <3>1, <3>2, <3>3, <3>4 DEF AgentInv
  <2>6. Contract!Request
    <3>1. call.outcome = None BY <2>1, CallFields DEF AgentInv
    <3>2. ~Active BY <2>1 DEF Active
    <3> QED BY <2>1, <2>2, <2>3, <3>1, <3>2 DEF Contract!Request
  <2>7. StepFits BY <2>5, <2>6 DEF StepFits, Allowed, Contract!Next
  <2>8. /\ runner' \in Runner /\ runner'.session = runner.session
        /\ runner'.attempt = runner.attempt /\ runner.attempt <= MaxAttempts
    BY <1>0, <1>4, RunnerAssumption DEF RecordTypes, Runner, AttemptsUsed
  <2> QED BY <1>0, <1>1, <1>4, <2>1, <2>7, <2>8
      DEF StepHolds, RecordInv, RecordTypes, RunnerFits, AnswerIsOwn
<1> QED BY <1>2, <1>3, <1>4 DEF Attempt

LEMMA TakeHolds == AgentInv /\ RecordInv /\ TakeOutcome => StepHolds
<1> SUFFICES ASSUME AgentInv, RecordInv, TakeOutcome PROVE StepHolds OBVIOUS
<1>0. RecordTypes /\ AgentTypeOK BY DEF RecordInv, AgentInv
<1> DEFINE session == IF runner.session = None THEN call.outcome.session ELSE runner.session
<1>1. /\ call.stage = "settled" /\ call' = NoCall /\ runner.point = "call"
      /\ UNCHANGED <<agent, rpc, process, output, revoking, late, bound, strays,
                     missed, retries, restarts>>
  BY DEF TakeOutcome
<1>2. call.outcome \in Outcome BY <1>0, <1>1, CallFields
<1>3. call.outcome.session \in Session \cup {None} BY <1>2 DEF Outcome
<1>4. session \in Session \cup {None} /\ (bound # None => session = bound)
      /\ (session = None => call.outcome.session = None)
  BY <1>0, <1>3, StartFits DEF RecordInv, RunnerFits
<1>5. \/ runner' = Done /\ UNCHANGED <<phase, decided>>
      \/ NextAttempt(session) /\ UNCHANGED <<phase, decided>>
      \/ /\ call.outcome.kind = "COMPLETED" /\ call.outcome.session = session
         /\ Finalize(session)
  BY DEF TakeOutcome
<1> HIDE DEF session
<1>6. ASSUME RevokedFits' PROVE StepFits
  <2>1. NoReviewerLeft'
    BY <1>1 DEF AgentInv, NoReviewerLeft, Leaving, Child
  <2>2. ProcessesFit' BY <1>1 DEF AgentInv, ProcessesFit, Cli
  <2>3. AgentInv' BY <1>0, <1>1, <1>6, <2>1, <2>2, IdleKeeps DEF AgentInv, AgentTypeOK
  <2> QED BY <1>1, <2>3, ForgetAllowed DEF StepFits
<1>7. UNCHANGED phase => RevokedFits'
  BY <1>1, NoCallTyped DEF AgentInv, RevokedFits, AllLeaving, Active, Leaving
<1>8. StillActive => RevokedFits' \/ phase' \notin {"paused", "decided"}
  <2>1. StillActive => revoking = "no" BY <1>0, ActiveUnrevoked DEF StillActive
  <2> QED BY <1>1, <2>1 DEF RevokedFits
<1>9. CASE runner' = Done /\ UNCHANGED <<phase, decided>>
  BY <1>0, <1>1, <1>6, <1>7, <1>9, StartFits
  DEF StepHolds, RecordInv, RecordTypes, RunnerFits, AnswerIsOwn
<1>10. CASE NextAttempt(session) /\ UNCHANGED <<phase, decided>>
  <2>1. runner.attempt + 1 \in 1 .. MaxAttempts + 1
    BY <1>0, <1>1, StartFits, RunnerAssumption DEF RecordInv, RunnerFits
  <2>2. runner' \in Runner /\ runner'.session = session /\ runner'.point = "check"
    BY <1>4, <1>10, <2>1 DEF NextAttempt, Runner
  <2> QED BY <1>0, <1>1, <1>4, <1>6, <1>7, <1>10, <2>2
      DEF StepHolds, RecordInv, RecordTypes, RunnerFits, AnswerIsOwn
<1>11. CASE /\ call.outcome.kind = "COMPLETED" /\ call.outcome.session = session
            /\ Finalize(session)
  <2>1. runner' = Done BY <1>11 DEF Finalize, PauseReview
  <2>2. CASE UNCHANGED <<phase, decided>>
    BY <1>0, <1>1, <1>6, <1>7, <2>1, <2>2, StartFits
    DEF StepHolds, RecordInv, RecordTypes, RunnerFits, AnswerIsOwn
  <2>3. CASE StillActive /\ phase' = "paused" /\ UNCHANGED decided
    <3>1. revoking = "no" BY <1>0, <2>3, ActiveUnrevoked DEF StillActive
    <3> QED BY <1>0, <1>1, <1>6, <1>8, <2>1, <2>3, <3>1, StartFits
        DEF StepHolds, RecordInv, RecordTypes, RunnerFits, AnswerIsOwn
  <2>4. CASE /\ StillActive /\ phase' = "decided"
             /\ decided' = [session |-> session, text |-> call.outcome.text,
                            process |-> Child]
    <3>1. revoking = "no" BY <1>0, <2>4, ActiveUnrevoked DEF StillActive
    <3>2. /\ session \in Session /\ call.outcome.text \in Own /\ Child \in Own
          /\ strays \/ call.outcome.text = Child
      BY <1>0, <1>1, <1>4, <1>11, ChildInDomain DEF AgentInv, AnswerFits
    <3>3. decided' \in [session : Session, text : Own \cup {Foreign}, process : Own]
          /\ decided'.session = session /\ decided'.text = call.outcome.text
          /\ decided'.process = Child
      BY <2>4, <3>2
    <3>4. AnswerIsOwn' BY <1>1, <1>4, <3>2, <3>3 DEF AnswerIsOwn
    <3> QED BY <1>0, <1>1, <1>6, <1>8, <2>1, <2>4, <3>1, <3>3, <3>4, StartFits
        DEF StepHolds, RecordInv, RecordTypes, RunnerFits
  <2> QED BY <1>11, <2>2, <2>3, <2>4 DEF Finalize, PauseReview
<1> QED BY <1>5, <1>9, <1>10, <1>11

LEMMA RevokeHolds == AgentInv /\ RecordInv /\ Revoke => StepHolds
<1> SUFFICES ASSUME AgentInv, RecordInv, Revoke PROVE StepHolds OBVIOUS
<1>0. RecordTypes /\ AgentTypeOK BY DEF RecordInv, AgentInv
<1>1. /\ revoking = "due" /\ revoking' = "asked"
      /\ missed' = (missed \/ (Cli /\ call.stage = "prepare"))
      /\ UNCHANGED <<phase, late, runner, bound, decided, strays, retries, restarts>>
  BY DEF Revoke, Others
<1>2. ASSUME Stoppable, Stop("CANCELED") PROVE StepFits
  BY <1>1, <1>2, StopKeeps DEF Interrupted
<1>3. ASSUME ~Stoppable, UNCHANGED agentVars PROVE StepFits
  <2>1. ASSUME ~missed' PROVE AllLeaving /\ (Active => /\ ~Cli /\ call.requested # None
                                                       /\ Desktop => call.stage = "prepare")
    <3>1. Active => /\ ~Cli /\ call.requested # None
                    /\ Desktop => call.stage = "prepare"
      BY <1>1, <1>3, <2>1
      DEF Stoppable, CliStoppable, ClaudeStoppable, DesktopStoppable, Active, Cli, Claude,
          Desktop, AgentInv, AgentTypeOK, Agent
    <3>2. ASSUME NEW p \in DOMAIN process, process[p].owned PROVE Leaving(p)
      <4> SUFFICES ASSUME ~Leaving(p) PROVE FALSE OBVIOUS
      <4>1. p = Child /\ Running BY <3>2 DEF AgentInv, NoReviewerLeft, Running
      <4>2. Active /\ ~Desktop /\ ~Cli /\ call.requested # None
        BY <3>1, <4>1 DEF Active, Running
      <4>3. Claude BY <4>2 DEF AgentInv, AgentTypeOK, Agent, Cli, Claude, Desktop
      <4> QED BY <3>2, <4>1, <4>2, <4>3 DEF AgentInv, CallFits, Running
    <3> QED BY <3>1, <3>2 DEF AllLeaving
  <2>2. RevokedFits'
    BY <1>3, <2>1 DEF RevokedFits, AllLeaving, Active, Cli, Desktop, Leaving, agentVars
  <2> QED BY <1>1, <1>3, <2>2, RecordKeeps
<1>4. StepFits BY <1>2, <1>3 DEF Revoke
<1> QED BY <1>0, <1>1, <1>4 DEF StepHolds, RecordInv, RecordTypes, RunnerFits, AnswerIsOwn

\* The daemon ends: what runs on has no owner.
LEMMA RestartHolds == AgentInv /\ RecordInv /\ Restart => StepHolds
<1> SUFFICES ASSUME AgentInv, RecordInv, Restart PROVE StepHolds OBVIOUS
<1>0. RecordTypes /\ AgentTypeOK /\ process \in Seq(Process) BY DEF RecordInv, AgentInv, AgentTypeOK
<1>1. /\ restarts > 0 /\ restarts' = restarts - 1 /\ call' = NoCall /\ rpc' = NoRpc
      /\ process' = [p \in DOMAIN process |->
                       [process[p] EXCEPT !.owned = FALSE, !.timer = "none"]]
      /\ strays' = (strays \/ \E p \in DOMAIN process : process[p].open)
      /\ runner' = (IF StillActive THEN StartRunner ELSE Done)
      /\ revoking' = (IF phase = "canceling" THEN "due" ELSE "no")
      /\ UNCHANGED <<agent, output, phase, late, bound, decided, missed, retries>>
  BY DEF Restart
<1>2. ASSUME NEW p \in DOMAIN process
      PROVE  /\ process'[p] \in Process /\ process'[p].owned = FALSE
             /\ process'[p].timer = "none" /\ process'[p].open = process[p].open
  BY <1>0, <1>1, ProcessFields DEF Process
<1>3. process' \in Seq(Process) /\ Len(process') = Len(process) /\ DOMAIN process' = DOMAIN process
  <2>1. DOMAIN process = 1 .. Len(process) /\ Len(process) \in Nat BY <1>0
  <2>2. process' \in [1 .. Len(process) -> Process] BY <1>1, <1>2, <2>1
  <2>3. process' \in Seq(Process) BY <2>1, <2>2, SeqDef
  <2> QED BY <2>1, <2>2, <2>3, LenProperties
<1>4. ProcessesFit' BY <1>1, <1>2, <1>3 DEF ProcessesFit
<1>5. NoReviewerLeft' /\ AllLeaving' BY <1>2, <1>3 DEF NoReviewerLeft, AllLeaving
<1>6. RevokedFits' BY <1>1, <1>5, NoCallTyped DEF RevokedFits, Active
<1>7. Len(process') <= Processes BY <1>0, <1>3 DEF AgentTypeOK
<1>8. AgentInv' BY <1>1, <1>3, <1>4, <1>5, <1>6, <1>7, NoRpcTyped, IdleKeeps
<1>9. StepFits BY <1>1, <1>8, ForgetAllowed DEF StepFits
<1>10. RecordTypes' /\ RunnerFits'
  <2>1. strays' \in BOOLEAN BY <1>1
  <2>2. restarts' \in 0 .. Restarts
    <3>1. restarts \in 0 .. Restarts BY <1>0 DEF RecordTypes
    <3>2. restarts > 0 /\ restarts' = restarts - 1 BY <1>1
    <3> QED BY <3>1, <3>2, RunnerAssumption
  <2>3. runner' \in Runner /\ runner'.point # "call" /\ (bound # None => runner'.session = bound)
    BY <1>0, <1>1, StartFits DEF RecordInv, RunnerFits
  <2>4. revoking' \in {"no", "due", "asked"} /\ (phase' = "canceling" <=> revoking' # "no")
    BY <1>1
  <2> QED BY <1>0, <1>1, <2>1, <2>2, <2>3, <2>4 DEF RecordTypes, RunnerFits
<1>11. AnswerIsOwn' BY <1>1 DEF RecordInv, AnswerIsOwn
<1> QED BY <1>9, <1>10, <1>11 DEF StepHolds, RecordInv

LEMMA OthersHold ==
    AgentInv /\ RecordInv /\ (DeadlinePasses \/ DeadlineFires \/ Cancel \/ CommitCanceled \/ Retry)
      => StepHolds
<1> SUFFICES ASSUME AgentInv, RecordInv,
                    DeadlinePasses \/ DeadlineFires \/ Cancel \/ CommitCanceled \/ Retry
             PROVE  StepHolds
  OBVIOUS
<1>0. RecordTypes BY DEF RecordInv
<1> USE DEF StepHolds, RecordInv, RecordTypes, RunnerFits, AnswerIsOwn, Others
<1>1. CASE DeadlinePasses
  <2>1. UNCHANGED <<agentVars, phase, revoking, missed, strays>> BY <1>1 DEF DeadlinePasses
  <2>2. RevokedFits'
    BY <2>1 DEF AgentInv, RevokedFits, AllLeaving, Active, Cli, Desktop, Leaving, agentVars
  <2>3. StepFits BY <2>1, <2>2, RecordKeeps
  <2> QED BY <1>1, <2>3 DEF DeadlinePasses
<1>2. CASE DeadlineFires
  <2>1. Stop("TIMED_OUT") /\ strays' = strays BY <1>2 DEF DeadlineFires
  <2>2. StepFits BY <2>1, StopKeeps DEF Interrupted
  <2> QED BY <1>2, <2>2 DEF DeadlineFires
<1>3. CASE Cancel
  <2>1. UNCHANGED <<agentVars, strays>> /\ phase' = "canceling" /\ revoking' = "due"
    BY <1>3 DEF Cancel
  <2>2. RevokedFits' BY <2>1 DEF RevokedFits
  <2>3. StepFits BY <2>1, <2>2, RecordKeeps
  <2> QED BY <1>3, <2>3 DEF Cancel
<1>4. CASE CommitCanceled
  <2>1. /\ UNCHANGED <<agentVars, strays, missed>>
        /\ revoking = "asked" /\ phase' = "canceled" /\ revoking' = "no"
    BY <1>4 DEF CommitCanceled
  <2>2. RevokedFits'
    BY <2>1 DEF AgentInv, RevokedFits, AllLeaving, Active, Cli, Desktop, Leaving, agentVars
  <2>3. StepFits BY <2>1, <2>2, RecordKeeps
  <2> QED BY <1>4, <2>3 DEF CommitCanceled
<1>5. CASE Retry
  <2>1. /\ UNCHANGED <<agentVars, strays, revoking, bound, decided, missed, restarts>>
        /\ phase = "paused" /\ phase' = "reviewing" /\ runner' = StartRunner
        /\ retries > 0 /\ retries' = retries - 1 /\ late' = FALSE
    BY <1>5 DEF Retry
  <2>2. revoking = "no" BY <1>0, <2>1, ActiveUnrevoked
  <2>3. RevokedFits' BY <2>1, <2>2 DEF RevokedFits
  <2>4. StepFits BY <2>1, <2>3, RecordKeeps
  <2>5. retries' \in 0 .. Retries BY <2>1, RunnerAssumption
  <2>6. runner' \in Runner /\ runner'.point = "check" /\ runner'.session = bound
    BY <1>0, <2>1, StartFits
  <2>7. missed' = missed BY <2>1
  <2> QED BY <1>0, <2>1, <2>2, <2>4, <2>5, <2>6, <2>7
<1> QED BY <1>1, <1>2, <1>3, <1>4, <1>5

LEMMA AgentHolds == AgentInv /\ RecordInv /\ AgentNext => StepHolds
<1> SUFFICES ASSUME AgentInv, RecordInv, AgentNext PROVE StepHolds OBVIOUS
<1>1. Quiet /\ UNCHANGED <<revoking, late, runner, bound, decided, retries, restarts>>
  BY DEF AgentNext, RunnerWaits, Others, Quiet
<1>2. \/ CliNext \/ ClaudeNext \/ DesktopNext
      \/ \E p \in DOMAIN process : TimerFires(p) \/ ExitUnheard(p) \/ CliWrites(p)
  BY DEF AgentNext
<1>3. StepFits
  BY <1>1, <1>2, CliKeeps, ClaudeKeeps, DesktopKeeps, ProcessStepKeeps, WritesKeeps
<1> QED BY <1>1, <1>3
    DEF StepHolds, RecordInv, RecordTypes, RunnerFits, AnswerIsOwn, Quiet

LEMMA InitHolds == Init => AgentInv /\ RecordInv
<1> SUFFICES ASSUME Init PROVE AgentInv /\ RecordInv OBVIOUS
<1> USE DEF Init
<1>1. process \in Seq(Process) /\ Len(process) = 0 /\ DOMAIN process = {} BY EmptySeq
<1>2. AgentTypeOK /\ rpc \in Rpc
  BY <1>1, NoCallTyped, NoRpcTyped, CallAssumption DEF AgentTypeOK
<1>3. CallFits /\ ConversationFits /\ OutputFits /\ AnswerFits /\ RevokedFits
  BY NoCallTyped
  DEF CallFits, ConversationFits, OutputFits, AnswerFits, RevokedFits, Running, Active
<1>4. ProcessesFit /\ NoReviewerLeft BY <1>1 DEF ProcessesFit, NoReviewerLeft
<1>5. RecordTypes
  <2>1. 1 \in 1 .. MaxAttempts + 1 /\ retries \in 0 .. Retries /\ restarts \in 0 .. Restarts
    BY RunnerAssumption
  <2>2. runner \in Runner BY <2>1 DEF Runner, StartRunner, Session
  <2> QED BY <2>1, <2>2 DEF RecordTypes
<1>6. RunnerFits /\ AnswerIsOwn BY DEF RunnerFits, AnswerIsOwn, StartRunner
<1> QED BY <1>2, <1>3, <1>4, <1>5, <1>6 DEF AgentInv, RecordInv

LEMMA NextHolds == AgentInv /\ RecordInv /\ [Next]_vars => StepHolds
<1> SUFFICES ASSUME AgentInv, RecordInv, [Next]_vars PROVE StepHolds OBVIOUS
<1>1. CASE UNCHANGED vars
  <2>1. UNCHANGED <<agentVars, runner, phase, revoking, late, bound, decided, strays, missed,
                    retries, restarts>>
    BY <1>1 DEF vars, agentVars
  <2>2. RevokedFits'
    BY <2>1 DEF AgentInv, RevokedFits, AllLeaving, Active, Cli, Desktop, Leaving, agentVars
  <2>3. StepFits BY <2>1, <2>2, RecordKeeps
  <2> QED BY <2>1, <2>3 DEF StepHolds, RecordInv, RecordTypes, RunnerFits, AnswerIsOwn
<1> QED BY <1>1, AttemptHolds, TakeHolds, RevokeHolds, RestartHolds, OthersHold, AgentHolds
    DEF Next

LEMMA Invariance == Spec => [](AgentInv /\ RecordInv)
<1>1. AgentInv /\ RecordInv /\ [Next]_vars => (AgentInv /\ RecordInv)'
  BY NextHolds DEF StepHolds, StepFits
<1> QED BY <1>1, InitHolds, PTL DEF Spec

-----------------------------------------------------------------------------

\* The types of the state (ReviewAgents, AgentCall).
THEOREM TypeCorrect == Spec => []TypeOK
<1>1. AgentInv /\ RecordInv => TypeOK BY DEF AgentInv, RecordInv, RecordTypes, TypeOK
<1> QED BY <1>1, Invariance, PTL

\* No outcome, deadline, retry or cancellation leaves a reviewer behind that nobody
\* asked to end (close and stop() of the adapters).
THEOREM ReviewersAreListenedTo == Spec => []NoReviewerLeft
<1>1. AgentInv => NoReviewerLeft BY DEF AgentInv
<1> QED BY <1>1, Invariance, PTL

\* The recorded review is the answer of the process it is recorded for and of the
\* session that the action is bound to (finalize of ReviewRunner).
THEOREM AnswersAreOwn == Spec => []AnswerIsOwn
<1>1. RecordInv => AnswerIsOwn BY DEF RecordInv
<1> QED BY <1>1, Invariance, PTL

\* A canceled run has no reviewer at work (revokeAction, cancel() of the adapters).
THEOREM CanceledAreStopped == Spec => []CanceledIsStopped
<1>1. AgentInv => CanceledIsStopped
  BY DEF AgentInv, RevokedFits, AllLeaving, CanceledIsStopped
<1> QED BY <1>1, Invariance, PTL

\* The three adapters implement AgentContract (agent-adapter.ts).
THEOREM Refinement == Spec => RefinesContract
<1>1. Init => Contract!Init
  BY NoCallTyped DEF Init, Contract!Init, Contract!Idle, Active
<1>2. AgentInv /\ RecordInv /\ [Next]_vars => Contract!Next \/ UNCHANGED Contract!vars
  BY NextHolds DEF StepHolds, StepFits, Allowed
<1> QED BY <1>1, <1>2, Invariance, PTL DEF Spec, RefinesContract, Contract!Spec

-----------------------------------------------------------------------------
(* The work of a review is finite: whatever the agent sends, the runner and *)
(* the adapter come nearer to the end of the review whenever they go on.     *)

\* What a request still awaits, in an app-server's conversation and before it.
ReplyWay == [setup |-> 4, thread |-> 3, turn |-> 2, completion |-> 1]
StageWay(c, r) ==
    CASE c.stage = "prepare"   -> 7
      [] c.stage = "running"   -> 2 + ReplyWay[r.point]
      [] c.stage = "finishing" -> 2
      [] c.stage = "settled"   -> 1
      [] c.stage = "idle"      -> 0

RequestLeft == CASE runner.point = "check" -> 8
                 [] runner.point = "call"  -> StageWay(call, rpc)
                 [] runner.point = "done"  -> 0
AttemptsLeft == IF runner.point = "done" THEN 0 ELSE MaxAttempts + 2 - runner.attempt
TurnsLeft    == retries + restarts

\* The lexicographic order of turns, attempts, and what the request awaits.
LessReview ==
    \/ TurnsLeft' < TurnsLeft
    \/ TurnsLeft' = TurnsLeft /\ AttemptsLeft' < AttemptsLeft
    \/ TurnsLeft' = TurnsLeft /\ AttemptsLeft' = AttemptsLeft /\ RequestLeft' < RequestLeft

SameReview ==
    TurnsLeft' = TurnsLeft /\ AttemptsLeft' = AttemptsLeft /\ RequestLeft' = RequestLeft

ReviewIsCounted == TurnsLeft \in Nat /\ AttemptsLeft \in Nat /\ RequestLeft \in Nat

\* The steps of the runner and of the adapter, each of which fairness asks for.
GoesOn == \/ Attempt \/ TakeOutcome
          \/ (CliStep \/ ClaudeStep \/ DesktopStep) /\ RunnerWaits

\* A request is there while the runner awaits it.
RequestFits == runner.point = "call" <=> call.stage # "idle"

-----------------------------------------------------------------------------

Nearer == call.stage # "idle" /\ call'.stage # "idle" /\ StageWay(call, rpc)' < StageWay(call, rpc)
Alike  == call'.stage = call.stage /\ rpc'.point = rpc.point

LEMMA StageWayIs ==
    ASSUME NEW c \in Call, NEW r \in Rpc
    PROVE  /\ StageWay(c, r) \in 0 .. 7
           /\ c.stage = "prepare" => StageWay(c, r) = 7
           /\ c.stage = "running" => StageWay(c, r) = 2 + ReplyWay[r.point]
           /\ c.stage = "finishing" => StageWay(c, r) = 2
           /\ c.stage = "settled" => StageWay(c, r) = 1
           /\ c.stage = "idle" => StageWay(c, r) = 0
           /\ ReplyWay[r.point] \in 1 .. 4
<1>1. ReplyWay[r.point] \in 1 .. 4 BY DEF Rpc, Point, ReplyWay
<1>2. c.stage \in {"idle", "prepare", "running", "finishing", "settled"} BY DEF Call
<1> QED BY <1>1, <1>2 DEF StageWay

\* The stages follow each other, and so do the replies.
LEMMA StageNearer ==
    ASSUME call \in Call, rpc \in Rpc, call' \in Call, rpc' \in Rpc,
           \/ call.stage = "prepare" /\ call'.stage \in {"running", "settled"}
           \/ call.stage = "running" /\ call'.stage \in {"finishing", "settled"}
           \/ call.stage = "finishing" /\ call'.stage = "settled"
           \/ call.stage = "running" /\ call'.stage = "running"
              /\ ReplyWay[rpc'.point] < ReplyWay[rpc.point]
    PROVE  Nearer
<1>1. StageWay(call, rpc)' = StageWay(call', rpc') BY DEF StageWay
<1> QED BY <1>1, StageWayIs DEF Nearer

LEMMA CliNearer ==
    ASSUME AgentInv, AgentInv', CliNext
    PROVE  Alike \/ Nearer
<1>0. call \in Call /\ call' \in Call /\ rpc \in Rpc /\ rpc' \in Rpc
  BY DEF AgentInv, AgentTypeOK
<1>1. CASE CliStep
  <2>1. \/ call.stage = "prepare" /\ call'.stage \in {"running", "settled"}
        \/ call.stage = "finishing" /\ call'.stage = "settled"
    BY <1>0, <1>1 DEF CliStep, CliPrepare, CliReads, Settled, NoCall, Call
  <2> QED BY <1>0, <2>1, StageNearer
<1>2. CASE CliEvent
  BY <1>0, <1>2 DEF CliEvent, Call, Alike
<1>3. CASE CliCloses
  <2>1. call.stage = "running" /\ call'.stage \in {"finishing", "settled"}
    BY <1>0, <1>3 DEF CliCloses, Listening, Settled, NoCall, Call
  <2> QED BY <1>0, <2>1, StageNearer
<1> QED BY <1>1, <1>2, <1>3 DEF CliNext

LEMMA CliStepNearer ==
    ASSUME AgentInv, AgentInv', CliStep
    PROVE  Nearer
<1>0. call \in Call /\ call' \in Call /\ rpc \in Rpc /\ rpc' \in Rpc
  BY DEF AgentInv, AgentTypeOK
<1>1. \/ call.stage = "prepare" /\ call'.stage \in {"running", "settled"}
      \/ call.stage = "finishing" /\ call'.stage = "settled"
  BY <1>0 DEF CliStep, CliPrepare, CliReads, Settled, NoCall, Call
<1> QED BY <1>0, <1>1, StageNearer

LEMMA ClaudeStepNearer ==
    ASSUME AgentInv, AgentInv', ClaudeStep
    PROVE  Nearer
<1>0. call \in Call /\ call' \in Call /\ rpc \in Rpc /\ rpc' \in Rpc
  BY DEF AgentInv, AgentTypeOK
<1>1. \/ call.stage = "prepare" /\ call'.stage \in {"running", "settled"}
      \/ call.stage = "finishing" /\ call'.stage = "settled"
  BY <1>0 DEF ClaudeStep, ClaudePrepare, ClaudeWrites, OrInterrupted, Settled, NoCall, Call
<1> QED BY <1>0, <1>1, StageNearer

LEMMA ClaudeNearer ==
    ASSUME AgentInv, AgentInv', ClaudeNext
    PROVE  Nearer
<1>0. call \in Call /\ call' \in Call /\ rpc \in Rpc /\ rpc' \in Rpc
  BY DEF AgentInv, AgentTypeOK
<1>1. CASE ClaudeCloses
  <2>1. call.stage = "running" /\ call'.stage \in {"finishing", "settled"}
    BY <1>0, <1>1 DEF ClaudeCloses, OrInterrupted, Settled, NoCall, Call
  <2> QED BY <1>0, <2>1, StageNearer
<1> QED BY <1>1, ClaudeStepNearer DEF ClaudeNext

LEMMA DesktopStepNearer ==
    ASSUME AgentInv, AgentInv', DesktopStep
    PROVE  Nearer
<1>0. call \in Call /\ call' \in Call /\ rpc \in Rpc /\ rpc' \in Rpc
  BY DEF AgentInv, AgentTypeOK
<1>1. ASSUME call.stage \in {"running", "finishing"}, Fails PROVE Nearer
  <2>1. call'.stage = "settled" BY <1>1 DEF Fails, Settled, NoCall
  <2> QED BY <1>0, <1>1, <2>1, StageNearer
<1>2. CASE DesktopPrepare
  <2>1. call.stage = "prepare" /\ call'.stage \in {"running", "settled"}
    BY <1>0, <1>2 DEF DesktopPrepare, Settled, NoCall, Call
  <2> QED BY <1>0, <2>1, StageNearer
<1>3. CASE DesktopWrites
  <2>1. call.stage = "finishing" /\ call'.stage = "settled"
    BY <1>0, <1>3 DEF DesktopWrites, Fails, Settled, NoCall
  <2> QED BY <1>0, <2>1, StageNearer
<1>4. CASE Proceed
  <2>1. call.stage = "running" BY <1>4 DEF Proceed
  <2>2. ASSUME NEW p \in Point, NEW next \in {call, [call EXCEPT !.session = rpc.reply]},
               Asks(p, next), ReplyWay[p] < ReplyWay[rpc.point]
        PROVE  Nearer
    <3>1. CASE Fails BY <1>1, <2>1, <3>1
    <3>2. CASE rpc' = [rpc EXCEPT !.point = p, !.pending = TRUE, !.reply = None] /\ call' = next
      <4>1. rpc'.point = p BY <1>0, <3>2 DEF Rpc
      <4>2. call'.stage = "running" BY <1>0, <2>1, <2>2, <3>2 DEF Call
      <4> QED BY <1>0, <2>1, <2>2, <4>1, <4>2, StageNearer
    <3> QED BY <2>2, <3>1, <3>2 DEF Asks
  <2>3. CASE rpc.point = "setup" /\ Asks("thread", call)
    BY <2>2, <2>3 DEF Point, ReplyWay
  <2>4. CASE rpc.point = "thread" /\ ThreadOpened
    BY <1>1, <2>1, <2>2, <2>4 DEF ThreadOpened, Point, ReplyWay
  <2>5. CASE rpc.point = "turn" /\ TurnStarted
    <3>1. CASE rpc' = [rpc EXCEPT !.point = "completion", !.reply = None, !.turn = "own"]
               /\ call' = call
      <4>1. rpc'.point = "completion" BY <1>0, <3>1 DEF Rpc
      <4>2. ReplyWay[rpc'.point] < ReplyWay[rpc.point] BY <2>5, <4>1 DEF ReplyWay
      <4> QED BY <1>0, <2>1, <3>1, <4>2, StageNearer
    <3> QED BY <1>1, <2>1, <2>5, <3>1 DEF TurnStarted
  <2>6. CASE Completed
    <3>1. CASE call' = [call EXCEPT !.stage = "finishing"]
      <4>1. call'.stage = "finishing" BY <1>0, <3>1 DEF Call
      <4> QED BY <1>0, <2>1, <4>1, StageNearer
    <3> QED BY <1>1, <2>1, <2>6, <3>1 DEF Completed
  <2> QED BY <1>1, <1>4, <2>1, <2>3, <2>4, <2>5, <2>6 DEF Proceed, Replied
<1> QED BY <1>2, <1>3, <1>4 DEF DesktopStep

LEMMA DesktopNearer ==
    ASSUME AgentInv, AgentInv', DesktopNext
    PROVE  Alike \/ Nearer
<1>0. rpc \in Rpc BY DEF AgentInv
<1>1. Aborted.point = rpc.point BY <1>0, AbortedKeeps
<1> USE DEF Alike, Receives
<1>2. CASE Response
  <2>1. PICK reply : Receives([rpc EXCEPT !.pending = FALSE, !.reply = reply])
    BY <1>2 DEF Response
  <2> QED BY <1>0, <2>1 DEF Rpc
<1>3. CASE AgentMessage
  <2>1. PICK m \in [thread : Threads, turn : {"own", Foreign}] :
          Receives(Aborted) \/ Receives([rpc EXCEPT !.message = m])
    BY <1>3 DEF AgentMessage
  <2>2. [rpc EXCEPT !.message = m].point = rpc.point BY <1>0 DEF Rpc
  <2> QED BY <1>1, <2>1, <2>2
<1>4. CASE TurnCompleted
  <2>1. PICK c : Receives([rpc EXCEPT !.completion = IF @ = None THEN c ELSE @])
    BY <1>4 DEF TurnCompleted
  <2> QED BY <1>0, <2>1 DEF Rpc
<1>5. CASE Trouble \/ DesktopCloses
  BY <1>1, <1>5 DEF Trouble, DesktopCloses
<1> QED BY <1>2, <1>3, <1>4, <1>5, DesktopStepNearer DEF DesktopNext

\* stop(), by the deadline or by the cancellation of the run.
LEMMA StopNearer ==
    ASSUME AgentInv, AgentInv', NEW kind \in Interrupted, Stop(kind)
    PROVE  Alike \/ Nearer
<1>0. call \in Call /\ call' \in Call /\ rpc \in Rpc /\ rpc' \in Rpc
  BY DEF AgentInv, AgentTypeOK
<1>1. CASE CliStoppable /\ CliStop(kind)
  <2>1. call.stage \in {"running", "finishing"} /\ call'.stage = "settled"
    BY <1>1 DEF CliStoppable, CliStop, Settled, NoCall
  <2> QED BY <1>0, <2>1, StageNearer
<1>2. CASE ClaudeStoppable /\ ClaudeStop(kind)
  BY <1>0, <1>2 DEF ClaudeStop, Call, Alike
<1>3. CASE DesktopStoppable /\ DesktopStop(kind)
  <2>1. CASE call.stage = "prepare"
    BY <1>0, <1>3, <2>1 DEF DesktopStop, Call, Alike
  <2>2. CASE call.stage # "prepare"
    <3>1. call.stage \in {"running", "finishing"} /\ call'.stage = "settled"
      BY <1>3, <2>2 DEF DesktopStoppable, DesktopStop, Active, Settled, NoCall
    <3> QED BY <1>0, <3>1, StageNearer
  <2> QED BY <2>1, <2>2
<1> QED BY <1>1, <1>2, <1>3 DEF Stop

-----------------------------------------------------------------------------

\* The agent, its processes or a stop, while the runner waits.
LEMMA WaitingIsLess ==
    ASSUME AgentInv, AgentInv', RecordInv, RequestFits, UNCHANGED <<runner, retries, restarts>>,
           Alike \/ Nearer
    PROVE  RequestFits' /\ (LessReview \/ SameReview) /\ (Nearer => LessReview)
<1>1. TurnsLeft' = TurnsLeft /\ AttemptsLeft' = AttemptsLeft BY DEF TurnsLeft, AttemptsLeft
<1>2. RequestFits' BY DEF RequestFits, Alike, Nearer
<1>3. runner.point \in {"check", "call", "done"} BY StartFits DEF RecordInv
<1>4. Alike => RequestLeft' = RequestLeft
  BY DEF Alike, RequestLeft, StageWay
<1>5. Nearer => RequestLeft' < RequestLeft
  BY DEF Nearer, RequestLeft, RequestFits
<1> QED BY <1>1, <1>2, <1>4, <1>5 DEF LessReview, SameReview

LEMMA AttemptIsLess ==
    ASSUME AgentInv, RecordInv, RequestFits, Attempt
    PROVE  RequestFits' /\ LessReview
<1>1. /\ runner \in Runner /\ runner.attempt \in 1 .. MaxAttempts + 1 /\ Done.point = "done"
      /\ runner.point = "check" /\ MaxAttempts \in Nat
  BY StartFits, RunnerAssumption DEF RecordInv, RecordTypes, Attempt
<1>2. TurnsLeft' = TurnsLeft BY DEF Attempt, TurnsLeft
<1>3. CASE runner' = Done /\ UNCHANGED agentVars
  <2>1. AttemptsLeft' < AttemptsLeft BY <1>1, <1>3 DEF AttemptsLeft
  <2>2. RequestFits' BY <1>1, <1>3 DEF RequestFits, agentVars
  <2> QED BY <1>2, <2>1, <2>2 DEF LessReview
<1>4. CASE Request(runner.session) /\ runner' = [runner EXCEPT !.point = "call"]
  <2>1. runner'.point = "call" /\ runner'.attempt = runner.attempt BY <1>1, <1>4 DEF Runner
  <2>2. call'.stage = "prepare" BY <1>4 DEF Request, NoCall
  <2>3. AttemptsLeft' = AttemptsLeft BY <1>1, <2>1 DEF AttemptsLeft
  <2>4. RequestLeft = 8 /\ RequestLeft' = 7
    BY <1>1, <2>1, <2>2 DEF RequestLeft, StageWay
  <2>5. RequestFits' BY <2>1, <2>2 DEF RequestFits
  <2> QED BY <1>2, <2>3, <2>4, <2>5 DEF LessReview
<1> QED BY <1>3, <1>4 DEF Attempt, PauseReview

LEMMA TakeIsLess ==
    ASSUME AgentInv, RecordInv, RequestFits, TakeOutcome
    PROVE  RequestFits' /\ LessReview
<1>1. /\ runner.attempt \in 1 .. MaxAttempts + 1 /\ Done.point = "done"
      /\ runner.point = "call" /\ MaxAttempts \in Nat
  BY StartFits, RunnerAssumption DEF RecordInv, RecordTypes, TakeOutcome
<1>2. TurnsLeft' = TurnsLeft /\ call'.stage = "idle"
  BY NoCallTyped DEF TakeOutcome, TurnsLeft
<1>3. runner' = Done \/ \E session : NextAttempt(session)
  BY DEF TakeOutcome, Finalize, PauseReview
<1>4. runner'.point # "call" /\ (runner'.point = "done" \/ runner'.attempt = runner.attempt + 1)
  BY <1>1, <1>3 DEF NextAttempt
<1>5. AttemptsLeft' < AttemptsLeft BY <1>1, <1>4 DEF AttemptsLeft
<1> QED BY <1>2, <1>4, <1>5 DEF LessReview, RequestFits

\* A new turn of the review, or a new daemon.
LEMMA RenewalIsLess ==
    ASSUME RecordInv, RequestFits, Retry \/ Restart
    PROVE  RequestFits' /\ LessReview
<1>1. retries \in Nat /\ restarts \in Nat BY RunnerAssumption DEF RecordInv, RecordTypes
<1>2. TurnsLeft' < TurnsLeft
  <2>1. \/ retries > 0 /\ retries' = retries - 1 /\ restarts' = restarts
        \/ restarts > 0 /\ restarts' = restarts - 1 /\ retries' = retries
    BY DEF Retry, Restart
  <2> QED BY <1>1, <2>1 DEF TurnsLeft
<1>3. StartRunner.point = "check" /\ Done.point = "done" BY StartFits DEF RecordInv
<1>4. ASSUME Retry PROVE RequestFits' BY <1>3, <1>4 DEF Retry, RequestFits, agentVars
<1>5. ASSUME Restart PROVE RequestFits' BY <1>3, <1>5, NoCallTyped DEF Restart, RequestFits
<1> QED BY <1>2, <1>4, <1>5 DEF LessReview

LEMMA StepIsLess ==
    ASSUME AgentInv, AgentInv', RecordInv, RequestFits, Next
    PROVE  RequestFits' /\ (LessReview \/ SameReview) /\ (GoesOn => LessReview)
<1> DEFINE Waits == UNCHANGED <<runner, retries, restarts>>
<1> DEFINE Goal == RequestFits' /\ (LessReview \/ SameReview)
<1>1. ASSUME Waits, Alike \/ Nearer PROVE Goal
  BY <1>1, WaitingIsLess
<1> HIDE DEF Goal
<1>2. ASSUME DeadlinePasses \/ Cancel \/ CommitCanceled PROVE Goal
  BY <1>1, <1>2 DEF DeadlinePasses, Cancel, CommitCanceled, Others, Alike, agentVars
<1>3. ASSUME DeadlineFires PROVE Goal
  <2>1. "TIMED_OUT" \in Interrupted BY DEF Interrupted
  <2> QED BY <1>1, <1>3, <2>1, StopNearer DEF DeadlineFires, Others
<1>4. ASSUME Revoke PROVE Goal
  <2>1. "CANCELED" \in Interrupted BY DEF Interrupted
  <2>2. Stop("CANCELED") \/ UNCHANGED agentVars BY <1>4 DEF Revoke
  <2> QED BY <1>1, <1>4, <2>1, <2>2, StopNearer DEF Revoke, Others, Alike, agentVars
<1>5. ASSUME AgentNext PROVE Goal
  <2>1. Waits BY <1>5 DEF AgentNext, RunnerWaits, Others
  <2>2. CASE \E p \in DOMAIN process : TimerFires(p) \/ ExitUnheard(p) \/ CliWrites(p)
    BY <1>1, <2>1, <2>2 DEF TimerFires, ExitUnheard, CliWrites, Alike
  <2> QED BY <1>1, <1>5, <2>1, <2>2, CliNearer, ClaudeNearer, DesktopNearer DEF AgentNext
<1>6. Goal
  BY <1>2, <1>3, <1>4, <1>5, AttemptIsLess, TakeIsLess, RenewalIsLess DEF Next, Goal
<1>7. ASSUME CliStep \/ ClaudeStep \/ DesktopStep, RunnerWaits PROVE LessReview
  BY <1>7, WaitingIsLess, CliStepNearer, ClaudeStepNearer, DesktopStepNearer
  DEF RunnerWaits, Others
<1> QED BY <1>6, <1>7, AttemptIsLess, TakeIsLess DEF GoesOn, Goal

LEMMA RequestInvariance == Spec => []RequestFits
<1>1. Init => RequestFits BY NoCallTyped DEF Init, RequestFits, StartRunner
<1>2. AgentInv /\ AgentInv' /\ RecordInv /\ RequestFits /\ [Next]_vars => RequestFits'
  BY StepIsLess DEF vars, RequestFits
<1> QED BY <1>1, <1>2, Invariance, PTL DEF Spec

\* The turns, the attempts and the replies that a review still awaits are natural
\* numbers: no attempt is made beyond REVIEW_MAX_ATTEMPTS.
LEMMA ReviewIsFinite == Spec => []ReviewIsCounted
<1>1. AgentInv /\ RecordInv => ReviewIsCounted
  <2> SUFFICES ASSUME AgentInv, RecordInv PROVE ReviewIsCounted OBVIOUS
  <2>1. runner.attempt \in 1 .. MaxAttempts + 1 /\ runner.point \in {"check", "call", "done"}
        /\ MaxAttempts \in Nat
    BY StartFits, RunnerAssumption DEF RecordInv
  <2>2. AttemptsLeft \in Nat BY <2>1 DEF AttemptsLeft
  <2>3. TurnsLeft \in Nat BY RunnerAssumption DEF RecordInv, RecordTypes, TurnsLeft
  <2>4. StageWay(call, rpc) \in Nat BY StageWayIs DEF AgentInv, AgentTypeOK
  <2>5. RequestLeft \in Nat BY <2>1, <2>4 DEF RequestLeft
  <2> QED BY <2>2, <2>3, <2>5 DEF ReviewIsCounted
<1> QED BY <1>1, Invariance, PTL

\* Whatever an agent sends or withholds, and whenever the run is canceled or its
\* deadline fires: nothing gives a review more to wait for, and each step that the
\* loop of ReviewRunner.run or the coroutine of an adapter takes leaves less.
THEOREM ReviewRunsOut ==
    Spec => []ReviewIsCounted /\ [][(LessReview \/ SameReview) /\ (GoesOn => LessReview)]_vars
<1>1. AgentInv /\ AgentInv' /\ RecordInv /\ RequestFits /\ [Next]_vars =>
        [(LessReview \/ SameReview) /\ (GoesOn => LessReview)]_vars
  BY StepIsLess
<1> QED BY ReviewIsFinite, <1>1, Invariance, RequestInvariance, PTL DEF Spec
=============================================================================
