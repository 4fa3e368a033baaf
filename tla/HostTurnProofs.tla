--------------------------- MODULE HostTurnProofs ---------------------------
(***************************************************************************)
(* Proofs about HostTurn, for any hosts, requests and number of pauses.    *)
(***************************************************************************)
EXTENDS HostTurn, TLAPS

(* What requests hold: a question about the run as it was read, an answer to one that
   has been asked, of the host that was.  A snapshot that is still good has seen no
   turn. *)
CallsOK ==
    \A r \in Request :
      /\ call[r].kind = "ask" => call[r].question \in Question
      /\ call[r].kind = "ask" /\ r \in current => turn = NoTurn
      /\ call[r].kind = "answer" =>
           /\ call[r].question \in asked /\ call[r].answer \in Answer
           /\ call[r].question.owner = HostOf[r]

(* The open question has left its receipt, so that no other can get its token, and
   whoever answers it now has begun to do so since it was opened. *)
TimelyOK ==
    /\ turn \in Question => turn \in asked
    /\ \A r \in Request :
         call[r].kind = "answer" /\ turn = call[r].question => r \in timely

IInv == TypeOK /\ TurnsFollowPhases /\ CallsOK /\ TimelyOK

LEMMA IInvInit == Init => IInv
<1> SUFFICES ASSUME Init PROVE IInv OBVIOUS
<1> USE TurnAssumption DEF Init
<1>1. TypeOK
  <2>1. Idle \in Call BY DEF Idle, Call
  <2>2. call \in [Request -> Call] BY <2>1
  <2>3. asked = {} /\ answered = {} /\ timely = {} /\ current = {} /\ pauses \in 0 .. Pauses
    OBVIOUS
  <2> QED BY <2>2, <2>3 DEF TypeOK, Phase
<1>2. TurnsFollowPhases BY DEF TurnsFollowPhases
<1>3. CallsOK BY DEF CallsOK, Idle
<1>4. TimelyOK BY DEF TimelyOK, Idle
<1> QED BY <1>1, <1>2, <1>3, <1>4 DEF IInv

(* The codes and the answers, as names that the solvers need not expand. *)
LEMMA Codes ==
    /\ {"ATTEMPT_FAILED", "CONTAINMENT_REQUIRED", "STAGE_FAILED", "HOST_REVIEW_UNAVAILABLE",
        "APPROVED_SOURCE_DRIFT", "AUTOMATIC_REPAIR_LIMIT", "PRECHECK_CONFLICT",
        "PROCESS_RECONCILIATION", "RECOVERY_BLOCKED"} \subseteq PauseCode
    /\ "none" \notin PauseCode
BY DEF PauseCode, ResumeActions

(* What may be answered now is an answer. *)
LEMMA ListedAnswers == TypeOK => Listed \subseteq Answer
<1> SUFFICES ASSUME TypeOK PROVE Listed \subseteq Answer OBVIOUS
<1>1. "cancel" \in ResumeActions["STAGE_FAILED"] /\ "STAGE_FAILED" \in PauseCode
  BY DEF ResumeActions, PauseCode
<1>2. CASE pause = "none" BY <1>1, <1>2 DEF Listed, Answer
<1>3. CASE pause \in PauseCode BY <1>3, Codes DEF Listed, Answer
<1> QED BY <1>2, <1>3 DEF TypeOK

LEMMA IdleCall == Idle \in Call
BY DEF Idle, Call

LEMMA TypeStep == IInv /\ [Next]_vars => TypeOK'
<1> SUFFICES ASSUME IInv, [Next]_vars PROVE TypeOK' OBVIOUS
<1> USE TurnAssumption, Codes DEF IInv, TypeOK, Phase
<1>1. ASSUME NEW r \in Request, Poll(r) PROVE TypeOK'
  <2> DEFINE c == [kind |-> "ask",
                   question |-> [request |-> r, owner |-> HostOf[r], code |-> pause],
                   answer |-> "none"]
  <2>1. c \in Call BY <1>1 DEF Poll, Call, Question
  <2>2. call' = [call EXCEPT ![r] = c] BY <1>1 DEF Poll, Receives
  <2> QED BY <1>1, <2>1, <2>2 DEF Poll
<1>2. ASSUME NEW r \in Request, Ask(r) PROVE TypeOK'
  <2>1. call[r].question \in Question BY <1>2 DEF Ask, CallsOK
  <2>2. call' \in [Request -> Call] BY <1>2, IdleCall DEF Ask, Returns
  <2>3. phase = "paused" /\ UNCHANGED <<phase, pause, ending, answered, pauses>> BY <1>2 DEF Ask
  <2> QED BY <1>2, <2>1, <2>2, <2>3 DEF Ask, Commits
<1>3. ASSUME NEW r \in Request, SubmitAnswer(r) PROVE TypeOK'
  <2>1. PICK a \in Answer :
          Receives(r, [kind |-> "answer", question |-> turn, answer |-> a])
        BY <1>3, ListedAnswers DEF SubmitAnswer
  <2> DEFINE c == [kind |-> "answer", question |-> turn, answer |-> a]
  <2>2. c \in Call BY <1>3, <2>1 DEF Call, SubmitAnswer
  <2>3. call' = [call EXCEPT ![r] = c] BY <2>1 DEF Receives
  <2> QED BY <1>3, <2>2, <2>3 DEF SubmitAnswer
<1>4. ASSUME NEW r \in Request, ApplyAnswer(r) PROVE TypeOK'
  <2>1. call[r].question \in Question /\ call[r].answer \in Answer
        BY <1>4 DEF ApplyAnswer, Closes, CallsOK
  <2>2. call' \in [Request -> Call] BY <1>4, IdleCall DEF ApplyAnswer, Closes, Returns
  <2>3. answered' \subseteq [question : Question, answer : Answer] BY <1>4, <2>1 DEF ApplyAnswer, Closes
  <2>4. phase' \in {"working", "canceling"} /\ pause' = "none" /\ ending' \in BOOLEAN
        BY <1>4 DEF ApplyAnswer, Closes, Continue, PhaseAfter
  <2> QED BY <1>4, <2>2, <2>3, <2>4 DEF ApplyAnswer, Closes, Continue, Commits
<1>5. ASSUME NEW r \in Request, ResumeReviewDecision(r) PROVE TypeOK'
  <2>1. call[r].question \in Question /\ "resume_review_decision" \in Answer
        BY <1>5 DEF ResumeReviewDecision, Closes, CallsOK
  <2>2. call' \in [Request -> Call] BY <1>5, IdleCall DEF ResumeReviewDecision, Closes, Returns
  <2>3. answered' \subseteq [question : Question, answer : Answer] BY <1>5, <2>1 DEF ResumeReviewDecision, Closes
  <2>4. phase' \in {"working", "canceling"} /\ pause' = "none" /\ ending' \in BOOLEAN
        BY <1>5 DEF ResumeReviewDecision, Closes, Continue, PhaseAfter
  <2> QED BY <1>5, <2>2, <2>3, <2>4 DEF ResumeReviewDecision, Closes, Continue, Commits
<1>6. ASSUME NEW r \in Request, RequestCancel(r) PROVE TypeOK'
  <2>1. [Idle EXCEPT !.kind = "cancel"] \in Call BY DEF Idle, Call
  <2> QED BY <1>6, <2>1 DEF RequestCancel, Receives
<1>7. ASSUME NEW r \in Request, Cancel(r) PROVE TypeOK'
  <2>1. call' \in [Request -> Call] BY <1>7, IdleCall DEF Cancel, Closes, Returns
  <2> QED BY <1>7, <2>1 DEF Cancel, Closes, Commits
<1>8. ASSUME NEW r \in Request, Refuse(r) PROVE TypeOK'
  <2>1. call' \in [Request -> Call] BY <1>8, IdleCall DEF Refuse, Returns
  <2> QED BY <1>8, <2>1 DEF Refuse, Commits
<1>9. ASSUME Resume PROVE TypeOK'
  BY <1>9 DEF Resume, Continue, PhaseAfter, Commits, Conversation
<1>10. ASSUME AttemptEnds PROVE TypeOK'
  BY <1>10 DEF AttemptEnds, Commits, PausesWith, Conversation
<1>11. ASSUME TreeUnknown PROVE TypeOK'
  BY <1>11 DEF TreeUnknown, Commits, Conversation
<1>12. ASSUME TreeEmpty PROVE TypeOK'
  BY <1>12 DEF TreeEmpty, Conversation
<1>13. ASSUME PublishConflicts PROVE TypeOK'
  BY <1>13 DEF PublishConflicts, Commits, PausesWith, Conversation
<1>14. ASSUME BeginReview PROVE TypeOK'
  BY <1>14 DEF BeginReview, Commits, Conversation
<1>15. ASSUME ReviewDone PROVE TypeOK'
  BY <1>15 DEF ReviewDone, Commits, Conversation
<1>16. ASSUME ReviewPauses PROVE TypeOK'
  BY <1>16 DEF ReviewPauses, Commits, PausesWith, Conversation
<1>17. ASSUME StageFails PROVE TypeOK'
  BY <1>17 DEF StageFails, Commits, PausesWith, Conversation
<1>18. ASSUME CancelBlocked PROVE TypeOK'
  BY <1>18 DEF CancelBlocked, Commits, PausesWith, Conversation
<1>19. ASSUME Ends PROVE TypeOK'
  BY <1>19 DEF Ends, Commits, Conversation
<1>20. ASSUME Restart PROVE TypeOK'
  BY <1>20, IdleCall DEF Restart, Commits
<1>21. ASSUME OtherRuns PROVE TypeOK'
  BY <1>21 DEF OtherRuns, Commits, Conversation
<1>22. ASSUME UNCHANGED vars PROVE TypeOK'
  BY <1>22 DEF vars, Commits
<1>23. ASSUME RecoveryPauses PROVE TypeOK'
  <2>1. phase' = "paused" /\ pause' = "RECOVERY_BLOCKED" /\ pauses' \in 0 .. Pauses
        BY <1>23 DEF RecoveryPauses, PausesWith
  <2> QED BY <1>23, <2>1 DEF RecoveryPauses, Commits, Conversation
<1>24. ASSUME Recovered PROVE TypeOK'
  BY <1>24 DEF Recovered, Conversation
<1> QED
  BY <1>1, <1>2, <1>3, <1>4, <1>5, <1>6, <1>7, <1>8, <1>9, <1>10, <1>11, <1>12, <1>13, <1>14, <1>15, <1>16, <1>17, <1>18, <1>19, <1>20, <1>21, <1>22, <1>23, <1>24 DEF Next, Client, Daemon

LEMMA TurnsStep == IInv /\ [Next]_vars => TurnsFollowPhases'
<1> SUFFICES ASSUME IInv, [Next]_vars PROVE TurnsFollowPhases' OBVIOUS
<1> USE TurnAssumption, Codes DEF IInv, TypeOK, TurnsFollowPhases
<1>1. ASSUME NEW r \in Request, Poll(r) PROVE TurnsFollowPhases'
  BY <1>1 DEF Poll, Receives
<1>2. ASSUME NEW r \in Request, Ask(r) PROVE TurnsFollowPhases'
  BY <1>2 DEF Ask, Returns, Commits
<1>3. ASSUME NEW r \in Request, SubmitAnswer(r) PROVE TurnsFollowPhases'
  BY <1>3 DEF SubmitAnswer, Receives
<1>4. ASSUME NEW r \in Request, ApplyAnswer(r) PROVE TurnsFollowPhases'
  BY <1>4 DEF ApplyAnswer, Closes, Returns, Continue, PhaseAfter, Commits
<1>5. ASSUME NEW r \in Request, ResumeReviewDecision(r) PROVE TurnsFollowPhases'
  BY <1>5 DEF ResumeReviewDecision, Closes, Returns, Continue, PhaseAfter, Commits
<1>6. ASSUME NEW r \in Request, RequestCancel(r) PROVE TurnsFollowPhases'
  BY <1>6 DEF RequestCancel, Receives
<1>7. ASSUME NEW r \in Request, Cancel(r) PROVE TurnsFollowPhases'
  BY <1>7 DEF Cancel, Closes, Returns, Commits
<1>8. ASSUME NEW r \in Request, Refuse(r) PROVE TurnsFollowPhases'
  BY <1>8 DEF Refuse, Returns
<1>9. ASSUME Resume PROVE TurnsFollowPhases'
  BY <1>9 DEF Resume, Continue, PhaseAfter, Commits, Conversation
<1>10. ASSUME AttemptEnds PROVE TurnsFollowPhases'
  BY <1>10 DEF AttemptEnds, Commits, PausesWith, Conversation
<1>11. ASSUME TreeUnknown PROVE TurnsFollowPhases'
  BY <1>11 DEF TreeUnknown, Commits, Conversation
<1>12. ASSUME TreeEmpty PROVE TurnsFollowPhases'
  BY <1>12 DEF TreeEmpty, Conversation
<1>13. ASSUME PublishConflicts PROVE TurnsFollowPhases'
  BY <1>13 DEF PublishConflicts, Commits, PausesWith, Conversation
<1>14. ASSUME BeginReview PROVE TurnsFollowPhases'
  BY <1>14 DEF BeginReview, Commits, Conversation
<1>15. ASSUME ReviewDone PROVE TurnsFollowPhases'
  BY <1>15 DEF ReviewDone, Commits, Conversation
<1>16. ASSUME ReviewPauses PROVE TurnsFollowPhases'
  BY <1>16 DEF ReviewPauses, Commits, PausesWith, Conversation
<1>17. ASSUME StageFails PROVE TurnsFollowPhases'
  BY <1>17 DEF StageFails, Commits, PausesWith, Conversation
<1>18. ASSUME CancelBlocked PROVE TurnsFollowPhases'
  BY <1>18 DEF CancelBlocked, Commits, PausesWith, Conversation
<1>19. ASSUME Ends PROVE TurnsFollowPhases'
  BY <1>19 DEF Ends, Commits, Conversation
<1>20. ASSUME Restart PROVE TurnsFollowPhases'
  BY <1>20 DEF Restart, Commits
<1>21. ASSUME OtherRuns PROVE TurnsFollowPhases'
  BY <1>21 DEF OtherRuns, Commits, Conversation
<1>22. ASSUME UNCHANGED vars PROVE TurnsFollowPhases'
  BY <1>22 DEF vars, Commits
<1>23. ASSUME RecoveryPauses PROVE TurnsFollowPhases'
  BY <1>23 DEF RecoveryPauses, Commits, PausesWith, Conversation
<1>24. ASSUME Recovered PROVE TurnsFollowPhases'
  BY <1>24 DEF Recovered, Conversation
<1> QED
  BY <1>1, <1>2, <1>3, <1>4, <1>5, <1>6, <1>7, <1>8, <1>9, <1>10, <1>11, <1>12, <1>13, <1>14, <1>15, <1>16, <1>17, <1>18, <1>19, <1>20, <1>21, <1>22, <1>23, <1>24 DEF Next, Client, Daemon

LEMMA CallsStep == IInv /\ [Next]_vars => CallsOK'
<1> SUFFICES ASSUME IInv, [Next]_vars PROVE CallsOK' OBVIOUS
<1> USE TurnAssumption DEF IInv, TypeOK, CallsOK, Idle
<1>1. ASSUME NEW r \in Request, Poll(r) PROVE CallsOK'
  <2> DEFINE q == [request |-> r, owner |-> HostOf[r], code |-> pause]
  <2>1. q \in Question BY <1>1 DEF Poll, Question
  <2>2. call' = [call EXCEPT ![r] = [kind |-> "ask", question |-> q, answer |-> "none"]]
        BY <1>1 DEF Poll, Receives
  <2> QED BY <1>1, <2>1, <2>2 DEF Poll
<1>2. ASSUME NEW r \in Request, Ask(r) PROVE CallsOK'
  BY <1>2 DEF Ask, Returns, Commits
<1>3. ASSUME NEW r \in Request, SubmitAnswer(r) PROVE CallsOK'
  <2>1. PICK a \in Answer :
          call' = [call EXCEPT ![r] = [kind |-> "answer", question |-> turn, answer |-> a]]
        BY <1>3, ListedAnswers DEF SubmitAnswer, Receives
  <2> QED BY <1>3, <2>1 DEF SubmitAnswer, TimelyOK
<1>4. ASSUME NEW r \in Request, ApplyAnswer(r) PROVE CallsOK'
  BY <1>4 DEF ApplyAnswer, Closes, Returns, Continue, PhaseAfter, Commits
<1>5. ASSUME NEW r \in Request, ResumeReviewDecision(r) PROVE CallsOK'
  BY <1>5 DEF ResumeReviewDecision, Closes, Returns, Continue, PhaseAfter, Commits
<1>6. ASSUME NEW r \in Request, RequestCancel(r) PROVE CallsOK'
  BY <1>6 DEF RequestCancel, Receives
<1>7. ASSUME NEW r \in Request, Cancel(r) PROVE CallsOK'
  BY <1>7 DEF Cancel, Closes, Returns, Commits
<1>8. ASSUME NEW r \in Request, Refuse(r) PROVE CallsOK'
  BY <1>8 DEF Refuse, Returns
<1>9. ASSUME Resume PROVE CallsOK'
  BY <1>9 DEF Resume, Continue, PhaseAfter, Commits, Conversation
<1>10. ASSUME AttemptEnds PROVE CallsOK'
  BY <1>10 DEF AttemptEnds, Commits, PausesWith, Conversation
<1>11. ASSUME TreeUnknown PROVE CallsOK'
  BY <1>11 DEF TreeUnknown, Commits, Conversation
<1>12. ASSUME TreeEmpty PROVE CallsOK'
  BY <1>12 DEF TreeEmpty, Conversation
<1>13. ASSUME PublishConflicts PROVE CallsOK'
  BY <1>13 DEF PublishConflicts, Commits, PausesWith, Conversation
<1>14. ASSUME BeginReview PROVE CallsOK'
  BY <1>14 DEF BeginReview, Commits, Conversation
<1>15. ASSUME ReviewDone PROVE CallsOK'
  BY <1>15 DEF ReviewDone, Commits, Conversation
<1>16. ASSUME ReviewPauses PROVE CallsOK'
  BY <1>16 DEF ReviewPauses, Commits, PausesWith, Conversation
<1>17. ASSUME StageFails PROVE CallsOK'
  BY <1>17 DEF StageFails, Commits, PausesWith, Conversation
<1>18. ASSUME CancelBlocked PROVE CallsOK'
  BY <1>18 DEF CancelBlocked, Commits, PausesWith, Conversation
<1>19. ASSUME Ends PROVE CallsOK'
  BY <1>19 DEF Ends, Commits, Conversation
<1>20. ASSUME Restart PROVE CallsOK'
  BY <1>20 DEF Restart, Commits
<1>21. ASSUME OtherRuns PROVE CallsOK'
  BY <1>21 DEF OtherRuns, Commits, Conversation
<1>22. ASSUME UNCHANGED vars PROVE CallsOK'
  BY <1>22 DEF vars, Commits
<1>23. ASSUME RecoveryPauses PROVE CallsOK'
  BY <1>23 DEF RecoveryPauses, Commits, PausesWith, Conversation
<1>24. ASSUME Recovered PROVE CallsOK'
  BY <1>24 DEF Recovered, Conversation
<1> QED
  BY <1>1, <1>2, <1>3, <1>4, <1>5, <1>6, <1>7, <1>8, <1>9, <1>10, <1>11, <1>12, <1>13, <1>14, <1>15, <1>16, <1>17, <1>18, <1>19, <1>20, <1>21, <1>22, <1>23, <1>24 DEF Next, Client, Daemon

LEMMA TimelyStep == IInv /\ [Next]_vars => TimelyOK'
<1> SUFFICES ASSUME IInv, [Next]_vars PROVE TimelyOK' OBVIOUS
<1> USE TurnAssumption DEF IInv, TypeOK, TimelyOK, Idle
<1>1. ASSUME NEW r \in Request, Poll(r) PROVE TimelyOK'
  <2>1. turn \notin Question BY <1>1 DEF Poll
  <2> QED BY <1>1, <2>1 DEF Poll, Receives
<1>2. ASSUME NEW r \in Request, Ask(r) PROVE TimelyOK'
  <2>1. turn' = call[r].question /\ turn' \notin asked /\ turn' \in asked'
        BY <1>2 DEF Ask
  <2>2. \A s \in Request : call'[s].kind = "answer" => call'[s] = call[s]
        BY <1>2 DEF Ask, Returns
  <2>3. \A s \in Request : call'[s].kind = "answer" => call'[s].question # turn'
        BY <2>1, <2>2 DEF CallsOK
  <2> QED BY <2>1, <2>3
<1>3. ASSUME NEW r \in Request, SubmitAnswer(r) PROVE TimelyOK'
  <2>1. timely' = timely \cup {r} /\ turn' = turn /\ asked' = asked BY <1>3 DEF SubmitAnswer
  <2>2. \A s \in Request \ {r} : call'[s] = call[s] BY <1>3 DEF SubmitAnswer, Receives
  <2> QED BY <2>1, <2>2
<1>4. ASSUME turn' \notin Question, CallsOK' PROVE TimelyOK'
  <2>1. asked' \subseteq Question BY TypeStep DEF IInv
  <2> QED BY <1>4, <2>1 DEF CallsOK
<1>5. ASSUME NEW r \in Request,
             ApplyAnswer(r) \/ ResumeReviewDecision(r) \/ Cancel(r)
      PROVE TimelyOK'
  <2>1. turn' = NoTurn BY <1>5 DEF ApplyAnswer, ResumeReviewDecision, Cancel, Closes
  <2> QED BY <2>1, <1>4, CallsStep
<1>6. ASSUME NEW r \in Request, RequestCancel(r) \/ Refuse(r) PROVE TimelyOK'
  <2>1. turn' = turn /\ asked' = asked BY <1>6 DEF RequestCancel, Refuse
  <2>2. \A s \in Request \ {r} : call'[s] = call[s] /\ (s \in timely => s \in timely')
        BY <1>6 DEF RequestCancel, Refuse, Receives, Returns
  <2>3. call'[r].kind # "answer" BY <1>6 DEF RequestCancel, Refuse, Receives, Returns
  <2> QED BY <2>1, <2>2, <2>3
<1>7. ASSUME Restart PROVE TimelyOK'
  BY <1>7 DEF Restart
<1>8. ASSUME turn' \notin Question \/ turn' = turn, UNCHANGED <<call, asked, timely>>
      PROVE TimelyOK'
  <2>1. CASE turn' = turn BY <1>8, <2>1
  <2>2. CASE turn' \notin Question BY <1>4, <2>2, CallsStep
  <2> QED BY <1>8, <2>1, <2>2
<1>9. ASSUME Resume \/ (Daemon /\ ~Restart) \/ UNCHANGED vars PROVE TimelyOK'
  BY <1>9, <1>8 DEF Resume, Daemon, Conversation, vars, AttemptEnds, TreeUnknown, TreeEmpty,
     PublishConflicts, BeginReview, ReviewDone, ReviewPauses, StageFails, CancelBlocked, Ends,
     RecoveryPauses, Recovered, OtherRuns
<1> QED BY <1>1, <1>2, <1>3, <1>5, <1>6, <1>7, <1>9 DEF Next, Client

LEMMA IInvStep == IInv /\ [Next]_vars => IInv'
BY TypeStep, TurnsStep, CallsStep, TimelyStep DEF IInv

LEMMA IInvHolds == Spec => []IInv
<1>1. Init => IInv BY IInvInit
<1>2. IInv /\ [Next]_vars => IInv' BY IInvStep
<1> QED BY <1>1, <1>2, PTL DEF Spec

(* TypeOK holds in every behaviour. *)
THEOREM TypeCorrect == Spec => []TypeOK
<1>1. IInv => TypeOK BY DEF IInv
<1> QED BY <1>1, IInvHolds, PTL

(* Whatever hosts and tasks do, questions are open in paused runs only, and a
   review is under the daemon's turn from its beginning to its end. *)
THEOREM TurnsWithPhases == Spec => []TurnsFollowPhases
<1>1. IInv => TurnsFollowPhases BY DEF IInv
<1> QED BY <1>1, IInvHolds, PTL

(* What keeps a paused run askable: a review begins when no tree is left to check. *)
Askable ==
    /\ PausedCanBeAsked
    /\ phase = "reviewing" => ~ending

LEMMA AskableStep == IInv /\ Askable /\ [Next]_vars => Askable'
<1> SUFFICES ASSUME IInv, Askable, [Next]_vars PROVE Askable' OBVIOUS
<1> USE TurnAssumption, Codes DEF IInv, TypeOK, TurnsFollowPhases, Askable, PausedCanBeAsked
<1>1. ASSUME NEW r \in Request, Poll(r) PROVE Askable'
  BY <1>1 DEF Poll
<1>2. ASSUME NEW r \in Request, Ask(r) PROVE Askable'
  BY <1>2 DEF Ask, CallsOK
<1>3. ASSUME NEW r \in Request, SubmitAnswer(r) PROVE Askable'
  BY <1>3 DEF SubmitAnswer
<1>4. ASSUME NEW r \in Request, ApplyAnswer(r) PROVE Askable'
  BY <1>4 DEF ApplyAnswer, Closes, Continue, PhaseAfter
<1>5. ASSUME NEW r \in Request, ResumeReviewDecision(r) PROVE Askable'
  BY <1>5 DEF ResumeReviewDecision, Closes, Continue, PhaseAfter
<1>6. ASSUME NEW r \in Request, RequestCancel(r) PROVE Askable'
  BY <1>6 DEF RequestCancel
<1>7. ASSUME NEW r \in Request, Cancel(r) PROVE Askable'
  BY <1>7 DEF Cancel, Closes
<1>8. ASSUME NEW r \in Request, Refuse(r) PROVE Askable'
  BY <1>8 DEF Refuse
<1>9. ASSUME Resume PROVE Askable'
  BY <1>9 DEF Resume, Continue, PhaseAfter
<1>10. ASSUME AttemptEnds PROVE Askable'
  BY <1>10 DEF AttemptEnds, PausesWith
<1>11. ASSUME TreeUnknown PROVE Askable'
  BY <1>11 DEF TreeUnknown
<1>12. ASSUME TreeEmpty PROVE Askable'
  BY <1>12 DEF TreeEmpty
<1>13. ASSUME PublishConflicts PROVE Askable'
  BY <1>13 DEF PublishConflicts, PausesWith
<1>14. ASSUME BeginReview PROVE Askable'
  BY <1>14 DEF BeginReview
<1>15. ASSUME ReviewDone PROVE Askable'
  BY <1>15 DEF ReviewDone
<1>16. ASSUME ReviewPauses PROVE Askable'
  BY <1>16 DEF ReviewPauses, PausesWith
<1>17. ASSUME StageFails PROVE Askable'
  BY <1>17 DEF StageFails, PausesWith
<1>18. ASSUME CancelBlocked PROVE Askable'
  BY <1>18 DEF CancelBlocked, PausesWith
<1>19. ASSUME Ends PROVE Askable'
  BY <1>19 DEF Ends
<1>20. ASSUME Restart PROVE Askable'
  BY <1>20 DEF Restart
<1>21. ASSUME OtherRuns PROVE Askable'
  BY <1>21 DEF OtherRuns
<1>22. ASSUME UNCHANGED vars PROVE Askable'
  BY <1>22 DEF vars
<1>23. ASSUME RecoveryPauses PROVE Askable'
  BY <1>23 DEF RecoveryPauses, PausesWith
<1>24. ASSUME Recovered PROVE Askable'
  BY <1>24 DEF Recovered
<1> QED
  BY <1>1, <1>2, <1>3, <1>4, <1>5, <1>6, <1>7, <1>8, <1>9, <1>10, <1>11, <1>12, <1>13, <1>14, <1>15, <1>16, <1>17, <1>18, <1>19, <1>20, <1>21, <1>22, <1>23, <1>24 DEF Next, Client, Daemon

(* A paused run is in nobody's turn or in a host's, unless a failing task of the
   pipeline, or the recovery after a restart, paused it within a review. *)
THEOREM PausesAreAskable == Spec => []PausedCanBeAsked
<1>1. Init => Askable BY DEF Init, Askable, PausedCanBeAsked
<1>2. IInv /\ Askable /\ [Next]_vars => Askable' BY AskableStep
<1>3. Askable => PausedCanBeAsked BY DEF Askable
<1> QED BY <1>1, <1>2, <1>3, IInvHolds, PTL DEF Spec

(* What OwnerDecides says of one step. *)
Decision ==
    turn' # turn /\ turn \in Question =>
      /\ turn' = NoTurn /\ phase' # "paused"
      /\ \E r \in Request :
           /\ HostOf[r] = turn.owner /\ call'[r] = Idle
           /\ call[r].kind = "answer" => call[r].question = turn

LEMMA Decides == IInv /\ [Next]_vars => Decision
<1> SUFFICES ASSUME IInv, [Next]_vars PROVE Decision OBVIOUS
<1> USE TurnAssumption DEF IInv, TypeOK, TurnsFollowPhases
<1>1. ASSUME NEW r \in Request, Poll(r) PROVE Decision
  BY <1>1 DEF Decision, Poll
<1>2. ASSUME NEW r \in Request, Ask(r) PROVE Decision
  <2>1. turn = NoTurn BY <1>2 DEF Ask, CallsOK
  <2> QED BY <2>1 DEF Decision
<1>3. ASSUME NEW r \in Request, SubmitAnswer(r) PROVE Decision
  BY <1>3 DEF Decision, SubmitAnswer
<1>4. ASSUME NEW r \in Request, ApplyAnswer(r) PROVE Decision
  <2> SUFFICES ASSUME turn \in Question PROVE Decision BY DEF Decision
  <2>1. call[r].question = turn /\ turn' = NoTurn BY <1>4 DEF ApplyAnswer, Closes
  <2>2. turn.owner = HostOf[r] BY <1>4, <2>1 DEF ApplyAnswer, Closes, CallsOK
  <2>3. phase' # "paused" BY <1>4 DEF ApplyAnswer, Closes, Continue, PhaseAfter
  <2>4. call'[r] = Idle BY <1>4 DEF ApplyAnswer, Closes, Returns
  <2> QED BY <2>1, <2>2, <2>3, <2>4 DEF Decision
<1>5. ASSUME NEW r \in Request, ResumeReviewDecision(r) PROVE Decision
  <2> SUFFICES ASSUME turn \in Question PROVE Decision BY DEF Decision
  <2>1. call[r].question = turn /\ turn' = NoTurn BY <1>5 DEF ResumeReviewDecision, Closes
  <2>2. turn.owner = HostOf[r] BY <1>5, <2>1 DEF ResumeReviewDecision, Closes, CallsOK
  <2>3. phase' # "paused" BY <1>5 DEF ResumeReviewDecision, Closes, Continue, PhaseAfter
  <2>4. call'[r] = Idle BY <1>5 DEF ResumeReviewDecision, Closes, Returns
  <2> QED BY <2>1, <2>2, <2>3, <2>4 DEF Decision
<1>6. ASSUME NEW r \in Request, RequestCancel(r) PROVE Decision
  BY <1>6 DEF Decision, RequestCancel
<1>7. ASSUME NEW r \in Request, Cancel(r) PROVE Decision
  <2> SUFFICES ASSUME turn \in Question PROVE Decision BY DEF Decision
  <2>1. call'[r] = Idle BY <1>7 DEF Cancel, Closes, Returns
  <2>2. HostOf[r] = turn.owner /\ phase' = "canceling" /\ turn' = NoTurn /\ call[r].kind = "cancel"
        BY <1>7 DEF Cancel, Closes
  <2> QED BY <2>1, <2>2 DEF Decision
<1>8. ASSUME NEW r \in Request, Refuse(r) PROVE Decision
  BY <1>8 DEF Decision, Refuse
<1>9. ASSUME Resume PROVE Decision
  BY <1>9 DEF Decision, Resume
<1>10. ASSUME AttemptEnds PROVE Decision
  BY <1>10 DEF Decision, AttemptEnds, Conversation
<1>11. ASSUME TreeUnknown PROVE Decision
  BY <1>11 DEF Decision, TreeUnknown, Conversation
<1>12. ASSUME TreeEmpty PROVE Decision
  BY <1>12 DEF Decision, TreeEmpty, Conversation
<1>13. ASSUME PublishConflicts PROVE Decision
  BY <1>13 DEF Decision, PublishConflicts, Conversation
<1>14. ASSUME BeginReview PROVE Decision
  BY <1>14 DEF Decision, BeginReview, Conversation
<1>15. ASSUME ReviewDone PROVE Decision
  BY <1>15 DEF Decision, ReviewDone, Conversation
<1>16. ASSUME ReviewPauses PROVE Decision
  BY <1>16 DEF Decision, ReviewPauses, Conversation
<1>17. ASSUME StageFails PROVE Decision
  BY <1>17 DEF Decision, StageFails, Conversation
<1>18. ASSUME CancelBlocked PROVE Decision
  BY <1>18 DEF Decision, CancelBlocked, Conversation
<1>19. ASSUME Ends PROVE Decision
  BY <1>19 DEF Decision, Ends, Conversation
<1>20. ASSUME Restart PROVE Decision
  BY <1>20 DEF Decision, Restart
<1>21. ASSUME OtherRuns PROVE Decision
  BY <1>21 DEF Decision, OtherRuns, Conversation
<1>22. ASSUME UNCHANGED vars PROVE Decision
  BY <1>22 DEF Decision, vars
<1>23. ASSUME RecoveryPauses PROVE Decision
  BY <1>23 DEF Decision, RecoveryPauses, Conversation
<1>24. ASSUME Recovered PROVE Decision
  BY <1>24 DEF Decision, Recovered, Conversation
<1> QED
  BY <1>1, <1>2, <1>3, <1>4, <1>5, <1>6, <1>7, <1>8, <1>9, <1>10, <1>11, <1>12, <1>13, <1>14, <1>15, <1>16, <1>17, <1>18, <1>19, <1>20, <1>21, <1>22, <1>23, <1>24 DEF Next, Client, Daemon

(* No client, task or restart takes an open question from the host that was
   asked; only its own answer to it, or its own cancellation, ends it. *)
THEOREM OwnersDecide == Spec => OwnerDecides
<1>1. IInv /\ [Next]_vars => [Decision]_vars BY Decides
<1>2. [Decision]_vars =>
        [turn' # turn /\ turn \in Question =>
           /\ turn' = NoTurn /\ phase' # "paused"
           /\ \E r \in Request :
                /\ HostOf[r] = turn.owner /\ call'[r] = Idle
                /\ call[r].kind = "answer" => call[r].question = turn]_vars
  BY DEF Decision
<1> QED BY <1>1, <1>2, IInvHolds, PTL DEF Spec, OwnerDecides

(* What AnswersAreTimely says of one step. *)
InTime ==
    \A r \in Request :
      turn \in Question /\ turn' # turn /\ call[r].kind = "answer" /\ call'[r] = Idle
        => r \in timely

LEMMA Timely == IInv /\ [Next]_vars => InTime
<1> SUFFICES ASSUME IInv, [Next]_vars, NEW r \in Request, turn \in Question, turn' # turn,
                    call[r].kind = "answer", call'[r] = Idle
             PROVE r \in timely
  BY DEF InTime
<1> USE TurnAssumption DEF IInv, TypeOK, TurnsFollowPhases
<1>1. ASSUME NEW s \in Request, \A o \in Request \ {s} : call'[o] = call[o] PROVE r = s
  BY <1>1 DEF Idle
<1>2. ASSUME NEW s \in Request, ApplyAnswer(s) PROVE r \in timely
  <2>1. r = s BY <1>2, <1>1 DEF ApplyAnswer, Returns
  <2>2. turn = call[s].question BY <1>2 DEF ApplyAnswer
  <2> QED BY <2>1, <2>2 DEF TimelyOK
<1>3. ASSUME NEW s \in Request, ResumeReviewDecision(s) PROVE r \in timely
  <2>1. r = s BY <1>3, <1>1 DEF ResumeReviewDecision, Returns
  <2>2. turn = call[s].question BY <1>3 DEF ResumeReviewDecision
  <2> QED BY <2>1, <2>2 DEF TimelyOK
<1>4. ASSUME NEW s \in Request, Cancel(s) PROVE FALSE
  <2>1. r = s BY <1>4, <1>1 DEF Cancel, Returns
  <2> QED BY <1>4, <2>1 DEF Cancel
<1>5. ASSUME NEW s \in Request, Ask(s) PROVE FALSE
  BY <1>5 DEF Ask, CallsOK
<1>6. ASSUME NEW s \in Request, Poll(s) \/ SubmitAnswer(s) \/ RequestCancel(s) \/ Refuse(s)
      PROVE FALSE
  BY <1>6 DEF Poll, SubmitAnswer, RequestCancel, Refuse
<1>7. ASSUME Resume PROVE FALSE BY <1>7 DEF Resume
<1>8. ASSUME Daemon PROVE FALSE
  BY <1>8 DEF Daemon, Conversation, AttemptEnds, TreeUnknown, TreeEmpty,
     PublishConflicts, BeginReview, ReviewDone, ReviewPauses, StageFails, CancelBlocked, Ends,
     Restart, RecoveryPauses, Recovered, OtherRuns
<1>9. ~UNCHANGED vars BY DEF vars
<1> QED BY <1>2, <1>3, <1>4, <1>5, <1>6, <1>7, <1>8, <1>9 DEF Next, Client

(* Only an answer that was given since the question was opened ends it. *)
THEOREM AnswersInTime == Spec => AnswersAreTimely
<1>1. IInv /\ [Next]_vars => [InTime]_vars BY Timely
<1>2. [InTime]_vars =>
        [\A r \in Request :
           turn \in Question /\ turn' # turn /\ call[r].kind = "answer" /\ call'[r] = Idle
             => r \in timely]_vars
  BY DEF InTime
<1> QED BY <1>1, <1>2, IInvHolds, PTL DEF Spec, AnswersAreTimely
=============================================================================
