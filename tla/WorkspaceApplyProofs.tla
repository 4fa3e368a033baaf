------------------------ MODULE WorkspaceApplyProofs ------------------------
(***************************************************************************)
(* Proofs about WorkspaceApply, for any number of operations, any edits    *)
(* and any failures.                                                       *)
(***************************************************************************)
EXTENDS WorkspaceApply, FiniteSetTheorems, TLAPS

(* The map of staged files grows over all operations and is emptied as they are
   renamed; what lies in the project is in the map, or is being staged. *)
StagingOK ==
    /\ point \in {"preflight", "storeConflict"} => prepared = {} /\ temporaries = {}
    /\ point = "stage" => prepared = {p \in Path : p < next /\ Type[p] # "DELETE"}
    /\ point = "final" => prepared = {p \in Path : Type[p] # "DELETE"}
    /\ point \in {"stage", "final", "write", "discard"} => temporaries = prepared
    /\ point = "cleanup" => temporaries \subseteq prepared \cup unstaged
    /\ point \in {"observe", "storeFinalConflict"} => temporaries \subseteq unstaged
    /\ TemporariesRemoved

(* What a preflight has passed stays as it is, but for late edits. *)
ChecksOK ==
    /\ CheckedEditsSurvive
    /\ point = "final" =>
         \A p \in Path : p < next /\ p \notin conflicts /\ p \notin late => files[p] = Expected(p)
    /\ point = "write" =>
         \A p \in Path : p >= next /\ p \notin late => files[p] = Expected(p)

Writing == {"write", "cleanup", "observe", "stored"} \cup Ended
Observing == {"observe", "stored"} \cup Ended

(* What has been written and observed stays as it is, but for late edits. *)
ObservedOK ==
    /\ written # {} => point \in Writing
    /\ \A p \in written : files[p] = Target(p) \/ p \in late
    /\ \A p \in Path :
         /\ seen[p] # "none" => point \in Observing
         /\ seen[p] = "COMMITTED" => files[p] = Target(p) \/ p \in late
         /\ seen[p] \in {"CONFLICT", "UNRESOLVED"} /\ p \in written => p \in late

ResultOK ==
    /\ CommittedIsComplete /\ FailureLeavesProject
    /\ result # "none" => point \in {"stored", "returned", "crashed"}
    /\ point \in {"stored", "returned"} => result # "none"

IInv == TypeOK /\ StagingOK /\ ChecksOK /\ ObservedOK /\ ResultOK

LEMMA Contents == \A p \in Path : Expected(p) \in Content /\ Target(p) \in Content
BY DEF Expected, Target, Content

LEMMA IInvInit == Init => IInv
<1> SUFFICES ASSUME Init PROVE IInv OBVIOUS
<1>1. TypeOK BY OperationsAssumption, Contents DEF Init, TypeOK, Point
<1>2. StagingOK BY OperationsAssumption DEF Init, StagingOK, TemporariesRemoved, Path
<1>3. ChecksOK BY DEF Init, ChecksOK, CheckedEditsSurvive
<1>4. ObservedOK /\ ResultOK
  BY DEF Init, ObservedOK, ResultOK, CommittedIsComplete, FailureLeavesProject
<1> QED BY <1>1, <1>2, <1>3, <1>4 DEF IInv

LEMMA StatusIs ==
    /\ Status \in {"COMMITTED", "PARTIAL", "CONFLICT", "UNKNOWN"}
    /\ Status = "COMMITTED" => \A p \in Path : seen[p] = "COMMITTED"
    /\ Status \in {"CONFLICT", "UNKNOWN"} => \A p \in Path : seen[p] # "COMMITTED"
BY DEF Status

LEMMA PathResultIs ==
    ASSUME NEW p \in Path
    PROVE  /\ PathResult(p) \in {"COMMITTED", "CONFLICT", "UNRESOLVED"}
           /\ PathResult(p) = "COMMITTED" <=> files[p] = Target(p)
BY DEF PathResult

LEMMA TypeStep == IInv /\ [Next]_vars => TypeOK'
<1> SUFFICES ASSUME IInv, [Next]_vars PROVE TypeOK' OBVIOUS
<1> USE OperationsAssumption DEF IInv, TypeOK, Path, Point, Ended, Goto, EnterLoop, staging, history
<1>1. TypeOK'
  <2>1. ASSUME CheckFails PROVE TypeOK'
    BY <2>1 DEF CheckFails
  <2>2. ASSUME Preflighted PROVE TypeOK'
    <3>1. CASE conflicts = {} BY <2>2, <3>1 DEF Preflighted
    <3>2. CASE conflicts # {} BY <2>2, <3>2 DEF Preflighted
    <3> QED BY <3>1, <3>2
  <2>3. ASSUME Staged PROVE TypeOK'
    BY <2>3 DEF Staged
  <2>4. ASSUME FinallyChecked PROVE TypeOK'
    <3>1. CASE conflicts = {}
      <4>1. point' = "write" /\ next' = 1 /\ UNCHANGED prepared BY <2>4, <3>1 DEF FinallyChecked
      <4>2. prepared = {p \in Path : p >= 1 /\ Type[p] # "DELETE"}
            BY <2>4 DEF FinallyChecked, StagingOK
      <4> QED BY <2>4, <3>1, <4>1, <4>2 DEF FinallyChecked
    <3>2. CASE conflicts # {} BY <2>4, <3>2 DEF FinallyChecked
    <3> QED BY <3>1, <3>2
  <2>5. ASSUME AllWritten PROVE TypeOK'
    BY <2>5 DEF AllWritten
  <2>6. ASSUME RemovePrepared PROVE TypeOK'
    BY <2>6 DEF RemovePrepared
  <2>7. ASSUME RemoveFails PROVE TypeOK'
    BY <2>7 DEF RemoveFails
  <2>8. ASSUME Store PROVE TypeOK'
    BY <2>8, StatusIs DEF Store
  <2>9. ASSUME StoreFails PROVE TypeOK'
    BY <2>9 DEF StoreFails
  <2>10. ASSUME Return PROVE TypeOK'
    BY <2>10 DEF Return
  <2>11. ASSUME Crash PROVE TypeOK'
    BY <2>11 DEF Crash
  <2>12. ASSUME NEW p \in Path, Check(p) PROVE TypeOK'
    BY <2>12 DEF Check
  <2>13. ASSUME NEW p \in Path, Stage(p) PROVE TypeOK'
    <3>1. prepared' \subseteq Path /\ temporaries' \subseteq Path BY <2>13 DEF Stage
    <3> QED BY <2>13, <3>1 DEF Stage
  <2>14. ASSUME NEW p \in Path, StageFails(p) PROVE TypeOK'
    BY <2>14 DEF StageFails
  <2>15. ASSUME NEW p \in Path, Write(p) PROVE TypeOK'
    BY <2>15, Contents DEF Write
  <2>16. ASSUME NEW p \in Path, WriteFails(p) PROVE TypeOK'
    BY <2>16 DEF WriteFails
  <2>17. ASSUME NEW p \in Path, Observe(p) PROVE TypeOK'
    BY <2>17, PathResultIs DEF Observe
  <2>18. ASSUME NEW p \in Path, Edit(p) PROVE TypeOK'
    BY <2>18 DEF Edit
  <2>19. UNCHANGED vars => TypeOK'
    BY DEF vars
  <2> QED BY <2>1, <2>2, <2>3, <2>4, <2>5, <2>6, <2>7, <2>8, <2>9, <2>10, <2>11, <2>12, <2>13, <2>14, <2>15, <2>16, <2>17, <2>18, <2>19 DEF Next, Step
<1> QED BY <1>1

LEMMA StagingStep == IInv /\ [Next]_vars => StagingOK'
<1> SUFFICES ASSUME IInv, [Next]_vars PROVE StagingOK' OBVIOUS
<1> USE OperationsAssumption
    DEF IInv, StagingOK, TemporariesRemoved, TypeOK, Path, Ended, Goto, EnterLoop, staging, history
<1>1. StagingOK'
  <2>1. ASSUME CheckFails PROVE StagingOK'
    BY <2>1 DEF CheckFails, ResultOK
  <2>2. ASSUME Preflighted PROVE StagingOK'
    <3>1. CASE conflicts = {}
      <4>1. point' = "stage" /\ next' = 1 /\ UNCHANGED <<prepared, temporaries, result>>
            BY <2>2, <3>1 DEF Preflighted
      <4>2. prepared = {p \in Path : p < 1 /\ Type[p] # "DELETE"}
        <5>1. prepared = {} BY <2>2 DEF Preflighted
        <5>2. \A p \in Path : ~(p < 1) OBVIOUS
        <5> QED BY <5>1, <5>2
      <4> QED BY <2>2, <4>1, <4>2 DEF Preflighted, ResultOK
    <3>2. CASE conflicts # {} BY <2>2, <3>2 DEF Preflighted, ResultOK
    <3> QED BY <3>1, <3>2
  <2>3. ASSUME Staged PROVE StagingOK'
    BY <2>3 DEF Staged, ResultOK
  <2>4. ASSUME FinallyChecked PROVE StagingOK'
    BY <2>4 DEF FinallyChecked, ResultOK
  <2>5. ASSUME AllWritten PROVE StagingOK'
    BY <2>5 DEF AllWritten, ResultOK
  <2>6. ASSUME RemovePrepared PROVE StagingOK'
    BY <2>6 DEF RemovePrepared, ResultOK
  <2>7. ASSUME RemoveFails PROVE StagingOK'
    BY <2>7 DEF RemoveFails, ResultOK
  <2>8. ASSUME Store PROVE StagingOK'
    BY <2>8 DEF Store, ResultOK
  <2>9. ASSUME StoreFails PROVE StagingOK'
    BY <2>9 DEF StoreFails, ResultOK
  <2>10. ASSUME Return PROVE StagingOK'
    BY <2>10 DEF Return, ResultOK
  <2>11. ASSUME Crash PROVE StagingOK'
    BY <2>11 DEF Crash, ResultOK
  <2>12. ASSUME NEW p \in Path, Check(p) PROVE StagingOK'
    BY <2>12 DEF Check, ResultOK
  <2>13. ASSUME NEW p \in Path, Stage(p) PROVE StagingOK'
    <3>1. point' = "stage" /\ next' = p + 1 /\ UNCHANGED result BY <2>13 DEF Stage
    <3>2. temporaries' = prepared'
      <4>1. temporaries = prepared BY <2>13 DEF Stage
      <4>2. \/ UNCHANGED <<temporaries, prepared>>
            \/ temporaries' = temporaries \cup {p} /\ prepared' = prepared \cup {p}
        BY <2>13 DEF Stage
      <4> HIDE DEF IInv, StagingOK, TypeOK
      <4> QED BY <4>1, <4>2
    <3>3. prepared' = {q \in Path : q < p + 1 /\ Type[q] # "DELETE"}
      <4>1. prepared = {q \in Path : q < p /\ Type[q] # "DELETE"} BY <2>13 DEF Stage
      <4>2. CASE Type[p] = "DELETE" BY <2>13, <4>1, <4>2 DEF Stage
      <4>3. CASE Type[p] # "DELETE" BY <2>13, <4>1, <4>3 DEF Stage
      <4> QED BY <4>2, <4>3
    <3>4. result = "none" BY <2>13 DEF Stage, ResultOK
    <3> QED BY <3>1, <3>2, <3>3, <3>4
  <2>14. ASSUME NEW p \in Path, StageFails(p) PROVE StagingOK'
    BY <2>14 DEF StageFails, ResultOK
  <2>15. ASSUME NEW p \in Path, Write(p) PROVE StagingOK'
    BY <2>15 DEF Write, ResultOK
  <2>16. ASSUME NEW p \in Path, WriteFails(p) PROVE StagingOK'
    BY <2>16 DEF WriteFails, ResultOK
  <2>17. ASSUME NEW p \in Path, Observe(p) PROVE StagingOK'
    BY <2>17 DEF Observe
  <2>18. ASSUME NEW p \in Path, Edit(p) PROVE StagingOK'
    BY <2>18 DEF Edit
  <2>19. UNCHANGED vars => StagingOK'
    BY DEF vars
  <2> QED BY <2>1, <2>2, <2>3, <2>4, <2>5, <2>6, <2>7, <2>8, <2>9, <2>10, <2>11, <2>12, <2>13, <2>14, <2>15, <2>16, <2>17, <2>18, <2>19 DEF Next, Step
<1> QED BY <1>1

LEMMA ChecksStep == IInv /\ [Next]_vars => ChecksOK'
<1> SUFFICES ASSUME IInv, [Next]_vars PROVE ChecksOK' OBVIOUS
<1> USE OperationsAssumption
    DEF IInv, ChecksOK, CheckedEditsSurvive, TypeOK, Path, Ended, Goto, EnterLoop, staging, history,
        Expected
<1>1. ChecksOK'
  <2>1. ASSUME CheckFails PROVE ChecksOK'
    BY <2>1 DEF CheckFails
  <2>2. ASSUME Preflighted PROVE ChecksOK'
    BY <2>2 DEF Preflighted
  <2>3. ASSUME Staged PROVE ChecksOK'
    BY <2>3 DEF Staged
  <2>4. ASSUME FinallyChecked PROVE ChecksOK'
    BY <2>4 DEF FinallyChecked
  <2>5. ASSUME AllWritten PROVE ChecksOK'
    BY <2>5 DEF AllWritten
  <2>6. ASSUME RemovePrepared PROVE ChecksOK'
    BY <2>6 DEF RemovePrepared
  <2>7. ASSUME RemoveFails PROVE ChecksOK'
    BY <2>7 DEF RemoveFails
  <2>8. ASSUME Store PROVE ChecksOK'
    BY <2>8 DEF Store
  <2>9. ASSUME StoreFails PROVE ChecksOK'
    BY <2>9 DEF StoreFails
  <2>10. ASSUME Return PROVE ChecksOK'
    BY <2>10 DEF Return
  <2>11. ASSUME Crash PROVE ChecksOK'
    BY <2>11 DEF Crash
  <2>12. ASSUME NEW p \in Path, Check(p) PROVE ChecksOK'
    BY <2>12 DEF Check
  <2>13. ASSUME NEW p \in Path, Stage(p) PROVE ChecksOK'
    BY <2>13 DEF Stage
  <2>14. ASSUME NEW p \in Path, StageFails(p) PROVE ChecksOK'
    BY <2>14 DEF StageFails
  <2>15. ASSUME NEW p \in Path, Write(p) PROVE ChecksOK'
    BY <2>15 DEF Write
  <2>16. ASSUME NEW p \in Path, WriteFails(p) PROVE ChecksOK'
    BY <2>16 DEF WriteFails
  <2>17. ASSUME NEW p \in Path, Observe(p) PROVE ChecksOK'
    BY <2>17 DEF Observe
  <2>18. ASSUME NEW p \in Path, Edit(p) PROVE ChecksOK'
    BY <2>18 DEF Edit, Unchecked
  <2>19. UNCHANGED vars => ChecksOK'
    BY DEF vars
  <2> QED BY <2>1, <2>2, <2>3, <2>4, <2>5, <2>6, <2>7, <2>8, <2>9, <2>10, <2>11, <2>12, <2>13, <2>14, <2>15, <2>16, <2>17, <2>18, <2>19 DEF Next, Step
<1> QED BY <1>1

LEMMA ObservedStep == IInv /\ [Next]_vars => ObservedOK'
<1> SUFFICES ASSUME IInv, [Next]_vars PROVE ObservedOK' OBVIOUS
<1> USE OperationsAssumption
    DEF IInv, ObservedOK, TypeOK, Path, Ended, Writing, Observing, Goto, EnterLoop, staging, history, Target
<1>1. ObservedOK'
  <2>1. ASSUME CheckFails PROVE ObservedOK'
    BY <2>1 DEF CheckFails
  <2>2. ASSUME Preflighted PROVE ObservedOK'
    BY <2>2 DEF Preflighted
  <2>3. ASSUME Staged PROVE ObservedOK'
    BY <2>3 DEF Staged
  <2>4. ASSUME FinallyChecked PROVE ObservedOK'
    BY <2>4 DEF FinallyChecked
  <2>5. ASSUME AllWritten PROVE ObservedOK'
    BY <2>5 DEF AllWritten
  <2>6. ASSUME RemovePrepared PROVE ObservedOK'
    BY <2>6 DEF RemovePrepared
  <2>7. ASSUME RemoveFails PROVE ObservedOK'
    BY <2>7 DEF RemoveFails
  <2>8. ASSUME Store PROVE ObservedOK'
    BY <2>8 DEF Store
  <2>9. ASSUME StoreFails PROVE ObservedOK'
    BY <2>9 DEF StoreFails
  <2>10. ASSUME Return PROVE ObservedOK'
    BY <2>10 DEF Return
  <2>11. ASSUME Crash PROVE ObservedOK'
    BY <2>11 DEF Crash
  <2>12. ASSUME NEW p \in Path, Check(p) PROVE ObservedOK'
    BY <2>12 DEF Check
  <2>13. ASSUME NEW p \in Path, Stage(p) PROVE ObservedOK'
    BY <2>13 DEF Stage
  <2>14. ASSUME NEW p \in Path, StageFails(p) PROVE ObservedOK'
    BY <2>14 DEF StageFails
  <2>15. ASSUME NEW p \in Path, Write(p) PROVE ObservedOK'
    BY <2>15 DEF Write
  <2>16. ASSUME NEW p \in Path, WriteFails(p) PROVE ObservedOK'
    BY <2>16 DEF WriteFails
  <2>17. ASSUME NEW p \in Path, Observe(p) PROVE ObservedOK'
    BY <2>17, PathResultIs DEF Observe
  <2>18. ASSUME NEW p \in Path, Edit(p) PROVE ObservedOK'
    BY <2>18 DEF Edit, Unchecked
  <2>19. UNCHANGED vars => ObservedOK'
    BY DEF vars
  <2> QED BY <2>1, <2>2, <2>3, <2>4, <2>5, <2>6, <2>7, <2>8, <2>9, <2>10, <2>11, <2>12, <2>13, <2>14, <2>15, <2>16, <2>17, <2>18, <2>19 DEF Next, Step
<1> QED BY <1>1

LEMMA ResultStep == IInv /\ [Next]_vars => ResultOK'
<1> SUFFICES ASSUME IInv, [Next]_vars PROVE ResultOK' OBVIOUS
<1> USE OperationsAssumption
    DEF IInv, ResultOK, CommittedIsComplete, FailureLeavesProject, Complete, Untouched, TypeOK, Path, Ended, Goto,
        EnterLoop, staging, history, Target
<1>1. ResultOK'
  <2>1. ASSUME CheckFails PROVE ResultOK'
    BY <2>1 DEF CheckFails
  <2>2. ASSUME Preflighted PROVE ResultOK'
    BY <2>2 DEF Preflighted
  <2>3. ASSUME Staged PROVE ResultOK'
    BY <2>3 DEF Staged
  <2>4. ASSUME FinallyChecked PROVE ResultOK'
    BY <2>4 DEF FinallyChecked
  <2>5. ASSUME AllWritten PROVE ResultOK'
    BY <2>5 DEF AllWritten
  <2>6. ASSUME RemovePrepared PROVE ResultOK'
    BY <2>6 DEF RemovePrepared
  <2>7. ASSUME RemoveFails PROVE ResultOK'
    BY <2>7 DEF RemoveFails
  <2>8. ASSUME Store PROVE ResultOK'
    BY <2>8, StatusIs DEF Store, AllSeen, ObservedOK, Writing
  <2>9. ASSUME StoreFails PROVE ResultOK'
    BY <2>9 DEF StoreFails
  <2>10. ASSUME Return PROVE ResultOK'
    BY <2>10 DEF Return
  <2>11. ASSUME Crash PROVE ResultOK'
    BY <2>11 DEF Crash
  <2>12. ASSUME NEW p \in Path, Check(p) PROVE ResultOK'
    BY <2>12 DEF Check
  <2>13. ASSUME NEW p \in Path, Stage(p) PROVE ResultOK'
    BY <2>13 DEF Stage
  <2>14. ASSUME NEW p \in Path, StageFails(p) PROVE ResultOK'
    BY <2>14 DEF StageFails
  <2>15. ASSUME NEW p \in Path, Write(p) PROVE ResultOK'
    BY <2>15 DEF Write
  <2>16. ASSUME NEW p \in Path, WriteFails(p) PROVE ResultOK'
    BY <2>16 DEF WriteFails
  <2>17. ASSUME NEW p \in Path, Observe(p) PROVE ResultOK'
    BY <2>17 DEF Observe
  <2>18. ASSUME NEW p \in Path, Edit(p) PROVE ResultOK'
    BY <2>18 DEF Edit, Unchecked
  <2>19. UNCHANGED vars => ResultOK'
    BY DEF vars
  <2> QED BY <2>1, <2>2, <2>3, <2>4, <2>5, <2>6, <2>7, <2>8, <2>9, <2>10, <2>11, <2>12, <2>13, <2>14, <2>15, <2>16, <2>17, <2>18, <2>19 DEF Next, Step
<1> QED BY <1>1

LEMMA IInvStep == IInv /\ [Next]_vars => IInv'
BY TypeStep, StagingStep, ChecksStep, ObservedStep, ResultStep DEF IInv

LEMMA Invariance == Spec => []IInv
<1>1. Init => IInv BY IInvInit
<1>2. IInv /\ [Next]_vars => IInv' BY IInvStep
<1> QED BY <1>1, <1>2, PTL DEF Spec

\* The state of an apply has its types, and every staged file is renamed.
THEOREM TypeCorrect == Spec => []TypeOK
<1>1. IInv => TypeOK BY DEF IInv
<1> QED BY <1>1, Invariance, PTL

\* No failure of any file system call makes apply() overwrite an edit that the
\* final preflight could see.
THEOREM EditsSurvive == Spec => []CheckedEditsSurvive
<1>1. IInv => CheckedEditsSurvive BY DEF IInv, ChecksOK
<1> QED BY <1>1, Invariance, PTL

\* The stored result tells the truth: COMMITTED of all paths, CONFLICT and UNKNOWN
\* of none; and the project is left clean.
THEOREM ResultIsTrue ==
    Spec => [](CommittedIsComplete /\ FailureLeavesProject /\ TemporariesRemoved)
<1>1. IInv => CommittedIsComplete /\ FailureLeavesProject /\ TemporariesRemoved
  BY DEF IInv, ResultOK, StagingOK
<1> QED BY <1>1, Invariance, PTL

\* Of the same: whatever was edited or failed, a stored COMMITTED is of every file.
THEOREM CommitsAreComplete == Spec => []CommittedIsComplete
<1>1. IInv => CommittedIsComplete
  BY DEF IInv, ResultOK
<1> QED BY <1>1, Invariance, PTL

\* apply() implements what publishing relies on: one result, stored before it is
\* reported, that is true of the project.
THEOREM Refinement == Spec => RefinesApplyOutcome
<1> DEFINE Call == IF point \in Ended THEN point ELSE "running"
           Maps == \/ Outcome!Change \/ Outcome!Store \/ Outcome!End
                   \/ UNCHANGED Outcome!vars
<1> USE DEF Ended, Goto, EnterLoop, staging, history
<1>1. Init => Outcome!Init
  <2> SUFFICES ASSUME Init PROVE Outcome!Init
    OBVIOUS
  <2>1. ~Complete
    <3>1. 1 \in Path
      BY OperationsAssumption DEF Path
    <3>2. files[1] # Target(1) /\ late = {}
      BY <3>1 DEF Init, Expected, Target
    <3> QED
      BY <3>1, <3>2 DEF Complete
  <2>2. Untouched
    BY DEF Init, Untouched
  <2> QED
    BY <2>1, <2>2 DEF Init, Outcome!Init, Complete, Untouched
<1>2. ASSUME IInv, IInv', UNCHANGED <<result, Call>>, Call = "running"
      PROVE  Maps
  <2>1. (result = "COMMITTED" => Complete') /\ (result \in {"CONFLICT", "UNKNOWN"} => Untouched')
    BY <1>2 DEF IInv, ResultOK, CommittedIsComplete, FailureLeavesProject
  <2>2. Complete' \in BOOLEAN /\ Untouched' \in BOOLEAN
    BY DEF Complete, Untouched
  <2> QED
    BY <1>2, <2>1, <2>2 DEF Outcome!Change, Outcome!IsTrue
<1>3. ASSUME IInv, IInv', Store PROVE Maps
  <2>1. UNCHANGED <<files, late, written, Call>> /\ Call = "running" /\ result = "none"
        /\ result' \in {"COMMITTED", "CONFLICT", "PARTIAL", "UNKNOWN"}
    BY <1>3, StatusIs DEF Store, IInv, ResultOK
  <2>2. Complete' = Complete /\ Untouched' = Untouched
    BY <2>1 DEF Complete, Untouched
  <2>3. (result' = "COMMITTED" => Complete') /\ (result' \in {"CONFLICT", "UNKNOWN"} => Untouched')
    BY <1>3 DEF IInv, ResultOK, CommittedIsComplete, FailureLeavesProject
  <2>4. Outcome!IsTrue(result', Complete, Untouched)
    BY <2>2, <2>3 DEF Outcome!IsTrue
  <2>5. Outcome!Store
    BY <2>1, <2>2, <2>4 DEF Outcome!Store
  <2> QED
    BY <2>5
<1>4. ASSUME IInv, UNCHANGED <<files, late, written, result>>, Call = "running",
             \/ result # "none" /\ point' = "returned"
             \/ result = "none" /\ point' = "thrown"
             \/ point' = "crashed"
      PROVE  Maps
  <2>1. Complete' = Complete /\ Untouched' = Untouched
    BY <1>4 DEF Complete, Untouched
  <2>2. Call' = point'
    BY <1>4
  <2>3. Outcome!End
    BY <1>4, <2>1, <2>2 DEF Outcome!End
  <2> QED
    BY <2>3
<1>5. IInv /\ IInv' /\ [Next]_vars => Maps
  <2> SUFFICES ASSUME IInv, IInv', [Next]_vars PROVE Maps
    OBVIOUS
  <2> USE DEF IInv, ResultOK
  <2> HIDE DEF Maps
  <2>1. ASSUME CheckFails PROVE Maps
    BY <2>1, <1>2, <1>4 DEF CheckFails
  <2>2. ASSUME Preflighted \/ Staged \/ FinallyChecked \/ AllWritten \/ RemovePrepared PROVE Maps
    BY <2>2, <1>2 DEF Preflighted, Staged, FinallyChecked, AllWritten, RemovePrepared
  <2>3. ASSUME RemoveFails PROVE Maps
    BY <2>3, <1>2, <1>4 DEF RemoveFails
  <2>4. ASSUME StoreFails PROVE Maps
    BY <2>4, <1>2, <1>4 DEF StoreFails
  <2>5. ASSUME Return \/ Crash PROVE Maps
    BY <2>5, <1>4 DEF Return, Crash
  <2>6. ASSUME NEW p \in Path, Check(p) \/ Stage(p) \/ StageFails(p) PROVE Maps
    BY <2>6, <1>2 DEF Check, Stage, StageFails
  <2>7. ASSUME NEW p \in Path, Write(p) \/ WriteFails(p) \/ Observe(p) PROVE Maps
    BY <2>7, <1>2 DEF Write, WriteFails, Observe
  <2>8. ASSUME NEW p \in Path, Edit(p) PROVE Maps
    BY <2>8, <1>2 DEF Edit
  <2>9. CASE UNCHANGED vars
    <3>1. UNCHANGED <<files, late, written, result, Call>>
      BY <2>9 DEF vars
    <3>2. Complete' = Complete /\ Untouched' = Untouched
      BY <3>1 DEF Complete, Untouched
    <3> QED
      BY <3>1, <3>2 DEF Maps, Outcome!vars
  <2> QED
    BY <1>3, <2>1, <2>2, <2>3, <2>4, <2>5, <2>6, <2>7, <2>8, <2>9 DEF Next, Step
<1>6. IInv /\ IInv' /\ [Next]_vars => [Outcome!Change \/ Outcome!Store \/ Outcome!End]_Outcome!vars
  BY <1>5
<1> QED BY <1>1, <1>6, Invariance, PTL DEF Spec, RefinesApplyOutcome, Outcome!Spec

-----------------------------------------------------------------------------
(* The work of an apply is finite: a measure that every step lowers. *)

\* Through how many points apply() can still come, at most.
StepsAhead(l) ==
    CASE l = "preflight" -> 8
      [] l = "stage"     -> 7
      [] l = "final"     -> 6
      [] l = "discard"   -> 5
      [] l \in {"write", "storeFinalConflict"} -> 4
      [] l = "cleanup"   -> 3
      [] l \in {"observe", "storeConflict"} -> 2
      [] l = "stored"    -> 1
      [] l \in Ended    -> 0

Unseen == {p \in Path : seen[p] = "none"}

\* The lexicographic order of edits, points, rounds of a loop, observations.
LessToDo ==
    \/ edits' < edits
    \/ edits' = edits /\ StepsAhead(point') < StepsAhead(point)
    \/ edits' = edits /\ point' = point /\ Paths - next' < Paths - next
    \/ edits' = edits /\ point' = point /\ next' = next
       /\ Cardinality(Unseen') < Cardinality(Unseen)

WorkIsCounted ==
    /\ edits \in Nat /\ StepsAhead(point) \in Nat /\ Paths + 1 - next \in Nat
    /\ IsFiniteSet(Unseen) /\ Cardinality(Unseen) \in Nat

LEMMA Countable == IInv => WorkIsCounted
<1> SUFFICES ASSUME IInv PROVE WorkIsCounted OBVIOUS
<1>1. edits \in Nat /\ Paths + 1 - next \in Nat
  BY OperationsAssumption DEF IInv, TypeOK
<1>2. StepsAhead(point) \in Nat
  BY DEF IInv, TypeOK, Point, StepsAhead
<1>3. IsFiniteSet(Path)
  BY OperationsAssumption, FS_Interval DEF Path
<1>4. IsFiniteSet(Unseen)
  BY <1>3, FS_Subset DEF Unseen
<1> QED
  BY <1>1, <1>2, <1>4, FS_CardinalityType DEF WorkIsCounted

LEMMA RoundIsLess ==
  ASSUME IInv, next' = next + 1, UNCHANGED <<edits, point>>
  PROVE  LessToDo
BY OperationsAssumption DEF IInv, TypeOK, LessToDo

LEMMA ObservationIsLess ==
  ASSUME IInv, NEW p \in Path, Observe(p)
  PROVE  LessToDo
<1>1. Unseen' = Unseen \ {p} /\ p \in Unseen
  <2>1. seen' = [seen EXCEPT ![p] = PathResult(p)] /\ seen[p] = "none"
    BY DEF Observe
  <2>2. PathResult(p) # "none"
    BY DEF PathResult
  <2> QED
    BY <2>1, <2>2 DEF Unseen, IInv, TypeOK
<1>2. IsFiniteSet(Unseen) /\ Cardinality(Unseen) \in Nat
  BY Countable DEF WorkIsCounted
<1>3. Cardinality(Unseen \ {p}) = Cardinality(Unseen) - 1
  BY <1>1, <1>2, FS_RemoveElement
<1>4. Cardinality(Unseen') < Cardinality(Unseen)
  BY <1>1, <1>2, <1>3
<1> QED
  BY <1>4 DEF Observe, LessToDo

\* Each part of the measure is a natural number.
LEMMA WorkIsFinite == Spec => []WorkIsCounted
<1> QED BY Countable, Invariance, PTL

\* Whatever the user edits and whichever call fails, every step brings apply()
\* nearer to its end: nothing that the catch block leads to is caught by it again
\* (what it observes and stores lies behind it), and no loop starts over.
THEOREM WorkRunsOut == Spec => []WorkIsCounted /\ [][LessToDo]_vars
<1>1. ASSUME IInv, Next PROVE LessToDo
  <2> USE DEF Goto, EnterLoop, StepsAhead, Ended, LessToDo
  <2>1. CASE CheckFails BY <2>1 DEF CheckFails
  <2>2. CASE Preflighted BY <2>2 DEF Preflighted
  <2>3. CASE Staged BY <2>3 DEF Staged
  <2>4. CASE FinallyChecked BY <2>4 DEF FinallyChecked
  <2>5. CASE AllWritten BY <2>5 DEF AllWritten
  <2>6. CASE RemovePrepared BY <2>6 DEF RemovePrepared
  <2>7. CASE RemoveFails BY <2>7 DEF RemoveFails
  <2>8. CASE Store BY <2>8 DEF Store
  <2>9. CASE StoreFails BY <2>9 DEF StoreFails
  <2>10. CASE Return BY <2>10 DEF Return
  <2>11. CASE Crash BY <1>1, <2>11 DEF Crash, IInv, TypeOK, Point
  <2>12. ASSUME NEW p \in Path, Check(p) \/ Stage(p) \/ Write(p) PROVE LessToDo
    BY <1>1, <2>12, RoundIsLess DEF Check, Stage, Write
  <2>13. ASSUME NEW p \in Path, StageFails(p) \/ WriteFails(p) PROVE LessToDo
    BY <2>13 DEF StageFails, WriteFails
  <2>14. ASSUME NEW p \in Path, Observe(p) PROVE LessToDo
    BY <1>1, <2>14, ObservationIsLess
  <2>15. ASSUME NEW p \in Path, Edit(p) PROVE LessToDo
    BY <1>1, <2>15 DEF Edit, IInv, TypeOK
  <2> QED
    BY <1>1, <2>1, <2>2, <2>3, <2>4, <2>5, <2>6, <2>7, <2>8, <2>9, <2>10, <2>11, <2>12, <2>13,
       <2>14, <2>15 DEF Next, Step
<1>2. IInv /\ [Next]_vars => [LessToDo]_vars
  BY <1>1
<1> QED BY WorkIsFinite, <1>2, Invariance, PTL DEF Spec
=============================================================================
