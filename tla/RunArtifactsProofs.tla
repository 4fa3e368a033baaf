------------------------- MODULE RunArtifactsProofs -------------------------
(***************************************************************************)
(* For every set of trees and reviewers, every limit and number of         *)
(* attempts, with or without review: the evidence that a run's record      *)
(* holds fits together after every step.                                   *)
(***************************************************************************)
EXTENDS RunArtifacts, SequenceTheorems, TLAPS

PausedWith(codes) == run.phase = "PAUSED" /\ run.pause \in codes

\* What is published, or comes back to it.
Publishable ==
    \/ run.phase \in {"READY_TO_PUBLISH", "PUBLISHING", "COMPLETED"}
    \/ PausedWith(PublishPause \cup {"PUBLISH_STAGE_FAILED"})

\* Before the candidate, or back to the worker.
Unworked == run.phase \in {"PREPARING", "RUNNING"} \/ PausedWith({"PROBE_FAILED", "ATTEMPT_FAILED"})

\* An action is left behind by the turn alone, or in a run that only a cancellation ends.
Reviewable ==
    \/ run.phase \in {"REVIEW_PENDING", "REVIEWING", "CANCELING", "CANCELED"}
    \/ PausedWith({"HOST_REVIEW_UNAVAILABLE", "STAGE_FAILED", "RECOVERY_BLOCKED",
                   "PROCESS_RECONCILIATION"})
    \/ PausedWith({"APPROVED_SOURCE_DRIFT"}) /\ run.resumeReview

-----------------------------------------------------------------------------
(* What holds of every run, whatever was restored. *)

\* The result is what the last attempt left; while a worker runs there is none.
ResultIsLast ==
    /\ run.result # None => /\ run.attempts # <<>> /\ Last.status = "COMPLETED"
                            /\ Last.tree = run.result
    /\ run.phase = "RUNNING" => run.result = None /\ run.input # None /\ run.workspace

\* The repair to be continued, and its source.
ContinuationKept ==
    run.continuation # None =>
      /\ run.result = None /\ run.round
      /\ run.continuation.seed = run.input
      /\ Completed(run.continuation.source)
      /\ run.attempts[run.continuation.source].session = run.continuation.session
      /\ run.attempts[run.continuation.source].tree = run.continuation.seed

\* The action is of the last attempt.
ActionIsLast ==
    run.action # None =>
      /\ Reviewable /\ run.attempts # <<>>
      /\ run.action.id = Len(run.attempts) /\ run.action.tree = Last.tree

\* What can be published was left by the last attempt and, if need be, accepted.
PublishableIsLast ==
    Publishable =>
      /\ run.attempts # <<>> /\ run.candidate = Last.tree /\ run.candidate # None
      /\ ReviewEnabled => /\ Approved
                          /\ run.review.tree = Last.tree

\* A task that was scheduled to publish does nothing else.
PublisherPublishes ==
    task.key = "publish" => run.phase \in {"READY_TO_PUBLISH", "PUBLISHING"}

Kept ==
    /\ TypeOK
    /\ ResultIsLast /\ ContinuationKept /\ ActionIsLast
    /\ PublishableIsLast /\ PublisherPublishes

-----------------------------------------------------------------------------
(* What holds unless tasks were restored under a candidate. *)

CandidateIsResult ==
    /\ run.captured = run.candidate /\ run.result = run.candidate
    /\ run.candidate # None => run.workspace /\ run.input # None
    /\ run.candidate = None => /\ run.review = None /\ run.leader = None
                               /\ run.publish = None /\ run.action = None
    /\ run.untrusted # None => run.untrusted = run.candidate

CandidateWhereRequired ==
    /\ Unworked => run.candidate = None
    /\ CandidateRequired =>
         \/ run.candidate # None
         \/ misfiled /\ PausedWith({"HOST_REVIEW_UNAVAILABLE"})

\* Review, decision and publish attempt are of one candidate.
EvidenceFits == ReviewBound /\ LeaderBound /\ PublishBound

\* Every entry of the history is of an attempt that was captured.
HistoryIsCaptured ==
    \A e \in run.history : e.id \in DOMAIN run.attempts /\ run.attempts[e.id].tree # None

ActionFits ==
    /\ run.action # None =>
         /\ run.review = None /\ run.leader = None /\ run.publish = None
         /\ run.candidate = run.action.tree
         /\ ReviewerContext
    /\ run.phase \in {"REVIEW_PENDING", "REVIEWING"} => run.action # None
    /\ run.resumeReview =>
         \/ run.phase \in {"CANCELING"} \cup Terminal
         \/ PausedWith({"PROCESS_RECONCILIATION", "RECOVERY_BLOCKED"})
         \/ PausedWith({"APPROVED_SOURCE_DRIFT"}) /\ run.action # None

Fits ==
    /\ CandidateIsResult /\ CandidateWhereRequired /\ EvidenceFits
    /\ HistoryIsCaptured /\ ActionFits

IInv == Kept /\ (restored \/ Fits)

-----------------------------------------------------------------------------
(* The record. *)

\* A step that changes no evidence: only where the run is.
SameEvidence ==
    /\ run'.attempts = run.attempts /\ run'.workspace = run.workspace
    /\ run'.input = run.input /\ run'.result = run.result
    /\ run'.captured = run.captured /\ run'.candidate = run.candidate
    /\ run'.action = run.action /\ run'.review = run.review /\ run'.leader = run.leader
    /\ run'.history = run.history /\ run'.round = run.round
    /\ run'.continuation = run.continuation /\ run'.untrusted = run.untrusted
    /\ run'.publish = run.publish

\* Each field by itself.
LEMMA PhaseField ==
    ASSUME NEW r \in Run, NEW v \in Phase
    PROVE  [r EXCEPT !.phase = v] \in Run
BY DEF Run

LEMMA PauseField ==
    ASSUME NEW r \in Run, NEW v \in PauseCode \cup {"none"}
    PROVE  [r EXCEPT !.pause = v] \in Run
BY DEF Run

LEMMA AttemptsField ==
    ASSUME NEW r \in Run, NEW v \in Seq(Attempt)
    PROVE  [r EXCEPT !.attempts = v] \in Run
BY DEF Run

LEMMA WorkspaceField ==
    ASSUME NEW r \in Run, NEW v \in BOOLEAN
    PROVE  [r EXCEPT !.workspace = v] \in Run
BY DEF Run

LEMMA InputField ==
    ASSUME NEW r \in Run, NEW v \in Snapshot \cup {None}
    PROVE  [r EXCEPT !.input = v] \in Run
BY DEF Run

LEMMA ResultField ==
    ASSUME NEW r \in Run, NEW v \in Tree \cup {None}
    PROVE  [r EXCEPT !.result = v] \in Run
BY DEF Run

LEMMA CapturedField ==
    ASSUME NEW r \in Run, NEW v \in Tree \cup {None}
    PROVE  [r EXCEPT !.captured = v] \in Run
BY DEF Run

LEMMA CandidateField ==
    ASSUME NEW r \in Run, NEW v \in Tree \cup {None}
    PROVE  [r EXCEPT !.candidate = v] \in Run
BY DEF Run

LEMMA ActionField ==
    ASSUME NEW r \in Run, NEW v \in Action \cup {None}
    PROVE  [r EXCEPT !.action = v] \in Run
BY DEF Run

LEMMA ReviewField ==
    ASSUME NEW r \in Run, NEW v \in Review \cup {None}
    PROVE  [r EXCEPT !.review = v] \in Run
BY DEF Run

LEMMA LeaderField ==
    ASSUME NEW r \in Run, NEW v \in Decision \cup {None}
    PROVE  [r EXCEPT !.leader = v] \in Run
BY DEF Run

LEMMA HistoryField ==
    ASSUME NEW r \in Run, NEW v \in SUBSET Entry
    PROVE  [r EXCEPT !.history = v] \in Run
BY DEF Run

LEMMA RoundField ==
    ASSUME NEW r \in Run, NEW v \in BOOLEAN
    PROVE  [r EXCEPT !.round = v] \in Run
BY DEF Run

LEMMA ContinuationField ==
    ASSUME NEW r \in Run, NEW v \in Continuation \cup {None}
    PROVE  [r EXCEPT !.continuation = v] \in Run
BY DEF Run

LEMMA UntrustedField ==
    ASSUME NEW r \in Run, NEW v \in Tree \cup {None}
    PROVE  [r EXCEPT !.untrusted = v] \in Run
BY DEF Run

LEMMA ResumeReviewField ==
    ASSUME NEW r \in Run, NEW v \in BOOLEAN
    PROVE  [r EXCEPT !.resumeReview = v] \in Run
BY DEF Run

LEMMA RoundsField ==
    ASSUME NEW r \in Run, NEW v \in 0 .. RepairLimit
    PROVE  [r EXCEPT !.rounds = v] \in Run
BY DEF Run

LEMMA PublishField ==
    ASSUME NEW r \in Run, NEW v \in Publish \cup {None}
    PROVE  [r EXCEPT !.publish = v] \in Run
BY DEF Run

LEMMA PhaseSet ==
    ASSUME run \in Run, NEW p \in Phase, run' = SetPhase(p)
    PROVE  /\ run' \in Run /\ SameEvidence
           /\ run'.phase = p /\ run'.pause = "none"
           /\ run'.resumeReview = run.resumeReview /\ run'.rounds = run.rounds
<1>1. run' \in Run
  BY PhaseField, PauseField DEF SetPhase
<1>2. QED BY <1>1 DEF SetPhase, Run, SameEvidence

LEMMA Paused ==
    ASSUME run \in Run, NEW c \in PauseCode, run' = Pause(c)
    PROVE  /\ run' \in Run /\ SameEvidence
           /\ run'.phase = "PAUSED" /\ run'.pause = c
           /\ run'.resumeReview = run.resumeReview /\ run'.rounds = run.rounds
<1>1. run' \in Run
  BY PhaseField, PauseField DEF Pause, Phase
<1>2. QED BY <1>1 DEF Pause, Run, SameEvidence

\* What a step that changes no evidence must see to.
LEMMA MoveKept ==
    ASSUME Kept, TypeOK', SameEvidence,
           run'.phase = "RUNNING" => run.result = None /\ run.input # None /\ run.workspace,
           run.action # None => Reviewable',
           Publishable' => Publishable,
           PublisherPublishes'
    PROVE  Kept'
<1>1. ResultIsLast'
  BY DEF Kept, ResultIsLast, SameEvidence, Last
<1>2. ContinuationKept'
  BY DEF Kept, ContinuationKept, SameEvidence, Completed
<1>3. ActionIsLast'
  BY DEF Kept, ActionIsLast, SameEvidence, Last
<1>4. PublishableIsLast'
  BY DEF Kept, PublishableIsLast, SameEvidence, Last, Approved
<1>5. QED BY <1>1, <1>2, <1>3, <1>4 DEF Kept

LEMMA MoveFits ==
    ASSUME Fits, SameEvidence, misfiled => misfiled',
           Unworked' => run.candidate = None,
           CandidateRequired' =>
             run.candidate # None \/ (misfiled' /\ PausedWith({"HOST_REVIEW_UNAVAILABLE"})'),
           run'.phase \in {"REVIEW_PENDING", "REVIEWING"} => run.action # None,
           run'.resumeReview =>
             \/ run'.phase \in {"CANCELING"} \cup Terminal
             \/ PausedWith({"PROCESS_RECONCILIATION", "RECOVERY_BLOCKED"})'
             \/ PausedWith({"APPROVED_SOURCE_DRIFT"})' /\ run.action # None
    PROVE  Fits'
<1>1. CandidateIsResult'
  BY DEF Fits, CandidateIsResult, SameEvidence
<1>2. CandidateWhereRequired'
  BY DEF Fits, CandidateWhereRequired, SameEvidence
<1>3. EvidenceFits'
  BY DEF Fits, EvidenceFits, ReviewBound, LeaderBound, PublishBound, SameEvidence, Completed
<1>4. HistoryIsCaptured'
  BY DEF Fits, HistoryIsCaptured, SameEvidence
<1>5. ActionFits'
  BY DEF Fits, ActionFits, ReviewerContext, BoundReviewer, SameEvidence, Last
<1>6. QED BY <1>1, <1>2, <1>3, <1>4, <1>5 DEF Fits

-----------------------------------------------------------------------------
(* The steps that change no evidence. *)

\* Where there can be no action.
LEMMA NoAction ==
    ASSUME Kept, run.phase \in {"PREPARING", "RUNNING", "FIXING", "READY_TO_PUBLISH",
                                "PUBLISHING", "COMPLETED"}
    PROVE  run.action = None
BY DEF Kept, ActionIsLast, Reviewable, PausedWith

LEMMA ProbeFailsStep ==
    ASSUME IInv, ProbeFails
    PROVE  IInv'
<1> USE DEF IInv
<1>1. run \in Run /\ run.phase \in Phase /\ run.pause \in PauseCode \cup {"none"}
  BY DEF Kept, TypeOK, Run
<1>2. /\ run' \in Run /\ SameEvidence
      /\ run'.phase = "PAUSED" /\ run'.pause = "PROBE_FAILED"
      /\ run'.resumeReview = run.resumeReview
  BY <1>1, Paused DEF ProbeFails, PauseCode
<1>3. TypeOK'
  BY <1>1, <1>2, ArtifactAssumption
     DEF ProbeFails, Kept, TypeOK, SameEvidence, Driven, Ends, Idle, Unmoved, SameTurn, Key
<1>4. Kept'
  BY <1>1, <1>2, <1>3, MoveKept, NoAction
     DEF ProbeFails, Kept, ResultIsLast, ActionIsLast, PublisherPublishes, Publishable,
         Reviewable, PausedWith, PublishPause, Terminal, Driven, Ends, Idle, Unmoved, SameTurn,
         Key
<1>5. ASSUME ~restored' PROVE Fits'
  <2>1. Fits
    BY <1>5 DEF ProbeFails, Driven, Ends, Idle, Unmoved, SameTurn, Key
  <2>2. QED BY <1>1, <1>2, <1>5, <2>1, MoveFits
     DEF ProbeFails, Fits, CandidateWhereRequired, ActionFits, Unworked, CandidateRequired,
         PausedWith, PublishPause, RepairPause, Terminal, Driven, Ends, Idle, Unmoved,
         SameTurn, Key
<1>6. QED BY <1>4, <1>5

LEMMA ContainmentBlockedStep ==
    ASSUME IInv, ContainmentBlocked
    PROVE  IInv'
<1> USE DEF IInv
<1>1. run \in Run /\ run.phase \in Phase /\ run.pause \in PauseCode \cup {"none"}
  BY DEF Kept, TypeOK, Run
<1>2. /\ run' \in Run /\ SameEvidence
      /\ run'.phase = "PAUSED" /\ run'.pause = "CONTAINMENT_REQUIRED"
      /\ run'.resumeReview = run.resumeReview
  BY <1>1, Paused DEF ContainmentBlocked, PauseCode
<1>3. TypeOK'
  BY <1>1, <1>2, ArtifactAssumption
     DEF ContainmentBlocked, Kept, TypeOK, SameEvidence, Driven, Ends, Idle, Unmoved, SameTurn,
         Key, Capturable
<1>4. Kept'
  BY <1>1, <1>2, <1>3, MoveKept, NoAction
     DEF ContainmentBlocked, Kept, ResultIsLast, ActionIsLast, PublisherPublishes, Publishable,
         Reviewable, PausedWith, PublishPause, Terminal, Driven, Ends, Idle, Unmoved, SameTurn,
         Key, Capturable
<1>5. ASSUME ~restored' PROVE Fits'
  <2>1. Fits
    BY <1>5 DEF ContainmentBlocked, Driven, Ends, Idle, Unmoved, SameTurn, Key, Capturable
  <2>2. QED BY <1>1, <1>2, <1>5, <2>1, MoveFits
     DEF ContainmentBlocked, Fits, CandidateWhereRequired, ActionFits, Unworked,
         CandidateRequired, PausedWith, PublishPause, RepairPause, Terminal, Driven, Ends,
         Idle, Unmoved, SameTurn, Key, Capturable
<1>6. QED BY <1>4, <1>5

LEMMA BeginReviewStep ==
    ASSUME IInv, BeginReview
    PROVE  IInv'
<1> USE DEF IInv
<1>1. run \in Run /\ run.phase \in Phase /\ run.pause \in PauseCode \cup {"none"}
  BY DEF Kept, TypeOK, Run
<1>2. /\ run' \in Run /\ SameEvidence
      /\ run'.phase = "REVIEWING" /\ run'.pause = "none"
      /\ run'.resumeReview = run.resumeReview
  BY <1>1, PhaseSet DEF BeginReview, Phase
<1>3. TypeOK'
  BY <1>1, <1>2, ArtifactAssumption
     DEF BeginReview, Kept, TypeOK, SameEvidence, Driven, Goes, Idle, Unmoved, SameTurn, Key
<1>4. Kept'
  BY <1>1, <1>2, <1>3, MoveKept, NoAction
     DEF BeginReview, Kept, ResultIsLast, ActionIsLast, PublisherPublishes, Publishable,
         Reviewable, PausedWith, PublishPause, Terminal, Driven, Goes, Idle, Unmoved, SameTurn,
         Key
<1>5. ASSUME ~restored' PROVE Fits'
  <2>1. Fits
    BY <1>5 DEF BeginReview, Driven, Goes, Idle, Unmoved, SameTurn, Key
  <2>2. QED BY <1>1, <1>2, <1>5, <2>1, MoveFits
     DEF BeginReview, Fits, CandidateWhereRequired, ActionFits, Unworked, CandidateRequired,
         PausedWith, PublishPause, RepairPause, Terminal, Driven, Goes, Idle, Unmoved,
         SameTurn, Key
<1>6. QED BY <1>4, <1>5

LEMMA ReviewExhaustedStep ==
    ASSUME IInv, ReviewExhausted
    PROVE  IInv'
<1> USE DEF IInv
<1>1. run \in Run /\ run.phase \in Phase /\ run.pause \in PauseCode \cup {"none"}
  BY DEF Kept, TypeOK, Run
<1>2. /\ run' \in Run /\ SameEvidence
      /\ run'.phase = "PAUSED" /\ run'.pause = "HOST_REVIEW_UNAVAILABLE"
      /\ run'.resumeReview = run.resumeReview
  BY <1>1, Paused DEF ReviewExhausted, PauseCode
<1>3. TypeOK'
  BY <1>1, <1>2, ArtifactAssumption
     DEF ReviewExhausted, Kept, TypeOK, SameEvidence, Driven, Ends, Idle, Unmoved, NewTurn, Key
<1>4. Kept'
  BY <1>1, <1>2, <1>3, MoveKept, NoAction
     DEF ReviewExhausted, Kept, ResultIsLast, ActionIsLast, PublisherPublishes, Publishable,
         Reviewable, PausedWith, PublishPause, Terminal, Driven, Ends, Idle, Unmoved, NewTurn,
         Key
<1>5. ASSUME ~restored' PROVE Fits'
  <2>1. Fits
    BY <1>5 DEF ReviewExhausted, Driven, Ends, Idle, Unmoved, NewTurn, Key
  <2>2. QED BY <1>1, <1>2, <1>5, <2>1, MoveFits
     DEF ReviewExhausted, Fits, CandidateWhereRequired, ActionFits, Unworked,
         CandidateRequired, PausedWith, PublishPause, RepairPause, Terminal, Driven, Ends,
         Idle, Unmoved, NewTurn, Key
<1>6. QED BY <1>4, <1>5

LEMMA PublishCommitsStep ==
    ASSUME IInv, PublishCommits
    PROVE  IInv'
<1> USE DEF IInv
<1>1. run \in Run /\ run.phase \in Phase /\ run.pause \in PauseCode \cup {"none"}
  BY DEF Kept, TypeOK, Run
<1>2. /\ run' \in Run /\ SameEvidence
      /\ run'.phase = "COMPLETED" /\ run'.pause = "none"
      /\ run'.resumeReview = run.resumeReview
  BY <1>1, PhaseSet DEF PublishCommits, Phase, Terminal
<1>3. TypeOK'
  BY <1>1, <1>2, ArtifactAssumption
     DEF PublishCommits, Kept, TypeOK, SameEvidence, Driven, Ends, Idle, Unmoved, SameTurn, Key
<1>4. Kept'
  BY <1>1, <1>2, <1>3, MoveKept, NoAction
     DEF PublishCommits, Kept, ResultIsLast, ActionIsLast, PublisherPublishes, Publishable,
         Reviewable, PausedWith, PublishPause, Terminal, Driven, Ends, Idle, Unmoved, SameTurn,
         Key
<1>5. ASSUME ~restored' PROVE Fits'
  <2>1. Fits
    BY <1>5 DEF PublishCommits, Driven, Ends, Idle, Unmoved, SameTurn, Key
  <2>2. QED BY <1>1, <1>2, <1>5, <2>1, MoveFits
     DEF PublishCommits, Fits, CandidateWhereRequired, ActionFits, Unworked, CandidateRequired,
         PausedWith, PublishPause, RepairPause, Terminal, Driven, Ends, Idle, Unmoved,
         SameTurn, Key
<1>6. QED BY <1>4, <1>5

\* A step that leaves the record alone.
LEMMA StillStep ==
    ASSUME IInv, run' = run, restored' = restored, misfiled => misfiled',
           TypeOK', task'.key = "publish" => task.key = "publish"
    PROVE  IInv'
<1> USE DEF IInv
<1>1. SameEvidence
  BY DEF SameEvidence
<1>2. Kept'
  BY <1>1, MoveKept DEF Kept, ResultIsLast, ActionIsLast, Reviewable, PausedWith, Publishable,
                        PublisherPublishes
<1>3. ASSUME ~restored PROVE Fits'
  BY <1>1, <1>3, MoveFits DEF Fits, CandidateWhereRequired, ActionFits, Unworked,
                              CandidateRequired, PausedWith
<1>4. QED BY <1>2, <1>3

LEMMA PublishPausesStep ==
    ASSUME IInv, PublishPauses
    PROVE  IInv'
<1> USE DEF IInv
<1>1. run \in Run /\ run.phase \in Phase /\ run.pause \in PauseCode \cup {"none"}
  BY DEF Kept, TypeOK, Run
<1>2. CASE run' = Pause("PUBLISH_BLOCKED")
  <2>1. /\ run' \in Run /\ SameEvidence
      /\ run'.phase = "PAUSED" /\ run'.pause = "PUBLISH_BLOCKED"
      /\ run'.resumeReview = run.resumeReview
    BY <1>1, <1>2, Paused DEF PublishPauses, PauseCode, PublishPause
  <2>2. TypeOK'
    BY <1>1, <1>2, <2>1, ArtifactAssumption
       DEF PublishPauses, Kept, TypeOK, SameEvidence, Driven, Ends, Idle, Unmoved, SameTurn, Key
  <2>3. Kept'
    BY <1>1, <1>2, <2>1, <2>2, MoveKept, NoAction
       DEF PublishPauses, Kept, ResultIsLast, ActionIsLast, PublisherPublishes, Publishable,
           Reviewable, PausedWith, PublishPause, Terminal, Driven, Ends, Idle, Unmoved,
           SameTurn, Key
  <2>4. ASSUME ~restored' PROVE Fits'
    <3>1. Fits
      BY <2>4, <1>2 DEF PublishPauses, Driven, Ends, Idle, Unmoved, SameTurn, Key
    <3>2. QED BY <1>1, <1>2, <2>1, <2>4, <3>1, MoveFits
       DEF PublishPauses, Fits, CandidateWhereRequired, ActionFits, Unworked,
           CandidateRequired, PausedWith, PublishPause, RepairPause, Terminal, Driven, Ends,
           Idle, Unmoved, SameTurn, Key
  <2>5. QED BY <2>3, <2>4
<1>3. CASE run' = Pause("PUBLISH_CONFLICT")
  <2>1. /\ run' \in Run /\ SameEvidence
      /\ run'.phase = "PAUSED" /\ run'.pause = "PUBLISH_CONFLICT"
      /\ run'.resumeReview = run.resumeReview
    BY <1>1, <1>3, Paused DEF PublishPauses, PauseCode, PublishPause
  <2>2. TypeOK'
    BY <1>1, <1>3, <2>1, ArtifactAssumption
       DEF PublishPauses, Kept, TypeOK, SameEvidence, Driven, Ends, Idle, Unmoved, SameTurn, Key
  <2>3. Kept'
    BY <1>1, <1>3, <2>1, <2>2, MoveKept, NoAction
       DEF PublishPauses, Kept, ResultIsLast, ActionIsLast, PublisherPublishes, Publishable,
           Reviewable, PausedWith, PublishPause, Terminal, Driven, Ends, Idle, Unmoved,
           SameTurn, Key
  <2>4. ASSUME ~restored' PROVE Fits'
    <3>1. Fits
      BY <2>4, <1>3 DEF PublishPauses, Driven, Ends, Idle, Unmoved, SameTurn, Key
    <3>2. QED BY <1>1, <1>3, <2>1, <2>4, <3>1, MoveFits
       DEF PublishPauses, Fits, CandidateWhereRequired, ActionFits, Unworked,
           CandidateRequired, PausedWith, PublishPause, RepairPause, Terminal, Driven, Ends,
           Idle, Unmoved, SameTurn, Key
  <2>5. QED BY <2>3, <2>4
<1>4. QED BY <1>2, <1>3 DEF PublishPauses, PublishPause

LEMMA StageFailsStep ==
    ASSUME IInv, StageFails
    PROVE  IInv'
<1> USE DEF IInv
<1>1. run \in Run /\ run.phase \in Phase /\ run.pause \in PauseCode \cup {"none"}
  BY DEF Kept, TypeOK, Run
<1>2. CASE run' = run
  <2>1. run' = run
    BY <1>1, <1>2, Paused DEF StageFails, PauseCode, FailureCode
  <2>2. TypeOK'
    BY <1>1, <1>2, <2>1, ArtifactAssumption
       DEF StageFails, Kept, TypeOK, SameEvidence, Driven, Ends, Idle, Key, Phase
  <2>3. QED BY <1>2, <2>1, <2>2, StillStep DEF StageFails, Driven, Ends, Idle, Key, Phase
<1>3. CASE run' = Pause(FailureCode) /\ task.key = "publish"
  <2>1. /\ run' \in Run /\ SameEvidence
      /\ run'.phase = "PAUSED" /\ run'.pause = "PUBLISH_STAGE_FAILED"
      /\ run'.resumeReview = run.resumeReview
    BY <1>1, <1>3, Paused DEF StageFails, PauseCode, FailureCode
  <2>2. TypeOK'
    BY <1>1, <1>3, <2>1, ArtifactAssumption
       DEF StageFails, Kept, TypeOK, SameEvidence, Driven, Ends, Idle, Key, Phase
  <2>3. Kept'
    BY <1>1, <1>3, <2>1, <2>2, MoveKept, NoAction
       DEF StageFails, Kept, ResultIsLast, ActionIsLast, PublisherPublishes, Publishable,
           Reviewable, PausedWith, PublishPause, Terminal, Driven, Ends, Idle, Key, Phase
  <2>4. ASSUME ~restored' PROVE Fits'
    <3>1. Fits
      BY <2>4, <1>3 DEF StageFails, Driven, Ends, Idle, Key, Phase
    <3>2. QED BY <1>1, <1>3, <2>1, <2>4, <3>1, MoveFits
       DEF StageFails, Fits, CandidateWhereRequired, ActionFits, Unworked, CandidateRequired,
           PausedWith, PublishPause, RepairPause, Terminal, Driven, Ends, Idle, Key, Phase
  <2>5. QED BY <2>3, <2>4
<1>4. CASE run' = Pause(FailureCode) /\ task.key = "review"
  <2>1. /\ run' \in Run /\ SameEvidence
      /\ run'.phase = "PAUSED" /\ run'.pause = "HOST_REVIEW_UNAVAILABLE"
      /\ run'.resumeReview = run.resumeReview
    BY <1>1, <1>4, Paused DEF StageFails, PauseCode, FailureCode
  <2>2. TypeOK'
    BY <1>1, <1>4, <2>1, ArtifactAssumption
       DEF StageFails, Kept, TypeOK, SameEvidence, Driven, Ends, Idle, Key, Phase
  <2>3. Kept'
    BY <1>1, <1>4, <2>1, <2>2, MoveKept, NoAction
       DEF StageFails, Kept, ResultIsLast, ActionIsLast, PublisherPublishes, Publishable,
           Reviewable, PausedWith, PublishPause, Terminal, Driven, Ends, Idle, Key, Phase
  <2>4. ASSUME ~restored' PROVE Fits'
    <3>1. Fits
      BY <2>4, <1>4 DEF StageFails, Driven, Ends, Idle, Key, Phase
    <3>2. QED BY <1>1, <1>4, <2>1, <2>4, <3>1, MoveFits
       DEF StageFails, Fits, CandidateWhereRequired, ActionFits, Unworked, CandidateRequired,
           PausedWith, PublishPause, RepairPause, Terminal, Driven, Ends, Idle, Key, Phase
  <2>5. QED BY <2>3, <2>4
<1>5. CASE run' = Pause(FailureCode) /\ task.key \notin {"publish", "review"}
  <2>1. /\ run' \in Run /\ SameEvidence
      /\ run'.phase = "PAUSED" /\ run'.pause = "STAGE_FAILED"
      /\ run'.resumeReview = run.resumeReview
    BY <1>1, <1>5, Paused DEF StageFails, PauseCode, FailureCode
  <2>2. TypeOK'
    BY <1>1, <1>5, <2>1, ArtifactAssumption
       DEF StageFails, Kept, TypeOK, SameEvidence, Driven, Ends, Idle, Key, Phase
  <2>3. Kept'
    BY <1>1, <1>5, <2>1, <2>2, MoveKept, NoAction
       DEF StageFails, Kept, ResultIsLast, ActionIsLast, PublisherPublishes, Publishable,
           Reviewable, PausedWith, PublishPause, Terminal, Driven, Ends, Idle, Key, Phase
  <2>4. ASSUME ~restored' PROVE Fits'
    <3>1. Fits
      BY <2>4, <1>5 DEF StageFails, Driven, Ends, Idle, Key, Phase
    <3>2. QED BY <1>1, <1>5, <2>1, <2>4, <3>1, MoveFits
       DEF StageFails, Fits, CandidateWhereRequired, ActionFits, Unworked, CandidateRequired,
           PausedWith, PublishPause, RepairPause, Terminal, Driven, Ends, Idle, Key, Phase
  <2>5. QED BY <2>3, <2>4
<1>6. QED BY <1>2, <1>3, <1>4, <1>5 DEF StageFails

LEMMA DriftInReview ==
    ASSUME run \in Run, run' = [Pause("APPROVED_SOURCE_DRIFT") EXCEPT !.resumeReview = TRUE]
    PROVE  /\ run' \in Run /\ SameEvidence
           /\ run'.phase = "PAUSED" /\ run'.pause = "APPROVED_SOURCE_DRIFT" /\ run'.resumeReview
<1>1. run' \in Run
  BY PhaseField, PauseField, ResumeReviewField DEF Pause, Phase, PauseCode
<1>2. QED BY <1>1 DEF Pause, Run, SameEvidence

LEMMA DriftsStep ==
    ASSUME IInv, Drifts
    PROVE  IInv'
<1> USE DEF IInv
<1>1. run \in Run /\ run.phase \in Phase /\ run.pause \in PauseCode \cup {"none"}
  BY DEF Kept, TypeOK, Run
<1>2. CASE run.phase \in {"REVIEW_PENDING", "REVIEWING"} /\ run.action # None
            /\ run' = [Pause("APPROVED_SOURCE_DRIFT") EXCEPT !.resumeReview = TRUE] /\ NewTurn
  <2>1. /\ run' \in Run /\ SameEvidence
      /\ run'.phase = "PAUSED" /\ run'.pause = "APPROVED_SOURCE_DRIFT"
      /\ run'.resumeReview /\ run.action # None
    BY <1>1, <1>2, Paused, DriftInReview DEF Drifts, PauseCode
  <2>2. TypeOK'
    BY <1>1, <1>2, <2>1, ArtifactAssumption
       DEF Drifts, Kept, TypeOK, SameEvidence, Driven, Ends, Idle, Key, NewTurn, SameTurn
  <2>3. Kept'
    BY <1>1, <1>2, <2>1, <2>2, MoveKept, NoAction
       DEF Drifts, Kept, ResultIsLast, ActionIsLast, PublisherPublishes, Publishable,
           Reviewable, PausedWith, PublishPause, Terminal, Driven, Ends, Idle, Key, NewTurn,
           SameTurn
  <2>4. ASSUME ~restored' PROVE Fits'
    <3>1. Fits
      BY <2>4, <1>2 DEF Drifts, Driven, Ends, Idle, Key, NewTurn, SameTurn
    <3>2. QED BY <1>1, <1>2, <2>1, <2>4, <3>1, MoveFits
       DEF Drifts, Fits, CandidateWhereRequired, ActionFits, Unworked, CandidateRequired,
           PausedWith, PublishPause, RepairPause, Terminal, Driven, Ends, Idle, Key, NewTurn,
           SameTurn
  <2>5. QED BY <2>3, <2>4
<1>3. CASE run.phase \notin {"REVIEW_PENDING", "REVIEWING"}
            /\ run' = Pause("APPROVED_SOURCE_DRIFT") /\ SameTurn
  <2>1. /\ run' \in Run /\ SameEvidence
      /\ run'.phase = "PAUSED" /\ run'.pause = "APPROVED_SOURCE_DRIFT"
      /\ run'.resumeReview = run.resumeReview
    BY <1>1, <1>3, Paused, DriftInReview DEF Drifts, PauseCode
  <2>2. TypeOK'
    BY <1>1, <1>3, <2>1, ArtifactAssumption
       DEF Drifts, Kept, TypeOK, SameEvidence, Driven, Ends, Idle, Key, NewTurn, SameTurn
  <2>3. Kept'
    BY <1>1, <1>3, <2>1, <2>2, MoveKept, NoAction
       DEF Drifts, Kept, ResultIsLast, ActionIsLast, PublisherPublishes, Publishable,
           Reviewable, PausedWith, PublishPause, Terminal, Driven, Ends, Idle, Key, NewTurn,
           SameTurn
  <2>4. ASSUME ~restored' PROVE Fits'
    <3>1. Fits
      BY <2>4, <1>3 DEF Drifts, Driven, Ends, Idle, Key, NewTurn, SameTurn
    <3>2. QED BY <1>1, <1>3, <2>1, <2>4, <3>1, MoveFits
       DEF Drifts, Fits, CandidateWhereRequired, ActionFits, Unworked, CandidateRequired,
           PausedWith, PublishPause, RepairPause, Terminal, Driven, Ends, Idle, Key, NewTurn,
           SameTurn
  <2>5. QED BY <2>3, <2>4
<1>4. CASE UNCHANGED <<run, stray>>
  <2>1. run' = run
    BY <1>1, <1>4, Paused, DriftInReview DEF Drifts, PauseCode
  <2>2. TypeOK'
    BY <1>1, <1>4, <2>1, ArtifactAssumption
       DEF Drifts, Kept, TypeOK, SameEvidence, Driven, Ends, Idle, Key, NewTurn, SameTurn
  <2>3. QED BY <1>4, <2>1, <2>2, StillStep
     DEF Drifts, Driven, Ends, Idle, Key, NewTurn, SameTurn
<1>5. QED BY <1>2, <1>3, <1>4 DEF Drifts

LEMMA CrashStep ==
    ASSUME IInv, Crash
    PROVE  IInv'
<1>1. stray' \in {"none", "same", "earlier"}
  BY DEF Crash, IInv, Kept, TypeOK
<1>2. task' \in [key : Key \cup {"none"}, seen : 0 .. Attempts]
  BY ArtifactAssumption DEF Crash, Ends, Idle
<1>3. TypeOK'
  BY <1>1, <1>2 DEF Crash, IInv, Kept, TypeOK
<1>4. QED BY <1>3, StillStep DEF Crash, Ends, Idle

LEMMA RecoverRefusedStep ==
    ASSUME IInv, Boot, RecoverRefused
    PROVE  IInv'
<1> USE DEF IInv
<1>1. run \in Run /\ run.phase \in Phase /\ run.pause \in PauseCode \cup {"none"}
  BY DEF Kept, TypeOK, Run
<1>2. CASE UNCHANGED run
  <2>1. run' = run
    BY <1>1, <1>2, Paused DEF RecoverRefused, PauseCode
  <2>2. TypeOK'
    BY <1>1, <1>2, <2>1, ArtifactAssumption
       DEF RecoverRefused, Kept, TypeOK, SameEvidence, Boot, SameTurn, Ends, Idle, Key
  <2>3. QED BY <1>2, <2>1, <2>2, StillStep DEF RecoverRefused, Boot, SameTurn, Ends, Idle, Key
<1>3. CASE run.phase \notin {"CANCELING"} \cup Terminal /\ run' = Pause("RECOVERY_BLOCKED")
  <2>1. /\ run' \in Run /\ SameEvidence
      /\ run'.phase = "PAUSED" /\ run'.pause = "RECOVERY_BLOCKED"
      /\ run'.resumeReview = run.resumeReview
    BY <1>1, <1>3, Paused DEF RecoverRefused, PauseCode
  <2>2. TypeOK'
    BY <1>1, <1>3, <2>1, ArtifactAssumption
       DEF RecoverRefused, Kept, TypeOK, SameEvidence, Boot, SameTurn, Ends, Idle, Key
  <2>3. Kept'
    BY <1>1, <1>3, <2>1, <2>2, MoveKept, NoAction
       DEF RecoverRefused, Kept, ResultIsLast, ActionIsLast, PublisherPublishes, Publishable,
           Reviewable, PausedWith, PublishPause, Terminal, Boot, SameTurn, Ends, Idle, Key
  <2>4. ASSUME ~restored' PROVE Fits'
    <3>1. Fits
      BY <2>4, <1>3 DEF RecoverRefused, Boot, SameTurn, Ends, Idle, Key
    <3>2. QED BY <1>1, <1>3, <2>1, <2>4, <3>1, MoveFits
       DEF RecoverRefused, Fits, CandidateWhereRequired, ActionFits, Unworked,
           CandidateRequired, PausedWith, PublishPause, RepairPause, Terminal, Boot, SameTurn,
           Ends, Idle, Key
  <2>5. QED BY <2>3, <2>4
<1>4. QED BY <1>2, <1>3 DEF RecoverRefused

LEMMA RecoverPublishingStep ==
    ASSUME IInv, Boot, RecoverPublishing
    PROVE  IInv'
<1> USE DEF IInv
<1>1. run \in Run /\ run.phase \in Phase /\ run.pause \in PauseCode \cup {"none"}
  BY DEF Kept, TypeOK, Run
<1>2. CASE run' = SetPhase("COMPLETED")
  <2>1. /\ run' \in Run /\ SameEvidence
      /\ run'.phase = "COMPLETED" /\ run'.pause = "none"
      /\ run'.resumeReview = run.resumeReview
    BY <1>1, <1>2, Paused, PhaseSet
       DEF RecoverPublishing, PauseCode, PublishPause, Phase, Terminal
  <2>2. TypeOK'
    BY <1>1, <1>2, <2>1, ArtifactAssumption
       DEF RecoverPublishing, Kept, TypeOK, SameEvidence, Boot, SameTurn, Ends, Idle, Key
  <2>3. Kept'
    BY <1>1, <1>2, <2>1, <2>2, MoveKept, NoAction
       DEF RecoverPublishing, Kept, ResultIsLast, ActionIsLast, PublisherPublishes,
           Publishable, Reviewable, PausedWith, PublishPause, Terminal, Boot, SameTurn, Ends,
           Idle, Key
  <2>4. ASSUME ~restored' PROVE Fits'
    <3>1. Fits
      BY <2>4, <1>2 DEF RecoverPublishing, Boot, SameTurn, Ends, Idle, Key
    <3>2. QED BY <1>1, <1>2, <2>1, <2>4, <3>1, MoveFits
       DEF RecoverPublishing, Fits, CandidateWhereRequired, ActionFits, Unworked,
           CandidateRequired, PausedWith, PublishPause, RepairPause, Terminal, Boot, SameTurn,
           Ends, Idle, Key
  <2>5. QED BY <2>3, <2>4
<1>3. CASE run' = Pause("PUBLISH_CONFLICT")
  <2>1. /\ run' \in Run /\ SameEvidence
      /\ run'.phase = "PAUSED" /\ run'.pause = "PUBLISH_CONFLICT"
      /\ run'.resumeReview = run.resumeReview
    BY <1>1, <1>3, Paused, PhaseSet
       DEF RecoverPublishing, PauseCode, PublishPause, Phase, Terminal
  <2>2. TypeOK'
    BY <1>1, <1>3, <2>1, ArtifactAssumption
       DEF RecoverPublishing, Kept, TypeOK, SameEvidence, Boot, SameTurn, Ends, Idle, Key
  <2>3. Kept'
    BY <1>1, <1>3, <2>1, <2>2, MoveKept, NoAction
       DEF RecoverPublishing, Kept, ResultIsLast, ActionIsLast, PublisherPublishes,
           Publishable, Reviewable, PausedWith, PublishPause, Terminal, Boot, SameTurn, Ends,
           Idle, Key
  <2>4. ASSUME ~restored' PROVE Fits'
    <3>1. Fits
      BY <2>4, <1>3 DEF RecoverPublishing, Boot, SameTurn, Ends, Idle, Key
    <3>2. QED BY <1>1, <1>3, <2>1, <2>4, <3>1, MoveFits
       DEF RecoverPublishing, Fits, CandidateWhereRequired, ActionFits, Unworked,
           CandidateRequired, PausedWith, PublishPause, RepairPause, Terminal, Boot, SameTurn,
           Ends, Idle, Key
  <2>5. QED BY <2>3, <2>4
<1>4. QED BY <1>2, <1>3 DEF RecoverPublishing

LEMMA RecoverAsItIsStep ==
    ASSUME IInv, Boot, RecoverAsItIs
    PROVE  IInv'
<1>1. task' \in [key : {"none", "cancel", "recover"}, seen : 0 .. Attempts]
  BY ArtifactAssumption DEF RecoverAsItIs, Ends, Idle, Schedule, IInv, Kept, TypeOK, Run
<1>2. TypeOK'
  BY <1>1 DEF RecoverAsItIs, Boot, SameTurn, IInv, Kept, TypeOK, Key
<1>3. QED BY <1>1, <1>2, StillStep DEF RecoverAsItIs, Boot

LEMMA ResumeWorkerStep ==
    ASSUME IInv, ResumeWorker
    PROVE  IInv'
<1> USE DEF IInv
<1>1. run \in Run /\ run.phase \in Phase /\ run.pause \in PauseCode \cup {"none"}
  BY DEF Kept, TypeOK, Run
<1>2. /\ run' \in Run /\ SameEvidence
      /\ run'.phase = "PREPARING" /\ run'.pause = "none"
      /\ run'.resumeReview = run.resumeReview
  BY <1>1, PhaseSet DEF ResumeWorker, Phase
<1>3. TypeOK'
  BY <1>1, <1>2, ArtifactAssumption
     DEF ResumeWorker, Kept, TypeOK, SameEvidence, Answerable, Unmoved, SameTurn, Schedule,
         Key, Idle
<1>4. Kept'
  BY <1>1, <1>2, <1>3, MoveKept, NoAction
     DEF ResumeWorker, Kept, ResultIsLast, ActionIsLast, PublisherPublishes, Publishable,
         Reviewable, PausedWith, PublishPause, Terminal, Answerable, Unmoved, SameTurn,
         Schedule, Key, Idle
<1>5. ASSUME ~restored' PROVE Fits'
  <2>1. Fits
    BY <1>5 DEF ResumeWorker, Answerable, Unmoved, SameTurn, Schedule, Key, Idle
  <2>2. QED BY <1>1, <1>2, <1>5, <2>1, MoveFits
     DEF ResumeWorker, Fits, CandidateWhereRequired, ActionFits, Unworked, CandidateRequired,
         PausedWith, PublishPause, RepairPause, Terminal, Answerable, Unmoved, SameTurn,
         Schedule, Key, Idle
<1>6. QED BY <1>4, <1>5

LEMMA RetryReviewStep ==
    ASSUME IInv, RetryReview
    PROVE  IInv'
<1> USE DEF IInv
<1>1. run \in Run /\ run.phase \in Phase /\ run.pause \in PauseCode \cup {"none"}
  BY DEF Kept, TypeOK, Run
<1>2. /\ run' \in Run /\ SameEvidence
      /\ run'.phase = "REVIEW_PENDING" /\ run'.pause = "none"
      /\ run'.resumeReview = run.resumeReview
  BY <1>1, PhaseSet DEF RetryReview, Phase
<1>3. TypeOK'
  BY <1>1, <1>2, ArtifactAssumption
     DEF RetryReview, Kept, TypeOK, SameEvidence, Answerable, Unmoved, NewTurn, Schedule, Key,
         Idle
<1>4. Kept'
  BY <1>1, <1>2, <1>3, MoveKept, NoAction
     DEF RetryReview, Kept, ResultIsLast, ActionIsLast, PublisherPublishes, Publishable,
         Reviewable, PausedWith, PublishPause, Terminal, Answerable, Unmoved, NewTurn,
         Schedule, Key, Idle
<1>5. ASSUME ~restored' PROVE Fits'
  <2>1. Fits
    BY <1>5 DEF RetryReview, Answerable, Unmoved, NewTurn, Schedule, Key, Idle
  <2>2. QED BY <1>1, <1>2, <1>5, <2>1, MoveFits
     DEF RetryReview, Fits, CandidateWhereRequired, ActionFits, Unworked, CandidateRequired,
         PausedWith, PublishPause, RepairPause, Terminal, Answerable, Unmoved, NewTurn,
         Schedule, Key, Idle, CandidateIsResult
<1>6. QED BY <1>4, <1>5

LEMMA RetryPublishStep ==
    ASSUME IInv, RetryPublish
    PROVE  IInv'
<1> USE DEF IInv
<1>1. run \in Run /\ run.phase \in Phase /\ run.pause \in PauseCode \cup {"none"}
  BY DEF Kept, TypeOK, Run
<1>2. /\ run' \in Run /\ SameEvidence
      /\ run'.phase = "READY_TO_PUBLISH" /\ run'.pause = "none"
      /\ run'.resumeReview = run.resumeReview
  BY <1>1, PhaseSet DEF RetryPublish, Phase
<1>3. TypeOK'
  BY <1>1, <1>2, ArtifactAssumption
     DEF RetryPublish, Kept, TypeOK, SameEvidence, Answerable, Unmoved, SameTurn, Schedule,
         Key, Idle
<1>4. Kept'
  BY <1>1, <1>2, <1>3, MoveKept, NoAction
     DEF RetryPublish, Kept, ResultIsLast, ActionIsLast, PublisherPublishes, Publishable,
         Reviewable, PausedWith, PublishPause, Terminal, Answerable, Unmoved, SameTurn,
         Schedule, Key, Idle
<1>5. ASSUME ~restored' PROVE Fits'
  <2>1. Fits
    BY <1>5 DEF RetryPublish, Answerable, Unmoved, SameTurn, Schedule, Key, Idle
  <2>2. QED BY <1>1, <1>2, <1>5, <2>1, MoveFits
     DEF RetryPublish, Fits, CandidateWhereRequired, ActionFits, Unworked, CandidateRequired,
         PausedWith, PublishPause, RepairPause, Terminal, Answerable, Unmoved, SameTurn,
         Schedule, Key, Idle, Kept, PublishableIsLast, Publishable
<1>6. QED BY <1>4, <1>5

LEMMA CancelStep ==
    ASSUME IInv, Cancel
    PROVE  IInv'
<1> USE DEF IInv
<1>1. run \in Run /\ run.phase \in Phase /\ run.pause \in PauseCode \cup {"none"}
  BY DEF Kept, TypeOK, Run
<1>2. /\ run' \in Run /\ SameEvidence
      /\ run'.phase = "CANCELING" /\ run'.pause = "none"
      /\ run'.resumeReview = run.resumeReview
  BY <1>1, PhaseSet DEF Cancel, Phase
<1>3. TypeOK'
  BY <1>1, <1>2, ArtifactAssumption
     DEF Cancel, Kept, TypeOK, SameEvidence, Unmoved, SameTurn, Schedule, Key, Idle
<1>4. Kept'
  BY <1>1, <1>2, <1>3, MoveKept, NoAction
     DEF Cancel, Kept, ResultIsLast, ActionIsLast, PublisherPublishes, Publishable, Reviewable,
         PausedWith, PublishPause, Terminal, Unmoved, SameTurn, Schedule, Key, Idle
<1>5. ASSUME ~restored' PROVE Fits'
  <2>1. Fits
    BY <1>5 DEF Cancel, Unmoved, SameTurn, Schedule, Key, Idle
  <2>2. QED BY <1>1, <1>2, <1>5, <2>1, MoveFits
     DEF Cancel, Fits, CandidateWhereRequired, ActionFits, Unworked, CandidateRequired,
         PausedWith, PublishPause, RepairPause, Terminal, Unmoved, SameTurn, Schedule, Key, Idle
<1>6. QED BY <1>4, <1>5

LEMMA RestoredToReview ==
    ASSUME run \in Run, run' = [SetPhase("REVIEW_PENDING") EXCEPT !.resumeReview = FALSE]
    PROVE  /\ run' \in Run /\ SameEvidence
           /\ run'.phase = "REVIEW_PENDING" /\ run'.pause = "none" /\ ~run'.resumeReview
<1>1. run' \in Run
  BY PhaseField, PauseField, ResumeReviewField DEF SetPhase, Phase, PauseCode
<1>2. QED BY <1>1 DEF SetPhase, Run, SameEvidence

LEMMA RestoreTasksStep ==
    ASSUME IInv, RestoreTasks
    PROVE  IInv'
<1> USE DEF IInv
<1>1. run \in Run /\ run.phase \in Phase /\ run.pause \in PauseCode \cup {"none"}
  BY DEF Kept, TypeOK, Run
<1>2. CASE run.resumeReview
  <2>1. /\ run' \in Run /\ SameEvidence
      /\ run'.phase = "REVIEW_PENDING" /\ run'.pause = "none"
      /\ ~run'.resumeReview /\ run.resumeReview
    BY <1>1, <1>2, PhaseSet, RestoredToReview DEF RestoreTasks, Phase
  <2>2. TypeOK'
    BY <1>1, <1>2, <2>1, ArtifactAssumption
       DEF RestoreTasks, Kept, TypeOK, SameEvidence, Answerable, SameTurn, Schedule, Key,
           CandidateIsResult
  <2>3. Kept'
    BY <1>1, <1>2, <2>1, <2>2, MoveKept, NoAction
       DEF RestoreTasks, Kept, ResultIsLast, ActionIsLast, PublisherPublishes, Publishable,
           Reviewable, PausedWith, PublishPause, Terminal, Answerable, SameTurn, Schedule, Key,
           CandidateIsResult
  <2>4. ASSUME ~restored' PROVE Fits'
    <3>1. Fits
      BY <2>4, <1>2 DEF RestoreTasks, Answerable, SameTurn, Schedule, Key, CandidateIsResult
    <3>2. QED BY <1>1, <1>2, <2>1, <2>4, <3>1, MoveFits
       DEF RestoreTasks, Fits, CandidateWhereRequired, ActionFits, Unworked, CandidateRequired,
           PausedWith, PublishPause, RepairPause, Terminal, Answerable, SameTurn, Schedule,
           Key, CandidateIsResult
  <2>5. QED BY <2>3, <2>4
<1>3. CASE ~run.resumeReview
  <2>1. /\ run' \in Run /\ SameEvidence
      /\ run'.phase = "PREPARING" /\ run'.pause = "none"
      /\ run'.resumeReview = run.resumeReview
    BY <1>1, <1>3, PhaseSet, RestoredToReview DEF RestoreTasks, Phase
  <2>2. TypeOK'
    BY <1>1, <1>3, <2>1, ArtifactAssumption
       DEF RestoreTasks, Kept, TypeOK, SameEvidence, Answerable, SameTurn, Schedule, Key,
           CandidateIsResult
  <2>3. Kept'
    BY <1>1, <1>3, <2>1, <2>2, MoveKept, NoAction
       DEF RestoreTasks, Kept, ResultIsLast, ActionIsLast, PublisherPublishes, Publishable,
           Reviewable, PausedWith, PublishPause, Terminal, Answerable, SameTurn, Schedule, Key,
           CandidateIsResult
  <2>4. ASSUME ~restored' PROVE Fits'
    <3>1. Fits
      BY <2>4, <1>3 DEF RestoreTasks, Answerable, SameTurn, Schedule, Key, CandidateIsResult
    <3>2. QED BY <1>1, <1>3, <2>1, <2>4, <3>1, MoveFits
       DEF RestoreTasks, Fits, CandidateWhereRequired, ActionFits, Unworked, CandidateRequired,
           PausedWith, PublishPause, RepairPause, Terminal, Answerable, SameTurn, Schedule,
           Key, CandidateIsResult
  <2>5. QED BY <2>3, <2>4
<1>4. QED BY <1>2, <1>3 DEF RestoreTasks


-----------------------------------------------------------------------------
(* The steps of the worker. *)

\* What a step before the candidate must see to.
Surviving ==
    \A i \in DOMAIN run.attempts :
        /\ i \in DOMAIN run'.attempts
        /\ run'.attempts[i].session = run.attempts[i].session
        /\ run'.attempts[i].tree = run.attempts[i].tree
        /\ run.attempts[i].status = "COMPLETED" => run'.attempts[i].status = "COMPLETED"

LEMMA WorkStep ==
    ASSUME IInv, run.phase \in {"PREPARING", "RUNNING"}, TypeOK', Surviving,
           run'.result = None, run'.captured \in {run.captured, None},
           run.input # None => run'.input = run.input,
           run'.phase = "RUNNING" => run'.input # None /\ run'.workspace,
           run'.candidate = run.candidate, run'.action = run.action, run'.review = run.review,
           run'.leader = run.leader, run'.history = run.history, run'.round = run.round,
           run'.continuation = run.continuation, run'.untrusted = run.untrusted,
           run'.resumeReview = run.resumeReview, run'.publish = run.publish,
           \/ run'.phase \in {"PREPARING", "RUNNING"}
           \/ PausedWith({"ATTEMPT_FAILED", "CONTAINMENT_REQUIRED", "RECOVERY_BLOCKED"})',
           task'.key = "publish" => task.key = "publish",
           restored' = restored, misfiled' = misfiled
    PROVE  IInv'
<1> USE DEF IInv
<1>1. run.action = None
  BY NoAction
<1>2. ContinuationKept'
  <2>1. ASSUME run.continuation # None PROVE run.continuation.seed # None
    BY <2>1, ArtifactAssumption DEF Kept, TypeOK, Run, Continuation
  <2>2. QED BY <2>1 DEF Kept, ContinuationKept, Surviving, Completed
<1>3. Kept'
  BY <1>1, <1>2 DEF Kept, ResultIsLast, ActionIsLast, PublishableIsLast, PublisherPublishes,
                    Publishable, PausedWith, PublishPause
<1>4. ASSUME ~restored PROVE Fits'
  <2>1. /\ run.candidate = None /\ run.captured = None /\ run.review = None
        /\ run.leader = None /\ run.publish = None /\ run.untrusted = None /\ ~run.resumeReview
    BY <1>4 DEF Fits, CandidateIsResult, CandidateWhereRequired, Unworked, ActionFits, Terminal,
                PausedWith
  <2>2. CandidateIsResult' /\ CandidateWhereRequired' /\ EvidenceFits' /\ ActionFits'
    BY <1>1, <2>1
       DEF CandidateIsResult, CandidateWhereRequired, CandidateRequired, EvidenceFits,
                      ReviewBound, LeaderBound, PublishBound, ActionFits, PausedWith,
                      PublishPause, RepairPause
  <2>3. HistoryIsCaptured'
    BY <1>4 DEF Fits, HistoryIsCaptured, Surviving
  <2>4. QED BY <2>2, <2>3 DEF Fits
<1>5. QED BY <1>3, <1>4

LEMMA PrepareWorkspaceStep ==
    ASSUME IInv, PrepareWorkspace
    PROVE  IInv'
<1>1. run \in Run
  BY DEF IInv, Kept, TypeOK
<1>2. /\ run' \in Run /\ run'.phase = "RUNNING" /\ run'.attempts = run.attempts
      /\ run'.result = None /\ run'.captured \in {run.captured, None}
      /\ run'.workspace /\ run'.input # None /\ (run.input # None => run'.input = run.input)
      /\ run'.candidate = run.candidate /\ run'.action = run.action /\ run'.review = run.review
      /\ run'.leader = run.leader /\ run'.history = run.history /\ run'.round = run.round
      /\ run'.continuation = run.continuation /\ run'.untrusted = run.untrusted
      /\ run'.resumeReview = run.resumeReview /\ run'.publish = run.publish
  <2>1. CASE run.workspace /\ run.input # None /\ run.result = None
    <3>1. run' = SetPhase("RUNNING")
      BY <2>1 DEF PrepareWorkspace
    <3>2. QED BY <1>1, <2>1, <3>1, PhaseSet DEF SameEvidence, Phase
  <2>2. CASE ~(run.workspace /\ run.input # None /\ run.result = None)
    <3> DEFINE in == IF run.input = None THEN Baseline ELSE run.input
    <3>1. run' = [SetPhase("RUNNING") EXCEPT !.workspace = TRUE, !.input = in, !.result = None,
                                             !.captured = None]
      BY <1>1, <2>2 DEF PrepareWorkspace, SetPhase, Run
    <3>2. in \in Snapshot /\ in # None
      BY <1>1, ArtifactAssumption DEF Run, Snapshot
    <3>3. run' \in Run
      BY <1>1, <3>1, <3>2, PhaseField, PauseField, WorkspaceField, InputField, ResultField,
         CapturedField DEF SetPhase, Phase
    <3>4. QED BY <1>1, <3>1, <3>2, <3>3 DEF SetPhase, Run
  <2>3. QED BY <2>1, <2>2
<1>3. TypeOK'
  BY <1>2 DEF PrepareWorkspace, Goes, Unmoved, SameTurn, IInv, Kept, TypeOK
<1>4. QED BY <1>2, <1>3, WorkStep DEF PrepareWorkspace, Goes, Unmoved, Surviving

\* The record with other attempts, and what was said of it.
SameButAttempts ==
    /\ run'.workspace = run.workspace /\ run'.input = run.input /\ run'.result = run.result
    /\ run'.captured = run.captured /\ run'.candidate = run.candidate
    /\ run'.action = run.action /\ run'.review = run.review /\ run'.leader = run.leader
    /\ run'.history = run.history /\ run'.round = run.round
    /\ run'.continuation = run.continuation /\ run'.untrusted = run.untrusted
    /\ run'.resumeReview = run.resumeReview /\ run'.publish = run.publish

LEMMA RunningHasInput ==
    ASSUME IInv, run.phase = "RUNNING"
    PROVE  run.result = None /\ run.input # None /\ run.workspace
BY DEF IInv, Kept, ResultIsLast

LEMMA BeginAttemptStep ==
    ASSUME IInv, BeginAttempt
    PROVE  IInv'
<1> DEFINE session == IF run.continuation = None THEN Len(run.attempts) + 1
                                                 ELSE run.continuation.session
           new == [status |-> "RUNNING", session |-> session, tree |-> None]
<1>1. run \in Run /\ Len(run.attempts) \in 0 .. Attempts - 1 /\ run.attempts \in Seq(Attempt)
  BY ArtifactAssumption, LenProperties DEF IInv, Kept, TypeOK, Run, BeginAttempt
<1>2. new \in Attempt
  <2>1. session \in Id
    BY <1>1, ArtifactAssumption DEF Id, Run, Continuation
  <2>2. QED BY <2>1 DEF Attempt
<1>3. /\ Append(run.attempts, new) \in Seq(Attempt)
      /\ Len(Append(run.attempts, new)) = Len(run.attempts) + 1
      /\ \A i \in DOMAIN run.attempts : /\ i \in DOMAIN Append(run.attempts, new)
                                       /\ Append(run.attempts, new)[i] = run.attempts[i]
  BY <1>1, <1>2, AppendProperties
<1>4. run' = [run EXCEPT !.attempts = Append(run.attempts, new)]
  BY <1>1 DEF BeginAttempt, Run
<1>5. run' \in Run
  BY <1>1, <1>3, <1>4, AttemptsField
<1>6. /\ SameButAttempts /\ run'.phase = run.phase
      /\ run'.attempts = Append(run.attempts, new)
  BY <1>1, <1>4 DEF SameButAttempts, Run
<1>7. TypeOK'
  BY <1>1, <1>3, <1>5, <1>6, ArtifactAssumption
     DEF BeginAttempt, Goes, Unmoved, SameTurn, IInv, Kept, TypeOK
<1>8. Surviving
  BY <1>3, <1>6 DEF Surviving
<1>9. run.phase = "RUNNING" /\ run.result = None /\ run.input # None /\ run.workspace
  BY RunningHasInput DEF BeginAttempt
<1>10. task' = task /\ restored' = restored /\ misfiled' = misfiled
  BY DEF BeginAttempt, Goes, Unmoved
<1>11. QED BY <1>6, <1>7, <1>8, <1>9, <1>10, WorkStep DEF SameButAttempts

\* The attempts with another status of the last one.
StatusSet(s) == [run.attempts EXCEPT ![Len(run.attempts)].status = s]

LEMMA AttemptStatusSet ==
    ASSUME run \in Run, run.attempts # <<>>, NEW s \in {"COMPLETED", "ENDED"},
           Last.status = "RUNNING"
    PROVE  /\ StatusSet(s) \in Seq(Attempt) /\ Len(StatusSet(s)) = Len(run.attempts)
           /\ \A i \in DOMAIN run.attempts :
                 /\ i \in DOMAIN StatusSet(s)
                 /\ StatusSet(s)[i].session = run.attempts[i].session
                 /\ StatusSet(s)[i].tree = run.attempts[i].tree
                 /\ run.attempts[i].status = "COMPLETED" => StatusSet(s)[i].status = "COMPLETED"
<1> DEFINE n == Len(run.attempts)
<1>1. run.attempts \in Seq(Attempt) /\ n \in DOMAIN run.attempts /\ n \in Nat
  BY DEF Run
<1>2. /\ run.attempts[n] \in Attempt
      /\ [run.attempts[n] EXCEPT !.status = s] \in Attempt
  <2>1. run.attempts[n] \in Attempt
    BY <1>1, ElementOfSeq
  <2>2. QED BY <2>1 DEF Attempt
<1>3. /\ StatusSet(s) \in Seq(Attempt) /\ Len(StatusSet(s)) = n
      /\ DOMAIN StatusSet(s) = DOMAIN run.attempts
  BY <1>1, <1>2 DEF StatusSet
<1>4. \A i \in DOMAIN run.attempts :
         /\ StatusSet(s)[i].session = run.attempts[i].session
         /\ StatusSet(s)[i].tree = run.attempts[i].tree
         /\ run.attempts[i].status = "COMPLETED" => StatusSet(s)[i].status = "COMPLETED"
  <2>1. TAKE i \in DOMAIN run.attempts
  <2>2. CASE i = n
    BY <1>1, <1>2, <2>2 DEF Last, Attempt, StatusSet
  <2>3. CASE i # n
    BY <1>1, <2>3 DEF StatusSet
  <2>4. QED BY <2>2, <2>3
<1>5. QED BY <1>3, <1>4

LEMMA AttemptCompletesStep ==
    ASSUME IInv, AttemptCompletes
    PROVE  IInv'
<1>1. /\ run \in Run /\ run.attempts # <<>> /\ Last.status = "RUNNING" /\ run.phase = "RUNNING"
      /\ run.result = None /\ run.input # None /\ run.workspace
  BY RunningHasInput DEF IInv, Kept, TypeOK, AttemptCompletes, Working
<1>2. run' = [run EXCEPT !.attempts = StatusSet("COMPLETED")]
  BY <1>1 DEF AttemptCompletes, StatusSet, Run
<1>3. SameButAttempts /\ run'.phase = "RUNNING" /\ run'.attempts = StatusSet("COMPLETED")
  BY <1>1, <1>2 DEF SameButAttempts, Run
<1>4. run' \in Run /\ Len(run'.attempts) = Len(run.attempts) /\ Surviving
  BY <1>1, <1>2, <1>3, AttemptStatusSet, AttemptsField DEF Surviving
<1>5. UNCHANGED <<task, up, noticed, stray, restored, misfiled>>
  BY DEF AttemptCompletes, Goes, Unmoved, SameTurn
<1>6. TypeOK'
  BY <1>4, <1>5 DEF IInv, Kept, TypeOK
<1>7. QED BY <1>1, <1>3, <1>4, <1>5, <1>6, WorkStep DEF SameButAttempts

LEMMA AttemptFailsStep ==
    ASSUME IInv, AttemptFails
    PROVE  IInv'
<1> PICK c \in {"ATTEMPT_FAILED", "CONTAINMENT_REQUIRED"} :
       run' = [Pause(c) EXCEPT !.attempts[Len(run.attempts)].status = "ENDED"]
  BY DEF AttemptFails
<1>1. /\ run \in Run /\ run.attempts # <<>> /\ Last.status = "RUNNING" /\ run.phase = "RUNNING"
      /\ run.result = None /\ run.input # None /\ run.workspace
  BY RunningHasInput DEF IInv, Kept, TypeOK, AttemptFails, Working
<1>2. run' = [Pause(c) EXCEPT !.attempts = StatusSet("ENDED")]
  BY <1>1 DEF Pause, StatusSet, Run
<1>3. /\ SameButAttempts /\ run'.phase = "PAUSED" /\ run'.pause = c
      /\ run'.attempts = StatusSet("ENDED")
  BY <1>1, <1>2 DEF SameButAttempts, Pause, Run
<1>4. /\ run' \in Run /\ Len(run'.attempts) = Len(run.attempts) /\ Surviving
  <2>1. Pause(c) \in Run
    BY <1>1, PhaseField, PauseField DEF Pause, Phase, PauseCode
  <2>2. run' \in Run
    BY <1>1, <1>2, <2>1, AttemptStatusSet, AttemptsField
  <2>3. Len(run'.attempts) = Len(run.attempts) /\ Surviving
    BY <1>1, <1>3, AttemptStatusSet DEF Surviving
  <2>4. QED BY <2>2, <2>3
<1>5. task' = Idle /\ UNCHANGED <<up, noticed, stray, restored, misfiled>>
  BY DEF AttemptFails, Ends, Unmoved, SameTurn
<1>6. TypeOK'
  BY <1>4, <1>5, ArtifactAssumption DEF Idle, IInv, Kept, TypeOK
<1>7. QED BY <1>1, <1>3, <1>4, <1>5, <1>6, WorkStep DEF Idle, SameButAttempts, PausedWith

LEMMA ActiveEnded ==
    ASSUME run \in Run
    PROVE  LET a == EndActive(run.attempts)
           IN  /\ a \in Seq(Attempt) /\ Len(a) = Len(run.attempts)
               /\ DOMAIN a = DOMAIN run.attempts
               /\ \A i \in DOMAIN run.attempts :
                     /\ a[i].session = run.attempts[i].session
                     /\ a[i].tree = run.attempts[i].tree
                     /\ run.attempts[i].status = "COMPLETED" => a[i].status = "COMPLETED"
<1> DEFINE a == EndActive(run.attempts)
<1>1. run.attempts \in Seq(Attempt)
  BY DEF Run
<1>2. \A i \in DOMAIN run.attempts : run.attempts[i] \in Attempt
  BY <1>1, ElementOfSeq
<1>3. \A i \in DOMAIN run.attempts :
         /\ a[i] \in Attempt
         /\ a[i].session = run.attempts[i].session
         /\ a[i].tree = run.attempts[i].tree
         /\ run.attempts[i].status = "COMPLETED" => a[i].status = "COMPLETED"
  BY <1>2 DEF EndActive, Attempt
<1>4. DOMAIN a = 1 .. Len(run.attempts)
  BY <1>1 DEF EndActive
<1>5. a \in [1 .. Len(run.attempts) -> Attempt]
  BY <1>1, <1>3, <1>4 DEF EndActive
<1>6. Len(run.attempts) \in Nat
  BY <1>1
<1>7. a \in Seq(Attempt)
  BY <1>5, <1>6
<1>8. Len(a) = Len(run.attempts)
  BY <1>4, <1>6, <1>7
<1>9. QED BY <1>1, <1>3, <1>4, <1>7, <1>8

LEMMA RecoverRunningStep ==
    ASSUME IInv, Boot, RecoverRunning
    PROVE  IInv'
<1>1. run \in Run /\ run.phase = "RUNNING" /\ run.result = None /\ run.input # None /\ run.workspace
  BY RunningHasInput DEF IInv, Kept, TypeOK, RecoverRunning
<1>2. CASE run' = [SetPhase("PREPARING") EXCEPT !.workspace = FALSE, !.attempts = EndActive(@)]
           /\ Schedule("recover")
  <2>1. run' = [SetPhase("PREPARING") EXCEPT !.workspace = FALSE,
                                             !.attempts = EndActive(run.attempts)]
    BY <1>1, <1>2 DEF SetPhase, Run
  <2>2. run' \in Run
    BY <1>1, <2>1, ActiveEnded, PhaseField, PauseField, WorkspaceField, AttemptsField
       DEF SetPhase, Phase
  <2>3. /\ run'.phase = "PREPARING" /\ run'.attempts = EndActive(run.attempts)
        /\ run'.input = run.input /\ run'.result = run.result
        /\ run'.captured = run.captured /\ run'.candidate = run.candidate
        /\ run'.action = run.action /\ run'.review = run.review
        /\ run'.leader = run.leader /\ run'.history = run.history
        /\ run'.round = run.round /\ run'.continuation = run.continuation
        /\ run'.untrusted = run.untrusted /\ run'.resumeReview = run.resumeReview
        /\ run'.publish = run.publish
    BY <1>1, <2>1 DEF SetPhase, Run
  <2>4. Surviving /\ Len(run'.attempts) = Len(run.attempts)
    BY <1>1, <2>3, ActiveEnded DEF Surviving
  <2>5. TypeOK'
    BY <1>1, <1>2, <2>2, <2>4, ArtifactAssumption
       DEF Boot, SameTurn, Schedule, Key, IInv, Kept, TypeOK, Run
  <2>6. QED BY <1>1, <1>2, <2>3, <2>4, <2>5, WorkStep DEF Boot, Schedule
<1>3. CASE run' = Pause("RECOVERY_BLOCKED") /\ Ends
  <2>1. /\ run' \in Run /\ SameEvidence /\ run'.phase = "PAUSED"
        /\ run'.pause = "RECOVERY_BLOCKED" /\ run'.resumeReview = run.resumeReview
    BY <1>1, <1>3, Paused DEF PauseCode
  <2>2. TypeOK'
    BY <1>3, <2>1, ArtifactAssumption
       DEF Boot, SameTurn, Ends, Idle, IInv, Kept, TypeOK, SameEvidence
  <2>3. Surviving
    BY <2>1 DEF Surviving, SameEvidence
  <2>4. QED BY <1>1, <1>3, <2>1, <2>2, <2>3, WorkStep
     DEF Boot, Ends, Idle, SameEvidence, PausedWith
<1>4. QED BY <1>2, <1>3 DEF RecoverRunning

LEMMA FinishCancelStep ==
    ASSUME IInv, FinishCancel
    PROVE  IInv'
<1>1. /\ run \in Run /\ run.phase = "CANCELING" /\ task' = Idle
      /\ UNCHANGED <<up, noticed, stray, restored, misfiled>>
  BY DEF IInv, Kept, TypeOK, FinishCancel, Ends, Unmoved, SameTurn
<1>2. CASE run' = [SetPhase("CANCELED") EXCEPT !.action = None, !.attempts = EndActive(@)]
  <2>1. run' = [SetPhase("CANCELED") EXCEPT !.action = None, !.attempts = EndActive(run.attempts)]
    BY <1>1, <1>2 DEF SetPhase, Run
  <2>2. run' \in Run
    BY <1>1, <2>1, ActiveEnded, PhaseField, PauseField, ActionField, AttemptsField
       DEF SetPhase, Phase, Terminal
  <2>3. /\ run'.attempts = EndActive(run.attempts) /\ run'.phase = "CANCELED"
        /\ run'.pause = "none" /\ run'.action = None
        /\ run'.workspace = run.workspace /\ run'.input = run.input
        /\ run'.result = run.result /\ run'.captured = run.captured
        /\ run'.candidate = run.candidate /\ run'.review = run.review
        /\ run'.leader = run.leader /\ run'.history = run.history
        /\ run'.round = run.round /\ run'.continuation = run.continuation
        /\ run'.untrusted = run.untrusted /\ run'.resumeReview = run.resumeReview
        /\ run'.publish = run.publish
    BY <1>1, <2>1 DEF SetPhase, Run
  <2>4. /\ Len(run'.attempts) = Len(run.attempts) /\ DOMAIN run'.attempts = DOMAIN run.attempts
        /\ run.attempts # <<>> => run'.attempts # <<>>
        /\ Surviving /\ Len(run.attempts) \in Nat
        /\ run.attempts # <<>> => Len(run.attempts) \in DOMAIN run.attempts
    BY <1>1, <2>3, ActiveEnded DEF Surviving, Run
  <2>5. TypeOK'
    BY <1>1, <2>2, <2>4, ArtifactAssumption DEF Idle, IInv, Kept, TypeOK
  <2>6. ResultIsLast' /\ ActionIsLast' /\ PublishableIsLast' /\ PublisherPublishes'
    BY <1>1, <2>3, <2>4
       DEF IInv, Kept, ResultIsLast, ActionIsLast, PublishableIsLast, Publishable, PausedWith,
           PublisherPublishes, Idle, Surviving, Last
  <2>7. ContinuationKept'
    BY <2>3, <2>4 DEF IInv, Kept, ContinuationKept, Surviving, Completed
  <2>8. ASSUME ~restored PROVE Fits'
    <3>1. CandidateIsResult' /\ CandidateWhereRequired' /\ LeaderBound' /\ PublishBound' /\ ActionFits'
      BY <1>1, <2>3, <2>8
         DEF IInv, Fits, CandidateIsResult, CandidateWhereRequired, Unworked,
             CandidateRequired, PausedWith, LeaderBound, PublishBound, EvidenceFits,
             ActionFits, Terminal
    <3>2. ReviewBound'
      BY <2>3, <2>4, <2>8 DEF IInv, Fits, EvidenceFits, ReviewBound, Completed, Surviving
    <3>3. HistoryIsCaptured'
      BY <2>3, <2>4, <2>8 DEF IInv, Fits, HistoryIsCaptured, Surviving
    <3>4. QED BY <3>1, <3>2, <3>3 DEF Fits, EvidenceFits
  <2>9. QED BY <1>1, <2>5, <2>6, <2>7, <2>8 DEF IInv, Kept
<1>3. CASE run' = Pause("PROCESS_RECONCILIATION")
  <2>1. /\ run' \in Run /\ SameEvidence /\ run'.phase = "PAUSED"
        /\ run'.pause = "PROCESS_RECONCILIATION" /\ run'.resumeReview = run.resumeReview
    BY <1>1, <1>3, Paused DEF PauseCode
  <2>2. TypeOK'
    BY <1>1, <2>1, ArtifactAssumption DEF Idle, IInv, Kept, TypeOK, SameEvidence
  <2>3. Kept'
    BY <1>1, <2>1, <2>2, MoveKept
       DEF IInv, Kept, Publishable, Reviewable, PausedWith, PublishPause, PublisherPublishes,
           Idle
  <2>4. ASSUME ~restored PROVE Fits'
    BY <1>1, <2>1, <2>4, MoveFits
       DEF IInv, Unworked, CandidateRequired, PausedWith, PublishPause, RepairPause
  <2>5. QED BY <1>1, <2>3, <2>4 DEF IInv
<1>4. QED BY <1>2, <1>3 DEF FinishCancel

-----------------------------------------------------------------------------
(* The steps that make evidence. *)

LEMMA CapturedFields ==
    ASSUME NEW r \in Run, NEW s \in Seq(Attempt), NEW t \in Tree, NEW a \in Action \cup {None}
    PROVE  [r EXCEPT !.attempts = s, !.candidate = t, !.captured = t, !.result = t,
                     !.continuation = None, !.action = a] \in Run
<1>1. [r EXCEPT !.attempts = s, !.candidate = t] \in Run
  BY AttemptsField, CandidateField
<1>2. [r EXCEPT !.attempts = s, !.candidate = t, !.captured = t, !.result = t] \in Run
  BY <1>1, CapturedField, ResultField
<1>3. QED BY <1>2, ContinuationField, ActionField

\* The attempts and the action after the capture.
TreeSet(t)   == [run.attempts EXCEPT ![Len(run.attempts)].tree = t]
ActionSet(t) == IF PhaseAfter(t) = "REVIEW_PENDING" THEN NewAction(t) ELSE None

LEMMA AttemptTreeSet ==
    ASSUME run \in Run, run.attempts # <<>>, NEW t \in Tree
    PROVE  /\ TreeSet(t) \in Seq(Attempt) /\ TreeSet(t) # <<>>
           /\ Len(TreeSet(t)) = Len(run.attempts) /\ DOMAIN TreeSet(t) = DOMAIN run.attempts
           /\ Len(run.attempts) \in DOMAIN run.attempts /\ Last \in Attempt
           /\ TreeSet(t)[Len(run.attempts)].tree = t
           /\ \A i \in DOMAIN run.attempts :
                 /\ i # Len(run.attempts) => TreeSet(t)[i] = run.attempts[i]
                 /\ TreeSet(t)[i].status = run.attempts[i].status
                 /\ TreeSet(t)[i].session = run.attempts[i].session
<1> DEFINE n == Len(run.attempts)
<1>1. run.attempts \in Seq(Attempt) /\ n \in DOMAIN run.attempts /\ n \in Nat /\ n # 0
  BY DEF Run
<1>2. run.attempts[n] \in Attempt /\ [run.attempts[n] EXCEPT !.tree = t] \in Attempt
  <2>1. run.attempts[n] \in Attempt
    BY <1>1, ElementOfSeq
  <2>2. QED BY <2>1 DEF Attempt
<1>3. /\ TreeSet(t) \in Seq(Attempt) /\ Len(TreeSet(t)) = n
      /\ DOMAIN TreeSet(t) = DOMAIN run.attempts
  BY <1>1, <1>2 DEF TreeSet
<1>4. /\ TreeSet(t)[n].tree = t
      /\ \A i \in DOMAIN run.attempts :
            /\ i # n => TreeSet(t)[i] = run.attempts[i]
            /\ TreeSet(t)[i].status = run.attempts[i].status
            /\ TreeSet(t)[i].session = run.attempts[i].session
  BY <1>1, <1>2 DEF TreeSet, Attempt
<1>5. QED BY <1>1, <1>2, <1>3, <1>4 DEF Last

LEMMA CaptureCandidateStep ==
    ASSUME IInv, CaptureCandidate
    PROVE  IInv'
<1> DEFINE n == Len(run.attempts)
<1>1. /\ run \in Run /\ run.attempts # <<>> /\ Last.status = "COMPLETED" /\ Last.tree = None
      /\ run.phase = "RUNNING" /\ run.result = None /\ run.input # None /\ run.workspace
      /\ run.action = None /\ stray' = "none"
      /\ UNCHANGED <<task, up, noticed, restored, misfiled>>
      /\ task.key # "publish" /\ n <= Attempts
  BY RunningHasInput, NoAction
     DEF IInv, Kept, TypeOK, CaptureCandidate, Capturable, Goes, Unmoved, PublisherPublishes
<1>2. PICK t \in Tree :
        run' = [Captured(t) EXCEPT
                  !.action = IF PhaseAfter(t) = "REVIEW_PENDING" THEN NewAction(t) ELSE @]
  BY DEF CaptureCandidate
<1>3. t # None
  BY ArtifactAssumption
<1>4. PhaseAfter(t) \in {"FIXING", "REVIEW_PENDING", "READY_TO_PUBLISH"}
  BY DEF PhaseAfter
<1>5. n \in Id
  BY <1>1, AttemptTreeSet DEF Id, Run
<1>6. ActionSet(t) \in Action \cup {None} /\ NewAction(t) \in Action
  <2>1. BoundReviewer \in Reviewer \cup {None}
    BY <1>1 DEF BoundReviewer, Run, Entry
  <2>2. Last.session \in Id
    BY <1>1, AttemptTreeSet DEF Attempt
  <2>3. NewAction(t) \in Action
    BY <1>5, <2>1, <2>2 DEF NewAction, Action
  <2>4. QED BY <2>3 DEF ActionSet
<1>7. run' = [SetPhase(PhaseAfter(t)) EXCEPT
                !.attempts = TreeSet(t), !.candidate = t, !.captured = t, !.result = t,
                !.continuation = None, !.action = ActionSet(t)]
  BY <1>1, <1>2 DEF Captured, SetPhase, Run, TreeSet, ActionSet
<1>8. run' \in Run
  <2>1. SetPhase(PhaseAfter(t)) \in Run
    BY <1>1, <1>4, PhaseField, PauseField DEF SetPhase, Phase
  <2>2. TreeSet(t) \in Seq(Attempt)
    BY <1>1, AttemptTreeSet
  <2>3. QED BY <1>6, <1>7, <2>1, <2>2, CapturedFields
<1>9. /\ run'.phase = PhaseAfter(t) /\ run'.pause = "none" /\ run'.attempts = TreeSet(t)
      /\ run'.candidate = t /\ run'.captured = t /\ run'.result = t
      /\ run'.continuation = None /\ run'.action = ActionSet(t)
      /\ run'.workspace = run.workspace /\ run'.input = run.input
      /\ run'.review = run.review /\ run'.leader = run.leader
      /\ run'.history = run.history /\ run'.untrusted = run.untrusted
      /\ run'.resumeReview = run.resumeReview /\ run'.publish = run.publish
  BY <1>1, <1>7 DEF SetPhase, Run
<1>10. /\ Last' = TreeSet(t)[n] /\ Len(run'.attempts) = n /\ run'.attempts # <<>>
       /\ Last'.status = "COMPLETED" /\ Last'.tree = t /\ Last'.session = Last.session
  BY <1>1, <1>9, AttemptTreeSet DEF Last
<1>11. TypeOK'
  BY <1>1, <1>8, <1>10 DEF IInv, Kept, TypeOK
<1>12. ActionIsLast'
  BY <1>4, <1>9, <1>10 DEF ActionIsLast, Reviewable, ActionSet, NewAction
<1>13. Kept'
  BY <1>1, <1>3, <1>4, <1>9, <1>10, <1>11, <1>12
     DEF Kept, ResultIsLast, ContinuationKept, PublishableIsLast, Publishable, PausedWith,
         PublisherPublishes, PhaseAfter
<1>14. ASSUME ~restored PROVE Fits'
  <2>1. Fits
    BY <1>14 DEF IInv
  <2>2. /\ run.candidate = None /\ run.review = None /\ run.leader = None
        /\ run.publish = None /\ run.untrusted = None /\ ~run.resumeReview
    BY <1>1, <2>1
       DEF Fits, CandidateIsResult, CandidateWhereRequired, Unworked, ActionFits, PausedWith,
           Terminal
  <2>3. \A e \in run.history : e.id \in DOMAIN run.attempts /\ e.id # n
    BY <1>1, <2>1 DEF Fits, HistoryIsCaptured, Last
  <2>4. HistoryIsCaptured'
    <3>1. \A e \in run.history : TreeSet(t)[e.id] = run.attempts[e.id]
      BY <1>1, <2>3, AttemptTreeSet
    <3>2. DOMAIN TreeSet(t) = DOMAIN run.attempts
      BY <1>1, AttemptTreeSet
    <3>3. QED BY <1>9, <2>1, <2>3, <3>1, <3>2 DEF Fits, HistoryIsCaptured
  <2>5. ActionFits'
    <3>1. BoundReviewer' = BoundReviewer
      BY <1>9 DEF BoundReviewer
    <3>2. CASE PhaseAfter(t) = "REVIEW_PENDING"
      <4>1. run'.action = NewAction(t) /\ NewAction(t) # None
        BY <1>6, <1>9, <3>2, NoneAssumption DEF ActionSet
      <4>2. QED BY <1>9, <1>10, <2>2, <2>3, <3>1, <3>2, <4>1
         DEF ActionFits, ReviewerContext, NewAction
    <3>3. CASE PhaseAfter(t) # "REVIEW_PENDING"
      BY <1>4, <1>9, <2>2, <3>3 DEF ActionFits, ActionSet
    <3>4. QED BY <3>2, <3>3
  <2>6. CandidateIsResult'
    BY <1>1, <1>3, <1>9, <2>2 DEF CandidateIsResult
  <2>7. CandidateWhereRequired'
    BY <1>3, <1>4, <1>9 DEF CandidateWhereRequired, Unworked, PausedWith
  <2>8. EvidenceFits'
    BY <1>9, <2>2 DEF EvidenceFits, ReviewBound, LeaderBound, PublishBound
  <2>9. QED BY <2>4, <2>5, <2>6, <2>7, <2>8 DEF Fits
<1>15. QED BY <1>1, <1>13, <1>14 DEF IInv

LEMMA ContinuedFields ==
    ASSUME NEW r \in Run, NEW c \in Continuation, NEW t \in Tree
    PROVE  [r EXCEPT !.candidate = None, !.action = None, !.review = None, !.leader = None,
                     !.publish = None, !.captured = None, !.result = None,
                     !.round = TRUE, !.untrusted = None, !.resumeReview = FALSE,
                     !.continuation = c, !.input = t] \in Run
<1>1. [r EXCEPT !.candidate = None, !.action = None, !.review = None] \in Run
  BY CandidateField, ActionField, ReviewField
<1>2. [r EXCEPT !.candidate = None, !.action = None, !.review = None, !.leader = None,
                !.publish = None, !.captured = None] \in Run
  BY <1>1, LeaderField, PublishField, CapturedField
<1>3. [r EXCEPT !.candidate = None, !.action = None, !.review = None, !.leader = None,
                !.publish = None, !.captured = None, !.result = None,
                !.round = TRUE, !.untrusted = None] \in Run
  BY <1>2, ResultField, RoundField, UntrustedField
<1>4. QED BY <1>3, ResumeReviewField, ContinuationField, InputField DEF Snapshot

LEMMA ContinueRepairStep ==
    ASSUME IInv, ContinueRepair
    PROVE  IInv'
<1> DEFINE n == Len(run.attempts)
           c == [source |-> n, session |-> Last.session, seed |-> run.result]
<1>1. /\ run \in Run /\ run.attempts # <<>> /\ Last.status = "COMPLETED" /\ run.result # None
      /\ run.result \in Tree /\ run.phase = "FIXING" /\ Last.tree = run.result
      /\ n <= Attempts /\ task.key # "publish"
      /\ UNCHANGED <<task, up, noticed, stray, restored, misfiled>>
  BY
     DEF IInv, Kept, TypeOK, ContinueRepair, Goes, Unmoved, SameTurn, Run, ResultIsLast,
         PublisherPublishes
<1>2. n \in Id /\ n \in DOMAIN run.attempts /\ Last \in Attempt /\ Last = run.attempts[n]
  <2>1. run.attempts \in Seq(Attempt) /\ n \in DOMAIN run.attempts /\ n \in Nat /\ n # 0
    BY <1>1 DEF Run
  <2>2. QED BY <1>1, <2>1, ElementOfSeq DEF Last, Id
<1>3. c \in Continuation
  BY <1>1, <1>2 DEF Continuation, Attempt
<1>4. run' = [SetPhase("PREPARING") EXCEPT
                !.candidate = None, !.action = None, !.review = None, !.leader = None,
                !.publish = None, !.captured = None, !.result = None,
                !.round = TRUE, !.untrusted = None, !.resumeReview = FALSE,
                !.continuation = c, !.input = run.result]
  BY DEF ContinueRepair, Seed
<1>5. SetPhase("PREPARING") \in Run
  BY <1>1, PhaseField, PauseField DEF SetPhase, Phase
<1>6. run' \in Run
  <2> HIDE DEF c
  <2>1. QED BY <1>1, <1>3, <1>4, <1>5, ContinuedFields
<1>7. /\ run'.phase = "PREPARING" /\ run'.pause = "none" /\ run'.attempts = run.attempts
      /\ run'.candidate = None /\ run'.action = None /\ run'.review = None
      /\ run'.leader = None /\ run'.publish = None /\ run'.captured = None
      /\ run'.result = None /\ run'.round /\ run'.untrusted = None /\ ~run'.resumeReview
      /\ run'.continuation = c /\ run'.input = run.result /\ run'.history = run.history
  <2> HIDE DEF c
  <2>1. QED BY <1>1, <1>4 DEF SetPhase, Run
<1>8. TypeOK'
  BY <1>1, <1>6, <1>7 DEF IInv, Kept, TypeOK
<1>9. ContinuationKept'
  BY <1>1, <1>2, <1>7 DEF ContinuationKept, Completed
<1>10. Kept'
  BY <1>1, <1>7, <1>8, <1>9
     DEF Kept, ResultIsLast, ActionIsLast, PublishableIsLast, Publishable, PausedWith,
         PublisherPublishes
<1>11. ASSUME ~restored PROVE Fits'
  <2>1. CandidateIsResult' /\ CandidateWhereRequired' /\ EvidenceFits' /\ ActionFits'
    BY <1>7
       DEF CandidateIsResult, CandidateWhereRequired, CandidateRequired, EvidenceFits,
           ReviewBound, LeaderBound, PublishBound, ActionFits, PausedWith
  <2>2. HistoryIsCaptured'
    BY <1>7, <1>11 DEF IInv, Fits, HistoryIsCaptured
  <2>3. QED BY <2>1, <2>2 DEF Fits
<1>12. QED BY <1>1, <1>10, <1>11 DEF IInv

LEMMA RepairPausesStep ==
    ASSUME IInv, RepairPauses
    PROVE  IInv'
<1>1. /\ run \in Run /\ run.phase = "FIXING" /\ run.candidate # None /\ run.action = None
      /\ task' = Idle /\ UNCHANGED <<up, noticed, stray, restored, misfiled>>
  BY NoAction DEF IInv, Kept, TypeOK, RepairPauses, RepairOrdered, Ends, Unmoved, SameTurn
<1>2. /\ run' \in Run /\ run'.phase = "PAUSED" /\ run'.pause \in RepairPause
      /\ run'.round /\ run'.untrusted \in {run.untrusted, run.candidate}
      /\ run'.attempts = run.attempts /\ run'.workspace = run.workspace
      /\ run'.input = run.input /\ run'.result = run.result
      /\ run'.captured = run.captured /\ run'.candidate = run.candidate
      /\ run'.action = run.action /\ run'.review = run.review /\ run'.leader = run.leader
      /\ run'.history = run.history /\ run'.continuation = run.continuation
      /\ run'.resumeReview = run.resumeReview /\ run'.publish = run.publish
  <2>1. CASE run' = [Pause("REPAIR_USER_APPROVAL_REQUIRED") EXCEPT
                       !.round = TRUE, !.untrusted = run.candidate]
    <3>1. run' \in Run
      <4>1. run.candidate \in Tree \cup {None}
        BY <1>1 DEF Run
      <4>2. QED BY <1>1, <2>1, <4>1, PhaseField, PauseField, RoundField, UntrustedField
         DEF Pause, Phase, PauseCode, RepairPause
    <3>2. QED BY <1>1, <2>1, <3>1 DEF Pause, Run, RepairPause
  <2>2. CASE run' = [Pause("REPAIR_NO_PROGRESS") EXCEPT !.round = TRUE]
    <3>1. run' \in Run
      BY <1>1, <2>2, PhaseField, PauseField, RoundField DEF Pause, Phase, PauseCode, RepairPause
    <3>2. QED BY <1>1, <2>2, <3>1 DEF Pause, Run, RepairPause
  <2>3. QED BY <2>1, <2>2 DEF RepairPauses
<1>3. TypeOK'
  BY <1>1, <1>2, ArtifactAssumption DEF IInv, Kept, TypeOK, Idle
<1>4. ContinuationKept'
  BY <1>2 DEF IInv, Kept, ContinuationKept, Completed
<1>5. ~Publishable'
  BY <1>2 DEF Publishable, PausedWith, RepairPause, PublishPause
<1>6. Kept'
  BY <1>1, <1>2, <1>3, <1>4, <1>5
     DEF IInv, Kept, ResultIsLast, ActionIsLast, Last, PublishableIsLast, PublisherPublishes,
         Idle
<1>7. ASSUME ~restored PROVE Fits'
  <2>1. Fits
    BY <1>7 DEF IInv
  <2>2. CandidateIsResult' /\ CandidateWhereRequired' /\ HistoryIsCaptured'
    BY <1>1, <1>2, <2>1
       DEF Fits, CandidateIsResult, CandidateWhereRequired, Unworked, PausedWith, RepairPause,
           HistoryIsCaptured
  <2>3. EvidenceFits'
    BY <1>2, <2>1 DEF Fits, EvidenceFits, ReviewBound, LeaderBound, PublishBound, Completed
  <2>4. ActionFits'
    BY <1>1, <1>2, <2>1 DEF Fits, ActionFits, PausedWith, RepairPause, Terminal
  <2>5. QED BY <2>1, <2>2, <2>3, <2>4 DEF Fits
<1>8. QED BY <1>1, <1>6, <1>7 DEF IInv

\* The decisions of a review.
DecisionSet(p, q, v, d, h, k) ==
    [run EXCEPT !.phase = p, !.pause = q, !.action = None, !.review = v, !.leader = d,
                !.history = h, !.rounds = k]

LEMMA ReviewedFields ==
    ASSUME run \in Run, NEW p \in Phase, NEW q \in PauseCode \cup {"none"},
           NEW v \in Review, NEW d \in Decision, NEW h \in SUBSET Entry,
           NEW k \in 0 .. RepairLimit
    PROVE  LET r == DecisionSet(p, q, v, d, h, k)
           IN  /\ r \in Run
               /\ r.phase = p /\ r.pause = q /\ r.action = None /\ r.review = v
               /\ r.leader = d /\ r.history = h
               /\ r.attempts = run.attempts /\ r.workspace = run.workspace
               /\ r.input = run.input /\ r.result = run.result
               /\ r.captured = run.captured /\ r.candidate = run.candidate
               /\ r.round = run.round /\ r.continuation = run.continuation
               /\ r.untrusted = run.untrusted /\ r.resumeReview = run.resumeReview
               /\ r.publish = run.publish
<1>1. [run EXCEPT !.phase = p, !.pause = q, !.action = None] \in Run
  BY PhaseField, PauseField, ActionField
<1>2. [run EXCEPT !.phase = p, !.pause = q, !.action = None, !.review = v, !.leader = d] \in Run
  BY <1>1, ReviewField, LeaderField
<1>3. [run EXCEPT !.phase = p, !.pause = q, !.action = None, !.review = v, !.leader = d,
                  !.history = h, !.rounds = k] \in Run
  BY <1>2, HistoryField, RoundsField
<1>4. QED BY <1>3 DEF Run, DecisionSet

LEMMA FinalizeReviewStep ==
    ASSUME IInv, FinalizeReview
    PROVE  IInv'
<1>1. PICK reviewer \in Reviewer :
        /\ Answers(reviewer)
        /\ \/ run' = Reviewed(TRUE, reviewer, "accept", "READY_TO_PUBLISH") /\ Goes
           \/ /\ RoundsLeft
              /\ run' = [Reviewed(FALSE, reviewer, "repair", "FIXING") EXCEPT !.rounds = @ + 1]
              /\ Goes
           \/ /\ ~RoundsLeft
              /\ run' = [Reviewed(FALSE, reviewer, "pause", "PAUSED") EXCEPT
                           !.pause = "AUTOMATIC_REPAIR_LIMIT"]
              /\ Ends
  BY DEF FinalizeReview
<1>2. /\ run \in Run /\ run.phase = "REVIEWING" /\ Verifies /\ run.action # None
      /\ task' \in {task, Idle} /\ task.key # "publish"
      /\ stray' = "none" /\ UNCHANGED <<up, noticed, restored, misfiled>>
  BY <1>1
     DEF Answers, Goes, Ends, IInv, Kept, TypeOK, PublisherPublishes, FinalizeReview, Unmoved
<1>3. /\ run.action \in Action /\ run.attempts # <<>> /\ run.action.id = Len(run.attempts)
      /\ run.action.tree = Last.tree
  BY <1>2 DEF IInv, Kept, ActionIsLast, Run
<1>4. run.candidate # None /\ run.input # None /\ run.result = run.candidate
  BY <1>2 DEF Verifies, InventoryComplete, CandidateRequired, CandidateBound
<1>5. Last.status = "COMPLETED" /\ Last.tree = run.candidate
  BY <1>4 DEF IInv, Kept, ResultIsLast
<1>6. /\ Last \in Attempt /\ Len(run.attempts) \in DOMAIN run.attempts
      /\ Last = run.attempts[Len(run.attempts)]
  BY <1>2, <1>3, ElementOfSeq DEF Last, Run
<1> DEFINE v(accept) == [id |-> run.action.id, tree |-> run.action.tree,
                         session |-> Last.session, accept |-> accept]
           d(decision) == [review |-> run.action.id, decision |-> decision]
           h == run.history \cup {[id |-> run.action.id, tree |-> run.action.tree,
                                  reviewer |-> reviewer]}
<1>7. /\ v(TRUE) \in Review /\ v(FALSE) \in Review
      /\ d("accept") \in Decision /\ d("repair") \in Decision /\ d("pause") \in Decision
      /\ h \in SUBSET Entry
  BY <1>2, <1>3, <1>6 DEF Review, Decision, Entry, Action, Attempt, Run
<1>8. PICK accept \in BOOLEAN, decision \in {"accept", "repair", "pause"},
           p \in {"READY_TO_PUBLISH", "FIXING", "PAUSED"},
           q \in {"none", "AUTOMATIC_REPAIR_LIMIT"}, k \in 0 .. RepairLimit :
        /\ run' = DecisionSet(p, q, v(accept), d(decision), h, k)
        /\ p = "READY_TO_PUBLISH" => accept /\ decision = "accept"
        /\ p = "PAUSED" => q = "AUTOMATIC_REPAIR_LIMIT"
  <2>1. run.rounds \in 0 .. RepairLimit /\ RepairLimit \in Nat
    BY <1>2, ArtifactAssumption DEF Run
  <2>2. run = [run EXCEPT !.rounds = run.rounds]
    BY <1>2 DEF Run
  <2>3. CASE run' = Reviewed(TRUE, reviewer, "accept", "READY_TO_PUBLISH")
    <3>1. run' = DecisionSet("READY_TO_PUBLISH", "none", v(TRUE), d("accept"), h, run.rounds)
      BY <1>2, <2>3 DEF Reviewed, SetPhase, Run, DecisionSet
    <3>2. QED BY <2>1, <3>1
  <2>4. CASE RoundsLeft
             /\ run' = [Reviewed(FALSE, reviewer, "repair", "FIXING") EXCEPT !.rounds = @ + 1]
    <3>1. run' = DecisionSet("FIXING", "none", v(FALSE), d("repair"), h, run.rounds + 1)
      BY <1>2, <2>4 DEF Reviewed, SetPhase, Run, DecisionSet
    <3>2. run.rounds + 1 \in 0 .. RepairLimit
      BY <2>1, <2>4 DEF RoundsLeft
    <3>3. QED BY <3>1, <3>2
  <2>5. CASE run' = [Reviewed(FALSE, reviewer, "pause", "PAUSED") EXCEPT
                       !.pause = "AUTOMATIC_REPAIR_LIMIT"]
    <3>1. run' = DecisionSet("PAUSED", "AUTOMATIC_REPAIR_LIMIT", v(FALSE), d("pause"), h, run.rounds)
      BY <1>2, <2>5 DEF Reviewed, SetPhase, Run, DecisionSet
    <3>2. QED BY <2>1, <3>1
  <2>6. QED BY <1>1, <2>3, <2>4, <2>5
<1>9. v(accept) \in Review /\ d(decision) \in Decision
  BY <1>7
<1>10. /\ run' \in Run
       /\ run'.phase = p /\ run'.pause = q /\ run'.action = None /\ run'.review = v(accept)
       /\ run'.leader = d(decision) /\ run'.history = h
       /\ run'.attempts = run.attempts /\ run'.workspace = run.workspace
       /\ run'.input = run.input /\ run'.result = run.result
       /\ run'.captured = run.captured /\ run'.candidate = run.candidate
       /\ run'.round = run.round /\ run'.continuation = run.continuation
       /\ run'.untrusted = run.untrusted /\ run'.resumeReview = run.resumeReview
       /\ run'.publish = run.publish
  <2>1. p \in Phase /\ q \in PauseCode \cup {"none"}
    BY DEF Phase, PauseCode
  <2> HIDE DEF v, d, h
  <2>2. QED BY <1>2, <1>7, <1>8, <1>9, <2>1, ReviewedFields
<1>11. TypeOK'
  BY <1>2, <1>10, ArtifactAssumption DEF IInv, Kept, TypeOK, Idle
<1>12. v(accept) # None /\ d(decision) # None
  BY <1>9, NoneAssumption
<1>13. ContinuationKept'
  BY <1>10 DEF IInv, Kept, ContinuationKept, Completed
<1>14. PublishableIsLast'
  BY <1>3, <1>4, <1>5, <1>8, <1>10, <1>12
     DEF PublishableIsLast, Publishable, PausedWith, PublishPause, Approved, Last
<1>15. Kept'
  BY <1>2, <1>8, <1>10, <1>11, <1>13, <1>14
     DEF IInv, Kept, ResultIsLast, Last, ActionIsLast, PublisherPublishes, Idle
<1>16. ASSUME ~restored PROVE Fits'
  <2>1. Fits
    BY <1>16 DEF IInv
  <2>2. run.publish = None /\ run.candidate = run.action.tree /\ ~run.resumeReview
    BY <1>2, <2>1 DEF Fits, ActionFits, PausedWith, Terminal
  <2>3. CandidateIsResult' /\ CandidateWhereRequired'
    BY <1>4, <1>8, <1>10, <2>1
       DEF Fits, CandidateIsResult, CandidateWhereRequired, Unworked, PausedWith
  <2>4. LeaderBound'
    BY <1>10, <1>12 DEF LeaderBound
  <2>5. ReviewBound'
    <3>1. \E e \in run'.history : e.id = run'.review.id /\ e.tree = run'.review.tree
      <4> DEFINE entry == [id |-> run.action.id, tree |-> run.action.tree, reviewer |-> reviewer]
      <4>1. entry \in run'.history
        BY <1>10
      <4>2. entry.id = run'.review.id /\ entry.tree = run'.review.tree
        BY <1>10
      <4>3. QED BY <4>1, <4>2
    <3>2. \E i \in DOMAIN run'.attempts :
             Completed(i)' /\ run'.attempts[i].session = run'.review.session
      BY <1>5, <1>6, <1>10 DEF Completed
    <3>3. run'.candidate = run'.review.tree
      BY <1>10, <2>2
    <3>4. QED BY <3>1, <3>2, <3>3 DEF ReviewBound
  <2>6. PublishBound' /\ ActionFits'
    BY <1>8, <1>10, <2>2 DEF PublishBound, ActionFits
  <2>7. HistoryIsCaptured'
    BY <1>3, <1>4, <1>5, <1>6, <1>10, <2>1 DEF Fits, HistoryIsCaptured
  <2>8. QED BY <2>3, <2>4, <2>5, <2>6, <2>7 DEF Fits, EvidenceFits
<1>17. QED BY <1>2, <1>15, <1>16 DEF IInv

LEMMA PreparePublishStep ==
    ASSUME IInv, PreparePublish
    PROVE  IInv'
<1> DEFINE new == [tree   |-> run.candidate,
                   review |-> IF ReviewEnabled THEN run.review.id ELSE None]
<1>1. /\ run \in Run /\ run.phase = "READY_TO_PUBLISH" /\ run.action = None
      /\ run.candidate # None /\ (ReviewEnabled => run.review # None)
      /\ UNCHANGED <<task, up, noticed, stray, restored, misfiled>>
  BY NoAction
     DEF IInv, Kept, TypeOK, PreparePublish, Goes, Unmoved, SameTurn, PublishableIsLast,
         Publishable, Approved
<1>2. new \in Publish
  BY <1>1 DEF Publish, Run, Review
<1>3. run' = [SetPhase("PUBLISHING") EXCEPT !.publish = new]
  BY DEF PreparePublish
<1>4. run' \in Run
  <2> HIDE DEF new
  <2>1. QED BY <1>1, <1>2, <1>3, PhaseField, PauseField, PublishField DEF SetPhase, Phase
<1>5. /\ run'.phase = "PUBLISHING" /\ run'.pause = "none" /\ run'.publish = new
      /\ run'.attempts = run.attempts /\ run'.workspace = run.workspace
      /\ run'.input = run.input /\ run'.result = run.result
      /\ run'.captured = run.captured /\ run'.candidate = run.candidate
      /\ run'.action = run.action /\ run'.review = run.review /\ run'.leader = run.leader
      /\ run'.history = run.history /\ run'.round = run.round
      /\ run'.continuation = run.continuation /\ run'.untrusted = run.untrusted
      /\ run'.resumeReview = run.resumeReview
  <2> HIDE DEF new
  <2>1. QED BY <1>1, <1>3 DEF SetPhase, Run
<1>6. TypeOK'
  BY <1>1, <1>4, <1>5 DEF IInv, Kept, TypeOK
<1>7. Kept'
  BY <1>1, <1>5, <1>6
     DEF IInv, Kept, ResultIsLast, ContinuationKept, Completed, ActionIsLast,
         PublishableIsLast, Publishable, Approved, Last, PublisherPublishes
<1>8. ASSUME ~restored PROVE Fits'
  <2>1. Fits
    BY <1>8 DEF IInv
  <2>2. CandidateIsResult' /\ CandidateWhereRequired' /\ HistoryIsCaptured' /\ ActionFits'
    BY <1>1, <1>5, <2>1
       DEF Fits, CandidateIsResult, CandidateWhereRequired, Unworked, PausedWith,
           HistoryIsCaptured, ActionFits, Terminal
  <2>3. EvidenceFits'
    BY <1>1, <1>5, <2>1
       DEF Fits, EvidenceFits, ReviewBound, LeaderBound, PublishBound, Completed
  <2>4. QED BY <2>2, <2>3 DEF Fits
<1>9. QED BY <1>1, <1>7, <1>8 DEF IInv

LEMMA ResumeDecisionStep ==
    ASSUME IInv, ResumeDecision
    PROVE  IInv'
<1> DEFINE new == [review |-> run.review.id, decision |-> "repair"]
<1>1. /\ run \in Run /\ PausedWith({"AUTOMATIC_REPAIR_LIMIT"}) /\ run.review # None
      /\ run.action = None
      /\ task'.key = "pipeline"
      /\ UNCHANGED <<up, noticed, stray, restored, misfiled>>
  BY
     DEF IInv, Kept, TypeOK, ResumeDecision, Answerable, Schedule, Unmoved, SameTurn,
         ActionIsLast, Reviewable, PausedWith
<1>2. new \in Decision
  BY <1>1 DEF Decision, Run, Review
<1>3. run' = [SetPhase("FIXING") EXCEPT !.leader = new, !.rounds = 1]
  BY DEF ResumeDecision
<1>4. run' \in Run
  <2> HIDE DEF new
  <2>1. 1 \in 0 .. RepairLimit
    BY ArtifactAssumption
  <2>2. QED BY <1>1, <1>2, <1>3, <2>1, PhaseField, PauseField, LeaderField, RoundsField
     DEF SetPhase, Phase
<1>5. /\ run'.phase = "FIXING" /\ run'.pause = "none" /\ run'.leader = new
      /\ run'.attempts = run.attempts /\ run'.workspace = run.workspace
      /\ run'.input = run.input /\ run'.result = run.result
      /\ run'.captured = run.captured /\ run'.candidate = run.candidate
      /\ run'.action = run.action /\ run'.review = run.review
      /\ run'.history = run.history /\ run'.round = run.round
      /\ run'.continuation = run.continuation /\ run'.untrusted = run.untrusted
      /\ run'.resumeReview = run.resumeReview /\ run'.publish = run.publish
  <2> HIDE DEF new
  <2>1. QED BY <1>1, <1>3 DEF SetPhase, Run
<1>6. TypeOK'
  <2>1. task' = [key |-> "pipeline", seen |-> Len(run.attempts)]
    BY DEF ResumeDecision, Schedule
  <2>2. Len(run.attempts) \in 0 .. Attempts
    BY ArtifactAssumption DEF IInv, Kept, TypeOK, Run
  <2>3. QED BY <1>1, <1>4, <1>5, <2>1, <2>2 DEF IInv, Kept, TypeOK, Key
<1>7. Kept'
  BY <1>1, <1>5, <1>6
     DEF IInv, Kept, ResultIsLast, ContinuationKept, Completed, ActionIsLast,
         PublishableIsLast, Publishable, PausedWith, Last, PublisherPublishes
<1>8. ASSUME ~restored PROVE Fits'
  <2>1. Fits
    BY <1>8 DEF IInv
  <2>2. CandidateIsResult' /\ CandidateWhereRequired' /\ HistoryIsCaptured' /\ ActionFits'
    BY <1>1, <1>5, <2>1
       DEF Fits, CandidateIsResult, CandidateWhereRequired, Unworked, PausedWith,
           HistoryIsCaptured, ActionFits, Terminal
  <2>3. EvidenceFits'
    BY <1>1, <1>5, <2>1
       DEF Fits, EvidenceFits, ReviewBound, LeaderBound, PublishBound, Completed
  <2>4. QED BY <2>2, <2>3 DEF Fits
<1>9. QED BY <1>1, <1>7, <1>8 DEF IInv

-----------------------------------------------------------------------------
(* All steps. *)

LEMMA InitInvariant == Init => IInv
<1> SUFFICES ASSUME Init PROVE IInv
  OBVIOUS
<1>1. TypeOK
  <2>1. <<>> \in Seq(Attempt) /\ Len(<<>>) = 0 /\ 0 \in 0 .. RepairLimit /\ 0 \in 0 .. Attempts
    BY ArtifactAssumption
  <2>2. run \in Run
    BY <2>1 DEF Init, Run, Phase
  <2>3. Len(run.attempts) <= Attempts
    BY <2>1, ArtifactAssumption DEF Init
  <2>4. QED BY <2>1, <2>2, <2>3 DEF Init, TypeOK, Key
<1>2. Kept
  BY <1>1 DEF Init, Kept, ResultIsLast, ContinuationKept, ActionIsLast, PublishableIsLast,
              Publishable, PausedWith, PublisherPublishes
<1>3. Fits
  BY DEF Init, Fits, CandidateIsResult, CandidateWhereRequired, CandidateRequired, EvidenceFits,
         ReviewBound, LeaderBound, PublishBound, HistoryIsCaptured, ActionFits, PausedWith
<1>4. QED BY <1>2, <1>3 DEF IInv

LEMMA StepInvariant == IInv /\ [Next]_vars => IInv'
<1> SUFFICES ASSUME IInv, [Next]_vars PROVE IInv'
  OBVIOUS
<1>1. CASE Worker
  BY <1>1, PrepareWorkspaceStep, ProbeFailsStep, BeginAttemptStep, AttemptCompletesStep,
     AttemptFailsStep, ContainmentBlockedStep, CaptureCandidateStep DEF Worker
<1>2. CASE Repair
  BY <1>2, ContinueRepairStep, RepairPausesStep DEF Repair
<1>3. CASE Reviews
  BY <1>3, BeginReviewStep, FinalizeReviewStep, ReviewExhaustedStep DEF Reviews
<1>4. CASE Publisher
  BY <1>4, PreparePublishStep, PublishPausesStep, PublishCommitsStep DEF Publisher
<1>5. CASE Client
  BY <1>5, ResumeWorkerStep, RestoreTasksStep, RetryReviewStep, ResumeDecisionStep,
     RetryPublishStep, CancelStep DEF Client
<1>6. CASE FinishCancel \/ StageFails \/ Drifts \/ Crash
  BY <1>6, FinishCancelStep, StageFailsStep, DriftsStep, CrashStep
<1>7. CASE Boot
  BY <1>7, RecoverRefusedStep, RecoverRunningStep, RecoverPublishingStep, RecoverAsItIsStep
     DEF Boot
<1>8. CASE UNCHANGED vars
  <2>1. TypeOK'
    BY <1>8 DEF vars, IInv, Kept, TypeOK
  <2>2. QED BY <1>8, <2>1, StillStep DEF vars
<1>9. QED BY <1>1, <1>2, <1>3, <1>4, <1>5, <1>6, <1>7, <1>8 DEF Next

THEOREM Invariance == Spec => []IInv
BY InitInvariant, StepInvariant, PTL DEF Spec

\* The record keeps its types, and the rounds of automatic repair their limit, however
\* often a run is repaired, restored, recovered and resumed.
THEOREM TypeCorrect == Spec => []TypeOK
<1>1. IInv => TypeOK
  BY DEF IInv, Kept
<1>2. QED BY <1>1, Invariance, PTL

\* verifyRunArtifacts never refuses the record of a run, unless tasks were restored under
\* a candidate or a failing worker was recorded as a failing review.
THEOREM HealthyRunsVerify == Spec => []HealthyRunVerifies
<1>1. IInv => HealthyRunVerifies
  <2> SUFFICES ASSUME IInv, ~restored, ~misfiled PROVE Verifies
    BY DEF HealthyRunVerifies
  <2>1. Kept /\ Fits
    BY DEF IInv
  <2>2. InventoryComplete
    BY <2>1 DEF Kept, ResultIsLast, Fits, CandidateIsResult, CandidateWhereRequired,
                InventoryComplete
  <2>3. ContinuationBound
    BY <2>1 DEF Kept, ContinuationKept, ContinuationBound
  <2>4. CandidateBound
    BY <2>1 DEF Fits, CandidateIsResult, CandidateBound
  <2>5. ApprovalRequired => Approved
    BY <2>1 DEF Kept, PublishableIsLast, Publishable, PausedWith, ApprovalRequired
  <2>6. QED BY <2>1, <2>2, <2>3, <2>4, <2>5 DEF Verifies, Fits, EvidenceFits
<1>2. QED BY <1>1, Invariance, PTL

\* What a reviewer answers is about what the last attempt left, and can be recorded.
THEOREM PendingReviewsAreCurrent == Spec => []PendingReviewIsCurrent
<1>1. IInv => PendingReviewIsCurrent
  <2> SUFFICES ASSUME IInv, ~restored, run.phase \in {"REVIEW_PENDING", "REVIEWING"}
               PROVE  /\ ReviewerContext /\ run.workspace
                      /\ run.candidate = run.action.tree /\ Last.tree = run.action.tree
    BY DEF PendingReviewIsCurrent
  <2>1. run.action # None /\ ReviewerContext /\ run.candidate = run.action.tree
    BY DEF IInv, Fits, ActionFits
  <2>2. Last.tree = run.action.tree
    BY <2>1 DEF IInv, Kept, ActionIsLast
  <2>3. run.workspace
    BY <2>1 DEF IInv, Fits, CandidateIsResult
  <2>4. QED BY <2>1, <2>2, <2>3
<1>2. QED BY <1>1, Invariance, PTL

\* A repair goes on from what its source left, whatever came between.
THEOREM ContinuesFromSource == Spec => []ContinuesWhatItLeft
<1>1. IInv => ContinuesWhatItLeft
  BY DEF IInv, Kept, ContinuationKept, ContinuesWhatItLeft
<1>2. QED BY <1>1, Invariance, PTL

\* Nothing is published but what the last attempt left and, with reviews, an accepting
\* review saw.
THEOREM PublishesReviewed == Spec => []ReadyIsReviewed
<1>1. IInv => ReadyIsReviewed
  BY DEF IInv, Kept, PublishableIsLast, Publishable, Approved, ReadyIsReviewed
<1>2. QED BY <1>1, Invariance, PTL
=============================================================================
