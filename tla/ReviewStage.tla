---------------------------- MODULE ReviewStage ----------------------------
(***************************************************************************)
(* The daemon's review of a candidate: review-runner.ts around the         *)
(* transitions of review-coordinator.ts and planReviewDecision.            *)
(***************************************************************************)
EXTENDS RunState

\* beginOrReuse: a pending review is begun, a review that the daemon began
\* already is taken up again.
Review(k) ==
    /\ at[k] = "review"
    /\ CASE run.phase = "REVIEW_PENDING" /\ "action" \in run.items ->
              Save(SetPhase("REVIEWING")) /\ Capture(k, "reviewing")
         [] run.phase = "REVIEWING" /\ "action" \in run.items ->
              Capture(k, "reviewing") /\ Unsaved
         [] run.phase \in {"REVIEW_PENDING", "REVIEWING"} /\ "action" \notin run.items ->
              Goto(k, "failed") /\ Unsaved
         [] OTHER -> End(k) /\ Unsaved
    /\ ExceptTask

\* matchesActiveContext.
ReviewActive(k) == run.phase = "REVIEWING" /\ k \in current

\* The reviewer was asked in vain, or the review is no longer this task's.
ReviewLapses(k) ==
    /\ at[k] = "reviewing" /\ ~ReviewActive(k)
    /\ End(k)
    /\ Unsaved /\ ExceptTask

\* finalizeReview, every approved task complete.
Accept(k) ==
    /\ at[k] = "reviewing" /\ ReviewActive(k)
    /\ Save(Items(SetPhase("READY_TO_PUBLISH"), {"action"}, {"accepted"}))
    /\ Goto(k, "publish") /\ ExceptTask

\* Faulty: the limit is not looked at.
OrderRepairPastLimit(k) ==
    /\ at[k] = "reviewing" /\ ReviewActive(k)
    /\ Save(Items([SetPhase("FIXING") EXCEPT !.rounds = @ + 1], {"action"}, {}))
    /\ Goto(k, "enter") /\ ExceptTask

\* finalizeReview, tasks incomplete: another automatic repair round, or a pause
\* at the limit.
OrderRepair(k) ==
    /\ at[k] = "reviewing" /\ ReviewActive(k)
    /\ \/ /\ run.rounds < RepairLimit
          /\ Save(Items([SetPhase("FIXING") EXCEPT !.rounds = @ + 1], {"action"}, {}))
          /\ Goto(k, "enter")
       \/ /\ run.rounds >= RepairLimit
          /\ Save(Items(Pause("AUTOMATIC_REPAIR_LIMIT"), {"action"}, {}))
          /\ End(k)
    /\ ExceptTask

\* pauseForHostUnavailable, when all attempts failed: the action gets a new id.
ReviewExhausted(k) ==
    /\ at[k] = "reviewing" /\ ReviewActive(k)
    /\ Save(Pause("HOST_REVIEW_UNAVAILABLE"))
    /\ at' = [at EXCEPT ![k] = "none"]
    /\ current' = {j \in current \ {k} : at[j] # "reviewing"}
    /\ unbound' = unbound \ {k} /\ stale' = stale \ {k}
    /\ ExceptTask

ReviewStep(k) ==
    \/ Review(k) \/ ReviewLapses(k) \/ Accept(k) \/ OrderRepair(k) \/ ReviewExhausted(k)
=============================================================================
