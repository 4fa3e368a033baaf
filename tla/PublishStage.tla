---------------------------- MODULE PublishStage ----------------------------
(***************************************************************************)
(* Publishing an accepted candidate into the project: publish-coordinator  *)
(* .ts and PublishService, around the workspace adapter, whose stored      *)
(* result survives a crash.                                                *)
(***************************************************************************)
EXTENDS RunState

\* identityGuards and expectedPhases of the publish mutations.
In(k, phases) == k \in current /\ run.phase \in phases

Refused(k) == Goto(k, "failed") /\ Unsaved

\* PublishCoordinator.publish verifies the evidence of the decision.
Evidence == "candidate" \in run.items /\ (ReviewEnabled => "accepted" \in run.items)

Publish(k) ==
    /\ at[k] = "publish"
    /\ CASE run.phase \in {"PAUSED", "CANCELING"} \cup Terminal -> End(k)
         [] run.phase = "READY_TO_PUBLISH" /\ Evidence ->
              Capture(k, IF "manual" \in run.items THEN "confirm" ELSE "acquire")
         [] OTHER -> Goto(k, "failed")
    /\ Unsaved /\ ExceptTask

\* confirmManualPublish: the user says the project already has the changes.
ConfirmManually(k) ==
    /\ at[k] = "confirm"
    /\ IF In(k, {"READY_TO_PUBLISH"}) /\ run.publish = "none" /\ "manual" \in run.items
         THEN /\ End(k)
              /\ \/ /\ Save(Items(Pause("MANUAL_PUBLISH_TARGET_MISMATCH"), {"manual"}, {}))
                    /\ UNCHANGED lease
                 \/ /\ Save(Items([SetPhase("COMPLETED") EXCEPT !.publish = "COMMITTED"],
                                  {"manual"}, {}))
                    /\ lease' = IF lease = "mine" THEN "free" ELSE lease
         ELSE Refused(k) /\ UNCHANGED lease
    /\ UNCHANGED <<daemon, receipts, worker, result>>

AcquireLease(k) ==
    /\ at[k] = "acquire"
    /\ CASE lease = "other" -> Goto(k, "busy") /\ Unsaved /\ UNCHANGED lease
         [] lease # "other" /\ In(k, {"READY_TO_PUBLISH", "PUBLISHING"}) ->
              Save(run) /\ lease' = "mine" /\ Goto(k, "preflight")
         [] OTHER -> Refused(k) /\ UNCHANGED lease
    /\ UNCHANGED <<daemon, receipts, worker, result>>

\* The project's files may differ from what the candidate was built on.
Preflight(k) ==
    /\ at[k] = "preflight"
    /\ Goto(k, "release") \/ Goto(k, "existing")
    /\ Unsaved /\ ExceptTask

ReleaseLease(k) ==
    /\ at[k] = "release"
    /\ CASE lease # "mine" -> Goto(k, "conflicted") /\ Unsaved /\ UNCHANGED lease
         [] lease = "mine" /\ In(k, {"READY_TO_PUBLISH", "PUBLISHING"}) ->
              Save(run) /\ lease' = "free" /\ Goto(k, "conflicted")
         [] OTHER -> Refused(k) /\ UNCHANGED lease
    /\ UNCHANGED <<daemon, receipts, worker, result>>

\* get: the publish attempt of an earlier try is taken up as it is read here.
ReadAttempt(k) ==
    /\ at[k] = "existing"
    /\ CASE run.publish = "none"      -> Goto(k, "prepare")
         [] run.publish = "COMMITTED" -> Goto(k, "committed")
         [] OTHER                     -> Goto(k, BindPoint[run.publish])
    /\ Unsaved /\ ExceptTask

\* prepare; a second preparation is answered from the receipt.
PrepareAttempt(k) ==
    /\ at[k] = "prepare"
    /\ CASE run.publish # "none" -> Goto(k, "submit") /\ Unsaved
         [] run.publish = "none" /\ In(k, {"READY_TO_PUBLISH"}) ->
              Save([SetPhase("PUBLISHING") EXCEPT !.publish = "PREPARED"]) /\ Goto(k, "submit")
         [] OTHER -> Refused(k)
    /\ ExceptTask

\* beginRecovery, once for each status: then it is answered from the receipt and
\* the phase stays what it is.
BeginRecovery(k) ==
    /\ \E s \in DOMAIN BindPoint :
         /\ at[k] = BindPoint[s]
         /\ LET next == IF s = "PREPARED" THEN "submit" ELSE "observe" IN
            CASE <<"begin", s>> \in receipts -> Goto(k, next) /\ Unsaved /\ UNCHANGED receipts
              [] <<"begin", s>> \notin receipts /\ In(k, {"READY_TO_PUBLISH", "PUBLISHING"}) ->
                   /\ Save([SetPhase("PUBLISHING") EXCEPT !.publish = s])
                   /\ receipts' = receipts \cup {<<"begin", s>>}
                   /\ Goto(k, next)
              [] OTHER -> Refused(k) /\ UNCHANGED receipts
    /\ UNCHANGED <<daemon, lease, worker, result>>

\* Faulty: the receipt of an earlier submission is not asked for.
SubmittableAgain(k) == In(k, {"PUBLISHING"}) /\ run.publish \in {"PREPARED", "SUBMITTED"}

\* A second submission is answered from the receipt, and so starts nothing.
Submittable(k) ==
    /\ <<"submitted">> \notin receipts
    /\ In(k, {"PUBLISHING"}) /\ run.publish = "PREPARED"

\* markSubmittedAndApply: the apply starts under the mutation that submits it.
\* Whatever throws, before the commit or after it, ends in PUBLISH_RECOVERY_BLOCKED.
Submit(k) ==
    /\ at[k] = "submit"
    /\ \/ /\ Submittable(k)
          /\ Save([run EXCEPT !.publish = "SUBMITTED"])
          /\ receipts' = receipts \cup {<<"submitted">>}
          /\ Goto(k, "applying") \/ (Faults /\ Goto(k, "blocked"))
       \/ /\ ~Submittable(k) \/ Faults
          /\ Goto(k, "blocked") /\ Unsaved /\ UNCHANGED receipts
    /\ UNCHANGED <<daemon, lease, worker, result>>

\* The adapter writes the files and stores its result (WorkspaceApply; UNKNOWN
\* stands for PARTIAL, too), or throws; or the lease of the hand-over cannot be
\* released, and the task goes on without the apply, which is taken to end first.
Apply(k) ==
    /\ at[k] = "applying"
    /\ \/ result' \in {"COMMITTED", "CONFLICT", "UNKNOWN"} /\ Goto(k, "complete")
       \/ result' \in {result, "COMMITTED", "CONFLICT", "UNKNOWN"} /\ Faults /\ Goto(k, "blocked")
    /\ Unsaved
    /\ UNCHANGED <<daemon, lease, receipts, worker>>

\* complete, after an apply, or after an earlier one's result was observed.
Complete(k) ==
    /\ at[k] = "complete" \/ (at[k] = "observe" /\ result # "none")
    /\ LET next == IF result = "COMMITTED" THEN "committed" ELSE "blocked" IN
       CASE <<"complete", result>> \in receipts ->
              Goto(k, next) /\ Unsaved /\ UNCHANGED <<lease, receipts>>
         [] <<"complete", result>> \notin receipts /\ In(k, {"PUBLISHING"}) ->
              /\ Save([run EXCEPT !.publish = result])
              /\ receipts' = receipts \cup {<<"complete", result>>}
              /\ lease' = IF result = "UNKNOWN" THEN lease ELSE "free"
              /\ Goto(k, next)
         [] OTHER -> Refused(k) /\ UNCHANGED <<lease, receipts>>
    /\ UNCHANGED <<daemon, worker, result>>

NothingObserved(k) ==
    /\ at[k] = "observe" /\ result = "none"
    /\ Goto(k, "blocked")
    /\ Unsaved /\ ExceptTask

\* publish-result, for the outcomes that leave PUBLISHING.  The schema refuses a
\* publish lease of a run that is not active.
ReportOutcome(k) ==
    /\ at[k] \in {"committed", "blocked"}
    /\ IF In(k, {"PUBLISHING"}) /\ (at[k] = "committed" => lease # "mine")
         THEN /\ Save(Items(IF at[k] = "committed" THEN SetPhase("COMPLETED")
                                                   ELSE Pause("INSPECT_ONLY"), {"manual"}, {}))
              /\ End(k)
         ELSE Refused(k)
    /\ ExceptTask

\* publish-result, for the outcomes before an attempt exists.  The key of the
\* mutation names the outcome only: a second one of the same payload is answered
\* from the receipt and changes nothing, one of another payload is refused.
ReportObstacle(k) ==
    /\ at[k] \in {"busy", "conflicted"}
    /\ LET outcome == IF at[k] = "busy" THEN "PUBLISH_BUSY" ELSE "PRECHECK_CONFLICT" IN
       \/ /\ <<outcome>> \in receipts
          /\ End(k) /\ Unsaved /\ UNCHANGED receipts
       \/ /\ <<outcome>> \in receipts /\ outcome = "PRECHECK_CONFLICT"
          /\ Refused(k) /\ UNCHANGED receipts
       \/ /\ <<outcome>> \notin receipts /\ In(k, {"READY_TO_PUBLISH"})
          /\ Save(Items(Pause(outcome), {"manual"}, {}))
          /\ receipts' = receipts \cup {<<outcome>>}
          /\ End(k)
       \/ /\ <<outcome>> \notin receipts /\ ~In(k, {"READY_TO_PUBLISH"})
          /\ Refused(k) /\ UNCHANGED receipts
    /\ UNCHANGED <<daemon, lease, worker, result>>

PublishStep(k) ==
    \/ Publish(k) \/ ConfirmManually(k) \/ AcquireLease(k) \/ Preflight(k)
    \/ ReleaseLease(k) \/ ReadAttempt(k) \/ PrepareAttempt(k) \/ BeginRecovery(k)
    \/ Submit(k) \/ Apply(k) \/ Complete(k) \/ NothingObserved(k) \/ ReportOutcome(k) \/ ReportObstacle(k)
=============================================================================
