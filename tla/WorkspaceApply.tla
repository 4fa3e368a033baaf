--------------------------- MODULE WorkspaceApply ---------------------------
(***************************************************************************)
(* One apply of FilesystemWorkspaceApplyAdapter                            *)
(* (packages/publish/src/workspace-apply-adapter.ts) in a project that its *)
(* user edits meanwhile.  Each path is observed, staged, renamed or        *)
(* unlinked in a step of its own; the daemon may end between any two.      *)
(*                                                                         *)
(* The content of a path stands for its kind, hash and mode.  Symbolic     *)
(* links are left out.  The adapter is called once for an operation id     *)
(* (RunLifecycle!AppliesOnce), so no result is there when it starts.       *)
(***************************************************************************)
EXTENDS Naturals, FiniteSets

CONSTANTS Paths,   \* how many operations there are
          Type,    \* ApplyOperation.type of each, in canonicalOperations order
          Edits,   \* bound: how often the user changes a file meanwhile
          Faults   \* whether file system calls and blob reads may fail

ASSUME OperationsAssumption ==
    /\ Paths \in Nat \ {0}
    /\ Type \in [1 .. Paths -> {"ADD", "MODIFY", "DELETE"}]
    /\ Edits \in Nat /\ Faults \in BOOLEAN

VARIABLES files,        \* content of the project at each path
          temporaries,  \* paths beside which a staged file lies in the project
          prepared,     \* paths of the map of staged files
          point, next,  \* where apply() is, and at which operation of a loop
          conflicts,    \* what the running preflight has found
          seen,         \* pathResult of the paths observed so far
          result,       \* the stored result's status
          edits,        \* edits the user still makes
          late,         \* history: paths edited when no check of them was to follow
          lost,         \* history: paths where an edit was overwritten
          written,      \* history: paths renamed or unlinked
          unstaged      \* history: paths whose staging has failed

vars == <<files, temporaries, prepared, point, next, conflicts, seen, result,
          edits, late, lost, written, unstaged>>
staging == <<temporaries, prepared>>
history == <<late, lost, written, unstaged>>

Path == 1 .. Paths
Content == {"absent", "base", "new", "edited", "directory"}

\* expectedOldKind and expectedOldHash; newHash.
Expected(p) == IF Type[p] = "ADD"    THEN "absent" ELSE "base"
Target(p)   == IF Type[p] = "DELETE" THEN "absent" ELSE "new"

Ended == {"returned", "thrown", "crashed"}
Point == {"preflight", "stage", "final", "discard", "write", "cleanup", "observe",
          "storeConflict", "storeFinalConflict", "stored"} \cup Ended

\* The earlier preflight of the publish service found what was expected; the user
\* may have changed it since.
Init ==
    /\ files = [p \in Path |-> Expected(p)]
    /\ temporaries = {} /\ prepared = {}
    /\ point = "preflight" /\ next = 1 /\ conflicts = {}
    /\ seen = [p \in Path |-> "none"] /\ result = "none"
    /\ edits = Edits
    /\ late = {} /\ lost = {} /\ written = {} /\ unstaged = {}

Goto(l) == point' = l /\ UNCHANGED next

\* A loop over the operations is left, or another one is entered.
EnterLoop(l) == point' = l /\ next' = 1 /\ conflicts' = {}

-----------------------------------------------------------------------------
(* The user and the daemon's process *)

\* preflightOperations has yet to look at p before the files are written.
Unchecked(p) == point \in {"preflight", "stage"} \/ (point = "final" /\ next <= p)

Edit(p) ==
    /\ edits > 0 /\ point \notin Ended
    /\ \E c \in Content \ {files[p]} : files' = [files EXCEPT ![p] = c]
    /\ edits' = edits - 1
    /\ late' = IF Unchecked(p) THEN late ELSE late \cup {p}
    /\ UNCHANGED <<staging, point, next, conflicts, seen, result, lost, written, unstaged>>

Crash ==
    /\ point \notin Ended
    /\ Goto("crashed")
    /\ UNCHANGED <<files, staging, conflicts, seen, result, edits, history>>

-----------------------------------------------------------------------------
(* apply() *)

\* One round of preflightOperations' loop.
Check(p) ==
    /\ point \in {"preflight", "final"} /\ next = p
    /\ conflicts' = IF files[p] = Expected(p) THEN conflicts ELSE conflicts \cup {p}
    /\ next' = next + 1
    /\ UNCHANGED <<files, staging, point, seen, result, edits, history>>

\* The first preflight is outside of the try block, the final one inside.
CheckFails ==
    /\ Faults /\ point \in {"preflight", "final"}
    /\ Goto(IF point = "preflight" THEN "thrown" ELSE "cleanup")
    /\ UNCHANGED <<files, staging, conflicts, seen, result, edits, history>>

Preflighted ==
    /\ point = "preflight" /\ next = Paths + 1
    /\ IF conflicts = {} THEN EnterLoop("stage")
                         ELSE Goto("storeConflict") /\ UNCHANGED conflicts
    /\ UNCHANGED <<files, staging, seen, result, edits, history>>

\* The new content is written to a temporary file beside its target.
Stage(p) ==
    /\ point = "stage" /\ next = p
    /\ IF Type[p] = "DELETE"
         THEN UNCHANGED staging
         ELSE temporaries' = temporaries \cup {p} /\ prepared' = prepared \cup {p}
    /\ next' = next + 1
    /\ UNCHANGED <<files, point, conflicts, seen, result, edits, history>>

\* Whatever fails before chmod returns leaves a file that is not in the map.
StageFails(p) ==
    /\ Faults /\ point = "stage" /\ next = p /\ Type[p] # "DELETE"
    /\ temporaries' \in {temporaries, temporaries \cup {p}}
    /\ unstaged' = unstaged \cup {p}
    /\ Goto("cleanup")
    /\ UNCHANGED <<files, prepared, conflicts, seen, result, edits, late, lost, written>>

\* Faulty: what was found before staging is taken to hold still.
StagedUnchecked ==
    /\ point = "stage" /\ next = Paths + 1
    /\ EnterLoop("write")
    /\ UNCHANGED <<files, staging, seen, result, edits, history>>

Staged ==
    /\ point = "stage" /\ next = Paths + 1
    /\ EnterLoop("final")
    /\ UNCHANGED <<files, staging, seen, result, edits, history>>

FinallyChecked ==
    /\ point = "final" /\ next = Paths + 1
    /\ IF conflicts = {} THEN EnterLoop("write")
                         ELSE Goto("discard") /\ UNCHANGED conflicts
    /\ UNCHANGED <<files, staging, seen, result, edits, history>>

\* unlink needs a file; rename replaces anything but a directory.
Writable(p) ==
    files[p] \notin (IF Type[p] = "DELETE" THEN {"absent", "directory"} ELSE {"directory"})

\* Faulty: a file that has been renamed stays in the map.
WriteKeepsPrepared(p) ==
    /\ point = "write" /\ next = p /\ Writable(p)
    /\ files' = [files EXCEPT ![p] = Target(p)]
    /\ temporaries' = temporaries \ {p} /\ UNCHANGED prepared
    /\ written' = written \cup {p}
    /\ lost' = IF files[p] \in {Expected(p), Target(p)} THEN lost ELSE lost \cup {p}
    /\ next' = next + 1
    /\ UNCHANGED <<point, conflicts, seen, result, edits, late, unstaged>>

\* Nothing compares the file with what was expected any more.
Write(p) ==
    /\ point = "write" /\ next = p /\ Writable(p)
    /\ files' = [files EXCEPT ![p] = Target(p)]
    /\ temporaries' = temporaries \ {p} /\ prepared' = prepared \ {p}
    /\ written' = written \cup {p}
    /\ lost' = IF files[p] \in {Expected(p), Target(p)} THEN lost ELSE lost \cup {p}
    /\ next' = next + 1
    /\ UNCHANGED <<point, conflicts, seen, result, edits, late, unstaged>>

WriteFails(p) ==
    /\ point = "write" /\ next = p /\ (Faults \/ ~Writable(p))
    /\ Goto("cleanup")
    /\ UNCHANGED <<files, staging, conflicts, seen, result, edits, history>>

AllWritten ==
    /\ point = "write" /\ next = Paths + 1
    /\ Goto("observe")
    /\ UNCHANGED <<files, staging, conflicts, seen, result, edits, history>>

\* Faulty: the error is handled without removing what was staged.
LeavePrepared ==
    /\ point \in {"cleanup", "discard"}
    /\ Goto(IF point = "discard" THEN "storeFinalConflict" ELSE "observe")
    /\ UNCHANGED <<files, staging, conflicts, seen, result, edits, history>>

\* removePrepared, in the catch block or after conflicts of the final preflight.
RemovePrepared ==
    /\ point \in {"cleanup", "discard"}
    /\ temporaries' = temporaries \ prepared /\ prepared' = {}
    /\ Goto(IF point = "discard" THEN "storeFinalConflict" ELSE "observe")
    /\ UNCHANGED <<files, conflicts, seen, result, edits, history>>

\* Some file cannot be removed; the map is not cleared then.
RemoveFails ==
    /\ Faults /\ point \in {"cleanup", "discard"}
    /\ \E removed \in SUBSET prepared : temporaries' = temporaries \ removed
    /\ Goto(IF point = "discard" THEN "cleanup" ELSE "thrown")
    /\ UNCHANGED <<files, prepared, conflicts, seen, result, edits, history>>

\* pathResult.
PathResult(p) ==
    CASE files[p] = Target(p) -> "COMMITTED"
      [] files[p] # Target(p) /\ files[p] = Expected(p) -> "UNRESOLVED"
      [] OTHER -> "CONFLICT"

\* observe() looks at all paths at once, in any order.
Observe(p) ==
    /\ point = "observe" /\ seen[p] = "none"
    /\ seen' = [seen EXCEPT ![p] = PathResult(p)]
    /\ UNCHANGED <<files, staging, point, next, conflicts, result, edits, history>>

\* Faulty: one path in conflict makes it a conflict, whatever was written before.
StatusConflictFirst ==
    LET committed == {p \in Path : seen[p] = "COMMITTED"} IN
    CASE committed = Path -> "COMMITTED"
      [] \E p \in Path : seen[p] = "CONFLICT" -> "CONFLICT"
      [] committed \notin {{}, Path} /\ \A p \in Path : seen[p] # "CONFLICT" -> "PARTIAL"
      [] OTHER -> "UNKNOWN"

\* The status that observe() derives from the paths.
Status ==
    LET committed == {p \in Path : seen[p] = "COMMITTED"} IN
    CASE committed = Path -> "COMMITTED"
      [] committed # Path /\ committed # {} -> "PARTIAL"
      [] committed = {} /\ \E p \in Path : seen[p] = "CONFLICT" -> "CONFLICT"
      [] OTHER -> "UNKNOWN"

AllSeen == \A p \in Path : seen[p] # "none"

\* writeResult, of what was observed or of the conflicts of a preflight.
Store ==
    /\ \/ point = "observe" /\ AllSeen /\ result' = Status
       \/ point \in {"storeConflict", "storeFinalConflict"} /\ result' = "CONFLICT"
    /\ Goto("stored")
    /\ UNCHANGED <<files, staging, conflicts, seen, edits, history>>

\* Faulty: a result that cannot be stored is handled like any other error.
StoreFailsIntoCatch ==
    /\ Faults /\ point \in {"observe", "storeConflict", "storeFinalConflict"}
    /\ Goto("cleanup")
    /\ UNCHANGED <<files, staging, conflicts, seen, result, edits, history>>

\* Observing or storing throws.  Conflicts of the final preflight are stored
\* inside of the try block.
StoreFails ==
    /\ Faults /\ point \in {"observe", "storeConflict", "storeFinalConflict"}
    /\ Goto(IF point = "storeFinalConflict" THEN "cleanup" ELSE "thrown")
    /\ UNCHANGED <<files, staging, conflicts, seen, result, edits, history>>

Return ==
    /\ point = "stored"
    /\ Goto("returned")
    /\ UNCHANGED <<files, staging, conflicts, seen, result, edits, history>>

-----------------------------------------------------------------------------

Step ==
    \/ CheckFails \/ Preflighted \/ Staged \/ FinallyChecked \/ AllWritten
    \/ RemovePrepared \/ RemoveFails \/ Store \/ StoreFails \/ Return
    \/ \E p \in Path : Check(p) \/ Stage(p) \/ StageFails(p) \/ Write(p) \/ WriteFails(p)
                       \/ Observe(p)

Next == Step \/ Crash \/ \E p \in Path : Edit(p)

Spec == Init /\ [][Next]_vars

\* File system calls return and the event loop goes on.
FairSpec == Spec /\ WF_vars(Step)

-----------------------------------------------------------------------------
(* Properties *)

\* The types; and the map of staged files is what is still to be renamed, so no
\* operation is skipped for want of a staged file.
TypeOK ==
    /\ files \in [Path -> Content]
    /\ temporaries \subseteq Path /\ prepared \subseteq Path
    /\ point \in Point /\ next \in 1 .. Paths + 1
    /\ conflicts \subseteq Path
    /\ seen \in [Path -> {"none", "COMMITTED", "CONFLICT", "UNRESOLVED"}]
    /\ result \in {"none", "COMMITTED", "CONFLICT", "PARTIAL", "UNKNOWN"}
    /\ edits \in 0 .. Edits
    /\ {late, lost, written, unstaged} \subseteq SUBSET Path
    /\ point = "write" =>
         prepared = {p \in Path : p >= next /\ Type[p] # "DELETE"}

\* What the user has changed before the final preflight looked at it is not
\* overwritten, whatever fails; later changes may be.
CheckedEditsSurvive == lost \subseteq late

\* The whole candidate is in the project, or no part of it, up to what the user
\* has changed since the adapter looked there.
Complete == \A p \in Path : files[p] = Target(p) \/ p \in late
Untouched == written \subseteq late

\* A stored COMMITTED means that the whole candidate is in the project, up to what
\* the user has changed there since.
CommittedIsComplete == result = "COMMITTED" => Complete

\* "writes no candidate paths when any path conflicts" (preflight.test.ts): a
\* stored CONFLICT (which gives the publish lease back) or UNKNOWN means that
\* the candidate is not in the project in part, also when the apply broke off
\* half way; unless the user has changed a path after it was written.
FailureLeavesProject == result \in {"CONFLICT", "UNKNOWN"} => Untouched

\* Once a result is stored no staged file stays behind in the project, whether it
\* was not renamed because of a conflict, a failure of its own rename or that of
\* another path; except beside a path whose staging itself has failed.
TemporariesRemoved == result # "none" => temporaries \subseteq unstaged

\* The adapter keeps what publishing relies on: a result is stored once, before it
\* is reported, and says the truth of the project, whatever fails and whenever
\* the user edits.
Outcome == INSTANCE ApplyOutcome
             WITH call <- IF point \in Ended THEN point ELSE "running",
                  complete <- Complete, untouched <- Untouched
RefinesApplyOutcome == Outcome!Spec

\* An apply ends, also when its error handling fails.
ApplySettles == <>(point \in Ended)
=============================================================================
