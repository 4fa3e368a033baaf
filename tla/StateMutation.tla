--------------------------- MODULE StateMutation ---------------------------
(***************************************************************************)
(* The SQLite mutation lease (packages/state-store/src/state-store.ts) and *)
(* the mutation executor that runs every change of a project document      *)
(* under it (apps/daemon/src/runtime/project-mutation-executor.ts).        *)
(*                                                                         *)
(* A daemon is one process instance; it has a host and a pid, and its      *)
(* process start token is its identity.  One SQLite transaction (BEGIN     *)
(* IMMEDIATE ... COMMIT) is one step; everything between two transactions  *)
(* of a mutate() call may interleave with other daemons, expiry, renewals  *)
(* and crashes.  The executor's queue lets one mutate() call per process   *)
(* run at a time, so the owner token of a lease is the daemon that holds   *)
(* it, unless a failed release leaked the row.                             *)
(***************************************************************************)
EXTENDS Naturals, FiniteSets

CONSTANTS Daemon,           \* process instances
          NoDaemon, NoRequest,
          HostOf, PidOf,    \* host and pid of each process instance
          Key, Request,     \* requestIds; requests (a requestId and a payload)
          KeyOf,
          EpochRequestOf,   \* advanceFence: the runtime-epoch mutation of a start
          FencedRequests,   \* expectedFence: mutations of background tasks
          CurrentEpochRequests, \* replayPolicy CURRENT_EPOCH
          EffectRequests,   \* mutate() with prepareEffect
          ReleaseFaults     \* whether the release transaction may fail

ASSUME ConstantsAssumption ==
    /\ NoDaemon \notin Daemon
    /\ NoRequest \notin Request
    /\ KeyOf \in [Request -> Key]
    /\ CurrentEpochRequests \subseteq FencedRequests
    /\ EpochRequestOf \in [Daemon -> Request]
    /\ \A d \in Daemon : EpochRequestOf[d] \notin FencedRequests
    /\ ReleaseFaults \in BOOLEAN

VARIABLES process,        \* "new", "up" or "dead"
          leaseOwner,     \* mutation_lease row: owner, or NoDaemon for no row
          leaseFlags,     \* "expired": expires_at_ms <= now; "leaked": the
                          \* row's owner token belongs to no running call
          version,        \* project_state row: stateVersion
          receipts,       \* processedRequests
          fence,          \* run.fence
          pc, req,        \* where each daemon's mutate() call is, and for what
          base,           \* stateVersion of the state the call has read
          token,          \* expectedFence of the call, as captured
          contexts,       \* what the daemon's tasks may have read so far
          renewalFailure, \* calls whose SqliteMutationLease latched a failure
          answer,         \* how the last call of each daemon settled
          epoch,          \* history: the epoch request committed last
          started         \* history: effects started

EpochRequests == {EpochRequestOf[d] : d \in Daemon}

\* What a task captures of the document it reads: run.fence (the epoch, which
\* says when that was, is history).  A read takes no lease and may come at any
\* time, so contexts[d] has all that d's tasks can have read since d started,
\* also the fence of a daemon that has superseded d.
Context == [fence : Nat, epoch : EpochRequests \cup {NoRequest}]
NoContext == [fence |-> 0, epoch |-> NoRequest]
Captured == [fence |-> fence, epoch |-> epoch]

leaseVars == <<leaseOwner, leaseFlags>>
docVars   == <<version, receipts, fence, epoch>>
stateVars == <<docVars, contexts>>
callVars  == <<pc, req, base, token, renewalFailure, answer>>
vars == <<process, leaseVars, stateVars, callVars, started>>

Holding == {"leased", "building", "committed", "prepared", "handoff", "releasing"}
Committed == {"committed", "prepared", "handoff"}

Expired == "expired" \in leaseFlags
Leaked  == "leaked" \in leaseFlags

Live(d) == process[d] = "up"
SameHost(d, e) == HostOf[d] = HostOf[e]

\* kill(pid, 0) on the observer's host: some process has the owner's pid.
PidInUse(o) == \E e \in Daemon : Live(e) /\ SameHost(e, o) /\ PidOf[e] = PidOf[o]

\* Faulty variants of operators stand before the operator they vary; mutation
\* tests of the properties substitute them.
\* Faulty: every expired row is stale, as with a plain TTL lease.
StaleByTtl(d) == leaseOwner # NoDaemon /\ Expired

\* Faulty: the start token is not compared, a reused pid keeps the row.
StaleUnlessPidInUse(d) ==
    /\ leaseOwner # NoDaemon
    /\ IF SameHost(d, leaseOwner) THEN ~PidInUse(leaseOwner) ELSE Expired

\* removeStaleMutationLease deletes the row when observed by d.  An expired
\* row whose owner's pid is in use needs a start token that differs; when the
\* token cannot be read the transaction fails (AcquireFails, Renew, Abort).
Stale(d) ==
    /\ leaseOwner # NoDaemon
    /\ IF SameHost(d, leaseOwner)
         THEN PidInUse(leaseOwner) => Expired /\ ~Live(leaseOwner)
         ELSE Expired

\* The lease row as d's transaction sees it once stale rows are removed.
CurrentOwner(d) == IF Stale(d) THEN NoDaemon ELSE leaseOwner

OwnsLease(d) == CurrentOwner(d) = d /\ ~Leaked

TypeOK ==
    /\ process \in [Daemon -> {"new", "up", "dead"}]
    /\ leaseOwner \in Daemon \cup {NoDaemon}
    /\ leaseFlags \subseteq {"expired", "leaked"}
    /\ version \in Nat /\ fence \in Nat
    /\ receipts \in [Key -> Request \cup {NoRequest}]
    /\ pc \in [Daemon -> {"idle", "acquiring"} \cup Holding]
    /\ req \in [Daemon -> Request \cup {NoRequest}]
    /\ base \in [Daemon -> Nat]
    /\ token \in [Daemon -> Context]
    /\ contexts \in [Daemon -> SUBSET Context]
    /\ renewalFailure \subseteq Daemon
    /\ answer \in [Daemon -> {"none", "applied", "replayed", "failed"}]
    /\ epoch \in EpochRequests \cup {NoRequest}
    /\ started \subseteq Request
    /\ \A d \in Daemon : pc[d] # "idle" => req[d] \in Request

Init ==
    /\ process = [d \in Daemon |-> "new"]
    /\ leaseOwner = NoDaemon /\ leaseFlags = {}
    /\ version = 0 /\ fence = 0
    /\ receipts = [k \in Key |-> NoRequest]
    /\ pc = [d \in Daemon |-> "idle"]
    /\ req = [d \in Daemon |-> NoRequest]
    /\ base = [d \in Daemon |-> 0]
    /\ token = [d \in Daemon |-> NoContext]
    /\ contexts = [d \in Daemon |-> {}]
    /\ renewalFailure = {}
    /\ answer = [d \in Daemon |-> "none"]
    /\ epoch = NoRequest
    /\ started = {}

\* mutate() returns or throws: its local state is gone.
Return(d, how) ==
    /\ pc' = [pc EXCEPT ![d] = "idle"]
    /\ answer' = [answer EXCEPT ![d] = how]
    /\ base' = [base EXCEPT ![d] = 0]
    /\ token' = [token EXCEPT ![d] = NoContext]
    /\ renewalFailure' = renewalFailure \ {d}
    /\ UNCHANGED req

-----------------------------------------------------------------------------
(* Processes, time *)

\* A new process instance starts; its pid is free on its host at that time.
\* An instance starts once: a restart of the program is another instance.
Boot(d) ==
    /\ process[d] = "new" /\ ~PidInUse(d)
    /\ process' = [process EXCEPT ![d] = "up"]
    /\ contexts' = [contexts EXCEPT ![d] = {Captured}]
    /\ UNCHANGED <<leaseVars, docVars, callVars, started>>

\* The process dies anywhere; its lease row stays behind.  An answer that was
\* not delivered is lost with it, and so are its tasks.
Crash(d) ==
    /\ Live(d)
    /\ process' = [process EXCEPT ![d] = "dead"]
    /\ Return(d, "failed")
    /\ contexts' = [contexts EXCEPT ![d] = {}]
    /\ UNCHANGED <<leaseVars, docVars, started>>

\* The TTL passes without a renewal: the owner is dead, suspended or starved.
Expire ==
    /\ leaseOwner # NoDaemon /\ ~Expired
    /\ leaseFlags' = leaseFlags \cup {"expired"}
    /\ UNCHANGED <<process, leaseOwner, stateVars, callVars, started>>

-----------------------------------------------------------------------------
(* The lease: acquire, renew, release *)

Settle(d, how) ==
    /\ pc' = [pc EXCEPT ![d] = "releasing"]
    /\ answer' = [answer EXCEPT ![d] = how]

\* Faulty: the call keeps the request of the previous one.
SubmitKeepsRequest(d, r) ==
    /\ Live(d) /\ pc[d] = "idle"
    /\ pc' = [pc EXCEPT ![d] = "acquiring"]
    /\ answer' = [answer EXCEPT ![d] = "none"]
    /\ UNCHANGED <<process, leaseVars, stateVars, req, base, token, renewalFailure, started>>

\* A caller enters mutate().  The runtime-epoch mutation names the
\* stateVersion its caller read, a task's mutation the fence it has captured.
Submit(d, r) ==
    /\ Live(d) /\ pc[d] = "idle"
    /\ r \in EpochRequests => r = EpochRequestOf[d]
    /\ pc' = [pc EXCEPT ![d] = "acquiring"]
    /\ req' = [req EXCEPT ![d] = r]
    /\ base' = [base EXCEPT ![d] = IF r \in EpochRequests THEN version ELSE 0]
    /\ IF r \in FencedRequests
         THEN \E c \in contexts[d] : token' = [token EXCEPT ![d] = c]
         ELSE UNCHANGED token
    /\ answer' = [answer EXCEPT ![d] = "none"]
    /\ UNCHANGED <<process, leaseVars, stateVars, renewalFailure, started>>

\* One polling round of acquireMutationLease that finds no row.
Acquire(d) ==
    /\ pc[d] = "acquiring"
    /\ CurrentOwner(d) = NoDaemon
    /\ leaseOwner' = d /\ leaseFlags' = {}
    /\ pc' = [pc EXCEPT ![d] = "leased"]
    /\ UNCHANGED <<process, stateVars, req, base, token, renewalFailure, answer, started>>

\* Faulty: the wait has no deadline.
AcquireWaits(d) ==
    /\ pc[d] = "acquiring" /\ CurrentOwner(d) # NoDaemon
    /\ UNCHANGED vars

\* PROJECT_LOCKED after the wait, or a database error.
AcquireFails(d) ==
    /\ pc[d] = "acquiring"
    /\ Return(d, "failed")
    /\ UNCHANGED <<process, leaseVars, stateVars, started>>

\* The renewal timer (and assertOwned).
Renew(d) ==
    /\ pc[d] \in Holding \ {"releasing"}
    /\ \/ /\ OwnsLease(d)
          /\ leaseFlags' = leaseFlags \ {"expired"}
          /\ UNCHANGED renewalFailure
       \/ \* preempted, owner identity unverifiable, or database busy
          /\ renewalFailure' = renewalFailure \cup {d}
          /\ UNCHANGED leaseFlags
    /\ UNCHANGED <<process, leaseOwner, stateVars, pc, req, base, token, answer,
                   started>>

Release(d) ==
    /\ pc[d] = "releasing"
    /\ Return(d, answer[d])
    /\ IF leaseOwner = d /\ ~Leaked
         THEN leaseOwner' = NoDaemon /\ leaseFlags' = {}
         ELSE UNCHANGED leaseVars
    /\ UNCHANGED <<process, stateVars, started>>

\* The DELETE fails; released is already set, so nothing renews or deletes the
\* row any more while its process lives on.
ReleaseFails(d) ==
    /\ ReleaseFaults
    /\ pc[d] = "releasing"
    /\ Return(d, "failed")
    /\ leaseFlags' = IF leaseOwner = d THEN leaseFlags \cup {"leaked"} ELSE leaseFlags
    /\ UNCHANGED <<process, leaseOwner, stateVars, started>>

-----------------------------------------------------------------------------
(* mutate() between acquire and release *)

\* Faulty: expectedFence is not compared.
GuardsWithoutFence(d) == req[d] \in EpochRequests => base[d] = version

\* Guards evaluated on the state that was read.
GuardsHold(d) ==
    /\ req[d] \in EpochRequests => base[d] = version
    /\ req[d] \in FencedRequests => token[d].fence = fence

\* Faulty: a receipt is replayed whatever payload it was stored for.
ReadIgnoringPayload(d) ==
    LET receipt == receipts[KeyOf[req[d]]] IN
    /\ pc[d] = "leased"
    /\ \/ /\ receipt # NoRequest
          /\ Settle(d, "replayed") /\ UNCHANGED base
       \/ /\ receipt = NoRequest
          /\ ~GuardsHold(d)
          /\ Settle(d, "failed") /\ UNCHANGED base
       \/ /\ receipt = NoRequest
          /\ GuardsHold(d)
          /\ pc' = [pc EXCEPT ![d] = "building"]
          /\ base' = [base EXCEPT ![d] = version]
          /\ UNCHANGED answer
    /\ UNCHANGED <<process, leaseVars, stateVars, req, token, renewalFailure, started>>

\* readState, canonicalReplay and the expected* guards.
Read(d) ==
    LET r == req[d]
        receipt == receipts[KeyOf[r]]
    IN
    /\ pc[d] = "leased"
    /\ \/ /\ receipt \notin {NoRequest, r}         \* IDEMPOTENCY_KEY_REUSED
          /\ Settle(d, "failed") /\ UNCHANGED base
       \/ /\ receipt = r
          /\ r \in CurrentEpochRequests => GuardsHold(d)
          /\ Settle(d, "replayed") /\ UNCHANGED base
       \/ /\ receipt = NoRequest \/ (receipt = r /\ r \in CurrentEpochRequests)
          /\ ~GuardsHold(d)
          /\ Settle(d, "failed") /\ UNCHANGED base
       \/ /\ receipt = NoRequest
          /\ GuardsHold(d)
          /\ pc' = [pc EXCEPT ![d] = "building"]
          /\ base' = [base EXCEPT ![d] = version]
          /\ UNCHANGED answer
    /\ UNCHANGED <<process, leaseVars, stateVars, req, token, renewalFailure, started>>

\* The write transaction commits: state, receipt, fence and lease extension.
\* projectFence and stateVersion both count the commits, so the advanced fence
\* projectFence + 1 is version + 1.  From now on the tasks of every live
\* process may read what is committed.
Commit(d) ==
    LET r == req[d] IN
    /\ pc[d] = "building"
    /\ d \notin renewalFailure
    /\ OwnsLease(d)
    /\ version = base[d]
    /\ version' = version + 1
    /\ receipts' = [receipts EXCEPT ![KeyOf[r]] = r]
    /\ IF r \in EpochRequests
         THEN fence' = version + 1 /\ epoch' = r
         ELSE UNCHANGED <<fence, epoch>>
    /\ contexts' = [e \in Daemon |-> IF Live(e) THEN contexts[e] \cup {Captured'}
                                                 ELSE contexts[e]]
    /\ leaseFlags' = leaseFlags \ {"expired"}
    /\ pc' = [pc EXCEPT ![d] = "committed"]
    /\ UNCHANGED <<process, leaseOwner, req, base, token, renewalFailure, answer,
                   started>>

\* The write is refused: STALE_FENCE when the lease is lost; on
\* STATE_VERSION_MISMATCH the receipts are read again for a replay.
WriteRefused(d) ==
    LET r == req[d] IN
    /\ pc[d] = "building"
    /\ \/ /\ d \in renewalFailure \/ ~OwnsLease(d)
          /\ Settle(d, "failed")
       \/ /\ d \notin renewalFailure /\ OwnsLease(d)
          /\ version # base[d]
          /\ Settle(d, IF receipts[KeyOf[r]] = r /\ r \notin CurrentEpochRequests
                         THEN "replayed" ELSE "failed")
    /\ UNCHANGED <<process, leaseVars, stateVars, req, base, token, renewalFailure, started>>

\* After the commit: a request without an effect is done, one with an effect
\* prepares it.  A renewal failure surfaces as an error although the state is
\* committed.
AfterCommit(d) ==
    /\ pc[d] = "committed"
    /\ \/ /\ d \in renewalFailure
          /\ Settle(d, "failed")
       \/ /\ d \notin renewalFailure
          /\ req[d] \notin EffectRequests
          /\ Settle(d, "applied")
       \/ /\ d \notin renewalFailure
          /\ req[d] \in EffectRequests
          /\ pc' = [pc EXCEPT ![d] = "prepared"]
          /\ UNCHANGED answer
    /\ UNCHANGED <<process, leaseVars, stateVars, req, base, token, renewalFailure, started>>

\* assertOwned: a renewal that must succeed before the effect starts.
AssertOwned(d) ==
    /\ pc[d] = "prepared"
    /\ \/ /\ d \notin renewalFailure /\ OwnsLease(d)
          /\ leaseFlags' = leaseFlags \ {"expired"}
          /\ pc' = [pc EXCEPT ![d] = "handoff"]
          /\ UNCHANGED answer
       \/ /\ d \in renewalFailure \/ ~OwnsLease(d)
          /\ Settle(d, "failed")
          /\ UNCHANGED leaseFlags
    /\ UNCHANGED <<process, leaseOwner, stateVars, req, base, token, renewalFailure,
                   started>>

\* The effect starts under the lease and goes on after it is released.
StartEffect(d) ==
    /\ pc[d] = "handoff"
    /\ started' = started \cup {req[d]}
    /\ Settle(d, "applied")
    /\ UNCHANGED <<process, leaseVars, stateVars, req, base, token, renewalFailure>>

\* A database error, an error thrown by build or by prepareEffect.
Abort(d) ==
    /\ pc[d] \in {"leased", "building", "committed", "prepared"}
    /\ Settle(d, "failed")
    /\ UNCHANGED <<process, leaseVars, stateVars, req, base, token, renewalFailure, started>>

-----------------------------------------------------------------------------
Mutate(d) ==
    \/ Acquire(d) \/ AcquireFails(d) \/ Release(d) \/ ReleaseFails(d)
    \/ Read(d) \/ Commit(d) \/ WriteRefused(d)
    \/ AfterCommit(d) \/ AssertOwned(d) \/ StartEffect(d) \/ Abort(d)

Next ==
    \/ Expire
    \/ \E d \in Daemon :
         \/ Boot(d) \/ Crash(d) \/ Renew(d) \/ Mutate(d)
         \/ \E r \in Request : Submit(d, r)

Spec == Init /\ [][Next]_vars

\* A live process goes on with its call, and time passes.
FairSpec ==
    /\ Spec
    /\ WF_vars(Expire)
    /\ \A d \in Daemon : WF_vars(Mutate(d))
-----------------------------------------------------------------------------
(* Properties *)

\* The lease gives exclusion on one host: from the moment a call has acquired
\* it until it releases it, the row is that call's, whatever expires, crashes
\* or is restarted under the same pid meanwhile (removeStaleMutationLease keeps
\* the row of a suspended owner).  With several hosts it does not.
LeaseExclusion ==
    \A d \in Daemon : pc[d] \in Holding => leaseOwner = d /\ ~Leaked

\* On one host no update is built on a document that changes under it, so the
\* STATE_VERSION_MISMATCH branch of mutate() is never taken there.
BuildsAreCurrent ==
    \A d \in Daemon : pc[d] = "building" => base[d] = version

\* A caller that was told its request was applied or replayed finds its
\* receipt, with its own payload, in every later document.
AnswersAreDurable ==
    \A d \in Daemon :
        answer[d] \in {"applied", "replayed"} => receipts[KeyOf[req[d]]] = req[d]

\* The detailed protocol implements the serial one on any number of hosts:
\* no request is applied twice, no effect starts twice or uncommitted, and a
\* task's request is applied only if the task has read the document since the
\* last runtime-epoch mutation, be it that daemon's or another one's.
Serial == INSTANCE SerialProject WITH basis <- [d \in Daemon |-> token[d].epoch]
RefinesSerialProject == Serial!Spec

\* The lease of a dead owner becomes removable for every live process, also
\* when the dead owner's pid is in use again or it ran on another host, and a
\* live owner gives its lease back.  One case is left out, for there the code
\* does block the host: when the DELETE of release() fails, nothing repeats it,
\* and the row stays in the eyes of its host until its own process ends.
LeaseTurnsOver ==
    \A d \in Daemon :
        leaseOwner = d ~>
            \A e \in Daemon : Live(e) =>
                \/ CurrentOwner(e) # d
                \/ Leaked /\ Live(d) /\ SameHost(d, e)

\* Every mutate() call settles, also when a release has failed and the leaked
\* row of a live process is never removed.
CallsSettle ==
    \A d \in Daemon : pc[d] # "idle" ~> pc[d] = "idle"
=============================================================================
