------------------------ MODULE StateMutationProofs ------------------------
(***************************************************************************)
(* Proofs about StateMutation for any number of daemons, hosts and         *)
(* requests.                                                               *)
(***************************************************************************)
EXTENDS StateMutation, FiniteSetTheorems, TLAPS

LEMMA RequestsAreNamed ==
  EpochRequests \subseteq Request /\ NoContext \in Context
BY ConstantsAssumption DEF EpochRequests, NoContext, Context

(* The state keeps its types. *)
THEOREM TypeCorrect == Spec => []TypeOK
<1>1. Init => TypeOK
  BY ConstantsAssumption, RequestsAreNamed DEF Init, TypeOK
<1>2. TypeOK /\ [Next]_vars => TypeOK'
  <2> SUFFICES ASSUME TypeOK, [Next]_vars PROVE TypeOK'
    OBVIOUS
  <2> USE ConstantsAssumption, RequestsAreNamed DEF TypeOK, Holding, leaseVars, docVars, stateVars, callVars
  <2>1. Expire => TypeOK'
    BY DEF Expire
  <2>2. \A d \in Daemon : Boot(d) => TypeOK'
    BY DEF Boot, Captured, Context
  <2>3. \A d \in Daemon : Crash(d) => TypeOK'
    BY DEF Crash, Return
  <2>4. \A d \in Daemon : Renew(d) => TypeOK'
    <3> SUFFICES ASSUME NEW d \in Daemon, Renew(d) PROVE TypeOK'
      OBVIOUS
    <3>1. leaseFlags' \subseteq {"expired", "leaked"} /\ renewalFailure' \subseteq Daemon
      BY DEF Renew
    <3> QED
      BY <3>1 DEF Renew
  <2>5. \A d \in Daemon, r \in Request : Submit(d, r) => TypeOK'
    BY DEF Submit
  <2>6. \A d \in Daemon : Acquire(d) => TypeOK'
    BY DEF Acquire
  <2>7. \A d \in Daemon : AcquireFails(d) => TypeOK'
    BY DEF AcquireFails, Return
  <2>8. \A d \in Daemon : Release(d) => TypeOK'
    <3> SUFFICES ASSUME NEW d \in Daemon, Release(d) PROVE TypeOK'
      OBVIOUS
    <3>1. /\ leaseFlags' \subseteq {"expired", "leaked"}
          /\ leaseOwner' \in Daemon \cup {NoDaemon}
      BY DEF Release
    <3>2. answer' \in [Daemon -> {"none", "applied", "replayed", "failed"}]
      BY DEF Release, Return
    <3> QED
      BY <3>1, <3>2 DEF Release, Return
  <2>9. \A d \in Daemon : ReleaseFails(d) => TypeOK'
    BY DEF ReleaseFails, Return
  <2>10. \A d \in Daemon : Read(d) => TypeOK'
    BY DEF Read, Settle
  <2>11. \A d \in Daemon : Commit(d) => TypeOK'
    BY DEF Commit, Captured, Context
  <2>12. \A d \in Daemon : WriteRefused(d) => TypeOK'
    BY DEF WriteRefused, Settle
  <2>13. \A d \in Daemon : AfterCommit(d) => TypeOK'
    <3> SUFFICES ASSUME NEW d \in Daemon, AfterCommit(d) PROVE TypeOK'
      OBVIOUS
    <3>1. pc' \in [Daemon -> {"idle", "acquiring"} \cup Holding] /\ pc[d] # "idle"
          /\ \A e \in Daemon : e # d => pc'[e] = pc[e]
      BY DEF AfterCommit, Settle
    <3>2. answer' \in [Daemon -> {"none", "applied", "replayed", "failed"}]
      BY DEF AfterCommit, Settle
    <3> QED
      BY <3>1, <3>2 DEF AfterCommit
  <2>14. \A d \in Daemon : AssertOwned(d) => TypeOK'
    <3> SUFFICES ASSUME NEW d \in Daemon, AssertOwned(d) PROVE TypeOK'
      OBVIOUS
    <3>1. leaseFlags' \subseteq {"expired", "leaked"}
      BY DEF AssertOwned
    <3>2. pc' \in [Daemon -> {"idle", "acquiring"} \cup Holding] /\ pc[d] # "idle"
          /\ \A e \in Daemon : e # d => pc'[e] = pc[e]
      BY DEF AssertOwned, Settle
    <3>3. answer' \in [Daemon -> {"none", "applied", "replayed", "failed"}]
      BY DEF AssertOwned, Settle
    <3> QED
      BY <3>1, <3>2, <3>3 DEF AssertOwned
  <2>15. \A d \in Daemon : StartEffect(d) => TypeOK'
    BY DEF StartEffect, Settle
  <2>16. \A d \in Daemon : Abort(d) => TypeOK'
    BY DEF Abort, Settle
  <2>17. UNCHANGED vars => TypeOK'
    BY DEF vars
  <2> QED
    BY <2>1, <2>2, <2>3, <2>4, <2>5, <2>6, <2>7, <2>8, <2>9, <2>10, <2>11,
       <2>12, <2>13, <2>14, <2>15, <2>16, <2>17 DEF Next, Mutate
<1>3. QED
  BY <1>1, <1>2, PTL DEF Spec

-----------------------------------------------------------------------------
(* Exclusion on one host.  A lease that a running call holds is never stale
   in the eyes of another process of the host, because its owner is alive. *)

LeaseInv ==
    \A d \in Daemon :
        /\ pc[d] # "idle" => Live(d)
        /\ pc[d] \in Holding => leaseOwner = d /\ ~Leaked

SingleHost == \A d, e \in Daemon : HostOf[d] = HostOf[e]

LEMMA LiveOwnerKept ==
  ASSUME SingleHost, NEW d \in Daemon, NEW e \in Daemon, Live(d), leaseOwner = d
  PROVE  CurrentOwner(e) = d
<1>1. PidInUse(d)
  BY DEF PidInUse, SameHost
<1>2. SameHost(e, d)
  BY DEF SingleHost, SameHost
<1> QED
  BY <1>1, <1>2 DEF CurrentOwner, Stale

(* On one host the lease row belongs to a call from its acquisition to its
   release, and what it builds on stays the current document. *)
THEOREM LeaseExcludes ==
  ASSUME SingleHost
  PROVE  Spec => [](LeaseExclusion /\ BuildsAreCurrent)
<1> DEFINE IInv == TypeOK /\ LeaseInv /\ BuildsAreCurrent
<1>1. Init => IInv
  <2>1. Init => TypeOK
    BY ConstantsAssumption, RequestsAreNamed DEF Init, TypeOK
  <2> QED
    BY <2>1 DEF Init, LeaseInv, BuildsAreCurrent, Holding
<1>2. TypeOK /\ TypeOK' /\ LeaseInv /\ [Next]_vars => LeaseInv'
  <2> SUFFICES ASSUME TypeOK, TypeOK', LeaseInv, [Next]_vars PROVE LeaseInv'
    OBVIOUS
  <2> USE ConstantsAssumption DEF LeaseInv, Holding, Live, Leaked, leaseVars, docVars, stateVars, callVars
  <2>1. CASE Expire
    BY <2>1 DEF Expire, TypeOK
  <2>2. ASSUME NEW d \in Daemon, Boot(d) PROVE LeaseInv'
    BY <2>2 DEF Boot, TypeOK
  <2>3. ASSUME NEW d \in Daemon, Crash(d) PROVE LeaseInv'
    BY <2>3 DEF Crash, Return, TypeOK
  <2>4. ASSUME NEW d \in Daemon, Renew(d) PROVE LeaseInv'
    BY <2>4 DEF Renew, TypeOK
  <2>5. ASSUME NEW d \in Daemon, NEW r \in Request, Submit(d, r) PROVE LeaseInv'
    BY <2>5 DEF Submit, TypeOK
  <2>6. ASSUME NEW d \in Daemon, Acquire(d) PROVE LeaseInv'
    <3>1. ASSUME NEW e \in Daemon, pc[e] \in Holding PROVE FALSE
      <4>1. CurrentOwner(d) = e
        BY <3>1, LiveOwnerKept
      <4> QED
        BY <4>1, <2>6 DEF Acquire
    <3> QED
      BY <3>1, <2>6 DEF Acquire, TypeOK
  <2>7. ASSUME NEW d \in Daemon, AcquireFails(d) PROVE LeaseInv'
    BY <2>7 DEF AcquireFails, Return, TypeOK
  <2>8. ASSUME NEW d \in Daemon, Release(d) PROVE LeaseInv'
    BY <2>8 DEF Release, Return, TypeOK
  <2>9. ASSUME NEW d \in Daemon, ReleaseFails(d) PROVE LeaseInv'
    BY <2>9 DEF ReleaseFails, Return, TypeOK
  <2>10. ASSUME NEW d \in Daemon, Read(d) PROVE LeaseInv'
    BY <2>10 DEF Read, Settle, TypeOK
  <2>11. ASSUME NEW d \in Daemon, Commit(d) PROVE LeaseInv'
    BY <2>11 DEF Commit, TypeOK
  <2>12. ASSUME NEW d \in Daemon, WriteRefused(d) PROVE LeaseInv'
    BY <2>12 DEF WriteRefused, Settle, TypeOK
  <2>13. ASSUME NEW d \in Daemon, AfterCommit(d) PROVE LeaseInv'
    BY <2>13 DEF AfterCommit, Settle, TypeOK
  <2>14. ASSUME NEW d \in Daemon, AssertOwned(d) PROVE LeaseInv'
    BY <2>14 DEF AssertOwned, Settle, TypeOK
  <2>15. ASSUME NEW d \in Daemon, StartEffect(d) PROVE LeaseInv'
    BY <2>15 DEF StartEffect, Settle, TypeOK
  <2>16. ASSUME NEW d \in Daemon, Abort(d) PROVE LeaseInv'
    BY <2>16 DEF Abort, Settle, TypeOK
  <2>17. CASE UNCHANGED vars
    BY <2>17 DEF vars
  <2> QED
    BY <2>1, <2>2, <2>3, <2>4, <2>5, <2>6, <2>7, <2>8, <2>9, <2>10, <2>11,
       <2>12, <2>13, <2>14, <2>15, <2>16, <2>17 DEF Next, Mutate
<1>3. TypeOK /\ LeaseInv /\ BuildsAreCurrent /\ [Next]_vars => BuildsAreCurrent'
  <2> SUFFICES ASSUME TypeOK, LeaseInv, BuildsAreCurrent, [Next]_vars,
                      NEW e \in Daemon, pc'[e] = "building"
               PROVE  base'[e] = version'
    BY DEF BuildsAreCurrent
  <2> USE DEF BuildsAreCurrent, leaseVars, docVars, stateVars, callVars
  <2>1. CASE Expire
    BY <2>1 DEF Expire
  <2>2. ASSUME NEW d \in Daemon, Boot(d) PROVE base'[e] = version'
    BY <2>2 DEF Boot
  <2>3. ASSUME NEW d \in Daemon, Crash(d) PROVE base'[e] = version'
    BY <2>3 DEF Crash, Return, TypeOK
  <2>4. ASSUME NEW d \in Daemon, Renew(d) PROVE base'[e] = version'
    BY <2>4 DEF Renew
  <2>5. ASSUME NEW d \in Daemon, NEW r \in Request, Submit(d, r) PROVE base'[e] = version'
    BY <2>5 DEF Submit, TypeOK
  <2>6. ASSUME NEW d \in Daemon, Acquire(d) PROVE base'[e] = version'
    BY <2>6 DEF Acquire, TypeOK
  <2>7. ASSUME NEW d \in Daemon, AcquireFails(d) PROVE base'[e] = version'
    BY <2>7 DEF AcquireFails, Return, TypeOK
  <2>8. ASSUME NEW d \in Daemon, Release(d) PROVE base'[e] = version'
    BY <2>8 DEF Release, Return, TypeOK
  <2>9. ASSUME NEW d \in Daemon, ReleaseFails(d) PROVE base'[e] = version'
    BY <2>9 DEF ReleaseFails, Return, TypeOK
  <2>10. ASSUME NEW d \in Daemon, Read(d) PROVE base'[e] = version'
    BY <2>10 DEF Read, Settle, TypeOK
  <2>11. ASSUME NEW d \in Daemon, Commit(d) PROVE base'[e] = version'
    <3>1. e # d /\ pc[e] = "building"
      BY <2>11 DEF Commit, TypeOK
    <3>2. pc[d] = "building" /\ leaseOwner = d /\ leaseOwner = e
      BY <3>1, <2>11 DEF Commit, LeaseInv, Holding
    <3> QED
      BY <3>1, <3>2
  <2>12. ASSUME NEW d \in Daemon, WriteRefused(d) PROVE base'[e] = version'
    BY <2>12 DEF WriteRefused, Settle, TypeOK
  <2>13. ASSUME NEW d \in Daemon, AfterCommit(d) PROVE base'[e] = version'
    BY <2>13 DEF AfterCommit, Settle, TypeOK
  <2>14. ASSUME NEW d \in Daemon, AssertOwned(d) PROVE base'[e] = version'
    BY <2>14 DEF AssertOwned, Settle, TypeOK
  <2>15. ASSUME NEW d \in Daemon, StartEffect(d) PROVE base'[e] = version'
    BY <2>15 DEF StartEffect, Settle, TypeOK
  <2>16. ASSUME NEW d \in Daemon, Abort(d) PROVE base'[e] = version'
    BY <2>16 DEF Abort, Settle, TypeOK
  <2>17. CASE UNCHANGED vars
    BY <2>17 DEF vars
  <2> QED
    BY <2>1, <2>2, <2>3, <2>4, <2>5, <2>6, <2>7, <2>8, <2>9, <2>10, <2>11,
       <2>12, <2>13, <2>14, <2>15, <2>16, <2>17 DEF Next, Mutate
<1>4. LeaseInv => LeaseExclusion
  BY DEF LeaseInv, LeaseExclusion
<1>5. Spec => [](LeaseInv /\ BuildsAreCurrent)
  BY <1>1, <1>2, <1>3, TypeCorrect, PTL DEF Spec
<1> QED
  BY <1>4, <1>5, PTL

\* Of the same: while a mutation is built, what it builds on is the document.
THEOREM BuildsStayCurrent ==
  ASSUME SingleHost
  PROVE  Spec => []BuildsAreCurrent
<1>1. Spec => [](LeaseExclusion /\ BuildsAreCurrent)
  BY LeaseExcludes
<1> QED
  BY <1>1, PTL

-----------------------------------------------------------------------------
(* The refinement.  Only Submit, Read, Commit and StartEffect touch what the
   serial specification sees or what a later commit relies on; every other
   step is quiet. *)

Quiet ==
    /\ UNCHANGED <<docVars, req, started>>
    /\ token' = token \/ \E d \in Daemon : token' = [token EXCEPT ![d] = NoContext]
    /\ \A d \in Daemon :
         /\ contexts'[d] \subseteq contexts[d] \cup {Captured}
         /\ pc'[d] = "building" => pc[d] = "building" /\ base'[d] = base[d]
         /\ pc'[d] # "idle" => pc[d] # "idle" /\ token'[d] = token[d]
         /\ pc'[d] \in Committed => pc[d] \in Committed
         /\ pc'[d] \in {"prepared", "handoff"} =>
              pc[d] \in {"prepared", "handoff"} \/ req[d] \in EffectRequests
         /\ answer'[d] \in {"applied", "replayed"} =>
              \/ answer[d] \in {"applied", "replayed"}
              \/ pc[d] \in Committed
              \/ pc[d] # "idle" /\ receipts[KeyOf[req[d]]] = req[d]

Visible ==
    \E d \in Daemon :
        Read(d) \/ Commit(d) \/ StartEffect(d) \/ \E r \in Request : Submit(d, r)

LEMMA QuietOrVisible ==
  ASSUME TypeOK, [Next]_vars
  PROVE  Quiet \/ Visible
<1> USE DEF TypeOK, Quiet, Committed, leaseVars, docVars, stateVars, callVars
<1>1. CASE Expire
  BY <1>1 DEF Expire
<1>2. ASSUME NEW d \in Daemon, Boot(d) PROVE Quiet
  BY <1>2 DEF Boot
<1>3. ASSUME NEW d \in Daemon, Crash(d) PROVE Quiet
  BY <1>3 DEF Crash, Return
<1>4. ASSUME NEW d \in Daemon, Renew(d) PROVE Quiet
  BY <1>4 DEF Renew
<1>5. ASSUME NEW d \in Daemon, Acquire(d) PROVE Quiet
  BY <1>5 DEF Acquire
<1>6. ASSUME NEW d \in Daemon, AcquireFails(d) PROVE Quiet
  BY <1>6 DEF AcquireFails, Return
<1>7. ASSUME NEW d \in Daemon, Release(d) PROVE Quiet
  BY <1>7 DEF Release, Return
<1>8. ASSUME NEW d \in Daemon, ReleaseFails(d) PROVE Quiet
  BY <1>8 DEF ReleaseFails, Return
<1>9. ASSUME NEW d \in Daemon, WriteRefused(d) PROVE Quiet
  BY <1>9 DEF WriteRefused, Settle
<1>10. ASSUME NEW d \in Daemon, AfterCommit(d) PROVE Quiet
  BY <1>10 DEF AfterCommit, Settle
<1>11. ASSUME NEW d \in Daemon, AssertOwned(d) PROVE Quiet
  BY <1>11 DEF AssertOwned, Settle
<1>12. ASSUME NEW d \in Daemon, Abort(d) PROVE Quiet
  BY <1>12 DEF Abort, Settle
<1>13. CASE UNCHANGED vars
  BY <1>13 DEF vars
<1> QED
  BY <1>1, <1>2, <1>3, <1>4, <1>5, <1>6, <1>7, <1>8, <1>9, <1>10, <1>11,
     <1>12, <1>13 DEF Next, Mutate, Visible

(* What a build relies on while its version is the current one: its key has
   no receipt and its captured fence is the run's. *)
BaseInv ==
    \A d \in Daemon : pc[d] = "building" =>
        /\ base[d] <= version
        /\ base[d] = version =>
             /\ receipts[KeyOf[req[d]]] = NoRequest
             /\ req[d] \in FencedRequests => token[d].fence = fence

(* Fences are versions, so an advanced fence is new to every task: who knows the
   present fence has read it in the present epoch. *)
Known(c) ==
    /\ c.fence <= version
    /\ c.fence = fence => c.epoch = epoch
    /\ c.epoch # NoRequest => receipts[KeyOf[c.epoch]] = c.epoch

FenceInv ==
    /\ Known(Captured) /\ Known(NoContext)
    /\ \A d \in Daemon : Known(token[d]) /\ \A c \in contexts[d] : Known(c)

(* Between its commit and its effect a request has its receipt, has not
   started its effect, and is carried by one call only. *)
HandoffInv ==
    /\ \A d \in Daemon : pc[d] \in Committed =>
         receipts[KeyOf[req[d]]] = req[d] /\ req[d] \notin started
    /\ \A d, e \in Daemon :
         pc[d] \in Committed /\ pc[e] \in Committed /\ d # e => req[d] # req[e]
    /\ \A r \in started : receipts[KeyOf[r]] = r
    /\ \A d \in Daemon : pc[d] \in {"prepared", "handoff"} => req[d] \in EffectRequests

AnswerInv ==
    \A d \in Daemon : answer[d] \in {"applied", "replayed"} =>
        req[d] \in Request /\ receipts[KeyOf[req[d]]] = req[d]

SerialInv == BaseInv /\ FenceInv /\ HandoffInv /\ AnswerInv

LEMMA QuietKeepsSerialInv ==
  ASSUME TypeOK, TypeOK', SerialInv, Quiet
  PROVE  SerialInv'
<1> USE DEF Quiet, docVars, Committed
<1>1. BaseInv'
  BY DEF SerialInv, BaseInv
<1>2. FenceInv'
  <2>1. \A c : Known(c) => Known(c)'
    BY DEF Known
  <2>2. Known(Captured)' /\ Known(NoContext)'
    BY <2>1 DEF SerialInv, FenceInv, Captured, NoContext
  <2>3. ASSUME NEW d \in Daemon PROVE Known(token[d])'
    <3>1. token'[d] \in {token[d], NoContext}
      BY DEF TypeOK
    <3> QED
      BY <2>1, <3>1 DEF SerialInv, FenceInv
  <2>4. ASSUME NEW d \in Daemon, NEW c \in contexts'[d] PROVE Known(c)'
    <3>1. c \in contexts[d] \cup {Captured}
      BY <2>4
    <3> QED
      BY <2>1, <3>1 DEF SerialInv, FenceInv
  <2> QED
    BY <2>2, <2>3, <2>4 DEF FenceInv
<1>3. HandoffInv'
  BY DEF SerialInv, HandoffInv
<1>4. AnswerInv'
  BY DEF SerialInv, AnswerInv, HandoffInv, TypeOK
<1> QED
  BY <1>1, <1>2, <1>3, <1>4 DEF SerialInv

LEMMA SubmitKeepsSerialInv ==
  ASSUME TypeOK, SerialInv, NEW d \in Daemon, NEW r \in Request, Submit(d, r)
  PROVE  SerialInv'
<1> USE DEF Submit, TypeOK, leaseVars, docVars, stateVars, Committed
<1>1. BaseInv'
  BY DEF SerialInv, BaseInv
<1>2. FenceInv'
  <2>1. \A c : Known(c) => Known(c)'
    BY DEF Known
  <2>2. ASSUME NEW e \in Daemon PROVE token'[e] = token[e] \/ token'[e] \in contexts[e]
    BY DEF Submit
  <2> QED
    BY <2>1, <2>2 DEF SerialInv, FenceInv, Captured, NoContext
<1>3. HandoffInv'
  BY DEF SerialInv, HandoffInv
<1>4. AnswerInv'
  BY DEF SerialInv, AnswerInv
<1> QED
  BY <1>1, <1>2, <1>3, <1>4 DEF SerialInv

LEMMA ReadKeepsSerialInv ==
  ASSUME TypeOK, SerialInv, NEW d \in Daemon, Read(d)
  PROVE  SerialInv'
<1> USE DEF Read, Settle, TypeOK, leaseVars, docVars, stateVars, Committed
<1>1. BaseInv'
  BY DEF SerialInv, BaseInv, GuardsHold
<1>2. FenceInv'
  BY DEF SerialInv, FenceInv, Known, Captured, NoContext
<1>3. HandoffInv'
  BY DEF SerialInv, HandoffInv
<1>4. AnswerInv'
  BY DEF SerialInv, AnswerInv
<1> QED
  BY <1>1, <1>2, <1>3, <1>4 DEF SerialInv

LEMMA CommitKeepsSerialInv ==
  ASSUME TypeOK, SerialInv, NEW d \in Daemon, Commit(d)
  PROVE  SerialInv'
<1> USE ConstantsAssumption DEF TypeOK, leaseVars, docVars, stateVars, Committed
<1>1. /\ pc[d] = "building" /\ req[d] \in Request
      /\ receipts[KeyOf[req[d]]] = NoRequest
      /\ receipts' = [receipts EXCEPT ![KeyOf[req[d]]] = req[d]]
      /\ version' = version + 1
      /\ pc' = [pc EXCEPT ![d] = "committed"]
      /\ UNCHANGED <<req, base, token, answer, started>>
      /\ KeyOf[req[d]] \in Key /\ \A r \in Request : KeyOf[r] \in Key
  BY DEF Commit, SerialInv, BaseInv
<1>2. \A r \in Request : receipts[KeyOf[r]] = r => receipts'[KeyOf[r]] = r
  BY <1>1
<1>3. BaseInv'
  BY <1>1 DEF SerialInv, BaseInv
<1>4. FenceInv'
  <2>1. ASSUME NEW c \in Context, Known(c) PROVE Known(c)'
    <3>1. c.epoch # NoRequest => c.epoch \in Request
      BY RequestsAreNamed DEF Context
    <3>2. c.epoch # NoRequest => receipts'[KeyOf[c.epoch]] = c.epoch
      BY <1>2, <2>1, <3>1 DEF Known
    <3>3. c.fence <= version /\ c.fence \in Nat /\ (c.fence = fence => c.epoch = epoch)
      BY <2>1 DEF Known, Context
    <3>4. fence' = version + 1 \/ (fence' = fence /\ epoch' = epoch)
      BY DEF Commit
    <3> QED
      BY <1>1, <3>2, <3>3, <3>4 DEF Known
  <2>2. Captured \in Context
    BY DEF Captured, Context
  <2>3. Known(Captured)'
    <3>1. CASE req[d] \in EpochRequests
      BY <1>1, <3>1 DEF Known, Captured, Commit
    <3>2. CASE req[d] \notin EpochRequests
      <4>1. Captured' = Captured
        BY <3>2 DEF Commit, Captured
      <4> QED
        BY <2>1, <2>2, <4>1 DEF SerialInv, FenceInv
    <3> QED
      BY <3>1, <3>2
  <2>4. Known(NoContext)'
    BY <2>1, RequestsAreNamed DEF SerialInv, FenceInv, NoContext
  <2>5. ASSUME NEW e \in Daemon PROVE Known(token[e])'
    BY <1>1, <2>1 DEF SerialInv, FenceInv
  <2>6. ASSUME NEW e \in Daemon, NEW c \in contexts'[e] PROVE Known(c)'
    <3>1. c \in contexts[e] \/ c = Captured'
      BY <2>6 DEF Commit
    <3> QED
      BY <2>1, <2>3, <3>1 DEF SerialInv, FenceInv
  <2> QED
    BY <2>3, <2>4, <2>5, <2>6 DEF FenceInv
<1>5. HandoffInv'
  BY <1>1, <1>2 DEF SerialInv, HandoffInv
<1>6. AnswerInv'
  BY <1>1, <1>2 DEF SerialInv, AnswerInv
<1> QED
  BY <1>3, <1>4, <1>5, <1>6 DEF SerialInv

LEMMA StartEffectKeepsSerialInv ==
  ASSUME TypeOK, SerialInv, NEW d \in Daemon, StartEffect(d)
  PROVE  SerialInv'
<1> USE DEF StartEffect, Settle, TypeOK, leaseVars, docVars, stateVars, Committed
<1>1. BaseInv'
  BY DEF SerialInv, BaseInv
<1>2. FenceInv'
  BY DEF SerialInv, FenceInv, Known, Captured, NoContext
<1>3. HandoffInv'
  BY DEF SerialInv, HandoffInv
<1>4. AnswerInv'
  BY DEF SerialInv, AnswerInv, HandoffInv
<1> QED
  BY <1>1, <1>2, <1>3, <1>4 DEF SerialInv

LEMMA SerialInvariant == Spec => []SerialInv
<1>1. Init => SerialInv
  BY DEF Init, SerialInv, BaseInv, FenceInv, Known, Captured, NoContext, HandoffInv,
         AnswerInv, Committed
<1>2. TypeOK /\ TypeOK' /\ SerialInv /\ [Next]_vars => SerialInv'
  BY QuietOrVisible, QuietKeepsSerialInv, SubmitKeepsSerialInv, ReadKeepsSerialInv,
     CommitKeepsSerialInv, StartEffectKeepsSerialInv DEF Visible
<1> QED
  BY <1>1, <1>2, TypeCorrect, PTL DEF Spec

(* A reported answer has its receipt, on any number of hosts. *)
THEOREM AnswersDurable == Spec => []AnswersAreDurable
<1>1. SerialInv => AnswersAreDurable
  BY DEF SerialInv, AnswerInv, AnswersAreDurable
<1> QED
  BY <1>1, SerialInvariant, PTL

(* mutate() over the leased SQLite store implements the serial project. *)
THEOREM Refinement == Spec => RefinesSerialProject
<1>1. Init => Serial!Init
  BY DEF Init, Serial!Init, NoContext
<1>2. TypeOK /\ SerialInv /\ [Next]_vars => [Serial!Next]_Serial!vars
  <2> SUFFICES ASSUME TypeOK, SerialInv, [Next]_vars
               PROVE  [Serial!Next]_Serial!vars
    OBVIOUS
  <2> USE DEF Serial!vars, docVars, stateVars, leaseVars, callVars
  <2>1. CASE Quiet
    <3>1. UNCHANGED <<version, receipts, epoch, started>>
      BY <2>1 DEF Quiet
    <3>2. CASE token' = token
      BY <3>1, <3>2
    <3>3. ASSUME NEW d \in Daemon, token' = [token EXCEPT ![d] = NoContext]
          PROVE  Serial!Next
      <4>1. [e \in Daemon |-> token'[e].epoch]
              = [[e \in Daemon |-> token[e].epoch] EXCEPT ![d] = NoRequest]
        BY <3>3 DEF NoContext, TypeOK
      <4>2. Serial!Call(d, NoRequest)
        BY <3>1, <4>1 DEF Serial!Call
      <4> QED
        BY <4>2 DEF Serial!Next
    <3> QED
      BY <2>1, <3>2, <3>3 DEF Quiet
  <2>2. ASSUME NEW d \in Daemon, Read(d) PROVE UNCHANGED Serial!vars
    BY <2>2 DEF Read
  <2>3. ASSUME NEW d \in Daemon, NEW r \in Request, Submit(d, r)
        PROVE  [Serial!Next]_Serial!vars
    <3>1. UNCHANGED <<version, receipts, epoch, started>>
      BY <2>3 DEF Submit
    <3>2. CASE token' = token
      BY <3>1, <3>2
    <3>3. ASSUME NEW c \in contexts[d], token' = [token EXCEPT ![d] = c]
          PROVE  Serial!Next
      <4>1. c \in Context /\ Known(c)
        BY DEF TypeOK, SerialInv, FenceInv
      <4>2. [e \in Daemon |-> token'[e].epoch]
              = [[e \in Daemon |-> token[e].epoch] EXCEPT ![d] = c.epoch]
        BY <3>3 DEF TypeOK
      <4>3. c.epoch \in EpochRequests \cup {NoRequest} /\ c.epoch \in Request \cup {NoRequest}
        BY <4>1, RequestsAreNamed DEF Context
      <4>4. Serial!Call(d, c.epoch)
        BY <3>1, <4>1, <4>2, <4>3 DEF Serial!Call, Known
      <4> QED
        BY <4>3, <4>4 DEF Serial!Next
    <3> QED
      BY <2>3, <3>2, <3>3 DEF Submit
  <2>4. ASSUME NEW d \in Daemon, Commit(d) PROVE Serial!Next
    <3>1. req[d] \in Request /\ pc[d] = "building"
      BY <2>4 DEF Commit, TypeOK
    <3>2. req[d] \in FencedRequests => token[d].epoch = epoch
      BY <2>4, <3>1 DEF Commit, SerialInv, BaseInv, FenceInv, Known
    <3>3. Serial!Apply(d, req[d])
      BY <2>4, <3>1, <3>2 DEF Commit, Serial!Apply, SerialInv, BaseInv
    <3> QED
      BY <3>1, <3>3 DEF Serial!Next
  <2>5. ASSUME NEW d \in Daemon, StartEffect(d) PROVE Serial!Next
    <3>1. req[d] \in Request /\ pc[d] = "handoff"
      BY <2>5 DEF StartEffect, TypeOK
    <3>2. Serial!Start(req[d])
      BY <2>5, <3>1 DEF StartEffect, Serial!Start, SerialInv, HandoffInv, Committed
    <3> QED
      BY <3>1, <3>2 DEF Serial!Next
  <2> QED
    BY <2>1, <2>2, <2>3, <2>4, <2>5, QuietOrVisible DEF Visible
<1> QED
  BY <1>1, <1>2, TypeCorrect, SerialInvariant, PTL
  DEF Spec, RefinesSerialProject, Serial!Spec

-----------------------------------------------------------------------------
(* What the serial project promises of the document holds of the detailed
   executor too. *)

Receipted == {k \in Key : receipts[k] # NoRequest}

(* Each version of the document is one commit, of another requestId than all
   others. *)
VersionsAreCommits == IsFiniteSet(Receipted) /\ version = Cardinality(Receipted)

(* An effect that was started is of a committed request. *)
EffectsAreCommitted == \A r \in started : r \in EffectRequests /\ receipts[KeyOf[r]] = r

LEMMA ApplyCounts ==
  ASSUME TypeOK, VersionsAreCommits, NEW d \in Daemon, NEW r \in Request, Serial!Apply(d, r)
  PROVE  VersionsAreCommits'
<1>1. /\ receipts[KeyOf[r]] = NoRequest /\ KeyOf[r] \in Key /\ r # NoRequest
      /\ receipts' = [receipts EXCEPT ![KeyOf[r]] = r] /\ version' = version + 1
  BY ConstantsAssumption DEF Serial!Apply
<1>2. Receipted' = Receipted \cup {KeyOf[r]} /\ KeyOf[r] \notin Receipted
  BY <1>1 DEF Receipted, TypeOK
<1>3. /\ IsFiniteSet(Receipted \cup {KeyOf[r]})
      /\ Cardinality(Receipted \cup {KeyOf[r]}) = Cardinality(Receipted) + 1
  BY <1>2, FS_AddElement DEF VersionsAreCommits
<1> QED
  BY <1>1, <1>2, <1>3 DEF VersionsAreCommits

(* No committed update is lost or applied twice, whatever daemons on whatever
   hosts build their updates on: stateVersion counts the receipts, and a started
   effect has one (StateStore.write compares the version that was read). *)
THEOREM NoUpdateLost == Spec => [](VersionsAreCommits /\ EffectsAreCommitted)
<1> DEFINE Counted == VersionsAreCommits /\ EffectsAreCommitted
<1>1. Init => Counted
  <2> SUFFICES ASSUME Init PROVE Counted
    OBVIOUS
  <2>1. Receipted = {} /\ version = 0 /\ started = {}
    BY DEF Init, Receipted
  <2> QED
    BY <2>1, FS_EmptySet DEF VersionsAreCommits, EffectsAreCommitted
<1>2. TypeOK /\ Counted /\ [Serial!Next]_Serial!vars => Counted'
  <2> SUFFICES ASSUME TypeOK, Counted, [Serial!Next]_Serial!vars PROVE Counted'
    OBVIOUS
  <2>1. ASSUME NEW d \in Daemon, NEW r \in Request, Serial!Apply(d, r) PROVE Counted'
    <3>1. /\ receipts[KeyOf[r]] = NoRequest /\ started' = started
          /\ receipts' = [receipts EXCEPT ![KeyOf[r]] = r]
      BY <2>1 DEF Serial!Apply
    <3>2. \A s \in started : s \in Request /\ s # NoRequest /\ KeyOf[s] \in Key
      BY ConstantsAssumption DEF TypeOK
    <3>3. EffectsAreCommitted'
      BY <3>1, <3>2 DEF EffectsAreCommitted, TypeOK
    <3> QED
      BY <2>1, <3>3, ApplyCounts
  <2>2. ASSUME NEW r \in Request, Serial!Start(r) PROVE Counted'
    <3>1. UNCHANGED <<version, receipts>> /\ started' = started \cup {r}
          /\ r \in EffectRequests /\ receipts[KeyOf[r]] = r
      BY <2>2 DEF Serial!Start
    <3> QED
      BY <3>1 DEF VersionsAreCommits, EffectsAreCommitted, Receipted
  <2>3. ASSUME NEW d \in Daemon, NEW e \in Request \cup {NoRequest}, Serial!Call(d, e)
        PROVE  Counted'
    BY <2>3 DEF Serial!Call, VersionsAreCommits, EffectsAreCommitted, Receipted
  <2>4. CASE UNCHANGED Serial!vars
    BY <2>4 DEF Serial!vars, VersionsAreCommits, EffectsAreCommitted, Receipted
  <2> QED
    BY <2>1, <2>2, <2>3, <2>4 DEF Serial!Next
<1> QED
  BY <1>1, <1>2, TypeCorrect, Refinement, PTL DEF Spec, RefinesSerialProject, Serial!Spec
=============================================================================
