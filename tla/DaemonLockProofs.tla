-------------------------- MODULE DaemonLockProofs --------------------------
(***************************************************************************)
(* For any number of instances and any reuse of pids, two daemons own a    *)
(* data directory only after the race of RemovalsAreAlone: an instance     *)
(* that judged one lock file stale unlinks another.  Two instances alone   *)
(* cannot race, nor can instances that start one after the other.          *)
(***************************************************************************)
EXTENDS DaemonLock, TLAPS

\* Program points of ProjectLock.acquire before the file is created, and the
\* ones of removeStaleLocalLock that know a record.
Removing == {"probing", "removing"}
Starting == {"opening", "inspecting"} \cup Removing

-----------------------------------------------------------------------------
(* Who has written a record has the lock behind it, raced or not.          *)

RecordsInv ==
    /\ TypeOK
    /\ \A d \in Daemon : d \in written => pc[d] \in Owning \cup {"leaving", "dead"}
    /\ \A d \in Daemon : pc[d] \in Removing => found[d] \in written

LEMMA RecordsInit == Init => RecordsInv
BY DEF Init, RecordsInv, TypeOK, Locations, Owning, Removing

LEMMA RecordsStep ==
  ASSUME RecordsInv, NEW e \in Daemon, Step(e)
  PROVE  RecordsInv'
<1> USE DEF RecordsInv, TypeOK, Goto, Live, Locations, Owning, Removing
<1>1. CASE Launch(e) BY <1>1 DEF Launch
<1>2. CASE Crash(e) BY <1>2 DEF Crash
<1>3. CASE OpenExclusive(e) BY <1>3 DEF OpenExclusive
<1>4. CASE WriteRecord(e) BY <1>4 DEF WriteRecord
<1>5. CASE ReadLock(e) BY <1>5 DEF ReadLock
<1>6. CASE Probe(e) BY <1>6 DEF Probe
<1>7. CASE RemoveStale(e) BY <1>7 DEF RemoveStale
<1>8. CASE Recover(e) BY <1>8 DEF Recover
<1>9. CASE UnlinkEndpoint(e) BY <1>9 DEF UnlinkEndpoint
<1>10. CASE Listen(e) BY <1>10 DEF Listen
<1>11. CASE Close(e) BY <1>11 DEF Close
<1>12. CASE CloseServer(e) BY <1>12 DEF CloseServer
<1>13. CASE ReadRecord(e) BY <1>13 DEF ReadRecord
<1>14. CASE Unlock(e) BY <1>14 DEF Unlock
<1>15. QED BY <1>1, <1>2, <1>3, <1>4, <1>5, <1>6, <1>7, <1>8, <1>9, <1>10,
              <1>11, <1>12, <1>13, <1>14 DEF Step

LEMMA RecordsNext == RecordsInv /\ [Next]_vars => RecordsInv'
<1>1. CASE UNCHANGED vars
      BY <1>1 DEF vars, RecordsInv, TypeOK, Removing, Owning
<1>2. QED BY <1>1, RecordsStep DEF Next

\* The lock is a known instance's or nobody's, and an instance is past
\* acquireInstanceLock only when it has written its record, for any number of
\* instances that crash, restart and race.
THEOREM TypeCorrect == Spec => []TypeOK
<1>1. RecordsInv => TypeOK BY DEF RecordsInv
<1>2. QED BY <1>1, RecordsInit, RecordsNext, PTL DEF Spec

-----------------------------------------------------------------------------
(* Without the race, the lock file is the lock.                            *)

Holds(d) == pc[d] \in Owning \cup {"writing"}

\* Who holds the lock has its own file at the path; what a remover finds there
\* is the file it has read, or none; and who unlinks has seen the owner die.
HeldInv ==
    /\ \A d \in Daemon : Holds(d) => lock = d
    /\ \A d \in Daemon : pc[d] \in Removing => lock \in {found[d], NoDaemon}
    /\ \A d \in Daemon : pc[d] = "removing" => pc[found[d]] = "dead"

LockInv == RecordsInv /\ HeldInv /\ ReadyIsReachable

LEMMA HolderIsAlone ==
  ASSUME HeldInv, NEW d \in Daemon, NEW e \in Daemon, Holds(d), Holds(e)
  PROVE  d = e
BY DEF HeldInv

\* A process that answers no signal and has written a record is dead.
LEMMA NotFoundIsDead ==
  ASSUME RecordsInv, NEW o \in written, ~PidInUse(o)
  PROVE  pc[o] = "dead"
<1>1. o \in Daemon BY DEF RecordsInv, TypeOK
<1>2. ~Live(o) BY <1>1 DEF PidInUse
<1>3. QED BY <1>1, <1>2 DEF RecordsInv, Live, Owning

\* A remover unlinks no file whose owner still holds it.
LEMMA RemovesStaleOnly ==
  ASSUME LockInv, NEW d \in Daemon, pc[d] = "removing", NEW e \in Daemon
  PROVE  ~Holds(e)
<1>1. lock \in {found[d], NoDaemon} /\ pc[found[d]] = "dead"
      BY DEF LockInv, HeldInv, Removing
<1>2. SUFFICES ASSUME Holds(e) PROVE FALSE OBVIOUS
<1>3. lock = e BY <1>2 DEF LockInv, HeldInv
<1>4. found[d] = e BY <1>1, <1>3, NoDaemonAssumption
<1>5. QED BY <1>1, <1>2, <1>4 DEF Holds, Owning

LEMMA HeldStep ==
  ASSUME LockInv, NEW e \in Daemon, Step(e), RemovalsAreAlone
  PROVE  HeldInv'
<1> USE DEF LockInv, HeldInv, RecordsInv, TypeOK, Goto, Live, Holds, Owning, Locations, Removing
<1>1. CASE Launch(e) BY <1>1 DEF Launch
<1>2. CASE Crash(e) BY <1>2 DEF Crash
<1>3. CASE OpenExclusive(e)
  <2>1. CASE lock = NoDaemon /\ lock' = e /\ pc' = [pc EXCEPT ![e] = "writing"]
        BY <1>3, <2>1, NoDaemonAssumption DEF OpenExclusive, RemovalsAreAlone
  <2>2. CASE UNCHANGED lock /\ \E l \in {"inspecting", "leaving"} : pc' = [pc EXCEPT ![e] = l]
        BY <1>3, <2>2 DEF OpenExclusive
  <2>3. QED BY <1>3, <2>1, <2>2 DEF OpenExclusive
<1>4. CASE WriteRecord(e) BY <1>4 DEF WriteRecord
<1>5. CASE ReadLock(e) BY <1>5, NoDaemonAssumption DEF ReadLock
<1>6. CASE Probe(e) BY <1>6, NotFoundIsDead DEF Probe
<1>7. CASE RemoveStale(e) BY <1>7, RemovesStaleOnly DEF RemoveStale
<1>8. CASE Recover(e) BY <1>8 DEF Recover
<1>9. CASE UnlinkEndpoint(e) BY <1>9 DEF UnlinkEndpoint
<1>10. CASE Listen(e) BY <1>10 DEF Listen
<1>11. CASE Close(e) BY <1>11 DEF Close
<1>12. CASE CloseServer(e) BY <1>12 DEF CloseServer
<1>13. CASE ReadRecord(e) BY <1>13 DEF ReadRecord
<1>14. CASE Unlock(e) BY <1>14, HolderIsAlone DEF Unlock
<1>15. QED BY <1>1, <1>2, <1>3, <1>4, <1>5, <1>6, <1>7, <1>8, <1>9, <1>10,
              <1>11, <1>12, <1>13, <1>14 DEF Step

\* Only an owner touches the socket path, and it is the only owner.
LEMMA ReadyStep ==
  ASSUME LockInv, NEW e \in Daemon, Step(e)
  PROVE  ReadyIsReachable'
<1> USE DEF LockInv, RecordsInv, TypeOK, ReadyIsReachable, Goto
<1>1. CASE endpoint' = endpoint /\ (pc'[e] = "ready" => pc[e] = "ready")
      <2>1. \A d \in Daemon \ {e} : pc'[d] = pc[d]
            BY DEF Step, Launch, Crash, OpenExclusive, WriteRecord, ReadLock, Probe, RemoveStale,
                   Recover, UnlinkEndpoint, Listen, Close, CloseServer, ReadRecord, Unlock
      <2>2. QED BY <1>1, <2>1
<1>2. CASE UnlinkEndpoint(e) \/ Listen(e) \/ CloseServer(e)
  <2>1. Holds(e) BY <1>2 DEF UnlinkEndpoint, Listen, CloseServer, Holds, Owning
  <2>2. \A d \in Daemon : pc[d] = "ready" => d = e
        BY <2>1, HolderIsAlone DEF Holds, Owning
  <2>3. QED BY <1>2, <2>2 DEF UnlinkEndpoint, Listen, CloseServer
<1>3. CASE ~(UnlinkEndpoint(e) \/ Listen(e) \/ CloseServer(e))
  <2>1. endpoint' = endpoint /\ pc'[e] # "ready"
        BY <1>3 DEF Step, Launch, Crash, OpenExclusive, WriteRecord, ReadLock, Probe, RemoveStale,
                    Recover, Close, ReadRecord, Unlock
  <2>2. QED BY <1>1, <2>1
<1>4. QED BY <1>2, <1>3

LEMMA LockInit == Init => LockInv
<1>1. Init => HeldInv /\ ReadyIsReachable
      BY DEF Init, HeldInv, ReadyIsReachable, Holds, Owning, Removing
<1>2. QED BY <1>1, RecordsInit DEF LockInv

LEMMA LockNext == LockInv /\ [Next /\ RemovalsAreAlone]_vars => LockInv'
<1>1. CASE UNCHANGED vars
      BY <1>1, RecordsNext DEF vars, LockInv, HeldInv, ReadyIsReachable, Holds, Owning, Removing
<1>2. ASSUME LockInv, Next, RemovalsAreAlone PROVE LockInv'
      BY <1>2, RecordsStep, HeldStep, ReadyStep DEF Next, LockInv
<1>3. QED BY <1>1, <1>2

THEOREM LockInvariance == UnracedSpec => []LockInv
BY LockInit, LockNext, PTL DEF UnracedSpec

\* However many instances start, crash and leave their files, and whatever pids
\* they get, one at a time is past acquireInstanceLock, unless an instance
\* unlinks another file than the one it has read.
THEOREM OneDaemon == UnracedSpec => []SingletonDaemon
<1>1. LockInv => SingletonDaemon
      BY HolderIsAlone DEF LockInv, SingletonDaemon, Holds
<1>2. QED BY <1>1, LockInvariance, PTL

\* Under the same condition, the socket path leads to the daemon that is ready.
THEOREM ReadyDaemonIsReached == UnracedSpec => []ReadyIsReachable
<1>1. LockInv => ReadyIsReachable BY DEF LockInv
<1>2. QED BY <1>1, LockInvariance, PTL

-----------------------------------------------------------------------------
(* When there is no race.                                                  *)

\* A lock file is made by an instance that has none yet.
LEMMA CreatesAtOpening ==
  ASSUME RecordsInv, Next, lock' \notin {lock, NoDaemon}
  PROVE  \E e \in Daemon : pc[e] = "opening"
BY DEF Next, Step, Launch, Crash, OpenExclusive, WriteRecord, ReadLock, Probe, RemoveStale,
       Recover, UnlinkEndpoint, Listen, Close, CloseServer, ReadRecord, Unlock

\* The race takes three instances: the dead owner of the lock, the one that
\* removes it, and the one that makes a new one.
LEMMA RaceTakesThree ==
  ASSUME \A a, b, c \in Daemon : a = b \/ b = c \/ a = c,
         RecordsInv, Next
  PROVE  RemovalsAreAlone
<1>1. SUFFICES ASSUME NEW d \in Daemon, pc[d] \in Removing, lock' \notin {lock, NoDaemon}
               PROVE  FALSE
      BY DEF RemovalsAreAlone, Removing
<1>2. PICK e \in Daemon : pc[e] = "opening" BY <1>1, CreatesAtOpening
<1>3. found[d] \in written /\ found[d] \in Daemon BY <1>1 DEF RecordsInv, TypeOK
<1>4. pc[found[d]] \in Owning \cup {"leaving", "dead"} BY <1>3 DEF RecordsInv
<1>5. d # e /\ found[d] # d /\ found[d] # e BY <1>1, <1>2, <1>4 DEF Owning, Removing
<1>6. QED BY <1>3, <1>5

\* A daemon and its successor cannot meet in the race, whatever crashes: the
\* installation has one owner, and the one that is ready is reached.
THEOREM TwoInstances ==
  ASSUME \A a, b, c \in Daemon : a = b \/ b = c \/ a = c
  PROVE  Spec => [](SingletonDaemon /\ ReadyIsReachable)
<1>1. RecordsInv /\ [Next]_vars => [Next /\ RemovalsAreAlone]_vars
      BY RaceTakesThree
<1>2. Spec => UnracedSpec
      BY <1>1, RecordsInit, RecordsNext, PTL DEF Spec, UnracedSpec
<1>3. QED BY <1>2, OneDaemon, ReadyDaemonIsReached, PTL

OneStarts == \A d, e \in Daemon : pc[d] \in Starting /\ pc[e] \in Starting => d = e

\* Any number of instances may crash, close and follow each other, as long as
\* the next one is launched when the last one has the lock or has given up.
THEOREM StartsInTurn ==
  Spec /\ []OneStarts => [](SingletonDaemon /\ ReadyIsReachable)
<1>1. OneStarts /\ RecordsInv /\ [Next]_vars => [Next /\ RemovalsAreAlone]_vars
  <2>1. SUFFICES ASSUME OneStarts, RecordsInv, Next,
                        NEW d \in Daemon, pc[d] \in Removing, lock' \notin {lock, NoDaemon}
                 PROVE  FALSE
        BY DEF RemovalsAreAlone, Removing
  <2>2. PICK e \in Daemon : pc[e] = "opening" BY <2>1, CreatesAtOpening
  <2>3. d # e BY <2>1, <2>2 DEF Removing
  <2>4. QED BY <2>1, <2>2, <2>3 DEF OneStarts, Starting
<1>2. Spec /\ []OneStarts => UnracedSpec
      BY <1>1, RecordsInit, RecordsNext, PTL DEF Spec, UnracedSpec
<1>3. QED BY <1>2, OneDaemon, ReadyDaemonIsReached, PTL

=============================================================================
