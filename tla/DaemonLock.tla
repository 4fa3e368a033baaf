----------------------------- MODULE DaemonLock -----------------------------
(***************************************************************************)
(* One daemon per data directory: the lock file of                         *)
(* packages/state-store/src/project-lock.ts, taken and given back by       *)
(* apps/daemon/src/transport/local-ipc-server.ts around the life of the    *)
(* daemon that apps/daemon/src/main.ts starts, on one host.                *)
(*                                                                         *)
(* Each file system call is one step.  A file is named after the process   *)
(* instance that created it; unlinking a path removes whatever file is     *)
(* there by then.                                                          *)
(***************************************************************************)
EXTENDS Naturals, FiniteSets

CONSTANTS Daemon,     \* process instances
          NoDaemon,
          PidOf       \* pids, which the host may reuse

ASSUME NoDaemonAssumption == NoDaemon \notin Daemon

VARIABLES pc,         \* where the program of each instance is
          retried,    \* instances on their second attempt
          lock,       \* the instance whose lock file stands at daemon.lock
          found,      \* the instance whose record each has read there
          written,    \* instances that wrote their record into their file
          endpoint    \* the instance whose socket stands at daemon.sock

vars == <<pc, retried, lock, found, written, endpoint>>

\* Program points at which acquireInstanceLock has returned.
Owning == {"recovering", "binding", "listening", "ready",
           "closing", "endpointClosed", "releasing", "unlocking"}
Locations == Owning \cup {"new", "opening", "writing", "inspecting",
                          "probing", "removing", "leaving", "dead"}

Live(d) == pc[d] \notin {"new", "dead"}

\* kill(pid, 0)
PidInUse(o) == \E e \in Daemon : Live(e) /\ PidOf[e] = PidOf[o]

Goto(d, l) == pc' = [pc EXCEPT ![d] = l]

TypeOK ==
    /\ pc \in [Daemon -> Locations]
    /\ retried \subseteq Daemon /\ written \subseteq Daemon
    /\ lock \in Daemon \cup {NoDaemon}
    /\ found \in [Daemon -> Daemon \cup {NoDaemon}]
    /\ endpoint \in Daemon \cup {NoDaemon}
    /\ \A d \in Daemon : pc[d] \in Owning => d \in written

Init ==
    /\ pc = [d \in Daemon |-> "new"]
    /\ retried = {} /\ written = {}
    /\ lock = NoDaemon /\ endpoint = NoDaemon
    /\ found = [d \in Daemon |-> NoDaemon]

-----------------------------------------------------------------------------
(* Processes *)

\* A client finds no daemon and spawns one.
Launch(d) ==
    /\ pc[d] = "new" /\ ~PidInUse(d)
    /\ Goto(d, "opening")
    /\ UNCHANGED <<retried, lock, found, written, endpoint>>

\* The process ends, by itself once it is leaving, or by force anywhere; its
\* files stay.  (Its listening socket refuses from then on.)
Crash(d) ==
    /\ Live(d)
    /\ Goto(d, "dead")
    /\ UNCHANGED <<retried, lock, found, written, endpoint>>

-----------------------------------------------------------------------------
(* ProjectLock.acquire *)

\* open(path, "wx"); on EEXIST the first attempt inspects the lock, the second
\* gives up with PROJECT_LOCKED.
OpenExclusive(d) ==
    /\ pc[d] = "opening"
    /\ \/ lock = NoDaemon /\ lock' = d /\ Goto(d, "writing")
       \/ lock # NoDaemon /\ d \notin retried /\ Goto(d, "inspecting") /\ UNCHANGED lock
       \/ lock # NoDaemon /\ d \in retried /\ Goto(d, "leaving") /\ UNCHANGED lock
    /\ UNCHANGED <<retried, found, written, endpoint>>

\* The record is written into the file this instance created.
WriteRecord(d) ==
    /\ pc[d] = "writing"
    /\ written' = written \cup {d}
    /\ Goto(d, "recovering")
    /\ UNCHANGED <<retried, lock, found, endpoint>>

\* removeStaleLocalLock reads and parses the record.  A missing or half-written
\* one is not removed.
ReadLock(d) ==
    /\ pc[d] = "inspecting"
    /\ IF lock \in written
         THEN Goto(d, "probing") /\ found' = [found EXCEPT ![d] = lock]
         ELSE Goto(d, "leaving") /\ UNCHANGED found
    /\ UNCHANGED <<retried, lock, written, endpoint>>

\* Faulty: the owner's process is not looked for.
ProbeNobody(d) ==
    /\ pc[d] = "probing"
    /\ Goto(d, "removing")
    /\ UNCHANGED <<retried, lock, found, written, endpoint>>

\* ... looks for the process that the record names ...
Probe(d) ==
    /\ pc[d] = "probing"
    /\ IF PidInUse(found[d]) THEN Goto(d, "leaving") ELSE Goto(d, "removing")
    /\ UNCHANGED <<retried, lock, found, written, endpoint>>

\* ... and unlinks the path.
RemoveStale(d) ==
    /\ pc[d] = "removing"
    /\ lock' = NoDaemon
    /\ retried' = retried \cup {d}
    /\ Goto(d, "opening")
    /\ UNCHANGED <<found, written, endpoint>>

-----------------------------------------------------------------------------
(* startSmartFlowDaemon and LocalIpcServer *)

\* ProjectRuntime.recover returns, or fails and the server is closed.
Recover(d) ==
    /\ pc[d] = "recovering"
    /\ Goto(d, "binding") \/ Goto(d, "releasing")
    /\ UNCHANGED <<retried, lock, found, written, endpoint>>

\* startOnce removes a socket that a dead daemon left behind.
UnlinkEndpoint(d) ==
    /\ pc[d] = "binding"
    /\ endpoint' = NoDaemon
    /\ Goto(d, "listening")
    /\ UNCHANGED <<retried, lock, found, written>>

\* listen(path), or EADDRINUSE.
Listen(d) ==
    /\ pc[d] = "listening"
    /\ \/ endpoint = NoDaemon /\ endpoint' = d /\ Goto(d, "ready")
       \/ endpoint # NoDaemon /\ Goto(d, "releasing") /\ UNCHANGED endpoint
    /\ UNCHANGED <<retried, lock, found, written>>

\* Faulty: close gives the lock back before it removes the socket.
CloseReleasingFirst(d) ==
    /\ pc[d] = "ready"
    /\ Goto(d, "closing")
    /\ lock' = NoDaemon
    /\ UNCHANGED <<retried, found, written, endpoint>>

\* SIGINT or SIGTERM: close.
Close(d) ==
    /\ pc[d] = "ready"
    /\ Goto(d, "closing")
    /\ UNCHANGED <<retried, lock, found, written, endpoint>>

\* server.close stops listening and removes the path it was bound to;
\* ignoreMissing(endpoint) unlinks it again.
CloseServer(d) ==
    /\ \/ pc[d] = "closing" /\ Goto(d, "endpointClosed")
       \/ pc[d] = "endpointClosed" /\ Goto(d, "releasing")
    /\ endpoint' = NoDaemon
    /\ UNCHANGED <<retried, lock, found, written>>

\* ProjectLock.release compares the record's owner with its own identity ...
ReadRecord(d) ==
    /\ pc[d] = "releasing"
    /\ IF lock = d /\ d \in written THEN Goto(d, "unlocking") ELSE Goto(d, "leaving")
    /\ UNCHANGED <<retried, lock, found, written, endpoint>>

\* ... and unlinks the path.  The process has set its exit code; it runs on
\* until its background tasks are through.
Unlock(d) ==
    /\ pc[d] = "unlocking"
    /\ lock' = NoDaemon
    /\ Goto(d, "leaving")
    /\ UNCHANGED <<retried, found, written, endpoint>>

-----------------------------------------------------------------------------
Step(d) ==
    \/ Launch(d) \/ Crash(d)
    \/ OpenExclusive(d) \/ WriteRecord(d)
    \/ ReadLock(d) \/ Probe(d) \/ RemoveStale(d)
    \/ Recover(d) \/ UnlinkEndpoint(d) \/ Listen(d)
    \/ Close(d) \/ CloseServer(d) \/ ReadRecord(d) \/ Unlock(d)

Next == \E d \in Daemon : Step(d)

Spec == Init /\ [][Next]_vars

\* The unlink goes by path.  While an instance has read a record and has not
\* yet unlinked its file, nobody puts another file there.
RemovalsAreAlone ==
    \A d \in Daemon : pc[d] \in {"probing", "removing"} => lock' \in {lock, NoDaemon}

\* The executions without that race.
UnracedSpec == Init /\ [][Next /\ RemovalsAreAlone]_vars
-----------------------------------------------------------------------------
(* Properties *)

\* "Own the installation before importing SQLite state or scheduling recovery
\* effects" (main.ts): no two processes are past acquireInstanceLock.
SingletonDaemon ==
    \A d, e \in Daemon : pc[d] \in Owning /\ pc[e] \in Owning => d = e

\* Clients reach the daemon that is ready: neither a predecessor that closes
\* nor a competitor that starts takes its socket path away.
ReadyIsReachable ==
    \A d \in Daemon : pc[d] = "ready" => endpoint = d
=============================================================================
