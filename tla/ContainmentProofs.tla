-------------------------- MODULE ContainmentProofs --------------------------
(***************************************************************************)
(* For any number of attempts, whatever processes survive and whatever     *)
(* pids come round again: what the registry remembers, who may write in    *)
(* the workspace, and who is signaled.                                     *)
(***************************************************************************)
EXTENDS Containment, TLAPS

Launch == {"begun", "constructed", "registered", "spawned", "identified"}

\* It has ended, or outlived the end of its attempt.
Clear(a) == Alive(a) => a \in unproved

\* The attempts up to the current one are begun, the others have left no trace.
Counted ==
    /\ task \notin {"none", "enter", "begin"} \/ signaled => count > 0
    /\ task = "begin" => count < Attempts
    /\ \A a \in Attempt :
         IF a > count THEN status[a] = "none" /\ group[a] = "none" /\ a \notin known
                      ELSE status[a] # "none"

\* An attempt that is being launched is the run's, has no identity in the record yet,
\* and is in both maps before it has a process.
Launching ==
    /\ task \in {"begun", "constructed", "registered"} => group[count] = "none"
    /\ task = "spawned" => group[count] # "none"
    /\ task = "registered" => mine[count].status = "STARTING" /\ file[count].status = "STARTING"
    /\ task \in {"registered", "spawned"} => ~signaled /\ ~mine[count].pid
    /\ task \in Launch => /\ count \notin known
                          /\ \/ status[count] = "PREPARING"
                             \/ phase = "canceled" /\ status[count] = "ENDED"
    /\ task = "prompting" => \/ status[count] = "RUNNING"
                             \/ phase = "canceled" /\ status[count] = "ENDED"

\* A map has an entry for every process that was spawned.
Knows(m) == \A a \in Attempt : group[a] # "none" => m[a].status # "none"

\* What a map says has exited is gone.
Honest(m) == \A a \in Attempt : m[a].status = "EXITED" => ~Alive(a)

\* Whoever may write the registry knows all of it.
Maps ==
    /\ Knows(file) /\ Honest(file) /\ Honest(mine)
    /\ Knows(mine) \/ ((\A a \in Attempt : ~mine[a].pid) /\ ~signaled
                       /\ task \notin {"constructed", "registered", "spawned"})
    /\ stopper = "signaled" \/ task = "reconciling" => Knows(theirs) /\ Honest(theirs)

\* While an adapter waits for the end of its process, the pid is not given to another.
Signals ==
    /\ ~harmed
    /\ count > 0 /\ mine[count].pid /\ ~waited => group[count] # "foreign"
    /\ task \in Attached => group[count] # "foreign"

\* Somebody stops a worker in a cancellation, or before anything else of the run starts.
Stopping ==
    /\ ~up => task = "none" /\ stopper = "none"
    /\ stopper # "none" => phase = "canceling" \/ (phase \in {"running", "stuck"} /\ task = "none")
    /\ stopper \in {"cancel", "own"} => phase = "canceling"
    /\ stopper \in {"signaled", "persisted", "own"} => count > 0
    /\ stopper = "signaled" => count \in known

\* What has completed is gone, from the moment at which nothing is to be signaled.
Completing ==
    /\ \A a \in Attempt : status[a] = "COMPLETED" => ~Alive(a)
    /\ task = "completed" => ~Alive(count)
    /\ task = "finishing" /\ ~signaled => ~Alive(count)
    /\ task = "capture" \/ phase = "captured" => count > 0 /\ status[count] = "COMPLETED"

\* No attempt is begun, and the run goes nowhere where one could be, before the last
\* one is clear.
Cleared ==
    /\ \A a \in Attempt : a < count => Clear(a)
    /\ phase \in {"preparing", "paused", "captured"} \/ task = "begin" => count = 0 \/ ~Active(count)
    /\ \A a \in Attempt : status[a] = "ENDED" => Clear(a) \/ phase = "canceled"
    /\ stopper = "stopped" /\ phase = "running" => count = 0 \/ Clear(count)

\* When the worker is taken to be stopped, it does not write and is not prompted.
Stillness ==
    stopper = "stopped" \/ phase = "canceled" =>
      count = 0 \/ (/\ Writing(count) => count \in unproved
                    /\ task = "prompting" => ~Alive(count))

\* All of it together is inductive.
IInv == /\ TypeOK /\ Counted /\ Launching /\ Maps /\ Signals /\ Stopping /\ Completing
        /\ Cleared /\ Stillness

-----------------------------------------------------------------------------
(* The operators of the adapter *)

\* A signal brings no process to life.
Lessens ==
    /\ group' \in [Attempt -> Group]
    /\ \A a \in Attempt :
         /\ Alive(a)' => Alive(a)
         /\ Writing(a)' => Writing(a)
         /\ group'[a] = "none" <=> group[a] = "none"
         /\ group'[a] = "foreign" => group[a] = "foreign"

\* Whatever signal() leaves of a group.
LEMMA SignalLessens ==
  ASSUME group \in [Attempt -> Group], harmed \in BOOLEAN, NEW a \in Attempt, Signal(a)
  PROVE  /\ Lessens /\ harmed' \in BOOLEAN
         /\ group[a] # "foreign" => harmed' = harmed
<1>1. CASE GroupExists(a)
  <2>1. PICK g \in {group[a], "gone"} \cup (IF group[a] = "working" THEN {"tree"} ELSE {}) :
            group' = [group EXCEPT ![a] = g]
    BY <1>1 DEF Signal
  <2>2. harmed' = (harmed \/ group[a] = "foreign")
    BY <1>1 DEF Signal
  <2>3. g \in Group /\ g # "none" /\ group[a] \notin {"none", "gone"}
    BY <2>1, <1>1 DEF Group, GroupExists
  <2>4. Lessens
    BY <2>1, <2>3 DEF Lessens, Alive, Writing
  <2> QED
    BY <2>2, <2>4
<1>2. CASE ~GroupExists(a)
  BY <1>2 DEF Signal, Lessens, processes, Alive, Writing
<1> QED
  BY <1>1, <1>2

\* Only the status of that attempt changes, and it is true.
LEMMA ConcludedOf ==
  ASSUME TypeOK, NEW m \in [Attempt -> Record], NEW a \in Attempt
  PROVE  /\ Concluded(m, a) \in [Attempt -> Record]
         /\ \A b \in Attempt :
              /\ Concluded(m, a)[b].pid = m[b].pid
              /\ b # a => Concluded(m, a)[b].status = m[b].status
         /\ Concluded(m, a)[a].status = IF GroupExists(a) THEN "UNKNOWN" ELSE "EXITED"
<1>1. PICK s \in {"UNKNOWN", "EXITED"} :
        /\ Concluded(m, a) = [m EXCEPT ![a].status = s]
        /\ s = IF GroupExists(a) THEN "UNKNOWN" ELSE "EXITED"
  BY DEF Concluded
<1>2. [m[a] EXCEPT !.status = s] \in Record /\ [m[a] EXCEPT !.status = s].pid = m[a].pid
      /\ [m[a] EXCEPT !.status = s].status = s
  BY <1>1 DEF Record
<1>3. Concluded(m, a) = [m EXCEPT ![a] = [m[a] EXCEPT !.status = s]]
  BY <1>1
<1> QED
  BY <1>1, <1>2, <1>3

\* A map that is read has what the file has, and doubts more.
LEMMA LoadOf ==
  ASSUME TypeOK
  PROVE  /\ Load \in [Attempt -> Record]
         /\ \A a \in Attempt :
              /\ Load[a].pid = file[a].pid
              /\ \/ Load[a].status = file[a].status
                 \/ file[a].status = "RUNNING" /\ Load[a].status = "UNKNOWN"
<1>1. ASSUME NEW a \in Attempt
      PROVE  /\ [file[a] EXCEPT !.status = "UNKNOWN"] \in Record
             /\ [file[a] EXCEPT !.status = "UNKNOWN"].pid = file[a].pid
             /\ [file[a] EXCEPT !.status = "UNKNOWN"].status = "UNKNOWN"
             /\ file[a] \in Record
  BY DEF TypeOK, Record
<1>2. \A a \in Attempt : Load[a] \in {file[a], [file[a] EXCEPT !.status = "UNKNOWN"]}
                        /\ (Load[a] # file[a] => file[a].status = "RUNNING")
  BY DEF Load
<1>3. Load = [a \in Attempt |-> Load[a]]
  BY DEF Load
<1>4. \A a \in Attempt : Load[a] \in Record
  BY <1>1, <1>2
<1>5. Load \in [Attempt -> Record]
  BY <1>3, <1>4
<1> QED
  BY <1>1, <1>2, <1>5

-----------------------------------------------------------------------------
(* Every step *)

LEMMA InitInvariant == Init => IInv
<1> SUFFICES ASSUME Init PROVE IInv
  OBVIOUS
<1> USE AttemptAssumption DEF Init, Nothing, Attempt
<1>1. TypeOK
  <2>1. Nothing \in [Attempt -> Record]
    BY DEF Record
  <2>2. status \in [Attempt -> Status] /\ group \in [Attempt -> Group]
    BY DEF Status, Group
  <2>3. /\ phase \in Phase /\ count \in 0 .. Attempts /\ task \in Task /\ stopper \in Stopper
        /\ known \subseteq Attempt /\ unproved \subseteq Attempt
    BY DEF Phase, Task, Idle, Stopper
  <2> QED
    BY <2>1, <2>2, <2>3 DEF TypeOK
<1>2. Counted /\ Launching /\ Maps
  BY DEF Counted, Launching, Launch, Maps, Knows, Honest, Alive
<1>3. Signals /\ Stopping /\ Completing /\ Cleared /\ Stillness
  BY DEF Signals, Attached, Stopping, Completing, Alive, Cleared, Clear, Active, Stillness
<1> QED
  BY <1>1, <1>2, <1>3 DEF IInv

LEMMA PrepareKeeps == IInv /\ Prepare => IInv'
<1> SUFFICES ASSUME IInv, Prepare PROVE IInv'
  OBVIOUS
<1> USE AttemptAssumption DEF IInv, Prepare, Quiet, processes
<1>1. TypeOK'
  BY DEF TypeOK, Counted, Phase, Attempt, Status, Record, Group, Task, Stopper, Idle,
     Attached
<1>2. Cleared'
  BY DEF Cleared, Stopping, Clear, Active, Alive
<1>3. Counted' /\ Launching' /\ Maps' /\ Signals' /\ Stopping' /\ Completing' /\ Stillness'
  BY DEF Counted, Attempt, Launching, Launch, Maps, Knows, Honest, Alive, Signals, Attached,
     Stopping, Completing, Stillness, Writing
<1> QED
  BY <1>1, <1>2, <1>3

LEMMA BeginAttemptKeeps == IInv /\ BeginAttempt => IInv'
<1> SUFFICES ASSUME IInv, BeginAttempt PROVE IInv'
  OBVIOUS
<1> USE AttemptAssumption DEF IInv, BeginAttempt, Quiet, processes
<1>1. TypeOK'
  BY DEF TypeOK, Counted, Phase, Attempt, Status, Record, Group, Task, Stopper, Idle,
     Attached
<1>2. Counted'
  BY DEF TypeOK, Counted, Attempt, Idle, Attached
<1>3. Launching'
  BY DEF TypeOK, Counted, Launching, Attempt, Launch, Idle, Attached
<1>4. Signals'
  BY DEF TypeOK, Counted, Signals, Attempt, Attached, Idle
<1>5. Completing'
  BY DEF TypeOK, Completing, Alive, Idle, Attached
<1>6. Cleared'
  BY DEF TypeOK, Counted, Cleared, Completing, Stopping, Phase, Attempt, Status, Record,
     Group, Task, Stopper, Clear, Active, Alive, Idle, Attached
<1>7. Stillness'
  BY DEF TypeOK, Counted, Stillness, Attempt, Writing, Alive, Idle, Attached
<1>8. Maps' /\ Stopping'
  BY DEF Maps, Knows, Honest, Attempt, Alive, Stopping
<1> QED
  BY <1>1, <1>2, <1>3, <1>4, <1>5, <1>6, <1>7, <1>8

LEMMA ConstructKeeps == IInv /\ Construct => IInv'
<1> SUFFICES ASSUME IInv, Construct PROVE IInv'
  OBVIOUS
<1> USE AttemptAssumption DEF IInv, Construct, record, Quiet, processes
<1>1. TypeOK'
  BY LoadOf DEF TypeOK, Counted, Phase, Attempt, Status, Record, Group, Task, Stopper, Idle,
     Attached
<1>2. Signals'
  BY LoadOf DEF Signals, Launching, Attached, Launch
<1>3. Counted' /\ Launching' /\ Maps' /\ Stopping' /\ Completing' /\ Cleared' /\ Stillness'
  BY LoadOf DEF Counted, Attempt, Launching, Launch, Maps, Knows, Honest, Alive, Stopping,
     Completing, Cleared, Clear, Active, Stillness, Writing
<1> QED
  BY <1>1, <1>2, <1>3

LEMMA SpawnRefusedKeeps == IInv /\ SpawnRefused => IInv'
<1> SUFFICES ASSUME IInv, SpawnRefused PROVE IInv'
  OBVIOUS
<1> USE AttemptAssumption DEF IInv, SpawnRefused, record, Quiet, processes
<1>1. TypeOK'
  BY DEF TypeOK, Counted, Phase, Attempt, Status, Record, Group, Task, Stopper, Idle,
     Attached
<1>2. Counted' /\ Launching' /\ Maps' /\ Signals' /\ Stopping' /\ Completing' /\ Cleared' /\ Stillness'
  BY DEF Counted, Attempt, Launching, Launch, Maps, Knows, Honest, Alive, Signals, Attached,
     Stopping, Completing, Cleared, Clear, Active, Stillness, Writing
<1> QED
  BY <1>1, <1>2

LEMMA RegisterKeeps == IInv /\ Register => IInv'
<1> SUFFICES ASSUME IInv, Register PROVE IInv'
  OBVIOUS
<1> USE AttemptAssumption DEF IInv, Register, record, processes
<1>1. TypeOK'
  BY DEF TypeOK, Counted, Phase, Attempt, Status, Record, Group, Task, Stopper, Idle,
     Attached
<1>2. Launching'
  BY DEF TypeOK, Counted, Launching, Attempt, Launch, Idle, Attached
<1>3. Signals'
  BY DEF TypeOK, Signals, Attempt, Attached, Idle
<1>4. Counted' /\ Maps' /\ Stopping' /\ Completing' /\ Cleared' /\ Stillness'
  BY DEF Counted, Attempt, Maps, Knows, Honest, Alive, Stopping, Completing, Cleared, Clear,
     Active, Stillness, Writing
<1> QED
  BY <1>1, <1>2, <1>3, <1>4

LEMMA SpawnKeeps == IInv /\ Spawn => IInv'
<1> SUFFICES ASSUME IInv, Spawn PROVE IInv'
  OBVIOUS
<1> USE AttemptAssumption DEF IInv, Spawn, record, adapters
<1>1. TypeOK'
  BY DEF TypeOK, Counted, Phase, Attempt, Status, Record, Group, Task, Stopper, Idle,
     Attached
<1>2. Counted'
  BY DEF TypeOK, Counted, Idle, Attached
<1>3. Launching'
  BY DEF TypeOK, Counted, Launching, Attempt, Launch, Idle, Attached
<1>4. Maps'
  BY DEF TypeOK, Maps, Launching, Stopping, Knows, Honest, Launch, Idle, Attached, Alive
<1>5. Signals'
  BY DEF TypeOK, Signals, Attached, Idle
<1>6. Completing'
  BY DEF TypeOK, Completing, Launching, Alive, Launch, Idle, Attached
<1>7. Cleared'
  BY DEF TypeOK, Cleared, Launching, Stopping, Clear, Active, Launch, Idle, Attached, Alive
<1>8. Stillness'
  BY DEF TypeOK, Stillness, Writing, Alive, Idle, Attached
<1>9. Stopping'
  BY DEF Stopping
<1> QED
  BY <1>1, <1>2, <1>3, <1>4, <1>5, <1>6, <1>7, <1>8, <1>9

LEMMA IdentifyKeeps == IInv /\ Identify => IInv'
<1> SUFFICES ASSUME IInv, Identify PROVE IInv'
  OBVIOUS
<1> USE AttemptAssumption DEF IInv, Identify, record
<1>1. count \in Attempt /\ mine \in [Attempt -> Record] /\ group \in [Attempt -> Group]
  BY DEF TypeOK, Counted, Attempt
<1>2. ~mine[count].pid /\ mine[count] \in Record
  BY <1>1 DEF Launching
<1>3. /\ mine' \in [Attempt -> Record] /\ file' = mine'
      /\ \A a \in Attempt : a # count => mine'[a] = mine[a]
      /\ mine'[count].status \in {"RUNNING", "UNKNOWN"}
      /\ mine'[count].pid => group[count] = "idle" /\ group' = group
  <2>1. [mine[count] EXCEPT !.status = "UNKNOWN"] \in Record
        /\ [mine[count] EXCEPT !.status = "UNKNOWN"].status = "UNKNOWN"
        /\ ~[mine[count] EXCEPT !.status = "UNKNOWN"].pid
    BY <1>2 DEF Record
  <2>2. CASE mine' = [mine EXCEPT ![count] = [status |-> "RUNNING", pid |-> TRUE]]
             /\ group[count] = "idle" /\ group' = group
    BY <1>1, <2>2 DEF Record
  <2>3. CASE mine' = [mine EXCEPT ![count] = [mine[count] EXCEPT !.status = "UNKNOWN"]]
    BY <1>1, <2>1, <2>3
  <2> QED
    BY <2>2, <2>3
<1>4. Lessens
  BY <1>1 DEF Lessens, Alive, Writing, Group, Launching
<1>5. TypeOK'
  BY <1>1, <1>3, <1>4 DEF TypeOK, Counted, Phase, Attempt, Status, Record, Group, Task,
     Stopper, Idle, Attached, Lessens
<1>6. Maps'
  <2>1. Knows(mine) /\ Honest(mine) /\ stopper # "signaled"
    BY DEF Maps, Launching, Launch, Stopping
  <2>2. Knows(mine)' /\ Honest(mine)'
    BY <1>1, <1>3, <1>4, <2>1 DEF Knows, Honest, Lessens
  <2> QED
    BY <1>3, <2>1, <2>2 DEF Maps, Knows, Honest
<1>7. Counted' /\ Launching' /\ Signals' /\ Stopping' /\ Completing' /\ Cleared' /\ Stillness'
  BY <1>1, <1>3, <1>4 DEF Counted, Attempt, Lessens, Launching, Launch, Signals, Attached,
     Stopping, Completing, Alive, Cleared, Clear, Active, Stillness, Writing
<1> QED
  BY <1>5, <1>6, <1>7

LEMMA StartedKeeps == IInv /\ Started => IInv'
<1> SUFFICES ASSUME IInv, Started PROVE IInv'
  OBVIOUS
<1> USE AttemptAssumption DEF IInv, Started, Quiet, processes
<1>1. TypeOK'
  <2>1. count \in Attempt
    BY DEF TypeOK, Counted, Attempt
  <2>2. status' \in [Attempt -> Status]
    BY DEF TypeOK, Status
  <2>3. known' \subseteq Attempt
    BY <2>1 DEF TypeOK
  <2>4. task' \in Task
    BY DEF TypeOK, Task, Attached, Idle
  <2> QED
    BY <2>1, <2>2, <2>3, <2>4 DEF TypeOK
<1>2. Counted'
  BY DEF TypeOK, Counted, Idle, Attached
<1>3. Launching'
  BY DEF TypeOK, Counted, Launching, Attempt, Launch, Idle, Attached
<1>4. Completing'
  BY DEF TypeOK, Completing, Alive, Idle, Attached
<1>5. Cleared'
  BY DEF TypeOK, Cleared, Clear, Active, Idle, Attached, Alive
<1>6. Stillness'
  BY DEF Stillness, Stopping, Writing, Alive
<1>7. Maps' /\ Signals' /\ Stopping'
  BY DEF Maps, Knows, Honest, Attempt, Alive, Signals, Attached, Stopping
<1> QED
  BY <1>1, <1>2, <1>3, <1>4, <1>5, <1>6, <1>7

LEMMA PromptKeeps == IInv /\ Prompt => IInv'
<1> SUFFICES ASSUME IInv, Prompt PROVE IInv'
  OBVIOUS
<1> USE AttemptAssumption DEF IInv, Prompt, record, adapters
<1>1. TypeOK'
  BY DEF TypeOK, Counted, Phase, Attempt, Status, Record, Group, Task, Stopper, Idle,
     Attached
<1>2. Counted' /\ Launching' /\ Maps' /\ Signals' /\ Stopping' /\ Completing' /\ Cleared' /\ Stillness'
  BY DEF Counted, Attempt, Launching, Launch, Maps, Knows, Honest, Alive, Signals, Attached,
     Stopping, Completing, Cleared, Clear, Active, Stillness, Writing
<1> QED
  BY <1>1, <1>2

LEMMA FinishKeeps == IInv /\ Finish => IInv'
<1> SUFFICES ASSUME IInv, Finish PROVE IInv'
  OBVIOUS
<1> USE AttemptAssumption DEF IInv, Finish, Terminable, SignalOwn, processes, record,
     IdentityMatches
<1>1. TypeOK'
  <2>1. count \in Attempt
    BY DEF TypeOK, Counted, Attempt, Attached
  <2>2. Signal(count) \/ UNCHANGED processes
    OBVIOUS
  <2>3. group' \in [Attempt -> Group] /\ harmed' \in BOOLEAN
    BY <2>1, <2>2, SignalLessens DEF TypeOK, Lessens, processes
  <2>4. task' \in Task /\ signaled' \in BOOLEAN
    BY DEF TypeOK, Task, Attached, Idle
  <2> QED
    BY <2>1, <2>2, <2>3, <2>4 DEF TypeOK
<1>2. Counted'
  BY SignalLessens DEF TypeOK, Counted, Attempt, Idle, Attached, Lessens
<1>3. Maps'
  BY SignalLessens DEF TypeOK, Counted, Maps, Attempt, Knows, Honest, Idle, Attached, Alive,
     Lessens
<1>4. Signals'
  BY SignalLessens DEF TypeOK, Counted, Signals, Attempt, Attached, Idle, Lessens
<1>5. Completing'
  BY SignalLessens DEF TypeOK, Counted, Completing, Attempt, Alive, Idle, Attached, Lessens
<1>6. Cleared'
  BY SignalLessens DEF TypeOK, Counted, Cleared, Attempt, Clear, Active, Idle, Attached,
     Alive, Lessens
<1>7. Stillness'
  BY SignalLessens DEF TypeOK, Stillness, Attempt, Writing, Alive, Idle, Attached, Lessens
<1>8. Launching' /\ Stopping'
  BY SignalLessens DEF Launching, Launch, Lessens, Stopping
<1> QED
  BY <1>1, <1>2, <1>3, <1>4, <1>5, <1>6, <1>7, <1>8

LEMMA FinishedKeeps == IInv /\ Finished => IInv'
<1> SUFFICES ASSUME IInv, Finished PROVE IInv'
  OBVIOUS
<1> USE AttemptAssumption DEF IInv, Finished, Attached, record, Quiet, processes
<1>1. TypeOK'
  BY DEF TypeOK, Counted, Phase, Attempt, Status, Record, Group, Task, Stopper, Idle
<1>2. Counted' /\ Launching' /\ Maps' /\ Signals' /\ Stopping' /\ Completing' /\ Cleared' /\ Stillness'
  BY DEF Counted, Attempt, Launching, Launch, Maps, Knows, Honest, Alive, Signals, Stopping,
     Completing, Cleared, Clear, Active, Stillness, Writing
<1> QED
  BY <1>1, <1>2

LEMMA EventLostKeeps == IInv /\ EventLost => IInv'
<1> SUFFICES ASSUME IInv, EventLost PROVE IInv'
  OBVIOUS
<1> USE AttemptAssumption DEF IInv, EventLost, Attached, record, Quiet, processes
<1>1. TypeOK'
  BY DEF TypeOK, Counted, Phase, Attempt, Status, Record, Group, Task, Stopper, Idle
<1>2. Counted' /\ Launching' /\ Maps' /\ Signals' /\ Stopping' /\ Completing' /\ Cleared' /\ Stillness'
  BY DEF Counted, Attempt, Launching, Launch, Maps, Knows, Honest, Alive, Signals, Stopping,
     Completing, Cleared, Clear, Active, Stillness, Writing
<1> QED
  BY <1>1, <1>2

LEMMA CompleteKeeps == IInv /\ Complete => IInv'
<1> SUFFICES ASSUME IInv, Complete PROVE IInv'
  OBVIOUS
<1> USE AttemptAssumption DEF IInv, Complete, Quiet, processes
<1>1. TypeOK'
  BY DEF TypeOK, Counted, Phase, Attempt, Status, Record, Group, Task, Stopper, Idle,
     Attached
<1>2. Counted'
  BY DEF TypeOK, Counted, Idle, Attached
<1>3. Completing'
  BY DEF TypeOK, Completing, Alive, Idle, Attached
<1>4. Cleared'
  BY DEF TypeOK, Cleared, Clear, Active, Idle, Attached, Alive
<1>5. Launching' /\ Maps' /\ Signals' /\ Stopping' /\ Stillness'
  BY DEF Launching, Launch, Maps, Knows, Honest, Attempt, Alive, Signals, Attached,
     Stopping, Stillness, Writing
<1> QED
  BY <1>1, <1>2, <1>3, <1>4, <1>5

LEMMA EndKeeps == IInv /\ End => IInv'
<1> SUFFICES ASSUME IInv, End PROVE IInv'
  OBVIOUS
<1> USE AttemptAssumption DEF IInv, End, Alive, adapters, processes
<1>1. TypeOK'
  <2>1. count \in Attempt
    BY DEF TypeOK, Counted, Attempt
  <2>2. status' \in [Attempt -> Status] /\ phase' \in Phase
    BY DEF TypeOK, Status, Phase
  <2>3. unproved' \subseteq Attempt
    BY <2>1 DEF TypeOK
  <2>4. task' \in Task
    BY DEF TypeOK, Task, Attached, Idle
  <2> QED
    BY <2>1, <2>2, <2>3, <2>4 DEF TypeOK
<1>2. Counted'
  BY DEF TypeOK, Counted, Idle, Attached
<1>3. Completing'
  BY DEF TypeOK, Completing, Idle, Attached
<1>4. Cleared'
  BY DEF TypeOK, Cleared, Attempt, Clear, Active, Idle, Attached
<1>5. Launching' /\ Maps' /\ Signals' /\ Stopping' /\ Stillness'
  BY DEF Launching, Launch, Maps, Knows, Honest, Attempt, Signals, Attached, Stopping,
     Stillness, Writing
<1> QED
  BY <1>1, <1>2, <1>3, <1>4, <1>5

LEMMA ReconcileKeeps == IInv /\ Reconcile => IInv'
<1> SUFFICES ASSUME IInv, Reconcile PROVE IInv'
  OBVIOUS
<1> USE AttemptAssumption DEF IInv, Reconcile, Query, processes, Proved, Blocked,
     GroupExists, IdentityMatches
<1>1. count \in Attempt
  BY DEF Attempt, TypeOK, Counted
<1>2. Signal(count) \/ UNCHANGED processes
  OBVIOUS
<1>3. Lessens /\ harmed' \in BOOLEAN /\ (group[count] # "foreign" => harmed' = harmed)
  BY <1>1, <1>2, SignalLessens DEF TypeOK, Lessens, processes, Alive, Writing
<1>4. TypeOK'
  BY <1>1, <1>3, LoadOf DEF TypeOK, Counted, Phase, Attempt, Status, Record, Group, Task,
     Stopper, Idle, Attached, Lessens
<1>5. Maps'
  <2>1. Knows(file)' /\ Honest(file)' /\ Honest(mine)' /\ (Knows(mine) => Knows(mine)')
    BY <1>3 DEF Maps, Knows, Honest, Lessens
  <2>2. CASE theirs' = Load
    <3>1. Knows(theirs)' /\ Honest(theirs)'
      BY <1>3, <2>2, LoadOf DEF Maps, Knows, Honest, Lessens
    <3> QED
      BY <2>1, <3>1 DEF Maps, Knows, Honest
  <2>3. CASE theirs' = theirs /\ task' = "none"
    <3>1. Knows(theirs) /\ Honest(theirs) => Knows(theirs)' /\ Honest(theirs)'
      BY <1>3, <2>3 DEF Knows, Honest, Lessens
    <3> QED
      BY <2>1, <2>3, <3>1 DEF Maps
  <2> QED
    BY <2>2, <2>3
<1>6. Counted' /\ Launching' /\ Signals' /\ Stopping' /\ Completing' /\ Cleared' /\ Stillness'
  BY <1>1, <1>3, LoadOf DEF Counted, Attempt, Lessens, Launching, Launch, Signals, Attached,
     Stopping, Completing, Alive, Cleared, Clear, Active, Stillness, Writing
<1> QED
  BY <1>4, <1>5, <1>6

LEMMA ReconciledKeeps == IInv /\ Reconciled => IInv'
<1> SUFFICES ASSUME IInv, Reconciled PROVE IInv'
  OBVIOUS
<1> USE AttemptAssumption DEF IInv, Reconciled, Proved, Blocked, processes
<1>1. count \in Attempt /\ theirs \in [Attempt -> Record]
  BY DEF Attempt, TypeOK, Counted, Stopping
<1>2. /\ theirs' \in [Attempt -> Record]
      /\ \A a \in Attempt :
           /\ theirs'[a].pid = theirs[a].pid
           /\ a # count => theirs'[a].status = theirs[a].status
      /\ theirs'[count].status = IF GroupExists(count) THEN "UNKNOWN" ELSE "EXITED"
  BY <1>1, ConcludedOf
<1>3. TypeOK'
  BY <1>1, <1>2 DEF TypeOK, Counted, Phase, Attempt, Status, Record, Group, Task, Stopper,
     Idle, Attached, GroupExists
<1>4. Maps'
  <2>1. Knows(theirs) /\ Honest(theirs)
    BY DEF Maps
  <2>2. file' = theirs' /\ group' = group
    BY DEF processes
  <2>3. ASSUME NEW a \in Attempt
        PROVE  /\ group'[a] # "none" => theirs'[a].status # "none"
               /\ theirs'[a].status = "EXITED" => ~Alive(a)'
    <3>1. CASE a = count
      BY <1>2, <2>2, <3>1 DEF Alive, GroupExists
    <3>2. CASE a # count
      BY <1>2, <2>1, <2>2, <3>2 DEF Knows, Honest, Alive
    <3> QED
      BY <3>1, <3>2
  <2>4. Knows(theirs)' /\ Honest(theirs)' /\ Knows(file)' /\ Honest(file)'
    BY <2>2, <2>3 DEF Knows, Honest
  <2> QED
    BY <2>1, <2>2, <2>4 DEF Maps, Knows, Honest, Alive, Proved, Blocked
<1>5. Counted' /\ Launching' /\ Signals' /\ Stopping' /\ Completing' /\ Cleared' /\ Stillness'
  BY <1>1, <1>2 DEF Counted, Attempt, GroupExists, Launching, Launch, Signals, Attached,
     Stopping, Completing, Alive, Cleared, Clear, Active, Stillness, Writing
<1> QED
  BY <1>3, <1>4, <1>5

LEMMA CaptureKeeps == IInv /\ Capture => IInv'
<1> SUFFICES ASSUME IInv, Capture PROVE IInv'
  OBVIOUS
<1> USE AttemptAssumption DEF IInv, Capture, Quiet, processes
<1>1. TypeOK'
  BY DEF TypeOK, Counted, Phase, Attempt, Status, Record, Group, Task, Stopper, Idle,
     Attached
<1>2. Cleared'
  BY DEF Cleared, Completing, Clear, Active, Alive
<1>3. Counted' /\ Launching' /\ Maps' /\ Signals' /\ Stopping' /\ Completing' /\ Stillness'
  BY DEF Counted, Attempt, Launching, Launch, Maps, Knows, Honest, Alive, Signals, Attached,
     Stopping, Completing, Stillness, Writing
<1> QED
  BY <1>1, <1>2, <1>3

LEMMA RepairKeeps == IInv /\ Repair => IInv'
<1> SUFFICES ASSUME IInv, Repair PROVE IInv'
  OBVIOUS
<1> USE AttemptAssumption DEF IInv, Repair, Quiet, processes
<1>1. TypeOK'
  BY DEF TypeOK, Counted, Phase, Attempt, Status, Record, Group, Task, Stopper, Idle,
     Attached
<1>2. Counted' /\ Launching' /\ Maps' /\ Signals' /\ Stopping' /\ Completing' /\ Cleared' /\ Stillness'
  BY DEF Counted, Attempt, Launching, Launch, Maps, Knows, Honest, Alive, Signals, Attached,
     Stopping, Completing, Cleared, Clear, Active, Stillness, Writing
<1> QED
  BY <1>1, <1>2

LEMMA StopWorkerKeeps == IInv /\ StopWorker => IInv'
<1> SUFFICES ASSUME IInv, StopWorker PROVE IInv'
  OBVIOUS
<1> USE AttemptAssumption DEF IInv, StopWorker, Active, processes, Attached, Terminable,
     SignalOwn, record, IdentityMatches
<1>1. TypeOK'
  <2>1. (count > 0 /\ Signal(count)) \/ UNCHANGED processes
    OBVIOUS
  <2>2. group' \in [Attempt -> Group] /\ harmed' \in BOOLEAN
    BY <2>1, SignalLessens DEF TypeOK, Lessens, processes, Attempt
  <2>3. stopper' \in Stopper /\ signaled' \in BOOLEAN
    BY DEF TypeOK, Stopper
  <2> QED
    BY <2>1, <2>2, <2>3 DEF TypeOK
<1>2. Counted'
  BY SignalLessens DEF TypeOK, Counted, Attempt, Idle, Lessens
<1>3. Maps'
  BY SignalLessens DEF TypeOK, Maps, Attempt, Knows, Honest, Idle, Alive, Lessens
<1>4. Signals'
  BY SignalLessens DEF TypeOK, Signals, Attempt, Idle, Lessens
<1>5. Stopping'
  BY SignalLessens DEF TypeOK, Stopping, Idle, Lessens
<1>6. Completing'
  BY SignalLessens DEF TypeOK, Completing, Attempt, Alive, Idle, Lessens
<1>7. Cleared'
  BY SignalLessens DEF TypeOK, Cleared, Stopping, Completing, Launching, Attempt, Clear,
     Alive, Launch, Idle, Lessens
<1>8. Stillness'
  BY SignalLessens DEF TypeOK, Counted, Stillness, Stopping, Completing, Cleared, Launching,
     Phase, Attempt, Status, Record, Group, Task, Stopper, Writing, Alive, Clear, Launch,
     Idle, Lessens
<1>9. Launching'
  BY SignalLessens DEF Launching, Launch, Lessens
<1> QED
  BY <1>1, <1>2, <1>3, <1>4, <1>5, <1>6, <1>7, <1>8, <1>9

LEMMA StoppedOwnKeeps == IInv /\ StoppedOwn => IInv'
<1> SUFFICES ASSUME IInv, StoppedOwn PROVE IInv'
  OBVIOUS
<1> USE AttemptAssumption DEF IInv, StoppedOwn, record, adapters, processes
<1>1. TypeOK'
  BY DEF TypeOK, Counted, Phase, Attempt, Status, Record, Group, Task, Stopper, Idle,
     Attached
<1>2. Cleared'
  BY DEF Cleared, Maps, Stopping, Clear, Active, Knows, Honest, Alive
<1>3. Stillness'
  BY DEF TypeOK, Stillness, Maps, Stopping, Attempt, Writing, Alive, Knows, Honest, Idle,
     Attached
<1>4. Counted' /\ Launching' /\ Maps' /\ Signals' /\ Stopping' /\ Completing'
  BY DEF Counted, Attempt, Launching, Launch, Maps, Knows, Honest, Alive, Signals, Attached,
     Stopping, Completing
<1> QED
  BY <1>1, <1>2, <1>3, <1>4

LEMMA StopPersistedKeeps == IInv /\ StopPersisted => IInv'
<1> SUFFICES ASSUME IInv, StopPersisted PROVE IInv'
  OBVIOUS
<1> USE AttemptAssumption DEF IInv, StopPersisted, Query, Answer, processes, record,
     GroupExists, IdentityMatches
<1>1. count \in Attempt
  BY DEF Attempt, TypeOK, Counted, Stopping
<1>2. Signal(count) \/ UNCHANGED processes
  OBVIOUS
<1>3. Lessens /\ harmed' \in BOOLEAN /\ (group[count] # "foreign" => harmed' = harmed)
  BY <1>1, <1>2, SignalLessens DEF TypeOK, Lessens, processes, Alive, Writing
<1>4. TypeOK'
  BY <1>1, <1>3, LoadOf DEF TypeOK, Counted, Phase, Attempt, Status, Record, Group, Task,
     Stopper, Idle, Attached, Lessens
<1>5. Maps'
  BY <1>1, <1>3, LoadOf DEF Maps, Stopping, Knows, Honest, Alive, Lessens
<1>6. Cleared'
  BY <1>1, <1>3, LoadOf DEF Cleared, Stopping, Maps, Completing, Clear, Active, Knows,
     Honest, Alive, Lessens
<1>7. Stillness'
  BY <1>1, <1>3, LoadOf DEF Stillness, Stopping, Maps, Completing, Writing, Alive, Knows,
     Honest, Lessens
<1>8. Counted' /\ Launching' /\ Signals' /\ Stopping' /\ Completing'
  BY <1>1, <1>3, LoadOf DEF Counted, Attempt, Lessens, Launching, Launch, Signals, Attached,
     Stopping, Completing, Alive
<1> QED
  BY <1>4, <1>5, <1>6, <1>7, <1>8

LEMMA StoppedPersistedKeeps == IInv /\ StoppedPersisted => IInv'
<1> SUFFICES ASSUME IInv, StoppedPersisted PROVE IInv'
  OBVIOUS
<1> USE AttemptAssumption DEF IInv, StoppedPersisted, record, processes
<1>1. count \in Attempt /\ theirs \in [Attempt -> Record]
  BY DEF Attempt, TypeOK, Counted, Stopping
<1>2. /\ theirs' \in [Attempt -> Record]
      /\ \A a \in Attempt :
           /\ theirs'[a].pid = theirs[a].pid
           /\ a # count => theirs'[a].status = theirs[a].status
      /\ theirs'[count].status = IF GroupExists(count) THEN "UNKNOWN" ELSE "EXITED"
  BY <1>1, ConcludedOf
<1>3. TypeOK'
  BY <1>1, <1>2 DEF TypeOK, Counted, Phase, Attempt, Status, Record, Group, Task, Stopper,
     Idle, Attached, GroupExists
<1>4. Launching'
  BY <1>1, <1>2 DEF Launching, Stopping, Launch, GroupExists
<1>5. Maps'
  <2>1. Knows(theirs) /\ Honest(theirs)
    BY DEF Maps
  <2>2. file' = theirs' /\ group' = group
    BY DEF processes
  <2>3. ASSUME NEW a \in Attempt
        PROVE  /\ group'[a] # "none" => theirs'[a].status # "none"
               /\ theirs'[a].status = "EXITED" => ~Alive(a)'
    <3>1. CASE a = count
      BY <1>2, <2>2, <3>1 DEF Alive, GroupExists
    <3>2. CASE a # count
      BY <1>2, <2>1, <2>2, <3>2 DEF Knows, Honest, Alive
    <3> QED
      BY <3>1, <3>2
  <2>4. Knows(theirs)' /\ Honest(theirs)' /\ Knows(file)' /\ Honest(file)'
    BY <2>2, <2>3 DEF Knows, Honest
  <2> QED
    BY <2>1, <2>2, <2>4 DEF Maps, Knows, Honest, Alive
<1>6. Completing'
  BY <1>1, <1>2 DEF Completing, Stopping, Alive, GroupExists
<1>7. Cleared'
  BY <1>1, <1>2 DEF Cleared, Stopping, Clear, Active, Alive, GroupExists
<1>8. Stillness'
  BY <1>1, <1>2 DEF Stillness, Stopping, Writing, Alive, GroupExists
<1>9. Counted' /\ Signals' /\ Stopping'
  BY <1>1, <1>2 DEF Counted, Attempt, GroupExists, Signals, Attached, Stopping
<1> QED
  BY <1>3, <1>4, <1>5, <1>6, <1>7, <1>8, <1>9

LEMMA DecideKeeps == IInv /\ Decide => IInv'
<1> SUFFICES ASSUME IInv, Decide PROVE IInv'
  OBVIOUS
<1> USE AttemptAssumption DEF IInv, Decide, Ended, adapters, processes, Attempt, Active
<1>1. TypeOK'
  BY DEF TypeOK, Counted, Phase, Status, Record, Group, Task, Stopper, Idle, Attached
<1>2. Launching'
  BY DEF TypeOK, Counted, Launching, Stopping, Launch, Idle, Attached
<1>3. Completing'
  BY DEF TypeOK, Completing, Alive, Idle, Attached
<1>4. Cleared'
  BY DEF TypeOK, Counted, Cleared, Stopping, Completing, Clear, Alive, Idle, Attached
<1>5. Counted' /\ Maps' /\ Signals' /\ Stopping' /\ Stillness'
  BY DEF Counted, Maps, Knows, Honest, Alive, Signals, Attached, Stopping, Stillness,
     Writing
<1> QED
  BY <1>1, <1>2, <1>3, <1>4, <1>5

LEMMA ConcludeOwnKeeps == IInv /\ ConcludeOwn => IInv'
<1> SUFFICES ASSUME IInv, ConcludeOwn PROVE IInv'
  OBVIOUS
<1> USE AttemptAssumption DEF IInv, ConcludeOwn, record, processes
<1>1. count \in Attempt /\ mine \in [Attempt -> Record]
  BY DEF Attempt, TypeOK, Counted
<1>2. /\ mine' \in [Attempt -> Record]
      /\ \A a \in Attempt :
           /\ mine'[a].pid = mine[a].pid
           /\ a # count => mine'[a].status = mine[a].status
      /\ mine'[count].status = IF GroupExists(count) THEN "UNKNOWN" ELSE "EXITED"
  BY <1>1, ConcludedOf
<1>3. TypeOK'
  BY <1>1, <1>2 DEF TypeOK, Counted, Phase, Attempt, Status, Record, Group, Task, Stopper,
     Idle, Attached, GroupExists
<1>4. Maps'
  <2>1. Knows(mine) /\ Honest(mine)
    BY DEF Maps
  <2>2. file' = mine' /\ group' = group
    BY DEF processes
  <2>3. ASSUME NEW a \in Attempt
        PROVE  /\ group'[a] # "none" => mine'[a].status # "none"
               /\ mine'[a].status = "EXITED" => ~Alive(a)'
    <3>1. CASE a = count
      BY <1>2, <2>2, <3>1 DEF Alive, GroupExists
    <3>2. CASE a # count
      BY <1>2, <2>1, <2>2, <3>2 DEF Knows, Honest, Alive
    <3> QED
      BY <3>1, <3>2
  <2>4. Knows(mine)' /\ Honest(mine)' /\ Knows(file)' /\ Honest(file)'
    BY <2>2, <2>3 DEF Knows, Honest
  <2> QED
    BY <2>1, <2>2, <2>4 DEF Maps, Knows, Honest, Alive, Proved, Blocked
<1>5. Counted' /\ Launching' /\ Signals' /\ Stopping' /\ Completing' /\ Cleared' /\ Stillness'
  BY <1>1, <1>2 DEF Counted, Attempt, GroupExists, Launching, Launch, Signals, Attached,
     Stopping, Completing, Alive, Cleared, Clear, Active, Stillness, Writing
<1> QED
  BY <1>3, <1>4, <1>5

LEMMA TimeOutKeeps == IInv /\ TimeOut => IInv'
<1> SUFFICES ASSUME IInv, TimeOut PROVE IInv'
  OBVIOUS
<1> USE AttemptAssumption DEF IInv, TimeOut, SignalOwn, record, daemon, Terminable,
     IdentityMatches
<1>1. TypeOK'
  BY SignalLessens DEF TypeOK, Counted, Phase, Attempt, Status, Record, Group, Task,
     Stopper, Idle, Attached, Lessens
<1>2. Counted'
  BY SignalLessens DEF TypeOK, Counted, Attempt, Idle, Attached, Lessens
<1>3. Launching'
  BY SignalLessens DEF TypeOK, Launching, Attempt, Launch, Idle, Attached, Lessens
<1>4. Maps'
  BY SignalLessens DEF TypeOK, Maps, Attempt, Knows, Honest, Idle, Attached, Alive, Lessens
<1>5. Signals'
  BY SignalLessens DEF TypeOK, Signals, Attempt, Attached, Idle, Lessens
<1>6. Completing'
  BY SignalLessens DEF TypeOK, Completing, Attempt, Alive, Idle, Attached, Lessens
<1>7. Cleared'
  BY SignalLessens DEF TypeOK, Cleared, Attempt, Clear, Active, Idle, Attached, Alive,
     Lessens
<1>8. Stillness'
  BY SignalLessens DEF TypeOK, Stillness, Attempt, Writing, Alive, Idle, Attached, Lessens
<1>9. Stopping'
  BY SignalLessens DEF Stopping, Lessens
<1> QED
  BY <1>1, <1>2, <1>3, <1>4, <1>5, <1>6, <1>7, <1>8, <1>9

LEMMA ExitedKeeps == IInv /\ Exited => IInv'
<1> SUFFICES ASSUME IInv, Exited PROVE IInv'
  OBVIOUS
<1> USE AttemptAssumption DEF IInv, Exited, record, processes, daemon
<1>1. count \in Attempt /\ mine \in [Attempt -> Record]
  BY DEF Attempt, TypeOK, Counted
<1>2. /\ mine' \in [Attempt -> Record]
      /\ \A a \in Attempt :
           /\ mine'[a].pid = mine[a].pid
           /\ a # count => mine'[a].status = mine[a].status
      /\ mine'[count].status = IF GroupExists(count) THEN "UNKNOWN" ELSE "EXITED"
  BY <1>1, ConcludedOf
<1>3. TypeOK'
  BY <1>1, <1>2 DEF TypeOK, Counted, Phase, Attempt, Status, Record, Group, Task, Stopper,
     Idle, Attached, GroupExists
<1>4. Maps'
  <2>1. Knows(mine) /\ Honest(mine)
    BY DEF Maps, TypeOK, Attempt, Counted
  <2>2. file' = mine' /\ group' = group
    BY DEF processes
  <2>3. ASSUME NEW a \in Attempt
        PROVE  /\ group'[a] # "none" => mine'[a].status # "none"
               /\ mine'[a].status = "EXITED" => ~Alive(a)'
    <3>1. CASE a = count
      BY <1>2, <2>2, <3>1 DEF Alive, GroupExists
    <3>2. CASE a # count
      BY <1>2, <2>1, <2>2, <3>2 DEF Knows, Honest, Alive
    <3> QED
      BY <3>1, <3>2
  <2>4. Knows(mine)' /\ Honest(mine)' /\ Knows(file)' /\ Honest(file)'
    BY <2>2, <2>3 DEF Knows, Honest
  <2> QED
    BY <2>1, <2>2, <2>4 DEF Maps, Knows, Honest, Alive
<1>5. Counted' /\ Launching' /\ Signals' /\ Stopping' /\ Completing' /\ Cleared' /\ Stillness'
  BY <1>1, <1>2 DEF Counted, Attempt, GroupExists, Launching, Launch, Signals, Attached,
     Stopping, Completing, Alive, Cleared, Clear, Active, Stillness, Writing
<1> QED
  BY <1>3, <1>4, <1>5

LEMMA StageFailsKeeps == IInv /\ StageFails => IInv'
<1> SUFFICES ASSUME IInv, StageFails PROVE IInv'
  OBVIOUS
<1> USE AttemptAssumption DEF IInv, StageFails, Idle, Quiet, processes
<1>1. TypeOK'
  BY DEF TypeOK, Counted, Phase, Attempt, Status, Record, Group, Task, Stopper, Attached
<1>2. Counted' /\ Launching' /\ Maps' /\ Signals' /\ Stopping' /\ Completing' /\ Cleared' /\ Stillness'
  BY DEF Counted, Attempt, Launching, Launch, Maps, Knows, Honest, Alive, Signals, Attached,
     Stopping, Completing, Cleared, Clear, Active, Stillness, Writing
<1> QED
  BY <1>1, <1>2

LEMMA CancelKeeps == IInv /\ Cancel => IInv'
<1> SUFFICES ASSUME IInv, Cancel PROVE IInv'
  OBVIOUS
<1> USE AttemptAssumption DEF IInv, Cancel, adapters, processes
<1>1. TypeOK'
  BY DEF TypeOK, Counted, Phase, Attempt, Status, Record, Group, Task, Stopper, Idle,
     Attached
<1>2. Counted' /\ Launching' /\ Maps' /\ Signals' /\ Stopping' /\ Completing' /\ Cleared' /\ Stillness'
  BY DEF Counted, Attempt, Launching, Launch, Maps, Knows, Honest, Alive, Signals, Attached,
     Stopping, Completing, Cleared, Clear, Active, Stillness, Writing
<1> QED
  BY <1>1, <1>2

LEMMA ResumeKeeps == IInv /\ Resume => IInv'
<1> SUFFICES ASSUME IInv, Resume PROVE IInv'
  OBVIOUS
<1> USE AttemptAssumption DEF IInv, Resume, Quiet, processes
<1>1. TypeOK'
  BY DEF TypeOK, Counted, Phase, Attempt, Status, Record, Group, Task, Stopper, Idle,
     Attached
<1>2. Counted' /\ Launching' /\ Maps' /\ Signals' /\ Stopping' /\ Completing' /\ Cleared' /\ Stillness'
  BY DEF Counted, Attempt, Launching, Launch, Maps, Knows, Honest, Alive, Signals, Attached,
     Stopping, Completing, Cleared, Clear, Active, Stillness, Writing
<1> QED
  BY <1>1, <1>2

LEMMA CrashKeeps == IInv /\ Crash => IInv'
<1> SUFFICES ASSUME IInv, Crash PROVE IInv'
  OBVIOUS
<1> USE AttemptAssumption DEF IInv, Crash, Nothing, record, processes, Attempt
<1>1. TypeOK'
  BY DEF TypeOK, Counted, Phase, Status, Record, Group, Task, Stopper, Idle, Attached
<1>2. Signals'
  BY DEF TypeOK, Signals, Attached, Idle
<1>3. Counted' /\ Launching' /\ Maps' /\ Stopping' /\ Completing' /\ Cleared' /\ Stillness'
  BY DEF Counted, Launching, Launch, Maps, Knows, Honest, Alive, Stopping, Completing,
     Cleared, Clear, Active, Stillness, Writing
<1> QED
  BY <1>1, <1>2, <1>3

LEMMA BootKeeps == IInv /\ Boot => IInv'
<1> SUFFICES ASSUME IInv, Boot PROVE IInv'
  OBVIOUS
<1> USE AttemptAssumption DEF IInv, Boot, Active, record, adapters, processes
<1>1. TypeOK'
  BY DEF TypeOK, Counted, Phase, Attempt, Status, Record, Group, Task, Stopper, Idle,
     Attached
<1>2. Counted'
  BY DEF Counted, Completing, Stopping, Alive
<1>3. Cleared'
  BY DEF TypeOK, Counted, Cleared, Stopping, Completing, Phase, Attempt, Status, Record,
     Group, Task, Stopper, Clear, Alive, Idle, Attached
<1>4. Stillness'
  BY DEF TypeOK, Counted, Stillness, Stopping, Cleared, Completing, Phase, Attempt, Status,
     Record, Group, Task, Stopper, Writing, Alive, Clear, Idle, Attached
<1>5. Launching' /\ Maps' /\ Signals' /\ Stopping' /\ Completing'
  BY DEF Launching, Launch, Maps, Knows, Honest, Attempt, Alive, Signals, Attached,
     Stopping, Completing
<1> QED
  BY <1>1, <1>2, <1>3, <1>4, <1>5

LEMMA DiesKeeps == IInv /\ Dies => IInv'
<1> SUFFICES ASSUME IInv, Dies PROVE IInv'
  OBVIOUS
<1> USE AttemptAssumption DEF IInv, Dies, Attempt, Alive, record, adapters, daemon
<1>1. TypeOK'
  BY DEF TypeOK, Counted, Phase, Status, Record, Group, Task, Stopper, Idle, Attached
<1>2. Counted'
  BY DEF TypeOK, Counted, Idle, Attached
<1>3. Launching'
  BY DEF TypeOK, Counted, Launching, Launch, Idle, Attached
<1>4. Maps'
  BY DEF TypeOK, Maps, Knows, Honest, Idle, Attached
<1>5. Signals'
  BY DEF TypeOK, Counted, Signals, Attached, Idle
<1>6. Completing'
  BY DEF TypeOK, Counted, Completing, Idle, Attached
<1>7. Cleared'
  BY DEF TypeOK, Cleared, Clear, Active, Idle, Attached
<1>8. Stillness'
  BY DEF TypeOK, Stillness, Writing, Idle, Attached
<1>9. Stopping'
  BY DEF Stopping
<1> QED
  BY <1>1, <1>2, <1>3, <1>4, <1>5, <1>6, <1>7, <1>8, <1>9

LEMMA ReuseKeeps == IInv /\ Reuse => IInv'
<1> SUFFICES ASSUME IInv, Reuse PROVE IInv'
  OBVIOUS
<1> USE AttemptAssumption DEF IInv, Reuse, Attached, Attempt, record, adapters, daemon
<1>1. TypeOK'
  <2>1. group' \in [Attempt -> Group]
    BY DEF TypeOK, Group
  <2> QED
    BY <2>1 DEF TypeOK
<1>2. Counted'
  BY DEF TypeOK, Counted, Idle
<1>3. Launching'
  BY DEF TypeOK, Counted, Launching, Launch, Idle
<1>4. Maps'
  BY DEF TypeOK, Maps, Knows, Honest, Idle, Alive
<1>5. Completing'
  BY DEF TypeOK, Completing, Alive, Idle
<1>6. Cleared'
  BY DEF TypeOK, Cleared, Clear, Active, Idle, Alive
<1>7. Stillness'
  BY DEF TypeOK, Stillness, Writing, Alive, Idle
<1>8. Signals' /\ Stopping'
  BY DEF Signals, Stopping
<1> QED
  BY <1>1, <1>2, <1>3, <1>4, <1>5, <1>6, <1>7, <1>8

LEMMA StepInvariant == IInv /\ [Next]_vars => IInv'
<1> SUFFICES ASSUME IInv, [Next]_vars PROVE IInv'
  OBVIOUS
<1>1. CASE Worker
  BY <1>1, PrepareKeeps, BeginAttemptKeeps, ConstructKeeps, SpawnRefusedKeeps,
     RegisterKeeps, SpawnKeeps, IdentifyKeeps, StartedKeeps, PromptKeeps, FinishKeeps,
     FinishedKeeps, EventLostKeeps, CompleteKeeps, EndKeeps, ReconcileKeeps,
     ReconciledKeeps, CaptureKeeps, RepairKeeps DEF Worker
<1>2. CASE Stop
  BY <1>2, StopWorkerKeeps, StoppedOwnKeeps, StopPersistedKeeps, StoppedPersistedKeeps,
     DecideKeeps DEF Stop
<1>3. CASE Others
  BY <1>3, ConcludeOwnKeeps, TimeOutKeeps, ExitedKeeps, StageFailsKeeps, CancelKeeps,
     ResumeKeeps, CrashKeeps, BootKeeps, DiesKeeps, ReuseKeeps DEF Others
<1>4. CASE UNCHANGED vars
  <2> USE <1>4 DEF IInv, vars, record, adapters, processes, daemon
  <2>1. TypeOK' /\ Counted' /\ Launching' /\ Maps'
    BY DEF TypeOK, Counted, Launching, Maps, Knows, Honest, Alive
  <2>2. Signals' /\ Stopping' /\ Completing' /\ Cleared' /\ Stillness'
    BY DEF Signals, Stopping, Completing, Cleared, Clear, Active, Stillness, Alive, Writing
  <2> QED
    BY <2>1, <2>2
<1> QED
  BY <1>1, <1>2, <1>3, <1>4 DEF Next

-----------------------------------------------------------------------------
(* What follows *)

THEOREM Invariance == Spec => []IInv
  BY InitInvariant, StepInvariant, PTL DEF Spec

\* The run's record, the registry and the maps of the adapters keep their types.
THEOREM TypeCorrect == Spec => []TypeOK
<1>1. IInv => TypeOK
  BY DEF IInv
<1> QED
  BY <1>1, Invariance, PTL

\* However often pids come round again, terminate() signals no group but the worker's.
THEOREM SignalsOwnOnly == Spec => []NoForeignSignal
<1>1. IInv => NoForeignSignal
  BY DEF IInv, Signals, NoForeignSignal
<1> QED
  BY <1>1, Invariance, PTL

\* No adapter, crash or restart makes pi-containments.json forget a process that lives.
THEOREM RegistryIsComplete == Spec => []RegistryRemembers
<1>1. IInv => RegistryRemembers
  BY DEF IInv, Maps, Knows, Alive, RegistryRemembers
<1> QED
  BY <1>1, Invariance, PTL

\* Two workers never share the workspace, unless one outlived the end of its attempt.
THEOREM OneWriterAtATime == Spec => []OneWriter
<1>1. IInv => OneWriter
  BY AttemptAssumption DEF IInv, TypeOK, Attempt, Counted, Cleared, Clear, OneWriter
<1> QED
  BY <1>1, Invariance, PTL

\* The candidate is taken of a workspace in which nobody writes any more.
THEOREM CompletedAttemptsAreGone == Spec => []CompletedIsGone
<1>1. IInv => CompletedIsGone
  BY DEF IInv, Completing, CompletedIsGone
<1> QED
  BY <1>1, Invariance, PTL

\* CANCELED is committed only of a run whose workers are still.
THEOREM CanceledRunsAreStill == Spec => []CanceledIsStill
<1>1. IInv => CanceledIsStill
  <2> SUFFICES ASSUME IInv, phase = "canceled", NEW a \in Attempt, Writing(a)
               PROVE  a \in unproved
    BY DEF CanceledIsStill
  <2>1. CASE a > count
    BY <2>1 DEF IInv, Counted, Writing
  <2>2. CASE a = count
    BY <2>2 DEF IInv, Stillness, Attempt
  <2>3. CASE a < count
    BY <2>3 DEF IInv, Cleared, Clear, Alive, Writing
  <2> QED
    BY <2>1, <2>2, <2>3 DEF IInv, TypeOK, Attempt
<1> QED
  BY <1>1, Invariance, PTL
=============================================================================
