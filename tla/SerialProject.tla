--------------------------- MODULE SerialProject ---------------------------
(***************************************************************************)
(* What the state store and the mutation executor promise together: the    *)
(* project document goes through a sequence of whole transactions, each    *)
(* request identity is applied at most once, a fenced request is applied   *)
(* only for a task that has read the document since its epoch began, and   *)
(* an external effect is started at most once, after its own transaction.  *)
(***************************************************************************)
EXTENDS Naturals

CONSTANTS Daemon, Key, Request, NoRequest,
          KeyOf,            \* the requestId of a request
          EpochRequests,    \* requests that begin an epoch of the run
          FencedRequests,   \* requests that carry an expectedFence
          EffectRequests    \* requests that hand over to an external effect

VARIABLES version,      \* stateVersion of the document
          receipts,     \* Key -> the request whose receipt is stored
          epoch,        \* the epoch request applied last, or NoRequest
          basis,        \* the epoch in which the document was that each
                        \* daemon's running call is based on
          started       \* requests whose external effect was started

vars == <<version, receipts, epoch, basis, started>>

Init == /\ version = 0
        /\ receipts = [k \in Key |-> NoRequest]
        /\ epoch = NoRequest
        /\ basis = [d \in Daemon |-> NoRequest]
        /\ started = {}

\* A call of d is made for a task that has read the document in epoch e, the
\* present one or any before it.
Call(d, e) ==
    /\ e # NoRequest => e \in EpochRequests /\ receipts[KeyOf[e]] = e
    /\ basis' = [basis EXCEPT ![d] = e]
    /\ UNCHANGED <<version, receipts, epoch, started>>

Apply(d, r) ==
    /\ receipts[KeyOf[r]] = NoRequest
    /\ r \in FencedRequests => basis[d] = epoch
    /\ version' = version + 1
    /\ receipts' = [receipts EXCEPT ![KeyOf[r]] = r]
    /\ epoch' = IF r \in EpochRequests THEN r ELSE epoch
    /\ UNCHANGED <<basis, started>>

Start(r) ==
    /\ r \in EffectRequests
    /\ receipts[KeyOf[r]] = r
    /\ r \notin started
    /\ started' = started \cup {r}
    /\ UNCHANGED <<version, receipts, epoch, basis>>

Next ==
    \/ \E r \in Request : Start(r) \/ \E d \in Daemon : Apply(d, r)
    \/ \E d \in Daemon, e \in Request \cup {NoRequest} : Call(d, e)

Spec == Init /\ [][Next]_vars
=============================================================================
