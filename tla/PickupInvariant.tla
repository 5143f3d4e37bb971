-------------------------- MODULE PickupInvariant --------------------------
(***************************************************************************)
(* The inductive invariant behind the safety properties of Pickup. None of *)
(* them is inductive by itself: that a queued pin is owned depends on what *)
(* every process that may still delete a message has already written. The  *)
(* invariant has a part on the records and their messages, one on each     *)
(* job of a worker, and one on each batch of the dead letter lambda.       *)
(***************************************************************************)
EXTENDS Pickup

\* A request has sent no message before it gets to AddToQueue.
EarlyRequestIsUnsent ==
  \A r \in Requests :
    request[r] \in {"idle", "get", "requeue", "send"} => queue[r] = "unsent"

\* A request re-queues or sends only what has a record.
LateRequestHasRecord ==
  \A r \in Requests :
    request[r] \in {"get", "requeue", "send"} => HasStatus(CidOf[r])

Spent(r) == receives[r] = MaxReceiveCount

DeadIsSpent == \A r \in Requests : queue[r] = "dead" => Spent(r)

RecordInv ==
  /\ RecordBeforeMessage
  /\ QueuedIsOwned
  /\ EarlyRequestIsUnsent
  /\ LateRequestHasRecord
  /\ PinnedHasCar
  /\ FailedIsSpent
  /\ DeadIsSpent

-----------------------------------------------------------------------------
Sent(r) == r \in Requests /\ queue[r] # "unsent"

\* The pin the message of r is about still waits for r.
Waiting(r) ==
  table[CidOf[r]].status = "queued" /\ table[CidOf[r]].created = r

\* A handler deletes its message only after it settled the pin, fails only
\* what is too big, and pins only what it copied.
JobInv(s) ==
  /\ Busy(s) => Sent(job[s].message)
  /\ job[s].pc \in {"del", "drop"} => ~Waiting(job[s].message)
  /\ job[s].pc \in {"fail", "drop"} => JobCid(s) \notin Fits
  /\ job[s].pc = "pin" => destination[JobCid(s)] # "none"

\* The dead letter lambda only gets messages that are spent, and no pin
\* waits for one it has marked.
BatchInv(i) ==
  /\ \A r \in Records(i) : Sent(r) /\ Spent(r)
  /\ \A r \in batch[i].marked : ~Waiting(r)

IndInv ==
  /\ TypeOK
  /\ RecordInv
  /\ \A s \in Slots : JobInv(s)
  /\ \A i \in Invocations : BatchInv(i)

-----------------------------------------------------------------------------
(***************************************************************************)
(* What every step keeps, and a process can therefore rely on while others *)
(* act: a message that was sent stays sent, one that is spent stays spent, *)
(* a pin never waits again for a message it has ceased to wait for, and a  *)
(* CAR stays in the destination.                                           *)
(***************************************************************************)
NoRegress ==
  /\ \A r \in Requests : Sent(r) =>
       /\ Sent(r)'
       /\ Spent(r) => Spent(r)'
       /\ ~Waiting(r) => ~Waiting(r)'
  /\ \A c \in Cids : destination[c] # "none" => destination'[c] # "none"

NeverRegresses == [][NoRegress]_vars
=============================================================================
