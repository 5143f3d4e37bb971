------------------------------ MODULE PinQueue ------------------------------
(***************************************************************************)
(* The SQS pin queue and its dead letter queue, as the code in src/ uses   *)
(* them: a standard queue (no order between messages, at-least-once        *)
(* delivery) whose redrive policy moves a message that was received        *)
(* MaxReceiveCount times to the dead letter queue.                         *)
(*                                                                         *)
(* A receive hands out a receipt, modelled by the receive count it made.   *)
(* A call with an outdated receipt may or may not have its effect.         *)
(***************************************************************************)
EXTENDS PickupParameters

CONSTANT MaxReceiveCount   \* 3 in the deployed stack

ASSUME MaxReceiveCountType == MaxReceiveCount \in Nat \ {0}

VARIABLES
  queue,     \* request -> where its message is
  receives   \* request -> how often its message was received

queueVars == <<queue, receives>>

MessageState == {"unsent", "visible", "inflight", "dead", "gone"}

QueueTypeOK ==
  /\ queue \in [Requests -> MessageState]
  /\ receives \in [Requests -> 0 .. MaxReceiveCount]

QueueInit ==
  /\ queue = [r \in Requests |-> "unsent"]
  /\ receives = [r \in Requests |-> 0]

\* Somebody still has to deal with the message.
Live(r) == queue[r] \in {"visible", "inflight", "dead"}

-----------------------------------------------------------------------------
Move(r, state) ==
  /\ queue' = [queue EXCEPT ![r] = state]
  /\ UNCHANGED receives

Send(r) == Move(r, "visible")

\* Mutation: the redrive policy does not stop deliveries.
ReceiveForever(r) ==
  /\ queue[r] = "visible"
  /\ queue' = [queue EXCEPT ![r] = "inflight"]
  /\ receives' = [receives EXCEPT ![r] = @ + 1]

\* A poller receives the message and hides it from the others.
Receive(r) ==
  /\ queue[r] = "visible"
  /\ receives[r] < MaxReceiveCount
  /\ queue' = [queue EXCEPT ![r] = "inflight"]
  /\ receives' = [receives EXCEPT ![r] = @ + 1]

\* The redrive policy: no further delivery, to the dead letter queue instead.
Redrive(r) ==
  /\ queue[r] = "visible"
  /\ receives[r] = MaxReceiveCount
  /\ Move(r, "dead")

\* The visibility timeout of a received message ends.
Expire(r) ==
  /\ queue[r] = "inflight"
  /\ Move(r, "visible")

Current(r, receipt) == receipt = receives[r]

\* DeleteMessage removes the message although it is visible again; on a
\* message that has moved to the dead letter queue it has no effect.
Delete(r, receipt) ==
  \/ /\ queue[r] \in {"visible", "inflight"}
     /\ Move(r, "gone")
  \/ /\ Current(r, receipt) => queue[r] \notin {"visible", "inflight"}
     /\ UNCHANGED queueVars

\* ChangeMessageVisibility to 0. It only has an effect on a hidden message.
Release(r, receipt) ==
  \/ Expire(r)
  \/ /\ Current(r, receipt) => queue[r] # "inflight"
     /\ UNCHANGED queueVars
=============================================================================
