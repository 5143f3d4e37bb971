------------------------------- MODULE Pickup -------------------------------
(***************************************************************************)
(* The whole of pickup: the AddPin lambdas, the workers, the dead letter   *)
(* lambda, and the table, the queues and the buckets they share.           *)
(***************************************************************************)
EXTENDS AddPin, MessageHandler, FailPin

vars == <<tableVars, queueVars, requestVars, handlerVars, batch>>

Init ==
  /\ TableInit
  /\ QueueInit
  /\ RequestInit
  /\ HandlerInit
  /\ BatchInit

-----------------------------------------------------------------------------
Held(r) == \E s \in Slots : Holds(s, r)

\* A message comes back when nobody holds it any more (its worker died, or
\* the release did not reach SQS), or while it is held, when that is a
\* failure the model allows.
LapseMessage(r) ==
  /\ Held(r) => CanFail("lapse")
  /\ Expire(r)
  /\ UNCHANGED tableVars

Api(r) ==
  /\ AddPinNext(r)
  /\ UNCHANGED <<handlerVars, batch>>

Worker(s) ==
  /\ HandlerNext(s) \/ \E r \in Requests : ReceiveMessage(s, r)
  /\ UNCHANGED <<requestVars, batch>>

WorkerCrash(w) ==
  /\ Crash(w)
  /\ UNCHANGED <<requestVars, batch>>

DeadLetters(i) ==
  /\ FailPinNext(i)
  /\ UNCHANGED <<requestVars, handlerVars>>

Sqs(r) ==
  /\ LapseMessage(r) \/ (Redrive(r) /\ UNCHANGED tableVars)
  /\ UNCHANGED <<requestVars, handlerVars, batch>>

Storage(c) ==
  \/ /\ Sync(c)
     /\ UNCHANGED <<queueVars, requestVars, handlerVars, batch>>
  \/ /\ ExpireCar(c)
     /\ UNCHANGED <<requestVars, batch>>

\* Every request is answered and every message is settled: the one state in
\* which the system may stop.
Quiescent ==
  /\ \A r \in Requests : request[r] \in Answered /\ ~Live(r)
  /\ \A s \in Slots : ~Busy(s)

Rest == Quiescent /\ UNCHANGED vars

Next ==
  \/ \E r \in Requests : Api(r) \/ Sqs(r)
  \/ \E s \in Slots : Worker(s)
  \/ \E w \in Workers : WorkerCrash(w)
  \/ \E i \in Invocations : DeadLetters(i)
  \/ \E c \in Cids : Storage(c)
  \/ Rest

Spec == Init /\ [][Next]_vars

(***************************************************************************)
(* What the platform keeps doing. A handler's awaits settle: the calls to  *)
(* AWS return or time out in the SDK, the fetch is bounded by its timers.  *)
(* SQS polls, redrives, and ends the visibility timeout of a message whose *)
(* holder is gone. A client is free never to call, so the first step of a  *)
(* request is not fair, and no failure is.                                 *)
(***************************************************************************)
Fairness ==
  /\ \A r \in Requests :
       /\ WF_vars(request[r] # "idle" /\ Api(r))
       /\ WF_vars(\E s \in Slots :
            ReceiveMessage(s, r) /\ UNCHANGED <<requestVars, batch>>)
       /\ WF_vars(~Held(r) /\ Sqs(r))
  /\ \A s \in Slots :
       WF_vars(HandlerNext(s) /\ UNCHANGED <<requestVars, batch>>)
  /\ \A i \in Invocations : WF_vars(DeadLetters(i))

FairSpec == Spec /\ Fairness

-----------------------------------------------------------------------------
TypeOK ==
  /\ TableTypeOK
  /\ QueueTypeOK
  /\ RequestTypeOK
  /\ HandlerTypeOK
  /\ BatchTypeOK

(***************************************************************************)
(* A message is only ever in the queue for a cid whose record has a        *)
(* status. addDelegates and both updatePinStatus are upserts: they would   *)
(* create a record without a status, or without a creation time, if a      *)
(* message could be handled before the API's put.                          *)
(***************************************************************************)
HasStatus(c) == table[c].status \in {"queued", "pinned", "failed"}

RecordBeforeMessage ==
  /\ \A r \in Requests : queue[r] # "unsent" => HasStatus(CidOf[r])
  /\ \A c \in Cids : Exists(c) => HasStatus(c) /\ table[c].created # NoRequest

(***************************************************************************)
(* A queued pin is somebody's work: the message of the request that queued *)
(* it last is still in the pin queue or in the dead letter queue, or that  *)
(* request is about to send it. There are two exceptions: a request that   *)
(* ended in an error between its write to DynamoDB and SendMessage; and    *)
(* one whose put was sent again and met its own record, which may then be  *)
(* answered with 200 although it sends nothing.                            *)
(***************************************************************************)
Abandoned(r) ==
  \/ CanFail("api") /\ request[r] = "error"
  \/ CanFail("put") /\ request[r] \in {"get", "requeue", "existing", "error"}

OwnedBy(c, r) ==
  /\ r \in RequestsFor(c)
  /\ \/ Live(r)
     \/ queue[r] = "unsent" /\ (request[r] = "send" \/ Abandoned(r))

QueuedIsOwned ==
  \A c \in Cids : table[c].status = "queued" => OwnedBy(c, table[c].created)

\* A pin is only marked as pinned once a CAR was copied to the destination.
PinnedHasCar ==
  \A c \in Cids : table[c].status = "pinned" => destination[c] # "none"

(***************************************************************************)
(* A pin only fails for one of the two reasons there are: its CAR is too   *)
(* big, or a message for it was received as often as the redrive policy    *)
(* allows.                                                                 *)
(***************************************************************************)
FailedIsSpent ==
  \A c \in Cids : table[c].status = "failed" =>
    \/ c \notin Fits
    \/ \E r \in RequestsFor(c) : receives[r] = MaxReceiveCount

(***************************************************************************)
(* A CAR that fits is fetched by one handler at a time, although nothing   *)
(* but the status in the record keeps two messages of a cid apart. It      *)
(* takes a message delivered to a second handler while the first holds it  *)
(* (lapse), or a dead message delivered again after its pin was re-queued  *)
(* (lambda), to break this.                                                *)
(***************************************************************************)
OneHandlerPerCar ==
  \A s, t \in Slots :
    Busy(s) /\ Busy(t) /\ JobCid(s) = JobCid(t) /\ JobCid(s) \in Fits => s = t

\* What is stored under the CID of the complete CAR is the complete CAR.
DestinationComplete == \A c \in Cids : destination[c] # "partial"

(***************************************************************************)
(* A client whose request was accepted, and whose pin is still queued, is  *)
(* not waiting for nothing: a message for its cid is in one of the queues, *)
(* or about to be sent.                                                    *)
(***************************************************************************)
AcceptedPinIsInProgress ==
  \A r \in Requests :
    request[r] \in {"existing", "added"} /\ table[CidOf[r]].status = "queued"
      => \E q \in RequestsFor(CidOf[r]) : request[q] = "send" \/ Live(q)

\* How much can still happen to a message that was received so often: it can
\* come out of hiding once for each receive, then it is redriven, and in the
\* end it is deleted.
EventsLeft(state, received) ==
  LET left == MaxReceiveCount - received IN
  CASE state = "unsent"   -> 2 * MaxReceiveCount + 3
    [] state = "visible"  -> 2 * left + 2
    [] state = "inflight" -> 2 * left + 3
    [] state = "dead"     -> 1
    [] state = "gone"     -> 0

(***************************************************************************)
(* Whatever happens to a message, a release, a crash, a lapse or a redrive *)
(* of it included, uses it up: no order of failures keeps a message going  *)
(* round for ever, and every round of it costs a receive.                  *)
(***************************************************************************)
MessagesWearOut ==
  [][ \A r \in Requests :
        queue'[r] # queue[r] \/ receives'[r] # receives[r] =>
          EventsLeft(queue'[r], receives'[r])
            \in 0 .. EventsLeft(queue[r], receives[r]) - 1 ]_vars

\* Every message is handled, or the dead letter lambda fails its pin.
MessagesAreSettled == \A r \in Requests : Live(r) ~> queue[r] = "gone"

-----------------------------------------------------------------------------
Lifecycle == INSTANCE PinLifecycle WITH
  status <- [c \in Cids |->
               IF Exists(c) THEN table[c].status ELSE "unknown"],
  stored <- [c \in Cids |-> destination[c] # "none"]

\* The system implements the life cycle of a pin a client may rely on ...
FollowsLifecycle == Lifecycle!Spec

\* ... and under its fairness it never forgets a queued pin.
KeepsLifecycle == Lifecycle!FairSpec
=============================================================================
