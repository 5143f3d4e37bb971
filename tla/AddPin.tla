------------------------------- MODULE AddPin -------------------------------
(***************************************************************************)
(* POST /pins/{cid}: the AddPin lambda (api/basic/add-pin.ts), one process *)
(* per request. Each await of the handler on DynamoDB or SQS ends a step:  *)
(*                                                                         *)
(*   idle --Put--> send --SendMessage--> wait --GetItem--> added           *)
(*     \--Put refused--> get --GetItem--> existing                         *)
(*                         \--failed--> requeue --Update--> send           *)
(*                                                                         *)
(* and "error" is an answer of 400, 401 or 500, or no answer at all.       *)
(***************************************************************************)
EXTENDS PinTable, PinQueue

VARIABLES
  request,   \* request -> how far its handler is
  response   \* request -> the delegates of its answer

requestVars == <<request, response>>

Answered == {"existing", "added", "error"}
RequestState == {"idle", "get", "requeue", "send", "wait"} \cup Answered

RequestTypeOK ==
  /\ request \in [Requests -> RequestState]
  /\ response \in [Requests -> SUBSET Workers]

RequestInit ==
  /\ request = [r \in Requests |-> "idle"]
  /\ response = [r \in Requests |-> {}]

-----------------------------------------------------------------------------
Step(r, from, to) ==
  /\ request[r] = from
  /\ request' = [request EXCEPT ![r] = to]
  /\ UNCHANGED response

Answer(r, from, to, delegates) ==
  /\ request[r] = from
  /\ request' = [request EXCEPT ![r] = to]
  /\ response' = [response EXCEPT ![r] = delegates]

\* Not authorised, no configuration, or no valid cid: nothing is touched.
RefuseRequest(r) ==
  /\ Step(r, "idle", "error")
  /\ UNCHANGED <<tableVars, queueVars>>

\* Mutation: the put is not awaited, and fails.
SkipPut(r) ==
  /\ Step(r, "idle", "send")
  /\ UNCHANGED <<tableVars, queueVars>>

PutPin(r) ==
  /\ Step(r, "idle", "send")
  /\ PutIfAbsent(CidOf[r], r)
  /\ UNCHANGED queueVars

\* The put took effect but its answer is lost. Either the SDK gives up
\* (DYNAMO_SAVE_PIN), or it sends the put again and meets its own record.
PutPinUnacknowledged(r) ==
  /\ CanFail("put")
  /\ Step(r, "idle", "error") \/ Step(r, "idle", "get")
  /\ PutIfAbsent(CidOf[r], r)
  /\ UNCHANGED queueVars

\* ConditionalCheckFailedException.
FindPin(r) ==
  /\ Step(r, "idle", "get")
  /\ Exists(CidOf[r])
  /\ UNCHANGED <<tableVars, queueVars>>

\* getPin after a failed condition. A lagging read that finds no item makes
\* the handler throw on foundPin.status.
GetPin(r) ==
  /\ \E item \in Reads(CidOf[r]) :
       \/ item.status = "absent" /\ Step(r, "get", "error")
       \/ item.status = "failed" /\ Step(r, "get", "requeue")
       \/ /\ item.status \notin {"absent", "failed"}
          /\ Answer(r, "get", "existing", item.delegates)
  /\ UNCHANGED <<tableVars, queueVars>>

\* Mutation: shouldQueue is false for a re-queued pin.
RequeueWithoutMessage(r) ==
  /\ Step(r, "requeue", "existing")
  /\ UpdateFailedItem(CidOf[r], r)
  /\ UNCHANGED queueVars

RequeueFailed(r) ==
  /\ Step(r, "requeue", "send")
  /\ UpdateFailedItem(CidOf[r], r)
  /\ UNCHANGED queueVars

\* The update took effect but its answer is lost: sent again, it fails.
RequeueUnacknowledged(r) ==
  /\ CanFail("api")
  /\ Step(r, "requeue", "error")
  /\ UpdateFailedItem(CidOf[r], r)
  /\ UNCHANGED queueVars

\* Another request re-queued the pin since this one read it.
RequeueRefused(r) ==
  /\ Step(r, "requeue", "error")
  /\ table[CidOf[r]].status # "failed"
  /\ UNCHANGED <<tableVars, queueVars>>

\* Mutation: sendMessage is not awaited, and fails.
SendNothing(r) ==
  /\ Step(r, "send", "wait")
  /\ UNCHANGED <<tableVars, queueVars>>

AddToQueue(r) ==
  /\ Step(r, "send", "wait")
  /\ Send(r)
  /\ UNCHANGED tableVars

\* SQS took the message but the handler never learns it (SQS_SEND).
AddToQueueUnacknowledged(r) ==
  /\ CanFail("api")
  /\ Step(r, "send", "error")
  /\ Send(r)
  /\ UNCHANGED tableVars

\* SQS took the message, its answer was lost, and the SDK sent it again. The
\* second copy goes by the name of a request q that is then never made.
AddToQueueTwice(r, q) ==
  /\ CanFail("resend")
  /\ q # r /\ request[q] = "idle" /\ CidOf[q] = CidOf[r]
  /\ request[r] = "send"
  /\ request' = [request EXCEPT ![r] = "wait", ![q] = "error"]
  /\ queue' = [queue EXCEPT ![r] = "visible", ![q] = "visible"]
  /\ UNCHANGED <<tableVars, receives, response>>

\* findDelegates reads the record until it has delegates.
FindDelegates(r) ==
  /\ \E item \in Reads(CidOf[r]) :
       /\ item.delegates # {}
       /\ Answer(r, "wait", "added", item.delegates)
  /\ UNCHANGED <<tableVars, queueVars>>

\* Five reads without delegates: the answer is the pin as it was created.
GiveUpOnDelegates(r) ==
  /\ Answer(r, "wait", "added", {})
  /\ UNCHANGED <<tableVars, queueVars>>

\* A call fails without effect, or the lambda is killed at its timeout.
RequestFails(r) ==
  /\ CanFail("api")
  /\ \E from \in RequestState \ Answered : Step(r, from, "error")
  /\ UNCHANGED <<tableVars, queueVars>>

AddPinNext(r) ==
  \/ RefuseRequest(r)
  \/ PutPin(r)
  \/ PutPinUnacknowledged(r)
  \/ FindPin(r)
  \/ GetPin(r)
  \/ RequeueFailed(r)
  \/ RequeueUnacknowledged(r)
  \/ RequeueRefused(r)
  \/ AddToQueue(r)
  \/ AddToQueueUnacknowledged(r)
  \/ \E q \in Requests : AddToQueueTwice(r, q)
  \/ FindDelegates(r)
  \/ GiveUpOnDelegates(r)
  \/ RequestFails(r)
=============================================================================
