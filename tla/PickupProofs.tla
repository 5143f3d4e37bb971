---------------------------- MODULE PickupProofs ----------------------------
(***************************************************************************)
(* Proofs of the safety properties of Pickup, for any cids, requests,      *)
(* workers, slots and invocations, any redrive limit, and any faults.      *)
(*                                                                         *)
(* IndInv is shown to be inductive component by component. For each action *)
(* there are three things to show: it keeps RecordInv, it is a NoRegress   *)
(* step, and it keeps the invariant of the job or batch it changes. The    *)
(* frame lemmas JobKept and BatchKept turn NoRegress into the invariants   *)
(* of the jobs and batches it does not change.                             *)
(*                                                                         *)
(* From IndInv it also follows that a message is used up by all that       *)
(* happens to it: no message is sent twice, and each step of one counts.   *)
(***************************************************************************)
EXTENDS PickupInvariant, TLAPS

-----------------------------------------------------------------------------
(* The operations on the pin table *)

\* Writing an item for a cid keeps the table well typed.
LEMMA WriteType ==
  ASSUME TableTypeOK, NEW c \in Cids, NEW item \in Item, Write(c, item)
  PROVE  TableTypeOK'
BY DEF TableTypeOK, Write

\* So does putting or re-queueing a record ...
LEMMA EnqueueType ==
  ASSUME TableTypeOK, NEW c \in Cids, NEW r \in Requests,
         PutIfAbsent(c, r) \/ UpdateFailedItem(c, r)
  PROVE  TableTypeOK'
<1>1. NewPin(r) \in Item
  BY DEF NewPin, Item, Status
<1>2. [table[c] EXCEPT !.status = "queued", !.created = r] \in Item
  BY DEF TableTypeOK, Item, Status
<1> QED
  BY <1>1, <1>2, WriteType DEF PutIfAbsent, UpdateFailedItem

\* ... adding a worker's multiaddrs to it ...
LEMMA DelegatesType ==
  ASSUME TableTypeOK, NEW c \in Cids, NEW w \in Workers, AddDelegates(c, {w})
  PROVE  TableTypeOK'
<1>1. [table[c] EXCEPT !.delegates = @ \cup {w},
                       !.status = IF Exists(c) THEN @ ELSE "unset"] \in Item
  BY DEF TableTypeOK, Item, Status
<1> QED
  BY <1>1, WriteType DEF AddDelegates

\* ... and updating its status.
LEMMA StatusType ==
  ASSUME TableTypeOK, NEW c \in Cids, NEW st \in Status, UpdatePinStatus(c, st)
  PROVE  TableTypeOK'
<1>1. [table[c] EXCEPT !.status = st] \in Item
  BY DEF TableTypeOK, Item
<1> QED
  BY <1>1, WriteType DEF UpdatePinStatus

\* What a read answers is an item.
LEMMA ReadType ==
  ASSUME TableTypeOK, NEW c \in Cids, NEW item \in Reads(c)
  PROVE  item.delegates \in SUBSET Workers
BY DEF TableTypeOK, Reads, Item

\* Adding delegates to an existing record changes no status.
LEMMA DelegatesEffect ==
  ASSUME TableTypeOK, NEW c \in Cids, NEW w \in Workers, HasStatus(c),
         AddDelegates(c, {w})
  PROVE  \A d \in Cids : /\ table'[d].status = table[d].status
                         /\ table'[d].created = table[d].created
BY DEF TableTypeOK, Item, HasStatus, Exists, AddDelegates, Write

\* Updating the status of a record changes nothing but that status.
LEMMA StatusEffect ==
  ASSUME TableTypeOK, NEW c \in Cids, NEW st, UpdatePinStatus(c, st)
  PROVE  \A d \in Cids :
           /\ table'[d].status = IF d = c THEN st ELSE table[d].status
           /\ table'[d].created = table[d].created
BY DEF TableTypeOK, Item, UpdatePinStatus, Write

\* A record put or re-queued by r is queued, and r's.
LEMMA EnqueueEffect ==
  ASSUME TableTypeOK, NEW c \in Cids, NEW r \in Requests,
         PutIfAbsent(c, r) \/ UpdateFailedItem(c, r)
  PROVE  /\ table[c].status \in {"absent", "failed"}
         /\ \A d \in Cids :
              /\ table'[d].status = IF d = c THEN "queued" ELSE table[d].status
              /\ table'[d].created = IF d = c THEN r ELSE table[d].created
<1>1. CASE PutIfAbsent(c, r)
  BY <1>1 DEF TableTypeOK, Item, PutIfAbsent, NewPin, Exists, Write
<1>2. CASE UpdateFailedItem(c, r)
  BY <1>2 DEF TableTypeOK, Item, UpdateFailedItem, Write
<1> QED
  BY <1>1, <1>2

-----------------------------------------------------------------------------
(* The operations on the queue *)

\* Every call on the queue keeps it well typed.
LEMMA QueueStepType ==
  ASSUME QueueTypeOK, NEW r \in Requests, NEW n
  PROVE  /\ Send(r) => QueueTypeOK'
         /\ Receive(r) => QueueTypeOK'
         /\ Redrive(r) => QueueTypeOK'
         /\ Expire(r) => QueueTypeOK'
         /\ Delete(r, n) => QueueTypeOK'
         /\ Release(r, n) => QueueTypeOK'
BY MaxReceiveCountType
DEF QueueTypeOK, MessageState, Send, Receive, Redrive, Expire, Delete, Release,
    Move, queueVars

-----------------------------------------------------------------------------
(* The frame *)

\* A job that does not change keeps its invariant in a NoRegress step.
LEMMA JobKept ==
  ASSUME TypeOK, NoRegress, NEW s \in Slots, JobInv(s), job'[s] = job[s]
  PROVE  JobInv(s)'
<1>. CidOf \in [Requests -> Cids]
  BY CidOfType
<1>1. Busy(s)' = Busy(s) /\ JobCid(s)' = JobCid(s)
  BY DEF Busy, JobCid
<1>2. job[s].pc # "idle" => job[s].message \in Requests /\ Sent(job[s].message)
  BY DEF JobInv, Busy, Sent
<1> QED
  BY <1>1, <1>2 DEF JobInv, Busy, JobCid, NoRegress

\* So does a batch.
LEMMA BatchKept ==
  ASSUME TypeOK, NoRegress, NEW i \in Invocations, BatchInv(i),
         batch'[i] = batch[i]
  PROVE  BatchInv(i)'
<1>1. Records(i)' = Records(i)
  BY DEF Records
<1>2. \A r \in Records(i) : r \in Requests /\ Sent(r) /\ Spent(r)
  BY DEF BatchInv, Sent
<1>3. batch[i].marked \subseteq Records(i)
  BY DEF Records
<1>4. \A r \in Records(i)' : Sent(r)' /\ Spent(r)'
  BY <1>1, <1>2 DEF NoRegress
<1>5. \A r \in batch'[i].marked : ~Waiting(r)'
  BY <1>2, <1>3 DEF NoRegress, BatchInv
<1> QED
  BY <1>4, <1>5 DEF BatchInv

\* A step that changes no job and no batch has only RecordInv to keep.
LEMMA OthersKept ==
  ASSUME IndInv, TypeOK', RecordInv', NoRegress, UNCHANGED <<job, batch>>
  PROVE  IndInv'
<1>1. \A s \in Slots : JobInv(s)'
  BY JobKept DEF IndInv
<1>2. \A i \in Invocations : BatchInv(i)'
  BY BatchKept DEF IndInv
<1> QED
  BY <1>1, <1>2 DEF IndInv

\* A step that changes no status, message, or request, and loses no CAR,
\* keeps what is said of them.
LEMMA SharedKept ==
  ASSUME IndInv, UNCHANGED <<queue, receives, request>>,
         \A c \in Cids :
           /\ table'[c].status = table[c].status
           /\ table'[c].created = table[c].created
           /\ destination[c] # "none" => destination'[c] # "none"
  PROVE  RecordInv' /\ NoRegress
<1>. CidOf \in [Requests -> Cids]
  BY CidOfType
<1>1. RecordInv'
  BY DEF IndInv, RecordInv, RecordBeforeMessage, QueuedIsOwned, OwnedBy,
    Abandoned, EarlyRequestIsUnsent, LateRequestHasRecord, PinnedHasCar,
    FailedIsSpent, DeadIsSpent, HasStatus, Exists, Live, Spent
<1>2. NoRegress
  BY DEF NoRegress, Sent, Spent, Waiting
<1> QED
  BY <1>1, <1>2

-----------------------------------------------------------------------------
(* The AddPin lambda *)

\* A step of the lambda keeps the types.
LEMMA ApiType ==
  ASSUME TypeOK, NEW r \in Requests, Api(r)
  PROVE  TypeOK'
<1>. CidOf[r] \in Cids
  BY CidOfType
<1>. USE DEF TypeOK
<1>1. TableTypeOK'
  BY EnqueueType DEF Api, AddPinNext, RefuseRequest, PutPin,
    PutPinUnacknowledged, FindPin, GetPin, RequeueFailed,
    RequeueUnacknowledged, RequeueRefused, AddToQueue,
    AddToQueueUnacknowledged, AddToQueueTwice, FindDelegates,
    GiveUpOnDelegates, RequestFails, tableVars, TableTypeOK
<1>2. QueueTypeOK'
  BY QueueStepType DEF Api, AddPinNext, RefuseRequest, PutPin,
    PutPinUnacknowledged, FindPin, GetPin, RequeueFailed,
    RequeueUnacknowledged, RequeueRefused, AddToQueue,
    AddToQueueUnacknowledged, AddToQueueTwice, FindDelegates,
    GiveUpOnDelegates, RequestFails, queueVars, QueueTypeOK, MessageState
<1>3. RequestTypeOK'
  <2>1. \A from, to : to \in RequestState /\ Step(r, from, to) => RequestTypeOK'
    BY DEF Step, RequestTypeOK
  <2>2. \A from, to, ds : to \in RequestState /\ ds \in SUBSET Workers
          /\ Answer(r, from, to, ds) => RequestTypeOK'
    BY DEF Answer, RequestTypeOK
  <2>3. \A q \in Requests : AddToQueueTwice(r, q) => RequestTypeOK'
    BY DEF AddToQueueTwice, RequestTypeOK, RequestState, Answered
  <2> QED
    BY <2>1, <2>2, <2>3, ReadType DEF Api, AddPinNext, RefuseRequest, PutPin,
      PutPinUnacknowledged, FindPin, GetPin, RequeueFailed,
      RequeueUnacknowledged, RequeueRefused, AddToQueue,
      AddToQueueUnacknowledged, FindDelegates, GiveUpOnDelegates,
      RequestFails, RequestState, Answered
<1>4. HandlerTypeOK' /\ BatchTypeOK'
  BY DEF Api, handlerVars, HandlerTypeOK, BatchTypeOK
<1> QED
  BY <1>1, <1>2, <1>3, <1>4

\* A request that puts or re-queues a record has no message yet, and becomes
\* the owner of the pin.
LEMMA EnqueueStep ==
  ASSUME IndInv, NEW r \in Requests, NEW c \in Cids, c = CidOf[r],
         NEW to,
         \/ to = "send"
         \/ to = "error" /\ CanFail("api")
         \/ to \in {"get", "error"} /\ CanFail("put"),
         request[r] \in {"idle", "requeue"},
         request' = [request EXCEPT ![r] = to],
         PutIfAbsent(c, r) \/ UpdateFailedItem(c, r),
         UNCHANGED <<queue, receives, destination>>
  PROVE  RecordInv' /\ NoRegress
<1>. CidOf \in [Requests -> Cids]
  BY CidOfType
<1>. TableTypeOK /\ request \in [Requests -> RequestState] /\ RecordInv
  BY DEF IndInv, TypeOK, RequestTypeOK
<1>1. /\ table[c].status \in {"absent", "failed"}
      /\ \A d \in Cids :
           /\ table'[d].status = IF d = c THEN "queued" ELSE table[d].status
           /\ table'[d].created = IF d = c THEN r ELSE table[d].created
  BY EnqueueEffect
<1>2. queue[r] = "unsent"
  BY DEF RecordInv, EarlyRequestIsUnsent
<1>3. \A d \in Cids : HasStatus(d) => HasStatus(d)'
  BY <1>1 DEF HasStatus
<1>4. RecordBeforeMessage'
  BY <1>1, <1>3, NoRequestIsNone
  DEF RecordInv, RecordBeforeMessage, HasStatus, Exists
<1>5. QueuedIsOwned'
  BY <1>1, <1>2 DEF RecordInv, QueuedIsOwned, OwnedBy, Abandoned, RequestsFor,
    Live
<1>6. EarlyRequestIsUnsent'
  BY <1>2 DEF RecordInv, EarlyRequestIsUnsent
<1>7. LateRequestHasRecord'
  BY <1>1, <1>3 DEF RecordInv, LateRequestHasRecord, HasStatus
<1>8. PinnedHasCar' /\ FailedIsSpent' /\ DeadIsSpent'
  BY <1>1 DEF RecordInv, PinnedHasCar, FailedIsSpent, DeadIsSpent, Spent
<1>9. NoRegress
  BY <1>1, <1>2 DEF NoRegress, Sent, Spent, Waiting
<1> QED
  BY <1>4, <1>5, <1>6, <1>7, <1>8, <1>9 DEF RecordInv

\* A request that moves on and writes nothing: it may only go on towards
\* AddToQueue when there is a record, and only give up there when it fails.
LEMMA QuietStep ==
  ASSUME IndInv, NEW r \in Requests, NEW to,
         \/ to = "error" /\ (request[r] = "send" => CanFail("api"))
         \/ to = "existing" /\ request[r] = "get"
         \/ to = "added" /\ request[r] = "wait"
         \/ to = "get" /\ request[r] = "idle" /\ Exists(CidOf[r])
         \/ to = "requeue" /\ request[r] = "get",
         request' = [request EXCEPT ![r] = to],
         UNCHANGED <<table, queue, receives, destination>>
  PROVE  RecordInv' /\ NoRegress
<1>. CidOf \in [Requests -> Cids]
  BY CidOfType
<1>. request \in [Requests -> RequestState] /\ RecordInv
  BY DEF IndInv, TypeOK, RequestTypeOK
<1>1. RecordBeforeMessage' /\ PinnedHasCar' /\ FailedIsSpent' /\ DeadIsSpent'
  BY DEF RecordInv, RecordBeforeMessage, PinnedHasCar, FailedIsSpent,
    DeadIsSpent, HasStatus, Exists, Spent
<1>2. QueuedIsOwned'
  BY DEF RecordInv, QueuedIsOwned, OwnedBy, Abandoned, RequestsFor, Live,
    Answered
<1>3. EarlyRequestIsUnsent'
  BY DEF RecordInv, EarlyRequestIsUnsent, Answered
<1>4. LateRequestHasRecord'
  BY DEF RecordInv, LateRequestHasRecord, RecordBeforeMessage, HasStatus,
    Exists, Answered
<1>5. NoRegress
  BY DEF NoRegress, Sent, Spent, Waiting
<1> QED
  BY <1>1, <1>2, <1>3, <1>4, <1>5 DEF RecordInv

\* A request sends its message.
LEMMA SendStep ==
  ASSUME IndInv, NEW r \in Requests, NEW to \in {"wait", "error"},
         request[r] = "send", request' = [request EXCEPT ![r] = to],
         Send(r), UNCHANGED <<table, destination>>
  PROVE  RecordInv' /\ NoRegress
<1>. CidOf \in [Requests -> Cids]
  BY CidOfType
<1>. /\ request \in [Requests -> RequestState]
     /\ queue \in [Requests -> MessageState]
     /\ RecordInv
  BY DEF IndInv, TypeOK, RequestTypeOK, QueueTypeOK
<1>1. queue' = [queue EXCEPT ![r] = "visible"] /\ receives' = receives
  BY DEF Send, Move
<1>2. HasStatus(CidOf[r]) /\ queue[r] = "unsent"
  BY DEF RecordInv, LateRequestHasRecord, EarlyRequestIsUnsent
<1>3. RecordBeforeMessage'
  BY <1>1, <1>2 DEF RecordInv, RecordBeforeMessage, HasStatus, Exists
<1>4. QueuedIsOwned'
  BY <1>1 DEF RecordInv, QueuedIsOwned, OwnedBy, Abandoned, RequestsFor, Live
<1>5. EarlyRequestIsUnsent' /\ LateRequestHasRecord'
  BY <1>1 DEF RecordInv, EarlyRequestIsUnsent, LateRequestHasRecord, HasStatus
<1>6. PinnedHasCar' /\ FailedIsSpent' /\ DeadIsSpent'
  BY <1>1 DEF RecordInv, PinnedHasCar, FailedIsSpent, DeadIsSpent, Spent
<1>7. NoRegress
  BY <1>1 DEF NoRegress, Sent, Spent, Waiting
<1> QED
  BY <1>3, <1>4, <1>5, <1>6, <1>7 DEF RecordInv

\* A message that is sent twice is the message of two requests for the cid,
\* neither of which has sent one before.
LEMMA SendTwiceStep ==
  ASSUME IndInv, NEW r \in Requests, NEW q \in Requests,
         AddToQueueTwice(r, q), UNCHANGED destination
  PROVE  RecordInv' /\ NoRegress
<1>. CidOf \in [Requests -> Cids]
  BY CidOfType
<1>. /\ request \in [Requests -> RequestState]
     /\ queue \in [Requests -> MessageState]
     /\ RecordInv
  BY DEF IndInv, TypeOK, RequestTypeOK, QueueTypeOK
<1>1. /\ queue' = [queue EXCEPT ![r] = "visible", ![q] = "visible"]
      /\ request' = [request EXCEPT ![r] = "wait", ![q] = "error"]
      /\ receives' = receives /\ table' = table
  BY DEF AddToQueueTwice, tableVars
<1>2. /\ HasStatus(CidOf[r]) /\ CidOf[q] = CidOf[r]
      /\ queue[r] = "unsent" /\ queue[q] = "unsent"
  BY DEF AddToQueueTwice, RecordInv, LateRequestHasRecord,
    EarlyRequestIsUnsent
<1>3. RecordBeforeMessage'
  BY <1>1, <1>2 DEF RecordInv, RecordBeforeMessage, HasStatus, Exists
<1>4. QueuedIsOwned'
  BY <1>1 DEF RecordInv, QueuedIsOwned, OwnedBy, Abandoned, RequestsFor, Live
<1>5. EarlyRequestIsUnsent' /\ LateRequestHasRecord'
  BY <1>1 DEF RecordInv, EarlyRequestIsUnsent, LateRequestHasRecord, HasStatus
<1>6. PinnedHasCar' /\ FailedIsSpent' /\ DeadIsSpent'
  BY <1>1 DEF RecordInv, PinnedHasCar, FailedIsSpent, DeadIsSpent, Spent
<1>7. NoRegress
  BY <1>1, <1>2 DEF NoRegress, Sent, Spent, Waiting
<1> QED
  BY <1>3, <1>4, <1>5, <1>6, <1>7 DEF RecordInv

\* Every action of the lambda is one of these four kinds of step.
LEMMA ApiStep ==
  ASSUME IndInv, NEW r \in Requests, Api(r)
  PROVE  IndInv' /\ NoRegress
<1>1. TypeOK'
  BY ApiType DEF IndInv
<1>2. UNCHANGED <<job, destination, batch>>
  BY DEF Api, handlerVars
<1>. SUFFICES RecordInv' /\ NoRegress
  BY <1>1, <1>2, OthersKept
<1>3. CASE \/ PutPin(r) \/ PutPinUnacknowledged(r)
           \/ RequeueFailed(r) \/ RequeueUnacknowledged(r)
  <2>1. PICK to \in {"send", "get", "error"} :
          /\ request[r] \in {"idle", "requeue"}
          /\ \/ to = "send"
             \/ to = "error" /\ CanFail("api")
             \/ to \in {"get", "error"} /\ CanFail("put")
          /\ request' = [request EXCEPT ![r] = to]
    BY <1>3 DEF PutPin, PutPinUnacknowledged, RequeueFailed,
      RequeueUnacknowledged, Step
  <2>2. /\ PutIfAbsent(CidOf[r], r) \/ UpdateFailedItem(CidOf[r], r)
        /\ UNCHANGED <<queue, receives>>
    BY <1>3 DEF PutPin, PutPinUnacknowledged, RequeueFailed,
      RequeueUnacknowledged, queueVars
  <2> QED
    BY <1>2, <2>1, <2>2, EnqueueStep, CidOfType
<1>4. CASE AddToQueue(r) \/ AddToQueueUnacknowledged(r)
  <2>1. PICK to \in {"wait", "error"} :
          /\ request[r] = "send"
          /\ request' = [request EXCEPT ![r] = to]
    BY <1>4 DEF AddToQueue, AddToQueueUnacknowledged, Step
  <2>2. Send(r) /\ UNCHANGED table
    BY <1>4 DEF AddToQueue, AddToQueueUnacknowledged, tableVars
  <2> QED
    BY <1>2, <2>1, <2>2, SendStep
<1>5. CASE \/ RefuseRequest(r) \/ FindPin(r) \/ GetPin(r) \/ RequeueRefused(r)
           \/ FindDelegates(r) \/ GiveUpOnDelegates(r) \/ RequestFails(r)
  <2>1. PICK to \in {"get", "requeue"} \cup Answered :
          /\ \/ to = "error" /\ (request[r] = "send" => CanFail("api"))
             \/ to = "existing" /\ request[r] = "get"
             \/ to = "added" /\ request[r] = "wait"
             \/ to = "get" /\ request[r] = "idle" /\ Exists(CidOf[r])
             \/ to = "requeue" /\ request[r] = "get"
          /\ request' = [request EXCEPT ![r] = to]
    BY <1>5 DEF RefuseRequest, FindPin, GetPin, RequeueRefused, FindDelegates,
      GiveUpOnDelegates, RequestFails, Step, Answer, Answered
  <2>2. UNCHANGED <<table, queue, receives>>
    BY <1>5 DEF RefuseRequest, FindPin, GetPin, RequeueRefused, FindDelegates,
      GiveUpOnDelegates, RequestFails, tableVars, queueVars
  <2> QED
    BY <1>2, <2>1, <2>2, QuietStep
<1>6. CASE \E q \in Requests : AddToQueueTwice(r, q)
  BY <1>2, <1>6, SendTwiceStep
<1> QED
  BY <1>3, <1>4, <1>5, <1>6 DEF Api, AddPinNext

-----------------------------------------------------------------------------
(* The steps the workers, the dead letter lambda and the platform share *)

\* A pin that has a record is settled: nobody is waited for any more.
LEMMA SettleStep ==
  ASSUME IndInv, NEW c \in Cids, NEW st \in {"pinned", "failed"},
         HasStatus(c), UpdatePinStatus(c, st),
         st = "pinned" => destination[c] # "none",
         st = "failed" => c \notin Fits \/ \E r \in RequestsFor(c) : Spent(r),
         UNCHANGED <<queue, receives, request, destination>>
  PROVE  RecordInv' /\ NoRegress /\ \A r \in RequestsFor(c) : ~Waiting(r)'
<1>. CidOf \in [Requests -> Cids]
  BY CidOfType
<1>. TableTypeOK /\ RecordInv
  BY DEF IndInv, TypeOK
<1>1. \A d \in Cids :
        /\ table'[d].status = IF d = c THEN st ELSE table[d].status
        /\ table'[d].created = table[d].created
  BY StatusEffect
<1>2. RecordBeforeMessage'
  BY <1>1 DEF RecordInv, RecordBeforeMessage, HasStatus, Exists
<1>3. QueuedIsOwned'
  BY <1>1 DEF RecordInv, QueuedIsOwned, OwnedBy, Abandoned, RequestsFor, Live
<1>4. EarlyRequestIsUnsent' /\ LateRequestHasRecord'
  BY <1>1 DEF RecordInv, EarlyRequestIsUnsent, LateRequestHasRecord, HasStatus
<1>5. PinnedHasCar' /\ DeadIsSpent'
  BY <1>1 DEF RecordInv, PinnedHasCar, DeadIsSpent, Spent
<1>6. FailedIsSpent'
  BY <1>1 DEF RecordInv, FailedIsSpent, Spent
<1>7. NoRegress
  BY <1>1 DEF NoRegress, Sent, Spent, Waiting
<1>8. \A r \in RequestsFor(c) : ~Waiting(r)'
  BY <1>1 DEF RequestsFor, Waiting
<1> QED
  BY <1>2, <1>3, <1>4, <1>5, <1>6, <1>7, <1>8 DEF RecordInv

\* A message is moved, and only removed when no pin waits for it.
LEMMA MoveStep ==
  ASSUME IndInv, NEW r \in Requests, NEW n,
         \/ Redrive(r) \/ Expire(r) \/ Release(r, n)
         \/ Delete(r, n) /\ ~Waiting(r),
         UNCHANGED <<table, request, destination>>
  PROVE  RecordInv' /\ NoRegress
<1>. CidOf \in [Requests -> Cids]
  BY CidOfType
<1>. QueueTypeOK /\ RecordInv
  BY DEF IndInv, TypeOK
<1>1. /\ receives' = receives
      /\ \A q \in Requests :
           /\ q # r => queue'[q] = queue[q]
           /\ queue'[q] = "unsent" <=> queue[q] = "unsent"
           /\ queue'[q] = "dead" => queue[q] = "dead" \/ Spent(q)
           /\ Live(q) /\ Waiting(q) => Live(q)'
  <2>1. CASE Redrive(r) \/ Expire(r) \/ Release(r, n)
    BY <2>1 DEF QueueTypeOK, Redrive, Expire, Release, Move, queueVars, Live,
      Spent
  <2>2. CASE Delete(r, n) /\ ~Waiting(r)
    BY <2>2 DEF QueueTypeOK, Delete, Move, queueVars, Live
  <2> QED
    BY <2>1, <2>2
<1>2. RecordBeforeMessage'
  BY <1>1 DEF RecordInv, RecordBeforeMessage, HasStatus, Exists
<1>3. QueuedIsOwned'
  <2>. SUFFICES ASSUME NEW c \in Cids, table[c].status = "queued"
                PROVE  OwnedBy(c, table[c].created)'
    BY DEF QueuedIsOwned
  <2>1. OwnedBy(c, table[c].created)
    BY DEF RecordInv, QueuedIsOwned
  <2> QED
    BY <2>1, <1>1 DEF OwnedBy, Abandoned, RequestsFor, Waiting, CanFail
<1>4. EarlyRequestIsUnsent' /\ LateRequestHasRecord'
  BY <1>1 DEF RecordInv, EarlyRequestIsUnsent, LateRequestHasRecord, HasStatus
<1>5. PinnedHasCar' /\ FailedIsSpent' /\ DeadIsSpent'
  BY <1>1 DEF RecordInv, PinnedHasCar, FailedIsSpent, DeadIsSpent, Spent
<1>6. NoRegress
  BY <1>1 DEF NoRegress, Sent, Spent, Waiting
<1> QED
  BY <1>2, <1>3, <1>4, <1>5, <1>6 DEF RecordInv

\* A message is received once more, which it never is when it is spent.
LEMMA ReceiveStep ==
  ASSUME IndInv, NEW r \in Requests, Receive(r),
         UNCHANGED <<table, request, destination>>
  PROVE  RecordInv' /\ NoRegress
<1>. CidOf \in [Requests -> Cids]
  BY CidOfType
<1>. QueueTypeOK /\ RecordInv
  BY DEF IndInv, TypeOK
<1>1. /\ queue[r] = "visible" /\ receives[r] # MaxReceiveCount
      /\ queue' = [queue EXCEPT ![r] = "inflight"]
      /\ \A q \in Requests : Spent(q) => Spent(q)'
  BY MaxReceiveCountType DEF Receive, QueueTypeOK, Spent
<1>2. RecordBeforeMessage'
  BY <1>1 DEF QueueTypeOK, RecordInv, RecordBeforeMessage, HasStatus, Exists
<1>3. QueuedIsOwned'
  BY <1>1 DEF QueueTypeOK, RecordInv, QueuedIsOwned, OwnedBy, Abandoned,
    RequestsFor, Live
<1>4. EarlyRequestIsUnsent' /\ LateRequestHasRecord'
  BY <1>1 DEF QueueTypeOK, RecordInv, EarlyRequestIsUnsent,
    LateRequestHasRecord, HasStatus
<1>5. PinnedHasCar' /\ DeadIsSpent'
  BY <1>1 DEF QueueTypeOK, RecordInv, PinnedHasCar, DeadIsSpent
<1>6. FailedIsSpent'
  BY <1>1 DEF RecordInv, FailedIsSpent, Spent, RequestsFor
<1>7. NoRegress
  BY <1>1 DEF QueueTypeOK, NoRegress, Sent, Waiting
<1> QED
  BY <1>2, <1>3, <1>4, <1>5, <1>6, <1>7 DEF RecordInv

-----------------------------------------------------------------------------
(* The worker *)

\* Moving a job on, and freeing its slot, keep the jobs well typed.
LEMMA JobType ==
  ASSUME job \in [Slots -> Job], NEW s \in Slots, NEW from, NEW to
  PROVE  /\ Goto(s, from, to) /\ to \in JobState => job' \in [Slots -> Job]
         /\ Finish(s, from) => job' \in [Slots -> Job]
<1>1. ASSUME Goto(s, from, to), to \in JobState
      PROVE  job' \in [Slots -> Job]
  BY <1>1 DEF Goto, Job
<1>2. NoJob \in Job
  BY MaxReceiveCountType DEF NoJob, Job, JobState
<1>3. ASSUME Finish(s, from)
      PROVE  job' \in [Slots -> Job]
  BY <1>2, <1>3 DEF Finish
<1> QED
  BY <1>1, <1>3

\* What is known of the message of a busy slot.
LEMMA JobMessage ==
  ASSUME IndInv, NEW s \in Slots, Busy(s)
  PROVE  /\ job[s].message \in Requests
         /\ JobCid(s) \in Cids
         /\ job[s].message \in RequestsFor(JobCid(s))
         /\ HasStatus(JobCid(s))
BY CidOfType
DEF IndInv, JobInv, Sent, RecordInv, RecordBeforeMessage, JobCid, RequestsFor

\* A worker's step has the invariant of its own job to keep.
LEMMA WorkerKept ==
  ASSUME IndInv, TypeOK', RecordInv', NoRegress, NEW s \in Slots, JobInv(s)',
         \A t \in Slots : t # s => job'[t] = job[t], UNCHANGED batch
  PROVE  IndInv'
<1>1. \A t \in Slots : JobInv(t)'
  BY JobKept DEF IndInv
<1>2. \A i \in Invocations : BatchInv(i)'
  BY BatchKept DEF IndInv
<1> QED
  BY <1>1, <1>2 DEF IndInv

\* A worker's step keeps the types.
LEMMA WorkerType ==
  ASSUME IndInv, NEW s \in Slots, Worker(s)
  PROVE  TypeOK'
<1>. USE DEF TypeOK
<1>. TypeOK
  BY DEF IndInv
<1>1. CASE \E r \in Requests : ReceiveMessage(s, r)
  <2>1. PICK r \in Requests : ReceiveMessage(s, r)
    BY <1>1
  <2>2. receives[r] + 1 \in 0 .. MaxReceiveCount
    BY <2>1, MaxReceiveCountType DEF ReceiveMessage, Receive, QueueTypeOK
  <2>3. [pc |-> "announce", message |-> r, receipt |-> receives[r] + 1] \in Job
    BY <2>2 DEF Job, JobState
  <2>4. HandlerTypeOK'
    BY <2>1, <2>3 DEF ReceiveMessage, HandlerTypeOK
  <2>5. QueueTypeOK'
    BY <2>1, QueueStepType DEF ReceiveMessage
  <2> QED
    BY <1>1, <2>1, <2>4, <2>5 DEF ReceiveMessage, Worker, tableVars,
      requestVars, TableTypeOK, RequestTypeOK, BatchTypeOK
<1>2. CASE HandlerNext(s)
  <2>1. Busy(s)
    BY <1>2 DEF HandlerNext, Announce, UploadCar, TooBig, FetchFails,
      VerifyCar, VerifyFails, CopyCar, CopyFails, MarkPinned, DeleteMessage,
      SettleFails, MarkTooBig, DropMessage, ReleaseMessage, Goto, Finish,
      Busy
  <2>2. JobCid(s) \in Cids /\ job[s].message \in Requests
    BY <2>1, JobMessage
  <2>3. WorkerOf[s] \in Workers
    BY WorkerOfType
  <2>4. TableTypeOK'
    BY <1>2, <2>2, <2>3, DelegatesType, StatusType DEF HandlerNext, Announce,
      UploadCar, TooBig, FetchFails, VerifyCar, VerifyFails, CopyCar,
      CopyFails, MarkPinned, DeleteMessage, SettleFails, MarkTooBig,
      DropMessage, ReleaseMessage, tableVars, TableTypeOK, Status
  <2>5. QueueTypeOK'
    BY <1>2, <2>2, QueueStepType DEF HandlerNext, Announce, UploadCar,
      TooBig, FetchFails, VerifyCar, VerifyFails, CopyCar, CopyFails,
      MarkPinned, DeleteMessage, SettleFails, MarkTooBig, DropMessage,
      ReleaseMessage, queueVars, QueueTypeOK
  <2>6. job' \in [Slots -> Job]
    BY <1>2, JobType DEF HandlerNext, Announce, UploadCar, TooBig,
      FetchFails, VerifyCar, VerifyFails, CopyCar, CopyFails, MarkPinned,
      DeleteMessage, SettleFails, MarkTooBig, DropMessage, ReleaseMessage,
      HandlerTypeOK, JobState
  <2>7. validation' \in [Cids -> Car] /\ destination' \in [Cids -> Car]
    BY <1>2, <2>2 DEF HandlerNext, Announce, UploadCar, TooBig, FetchFails,
      VerifyCar, VerifyFails, CopyCar, CopyFails, MarkPinned, DeleteMessage,
      SettleFails, MarkTooBig, DropMessage, ReleaseMessage, WriteCar,
      CopyObject, HandlerTypeOK, Car
  <2> QED
    BY <2>4, <2>5, <2>6, <2>7 DEF Worker, requestVars, RequestTypeOK,
      BatchTypeOK, HandlerTypeOK
<1> QED
  BY <1>1, <1>2 DEF Worker

\* The steps that only move the job on, or change a CAR.
LEMMA QuietJobStep ==
  ASSUME IndInv, NEW s \in Slots,
         \/ UploadCar(s) \/ TooBig(s) \/ FetchFails(s) \/ VerifyCar(s)
         \/ VerifyFails(s) \/ CopyCar(s) \/ CopyFails(s),
         UNCHANGED request
  PROVE  RecordInv' /\ NoRegress /\ JobInv(s)'
<1>. job \in [Slots -> Job] /\ destination \in [Cids -> Car]
  BY DEF IndInv, TypeOK, HandlerTypeOK
<1>. DEFINE c == JobCid(s)
<1>1. PICK from, to \in JobState :
        /\ Goto(s, from, to) /\ from # "idle"
        /\ to \notin {"idle", "del", "drop"}
        /\ to = "fail" => c \notin Fits
        /\ to = "pin" => destination'[c] # "none"
  <2>1. Busy(s)
    BY DEF UploadCar, TooBig, FetchFails, VerifyCar, VerifyFails, CopyCar,
      CopyFails, Goto, Busy
  <2> QED
    BY <2>1, JobMessage DEF UploadCar, TooBig, FetchFails, VerifyCar,
      VerifyFails, CopyCar, CopyFails, CopyObject, JobState
<1>2. Busy(s) /\ c \in Cids
  BY <1>1, JobMessage DEF Goto, Busy
<1>3. UNCHANGED <<table, queue, receives>>
  BY DEF UploadCar, TooBig, FetchFails, VerifyCar, VerifyFails, CopyCar,
    CopyFails, tableVars, queueVars
<1>4. \A d \in Cids : destination[d] # "none" => destination'[d] # "none"
  BY <1>2 DEF UploadCar, TooBig, FetchFails, VerifyCar, VerifyFails, CopyCar,
    CopyFails, CopyObject
<1>5. RecordInv' /\ NoRegress
  BY <1>3, <1>4, SharedKept
<1>6. job'[s] = [job[s] EXCEPT !.pc = to] /\ JobCid(s)' = c
  BY <1>1 DEF Goto, Job, JobCid
<1>7. Sent(job[s].message)'
  BY <1>2, <1>3, <1>6 DEF IndInv, JobInv, Sent, Job
<1>8. JobInv(s)'
  BY <1>1, <1>6, <1>7 DEF JobInv, Job, Busy
<1> QED
  BY <1>5, <1>8

\* addDelegates finds the record the request has put: the upsert does not
\* create one.
LEMMA AnnounceStep ==
  ASSUME IndInv, NEW s \in Slots, Announce(s), UNCHANGED request
  PROVE  RecordInv' /\ NoRegress /\ JobInv(s)'
<1>. job \in [Slots -> Job] /\ TableTypeOK
  BY DEF IndInv, TypeOK, HandlerTypeOK
<1>1. Goto(s, "announce", "fetch") /\ Busy(s)
  BY DEF Announce, Goto, Busy
<1>2. JobCid(s) \in Cids /\ HasStatus(JobCid(s))
  BY <1>1, JobMessage
<1>3. \A d \in Cids : /\ table'[d].status = table[d].status
                      /\ table'[d].created = table[d].created
  BY <1>2, DelegatesEffect, WorkerOfType DEF Announce
<1>4. RecordInv' /\ NoRegress
  BY <1>3, SharedKept DEF Announce, queueVars
<1>5. job'[s] = [job[s] EXCEPT !.pc = "fetch"] /\ Sent(job[s].message)'
  BY <1>1 DEF Goto, Job, IndInv, JobInv, Sent, Announce, queueVars
<1>6. JobInv(s)'
  BY <1>5 DEF JobInv, Job, Busy
<1> QED
  BY <1>4, <1>6

\* The handler writes the final status of its pin.
LEMMA MarkStep ==
  ASSUME IndInv, NEW s \in Slots, NEW to \in {"del", "drop", "release"},
         \/ /\ Goto(s, "pin", to) /\ to \in {"del", "release"}
            /\ UpdatePinStatus(JobCid(s), "pinned")
         \/ /\ Goto(s, "fail", to) /\ to = "drop"
            /\ UpdatePinStatus(JobCid(s), "failed"),
         UNCHANGED <<queueVars, request, destination>>
  PROVE  RecordInv' /\ NoRegress /\ JobInv(s)'
<1>. job \in [Slots -> Job] /\ UNCHANGED <<queue, receives>>
  BY DEF IndInv, TypeOK, HandlerTypeOK, queueVars
<1>. DEFINE c == JobCid(s)
<1>1. Busy(s) /\ job'[s] = [job[s] EXCEPT !.pc = to]
  BY DEF Goto, Busy, Job
<1>2. c \in Cids /\ HasStatus(c) /\ job[s].message \in RequestsFor(c)
  BY <1>1, JobMessage
<1>3. job[s].pc = "pin" => destination[c] # "none"
  BY DEF IndInv, JobInv
<1>4. job[s].pc = "fail" => c \notin Fits
  BY DEF IndInv, JobInv
<1>5. /\ RecordInv' /\ NoRegress
      /\ \A r \in RequestsFor(c) : ~Waiting(r)'
  <2>1. CASE Goto(s, "pin", to) /\ UpdatePinStatus(JobCid(s), "pinned")
    BY <1>2, <1>3, <2>1, SettleStep DEF Goto
  <2>2. CASE Goto(s, "fail", to) /\ UpdatePinStatus(JobCid(s), "failed")
    BY <1>2, <1>4, <2>2, SettleStep DEF Goto
  <2> QED
    BY <2>1, <2>2
<1>6. ~Waiting(job[s].message)' /\ Sent(job[s].message)'
  <2>1. job'[s].message = job[s].message
    BY <1>1 DEF Job
  <2>2. ~Waiting(job[s].message)'
    BY <2>1, <1>2, <1>5 DEF Waiting, RequestsFor
  <2>3. Sent(job[s].message)'
    BY <2>1, <1>1 DEF IndInv, JobInv, Sent
  <2> QED
    BY <2>2, <2>3
<1>7. JobInv(s)'
  BY <1>1, <1>4, <1>6 DEF JobInv, Job, Busy, JobCid, Goto
<1> QED
  BY <1>5, <1>7

\* The handler deletes or releases its message, and is done with it.
LEMMA SettleMessageStep ==
  ASSUME IndInv, NEW s \in Slots,
         \/ DeleteMessage(s) \/ DropMessage(s) \/ ReleaseMessage(s),
         UNCHANGED request
  PROVE  RecordInv' /\ NoRegress /\ JobInv(s)'
<1>. job \in [Slots -> Job]
  BY DEF IndInv, TypeOK, HandlerTypeOK
<1>. DEFINE r == job[s].message
            n == job[s].receipt
<1>1. /\ Busy(s) /\ job'[s] = NoJob
      /\ UNCHANGED <<table, destination>>
      /\ \/ job[s].pc \in {"del", "drop"} /\ Delete(r, n)
         \/ Release(r, n)
  BY DEF DeleteMessage, DropMessage, ReleaseMessage, Finish, Busy, tableVars
<1>2. r \in Requests
  BY <1>1, JobMessage
<1>3. job[s].pc \in {"del", "drop"} => ~Waiting(r)
  BY DEF IndInv, JobInv
<1>4. RecordInv' /\ NoRegress
  BY <1>1, <1>2, <1>3, MoveStep
<1>5. JobInv(s)'
  BY <1>1 DEF JobInv, Busy, NoJob
<1> QED
  BY <1>4, <1>5

\* A write of the status, or a delete, that fails or only seems to.
LEMMA SettleFailsStep ==
  ASSUME IndInv, NEW s \in Slots, SettleFails(s), UNCHANGED request
  PROVE  RecordInv' /\ NoRegress /\ JobInv(s)'
<1>. job \in [Slots -> Job]
  BY DEF IndInv, TypeOK, HandlerTypeOK
<1>1. CASE Goto(s, "pin", "release") /\ UpdatePinStatus(JobCid(s), "pinned")
           /\ UNCHANGED queueVars
  BY <1>1, MarkStep DEF SettleFails
<1>2. CASE \/ /\ Goto(s, "pin", "release")
              /\ UNCHANGED <<tableVars, queueVars>>
           \/ /\ Goto(s, "del", "release") /\ UNCHANGED tableVars
              /\ Delete(job[s].message, job[s].receipt) \/ UNCHANGED queueVars
  <2>1. /\ Busy(s) /\ job'[s] = [job[s] EXCEPT !.pc = "release"]
        /\ UNCHANGED <<table, destination>>
    BY <1>2 DEF Goto, Busy, Job, tableVars, SettleFails
  <2>2. job[s].message \in Requests
    BY <2>1, JobMessage
  <2>3. RecordInv' /\ NoRegress
    <3>1. CASE UNCHANGED queueVars
      BY <2>1, <3>1, SharedKept DEF queueVars
    <3>2. CASE Goto(s, "del", "release")
               /\ Delete(job[s].message, job[s].receipt)
      <4>1. ~Waiting(job[s].message)
        BY <3>2 DEF IndInv, JobInv, Goto
      <4> QED
        BY <2>1, <2>2, <3>2, <4>1, MoveStep
    <3> QED
      BY <1>2, <3>1, <3>2
  <2>4. Sent(job[s].message)'
    BY <2>1, <2>2, <2>3 DEF NoRegress, IndInv, JobInv
  <2>5. JobInv(s)'
    BY <2>1, <2>4 DEF JobInv, Job, Busy
  <2> QED
    BY <2>3, <2>5
<1> QED
  BY <1>1, <1>2 DEF SettleFails

\* A slot takes a message.
LEMMA ReceiveMessageStep ==
  ASSUME IndInv, NEW s \in Slots, NEW r \in Requests, ReceiveMessage(s, r),
         UNCHANGED request
  PROVE  RecordInv' /\ NoRegress /\ JobInv(s)'
<1>. job \in [Slots -> Job] /\ QueueTypeOK
  BY DEF IndInv, TypeOK, HandlerTypeOK
<1>1. RecordInv' /\ NoRegress
  BY ReceiveStep DEF ReceiveMessage, tableVars
<1>2. job'[s].message = r /\ job'[s].pc = "announce" /\ Sent(r)'
  BY DEF ReceiveMessage, Receive, QueueTypeOK, Sent
<1>3. JobInv(s)'
  BY <1>2 DEF JobInv
<1> QED
  BY <1>1, <1>3

\* Every action of a worker is one of these steps.
LEMMA WorkerStep ==
  ASSUME IndInv, NEW s \in Slots, Worker(s)
  PROVE  IndInv' /\ NoRegress
<1>. job \in [Slots -> Job]
  BY DEF IndInv, TypeOK, HandlerTypeOK
<1>1. TypeOK'
  BY WorkerType
<1>2. UNCHANGED <<request, batch>>
  BY DEF Worker, requestVars
<1>3. \A t \in Slots : t # s => job'[t] = job[t]
  BY DEF Worker, ReceiveMessage, HandlerNext, Announce, UploadCar, TooBig,
    FetchFails, VerifyCar, VerifyFails, CopyCar, CopyFails, MarkPinned,
    DeleteMessage, SettleFails, MarkTooBig, DropMessage, ReleaseMessage,
    Goto, Finish
<1>. SUFFICES RecordInv' /\ NoRegress /\ JobInv(s)'
  BY <1>1, <1>2, <1>3, WorkerKept
<1>4. CASE \E r \in Requests : ReceiveMessage(s, r)
  BY <1>2, <1>4, ReceiveMessageStep
<1>5. CASE Announce(s)
  BY <1>2, <1>5, AnnounceStep
<1>6. CASE \/ UploadCar(s) \/ TooBig(s) \/ FetchFails(s) \/ VerifyCar(s)
           \/ VerifyFails(s) \/ CopyCar(s) \/ CopyFails(s)
  BY <1>2, <1>6, QuietJobStep
<1>7. CASE MarkPinned(s)
  BY <1>2, <1>7, MarkStep DEF MarkPinned
<1>8. CASE MarkTooBig(s)
  BY <1>2, <1>8, MarkStep DEF MarkTooBig
<1>9. CASE DeleteMessage(s) \/ DropMessage(s) \/ ReleaseMessage(s)
  BY <1>2, <1>9, SettleMessageStep
<1>10. CASE SettleFails(s)
  BY <1>2, <1>10, SettleFailsStep
<1> QED
  BY <1>4, <1>5, <1>6, <1>7, <1>8, <1>9, <1>10 DEF Worker, HandlerNext

\* A worker that dies frees its slots; the others keep their jobs.
LEMMA CrashStep ==
  ASSUME IndInv, NEW w \in Workers, WorkerCrash(w)
  PROVE  IndInv' /\ NoRegress
<1>. job \in [Slots -> Job]
  BY DEF IndInv, TypeOK, HandlerTypeOK
<1>1. /\ UNCHANGED <<tableVars, queueVars, requestVars>>
      /\ UNCHANGED <<validation, destination, batch>>
      /\ job' = [s \in Slots |-> IF WorkerOf[s] = w THEN NoJob ELSE job[s]]
  BY DEF WorkerCrash, Crash
<1>2. NoJob \in Job
  BY MaxReceiveCountType DEF NoJob, Job, JobState
<1>3. TypeOK'
  BY <1>1, <1>2 DEF IndInv, TypeOK, TableTypeOK, QueueTypeOK, RequestTypeOK,
    HandlerTypeOK, BatchTypeOK, tableVars, queueVars, requestVars
<1>4. RecordInv' /\ NoRegress
  BY <1>1, SharedKept DEF tableVars, queueVars, requestVars
<1>5. \A s \in Slots : JobInv(s)'
  <2>. SUFFICES ASSUME NEW s \in Slots
                PROVE  JobInv(s)'
    OBVIOUS
  <2>1. CASE WorkerOf[s] = w
    BY <1>1, <2>1 DEF JobInv, Busy, NoJob
  <2>2. CASE WorkerOf[s] # w
    BY <1>1, <1>4, <2>2, JobKept DEF IndInv
  <2> QED
    BY <2>1, <2>2
<1>6. \A i \in Invocations : BatchInv(i)'
  BY <1>1, <1>4, BatchKept DEF IndInv
<1> QED
  BY <1>3, <1>4, <1>5, <1>6 DEF IndInv

-----------------------------------------------------------------------------
(* The dead letter lambda *)

\* A step of the lambda keeps the types.
LEMMA DeadLettersType ==
  ASSUME IndInv, NEW i \in Invocations, DeadLetters(i)
  PROVE  TypeOK'
<1>. USE DEF TypeOK
<1>. TypeOK /\ CidOf \in [Requests -> Cids]
  BY CidOfType DEF IndInv
<1>1. TableTypeOK'
  BY StatusType DEF DeadLetters, FailPinNext, ReceiveBatch, MarkFailed,
    MarkingFails, CompleteBatch, LambdaKilled, tableVars, TableTypeOK, Status
<1>2. QueueTypeOK'
  BY DEF DeadLetters, FailPinNext, ReceiveBatch, MarkFailed, MarkingFails,
    CompleteBatch, LambdaKilled, queueVars, QueueTypeOK, MessageState
<1>3. BatchTypeOK'
  <2>. batch \in [Invocations -> Batch]
    BY DEF BatchTypeOK
  <2>1. PICK new \in Batch : batch' = [batch EXCEPT ![i] = new]
    <3>1. CASE ReceiveBatch(i)
      <4>1. PICK msgs \in SUBSET Requests :
              batch' = [batch EXCEPT ![i].todo = msgs]
        BY <3>1 DEF ReceiveBatch
      <4>2. [batch[i] EXCEPT !.todo = msgs] \in Batch
        BY DEF Batch
      <4> QED
        BY <4>1, <4>2
    <3>2. CASE \E r \in Requests : MarkFailed(i, r)
      <4>1. PICK r \in Requests : MarkFailed(i, r)
        BY <3>2
      <4>2. [batch[i] EXCEPT !.todo = @ \ {r}, !.marked = @ \cup {r}] \in Batch
        BY DEF Batch
      <4> QED
        BY <4>1, <4>2 DEF MarkFailed
    <3>3. CASE \E r \in Requests : MarkingFails(i, r)
      <4>1. PICK r \in Requests : MarkingFails(i, r)
        BY <3>3
      <4>2. [batch[i] EXCEPT !.todo = @ \ {r}, !.unmarked = @ \cup {r}]
              \in Batch
        BY DEF Batch
      <4> QED
        BY <4>1, <4>2 DEF MarkingFails
    <3>4. CASE CompleteBatch(i) \/ LambdaKilled(i)
      <4>1. NoBatch \in Batch
        BY DEF Batch, NoBatch
      <4> QED
        BY <3>4, <4>1 DEF CompleteBatch, LambdaKilled
    <3> QED
      BY <3>1, <3>2, <3>3, <3>4 DEF DeadLetters, FailPinNext
  <2> QED
    BY <2>1 DEF BatchTypeOK
<1>4. RequestTypeOK' /\ HandlerTypeOK'
  BY DEF DeadLetters, requestVars, handlerVars, RequestTypeOK, HandlerTypeOK
<1> QED
  BY <1>1, <1>2, <1>3, <1>4

\* SQS hands the lambda dead messages, and deletes those whose pin it has
\* marked: no pin waits for them.
LEMMA DeadLettersStep ==
  ASSUME IndInv, NEW i \in Invocations, DeadLetters(i)
  PROVE  IndInv' /\ NoRegress
<1>. batch \in [Invocations -> Batch] /\ CidOf \in [Requests -> Cids]
  BY CidOfType DEF IndInv, TypeOK, BatchTypeOK
<1>1. TypeOK'
  BY DeadLettersType
<1>2. UNCHANGED <<request, job, destination>>
  BY DEF DeadLetters, requestVars, handlerVars
<1>3. \A j \in Invocations : j # i => batch'[j] = batch[j]
  BY DEF DeadLetters, FailPinNext, ReceiveBatch, MarkFailed, MarkingFails,
    CompleteBatch, LambdaKilled
<1>. SUFFICES RecordInv' /\ NoRegress /\ BatchInv(i)'
  <2>. SUFFICES ASSUME RecordInv', NoRegress, BatchInv(i)'
                PROVE  IndInv'
    OBVIOUS
  <2>1. \A s \in Slots : JobInv(s)'
    BY <1>2, JobKept DEF IndInv
  <2>2. \A j \in Invocations : BatchInv(j)'
    BY <1>3, BatchKept DEF IndInv
  <2> QED
    BY <1>1, <2>1, <2>2 DEF IndInv
<1>4. CASE ReceiveBatch(i)
  <2>1. RecordInv' /\ NoRegress
    BY <1>2, <1>4, SharedKept DEF ReceiveBatch, tableVars, queueVars
  <2>2. PICK msgs \in SUBSET {r \in Requests : queue[r] = "dead"} :
          batch[i] = NoBatch /\ batch' = [batch EXCEPT ![i].todo = msgs]
    BY <1>4 DEF ReceiveBatch
  <2>3. batch'[i].marked = {} /\ Records(i)' = msgs
    BY <2>2 DEF Batch, NoBatch, Records
  <2>4. \A r \in msgs : Sent(r) /\ Spent(r)
    BY <2>2 DEF IndInv, RecordInv, DeadIsSpent, Sent
  <2>5. BatchInv(i)'
    BY <2>1, <2>2, <2>3, <2>4 DEF BatchInv, NoRegress
  <2> QED
    BY <2>1, <2>5
<1>5. CASE \E r \in Requests : MarkFailed(i, r)
  <2>1. PICK r \in Requests : MarkFailed(i, r)
    BY <1>5
  <2>2. /\ r \in batch[i].todo /\ UNCHANGED <<queue, receives>>
        /\ UpdatePinStatus(CidOf[r], "failed")
    BY <2>1 DEF MarkFailed, queueVars
  <2>3. Sent(r) /\ Spent(r)
    BY <2>2 DEF IndInv, BatchInv, Records
  <2>4. HasStatus(CidOf[r]) /\ r \in RequestsFor(CidOf[r])
    BY <2>3 DEF IndInv, RecordInv, RecordBeforeMessage, Sent, RequestsFor
  <2>5. /\ RecordInv' /\ NoRegress
        /\ \A q \in RequestsFor(CidOf[r]) : ~Waiting(q)'
    BY <1>2, <2>2, <2>3, <2>4, SettleStep
  <2>6. /\ Records(i)' = Records(i)
        /\ batch'[i].marked = batch[i].marked \cup {r}
    BY <2>1 DEF MarkFailed, Records, Batch
  <2>7. \A q \in Records(i) : q \in Requests /\ Sent(q) /\ Spent(q)
    BY DEF IndInv, BatchInv, Sent
  <2>8. \A q \in batch[i].marked : ~Waiting(q) /\ q \in Records(i)
    BY DEF IndInv, BatchInv, Records
  <2>9. BatchInv(i)'
    BY <2>4, <2>5, <2>6, <2>7, <2>8 DEF BatchInv, NoRegress
  <2> QED
    BY <2>5, <2>9
<1>6. CASE \E r \in Requests : MarkingFails(i, r)
  <2>1. PICK r \in Requests : MarkingFails(i, r)
    BY <1>6
  <2>2. RecordInv' /\ NoRegress
    <3>1. /\ r \in batch[i].todo /\ UNCHANGED <<queue, receives>>
          /\ UpdatePinStatus(CidOf[r], "failed") \/ UNCHANGED table
      BY <2>1 DEF MarkingFails, tableVars, queueVars
    <3>2. Sent(r) /\ Spent(r)
      BY <3>1 DEF IndInv, BatchInv, Records
    <3>3. HasStatus(CidOf[r]) /\ r \in RequestsFor(CidOf[r])
      BY <3>2 DEF IndInv, RecordInv, RecordBeforeMessage, Sent, RequestsFor
    <3>4. CASE UpdatePinStatus(CidOf[r], "failed")
      BY <1>2, <3>1, <3>2, <3>3, <3>4, SettleStep
    <3>5. CASE UNCHANGED table
      BY <1>2, <3>1, <3>5, SharedKept
    <3> QED
      BY <3>1, <3>4, <3>5
  <2>3. Records(i)' = Records(i) /\ batch'[i].marked = batch[i].marked
    BY <2>1 DEF MarkingFails, Records, Batch
  <2>4. \A q \in Records(i) : q \in Requests /\ Sent(q) /\ Spent(q)
    BY DEF IndInv, BatchInv, Sent
  <2>5. \A q \in batch[i].marked : ~Waiting(q) /\ q \in Records(i)
    BY DEF IndInv, BatchInv, Records
  <2>6. BatchInv(i)'
    BY <2>2, <2>3, <2>4, <2>5 DEF BatchInv, NoRegress
  <2> QED
    BY <2>2, <2>6
<1>7. CASE CompleteBatch(i)
  <2>1. /\ UNCHANGED <<table, receives>> /\ batch'[i] = NoBatch
        /\ queue' = [r \in Requests |->
                       IF r \in batch[i].marked THEN "gone" ELSE queue[r]]
    BY <1>7 DEF CompleteBatch, tableVars
  <2>2. \A r \in batch[i].marked : Sent(r) /\ ~Waiting(r)
    BY DEF IndInv, BatchInv, Records
  <2>3. RecordInv'
    BY <1>2, <2>1, <2>2 DEF IndInv, RecordInv, RecordBeforeMessage,
      QueuedIsOwned, OwnedBy, Abandoned, EarlyRequestIsUnsent,
      LateRequestHasRecord, PinnedHasCar, FailedIsSpent, DeadIsSpent,
      HasStatus, Exists, Live, Spent, Sent, Waiting, RequestsFor
  <2>4. NoRegress
    BY <1>2, <2>1 DEF NoRegress, Sent, Spent, Waiting
  <2>5. BatchInv(i)'
    BY <2>1 DEF BatchInv, NoBatch, Records
  <2> QED
    BY <2>3, <2>4, <2>5
<1>8. CASE LambdaKilled(i)
  <2>1. RecordInv' /\ NoRegress
    BY <1>2, <1>8, SharedKept DEF LambdaKilled, tableVars, queueVars
  <2>2. BatchInv(i)'
    BY <1>8 DEF LambdaKilled, BatchInv, NoBatch, Records
  <2> QED
    BY <2>1, <2>2
<1> QED
  BY <1>4, <1>5, <1>6, <1>7, <1>8 DEF DeadLetters, FailPinNext

-----------------------------------------------------------------------------
(* The platform *)

\* SQS makes a message visible again, or moves it to the dead letter queue.
LEMMA SqsStep ==
  ASSUME IndInv, NEW r \in Requests, Sqs(r)
  PROVE  IndInv' /\ NoRegress
<1>1. /\ Expire(r) \/ Redrive(r)
      /\ UNCHANGED <<table, replica, request, response, job, validation,
                     destination, batch>>
  BY DEF Sqs, LapseMessage, tableVars, requestVars, handlerVars
<1>2. TypeOK'
  BY <1>1, QueueStepType DEF IndInv, TypeOK, TableTypeOK, RequestTypeOK,
    HandlerTypeOK, BatchTypeOK
<1>3. RecordInv' /\ NoRegress
  BY <1>1, MoveStep
<1> QED
  BY <1>1, <1>2, <1>3, OthersKept

\* A replica catches up, or an object in the validation bucket expires.
LEMMA StorageStep ==
  ASSUME IndInv, NEW c \in Cids, Storage(c)
  PROVE  IndInv' /\ NoRegress
<1>1. UNCHANGED <<table, queue, receives, request, response, job, destination,
                  batch>>
  BY DEF Storage, Sync, ExpireCar, tableVars, queueVars, requestVars,
    handlerVars
<1>2. replica' \in [Cids -> Item] /\ validation' \in [Cids -> Car]
  BY DEF IndInv, TypeOK, TableTypeOK, HandlerTypeOK, Storage, Sync, ExpireCar,
    tableVars, handlerVars, Car
<1>3. TypeOK'
  BY <1>1, <1>2 DEF IndInv, TypeOK, TableTypeOK, QueueTypeOK, RequestTypeOK,
    HandlerTypeOK, BatchTypeOK
<1>4. RecordInv' /\ NoRegress
  BY <1>1, SharedKept
<1> QED
  BY <1>1, <1>3, <1>4, OthersKept

\* Nothing changes when the system is at rest.
LEMMA RestStep ==
  ASSUME IndInv, UNCHANGED vars
  PROVE  IndInv' /\ NoRegress
<1>1. UNCHANGED <<table, replica, queue, receives, request, response, job,
                  validation, destination, batch>>
  BY DEF vars, tableVars, queueVars, requestVars, handlerVars
<1>2. TypeOK'
  BY <1>1 DEF IndInv, TypeOK, TableTypeOK, QueueTypeOK, RequestTypeOK,
    HandlerTypeOK, BatchTypeOK
<1>3. RecordInv' /\ NoRegress
  BY <1>1, SharedKept
<1> QED
  BY <1>1, <1>2, <1>3, OthersKept

-----------------------------------------------------------------------------
(* The theorems *)

\* The initial state satisfies the invariant.
LEMMA InitInv == Init => IndInv
<1>. SUFFICES ASSUME Init
              PROVE  IndInv
  OBVIOUS
<1>. CidOf \in [Requests -> Cids]
  BY CidOfType
<1>. USE DEF Init, TableInit, QueueInit, RequestInit, HandlerInit, BatchInit
<1>1. TypeOK
  BY MaxReceiveCountType
  DEF TypeOK, TableTypeOK, Item, Status, NoItem, QueueTypeOK, MessageState,
    RequestTypeOK, RequestState, HandlerTypeOK, Job, NoJob, JobState, Car,
    BatchTypeOK, Batch, NoBatch
<1>2. RecordInv
  BY DEF RecordInv, RecordBeforeMessage, QueuedIsOwned, EarlyRequestIsUnsent,
    LateRequestHasRecord, PinnedHasCar, FailedIsSpent, DeadIsSpent, Exists,
    NoItem
<1>3. \A s \in Slots : JobInv(s)
  BY DEF JobInv, Busy, NoJob
<1>4. \A i \in Invocations : BatchInv(i)
  BY DEF BatchInv, NoBatch, Records
<1> QED
  BY <1>1, <1>2, <1>3, <1>4 DEF IndInv

\* Every step keeps it, and is a NoRegress step.
LEMMA NextInv ==
  ASSUME IndInv, [Next]_vars
  PROVE  IndInv' /\ NoRegress
BY ApiStep, WorkerStep, CrashStep, DeadLettersStep, SqsStep, StorageStep,
  RestStep DEF Next, Rest

\* IndInv is an invariant of the system.
THEOREM Invariance == Spec => []IndInv
<1>1. IndInv /\ [Next]_vars => IndInv'
  BY NextInv
<1> QED
  BY InitInv, <1>1, PTL DEF Spec

\* No process ever leaves its states, and no record, message, job or batch
\* its type, whatever fails: in particular a message is never received more
\* often than the redrive policy of the queue allows.
THEOREM TypeCorrect == Spec => []TypeOK
<1>1. IndInv => TypeOK
  BY DEF IndInv
<1> QED
  BY Invariance, <1>1, PTL

\* The upserts of addDelegates and updatePinStatus never create a record:
\* the API's put comes before every message.
THEOREM RecordsComeFirst == Spec => []RecordBeforeMessage
<1>1. IndInv => RecordBeforeMessage
  BY DEF IndInv, RecordInv
<1> QED
  BY Invariance, <1>1, PTL

\* A queued pin is the work of the message of the request that queued it
\* last; only a failure of the AddPin lambda can leave it without one.
THEOREM QueuedPinsAreOwned == Spec => []QueuedIsOwned
<1>1. IndInv => QueuedIsOwned
  BY DEF IndInv, RecordInv
<1> QED
  BY Invariance, <1>1, PTL

\* A pin is marked as pinned only after a CAR was copied.
THEOREM PinnedPinsHaveCars == Spec => []PinnedHasCar
<1>1. IndInv => PinnedHasCar
  BY DEF IndInv, RecordInv
<1> QED
  BY Invariance, <1>1, PTL

\* A pin fails only when its CAR is too big or a message of it is spent.
THEOREM FailedPinsAreSpent == Spec => []FailedIsSpent
<1>1. IndInv => FailedIsSpent
  BY DEF IndInv, RecordInv
<1> QED
  BY Invariance, <1>1, PTL

\* No step takes back what another process relies on: in particular a pin
\* never waits again for a message it has ceased to wait for.
THEOREM NothingRegresses == Spec => NeverRegresses
<1>1. IndInv /\ [Next]_vars => [NoRegress]_vars
  BY NextInv
<1> QED
  BY Invariance, <1>1, PTL DEF Spec, NeverRegresses

-----------------------------------------------------------------------------
(* How messages wear out *)

\* What can happen to a message.
MessageStep(r) ==
  \/ /\ queue[r] = "unsent" /\ queue'[r] = "visible"
     /\ receives'[r] = receives[r]
  \/ /\ queue[r] = "visible" /\ queue'[r] = "inflight"
     /\ receives'[r] = receives[r] + 1
  \/ /\ queue[r] = "inflight" /\ queue'[r] = "visible"
     /\ receives'[r] = receives[r]
  \/ /\ queue[r] = "visible" /\ queue'[r] = "dead"
     /\ receives'[r] = receives[r]
  \/ /\ queue[r] \in {"visible", "inflight", "dead"} /\ queue'[r] = "gone"
     /\ receives'[r] = receives[r]

\* Each of it leaves less that can happen.
LEMMA EventsUsed ==
  ASSUME QueueTypeOK, QueueTypeOK', NEW r \in Requests, MessageStep(r)
  PROVE  EventsLeft(queue'[r], receives'[r])
           \in 0 .. EventsLeft(queue[r], receives[r]) - 1
<1>. DEFINE n == receives[r]
            m == receives'[r]
<1>1. /\ n \in 0 .. MaxReceiveCount /\ m \in 0 .. MaxReceiveCount
      /\ MaxReceiveCount \in Nat
  BY MaxReceiveCountType DEF QueueTypeOK
<1>2. /\ EventsLeft("unsent", n) = 2 * MaxReceiveCount + 3
      /\ EventsLeft("visible", n) = 2 * (MaxReceiveCount - n) + 2
      /\ EventsLeft("inflight", n) = 2 * (MaxReceiveCount - n) + 3
      /\ EventsLeft("dead", n) = 1
  BY DEF EventsLeft
<1>3. /\ EventsLeft("visible", m) = 2 * (MaxReceiveCount - m) + 2
      /\ EventsLeft("inflight", m) = 2 * (MaxReceiveCount - m) + 3
      /\ EventsLeft("dead", m) = 1
      /\ EventsLeft("gone", m) = 0
  BY DEF EventsLeft
<1>. HIDE DEF n, m
<1>4. m = n =>
        /\ EventsLeft("visible", m) \in 0 .. EventsLeft("unsent", n) - 1
        /\ EventsLeft("visible", m) \in 0 .. EventsLeft("inflight", n) - 1
        /\ EventsLeft("dead", m) \in 0 .. EventsLeft("visible", n) - 1
        /\ EventsLeft("gone", m) \in 0 .. EventsLeft("visible", n) - 1
        /\ EventsLeft("gone", m) \in 0 .. EventsLeft("inflight", n) - 1
        /\ EventsLeft("gone", m) \in 0 .. EventsLeft("dead", n) - 1
  BY <1>1, <1>2, <1>3
<1>5. m = n + 1 =>
        EventsLeft("inflight", m) \in 0 .. EventsLeft("visible", n) - 1
  BY <1>1, <1>2, <1>3
<1> QED
  BY <1>4, <1>5 DEF MessageStep, n, m

\* A call on the queue is one of these for its message, when a message is
\* only sent once, and nothing for the others.
LEMMA QueueCalls ==
  ASSUME QueueTypeOK, NEW q \in Requests, NEW n, NEW r \in Requests,
         queue'[r] # queue[r] \/ receives'[r] # receives[r]
  PROVE  /\ queue[q] = "unsent" /\ Send(q) => MessageStep(r)
         /\ Receive(q) => MessageStep(r)
         /\ Redrive(q) => MessageStep(r)
         /\ Expire(q) => MessageStep(r)
         /\ Delete(q, n) => MessageStep(r)
         /\ Release(q, n) => MessageStep(r)
BY DEF QueueTypeOK, Send, Receive, Redrive, Expire, Delete, Release, Move,
  queueVars, MessageStep

\* The calls of the AddPin lambda are for messages that were not sent.
LEMMA ApiMessages ==
  ASSUME IndInv, NEW q \in Requests, Api(q), NEW r \in Requests,
         queue'[r] # queue[r] \/ receives'[r] # receives[r]
  PROVE  MessageStep(r)
<1>. QueueTypeOK /\ EarlyRequestIsUnsent
  BY DEF IndInv, TypeOK, RecordInv
<1>1. CASE AddToQueue(q) \/ AddToQueueUnacknowledged(q)
  <2>1. queue[q] = "unsent" /\ Send(q)
    BY <1>1 DEF AddToQueue, AddToQueueUnacknowledged, Step,
      EarlyRequestIsUnsent
  <2> QED
    BY <2>1, QueueCalls
<1>2. ASSUME NEW p \in Requests, AddToQueueTwice(q, p)
      PROVE  MessageStep(r)
  <2>1. queue[q] = "unsent" /\ queue[p] = "unsent"
    BY <1>2 DEF AddToQueueTwice, EarlyRequestIsUnsent
  <2> QED
    BY <1>2, <2>1 DEF AddToQueueTwice, QueueTypeOK, MessageStep
<1> QED
  BY <1>1, <1>2 DEF Api, AddPinNext, RefuseRequest, PutPin,
    PutPinUnacknowledged, FindPin, GetPin, RequeueFailed,
    RequeueUnacknowledged, RequeueRefused, FindDelegates, GiveUpOnDelegates,
    RequestFails, queueVars

\* A worker receives, deletes or releases a message.
LEMMA WorkerMessages ==
  ASSUME IndInv, NEW s \in Slots, Worker(s), NEW r \in Requests,
         queue'[r] # queue[r] \/ receives'[r] # receives[r]
  PROVE  MessageStep(r)
<1>. QueueTypeOK
  BY DEF IndInv, TypeOK
<1>1. ASSUME NEW q \in Requests, ReceiveMessage(s, q)
      PROVE  MessageStep(r)
  BY <1>1, QueueCalls DEF ReceiveMessage
<1>2. CASE DeleteMessage(s) \/ DropMessage(s) \/ ReleaseMessage(s)
             \/ SettleFails(s)
  <2>1. job[s].message \in Requests
    BY <1>2 DEF DeleteMessage, DropMessage, ReleaseMessage, SettleFails, Goto,
      Finish, IndInv, JobInv, Busy, Sent
  <2> QED
    BY <1>2, <2>1, QueueCalls DEF DeleteMessage, DropMessage, ReleaseMessage,
      SettleFails, queueVars
<1> QED
  BY <1>1, <1>2 DEF Worker, HandlerNext, Announce, UploadCar, TooBig,
    FetchFails, VerifyCar, VerifyFails, CopyCar, CopyFails, MarkPinned,
    MarkTooBig, queueVars

\* The dead letter lambda's answer deletes messages that were sent.
LEMMA DeadLettersMessages ==
  ASSUME IndInv, NEW i \in Invocations, DeadLetters(i), NEW r \in Requests,
         queue'[r] # queue[r] \/ receives'[r] # receives[r]
  PROVE  MessageStep(r)
<1>1. CompleteBatch(i)
  BY DEF DeadLetters, FailPinNext, ReceiveBatch, MarkFailed, MarkingFails,
    LambdaKilled, queueVars
<1>2. /\ queue'[r] = IF r \in batch[i].marked THEN "gone" ELSE queue[r]
      /\ receives' = receives
  BY <1>1 DEF CompleteBatch
<1>3. r \in batch[i].marked /\ queue'[r] = "gone" /\ queue[r] # "gone"
  BY <1>2
<1>4. Sent(r) /\ queue[r] \in MessageState
  BY <1>3 DEF IndInv, BatchInv, Records, TypeOK, QueueTypeOK
<1> QED
  BY <1>2, <1>3, <1>4 DEF MessageStep, Sent, MessageState

\* So whatever happens to a message is one of these.
LEMMA MessageSteps ==
  ASSUME IndInv, [Next]_vars, NEW r \in Requests,
         queue'[r] # queue[r] \/ receives'[r] # receives[r]
  PROVE  MessageStep(r)
<1>1. ASSUME NEW q \in Requests, Sqs(q)
      PROVE  MessageStep(r)
  BY <1>1, QueueCalls DEF IndInv, TypeOK, Sqs, LapseMessage
<1> QED
  BY <1>1, ApiMessages, WorkerMessages, DeadLettersMessages
  DEF Next, WorkerCrash, Crash, Storage, ExpireCar, Rest, vars, queueVars

\* Everything that happens to a message uses it up, so that at most
\* 2 * MaxReceiveCount + 3 things happen to it, whatever fails.
THEOREM MessagesOnlyWearOut == Spec => MessagesWearOut
<1>1. ASSUME IndInv, [Next]_vars, NEW r \in Requests,
             queue'[r] # queue[r] \/ receives'[r] # receives[r]
      PROVE  EventsLeft(queue'[r], receives'[r])
               \in 0 .. EventsLeft(queue[r], receives[r]) - 1
  <2>1. QueueTypeOK /\ QueueTypeOK'
    BY <1>1, NextInv DEF IndInv, TypeOK
  <2>2. MessageStep(r)
    BY <1>1, MessageSteps
  <2> QED
    BY <2>1, <2>2, EventsUsed
<1>2. IndInv /\ [Next]_vars =>
        [\A r \in Requests :
           queue'[r] # queue[r] \/ receives'[r] # receives[r] =>
             EventsLeft(queue'[r], receives'[r])
               \in 0 .. EventsLeft(queue[r], receives[r]) - 1]_vars
  BY <1>1
<1> QED
  BY Invariance, <1>2, PTL DEF Spec, MessagesWearOut
=============================================================================
