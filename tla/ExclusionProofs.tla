--------------------------- MODULE ExclusionProofs ---------------------------
(***************************************************************************)
(* Proofs that one handler at a time works on a CAR that fits, that only   *)
(* complete CARs are stored, and that a pin which is done stays so, when   *)
(* nothing is delivered twice; for any cids, requests, workers, slots,     *)
(* invocations and redrive limit, and any crashes, lost answers, failing   *)
(* deletes and lagging reads.                                              *)
(***************************************************************************)
EXTENDS PickupExclusion, PickupProofs

-----------------------------------------------------------------------------
(* The frame *)

\* The failures DeliversOnce excludes.
LEMMA NothingTwice ==
  ASSUME DeliversOnce
  PROVE  ~CanFail("lapse") /\ ~CanFail("resend") /\ ~CanFail("lambda")
BY DEF DeliversOnce, CanFail

\* A step after which no other message contends, and no other pin that fits
\* has failed, keeps Contention.
LEMMA ContentionKept ==
  ASSUME Contention,
         \A r \in Requests : Contends(r)' => Contends(r),
         \A c \in Cids : c \in Fits /\ table'[c].status = "failed"
                          => table[c].status = "failed"
  PROVE  Contention'
<1>. CidOf \in [Requests -> Cids]
  BY CidOfType
<1> QED
  BY DEF Contention

\* A step that takes no message for a job, and moves none that stays held but
\* to delete it, keeps Holding.
LEMMA HoldingKept ==
  ASSUME IndInv, Holding,
         \A s \in Slots : Busy(s)' =>
           /\ Busy(s)
           /\ job'[s].message = job[s].message
           /\ job'[s].receipt = job[s].receipt,
         \A r \in Requests : Held(r)' =>
           /\ queue'[r] \in {queue[r], "gone"}
           /\ receives'[r] = receives[r]
  PROVE  Holding'
<1>. SUFFICES ASSUME NEW s \in Slots, Busy(s)'
              PROVE  /\ queue'[job'[s].message] \in {"inflight", "gone"}
                     /\ job'[s].receipt = receives'[job'[s].message]
                     /\ \A t \in Slots : Holds(t, job[s].message)' => t = s
  BY DEF Holding
<1>1. /\ Busy(s) /\ job[s].message \in Requests
      /\ job'[s].message = job[s].message
      /\ job'[s].receipt = job[s].receipt
  BY JobMessage
<1>2. Held(job[s].message)'
  BY <1>1 DEF Held, Holds
<1>3. /\ queue'[job[s].message] \in {"inflight", "gone"}
      /\ job'[s].receipt = receives'[job[s].message]
  BY <1>1, <1>2 DEF Holding
<1>4. ASSUME NEW t \in Slots, Holds(t, job[s].message)'
      PROVE  t = s
  BY <1>1, <1>4 DEF Holding, Holds
<1> QED
  BY <1>1, <1>3, <1>4

\* A step that changes no batch, and moves no dead message, keeps Batching.
LEMMA BatchingKept ==
  ASSUME Batching, UNCHANGED batch,
         \A r \in Requests : queue[r] = "dead" => queue'[r] = "dead",
         TypeOK
  PROVE  Batching'
<1>1. \A i \in Invocations : Records(i)' = Records(i)
  BY DEF Records
<1>2. \A i \in Invocations : Records(i) \subseteq Requests
  BY DEF TypeOK, BatchTypeOK, Batch, Records
<1> QED
  BY <1>1, <1>2 DEF Batching

\* A step that changes no CAR, and takes no job to the copy, keeps Copying.
LEMMA CopyingKept ==
  ASSUME Copying, UNCHANGED <<validation, destination>>,
         \A s \in Slots : job'[s].pc = "copy" => job'[s] = job[s]
  PROVE  Copying'
BY DEF Copying, DestinationComplete, JobCid

\* The property: two handlers of a CAR that fits are one.
LEMMA ExclusionHolds ==
  ASSUME IndInv, ExclusionInv
  PROVE  OneHandlerPerCar /\ DestinationComplete
<1>1. ASSUME NEW s \in Slots, NEW t \in Slots, Busy(s), Busy(t),
             JobCid(s) = JobCid(t), JobCid(s) \in Fits
      PROVE  s = t
  <2>1. job[s].message \in Requests /\ job[t].message \in Requests
    BY <1>1, JobMessage
  <2>2. Contends(job[s].message) /\ Contends(job[t].message)
    BY <1>1 DEF Contends, Held, Holds
  <2>3. job[s].message = job[t].message
    BY <1>1, <2>1, <2>2 DEF ExclusionInv, Contention, JobCid
  <2> QED
    BY <1>1, <2>3 DEF ExclusionInv, Holding, Holds
<1> QED
  BY <1>1 DEF OneHandlerPerCar, ExclusionInv, Copying
-----------------------------------------------------------------------------
(* The AddPin lambda *)

\* A message that contends has a record.
LEMMA ContenderHasRecord ==
  ASSUME IndInv, NEW r \in Requests, Contends(r)
  PROVE  CidOf[r] \in Cids /\ HasStatus(CidOf[r])
<1>1. CASE Held(r)
  <2>1. PICK s \in Slots : Busy(s) /\ job[s].message = r
    BY <1>1 DEF Held, Holds
  <2> QED
    BY <2>1, JobMessage DEF JobCid
<1>2. CASE ~Held(r)
  BY <1>2, CidOfType DEF Contends, IndInv, RecordInv, RecordBeforeMessage,
    LateRequestHasRecord
<1> QED
  BY <1>1, <1>2

\* Who holds a message, and what was marked, does not change with the queue.
LEMMA ContendsFrame ==
  ASSUME NEW r \in Requests, UNCHANGED <<job, batch>>
  PROVE  Held(r)' = Held(r) /\ Marked(r)' = Marked(r)
BY DEF Held, Holds, Busy, Marked

\* A pin is put or re-queued when no message contends for it.
LEMMA EnqueueContention ==
  ASSUME IndInv, Contention, NEW r \in Requests,
         PutIfAbsent(CidOf[r], r) \/ UpdateFailedItem(CidOf[r], r),
         \A q \in Requests : q # r => request'[q] = request[q],
         UNCHANGED <<queue, job, batch>>
  PROVE  Contention'
<1>. CidOf \in [Requests -> Cids] /\ TableTypeOK
  BY CidOfType DEF IndInv, TypeOK
<1>. DEFINE c == CidOf[r]
<1>1. /\ table[c].status \in {"absent", "failed"}
      /\ \A d \in Cids :
           table'[d].status = IF d = c THEN "queued" ELSE table[d].status
  BY EnqueueEffect
<1>2. \A q \in Requests : c \in Fits /\ CidOf[q] = c => ~Contends(q)
  BY <1>1, ContenderHasRecord DEF Contention, HasStatus
<1>3. \A q \in Requests : q # r /\ Contends(q)' => Contends(q)
  BY ContendsFrame DEF Contends
<1> QED
  BY <1>1, <1>2, <1>3 DEF Contention

\* A step of the lambda keeps the invariant.
LEMMA ApiExclusion ==
  ASSUME IndInv, ExclusionInv, DeliversOnce, NEW r \in Requests, Api(r)
  PROVE  ExclusionInv'
<1>. /\ queue \in [Requests -> MessageState]
     /\ request \in [Requests -> RequestState]
  BY DEF IndInv, TypeOK, QueueTypeOK, RequestTypeOK
<1>1. UNCHANGED <<job, validation, destination, batch>>
  BY DEF Api, handlerVars
<1>2. CASE AddToQueue(r) \/ AddToQueueUnacknowledged(r)
  <2>1. /\ request[r] = "send" /\ UNCHANGED <<table, receives>>
        /\ queue' = [queue EXCEPT ![r] = "visible"]
        /\ \A q \in Requests : q # r => request'[q] = request[q]
        /\ request'[r] # "send"
    BY <1>2 DEF AddToQueue, AddToQueueUnacknowledged, Step, Send, Move,
      tableVars
  <2>2. queue[r] = "unsent"
    BY <2>1 DEF IndInv, RecordInv, EarlyRequestIsUnsent
  <2>3. \A q \in Requests : Contends(q)' => Contends(q)
    BY <1>1, <2>1, ContendsFrame DEF Contends
  <2>4. \A q \in Requests : Held(q) => q # r
    BY <2>2 DEF ExclusionInv, Holding, Held, Holds
  <2>5. Contention'
    BY <2>1, <2>3, ContentionKept DEF ExclusionInv
  <2>6. Holding'
    BY <1>1, <2>1, <2>4, ContendsFrame, HoldingKept DEF ExclusionInv, Busy
  <2>7. Batching'
    BY <1>1, <2>1, <2>2, BatchingKept DEF ExclusionInv, IndInv
  <2> QED
    BY <1>1, <2>5, <2>6, <2>7, CopyingKept DEF ExclusionInv
<1>3. CASE /\ ~(AddToQueue(r) \/ AddToQueueUnacknowledged(r))
           /\ ~\E q \in Requests : AddToQueueTwice(r, q)
  <2>1. UNCHANGED <<queue, receives>>
    BY <1>3 DEF Api, AddPinNext, RefuseRequest, PutPin, PutPinUnacknowledged,
      FindPin, GetPin, RequeueFailed, RequeueUnacknowledged, RequeueRefused,
      FindDelegates, GiveUpOnDelegates, RequestFails, queueVars
  <2>2. \A q \in Requests : q # r => request'[q] = request[q]
    BY <1>3 DEF Api, AddPinNext, RefuseRequest, PutPin, PutPinUnacknowledged,
      FindPin, GetPin, RequeueFailed, RequeueUnacknowledged, RequeueRefused,
      FindDelegates, GiveUpOnDelegates, RequestFails, Step, Answer
  <2>3. Contention'
    <3>1. CASE PutIfAbsent(CidOf[r], r) \/ UpdateFailedItem(CidOf[r], r)
      BY <1>1, <2>1, <2>2, <3>1, EnqueueContention DEF ExclusionInv
    <3>2. CASE UNCHANGED table /\ request'[r] # "send"
      <4>1. \A q \in Requests : Contends(q)' => Contends(q)
        BY <1>1, <2>1, <2>2, <3>2, ContendsFrame DEF Contends
      <4> QED
        BY <3>2, <4>1, ContentionKept DEF ExclusionInv
    <3> QED
      BY <1>3, <3>1, <3>2 DEF Api, AddPinNext, RefuseRequest, PutPin,
        PutPinUnacknowledged, FindPin, GetPin, RequeueFailed,
        RequeueUnacknowledged, RequeueRefused, FindDelegates,
        GiveUpOnDelegates, RequestFails, Step, Answer, tableVars
  <2>4. Holding'
    BY <1>1, <2>1, HoldingKept DEF ExclusionInv, Busy
  <2>5. Batching'
    BY <1>1, <2>1, BatchingKept DEF ExclusionInv, IndInv
  <2> QED
    BY <1>1, <2>3, <2>4, <2>5, CopyingKept DEF ExclusionInv
<1> QED
  BY <1>2, <1>3, NothingTwice DEF AddToQueueTwice
-----------------------------------------------------------------------------
(* The worker *)

\* A slot takes a message, which nobody else holds.
LEMMA ReceiveExclusion ==
  ASSUME IndInv, ExclusionInv, NEW s \in Slots, NEW r \in Requests,
         ReceiveMessage(s, r), UNCHANGED <<request, batch>>
  PROVE  ExclusionInv'
<1>. /\ job \in [Slots -> Job] /\ queue \in [Requests -> MessageState]
     /\ receives \in [Requests -> 0 .. MaxReceiveCount]
  BY DEF IndInv, TypeOK, HandlerTypeOK, QueueTypeOK
<1>1. /\ ~Busy(s) /\ queue[r] = "visible"
      /\ queue' = [queue EXCEPT ![r] = "inflight"]
      /\ receives' = [receives EXCEPT ![r] = @ + 1]
      /\ job' = [job EXCEPT ![s] = [pc |-> "announce", message |-> r,
                                    receipt |-> receives[r] + 1]]
      /\ UNCHANGED <<table, validation, destination>>
  BY DEF ReceiveMessage, Receive, tableVars
<1>2. \A q \in Requests : Held(q)' => Held(q) \/ q = r
  BY <1>1 DEF Held, Holds, Busy
<1>3. \A t \in Slots : Busy(t) => job[t].message # r
  BY <1>1 DEF ExclusionInv, Holding
<1>4. Contention'
  <2>1. \A q \in Requests : Contends(q)' => Contends(q)
    BY <1>1, <1>2 DEF Contends, Marked
  <2> QED
    BY <1>1, <2>1, ContentionKept DEF ExclusionInv
<1>5. Holding'
  <2>. SUFFICES ASSUME NEW t \in Slots, Busy(t)'
                PROVE  /\ queue'[job'[t].message] \in {"inflight", "gone"}
                       /\ job'[t].receipt = receives'[job'[t].message]
                       /\ \A u \in Slots : Holds(u, job[t].message)' => u = t
    BY DEF Holding
  <2>1. CASE t = s
    BY <1>1, <1>3, <2>1 DEF Holds, Busy
  <2>2. CASE t # s
    <3>1. job'[t] = job[t] /\ Busy(t) /\ job[t].message # r
      BY <1>1, <1>3, <2>2 DEF Busy
    <3>2. job[t].message \in Requests
      BY <3>1, JobMessage
    <3>3. \A u \in Slots : Holds(u, job[t].message)' => Holds(u, job[t].message)
      BY <1>1, <3>1 DEF Holds, Busy
    <3> QED
      BY <1>1, <3>1, <3>2, <3>3 DEF ExclusionInv, Holding
  <2> QED
    BY <2>1, <2>2
<1>6. Batching'
  BY <1>1, BatchingKept DEF ExclusionInv, IndInv
<1>7. Copying'
  <2>1. \A t \in Slots : job'[t].pc = "copy" => job'[t] = job[t]
    BY <1>1
  <2> QED
    BY <1>1, <2>1, CopyingKept DEF ExclusionInv
<1> QED
  BY <1>4, <1>5, <1>6, <1>7 DEF ExclusionInv

\* What a step of a handler does to its job and to the queue.
LEMMA HandlerEffect ==
  ASSUME IndInv, ExclusionInv, NEW s \in Slots, HandlerNext(s)
  PROVE  /\ Busy(s)
         /\ \A t \in Slots : t # s => job'[t] = job[t]
         /\ \/ job'[s] = NoJob
            \/ \E pc \in JobState : job'[s] = [job[s] EXCEPT !.pc = pc]
         /\ receives' = receives
         /\ \A r \in Requests : r # job[s].message => queue'[r] = queue[r]
         /\ \/ queue'[job[s].message] \in {queue[job[s].message], "gone"}
            \/ job'[s] = NoJob
<1>. /\ job \in [Slots -> Job] /\ queue \in [Requests -> MessageState]
  BY DEF IndInv, TypeOK, HandlerTypeOK, QueueTypeOK
<1>. DEFINE r == job[s].message
            n == job[s].receipt
<1>1. Busy(s)
  BY DEF HandlerNext, Announce, UploadCar, TooBig, FetchFails, VerifyCar,
    VerifyFails, CopyCar, CopyFails, MarkPinned, DeleteMessage, SettleFails,
    MarkTooBig, DropMessage, ReleaseMessage, Goto, Finish, Busy
<1>2. r \in Requests
  BY <1>1, JobMessage
<1>3. CASE DeleteMessage(s) \/ DropMessage(s) \/ ReleaseMessage(s)
  <2>1. /\ job' = [job EXCEPT ![s] = NoJob]
        /\ Delete(r, n) \/ Release(r, n)
    BY <1>3 DEF DeleteMessage, DropMessage, ReleaseMessage, Finish
  <2> QED
    BY <1>1, <1>2, <2>1 DEF Delete, Release, Expire, Move, queueVars
<1>4. CASE SettleFails(s)
  <2>1. /\ Goto(s, "pin", "release") \/ Goto(s, "del", "release")
        /\ UNCHANGED queueVars \/ Delete(r, n)
    BY <1>4 DEF SettleFails
  <2> QED
    BY <1>1, <1>2, <2>1 DEF Goto, JobState, Delete, Move, queueVars
<1>5. CASE \/ Announce(s) \/ UploadCar(s) \/ TooBig(s) \/ FetchFails(s)
           \/ VerifyCar(s) \/ VerifyFails(s) \/ CopyCar(s) \/ CopyFails(s)
           \/ MarkPinned(s) \/ MarkTooBig(s)
  <2>1. /\ \E from, to \in JobState : Goto(s, from, to)
        /\ UNCHANGED queueVars
    BY <1>5 DEF Announce, UploadCar, TooBig, FetchFails, VerifyCar,
      VerifyFails, CopyCar, CopyFails, MarkPinned, MarkTooBig, JobState
  <2> QED
    BY <1>1, <2>1 DEF Goto, queueVars
<1> QED
  BY <1>3, <1>4, <1>5 DEF HandlerNext

\* The CARs: while a handler is between the check and the copy, no other one
\* uploads to the key it has checked.
LEMMA HandlerCopying ==
  ASSUME IndInv, ExclusionInv, NEW s \in Slots, HandlerNext(s)
  PROVE  Copying'
<1>. /\ job \in [Slots -> Job] /\ validation \in [Cids -> Car]
     /\ destination \in [Cids -> Car]
  BY DEF IndInv, TypeOK, HandlerTypeOK
<1>. DEFINE c == JobCid(s)
<1>1. Busy(s) /\ \A t \in Slots : t # s => job'[t] = job[t]
  BY HandlerEffect
<1>2. c \in Cids
  BY <1>1, JobMessage
<1>3. CASE (UploadCar(s) \/ FetchFails(s)) /\ WriteCar(c)
  <2>1. /\ job'[s].pc # "copy" /\ UNCHANGED destination
        /\ \E car \in {"partial", "complete"} :
             /\ validation' = [validation EXCEPT ![c] = car]
             /\ c \notin Fits => car = "partial"
    <3>1. job'[s].pc # "copy" /\ UNCHANGED destination /\ WriteCar(c)
      BY <1>3 DEF UploadCar, FetchFails, Goto, Job
    <3>2. CASE c \in Fits
      BY <3>1, <3>2 DEF WriteCar
    <3>3. CASE c \notin Fits
      BY <3>1, <3>3 DEF WriteCar
    <3> QED
      BY <3>2, <3>3
  <2>2. ASSUME NEW t \in Slots, job'[t].pc = "copy"
        PROVE  JobCid(t)' \in Fits /\ validation'[JobCid(t)'] # "partial"
    <3>1. t # s /\ job'[t] = job[t] /\ Busy(t) /\ JobCid(t)' = JobCid(t)
      BY <1>1, <2>1, <2>2 DEF Busy, JobCid
    <3>2. JobCid(t) \in Fits /\ validation[JobCid(t)] # "partial"
      BY <2>2, <3>1 DEF ExclusionInv, Copying
    <3>3. JobCid(t) # c
      BY <1>1, <3>1, <3>2, ExclusionHolds DEF OneHandlerPerCar
    <3> QED
      BY <2>1, <3>1, <3>2, <3>3
  <2> QED
    BY <1>2, <2>1, <2>2 DEF ExclusionInv, Copying, DestinationComplete
<1>4. CASE VerifyCar(s)
  <2>1. /\ UNCHANGED <<validation, destination>> /\ validation[c] = "complete"
        /\ JobCid(s)' = c
    BY <1>4 DEF VerifyCar, Goto, Job, JobCid
  <2>2. \A t \in Slots : t # s => JobCid(t)' = JobCid(t)
    BY <1>1 DEF JobCid
  <2> QED
    BY <1>1, <1>2, <2>1, <2>2 DEF ExclusionInv, Copying, DestinationComplete
<1>5. CASE (CopyCar(s) \/ CopyFails(s)) /\ CopyObject(c)
  <2>1. /\ job[s].pc = "copy" /\ job'[s].pc # "copy" /\ UNCHANGED validation
        /\ destination' = [destination EXCEPT ![c] = validation[c]]
    BY <1>5 DEF CopyCar, CopyFails, CopyObject, Goto, Job
  <2>2. validation[c] # "partial"
    BY <2>1 DEF ExclusionInv, Copying
  <2>3. \A t \in Slots : t # s => JobCid(t)' = JobCid(t)
    BY <1>1 DEF JobCid
  <2> QED
    BY <1>1, <1>2, <2>1, <2>2, <2>3
    DEF ExclusionInv, Copying, DestinationComplete
<1>6. CASE /\ UNCHANGED <<validation, destination>>
           /\ ~(UploadCar(s) \/ VerifyCar(s) \/ CopyCar(s))
  <2>1. job'[s].pc # "copy"
    BY <1>6 DEF HandlerNext, Announce, TooBig, FetchFails, VerifyFails,
      CopyFails, MarkPinned, DeleteMessage, SettleFails, MarkTooBig,
      DropMessage, ReleaseMessage, Goto, Finish, NoJob, Job
  <2> QED
    BY <1>1, <1>6, <2>1, CopyingKept DEF ExclusionInv
<1>7. CASE UploadCar(s) \/ VerifyCar(s) \/ CopyCar(s)
  <2>1. CASE CopyCar(s)
    BY <1>5, <2>1 DEF CopyCar
  <2>2. CASE UploadCar(s)
    BY <1>3, <2>2 DEF UploadCar
  <2>3. CASE VerifyCar(s)
    BY <1>4, <2>3
  <2> QED
    BY <1>7, <2>1, <2>2, <2>3
<1>8. CASE ~(UploadCar(s) \/ VerifyCar(s) \/ CopyCar(s))
  <2>1. CASE FetchFails(s)
    BY <1>3, <1>6, <1>8, <2>1 DEF FetchFails
  <2>2. CASE CopyFails(s)
    BY <1>5, <1>6, <1>8, <2>2 DEF CopyFails
  <2>3. CASE ~FetchFails(s) /\ ~CopyFails(s)
    <3>1. UNCHANGED <<validation, destination>>
      BY <1>8, <2>3 DEF HandlerNext, Announce, TooBig, VerifyFails,
        MarkPinned, DeleteMessage, SettleFails, MarkTooBig, DropMessage,
        ReleaseMessage
    <3> QED
      BY <1>6, <1>8, <3>1
  <2> QED
    BY <2>1, <2>2, <2>3
<1> QED
  BY <1>7, <1>8


\* A step of a handler keeps the invariant.
LEMMA HandlerExclusion ==
  ASSUME IndInv, ExclusionInv, NEW s \in Slots, HandlerNext(s),
         UNCHANGED <<request, batch>>
  PROVE  ExclusionInv'
<1>. job \in [Slots -> Job] /\ TableTypeOK
  BY DEF IndInv, TypeOK, HandlerTypeOK
<1>. DEFINE r == job[s].message
<1>1. /\ Busy(s) /\ receives' = receives
      /\ \A t \in Slots : t # s => job'[t] = job[t]
      /\ \A q \in Requests : q # r => queue'[q] = queue[q]
      /\ queue'[r] \in {queue[r], "gone"} \/ job'[s] = NoJob
  BY HandlerEffect
<1>2. Busy(s)' => /\ job'[s].message = r
                  /\ job'[s].receipt = job[s].receipt
  <2>1. CASE job'[s] = NoJob
    BY <2>1 DEF NoJob, Busy
  <2>2. CASE job'[s] # NoJob
    <3>1. PICK pc \in JobState : job'[s] = [job[s] EXCEPT !.pc = pc]
      BY <2>2, HandlerEffect
    <3> QED
      BY <3>1 DEF Job
  <2> QED
    BY <2>1, <2>2
<1>3. r \in Requests /\ JobCid(s) \in Cids /\ HasStatus(JobCid(s))
  BY <1>1, JobMessage
<1>4. queue[r] \in {"inflight", "gone"} /\ \A t \in Slots : Holds(t, r) => t = s
  BY <1>1 DEF ExclusionInv, Holding
<1>5. \A q \in Requests : Held(q)' => Held(q)
  BY <1>1, <1>2 DEF Held, Holds, Busy
<1>6. \A q \in Requests : Contends(q)' => Contends(q)
  <2>1. Contends(r)
    BY <1>1 DEF Contends, Held, Holds
  <2> QED
    BY <1>1, <1>5, <2>1 DEF Contends, Marked
<1>7. \A c \in Cids : c \in Fits /\ table'[c].status = "failed"
                       => table[c].status = "failed"
  <2>1. CASE MarkTooBig(s)
    <3>1. JobCid(s) \notin Fits
      BY <2>1 DEF MarkTooBig, Goto, IndInv, JobInv
    <3> QED
      BY <1>3, <2>1, <3>1, StatusEffect DEF MarkTooBig
  <2>2. CASE Announce(s)
    BY <1>3, <2>2, DelegatesEffect, WorkerOfType DEF Announce
  <2>3. CASE UpdatePinStatus(JobCid(s), "pinned")
    BY <1>3, <2>3, StatusEffect
  <2>4. CASE UNCHANGED table
    BY <2>4
  <2> QED
    BY <2>1, <2>2, <2>3, <2>4 DEF HandlerNext, UploadCar, TooBig, FetchFails,
      VerifyCar, VerifyFails, CopyCar, CopyFails, MarkPinned, DeleteMessage,
      SettleFails, DropMessage, ReleaseMessage, tableVars
<1>8. Contention'
  BY <1>6, <1>7, ContentionKept DEF ExclusionInv
<1>9. Holding'
  <2>1. \A t \in Slots : Busy(t)' =>
          /\ Busy(t)
          /\ job'[t].message = job[t].message
          /\ job'[t].receipt = job[t].receipt
    BY <1>1, <1>2 DEF Busy
  <2>2. \A q \in Requests : Held(q)' => queue'[q] \in {queue[q], "gone"}
    <3>1. \A q \in Requests : q = r /\ job'[s] = NoJob => ~Held(q)'
      BY <1>1, <1>4 DEF Held, Holds, Busy, NoJob
    <3> QED
      BY <1>1, <3>1
  <2> QED
    BY <1>1, <2>1, <2>2, HoldingKept DEF ExclusionInv
<1>10. Batching'
  BY <1>1, <1>4, BatchingKept DEF ExclusionInv, IndInv
<1> QED
  BY <1>8, <1>9, <1>10, HandlerCopying DEF ExclusionInv

\* A worker that dies holds nothing any more.
LEMMA CrashExclusion ==
  ASSUME IndInv, ExclusionInv, NEW w \in Workers, WorkerCrash(w)
  PROVE  ExclusionInv'
<1>1. /\ UNCHANGED <<table, queue, receives, request, batch>>
      /\ UNCHANGED <<validation, destination>>
      /\ \A s \in Slots : job'[s] \in {NoJob, job[s]}
  BY DEF WorkerCrash, Crash, tableVars, queueVars, requestVars
<1>2. \A s \in Slots : Busy(s)' \/ job'[s].pc = "copy" => job'[s] = job[s]
  BY <1>1 DEF Busy, NoJob
<1>3. \A r \in Requests : Held(r)' => Held(r)
  BY <1>2 DEF Held, Holds, Busy
<1>4. Contention'
  BY <1>1, <1>3, ContentionKept DEF ExclusionInv, Contends, Marked
<1>5. Holding'
  BY <1>1, <1>2, HoldingKept DEF ExclusionInv, Busy
<1>6. Batching'
  BY <1>1, BatchingKept DEF ExclusionInv, IndInv
<1> QED
  BY <1>1, <1>2, <1>4, <1>5, <1>6, CopyingKept DEF ExclusionInv

-----------------------------------------------------------------------------
(* The dead letter lambda and the platform *)

\* A pin is failed when its last message is dead, and that message, marked,
\* never leaves the lambda but to be deleted.
LEMMA DeadLettersExclusion ==
  ASSUME IndInv, ExclusionInv, DeliversOnce, NEW i \in Invocations,
         DeadLetters(i)
  PROVE  ExclusionInv'
<1>. /\ batch \in [Invocations -> Batch] /\ CidOf \in [Requests -> Cids]
     /\ TableTypeOK
  BY CidOfType DEF IndInv, TypeOK, BatchTypeOK
<1>1. UNCHANGED <<request, job, validation, destination, receives>>
  BY DEF DeadLetters, FailPinNext, ReceiveBatch, MarkFailed, MarkingFails,
    CompleteBatch, LambdaKilled, requestVars, handlerVars, queueVars
<1>2. \A j \in Invocations : j # i => batch'[j] = batch[j]
  BY DEF DeadLetters, FailPinNext, ReceiveBatch, MarkFailed, MarkingFails,
    CompleteBatch, LambdaKilled
<1>3. \A j \in Invocations : j # i => Records(j)' = Records(j)
  BY <1>2 DEF Records
<1>4. Copying'
  BY <1>1, CopyingKept DEF ExclusionInv
<1>5. \A r \in Requests : Held(r)' = Held(r) /\ (Held(r) => queue[r] # "dead")
  BY <1>1 DEF Held, Holds, Busy, ExclusionInv, Holding
<1>6. CASE ReceiveBatch(i)
  <2>1. PICK msgs \in SUBSET Requests :
          /\ \A r \in msgs : queue[r] = "dead" /\ r \notin Hidden
          /\ batch[i] = NoBatch
          /\ batch' = [batch EXCEPT ![i].todo = msgs]
          /\ UNCHANGED <<table, queue>>
    BY <1>6 DEF ReceiveBatch, tableVars, queueVars
  <2>2. /\ batch'[i].todo = msgs /\ batch'[i].marked = {}
        /\ batch'[i].unmarked = {} /\ Records(i)' = msgs
    BY <2>1 DEF NoBatch, Batch, Records
  <2>3. \A j \in Invocations : \A r \in msgs : r \notin Records(j)
    BY <2>1 DEF Hidden
  <2>4. Batching'
    BY <1>2, <1>3, <2>1, <2>2, <2>3 DEF ExclusionInv, Batching
  <2>5. \A r \in Requests : Marked(r) => Marked(r)'
    BY <1>2, <2>1 DEF Marked, NoBatch
  <2>6. Contention'
    BY <1>1, <1>5, <2>1, <2>5, ContentionKept DEF ExclusionInv, Contends
  <2>7. Holding'
    BY <1>1, <2>1, HoldingKept DEF ExclusionInv, Busy
  <2> QED
    BY <1>4, <2>4, <2>6, <2>7 DEF ExclusionInv
<1>7. CASE \E r \in Requests : MarkFailed(i, r)
  <2>1. PICK r \in Requests : MarkFailed(i, r)
    BY <1>7
  <2>2. /\ r \in batch[i].todo /\ UNCHANGED queue
        /\ UpdatePinStatus(CidOf[r], "failed")
        /\ batch' = [batch EXCEPT ![i].todo = @ \ {r},
                                  ![i].marked = @ \cup {r}]
    BY <2>1 DEF MarkFailed, queueVars
  <2>3. /\ batch'[i].todo = batch[i].todo \ {r}
        /\ batch'[i].marked = batch[i].marked \cup {r}
        /\ batch'[i].unmarked = batch[i].unmarked
        /\ Records(i)' = Records(i)
    BY <2>2 DEF Batch, Records
  <2>4. Batching'
    BY <1>2, <1>3, <2>2, <2>3 DEF ExclusionInv, Batching
  <2>5. queue[r] = "dead" /\ ~Marked(r)
    BY <2>2 DEF ExclusionInv, Batching, Marked, Records
  <2>6. ~Contends(r)'
    <3>1. Marked(r)'
      BY <2>3 DEF Marked
    <3>2. request[r] # "send"
      BY <2>5 DEF IndInv, RecordInv, EarlyRequestIsUnsent
    <3> QED
      BY <1>1, <1>5, <2>2, <2>5, <3>1, <3>2 DEF Contends
  <2>7. \A q \in Requests : Contends(q)' => Contends(q)
    <3>1. \A q \in Requests : Marked(q) => Marked(q)'
      BY <1>2, <2>3 DEF Marked
    <3> QED
      BY <1>1, <1>5, <2>2, <3>1 DEF Contends
  <2>8. \A q \in Requests : Contends(q)' /\ CidOf[q] \in Fits
          => CidOf[q] # CidOf[r]
    BY <2>5, <2>6, <2>7 DEF ExclusionInv, Contention, Contends
  <2>9. \A d \in Cids : d # CidOf[r] => table'[d].status = table[d].status
    BY <2>2, StatusEffect
  <2>10. Contention'
    BY <2>7, <2>8, <2>9 DEF ExclusionInv, Contention
  <2>11. Holding'
    BY <1>1, <2>2, HoldingKept DEF ExclusionInv, Busy
  <2> QED
    BY <1>4, <2>4, <2>10, <2>11 DEF ExclusionInv
<1>8. CASE CompleteBatch(i)
  <2>1. /\ UNCHANGED table /\ batch' = [batch EXCEPT ![i] = NoBatch]
        /\ queue' = [r \in Requests |->
                       IF r \in batch[i].marked THEN "gone" ELSE queue[r]]
        /\ batch[i].todo = {}
    BY <1>8 DEF CompleteBatch, tableVars
  <2>2. /\ Records(i)' = {} /\ batch'[i].unmarked = {} /\ batch'[i].todo = {}
        /\ batch'[i].marked = {}
    BY <2>1 DEF NoBatch, Records
  <2>3. \A j \in Invocations : j # i => Records(j) \cap batch[i].marked = {}
    BY DEF ExclusionInv, Batching, Records
  <2>4. \A j \in Invocations : Records(j) \subseteq Requests
    BY DEF Batch, Records
  <2>5. Batching'
    BY <1>2, <1>3, <2>1, <2>2, <2>3, <2>4 DEF ExclusionInv, Batching
  <2>6. \A r \in batch[i].marked : queue[r] = "dead"
    BY DEF ExclusionInv, Batching, Records
  <2>7. \A r \in Requests : Contends(r)' => Contends(r)
    <3>1. \A r \in Requests : Marked(r) => Marked(r)' \/ r \in batch[i].marked
      BY <1>2 DEF Marked
    <3> QED
      BY <1>1, <1>5, <2>1, <3>1 DEF Contends
  <2>8. Contention'
    BY <2>1, <2>7, ContentionKept DEF ExclusionInv
  <2>9. Holding'
    BY <1>1, <2>1, HoldingKept DEF ExclusionInv, Busy
  <2> QED
    BY <1>4, <2>5, <2>8, <2>9 DEF ExclusionInv
<1> QED
  BY <1>6, <1>7, <1>8, NothingTwice
  DEF DeadLetters, FailPinNext, MarkingFails, LambdaKilled

\* SQS delivers a message again when nobody holds it, or finds it spent.
LEMMA SqsExclusion ==
  ASSUME IndInv, ExclusionInv, DeliversOnce, NEW r \in Requests, Sqs(r)
  PROVE  ExclusionInv'
<1>. queue \in [Requests -> MessageState]
  BY DEF IndInv, TypeOK, QueueTypeOK
<1>1. /\ UNCHANGED <<table, receives, request, job, validation, destination,
                     batch>>
      /\ \/ queue[r] = "inflight" /\ ~Held(r)
            /\ queue' = [queue EXCEPT ![r] = "visible"]
         \/ queue[r] = "visible" /\ queue' = [queue EXCEPT ![r] = "dead"]
  BY NothingTwice DEF Sqs, LapseMessage, Expire, Redrive, Move, tableVars,
    requestVars, handlerVars
<1>2. \A q \in Requests : Contends(q)' => Contends(q)
  BY <1>1, ContendsFrame DEF Contends
<1>3. Contention'
  BY <1>1, <1>2, ContentionKept DEF ExclusionInv
<1>4. \A q \in Requests : Held(q)' => Held(q) /\ queue'[q] = queue[q]
  BY <1>1, ContendsFrame DEF ExclusionInv, Holding, Held, Holds
<1>5. Holding'
  BY <1>1, <1>4, HoldingKept DEF ExclusionInv, Busy
<1>6. Batching'
  BY <1>1, BatchingKept DEF ExclusionInv, IndInv
<1> QED
  BY <1>1, <1>3, <1>5, <1>6, CopyingKept DEF ExclusionInv

\* A replica catches up, or an object expires: there is nothing to copy then.
LEMMA StorageExclusion ==
  ASSUME IndInv, ExclusionInv, NEW c \in Cids, Storage(c)
  PROVE  ExclusionInv'
<1>. validation \in [Cids -> Car]
  BY DEF IndInv, TypeOK, HandlerTypeOK
<1>1. /\ UNCHANGED <<table, queue, receives, request, job, destination, batch>>
      /\ \A d \in Cids : validation'[d] \in {validation[d], "none"}
  BY DEF Storage, Sync, ExpireCar, queueVars, requestVars, handlerVars,
    tableVars
<1>2. Contention'
  BY <1>1, ContendsFrame, ContentionKept DEF ExclusionInv, Contends
<1>3. Holding'
  BY <1>1, HoldingKept DEF ExclusionInv, Busy
<1>4. Batching'
  BY <1>1, BatchingKept DEF ExclusionInv, IndInv
<1>5. Copying'
  BY <1>1, FitsType DEF ExclusionInv, Copying, DestinationComplete, JobCid
<1> QED
  BY <1>2, <1>3, <1>4, <1>5 DEF ExclusionInv

-----------------------------------------------------------------------------
(* The theorems *)

\* The initial state satisfies the invariant.
LEMMA InitExclusion == Init => ExclusionInv
<1>. SUFFICES ASSUME Init
              PROVE  ExclusionInv
  OBVIOUS
<1>. USE DEF Init, TableInit, QueueInit, RequestInit, HandlerInit, BatchInit
<1>. CidOf \in [Requests -> Cids]
  BY CidOfType
<1>1. Contention
  BY DEF Contention, Contends, Held, Holds, Busy, NoJob
<1>2. Holding
  BY DEF Holding, Busy, NoJob
<1>3. Batching
  BY DEF Batching, Records, NoBatch
<1>4. Copying
  BY DEF Copying, DestinationComplete, NoJob
<1> QED
  BY <1>1, <1>2, <1>3, <1>4 DEF ExclusionInv

\* Every step keeps it.
LEMMA NextExclusion ==
  ASSUME IndInv, ExclusionInv, DeliversOnce, [Next]_vars
  PROVE  ExclusionInv'
<1>1. CASE \E s \in Slots : Worker(s)
  BY <1>1, ReceiveExclusion, HandlerExclusion DEF Worker, requestVars
<1>2. CASE UNCHANGED vars
  <2>1. UNCHANGED <<table, queue, receives, request, job, validation,
                    destination, batch>>
    BY <1>2 DEF vars, tableVars, queueVars, requestVars, handlerVars
  <2>2. Contention'
    BY <2>1, ContendsFrame, ContentionKept DEF ExclusionInv, Contends
  <2>3. Holding'
    BY <2>1, HoldingKept DEF ExclusionInv, Busy
  <2>4. Batching'
    BY <2>1, BatchingKept DEF ExclusionInv, IndInv
  <2> QED
    BY <2>1, <2>2, <2>3, <2>4, CopyingKept DEF ExclusionInv
<1> QED
  BY <1>1, <1>2, ApiExclusion, CrashExclusion, DeadLettersExclusion,
    SqsExclusion, StorageExclusion DEF Next, Rest

\* The exclusion invariant, when nothing is delivered twice.
THEOREM Exclusion == DeliversOnce /\ Spec => []ExclusionInv
<1>1. ASSUME DeliversOnce
      PROVE  IndInv /\ ExclusionInv /\ [Next]_vars => ExclusionInv'
  BY <1>1, NextExclusion
<1>2. CASE DeliversOnce
  <2>1. IndInv /\ ExclusionInv /\ [Next]_vars => ExclusionInv'
    BY <1>1, <1>2
  <2> QED
    BY Invariance, InitExclusion, <2>1, PTL DEF Spec
<1> QED
  BY <1>2

\* A CAR that fits is fetched, checked and copied by one handler at a time,
\* although no lock says so, as long as nothing is delivered twice.
THEOREM OneHandler == DeliversOnce /\ Spec => []OneHandlerPerCar
<1>1. IndInv /\ ExclusionInv => OneHandlerPerCar
  BY ExclusionHolds
<1> QED
  BY Invariance, Exclusion, <1>1, PTL

\* What a handler copies to the destination is the CAR it verified, and no
\* other handler has written over it in between.
THEOREM CopiesAreComplete == DeliversOnce /\ Spec => []DestinationComplete
<1>1. IndInv /\ ExclusionInv => DestinationComplete
  BY ExclusionHolds
<1> QED
  BY Invariance, Exclusion, <1>1, PTL

\* A client whose request was accepted does not wait for nothing, unless a
\* lambda of the API ended between its put and its SendMessage, or lost the
\* answer to its put.
THEOREM AcceptedPinsAreInProgress ==
  ~CanFail("api") /\ ~CanFail("put") /\ Spec => []AcceptedPinIsInProgress
<1>1. ASSUME ~CanFail("api"), ~CanFail("put")
      PROVE  IndInv => AcceptedPinIsInProgress
  <2>1. ASSUME IndInv, NEW r \in Requests, table[CidOf[r]].status = "queued"
        PROVE  \E q \in RequestsFor(CidOf[r]) : request[q] = "send" \/ Live(q)
    <3>1. OwnedBy(CidOf[r], table[CidOf[r]].created)
      BY <2>1, CidOfType DEF IndInv, RecordInv, QueuedIsOwned
    <3> QED
      BY <1>1, <3>1 DEF OwnedBy, Abandoned
  <2> QED
    BY <2>1 DEF AcceptedPinIsInProgress
<1>2. CASE ~CanFail("api") /\ ~CanFail("put")
  <2>1. IndInv => AcceptedPinIsInProgress
    BY <1>1, <1>2
  <2> QED
    BY Invariance, <2>1, PTL
<1> QED
  BY <1>2

-----------------------------------------------------------------------------
(* Pins that are done *)

\* Only its own request sends a message.
LEMMA UnsentIsSent ==
  ASSUME IndInv, ExclusionInv, DeliversOnce, [Next]_vars, NEW r \in Requests,
         queue[r] = "unsent", queue'[r] # "unsent"
  PROVE  request[r] = "send"
<1>. queue \in [Requests -> MessageState]
  BY DEF IndInv, TypeOK, QueueTypeOK
<1>1. ASSUME NEW q \in Requests, Api(q)
      PROVE  request[r] = "send"
  <2>1. AddToQueue(q) \/ AddToQueueUnacknowledged(q)
    BY <1>1, NothingTwice DEF Api, AddPinNext, RefuseRequest, PutPin,
      PutPinUnacknowledged, FindPin, GetPin, RequeueFailed,
      RequeueUnacknowledged, RequeueRefused, AddToQueueTwice, FindDelegates,
      GiveUpOnDelegates, RequestFails, queueVars
  <2> QED
    BY <2>1 DEF AddToQueue, AddToQueueUnacknowledged, Step, Send, Move
<1>2. ASSUME NEW s \in Slots, Worker(s)
      PROVE  FALSE
  <2>1. CASE HandlerNext(s)
    <3>1. Busy(s) /\ \A q \in Requests : q # job[s].message => queue'[q] = queue[q]
      BY <2>1, HandlerEffect
    <3> QED
      BY <3>1 DEF IndInv, JobInv, Sent
  <2>2. CASE ~HandlerNext(s)
    BY <1>2, <2>2 DEF Worker, ReceiveMessage, Receive
  <2> QED
    BY <2>1, <2>2
<1>3. ASSUME NEW i \in Invocations, DeadLetters(i)
      PROVE  FALSE
  BY <1>3 DEF DeadLetters, FailPinNext, ReceiveBatch, MarkFailed,
    MarkingFails, CompleteBatch, LambdaKilled, queueVars, IndInv, BatchInv,
    Records, Sent
<1>4. ASSUME NEW q \in Requests, Sqs(q)
      PROVE  FALSE
  BY <1>4 DEF Sqs, LapseMessage, Expire, Redrive, Move
<1> QED
  BY <1>1, <1>2, <1>3, <1>4
  DEF Next, WorkerCrash, Crash, Storage, ExpireCar, Rest, vars, queueVars

\* The status of a pin that fits only changes when a request queues it, or by
\* the holder of a message for it that is not yet gone.
LEMMA StatusSteps ==
  ASSUME IndInv, ExclusionInv, SettlingInv, DeliversOnce, [Next]_vars,
         NEW c \in Cids, c \in Fits, table'[c].status # table[c].status
  PROVE  \/ table[c].status # "pinned" /\ table'[c].status = "queued"
         \/ \E q \in RequestsFor(c) :
              Contends(q) /\ queue[q] \in {"inflight", "dead"}
<1>. TableTypeOK /\ CidOf \in [Requests -> Cids]
  BY CidOfType DEF IndInv, TypeOK
<1>1. ASSUME NEW r \in Requests, Api(r)
      PROVE  table[c].status # "pinned" /\ table'[c].status = "queued"
  <2>1. PutIfAbsent(CidOf[r], r) \/ UpdateFailedItem(CidOf[r], r)
    BY <1>1 DEF Api, AddPinNext, RefuseRequest, PutPin, PutPinUnacknowledged,
      FindPin, GetPin, RequeueFailed, RequeueUnacknowledged, RequeueRefused,
      AddToQueue, AddToQueueUnacknowledged, AddToQueueTwice, FindDelegates,
      GiveUpOnDelegates, RequestFails, tableVars
  <2> QED
    BY <2>1, EnqueueEffect
<1>2. ASSUME NEW s \in Slots, Worker(s)
      PROVE  \E q \in RequestsFor(c) :
               Contends(q) /\ queue[q] \in {"inflight", "dead"}
  <2>1. HandlerNext(s)
    BY <1>2 DEF Worker, ReceiveMessage, tableVars
  <2>2. Busy(s)
    BY <2>1, HandlerEffect
  <2>3. /\ job[s].message \in RequestsFor(JobCid(s)) /\ JobCid(s) \in Cids
        /\ HasStatus(JobCid(s)) /\ WorkerOf[s] \in Workers
    BY <2>2, JobMessage, WorkerOfType
  <2>4. JobCid(s) = c /\ job[s].pc \in {"pin", "fail"}
    <3>1. ~Announce(s)
      BY <2>3, DelegatesEffect DEF Announce
    <3>2. CASE MarkPinned(s) \/ SettleFails(s)
      <4>1. job[s].pc = "pin" /\ UpdatePinStatus(JobCid(s), "pinned")
        BY <3>2 DEF MarkPinned, SettleFails, Goto, tableVars
      <4> QED
        BY <2>3, <4>1, StatusEffect
    <3>3. CASE MarkTooBig(s)
      <4>1. job[s].pc = "fail" /\ UpdatePinStatus(JobCid(s), "failed")
        BY <3>3 DEF MarkTooBig, Goto
      <4> QED
        BY <2>3, <4>1, StatusEffect
    <3> QED
      BY <2>1, <3>1, <3>2, <3>3 DEF HandlerNext, UploadCar, TooBig,
        FetchFails, VerifyCar, VerifyFails, CopyCar, CopyFails,
        DeleteMessage, DropMessage, ReleaseMessage, tableVars
  <2>5. queue[job[s].message] = "inflight"
    BY <2>2, <2>4 DEF ExclusionInv, Holding, SettlingInv
  <2>6. Contends(job[s].message)
    BY <2>2 DEF Contends, Held, Holds
  <2> QED
    BY <2>3, <2>4, <2>5, <2>6
<1>3. ASSUME NEW i \in Invocations, DeadLetters(i)
      PROVE  \E q \in RequestsFor(c) :
               Contends(q) /\ queue[q] \in {"inflight", "dead"}
  <2>1. PICK r \in Requests : MarkFailed(i, r)
    BY <1>3, NothingTwice DEF DeadLetters, FailPinNext, ReceiveBatch,
      MarkingFails, CompleteBatch, LambdaKilled, tableVars
  <2>2. r \in batch[i].todo /\ UpdatePinStatus(CidOf[r], "failed")
    BY <2>1 DEF MarkFailed
  <2>3. CidOf[r] = c
    BY <2>2, StatusEffect
  <2>4. queue[r] = "dead" /\ ~Marked(r)
    BY <2>2 DEF ExclusionInv, Batching, Marked, Records
  <2> QED
    BY <2>3, <2>4 DEF RequestsFor, Contends
<1> QED
  BY <1>1, <1>2, <1>3 DEF Next, WorkerCrash, Crash, Sqs, LapseMessage, Storage,
    Sync, ExpireCar, Rest, vars, tableVars

\* A message that is about to be sent is the only one that contends for its
\* pin, so that nobody settles the pin before.
LEMMA SendIsQueued ==
  ASSUME IndInv, ExclusionInv, SettlingInv, DeliversOnce, [Next]_vars,
         NEW r \in Requests, request'[r] = "send", CidOf[r] \in Fits
  PROVE  table'[CidOf[r]].status = "queued"
<1>. DEFINE c == CidOf[r]
<1>. c \in Cids /\ TableTypeOK /\ request \in [Requests -> RequestState]
  BY CidOfType DEF IndInv, TypeOK, RequestTypeOK
<1>1. CASE request[r] = "send"
  <2>1. table[c].status = "queued" /\ Contends(r) /\ queue[r] = "unsent"
    BY <1>1 DEF SettlingInv, Contends, IndInv, RecordInv, EarlyRequestIsUnsent
  <2>2. \A q \in RequestsFor(c) : Contends(q) => q = r
    BY <2>1 DEF ExclusionInv, Contention, RequestsFor
  <2> QED
    BY <2>1, <2>2, StatusSteps
<1>2. CASE request[r] # "send"
  <2>1. PICK q \in Requests : Api(q)
    BY <1>2 DEF Next, Worker, WorkerCrash, DeadLetters, Sqs, Storage, Rest,
      vars, requestVars
  <2>2. q = r /\ (PutPin(r) \/ RequeueFailed(r))
    BY <1>2, <2>1, NothingTwice DEF Api, AddPinNext, RefuseRequest, PutPin,
      PutPinUnacknowledged, FindPin, GetPin, RequeueFailed,
      RequeueUnacknowledged, RequeueRefused, AddToQueue,
      AddToQueueUnacknowledged, AddToQueueTwice, FindDelegates,
      GiveUpOnDelegates, RequestFails, Step, Answer, Answered
  <2> QED
    BY <2>2, EnqueueEffect DEF PutPin, RequeueFailed
<1> QED
  BY <1>1, <1>2

\* A handler's message is only deleted by that handler, which ends with it.
LEMMA GoneIsReleased ==
  ASSUME IndInv, ExclusionInv, SettlingInv, DeliversOnce, [Next]_vars,
         NEW s \in Slots, Busy(s)', queue'[job'[s].message] = "gone"
  PROVE  job'[s].pc = "release"
<1>. /\ job \in [Slots -> Job] /\ queue \in [Requests -> MessageState]
  BY DEF IndInv, TypeOK, HandlerTypeOK, QueueTypeOK
<1>1. CASE job'[s] = job[s] /\ queue'[job[s].message] = queue[job[s].message]
  BY <1>1 DEF SettlingInv, Busy
<1>2. ASSUME Busy(s), job'[s] = job[s]
      PROVE  job[s].message \in Requests /\ queue[job[s].message] \in {"inflight", "gone"}
  BY <1>2, JobMessage DEF ExclusionInv, Holding
<1>3. ASSUME NEW t \in Slots, HandlerNext(t)
      PROVE  job'[s].pc = "release"
  <2>1. CASE t # s
    <3>1. job'[s] = job[s] /\ Busy(s) /\ Busy(t)
      BY <1>3, <2>1, HandlerEffect DEF Busy
    <3>2. job[s].message # job[t].message
      BY <2>1, <3>1 DEF ExclusionInv, Holding, Holds
    <3> QED
      BY <1>1, <1>2, <1>3, <3>1, <3>2, HandlerEffect
  <2>2. CASE t = s
    <3>1. Busy(s) /\ job'[s] # NoJob
      BY <1>3, <2>2, HandlerEffect DEF Busy, NoJob
    <3>2. ~(DeleteMessage(s) \/ DropMessage(s) \/ ReleaseMessage(s))
      BY <3>1 DEF DeleteMessage, DropMessage, ReleaseMessage, Finish
    <3>3. CASE SettleFails(s)
      BY <3>3 DEF SettleFails, Goto, Job
    <3>4. CASE ~SettleFails(s)
      <4>1. /\ job[s].pc # "release" /\ job'[s].message = job[s].message
            /\ queue' = queue
        BY <1>3, <2>2, <3>2, <3>4 DEF HandlerNext, Announce, UploadCar,
          TooBig, FetchFails, VerifyCar, VerifyFails, CopyCar, CopyFails,
          MarkPinned, MarkTooBig, Goto, Job, queueVars
      <4> QED
        BY <3>1, <4>1 DEF SettlingInv
    <3> QED
      BY <3>3, <3>4
  <2> QED
    BY <2>1, <2>2
<1>4. ASSUME NEW t \in Slots, NEW r \in Requests, ReceiveMessage(t, r)
      PROVE  job'[s].pc = "release"
  <2>1. /\ queue[r] = "visible" /\ queue' = [queue EXCEPT ![r] = "inflight"]
        /\ \A u \in Slots : u # t => job'[u] = job[u]
        /\ job'[t].message = r
    BY <1>4 DEF ReceiveMessage, Receive
  <2>2. s # t /\ job'[s] = job[s] /\ Busy(s)
    BY <2>1 DEF Busy
  <2> QED
    BY <1>1, <1>2, <2>1, <2>2
<1>5. ASSUME NEW i \in Invocations, DeadLetters(i)
      PROVE  job'[s].pc = "release"
  <2>1. job'[s] = job[s] /\ Busy(s)
    BY <1>5 DEF DeadLetters, handlerVars, Busy
  <2>2. \A r \in Requests : queue'[r] # queue[r] => queue[r] = "dead"
    <3>1. queue' = queue \/ CompleteBatch(i)
      BY <1>5 DEF DeadLetters, FailPinNext, ReceiveBatch, MarkFailed,
        MarkingFails, LambdaKilled, queueVars
    <3>2. \A r \in batch[i].marked : queue[r] = "dead"
      BY DEF ExclusionInv, Batching, Records
    <3> QED
      BY <3>1, <3>2 DEF CompleteBatch
  <2> QED
    BY <1>1, <1>2, <2>1, <2>2
<1>6. CASE \E r \in Requests : Api(r) \/ Sqs(r)
  <2>1. job'[s] = job[s] /\ Busy(s)
    BY <1>6 DEF Api, Sqs, handlerVars, Busy
  <2>2. PICK r \in Requests : Api(r) \/ Sqs(r)
    BY <1>6
  <2>3. CASE queue' = queue
    BY <1>1, <2>1, <2>3
  <2>4. CASE queue' # queue
    <3>1. \E st \in {"visible", "dead"} : queue' = [queue EXCEPT ![r] = st]
      BY <2>2, <2>4, NothingTwice DEF Api, AddPinNext, RefuseRequest, PutPin,
        PutPinUnacknowledged, FindPin, GetPin, RequeueFailed,
        RequeueUnacknowledged, RequeueRefused, AddToQueue,
        AddToQueueUnacknowledged, AddToQueueTwice, FindDelegates,
        GiveUpOnDelegates, RequestFails, queueVars, Sqs, LapseMessage,
        Redrive, Expire, Send, Move
    <3> QED
      BY <1>1, <1>2, <2>1, <3>1
  <2> QED
    BY <2>3, <2>4
<1>7. CASE \E w \in Workers : WorkerCrash(w)
  <2>1. job'[s] \in {NoJob, job[s]} /\ queue' = queue
    BY <1>7 DEF WorkerCrash, Crash, queueVars
  <2> QED
    BY <1>1, <2>1 DEF Busy, NoJob
<1>8. CASE UNCHANGED <<queue, job>>
  BY <1>1, <1>8
<1> QED
  BY <1>3, <1>4, <1>5, <1>6, <1>7, <1>8
  DEF Next, Worker, Storage, ExpireCar, Rest, vars, queueVars, handlerVars

\* When nothing is delivered twice, a pin that is pinned with all its messages
\* gone is never queued, failed or worked on again.
THEOREM PinnedPinsStayDone == DeliversOnce /\ Spec => PinnedPinsAreDone
<1>. DEFINE Inv == IndInv /\ ExclusionInv
<1>1. Init => SettlingInv
  BY DEF Init, RequestInit, HandlerInit, SettlingInv, Busy, NoJob
<1>2. ASSUME DeliversOnce
      PROVE  Inv /\ SettlingInv /\ [Next]_vars => SettlingInv'
  BY <1>2, SendIsQueued, GoneIsReleased DEF SettlingInv
<1>3. ASSUME DeliversOnce, Inv, SettlingInv, [Next]_vars, NEW c \in Fits,
             Settled(c)
      PROVE  Settled(c)'
  <2>1. c \in Cids
    BY FitsType
  <2>2. table'[c].status = "pinned"
    BY <1>3, <2>1, StatusSteps DEF Settled
  <2>3. ASSUME NEW r \in RequestsFor(c), queue'[r] \notin {"unsent", "gone"}
        PROVE  FALSE
    <3>1. r \in Requests /\ CidOf[r] = c
      BY DEF RequestsFor
    <3>2. queue[r] \in {"unsent", "gone"}
      BY <1>3 DEF Settled
    <3>3. MessageStep(r)
      BY <1>3, <2>3, <3>1, <3>2, MessageSteps
    <3>4. queue[r] = "unsent"
      BY <3>2, <3>3 DEF MessageStep
    <3>5. request[r] = "send"
      BY <1>3, <2>3, <3>1, <3>4, UnsentIsSent
    <3> QED
      BY <1>3, <3>1, <3>5 DEF SettlingInv, Settled
  <2> QED
    BY <2>2, <2>3 DEF Settled
<1>4. CASE DeliversOnce
  <2>1. Inv /\ SettlingInv /\ [Next]_vars => SettlingInv'
    BY <1>2, <1>4
  <2>2. Inv /\ SettlingInv /\ [Next]_vars =>
          [\A c \in Fits : Settled(c) => Settled(c)']_vars
    BY <1>3, <1>4
  <2>3. Spec => []Inv
    BY <1>4, Invariance, Exclusion, PTL
  <2> QED
    BY <1>1, <2>1, <2>2, <2>3, PTL DEF Spec, PinnedPinsAreDone
<1> QED
  BY <1>4
=============================================================================
