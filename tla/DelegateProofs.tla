--------------------------- MODULE DelegateProofs ---------------------------
(***************************************************************************)
(* Whom a client is told to connect to: the delegates of a record are      *)
(* workers that themselves received a message for its cid, in the table as *)
(* in its replica, for as long as the record exists.                       *)
(***************************************************************************)
EXTENDS PickupDelegates, PickupProofs

\* Both copies of a record, the answers, and what the handlers are about to
\* add, name only workers that had a message for the cid.
DelegatesInv ==
  /\ \A c \in Cids : \A item \in Reads(c) : item.delegates \subseteq heard[c]
  /\ DelegatesHadMessage
  /\ \A s \in Slots : Busy(s) => WorkerOf[s] \in heard[JobCid(s)]

\* Who had a message had it for good.
LEMMA HeardGrows ==
  ASSUME DelegateNext, NEW c \in Cids
  PROVE  heard[c] \subseteq heard'[c]
BY DEF DelegateNext

\* A write that adds no delegates but of workers that had a message keeps
\* those of both copies.
LEMMA WriteKeeps ==
  ASSUME TableTypeOK, NEW c \in Cids, NEW item,
         Write(c, item), item.delegates \subseteq heard[c],
         \A d \in Cids : \A i \in Reads(d) : i.delegates \subseteq heard[d],
         \A d \in Cids : heard[d] \subseteq heard'[d]
  PROVE  (\A d \in Cids : \A i \in Reads(d) : i.delegates \subseteq heard[d])'
<1>. table \in [Cids -> Item] /\ replica \in [Cids -> Item]
  BY DEF TableTypeOK
<1>1. \A d \in Cids : /\ table'[d] \in {table[d], item}
                      /\ table'[d] # table[d] => d = c
                      /\ replica'[d] \in {replica[d], table'[d]}
  BY DEF Write
<1>2. \A d \in Cids : /\ table[d].delegates \subseteq heard[d]
                      /\ replica[d].delegates \subseteq heard[d]
  BY DEF Reads
<1>3. \A d \in Cids : table'[d].delegates \subseteq heard[d]
  BY <1>1, <1>2
<1>4. \A d \in Cids : replica'[d].delegates \subseteq heard[d]
  BY <1>1, <1>2, <1>3
<1> QED
  BY <1>3, <1>4 DEF Reads

-----------------------------------------------------------------------------
\* No step but addDelegates adds to the delegates of a record.
LEMMA TableEffect ==
  ASSUME IndInv, [Next]_vars
  PROVE  \/ UNCHANGED tableVars
         \/ \E c \in Cids : Sync(c)
         \/ \E c \in Cids, item \in Item :
              /\ Write(c, item)
              /\ item.delegates \subseteq table[c].delegates
         \/ \E s \in Slots : Announce(s)
<1>. TableTypeOK /\ table \in [Cids -> Item]
  BY DEF IndInv, TypeOK, TableTypeOK
<1>1. ASSUME NEW c \in Cids, NEW status \in Status, UpdatePinStatus(c, status)
      PROVE  \E item \in Item :
               /\ Write(c, item)
               /\ item.delegates \subseteq table[c].delegates
  BY <1>1 DEF UpdatePinStatus, Item
<1>2. ASSUME NEW r \in Requests, Api(r)
      PROVE  \/ UNCHANGED tableVars
             \/ \E item \in Item :
                  /\ Write(CidOf[r], item)
                  /\ item.delegates \subseteq table[CidOf[r]].delegates
  <2>1. CidOf[r] \in Cids
    BY CidOfType
  <2>2. CASE PutIfAbsent(CidOf[r], r)
    BY <2>2 DEF PutIfAbsent, NewPin, Item, Status
  <2>3. CASE UpdateFailedItem(CidOf[r], r)
    <3>. DEFINE item == [table[CidOf[r]] EXCEPT !.status = "queued",
                                                !.created = r]
    <3>1. /\ item \in Item /\ Write(CidOf[r], item)
          /\ item.delegates = table[CidOf[r]].delegates
      BY <2>1, <2>3 DEF UpdateFailedItem, Item, Status
    <3> QED
      BY <3>1
  <2>4. \/ UNCHANGED tableVars
        \/ PutIfAbsent(CidOf[r], r)
        \/ UpdateFailedItem(CidOf[r], r)
    BY <1>2 DEF Api, AddPinNext, RefuseRequest, PutPin,
      PutPinUnacknowledged, FindPin, GetPin, RequeueFailed,
      RequeueUnacknowledged, RequeueRefused, AddToQueue,
      AddToQueueUnacknowledged, AddToQueueTwice, FindDelegates,
      GiveUpOnDelegates, RequestFails
  <2> QED
    BY <2>2, <2>3, <2>4
<1>3. ASSUME NEW s \in Slots, HandlerNext(s), ~Announce(s)
      PROVE  \/ UNCHANGED tableVars
             \/ \E c \in Cids, item \in Item :
                  /\ Write(c, item)
                  /\ item.delegates \subseteq table[c].delegates
  <2>1. CASE MarkPinned(s) \/ SettleFails(s) \/ MarkTooBig(s)
    <3>1. Busy(s)
      BY <2>1 DEF MarkPinned, SettleFails, MarkTooBig, Goto, Busy
    <3>2. JobCid(s) \in Cids
      BY <3>1, JobMessage
    <3>3. \/ UNCHANGED tableVars
          \/ \E status \in Status : UpdatePinStatus(JobCid(s), status)
      BY <2>1 DEF MarkPinned, SettleFails, MarkTooBig, Status
    <3> QED
      BY <1>1, <3>2, <3>3
  <2>2. CASE ~(MarkPinned(s) \/ SettleFails(s) \/ MarkTooBig(s))
    BY <1>3, <2>2 DEF HandlerNext, UploadCar, TooBig, FetchFails, VerifyCar,
      VerifyFails, CopyCar, CopyFails, DeleteMessage, DropMessage,
      ReleaseMessage
  <2> QED
    BY <2>1, <2>2
<1>4. ASSUME NEW i \in Invocations, DeadLetters(i)
      PROVE  \/ UNCHANGED tableVars
             \/ \E c \in Cids, item \in Item :
                  /\ Write(c, item)
                  /\ item.delegates \subseteq table[c].delegates
  <2>1. \/ UNCHANGED tableVars
        \/ \E r \in Requests : UpdatePinStatus(CidOf[r], "failed")
    BY <1>4 DEF DeadLetters, FailPinNext, ReceiveBatch, MarkFailed,
      MarkingFails, CompleteBatch, LambdaKilled
  <2>2. "failed" \in Status /\ \A r \in Requests : CidOf[r] \in Cids
    BY CidOfType DEF Status
  <2> QED
    BY <1>1, <2>1, <2>2
<1>5. ASSUME NEW s \in Slots, NEW r \in Requests,
             ReceiveMessage(s, r) \/ Sqs(r)
      PROVE  UNCHANGED tableVars
  BY <1>5 DEF ReceiveMessage, Sqs, LapseMessage
<1>6. ASSUME \/ \E r \in Requests : Sqs(r)
             \/ \E w \in Workers : WorkerCrash(w)
             \/ Rest
             \/ UNCHANGED vars
      PROVE  UNCHANGED tableVars
  BY <1>6 DEF Sqs, LapseMessage, WorkerCrash, Crash, Rest, vars
<1>7. ASSUME NEW c \in Cids, Storage(c)
      PROVE  UNCHANGED tableVars \/ Sync(c)
  BY <1>7 DEF Storage, ExpireCar
<1> QED
  BY <1>2, <1>3, <1>4, <1>5, <1>6, <1>7, CidOfType DEF Next, Worker

\* What a request answers with it has read.
LEMMA ResponseEffect ==
  ASSUME IndInv, [Next]_vars, NEW r \in Requests
  PROVE  \/ response'[r] = response[r]
         \/ response'[r] = {}
         \/ \E item \in Reads(CidOf[r]) : response'[r] = item.delegates
<1>. response \in [Requests -> SUBSET Workers]
  BY DEF IndInv, TypeOK, RequestTypeOK
<1>1. ASSUME NEW q \in Requests, Api(q)
      PROVE  \/ response'[r] = response[r]
             \/ response'[r] = {}
             \/ \E item \in Reads(CidOf[r]) : response'[r] = item.delegates
  BY <1>1 DEF Api, AddPinNext, RefuseRequest, PutPin,
    PutPinUnacknowledged, FindPin, GetPin, RequeueFailed,
    RequeueUnacknowledged, RequeueRefused, AddToQueue,
    AddToQueueUnacknowledged, AddToQueueTwice, FindDelegates,
    GiveUpOnDelegates, RequestFails, Step, Answer
<1>2. ASSUME ~\E q \in Requests : Api(q)
      PROVE  UNCHANGED response
  BY <1>2 DEF Next, Sqs, Worker, WorkerCrash, DeadLetters, Storage, Rest,
    vars, requestVars
<1> QED
  BY <1>1, <1>2

\* A handler keeps the message it received.
LEMMA JobEffect ==
  ASSUME IndInv, [Next]_vars, NEW s \in Slots, Busy(s)'
  PROVE  \/ Busy(s) /\ job'[s].message = job[s].message
         \/ \E r \in Requests : ReceiveMessage(s, r)
<1>. job \in [Slots -> Job]
  BY DEF IndInv, TypeOK, HandlerTypeOK
<1>1. ASSUME NEW t \in Slots, HandlerNext(t)
      PROVE  Busy(s) /\ job'[s].message = job[s].message
  BY <1>1 DEF HandlerNext, Announce, UploadCar, TooBig, FetchFails, VerifyCar,
    VerifyFails, CopyCar, CopyFails, MarkPinned, DeleteMessage, SettleFails,
    MarkTooBig, DropMessage, ReleaseMessage, Goto, Finish, Busy, NoJob, Job
<1>2. ASSUME NEW t \in Slots, NEW r \in Requests, ReceiveMessage(t, r), t # s
      PROVE  job'[s] = job[s]
  BY <1>2 DEF ReceiveMessage
<1>3. ASSUME NEW w \in Workers, WorkerCrash(w)
      PROVE  job'[s] = job[s]
  BY <1>3 DEF WorkerCrash, Crash, NoJob, Busy
<1>4. ASSUME ~\E t \in Slots : Worker(t), ~\E w \in Workers : WorkerCrash(w)
      PROVE  UNCHANGED job
  BY <1>4 DEF Next, Api, Sqs, DeadLetters, Storage, ExpireCar, Rest, vars,
    handlerVars
<1> QED
  BY <1>1, <1>2, <1>3, <1>4 DEF Worker, Busy

-----------------------------------------------------------------------------
\* Every step keeps the invariant.
LEMMA NextDelegates ==
  ASSUME IndInv, IndInv', DelegatesInv, DelegateNext
  PROVE  DelegatesInv'
<1>. TableTypeOK /\ [Next]_vars
  BY DEF IndInv, TypeOK, DelegateNext
<1>1. \A c \in Cids : heard[c] \subseteq heard'[c]
  BY HeardGrows
<1>2. (\A c \in Cids : \A item \in Reads(c) : item.delegates \subseteq heard[c])'
  <2>1. CASE UNCHANGED tableVars
    BY <1>1, <2>1 DEF DelegatesInv, Reads, tableVars
  <2>2. CASE \E c \in Cids : Sync(c)
    BY <1>1, <2>2 DEF DelegatesInv, Reads, Sync, TableTypeOK
  <2>3. CASE \E c \in Cids, item \in Item :
               /\ Write(c, item)
               /\ item.delegates \subseteq table[c].delegates
    <3>1. PICK c \in Cids, item \in Item :
            /\ Write(c, item)
            /\ item.delegates \subseteq table[c].delegates
      BY <2>3
    <3>2. item.delegates \subseteq heard[c]
      BY <3>1 DEF DelegatesInv, Reads
    <3> QED
      BY <1>1, <3>1, <3>2, WriteKeeps DEF DelegatesInv
  <2>4. CASE \E s \in Slots : Announce(s)
    <3>1. PICK s \in Slots : Announce(s)
      BY <2>4
    <3>2. Busy(s)
      BY <3>1 DEF Announce, Goto, Busy
    <3>. DEFINE c == JobCid(s)
                item == [table[c] EXCEPT
                           !.delegates = @ \cup {WorkerOf[s]},
                           !.status = IF Exists(c) THEN @ ELSE "unset"]
    <3>3. c \in Cids /\ WorkerOf[s] \in heard[c]
      BY <3>2, JobMessage DEF DelegatesInv
    <3>4. Write(c, item)
      BY <3>1 DEF Announce, AddDelegates
    <3>5. item.delegates \subseteq heard[c]
      <4>1. table[c].delegates \subseteq heard[c] /\ table[c] \in Item
        BY <3>3 DEF DelegatesInv, Reads, TableTypeOK
      <4>2. item.delegates = table[c].delegates \cup {WorkerOf[s]}
        BY <4>1 DEF Item
      <4> QED
        BY <3>3, <4>1, <4>2
    <3>. HIDE DEF item
    <3> QED
      BY <1>1, <3>3, <3>4, <3>5, WriteKeeps DEF DelegatesInv
  <2> QED
    BY <2>1, <2>2, <2>3, <2>4, TableEffect
<1>3. DelegatesHadMessage'
  <2>1. ASSUME NEW r \in Requests
        PROVE  response'[r] \subseteq heard'[CidOf[r]]
    <3>1. CidOf[r] \in Cids
      BY CidOfType
    <3>2. response'[r] \subseteq heard[CidOf[r]]
      BY <3>1, ResponseEffect DEF DelegatesInv, DelegatesHadMessage
    <3> QED
      BY <1>1, <3>1, <3>2
  <2> QED
    BY <2>1 DEF DelegatesHadMessage
<1>4. (\A s \in Slots : Busy(s) => WorkerOf[s] \in heard[JobCid(s)])'
  <2>1. ASSUME NEW s \in Slots, Busy(s)'
        PROVE  WorkerOf[s] \in heard'[JobCid(s)']
    <3>1. CASE Busy(s) /\ job'[s].message = job[s].message
      BY <1>1, <3>1, JobMessage DEF DelegatesInv, JobCid
    <3>2. CASE \E r \in Requests : ReceiveMessage(s, r)
      <4>1. ~Busy(s)
        BY <3>2 DEF ReceiveMessage
      <4>2. JobCid(s)' \in Cids
        BY <2>1, JobMessage, CidOfType
        DEF IndInv, JobInv, Sent, JobCid
      <4> QED
        BY <2>1, <4>1, <4>2 DEF DelegateNext, GetsMessage
    <3> QED
      BY <2>1, <3>1, <3>2, JobEffect
  <2> QED
    BY <2>1
<1> QED
  BY <1>2, <1>3, <1>4 DEF DelegatesInv

\* A step that changes nothing keeps it too.
LEMMA StutterDelegates ==
  ASSUME DelegatesInv, UNCHANGED delegateVars
  PROVE  DelegatesInv'
BY DEF DelegatesInv, DelegatesHadMessage, delegateVars, vars, tableVars,
  requestVars, handlerVars, Reads, Busy, JobCid

LEMMA InitDelegates ==
  ASSUME DelegateInit
  PROVE  DelegatesInv
BY CidOfType DEF DelegateInit, Init, TableInit, RequestInit, HandlerInit,
  NoItem, NoJob, Reads, Busy, DelegatesInv, DelegatesHadMessage

\* A client is only told to connect to workers that themselves received a
\* message for its cid, whatever fails and however old the record is that a
\* request reads.
THEOREM DelegatesAreInvolved == DelegateSpec => []DelegatesHadMessage
<1>1. DelegateSpec => Spec
  <2>1. DelegateInit => Init
    BY DEF DelegateInit
  <2>2. [DelegateNext]_delegateVars => [Next]_vars
    BY DEF DelegateNext, delegateVars
  <2> QED
    BY <2>1, <2>2, PTL DEF DelegateSpec, Spec
<1>2. IndInv /\ IndInv' /\ DelegatesInv /\ [DelegateNext]_delegateVars
        => DelegatesInv'
  BY NextDelegates, StutterDelegates
<1>3. DelegatesInv => DelegatesHadMessage
  BY DEF DelegatesInv
<1> QED
  BY <1>1, Invariance, InitDelegates, <1>2, <1>3, PTL DEF DelegateSpec
=============================================================================
