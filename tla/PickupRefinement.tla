-------------------------- MODULE PickupRefinement --------------------------
(***************************************************************************)
(* Pickup implements the life cycle of a pin, for any values of its        *)
(* constants and any faults: with the status read from the table, and      *)
(* "stored" from the destination bucket, every step is a step of           *)
(* PinLifecycle or leaves both unchanged. That needs the invariant: a pin  *)
(* is only marked as pinned once its CAR was copied, and nothing but the   *)
(* API's put creates a record.                                             *)
(***************************************************************************)
EXTENDS PickupProofs

\* A step of the abstract specification, or a stutter.
Maps == [Lifecycle!Next]_(Lifecycle!lifecycleVars)

\* A step that changes no status and stores nothing new is a stutter.
LEMMA MapsToStutter ==
  ASSUME \A c \in Cids :
           /\ table'[c].status = table[c].status
           /\ destination'[c] # "none" <=> destination[c] # "none"
  PROVE  Maps
BY DEF Maps, Lifecycle!lifecycleVars, Exists

\* A step that sets the status of one pin is Become.
LEMMA MapsToBecome ==
  ASSUME NEW c \in Cids, NEW st, st # "absent", UNCHANGED destination,
         \A d \in Cids :
           table'[d].status = IF d = c THEN st ELSE table[d].status
  PROVE  Lifecycle!Become(c, st)
BY DEF Lifecycle!Become, Exists

\* A record that is put or re-queued: Ask.
LEMMA MapsToAsk ==
  ASSUME TableTypeOK, NEW c \in Cids, NEW r \in Requests,
         PutIfAbsent(c, r) \/ UpdateFailedItem(c, r), UNCHANGED destination
  PROVE  Maps
<1>1. /\ table[c].status \in {"absent", "failed"}
      /\ \A d \in Cids :
           table'[d].status = IF d = c THEN "queued" ELSE table[d].status
  BY EnqueueEffect
<1>2. Lifecycle!Become(c, "queued")
  BY <1>1, MapsToBecome
<1>3. Lifecycle!Ask(c)
  BY <1>1, <1>2 DEF Lifecycle!Ask, Exists
<1> QED
  BY <1>3 DEF Maps, Lifecycle!Next

\* A status that is updated: Pin or Fail.
LEMMA MapsToSettle ==
  ASSUME TableTypeOK, NEW c \in Cids, NEW st \in {"pinned", "failed"},
         HasStatus(c), UpdatePinStatus(c, st), UNCHANGED destination,
         st = "pinned" => destination[c] # "none"
  PROVE  Maps
<1>1. \A d \in Cids :
        table'[d].status = IF d = c THEN st ELSE table[d].status
  BY StatusEffect
<1>2. Lifecycle!Become(c, st)
  BY <1>1, MapsToBecome
<1>3. Lifecycle!Pin(c) \/ Lifecycle!Fail(c)
  BY <1>2 DEF Lifecycle!Pin, Lifecycle!Fail, HasStatus, Exists
<1> QED
  BY <1>3 DEF Maps, Lifecycle!Next

-----------------------------------------------------------------------------
\* The AddPin lambda asks, or changes nothing the client sees.
LEMMA ApiMaps ==
  ASSUME IndInv, NEW r \in Requests, Api(r)
  PROVE  Maps
<1>1. UNCHANGED destination /\ TableTypeOK /\ CidOf[r] \in Cids
  BY CidOfType DEF Api, handlerVars, IndInv, TypeOK
<1>2. \/ UNCHANGED table
      \/ PutIfAbsent(CidOf[r], r) \/ UpdateFailedItem(CidOf[r], r)
  BY DEF Api, AddPinNext, RefuseRequest, PutPin, PutPinUnacknowledged,
    FindPin, GetPin, RequeueFailed, RequeueUnacknowledged, RequeueRefused,
    AddToQueue, AddToQueueUnacknowledged, AddToQueueTwice, FindDelegates,
    GiveUpOnDelegates, RequestFails, tableVars
<1> QED
  BY <1>1, <1>2, MapsToStutter, MapsToAsk

\* A worker stores a CAR, pins what it has stored, and fails what is too big.
LEMMA WorkerMaps ==
  ASSUME IndInv, NEW s \in Slots, Worker(s)
  PROVE  Maps
<1>. TableTypeOK /\ destination \in [Cids -> Car]
  BY DEF IndInv, TypeOK, HandlerTypeOK
<1>1. CASE \E r \in Requests : ReceiveMessage(s, r)
  BY <1>1, MapsToStutter DEF ReceiveMessage, tableVars
<1>2. CASE HandlerNext(s)
  <2>1. Busy(s)
    BY <1>2 DEF HandlerNext, Announce, UploadCar, TooBig, FetchFails,
      VerifyCar, VerifyFails, CopyCar, CopyFails, MarkPinned, DeleteMessage,
      SettleFails, MarkTooBig, DropMessage, ReleaseMessage, Goto, Finish, Busy
  <2>2. PICK c \in Cids : c = JobCid(s) /\ HasStatus(c)
    BY <2>1, JobMessage
  <2>3. CASE Announce(s)
    BY <2>2, <2>3, DelegatesEffect, WorkerOfType, MapsToStutter DEF Announce
  <2>4. CASE CopyObject(c) /\ UNCHANGED table
    <3>1. /\ destination' = [destination EXCEPT ![c] = validation[c]]
          /\ validation[c] # "none" /\ UNCHANGED table
      BY <2>4 DEF CopyObject
    <3>2. CASE destination[c] # "none"
      BY <2>2, <3>1, <3>2, MapsToStutter
    <3>3. CASE destination[c] = "none"
      <4>1. Lifecycle!Store(c)
        BY <2>2, <3>1, <3>3 DEF Lifecycle!Store, HasStatus, Exists
      <4> QED
        BY <2>2, <4>1 DEF Maps, Lifecycle!Next
    <3> QED
      BY <3>2, <3>3
  <2>5. CASE /\ \/ UpdatePinStatus(c, "pinned") /\ job[s].pc = "pin"
                \/ UpdatePinStatus(c, "failed")
             /\ UNCHANGED destination
    <3>1. job[s].pc = "pin" => destination[c] # "none"
      BY <2>2 DEF IndInv, JobInv
    <3> QED
      BY <2>2, <2>5, <3>1, MapsToSettle
  <2>6. CASE UNCHANGED <<table, destination>>
    BY <2>6, MapsToStutter
  <2> QED
    BY <1>2, <2>2, <2>3, <2>4, <2>5, <2>6
    DEF HandlerNext, UploadCar, TooBig, FetchFails, VerifyCar, VerifyFails,
      CopyCar, CopyFails, MarkPinned, DeleteMessage, SettleFails, MarkTooBig,
      DropMessage, ReleaseMessage, tableVars, Goto
<1> QED
  BY <1>1, <1>2 DEF Worker

\* The dead letter lambda fails a pin that has a record.
LEMMA DeadLettersMaps ==
  ASSUME IndInv, NEW i \in Invocations, DeadLetters(i)
  PROVE  Maps
<1>. TableTypeOK
  BY DEF IndInv, TypeOK
<1>1. UNCHANGED destination
  BY DEF DeadLetters, handlerVars
<1>2. CASE \E r \in batch[i].todo : UpdatePinStatus(CidOf[r], "failed")
  <2>1. PICK r \in batch[i].todo : UpdatePinStatus(CidOf[r], "failed")
    BY <1>2
  <2>2. Sent(r)
    BY <2>1 DEF IndInv, BatchInv, Records
  <2>3. CidOf[r] \in Cids /\ HasStatus(CidOf[r])
    BY <2>2, CidOfType DEF Sent, IndInv, RecordInv, RecordBeforeMessage
  <2> QED
    BY <1>1, <2>1, <2>3, MapsToSettle
<1>3. CASE UNCHANGED table
  BY <1>1, <1>3, MapsToStutter
<1> QED
  BY <1>2, <1>3 DEF DeadLetters, FailPinNext, ReceiveBatch, MarkFailed,
    MarkingFails, CompleteBatch, LambdaKilled, tableVars

\* Every step maps to a step or a stutter.
LEMMA NextMaps ==
  ASSUME IndInv, [Next]_vars
  PROVE  Maps
<1>1. CASE \E r \in Requests : Api(r)
  BY <1>1, ApiMaps
<1>2. CASE \E s \in Slots : Worker(s)
  BY <1>2, WorkerMaps
<1>3. CASE \E i \in Invocations : DeadLetters(i)
  BY <1>3, DeadLettersMaps
<1>4. CASE UNCHANGED <<table, destination>>
  BY <1>4, MapsToStutter
<1> QED
  BY <1>1, <1>2, <1>3, <1>4
  DEF Next, Rest, vars, Sqs, LapseMessage, WorkerCrash, Crash, Storage, Sync,
    ExpireCar, tableVars, handlerVars

-----------------------------------------------------------------------------
\* The system implements the life cycle of a pin a client may rely on: a pin
\* is queued by the API only, again only after it failed, and reported as
\* pinned only with a CAR in the destination.
THEOREM ImplementsLifecycle == Spec => FollowsLifecycle
<1>1. Init => Lifecycle!Init
  <2>. SUFFICES ASSUME Init
                PROVE  Lifecycle!Init
    OBVIOUS
  <2>1. \A c \in Cids : ~Exists(c) /\ destination[c] = "none"
    BY DEF Init, TableInit, HandlerInit, NoItem, Exists
  <2> QED
    BY <2>1 DEF Lifecycle!Init
<1>2. IndInv /\ [Next]_vars => [Lifecycle!Next]_(Lifecycle!lifecycleVars)
  BY NextMaps DEF Maps
<1> QED
  BY Invariance, <1>1, <1>2, PTL DEF Spec, FollowsLifecycle, Lifecycle!Spec
=============================================================================
