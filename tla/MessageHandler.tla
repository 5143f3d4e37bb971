--------------------------- MODULE MessageHandler ---------------------------
(***************************************************************************)
(* The pickup workers (pickup/lib/pickup.js, s3.js): each worker process   *)
(* handles up to maxInFlight messages at a time, one per slot. Each await  *)
(* of messageHandler that changes or reads shared state ends a step:       *)
(*                                                                         *)
(*   idle --receive--> announce --addDelegates--> fetch --upload--> get    *)
(*     --GetObject, checkCar--> copy --CopyObject--> pin --pinned--> del   *)
(*                                                                         *)
(* with the catch block's two ways out, fail --failed--> drop for a CAR    *)
(* that is too big, and release for every other error.                     *)
(*                                                                         *)
(* Connecting to the origins and the fetch are one step with the upload:   *)
(* the only shared state the three change is the uploaded object. The      *)
(* finally block (disconnect, waitForGc) changes no shared state; when it  *)
(* throws it takes the process down, which is Crash.                       *)
(***************************************************************************)
EXTENDS PinTable, PinQueue

CONSTANTS
  Slots,      \* the messages all workers can hold at a time
  WorkerOf,   \* the worker a slot belongs to
  Fits        \* the cids whose CAR is not bigger than maxCarBytes

ASSUME WorkerOfType == WorkerOf \in [Slots -> Workers]
ASSUME FitsType == Fits \subseteq Cids

VARIABLES
  job,          \* slot -> the job it does
  validation,   \* cid -> the object pickup/<cid>/<cid>.root.car
  destination   \* cid -> the object <carCid>/<carCid>.car, where carCid is
                \*        the CID of the complete CAR of cid

handlerVars == <<job, validation, destination>>

\* "partial" stands for every object checkCar or the structure and
\* blocksIndexed checks refuse.
Car == {"none", "partial", "complete"}

JobState == {"idle", "announce", "fetch", "get", "copy", "pin", "del",
             "fail", "drop", "release"}

Job == [pc      : JobState,
        message : Requests \cup {NoRequest},
        receipt : 0 .. MaxReceiveCount]

NoJob == [pc |-> "idle", message |-> NoRequest, receipt |-> 0]

HandlerTypeOK ==
  /\ job \in [Slots -> Job]
  /\ validation \in [Cids -> Car]
  /\ destination \in [Cids -> Car]

HandlerInit ==
  /\ job = [s \in Slots |-> NoJob]
  /\ validation = [c \in Cids |-> "none"]
  /\ destination = [c \in Cids |-> "none"]

-----------------------------------------------------------------------------
Busy(s) == job[s].pc # "idle"
Holds(s, r) == Busy(s) /\ job[s].message = r
JobCid(s) == CidOf[job[s].message]

Goto(s, from, to) ==
  /\ job[s].pc = from
  /\ job' = [job EXCEPT ![s].pc = to]

\* The message is handled: its slot is free for another one.
Finish(s, from) ==
  /\ job[s].pc = from
  /\ job' = [job EXCEPT ![s] = NoJob]

\* Squiss delivers a message to the 'message' listener.
ReceiveMessage(s, r) ==
  /\ ~Busy(s)
  /\ Receive(r)
  /\ job' = [job EXCEPT ![s] = [pc      |-> "announce",
                                message |-> r,
                                receipt |-> receives[r] + 1]]
  /\ UNCHANGED <<tableVars, validation, destination>>

\* Mutation: the addresses of all workers are added.
AnnounceEveryone(s) ==
  /\ Goto(s, "announce", "fetch")
  /\ AddDelegates(JobCid(s), Workers)
  /\ UNCHANGED <<queueVars, validation, destination>>

Announce(s) ==
  /\ Goto(s, "announce", "fetch")
  /\ AddDelegates(JobCid(s), {WorkerOf[s]})
  /\ UNCHANGED <<queueVars, validation, destination>>

\* kubo's export ends and the multipart upload completes, whether or not
\* the export was the complete DAG.
WriteCar(c) ==
  \E car \in IF c \in Fits THEN {"partial", "complete"} ELSE {"partial"} :
    validation' = [validation EXCEPT ![c] = car]

UploadCar(s) ==
  /\ Goto(s, "fetch", "get")
  /\ WriteCar(JobCid(s))
  /\ UNCHANGED <<tableVars, queueVars, destination>>

\* Mutation: the catch block fails the pin whatever the error is.
AnyErrorFails(s) ==
  /\ Goto(s, "fetch", "fail")
  /\ UNCHANGED <<tableVars, queueVars, validation, destination>>

\* streamWatcher aborts with TOO_BIG; nothing is left in the bucket.
TooBig(s) ==
  /\ Goto(s, "fetch", "fail")
  /\ JobCid(s) \notin Fits
  /\ UNCHANGED <<tableVars, queueVars, validation, destination>>

\* Mutation: a failed fetch marks the pin as queued again.
FetchFailsToQueued(s) ==
  /\ Goto(s, "fetch", "release")
  /\ UpdatePinStatus(JobCid(s), "queued")
  /\ UNCHANGED <<queueVars, validation, destination>>

\* An origin does not connect, kubo refuses, a timer aborts, S3 fails, or the
\* answer to the upload's completion is lost.
FetchFails(s) ==
  /\ Goto(s, "fetch", "release")
  /\ WriteCar(JobCid(s)) \/ UNCHANGED validation
  /\ UNCHANGED <<tableVars, queueVars, destination>>

\* Mutation: an upload that completed is taken for a complete CAR.
TrustUpload(s) ==
  /\ Goto(s, "get", "copy")
  /\ UNCHANGED <<tableVars, queueVars, validation, destination>>

\* GetObject and checkCar: the bytes that are checked are read here.
VerifyCar(s) ==
  /\ Goto(s, "get", "copy")
  /\ validation[JobCid(s)] = "complete"
  /\ UNCHANGED <<tableVars, queueVars, validation, destination>>

VerifyFails(s) ==
  /\ Goto(s, "get", "release")
  /\ UNCHANGED <<tableVars, queueVars, validation, destination>>

\* Mutation: the CAR stays in the validation bucket.
SkipCopy(s) ==
  /\ Goto(s, "copy", "pin")
  /\ UNCHANGED <<tableVars, queueVars, validation, destination>>

\* CopyObject: the bytes that are copied are those of now, under the name
\* of the bytes that were checked.
CopyObject(c) ==
  /\ validation[c] # "none"
  /\ destination' = [destination EXCEPT ![c] = validation[c]]

CopyCar(s) ==
  /\ Goto(s, "copy", "pin")
  /\ CopyObject(JobCid(s))
  /\ UNCHANGED <<tableVars, queueVars, validation>>

\* Nothing is copied, or the answer is lost.
CopyFails(s) ==
  /\ Goto(s, "copy", "release")
  /\ CopyObject(JobCid(s)) \/ UNCHANGED destination
  /\ UNCHANGED <<tableVars, queueVars, validation>>

MarkPinned(s) ==
  /\ Goto(s, "pin", "del")
  /\ UpdatePinStatus(JobCid(s), "pinned")
  /\ UNCHANGED <<queueVars, validation, destination>>

DeleteMessage(s) ==
  /\ Finish(s, "del")
  /\ Delete(job[s].message, job[s].receipt)
  /\ UNCHANGED <<tableVars, validation, destination>>

\* updatePinStatus or msg.del() throws inside the try block. Whether or not
\* the call took effect, the handler releases the message.
SettleFails(s) ==
  /\ CanFail("delete")
  /\ \/ /\ Goto(s, "pin", "release")
        /\ UpdatePinStatus(JobCid(s), "pinned") \/ UNCHANGED tableVars
        /\ UNCHANGED queueVars
     \/ /\ Goto(s, "del", "release")
        /\ Delete(job[s].message, job[s].receipt) \/ UNCHANGED queueVars
        /\ UNCHANGED tableVars
  /\ UNCHANGED <<validation, destination>>

MarkTooBig(s) ==
  /\ Goto(s, "fail", "drop")
  /\ UpdatePinStatus(JobCid(s), "failed")
  /\ UNCHANGED <<queueVars, validation, destination>>

DropMessage(s) ==
  /\ Finish(s, "drop")
  /\ Delete(job[s].message, job[s].receipt)
  /\ UNCHANGED <<tableVars, validation, destination>>

ReleaseMessage(s) ==
  /\ Finish(s, "release")
  /\ Release(job[s].message, job[s].receipt)
  /\ UNCHANGED <<tableVars, validation, destination>>

\* The process of a worker ends and its container is restarted.
Crash(w) ==
  /\ CanFail("crash")
  /\ \E s \in Slots : WorkerOf[s] = w /\ Busy(s)
  /\ job' = [s \in Slots |-> IF WorkerOf[s] = w THEN NoJob ELSE job[s]]
  /\ UNCHANGED <<tableVars, queueVars, validation, destination>>

\* The lifecycle rule of the validation bucket expires an object.
ExpireCar(c) ==
  /\ validation[c] # "none"
  /\ validation' = [validation EXCEPT ![c] = "none"]
  /\ UNCHANGED <<tableVars, queueVars, job, destination>>

HandlerNext(s) ==
  \/ Announce(s)
  \/ UploadCar(s)
  \/ TooBig(s)
  \/ FetchFails(s)
  \/ VerifyCar(s)
  \/ VerifyFails(s)
  \/ CopyCar(s)
  \/ CopyFails(s)
  \/ MarkPinned(s)
  \/ DeleteMessage(s)
  \/ SettleFails(s)
  \/ MarkTooBig(s)
  \/ DropMessage(s)
  \/ ReleaseMessage(s)
=============================================================================
