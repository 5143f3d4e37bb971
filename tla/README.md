# A TLA+ model of pickup

pickup is a pinning service backend: clients ask an HTTP API to pin a CID,
workers beside kubo nodes fetch the DAG as a CAR, check it, and store it in a
bucket. This directory models it in TLA+, model-checks it with TLC on small
instances, and proves most of its safety properties with TLAPS for every value
of the constants. Line numbers are those of this commit.

## The system

| Part | Code | State it keeps | Operations |
|---|---|---|---|
| Basic API, POST /pins/{cid} | `api/basic/add-pin.ts` | none of its own; one lambda execution per request | put the record or find it, re-queue a failed one, send the message, wait for delegates |
| Basic API, GET | `api/basic/get-pin.ts`, `get-pins.ts`, `helper/` | none | one `GetItem`; chunks of `BatchGetItem` at once, one row per cid |
| Pickup worker | `pickup/lib/pickup.js`, `dynamo.js` | up to `maxInFlight` messages in flight | announce delegates, connect, fetch, upload, verify, mark, delete or release |
| CAR fetcher | `pickup/lib/ipfs.js` | two timers, an abort controller, a byte count per fetch; the connections of the kubo node | fetch, watch the stream, abort; find addresses, connect, disconnect, collect garbage |
| Upload, verification | `pickup/lib/s3.js`, `car.js` | the objects of two buckets | multipart upload, get and check, copy |
| Dead letter consumer | `api/basic/fail-pin.js` | none; one lambda execution per batch | mark each pin as failed, report what it could not mark |
| Pin table | DynamoDB, through the code above | `cid -> {status, created, delegates}` | conditional put, conditional update, two upserts, eventually consistent reads |
| Queues | SQS, `stacks/BasicApiStack.ts` | messages, their visibility and receive count | send, receive, delete, release, redrive after 3 receives |
| Pinning service API | `api/functions/PinningService.ts`, `api/db.ts` | PinStatus items per user | POST /pins, GET /pins, GET /pins/{requestid}; no stack deploys it |

They interact only through the table, the queues and the buckets. The API
writes a record with status `queued` and then sends a message. A worker that
receives the message adds its addresses to the record, has kubo export the DAG
into `pickup/<cid>/<cid>.root.car` of the validation bucket, reads the object
back and checks it, has S3 copy it to `<carCid>/<carCid>.car`, sets the status to
`pinned`, and deletes the message. A CAR that is too big fails the pin at once;
any other error releases the message. After three receives SQS moves it to the
dead letter queue, whose consumer marks the pin as failed. A failed pin is
queued again when a client asks again.

### What is hard about it

* Nothing spans two stores: every pair of writes (record then message, copy then
  status, status then delete) can be cut in the middle.
* Deliveries are at least once, and a handler can be running while its message
  is delivered to another one, or has become a dead letter.
* The updates to `pinned` and `failed` are unconditional: the last writer wins.
  Only the put and the re-queue are conditional.
* The handlers of a cid share one key in the validation bucket.
* A rejection outside of `messageHandler`'s `try` ends the whole process and
  with it every other job of the worker.
* Reads are eventually consistent.
* Two debounced timers, a stream, an abort signal and an upload race in every fetch.
* The handlers of a worker share one kubo node and its connections.
* The message of a job must stay hidden until the job is done, by extensions that
  two settings and a limit of SQS can end.

What makes each part correct: a queued pin always has somebody who works on it,
and is settled in the end; a pin is pinned only if its CAR is stored, and fails
only for a reason; a worker deletes a message only when its pin is settled; a
fetch ends, and the verdict on it is about what ended it; a CAR that is accepted is
the whole DAG; a node keeps no connection its jobs do not need; a list tells of
each cid what a single read could have told.

## The modules

| Module | Models |
|---|---|
| `PickupParameters` | the identities the components share; the kinds of failure (`Faults`) |
| `PinTable` | the DynamoDB table: `table` is what the leader holds, `replica` what a lagging reader may see |
| `PinQueue` | the pin queue and its dead letter queue: `queue`, `receives` |
| `AddPin` | POST /pins/{cid}: `request` is the place of each handler between its awaits |
| `MessageHandler` | the workers: `job` is what each slot is doing, `validation` and `destination` are the buckets |
| `FailPin` | the dead letter lambda: `batch` is what each execution has left to mark, has marked and could not mark |
| `Pickup` | the composition of these; its properties; the refinement mapping to `PinLifecycle` |
| `PinLifecycle` | the abstract specification: what a client may rely on |
| `PickupInvariant` | the inductive invariant `IndInv` and the action property `NeverRegresses` |
| `PickupExclusion` | the inductive invariant `ExclusionInv` of an instance in which nothing is delivered twice, and what it says of pins that are done |
| `PickupDelegates` | `Pickup` with a history of which workers have received a message for a cid |
| `CarFetcher` | one fetch, with discrete time |
| `CarCheck` | what `verify` asks of a CAR: operators on DAGs, blocks and bytes |
| `CarAttempt` | `CarFetcher` with kubo's export of a DAG, the verification and the copy of the CAR, and the visibility of the message; the refinement mapping to `MessageHandler` |
| `WorkerNode` | one task: the pickup process, from its start to its exit, and the kubo node its handlers share |
| `GetPins` | the reads of lists, from the table or a lagging replica, beside pins that follow `PinLifecycle` |
| `PinningService` | the PinStatus API and its store |
| `PickupProofs`, `PickupRefinement`, `ExclusionProofs`, `DelegateProofs`, `CarAttemptProofs`, `WorkerNodeProofs`, `GetPinsProofs`, `PinningServiceProofs` | the proofs |
| `MCPickup`, `MCDelegates`, `MCCarAttempt`, `MCWorkerNode`, `MCPinningService` | definitions for the instances TLC checks |

The composition is in layers. `Pickup` has every actor, and a fetch is one step
of it. `CarAttempt` has one attempt in detail, and `ImplementsHandler` says
that what it does is what `MessageHandler` has a handler do. `WorkerNode` has the
rest of `messageHandler`: the calls to kubo, the `finally` block, and the errors
that end the process, which are `Crash` in `Pickup`.

How state maps to code:

* A **request** is one POST call. A message carries the identity of the request
  that sent it, and `created` in a record is the request that wrote it; the code
  has time stamps and random ids there.
* Each **await** on DynamoDB, SQS or S3 ends a step. `request[r] = "send"` means
  that the record is written and `addToQueue` is about to be awaited;
  `job[s].pc = "copy"` means that `checkCar` has passed and `CopyObject` has not
  been sent. The source's helper functions keep their names.
* A **slot** is one of the messages a worker can hold. Slots of one worker crash
  together.
* A **CAR** is `complete`, or `partial`, which stands for everything the checks
  of `verify` refuse. `destination[c]` is the object named after the complete
  CAR of `c`.
* A **receipt** is the receive count it was handed out with; a delete or release
  with an old one may or may not have an effect.
* A **DAG** in `CarCheck` is the function from blocks to the blocks they link to;
  the bytes of a CAR are its header and whole or cut blocks of one size. linkdex is
  its report: the number of blocks, and whether all links lead to one of them.
* **Time** in `CarFetcher` and `CarAttempt` is ticks. A timer holds the ticks it has
  left; no tick passes while something is due that the process does at once.

The SDK's retries: a failed call is one that had failed for good. Where a retry
makes a difference (a put that took effect and is sent again meets its own
record; a message that was sent and is sent again is in the queue twice) it is an
outcome of its own (`PutPinUnacknowledged`, `AddToQueueTwice`). A call that fails for
good may still have taken effect, its answers being lost: `AddToQueueUnacknowledged`
and `RequeueUnacknowledged` are that, and `FetchFails` (of the upload), `CopyFails`,
`SettleFails` and `MarkingFails` have both outcomes.

### Failures

`Faults` says which may happen in an instance: `api` (a lambda of the API is
killed, a call fails or its answer is lost), `put` (the answer to the put of a record
is lost, and the SDK gives up or sends the put again), `resend` (SQS gets a
message twice; the copy goes by the name of a request that is then never made), `crash` (a process ends),
`lapse` (a message becomes visible while it is held), `delete` (the worker's last
update or delete fails), `lambda` (the dead letter lambda fails), `stale`
(lagging reads). Some failures are always there: an origin that cannot be
connected, a fetch, upload, check or copy that fails, an incomplete export, an
expired object, delegates that do not come in time. The theorems hold for every
subset of `Faults`.

## What TLC checks

Runs that pass:

| Run | Instance | Shows |
|---|---|---|
| `PickupSafety` | 1 cid, 2 requests, 2 slots of one worker, 2 receives; api, resend, crash, lapse, delete | `RecordBeforeMessage`, `QueuedIsOwned`, `PinnedHasCar`, `FailedIsSpent`, `NeverRegresses`, and that every step is one of `PinLifecycle` |
| `PickupTwoCids` | 2 cids (one too big), 3 requests, 1 slot, 1 receive, 2 overlapping lambdas with batches of 2; put, lambda | the inductive invariant, where two pins share a batch |
| `PickupExclusive` | 1 cid, 3 requests, 2 workers, 2 receives; crash, delete, stale | `ExclusionInv`, `OneHandlerPerCar`, `DestinationComplete`, `AcceptedPinIsInProgress`, `DelegatesHadMessage`, `PinnedPinsAreDone` |
| `PickupLiveness` | 1 cid, 2 requests, 1 slot, 2 receives; crash, lapse, delete, stale | `MessagesWearOut`; `MessagesAreSettled`, `KeepsLifecycle`, under fairness |
| `CarAttempt` | DAGs of 1, 2 and 3 blocks, the last over the limit; fetch timeout 5 ticks, chunk timeout 2, visibility 3, at most 10 hidden | what an abort may do, and when; `AcceptedIsWholeDag`; `HiddenWhileWorking`; `AttemptEnds`, under fairness; `ImplementsHandler` |
| `WorkerNode` | 2 handlers, 2 messages that share an origin, 1 retry, connections that drop | `PeersAreWanted`, `HandlersAdvance`; `HandlersEnd`, under fairness |
| `GetPins` | lists of up to 3 of 2 cids, chunks of 2, failing and lagging reads | `RowsAreTrue`, `PinnedRowIsStored`; `ListIsAnswered`, under fairness |
| `PinningService` | 2 calls, 2 milliseconds, limits 1 and 2, failing calls, lagging reads | `AnsweredPinIsStored`, `AnswersArePins`, `ListsLatestFirst` |

`OneHandlerPerCar`, `DestinationComplete` and `PinnedPinsAreDone` need their limits on `Faults` (`DeliversOnce`):
with `lapse` or `resend` two handlers have a message of one request, and with `lambda`
a dead message that was marked but not deleted is marked again after its pin was
re-queued, which lets a third request queue it once more. `AcceptedPinIsInProgress`
needs an API whose calls do not fail. `QueuedIsOwned` needs neither: it names the two
ways in which a request leaves a queued pin to nobody. One is a request that ended
in an error before `SendMessage` (`api`). The other is a put that was sent again after
its answer was lost and met its own record (`put`): the request then answers 200 and
sends nothing. That is why `put` is a failure apart: with `api` alone, in
`PickupSafety`, a request that is answered without an error has sent its message, and
the mutant of `QueuedIsOwned` is one that has not.

`DelegatesHadMessage` is about workers, not only about messages: each worker a client
is told of has itself received a message for the cid. Which ones have is in no
variable of `Pickup`, so `PickupDelegates` adds it as a history.

In `GetPins` no read is consistent, so a row may be what a replica has. `seen` has
what a single read could have answered since the request was made, which includes
what the replica had then. The pins go on, and the replicas catch up, for as long as
reads are to come; nothing later can tell.

Runs that TLC refutes, each a statement of a document or a message of the code:

| Run | The statement | What the code does |
|---|---|---|
| `LostPin` | add-pin.ts:238, "Please try again" | a request's send fails after its put; the second try is answered 200 and sends no message |
| `TornCopy` | README.md:218, a valid CAR is copied | after a lapse, the bytes copied are not those checked |
| `Throttled` | get-pins.ts:127, what cannot be read is an error | of two keys one is left unprocessed, and its queued pin is answered as unpinned |
| `FilteredOut` | db.ts:42, "Find PinStatus objects ... that match query" | the limit applies before the filter: a later pin of another status takes the only place |

Other places where the documents and the code part, which the models follow the
code in and no run is about:

* A pin whose CAR is stored, and which was marked as pinned, becomes failed when
  the delete of its last delivery fails: the dead letter lambda does not look at the
  status (fail-pin.js:20). `PinLifecycle` allows it (`Fail` of a pinned pin), where
  ipfs-pinning-service.yaml:245 has failed as "unable to finish". `PinnedPinsAreDone`
  says when it cannot happen any more: once the last message of the pin is gone.
* A re-queued pin is answered with the delegates of its earlier attempts, which
  updateFailedItem keeps (add-pin.ts:196), and so before a worker has received its
  new message.
* README.md:218 has the CAR "removed from the temporary" bucket; nothing but its
  one day lifecycle rule does that.
* README.md:149 has the message hidden "up to a configured `ipfsTimeout`". `createPickup`
  gives `FETCH_TIMEOUT_MS` as `noExtensionsAfterSecs` (pickup.js:35), and so a thousand
  times the timeout. It is as well: `HiddenWhileWorking` is violated by its
  mutant that converts the unit, because the upload, the check and the copy
  come after the fetch.
* README.md:98 has `BATCH_SIZE` as how many requests are handled concurrently. A message
  ceases to be in flight when it is deleted or released, before the `finally`
  block, so that more handlers than that can run (`ReceiveMessage` of `WorkerNode`).
* README.md:147 has the worker connect to `origins[]` and then fetch. Two jobs with an
  origin in common share the connection, and the first that ends closes it
  (`Disconnect` of `WorkerNode`); kubo or the origin may drop it as well
  (`ConnectionDrops`). Nothing says that a fetch needs it, so there is no property it breaks.
* db.ts:119 has "ReturnValues on query mean res.Item exists"; an UpdateCommand returns
  Attributes. Only a test calls `updatePinStatusByRequestId`.
* README.md:81 has `FETCH_TIMEOUT_MS` cap "the amount of time we spend on a job"; both
  timers are cleared when kubo's export ends (ipfs.js:207), and nothing bounds the
  rest of the upload, the verification and the copy.
* ipfs-pinning-service.yaml:352 has GET /pins return pins of "the specified CID(s)";
  `getPins` of db.ts only looks at the status and the limit of a query.

### Bounds, and why they are enough

* Every bound is a constant of a configuration. None is in a guard but
  `MaxReceiveCount`, which the deployment has too (3; here 2, and 1 in `LostPin` and
  `PickupTwoCids`: with 2 there are a first delivery, a redelivery, and a redrive),
  `Retries` (5; here 1, so that an attempt can and cannot be followed by another),
  `MaxInFlight`, `MaxHidden` (12 hours of SQS), `MaxAsked` and `MaxTime`. `age` in
  `CarAttempt` and `elapsed` and `quiet` in `CarFetcher` stop one tick after the last
  that matters.
* Two requests are the least that race; the third in `PickupExclusive` is the one
  that re-queues what the others left failed. Two slots are what `TornCopy` needs;
  one worker with two slots shows that a crash takes both jobs.
* A batch of two is enough for one record of it to be marked and another not. In
  `PickupTwoCids` a message is dead after one delivery, which leaves room for
  three requests and two lambdas.
* In `CarAttempt` the fetch timeout is not a multiple of the chunk timeout, and
  both can be due in one tick; the CARs have 3, 5 and 7 bytes with a limit of 5;
  chunks of 1 and 2 end within a block and at its end, and reach the limit with
  and without an overshoot of the buffer. The visibility of 3 must be extended
  during every fetch, and `MaxHidden` can end the extensions while one still runs.
* Two handlers and a shared origin are the least in which a clean-up disturbs
  another job; the second message has another origin before the shared one, so
  that a loop can be left in its middle.
* Lists of three in chunks of two have a full and a partial chunk, a duplicate
  within a chunk (which DynamoDB refuses) and one across chunks. A call that
  leaves out keys has read one at least: DynamoDB throws when it got to none.
* Symmetry is only used in safety runs, and only of requests and slots with the
  same cid and the same worker, or of calls.

`Pickup` may stop only when every request is answered and every message is
settled (`Rest`), and an attempt when its handler is done (`Over`); deadlock is
checked in every run.

### Fairness

`FairSpec` of `Pickup` is weak fairness of what the platform keeps doing: a
handler's awaits settle (the SDK's calls time out, and `CarAttempt` shows that
the fetch does), SQS delivers and redrives, and ends a visibility timeout whose
holder is gone, and the dead letter lambda is invoked. No failure is fair, and a
client need not call. Crashes cannot go on for ever: each costs a receive, and
receives are bounded by the redrive policy.

`FairAttempt` has fairness of the clock, the timers, the extensions and the
reactions to an abort, and of the calls of `verify`, which the SDK bounds; kubo is
free to stall, and so is S3 while the stream flows. After the end of the stream
S3 has to take what is buffered: no timer of the code bounds that.

`FairSpec` of `WorkerNode` is weak fairness of `Proceed` for each handler: every
time limit of a call runs out, AWS answers or the SDK gives up, and the fetch
ends. Nothing kubo does (`KuboAnswers`) is fair: a node that never answers again does
not keep a handler.

## What is proved

All of it for any sets and any values of the constants (requests, workers, slots,
invocations, messages, origins, timeouts, limits, DAGs, ...), from the assumptions
the modules state on them and which TLC evaluates in the runs.

`PickupProofs` and `PickupRefinement`, for any `Faults`:

* `Invariance`: `Spec => []IndInv`, and from it `TypeCorrect`, `RecordsComeFirst`,
  `QueuedPinsAreOwned`, `PinnedPinsHaveCars`, `FailedPinsAreSpent`.
* `NothingRegresses`: `Spec => NeverRegresses`.
* `ImplementsLifecycle`: `Spec => Lifecycle!Spec`, under the mapping of `Pickup`.
* `MessagesOnlyWearOut`: `Spec => MessagesWearOut`. `EventsLeft` counts what can still
  happen to a message, and each step on one lowers it: a message goes round at most
  `MaxReceiveCount` times, whatever crashes, lapses or fails. It rests on a message
  being sent once (`EarlyRequestIsUnsent`) and on the batches having only messages
  that were sent. It is the half of `MessagesAreSettled` that needs no fairness:
  what is left for TLC to show is that something always happens to a live message.

Why an inductive invariant is needed: `QueuedIsOwned` says that the message of the
request that queued a pin is in a queue. Whether a delete keeps it depends on
the deleter: the worker in `del` has set the status before, and it must still
be settled, or queued by another request, when the delete is sent. `IndInv`
therefore has three parts. `RecordInv` is about records and messages, and has
with the properties what they rest on: a request that has not got to `addToQueue`
has sent nothing, so the put or re-queue of a request makes the pin wait for a
message that is yet to come. `JobInv(s)` says of each job that it
has a message that was sent, that nobody waits for it once it is about to be
deleted, and that the CAR is stored when the pin is about to be marked. `BatchInv(i)`
says the same of the batches, whose messages are all spent.

Nothing in `JobInv(s)` or `BatchInv(i)` can be undone by another process:
`NoRegress` states what every step of every process keeps (messages stay
sent, spent messages stay spent, a pin never waits again for a message it ceased
to wait for, a CAR stays stored). So a step is proved by its own part of the
invariant and `NoRegress`, and `JobKept` and `BatchKept` do the rest. That is the shape
of `PickupProofs`: lemmas on the effect of each table and queue operation, one
lemma per component on types, one per kind of step (`EnqueueStep`, `SendStep`,
`MarkStep`, `SettleMessageStep`, ...), one per component (`ApiStep`, `WorkerStep`,
`CrashStep`, `DeadLettersStep`, `SqsStep`, `StorageStep`), and `NextInv`.

`ExclusionProofs`, for any `Faults` without lapse, resend and lambda:

* `Exclusion`: `DeliversOnce /\ Spec => []ExclusionInv`, and from it `OneHandler` and
  `CopiesAreComplete`. Two handlers never meet because of an argument about messages:
  at most one message of a cid that fits can still lead to a handler or to its pin
  being failed (`Contends`), and none can once the pin has failed, which is the only
  status a request queues again (`Contention`). That is inductive only with
  `Holding` (a message has one handler, which has its last receipt, so that
  a delete by a handler is the end of the message) and `Batching` (a dead message is
  in one batch, and answered with it). `Copying` then follows, because nobody else
  writes to the key between the check and the copy.
* `PinnedPinsStayDone`: `DeliversOnce /\ Spec => PinnedPinsAreDone`. Nothing protects the
  status of a pin from the unconditional updates; what does is that whoever makes one
  has a message that is not gone (`StatusSteps`). `SettlingInv` is the strengthening: a
  handler whose message is gone can only release it, and a request that is about to
  send has its pin queued, because its message is the only one that contends. The
  theorem includes a stale read of `failed` by the API: the condition of the update
  refuses it, which the mutant of the property drops.
* `AcceptedPinsAreInProgress`, without failures of the API and of its puts: both
  exceptions of `QueuedIsOwned` need one of them.

`DelegateProofs`, for any `Faults`: `DelegatesAreInvolved`. The delegates of a record, in
the table and in its replica, and those a request was answered with, are workers
that have heard of the cid, and so is the worker of each job from the moment it
has its message. Nobody forgets what was heard.

`CarAttemptProofs`, of the fetch: `FetchInvariance`, and from it `UploadsStand`, `SizesAreLimited`,
`FetchesAreBounded` and the action property `SlowChunksAreSlow`.
A timer that runs and the clock since its start add up to its timeout; both
timers run for as long as a stream is read and not aborted; and a stream that ended
stopped both. `AttemptIsAFetch` gives that these hold of attempts. Of the attempt:

* `AttemptTypes`, and `AcceptedCarIsTheDag`. The checks of `verify` give that a CAR is
  closed under its links and has a block. They do not give that the block is of the
  DAG: that comes from the export having its root first and going on from there,
  and from the upload being done only after the stream has ended, so that nothing
  is added to what is checked.
* `WorkIsHidden`: `MaxHidden <= NoExtensionsAfter /\ AttemptSpec => []HiddenWhileWorking`.
  The assumption is that the 12 hours of SQS come before the cap on extensions. While
  extensions go on the message is hidden for at least the lead with which they are
  due, and no tick passes before one that is due was made. The run is an instance
  with the assumption, and the mutant of its property is one without.
* `AttemptIsAHandler`: `AttemptSpec => ImplementsHandler`. It needs that the bytes sent
  bound the blocks in the upload, so that a CAR over the limit is never taken for a
  complete one.

`WorkerNodeProofs`: `WorkerTypes`; `ConnectionsAreWanted`: a connection is made by a handler
with the origin in its message, which has still to come to its `finally` block, and a
loop that disconnects an origin leaves behind none that nobody else wants;
and `HandlersOnlyAdvance`: `Spec => HandlersAdvance`. `StepsLeft` bounds
what a handler has before it, by its stage, the origins its loop has not reached
and the attempts it has left, and every step of it lowers that. It is the half of
`HandlersEnd` that needs no fairness. The lemmas `LoopAdvances` and `StageAdvances` do the
counting for records; `StepAdvances` maps each action to one of them.

`GetPinsProofs`, for any lists and chunks and any lag of the replicas: `GetPinsTypes`;
`ListedRowsAreTrue`, `~MayThrottle /\ Spec => []RowsAreTrue`; and `PinnedRowsAreStored`, with no
such assumption: a client that is told "pinned" can rely on the CAR whatever a read
left out and however old it was, since CARs stay (`StoredInv`). `ListedRowsAreTrue`
rests on `InAChunk` (the chunks leave out no cid, which is about division), on what a
read found having been seen (`ReadIsTrue`: what the table or a replica can answer is
in `seen` from the request on), and on the greatest chunk with an item being one that
was read.

`PinningServiceProofs`:

* `ServiceTypes`, and `AnsweredPinsAreStored`: an item is only ever replaced by one with
  its requestid, and a message is sent after the put.
* `AnswersArePinsPut` and `QueriesListLatestFirst`: `Spec => []AnswersArePins` and
  `Spec => ListsLatestFirst`. They rest on what `LatestFirst`, a CHOOSE, returns. `ListExists`
  shows that a finite set of items with different ids has a sorted sequence (each
  item's place is one more than the number of later ones), `LatestFirstLists` that the one
  which is chosen is sorted and has exactly these items; `ListingInv` is the
  invariant that what is in the table and in the replica is such a set, because
  two calls never share a requestid.
* `MatchesAreListed`: without lag, and with no limit below the number of calls,
  `Spec => ListsWhatMatches`, and more: every pin a query is for is in the list, full or
  not. Its hypotheses are what `FilteredOut` breaks: that run has a limit of 1 for two
  calls.

Only model-checked: liveness (`MessagesAreSettled`, `KeepsLifecycle`, `AttemptEnds`, `HandlersEnd`,
`ListIsAnswered`), because TLAPS has no proof rules here for fairness and `ENABLED`. All
other properties of the passing runs are stated by a theorem.

## What is not modelled

* What linkdex and kubo do inside: a DAG is its links. CIDs, multiaddrs,
  which addresses are public, authorisation tokens and the layout of answers.
* Squiss itself. Its polling is `ReceiveMessage`, its extensions are
  `ExtendVisibility` of `CarAttempt`, in time; one that is lost or late is `lapse` of
  `Pickup`. What it makes of a setting that is a string, or missing, is not in this
  repository.
* The retention of messages. The queues keep the default of SQS, four days: a message
  that is not received in time is dropped, and its pin stays queued.
* More than two copies of a message that is sent again.
* The waiting times of `findDelegates` against the lambda's time limit.
* The legacy cluster client (`helper/fetchers.ts`): no handler imports it, so it is
  no part of what runs.
* The stacks, but for the values they set. Scaling in ends a task with its jobs,
  which is `Crash`; scaling out is a set of workers.
* The kubo configuration, logging and generated types.

## Plan

Done, in this order: `PinTable`, `PinQueue`, `AddPin`, `MessageHandler`, `FailPin`,
`Pickup` and its runs; `PickupInvariant` and its proofs; `PinLifecycle` and the
refinement; `CarFetcher`; `GetPins`; `PinningService`; then repeated sends, `CarCheck`
and `CarAttempt` with its refinement of `MessageHandler`; `WorkerNode`; lagging reads and
upserts of `PinningService`; and the proofs on exclusion, delegates, fetches,
attempts, connections, lists and the store, and that messages and handlers are used
up by what they do.

Next:

1. `findDelegates` against the lambda's 31 seconds.
2. Scaling: whether the number of visible messages ends a task that has jobs.
