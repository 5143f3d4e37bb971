----------------------------- MODULE CarAttempt -----------------------------
(***************************************************************************)
(* One attempt of a worker at a pin, from the fetch to the copy: what      *)
(* CarFetcher leaves out is added to it. kubo exports the blocks of a DAG, *)
(* all of them or not; the uploaded object is read back and checked, and   *)
(* copied (pickup/lib/s3.js, car.js); and Squiss extends the visibility    *)
(* timeout of the message meanwhile (pickup/lib/pickup.js).                *)
(*                                                                         *)
(* The attempt implements the steps of MessageHandler between "fetch" and  *)
(* "pin", "fail" or "release". A pin's cid is modelled by its DAG.         *)
(***************************************************************************)
EXTENDS CarFetcher, CarCheck

CONSTANTS
  Dags,         \* the DAGs that are asked for
  Visibility,   \* ticks SQS hides a message for, from a receive or extension
  Lead,         \* ticks before its end that Squiss extends it
  MaxHidden     \* ticks SQS lets a received message be hidden for: 12 hours

ASSUME CarAttemptConstants ==
  /\ Dags \subseteq Links
  /\ \A n \in ChunkSizes : n <= BlockBytes
  /\ Visibility \in Nat /\ MaxHidden \in Nat
  /\ Lead \in 1 .. Visibility - 1

VARIABLES
  links,       \* the DAG of the pin
  exported,    \* the blocks whose last byte streamWatcher has taken
  check,       \* how far verify is
  hiddenFor,   \* ticks until the message is visible
  age          \* ticks since the message was received, up to one too many

checkVars == <<exported, check>>
messageVars == <<hiddenFor, age>>
attemptVars == <<fetcherVars, links, checkVars, messageVars>>

AttemptTypeOK ==
  /\ FetcherTypeOK
  /\ links \in Dags
  /\ exported \subseteq Blocks
  /\ check \in {"none", "accepted", "copied", "failed"}
  /\ hiddenFor \in 0 .. Visibility /\ age \in 0 .. MaxHidden + 1

\* The message was received just now: what comes before the fetch takes no
\* ticks.
AttemptInit ==
  /\ Init
  /\ links \in Dags
  /\ carSize = CarBytes(Cardinality(Dag(links)))
  /\ exported = {}
  /\ check = "none"
  /\ hiddenFor = Visibility /\ age = 0

-----------------------------------------------------------------------------
\* The handler still works on the message.
Working ==
  \/ verdict = "pending"
  \/ verdict = "uploaded" /\ check \in {"none", "accepted"}

\* kubo walks the DAG from its root: after a block come those it links to.
NextBlocks ==
  IF exported = {} THEN {Root}
                   ELSE (UNION {links[b] : b \in exported}) \ exported

\* The watcher takes a chunk, and perhaps with it the end of a block.
ExportChunk(n) ==
  /\ WatchChunk(n)
  /\ IF WholeBlocks(size') > Cardinality(exported)
       THEN \E b \in NextBlocks : exported' = exported \cup {b}
       ELSE UNCHANGED exported
  /\ UNCHANGED <<links, check, messageVars>>

Fetch ==
  /\ \/ TimerFires
     \/ StartUpload
     \/ EndStream
     \/ BreakStream
     \/ UploadPart
     \/ CompleteUpload
     \/ FailUpload
     \/ Decide
     \/ Over
  /\ UNCHANGED <<links, checkVars, messageVars>>

\* verify reads the object and checks it.
CheckCar ==
  /\ verdict = "uploaded" /\ check = "none"
  /\ Accepts(links, exported, size)
  /\ check' = "accepted"
  /\ UNCHANGED <<fetcherVars, links, exported, messageVars>>

CopyCar ==
  /\ check = "accepted"
  /\ check' = "copied"
  /\ UNCHANGED <<fetcherVars, links, exported, messageVars>>

\* The object cannot be had or is refused, or the copy fails six times.
VerifyThrows ==
  /\ verdict = "uploaded" /\ check \in {"none", "accepted"}
  /\ check' = "failed"
  /\ UNCHANGED <<fetcherVars, links, exported, messageVars>>

-----------------------------------------------------------------------------
\* Mutation: the milliseconds of FETCH_TIMEOUT_MS are converted to seconds.
NoExtensionsAfterFetch == FetchTimeout

\* noExtensionsAfterSecs is given the number of FETCH_TIMEOUT_MS, unconverted.
NoExtensionsAfter == 1000 * FetchTimeout

\* SQS refuses to hide a message for longer than MaxHidden in all.
ExtensionDue ==
  /\ Working /\ hiddenFor = Lead
  /\ age < NoExtensionsAfter
  /\ age + Visibility <= MaxHidden

\* Mutation: an extension is added to what is left.
ExtendByVisibility ==
  /\ ExtensionDue
  /\ hiddenFor' = hiddenFor + Visibility
  /\ UNCHANGED <<fetcherVars, links, checkVars, age>>

\* autoExtendTimeout: Squiss does this in time, before the next tick.
ExtendVisibility ==
  /\ ExtensionDue
  /\ hiddenFor' = Visibility
  /\ UNCHANGED <<fetcherVars, links, checkVars, age>>

AttemptTick ==
  /\ Tick /\ ~ExtensionDue
  /\ hiddenFor' = IF hiddenFor = 0 THEN 0 ELSE hiddenFor - 1
  /\ age' = UpTo(MaxHidden + 1, age)
  /\ UNCHANGED <<links, checkVars>>

AttemptNext ==
  \/ AttemptTick
  \/ \E n \in ChunkSizes : ExportChunk(n)
  \/ Fetch
  \/ CheckCar
  \/ CopyCar
  \/ VerifyThrows
  \/ ExtendVisibility

AttemptSpec == AttemptInit /\ [][AttemptNext]_attemptVars

(***************************************************************************)
(* The clock ticks, Squiss extends, due timers run, an aborted or broken   *)
(* request and its upload fail, S3 takes what it is sent once the stream   *)
(* has ended, and each of its calls ends. While the stream flows, neither  *)
(* kubo nor S3 has to make progress.                                       *)
(***************************************************************************)
Progress(A) == A /\ UNCHANGED <<links, checkVars, messageVars>>

AttemptFairness ==
  /\ WF_attemptVars(AttemptTick)
  /\ WF_attemptVars(ExtendVisibility)
  /\ WF_attemptVars(Progress(TimerFires))
  /\ WF_attemptVars(Progress(reason # "none" /\ BreakStream))
  /\ WF_attemptVars(Progress(stream = "broken" /\ FailUpload))
  /\ WF_attemptVars(Progress(stream = "ended"
                               /\ (UploadPart \/ CompleteUpload)))
  /\ WF_attemptVars(Progress(Decide))
  /\ WF_attemptVars(CheckCar \/ CopyCar \/ VerifyThrows)

FairAttempt == AttemptSpec /\ AttemptFairness

-----------------------------------------------------------------------------
(***************************************************************************)
(* A CAR that passes the checks is the whole DAG of the pin. The checks    *)
(* alone do not give that, for they never look for the root: it takes that *)
(* an export has the root first.                                           *)
(***************************************************************************)
WholeCar == exported = Dag(links) /\ Readable(size)

AcceptedIsWholeDag == check \in {"accepted", "copied"} => WholeCar

(***************************************************************************)
(* No other worker is given the message while its handler works on it,     *)
(* from the fetch to the copy, for as long as SQS lets a message be        *)
(* hidden. The upload, the check and the copy go on after the time limit   *)
(* of the fetch.                                                           *)
(***************************************************************************)
HiddenWhileWorking ==
  Working /\ age <= MaxHidden - Visibility => hiddenFor > 0

\* A fetch that hangs, in kubo or in an upload that does not drain it, ends,
\* and so does the attempt.
AttemptEnds == <>~Working

-----------------------------------------------------------------------------
\* What the uploaded object is to MessageHandler.
Object ==
  IF verdict # "uploaded" THEN "none"
  ELSE IF WholeCar THEN "complete" ELSE "partial"

HandlerStep ==
  CASE verdict = "pending"  -> "fetch"
    [] verdict = "too big"  -> "fail"
    [] verdict = "released" -> "release"
    [] verdict = "uploaded" ->
         CASE check = "none"     -> "get"
           [] check = "accepted" -> "copy"
           [] check = "copied"   -> "pin"
           [] check = "failed"   -> "release"

Handler == INSTANCE MessageHandler WITH
  Cids <- Dags, Requests <- Dags, CidOf <- [d \in Dags |-> d],
  Workers <- {"worker"}, NoRequest <- "none", Faults <- {},
  MaxReceiveCount <- 1,
  Slots <- {"slot"}, WorkerOf <- [s \in {"slot"} |-> "worker"],
  Fits <- {d \in Dags : CarBytes(Cardinality(Dag(d))) <= MaxCarBytes},
  table <- [d \in Dags |->
    [status |-> "queued", created |-> d, delegates |-> {"worker"}]],
  replica <- [d \in Dags |->
    [status |-> "queued", created |-> d, delegates |-> {"worker"}]],
  queue <- [d \in Dags |-> IF d = links THEN "inflight" ELSE "unsent"],
  receives <- [d \in Dags |-> IF d = links THEN 1 ELSE 0],
  job <- [s \in {"slot"} |->
    [pc |-> HandlerStep, message |-> links, receipt |-> 1]],
  validation <- [d \in Dags |-> IF d = links THEN Object ELSE "none"],
  destination <- [d \in Dags |->
    IF d = links /\ check = "copied" THEN Object ELSE "none"]

(***************************************************************************)
(* The attempt implements the handler's steps in Pickup: it fails a pin    *)
(* only when its CAR does not fit, accepts only a complete CAR, copies     *)
(* what it accepted, and releases the message otherwise.                   *)
(***************************************************************************)
ImplementsHandler ==
  [][Handler!HandlerNext("slot")]_(Handler!handlerVars)
=============================================================================
