-------------------------- MODULE CarAttemptProofs --------------------------
(***************************************************************************)
(* Proofs on a fetch, which are about CarFetcher, and on the attempt it is *)
(* a part of, for any DAGs, limits, timeouts and chunk sizes.              *)
(*                                                                         *)
(* The fetch: a timer that runs counts against the clock from its last     *)
(* start; the fetch timer runs for as long as the stream is read and not   *)
(* aborted; and a stream that ended has stopped both.                      *)
(*                                                                         *)
(* The CAR that verify accepts is the whole DAG: the checks of verify give *)
(* that its blocks are closed under their links and that there is one; the *)
(* order of the export gives that the root is one of them, and that all    *)
(* are of the DAG. And what was checked is what was exported: once an      *)
(* upload is done its stream has ended.                                    *)
(*                                                                         *)
(* So an attempt implements the steps of a handler, and its message stays  *)
(* hidden meanwhile.                                                       *)
(***************************************************************************)
EXTENDS CarAttempt, TLAPS, FiniteSetTheorems

-----------------------------------------------------------------------------
(* The fetch *)

TimerInv ==
  /\ fetchTimer # Off => elapsed + fetchTimer = FetchTimeout
  /\ chunkTimer # Off => quiet + chunkTimer = ChunkTimeout
  /\ stream \in ReadingStates /\ reason = "none"
       => fetchTimer # Off /\ chunkTimer # Off
  /\ FetchIsBounded

StreamInv ==
  /\ stream = "ended" => reason = "none" /\ fetchTimer = Off /\ chunkTimer = Off
  /\ upload = "done" => stream = "ended"
  /\ upload = "running" => stream # "connecting"
  /\ verdict = "uploaded" => upload = "done"
  /\ reason = "TOO_BIG" => size > MaxCarBytes
  /\ SizeLimit

FetcherInv == FetcherTypeOK /\ TimerInv /\ StreamInv

-----------------------------------------------------------------------------
LEMMA InitFetcher ==
  ASSUME Init
  PROVE  FetcherInv
BY CarFetcherConstants
DEF Init, FetcherInv, FetcherTypeOK, TimerInv, StreamInv, FetchIsBounded,
  SizeLimit, Off, Reason, ReadingStates

\* The type invariant, as the numbers of the clocks and timers.
LEMMA Numbers ==
  ASSUME FetcherTypeOK
  PROVE  /\ FetchTimeout \in Nat \ {0} /\ ChunkTimeout \in Nat \ {0}
         /\ MaxCarBytes \in Nat /\ ChunkSizes \subseteq Nat
         /\ fetchTimer \in -1 .. FetchTimeout
         /\ chunkTimer \in -1 .. ChunkTimeout
         /\ elapsed \in 0 .. FetchTimeout + 1
         /\ quiet \in 0 .. ChunkTimeout + 1
         /\ size \in Nat /\ buffered \in Nat
BY CarFetcherConstants DEF FetcherTypeOK, Off

\* A tick brings a running timer as much closer as it takes off the clock,
\* and no tick passes between an abort and the end of the stream.
LEMMA TickInv ==
  ASSUME FetcherInv, Tick
  PROVE  FetcherInv'
<1>1. fetchTimer # 0 /\ chunkTimer # 0
  BY DEF Tick, Busy, Due
<1>2. stream \in ReadingStates => reason = "none"
  BY DEF Tick, Busy
<1>3. /\ UNCHANGED <<carSize, stream, size, buffered, reason, upload, verdict>>
      /\ fetchTimer' = IF fetchTimer = Off THEN Off ELSE fetchTimer - 1
      /\ chunkTimer' = IF chunkTimer = Off THEN Off ELSE chunkTimer - 1
      /\ elapsed' = IF elapsed < FetchTimeout + 1 THEN elapsed + 1
                                                  ELSE FetchTimeout + 1
      /\ quiet' = IF quiet < ChunkTimeout + 1 THEN quiet + 1
                                           ELSE ChunkTimeout + 1
  BY DEF Tick, After, UpTo, streamVars
<1>4. /\ fetchTimer' \in -1 .. FetchTimeout
      /\ chunkTimer' \in -1 .. ChunkTimeout
      /\ elapsed' \in 0 .. FetchTimeout + 1
      /\ quiet' \in 0 .. ChunkTimeout + 1
  BY <1>1, <1>3, Numbers DEF FetcherInv, Off
<1>5. FetcherTypeOK'
  BY <1>3, <1>4 DEF FetcherInv, FetcherTypeOK, Off
<1>6. /\ fetchTimer' # Off => elapsed' + fetchTimer' = FetchTimeout
      /\ chunkTimer' # Off => quiet' + chunkTimer' = ChunkTimeout
  BY <1>1, <1>3, Numbers DEF FetcherInv, TimerInv, Off
<1>7. /\ fetchTimer # Off => fetchTimer' # Off /\ elapsed' <= FetchTimeout
      /\ chunkTimer # Off => chunkTimer' # Off /\ quiet' <= ChunkTimeout
  BY <1>1, <1>3, <1>6, Numbers, <1>4 DEF FetcherInv, Off
<1>8. TimerInv'
  BY <1>2, <1>3, <1>6, <1>7 DEF FetcherInv, TimerInv, FetchIsBounded
<1>9. StreamInv'
  BY <1>3 DEF FetcherInv, StreamInv, SizeLimit
<1> QED
  BY <1>5, <1>8, <1>9 DEF FetcherInv

\* An abort stops the timers of a stream that is read.
LEMMA TimerFiresInv ==
  ASSUME FetcherInv, TimerFires
  PROVE  FetcherInv'
<1>1. /\ UNCHANGED <<carSize, stream, size, buffered, verdict, elapsed, quiet>>
      /\ fetchTimer' = Off /\ chunkTimer' = Off
      /\ upload' = IF upload = "running" THEN "failed" ELSE upload
      /\ reason = "none" => reason' \in {"FETCH_TOO_SLOW", "CHUNK_TOO_SLOW"}
      /\ reason # "none" => reason' = reason
  BY DEF TimerFires, Abort, ClearTimers, streamVars, clockVars
<1>2. fetchTimer = 0 \/ chunkTimer = 0
  BY DEF TimerFires, Due
<1>3. stream # "ended" /\ upload # "done"
  BY <1>2 DEF FetcherInv, StreamInv, Off
<1>4. FetcherTypeOK'
  <2>1. -1 \in -1 .. FetchTimeout /\ -1 \in -1 .. ChunkTimeout
    BY Numbers DEF FetcherInv
  <2> QED
    BY <1>1, <2>1 DEF FetcherInv, FetcherTypeOK, Reason, Off
<1>5. TimerInv'
  BY <1>1 DEF FetcherInv, TimerInv, FetchIsBounded
<1>6. StreamInv'
  BY <1>1, <1>3 DEF FetcherInv, StreamInv, SizeLimit
<1> QED
  BY <1>4, <1>5, <1>6 DEF FetcherInv

\* The watcher counts a chunk before it passes it on, restarts only the
\* chunk timer, and breaks the stream when it has counted too much.
LEMMA WatchChunkInv ==
  ASSUME FetcherInv, NEW n \in ChunkSizes, WatchChunk(n)
  PROVE  FetcherInv'
<1>1. /\ size' = size + n /\ quiet' = 0 /\ UNCHANGED <<carSize, verdict, elapsed>>
      /\ stream = "flowing"
  BY DEF WatchChunk
<1>2. /\ size' \in Nat /\ size' >= size /\ buffered + n \in Nat
      /\ 0 \in 0 .. ChunkTimeout + 1 /\ 0 <= ChunkTimeout
      /\ -1 \in -1 .. FetchTimeout /\ -1 \in -1 .. ChunkTimeout
      /\ ChunkTimeout \in -1 .. ChunkTimeout /\ 0 + ChunkTimeout = ChunkTimeout
      /\ ChunkTimeout # Off
  BY <1>1, Numbers DEF FetcherInv, Off
<1>3. /\ upload # "done" /\ verdict # "uploaded"
      /\ verdict # "too big" /\ reason # "TOO_BIG"
  <2>1. size <= MaxCarBytes /\ ~(size > MaxCarBytes)
    <3>1. size <= MaxCarBytes
      BY <1>1 DEF FetcherInv, StreamInv, SizeLimit
    <3>2. size \in Nat /\ MaxCarBytes \in Nat
      BY Numbers DEF FetcherInv
    <3> QED
      BY <3>1, <3>2
  <2> QED
    BY <1>1, <2>1 DEF FetcherInv, StreamInv, SizeLimit
<1>4. CASE size' > MaxCarBytes
  <2>1. /\ stream' = "broken" /\ UNCHANGED buffered
        /\ fetchTimer' = Off /\ chunkTimer' = Off
        /\ reason' = IF reason = "none" THEN "TOO_BIG" ELSE reason
        /\ upload' = IF upload = "running" THEN "failed" ELSE upload
    <3>1. ~(size' <= MaxCarBytes)
      BY <1>2, <1>4, Numbers DEF FetcherInv
    <3> QED
      BY <3>1 DEF WatchChunk, Abort, ClearTimers
  <2>2. FetcherTypeOK'
    BY <1>1, <1>2, <2>1 DEF FetcherInv, FetcherTypeOK, Reason, Off
  <2>3. TimerInv'
    BY <2>1 DEF FetcherInv, TimerInv, FetchIsBounded, ReadingStates
  <2>4. StreamInv'
    BY <1>1, <1>3, <1>4, <2>1 DEF FetcherInv, StreamInv, SizeLimit
  <2> QED
    BY <2>2, <2>3, <2>4 DEF FetcherInv
<1>5. CASE size' <= MaxCarBytes
  <2>1. /\ UNCHANGED <<stream, fetchTimer, reason, upload>>
        /\ buffered' = buffered + n /\ chunkTimer' = ChunkTimeout
    <3>1. ~(size' > MaxCarBytes)
      BY <1>2, <1>5, Numbers DEF FetcherInv
    <3> QED
      BY <3>1 DEF WatchChunk
  <2>2. FetcherTypeOK'
    BY <1>1, <1>2, <2>1 DEF FetcherInv, FetcherTypeOK, Off
  <2>3. TimerInv'
    BY <1>1, <1>2, <2>1 DEF FetcherInv, TimerInv, FetchIsBounded
  <2>4. StreamInv'
    BY <1>1, <1>3, <1>5, <2>1 DEF FetcherInv, StreamInv, SizeLimit
  <2> QED
    BY <2>2, <2>3, <2>4 DEF FetcherInv
<1>6. size' > MaxCarBytes \/ size' <= MaxCarBytes
  BY <1>2, Numbers DEF FetcherInv
<1> QED
  BY <1>4, <1>5, <1>6

\* The stream and the upload begin and end.
LEMMA StreamStepInv ==
  ASSUME FetcherInv,
         \/ StartUpload \/ EndStream \/ BreakStream
         \/ UploadPart \/ CompleteUpload \/ FailUpload
  PROVE  FetcherInv'
<1>1. /\ UNCHANGED <<carSize, size, reason, verdict, elapsed, quiet>>
      /\ \/ UNCHANGED <<fetchTimer, chunkTimer>>
         \/ fetchTimer' = Off /\ chunkTimer' = Off
  BY DEF StartUpload, EndStream, BreakStream, UploadPart, CompleteUpload,
    FailUpload, ClearTimers, timerVars, clockVars, streamVars
<1>2. FetcherTypeOK'
  <2>1. -1 \in -1 .. FetchTimeout /\ -1 \in -1 .. ChunkTimeout
    BY Numbers DEF FetcherInv
  <2>2. buffered' \in Nat
    BY Numbers DEF FetcherInv, StartUpload, EndStream, BreakStream,
      UploadPart, CompleteUpload, FailUpload, streamVars
  <2>3. stream' \in ReadingStates \cup {"ended", "broken"}
    BY DEF FetcherInv, FetcherTypeOK, StartUpload, EndStream, BreakStream,
      UploadPart, CompleteUpload, FailUpload, streamVars, ReadingStates
  <2>4. upload' \in {"waiting", "running", "done", "failed"}
    BY DEF FetcherInv, FetcherTypeOK, StartUpload, EndStream, BreakStream,
      UploadPart, CompleteUpload, FailUpload, streamVars
  <2> QED
    BY <1>1, <2>1, <2>2, <2>3, <2>4 DEF FetcherInv, FetcherTypeOK, Off
<1>3. TimerInv'
  BY <1>1 DEF FetcherInv, TimerInv, FetchIsBounded, ReadingStates,
    StartUpload, EndStream, BreakStream, UploadPart, CompleteUpload,
    FailUpload, streamVars, timerVars
<1>4. StreamInv'
  BY <1>1 DEF FetcherInv, StreamInv, SizeLimit, ReadingStates,
    StartUpload, EndStream, BreakStream, UploadPart, CompleteUpload,
    FailUpload, ClearTimers, streamVars, timerVars
<1> QED
  BY <1>2, <1>3, <1>4 DEF FetcherInv

\* The handler fails the pin for the reason the fetch ended.
LEMMA DecideInv ==
  ASSUME FetcherInv, Decide
  PROVE  FetcherInv'
BY DEF Decide, FetcherInv, FetcherTypeOK, TimerInv, StreamInv, FetchIsBounded,
  SizeLimit, streamVars, timerVars, clockVars

LEMMA NextFetcher ==
  ASSUME FetcherInv, [Next]_fetcherVars
  PROVE  FetcherInv'
<1>1. CASE UNCHANGED fetcherVars
  BY <1>1 DEF FetcherInv, FetcherTypeOK, TimerInv, StreamInv, FetchIsBounded,
    SizeLimit, fetcherVars, streamVars, timerVars, clockVars
<1> QED
  BY <1>1, TickInv, TimerFiresInv, WatchChunkInv, StreamStepInv, DecideInv
  DEF Next, Over

\* The invariant of a fetch.
THEOREM FetchInvariance == Spec => []FetcherInv
<1>1. FetcherInv /\ [Next]_fetcherVars => FetcherInv'
  BY NextFetcher
<1> QED
  BY InitFetcher, <1>1, PTL DEF Spec

\* An upload that completed is never aborted: no timer of its fetch is left
\* to race the verification.
THEOREM UploadsStand == Spec => []UploadedIsNotAborted
<1>1. FetcherInv => UploadedIsNotAborted
  BY DEF FetcherInv, StreamInv, UploadedIsNotAborted
<1> QED
  BY FetchInvariance, <1>1, PTL

\* A pin fails only for a CAR of which more than MaxCarBytes were counted,
\* and no more than that is passed on.
THEOREM SizesAreLimited == Spec => []SizeLimit
<1>1. FetcherInv => SizeLimit
  BY DEF FetcherInv, StreamInv
<1> QED
  BY FetchInvariance, <1>1, PTL

\* A stream is read for FetchTimeout at most, however often the chunk timer
\* is restarted, and for ChunkTimeout at most without a chunk.
THEOREM FetchesAreBounded == Spec => []FetchIsBounded
<1>1. FetcherInv => FetchIsBounded
  BY DEF FetcherInv, TimerInv
<1> QED
  BY FetchInvariance, <1>1, PTL

\* CHUNK_TOO_SLOW is only given after ChunkTimeout without a chunk, although
\* the timer is restarted by the watcher and cleared by the abort.
THEOREM SlowChunksAreSlow == Spec => SlowChunkIsSlow
<1>1. ASSUME FetcherInv, [Next]_fetcherVars,
             reason = "none", reason' = "CHUNK_TOO_SLOW"
      PROVE  quiet = ChunkTimeout
  <2>1. TimerFires
    BY <1>1 DEF Next, Tick, StartUpload, WatchChunk, Abort, EndStream,
      BreakStream, UploadPart, CompleteUpload, FailUpload, Decide, Over,
      fetcherVars, timerVars
  <2>2. chunkTimer = 0
    BY <1>1, <2>1 DEF TimerFires, Abort, Due
  <2> QED
    BY <1>1, <2>2, Numbers DEF FetcherInv, TimerInv, Off
<1>2. FetcherInv /\ [Next]_fetcherVars =>
        [reason = "none" /\ reason' = "CHUNK_TOO_SLOW"
           => quiet = ChunkTimeout]_fetcherVars
  BY <1>1
<1> QED
  BY FetchInvariance, <1>2, PTL DEF Spec, SlowChunkIsSlow

-----------------------------------------------------------------------------
(* The CAR that is accepted *)

ExportInv ==
  /\ links \in Links
  /\ exported \subseteq Dag(links)
  /\ exported # {} => Root \in exported

VerifyInv ==
  /\ upload = "done" => stream = "ended"
  /\ verdict = "uploaded" => upload = "done"
  /\ check # "none" => verdict = "uploaded"
  /\ check \in {"accepted", "copied"} => Accepts(links, exported, size)

AttemptInv == ExportInv /\ VerifyInv

-----------------------------------------------------------------------------
\* The root is a block of its DAG, and so is what a block of it links to.
LEMMA RootInDag ==
  ASSUME NEW d \in Links
  PROVE  Root \in Dag(d)
BY CarCheckConstants DEF Dag

LEMMA DagIsClosed ==
  ASSUME NEW d \in Links, NEW b \in Dag(d)
  PROVE  d[b] \subseteq Dag(d)
<1>. SUFFICES ASSUME NEW c \in d[b]
              PROVE  c \in Dag(d)
  OBVIOUS
<1>1. b \in Blocks /\ c \in Blocks
  BY DEF Dag, Links
<1>2. ASSUME NEW S \in SUBSET Blocks, Root \in S, Closed(d, S)
      PROVE  c \in S
  BY <1>2 DEF Dag, Closed
<1> QED
  BY <1>1, <1>2 DEF Dag

\* A CAR that passes the checks has all blocks of the DAG, if it has its root.
LEMMA AcceptedHasDag ==
  ASSUME NEW d \in Links, NEW S \in SUBSET Dag(d), NEW n,
         S # {} => Root \in S, Accepts(d, S, n)
  PROVE  S = Dag(d)
<1>1. S # {}
  BY FS_EmptySet DEF Accepts, Report
<1>2. Closed(d, S)
  BY DEF Accepts, Report
<1> QED
  BY <1>1, <1>2 DEF Dag

-----------------------------------------------------------------------------
\* A chunk brings at most a block the export has got to.
LEMMA ExportStep ==
  ASSUME AttemptInv, NEW n \in ChunkSizes, ExportChunk(n)
  PROVE  AttemptInv'
<1>1. ExportInv'
  <2>1. UNCHANGED links /\ links \in Links
    BY DEF ExportChunk, AttemptInv, ExportInv
  <2>2. CASE UNCHANGED exported
    BY <2>1, <2>2 DEF AttemptInv, ExportInv
  <2>3. CASE \E b \in NextBlocks : exported' = exported \cup {b}
    <3>1. PICK b \in NextBlocks : exported' = exported \cup {b}
      BY <2>3
    <3>2. CASE exported = {}
      BY <2>1, <3>1, <3>2, RootInDag DEF NextBlocks, ExportInv
    <3>3. CASE exported # {}
      <4>1. PICK a \in exported : b \in links[a]
        BY <3>1, <3>3 DEF NextBlocks
      <4>2. b \in Dag(links)
        BY <2>1, <4>1, DagIsClosed DEF AttemptInv, ExportInv
      <4> QED
        BY <2>1, <3>1, <3>3, <4>2 DEF AttemptInv, ExportInv
    <3> QED
      BY <3>2, <3>3
  <2> QED
    BY <2>2, <2>3 DEF ExportChunk
<1>2. VerifyInv'
  <2>1. stream = "flowing" /\ UNCHANGED <<verdict, check>>
    BY DEF ExportChunk, WatchChunk
  <2>2. upload' # "done"
    BY <2>1 DEF ExportChunk, WatchChunk, Abort, AttemptInv, VerifyInv
  <2> QED
    BY <2>1, <2>2 DEF AttemptInv, VerifyInv
<1> QED
  BY <1>1, <1>2 DEF AttemptInv

\* No other step of the fetch changes what was exported, and none takes an
\* upload that is done back.
LEMMA FetchStep ==
  ASSUME AttemptInv, Fetch
  PROVE  AttemptInv'
<1>1. UNCHANGED <<links, exported, check, size>>
  BY DEF Fetch, checkVars, TimerFires, StartUpload, EndStream, BreakStream,
    UploadPart, CompleteUpload, FailUpload, Decide, Over, streamVars,
    fetcherVars
<1>2. ExportInv'
  BY <1>1 DEF AttemptInv, ExportInv
<1>3. /\ upload' = "done" => stream' = "ended"
      /\ upload = "done" => upload' = "done"
  BY DEF AttemptInv, VerifyInv, Fetch, TimerFires, Abort, StartUpload,
    EndStream, BreakStream, ReadingStates, UploadPart, CompleteUpload,
    FailUpload, Decide, Over, streamVars, fetcherVars
<1>4. /\ verdict' = "uploaded" => upload' = "done"
      /\ verdict = "uploaded" => verdict' = "uploaded"
  BY <1>3 DEF AttemptInv, VerifyInv, Fetch, TimerFires, Abort, StartUpload,
    EndStream, BreakStream, UploadPart, CompleteUpload, FailUpload, Decide,
    Over, fetcherVars
<1>5. VerifyInv'
  BY <1>1, <1>3, <1>4 DEF AttemptInv, VerifyInv
<1> QED
  BY <1>2, <1>5 DEF AttemptInv

LEMMA VerifyStep ==
  ASSUME AttemptInv, CheckCar \/ CopyCar \/ VerifyThrows
  PROVE  AttemptInv'
BY DEF AttemptInv, ExportInv, VerifyInv, CheckCar, CopyCar, VerifyThrows,
  fetcherVars, streamVars

LEMMA AttemptNextInv ==
  ASSUME AttemptInv, [AttemptNext]_attemptVars
  PROVE  AttemptInv'
<1>1. CASE AttemptTick \/ ExtendVisibility \/ UNCHANGED attemptVars
  BY <1>1 DEF AttemptInv, ExportInv, VerifyInv, AttemptTick, Tick,
    ExtendVisibility, attemptVars, fetcherVars, streamVars, checkVars
<1> QED
  BY <1>1, ExportStep, FetchStep, VerifyStep DEF AttemptNext

-----------------------------------------------------------------------------
\* A CAR is only accepted, and copied, when it is the whole DAG of the pin.
THEOREM AcceptedCarIsTheDag == AttemptSpec => []AcceptedIsWholeDag
<1>1. AttemptInit => AttemptInv
  BY CarAttemptConstants DEF AttemptInit, Init, AttemptInv, ExportInv,
    VerifyInv
<1>2. AttemptInv => AcceptedIsWholeDag
  BY AcceptedHasDag DEF AttemptInv, ExportInv, VerifyInv,
    AcceptedIsWholeDag, WholeCar, Accepts
<1> QED
  BY <1>1, <1>2, AttemptNextInv, PTL DEF AttemptSpec

\* What an attempt adds to a fetch leaves the fetch alone: what is proved of
\* CarFetcher holds of it.
THEOREM AttemptIsAFetch == AttemptSpec => Spec
<1>1. AttemptInit => Init
  BY DEF AttemptInit
<1>2. [AttemptNext]_attemptVars => [Next]_fetcherVars
  BY DEF AttemptNext, AttemptTick, ExportChunk, Fetch, CheckCar, CopyCar,
    VerifyThrows, ExtendVisibility, Next, attemptVars
<1> QED
  BY <1>1, <1>2, PTL DEF AttemptSpec, Spec
-----------------------------------------------------------------------------
(* Visibility *)

\* Squiss extends the timeout before it runs out, as long as SQS allows.
HiddenInv ==
  /\ age \in Nat /\ hiddenFor \in Nat
  /\ Working /\ age <= MaxHidden - Visibility => hiddenFor >= Lead

\* A handler that is done does not start to work again.
LEMMA WorkEnds ==
  ASSUME [AttemptNext]_attemptVars, Working'
  PROVE  Working
<1>1. verdict' = "pending" => verdict = "pending"
  BY DEF AttemptNext, AttemptTick, Tick, ExportChunk, WatchChunk, Fetch,
    TimerFires, StartUpload, EndStream, BreakStream, UploadPart,
    CompleteUpload, FailUpload, Decide, Over, CheckCar, CopyCar,
    VerifyThrows, ExtendVisibility, attemptVars, fetcherVars
<1>2. verdict' = "uploaded" => verdict \in {"pending", "uploaded"}
  BY DEF AttemptNext, AttemptTick, Tick, ExportChunk, WatchChunk, Fetch,
    TimerFires, StartUpload, EndStream, BreakStream, UploadPart,
    CompleteUpload, FailUpload, Decide, Over, CheckCar, CopyCar,
    VerifyThrows, ExtendVisibility, attemptVars, fetcherVars
<1>3. check' \in {"none", "accepted"} => check \in {"none", "accepted"}
  BY DEF AttemptNext, AttemptTick, ExportChunk, Fetch, CheckCar, CopyCar,
    VerifyThrows, ExtendVisibility, checkVars, attemptVars
<1> QED
  BY <1>1, <1>2, <1>3 DEF Working

LEMMA HiddenStep ==
  ASSUME MaxHidden <= NoExtensionsAfter, HiddenInv,
         [AttemptNext]_attemptVars
  PROVE  HiddenInv'
<1>. /\ Visibility \in Nat /\ Lead \in Nat \ {0} /\ Lead < Visibility
     /\ MaxHidden \in Nat /\ FetchTimeout \in Nat
     /\ NoExtensionsAfter \in Nat
  BY CarAttemptConstants, CarFetcherConstants DEF NoExtensionsAfter
<1>1. CASE AttemptTick
  <2>1. /\ age' = IF age < MaxHidden + 1 THEN age + 1 ELSE MaxHidden + 1
        /\ hiddenFor' = IF hiddenFor = 0 THEN 0 ELSE hiddenFor - 1
    BY <1>1 DEF AttemptTick, UpTo
  <2>2. age' \in Nat /\ hiddenFor' \in Nat
    BY <2>1 DEF HiddenInv
  <2>3. ASSUME Working', age' <= MaxHidden - Visibility
        PROVE  hiddenFor' >= Lead
    <3>1. age < MaxHidden + 1 /\ age' = age + 1
      BY <2>1, <2>3 DEF HiddenInv
    <3>2. Working /\ age + Visibility <= MaxHidden /\ age < NoExtensionsAfter
      BY <2>3, <3>1, <1>1, WorkEnds DEF AttemptNext, HiddenInv
    <3>3. hiddenFor # Lead
      BY <1>1, <3>2 DEF AttemptTick, ExtensionDue
    <3>4. hiddenFor >= Lead
      BY <3>2 DEF HiddenInv
    <3> QED
      BY <2>1, <3>3, <3>4 DEF HiddenInv
  <2> QED
    BY <2>2, <2>3 DEF HiddenInv
<1>2. CASE ExtendVisibility
  BY <1>2 DEF HiddenInv, ExtendVisibility
<1>3. CASE UNCHANGED messageVars
  BY <1>3, WorkEnds DEF messageVars, HiddenInv
<1> QED
  BY <1>1, <1>2, <1>3 DEF AttemptNext, ExportChunk, Fetch, CheckCar, CopyCar,
    VerifyThrows, attemptVars

\* The message stays hidden for as long as its handler works, however long
\* the upload, the check and the copy take after the fetch, until SQS hides
\* it no longer: noExtensionsAfterSecs does not come before that.
THEOREM WorkIsHidden ==
  MaxHidden <= NoExtensionsAfter /\ AttemptSpec => []HiddenWhileWorking
<1>1. AttemptInit => HiddenInv
  BY CarAttemptConstants DEF AttemptInit, HiddenInv
<1>2. HiddenInv => HiddenWhileWorking
  BY CarAttemptConstants DEF HiddenInv, HiddenWhileWorking
<1>3. CASE MaxHidden <= NoExtensionsAfter
  <2>1. HiddenInv /\ [AttemptNext]_attemptVars => HiddenInv'
    BY <1>3, HiddenStep
  <2> QED
    BY <1>1, <1>2, <2>1, PTL DEF AttemptSpec
<1> QED
  BY <1>3
-----------------------------------------------------------------------------
(* Refinement *)

\* The bytes of a CAR bound its blocks, and are those of the pin's DAG.
SizeInv ==
  /\ links \in Dags
  /\ size <= carSize
  /\ carSize = CarBytes(Cardinality(Dag(links)))
  /\ IsFiniteSet(exported)
  /\ exported # {} => CarBytes(Cardinality(exported)) <= size

MappingInv == FetcherInv /\ AttemptInv /\ SizeInv

LEMMA CarBytesType ==
  ASSUME NEW n \in Nat
  PROVE  CarBytes(n) \in Nat
BY CarCheckConstants, SMT DEF CarBytes

\* A CAR that holds more than n whole blocks has the bytes of n + 1.
LEMMA BytesOfBlocks ==
  ASSUME NEW n \in Nat, NEW bytes \in Nat, WholeBlocks(bytes) > n
  PROVE  CarBytes(n + 1) <= bytes
<1>1. HeaderBytes \in Nat /\ BlockBytes \in Nat \ {0}
  BY CarCheckConstants
<1>2. bytes >= HeaderBytes /\ (bytes - HeaderBytes) \div BlockBytes >= n + 1
  BY <1>1, SMT DEF WholeBlocks
<1>3. (n + 1) * BlockBytes <= bytes - HeaderBytes
  BY <1>1, <1>2, SMT
<1> QED
  BY <1>1, <1>3, SMT DEF CarBytes

LEMMA SizeStep ==
  ASSUME MappingInv, [AttemptNext]_attemptVars
  PROVE  SizeInv'
<1>. size \in Nat /\ MaxCarBytes \in Nat /\ ChunkSizes \subseteq Nat
  BY Numbers DEF MappingInv, FetcherInv
<1>1. UNCHANGED <<links, carSize>>
  BY DEF AttemptNext, AttemptTick, Tick, ExportChunk, WatchChunk, Fetch,
    TimerFires, StartUpload, EndStream, BreakStream, UploadPart,
    CompleteUpload, FailUpload, Decide, Over, CheckCar, CopyCar,
    VerifyThrows, ExtendVisibility, attemptVars, fetcherVars
<1>2. ASSUME NEW n \in ChunkSizes, ExportChunk(n)
      PROVE  SizeInv'
  <2>1. size' = size + n /\ size' <= carSize /\ size' \in Nat
    BY <1>2 DEF ExportChunk, WatchChunk
  <2>2. CASE UNCHANGED exported
    <3>1. CarBytes(Cardinality(exported)) \in Nat
      BY FS_CardinalityType, CarBytesType DEF MappingInv, SizeInv
    <3> QED
      BY <1>1, <2>1, <2>2, <3>1 DEF MappingInv, SizeInv
  <2>3. CASE \E b \in NextBlocks : exported' = exported \cup {b}
             /\ WholeBlocks(size') > Cardinality(exported)
    <3>1. PICK b \in NextBlocks : exported' = exported \cup {b}
      BY <2>3
    <3>2. b \notin exported /\ IsFiniteSet(exported)
      BY DEF NextBlocks, MappingInv, SizeInv
    <3>3. /\ IsFiniteSet(exported') /\ Cardinality(exported) \in Nat
          /\ Cardinality(exported') = Cardinality(exported) + 1
      BY <3>1, <3>2, FS_AddElement, FS_CardinalityType
    <3>4. CarBytes(Cardinality(exported')) <= size'
      BY <2>1, <2>3, <3>3, BytesOfBlocks
    <3> QED
      BY <1>1, <2>1, <3>3, <3>4 DEF MappingInv, SizeInv
  <2> QED
    BY <1>2, <2>2, <2>3 DEF ExportChunk
<1>3. CASE UNCHANGED <<size, exported>>
  BY <1>1, <1>3 DEF MappingInv, SizeInv
<1> QED
  BY <1>2, <1>3
  DEF AttemptNext, AttemptTick, Tick, Fetch, TimerFires, StartUpload,
    EndStream, BreakStream, UploadPart, CompleteUpload, FailUpload, Decide,
    Over, CheckCar, CopyCar, VerifyThrows, ExtendVisibility, attemptVars,
    checkVars, fetcherVars, streamVars

\* The cids of the mapping whose CAR is not too big.
FittingDags == {d \in Dags : CarBytes(Cardinality(Dag(d))) <= MaxCarBytes}

LEMMA WholeCarFits ==
  ASSUME MappingInv, WholeCar, stream # "broken"
  PROVE  links \in FittingDags
<1>1. exported # {} /\ links \in Dags
  BY RootInDag DEF MappingInv, AttemptInv, ExportInv, SizeInv, WholeCar
<1>2. CarBytes(Cardinality(exported)) <= size /\ size <= MaxCarBytes
  BY <1>1 DEF MappingInv, SizeInv, FetcherInv, StreamInv, SizeLimit
<1>3. /\ size \in Nat /\ MaxCarBytes \in Nat
      /\ CarBytes(Cardinality(exported)) \in Nat
  BY Numbers, FS_CardinalityType, CarBytesType
  DEF MappingInv, FetcherInv, SizeInv
<1>4. CarBytes(Cardinality(exported)) <= MaxCarBytes
  BY <1>2, <1>3
<1> QED
  BY <1>1, <1>4 DEF WholeCar, FittingDags

LEMMA TooBigDoesNotFit ==
  ASSUME MappingInv, reason = "TOO_BIG"
  PROVE  links \notin FittingDags
<1>1. /\ size \in Nat /\ MaxCarBytes \in Nat
      /\ carSize = CarBytes(Cardinality(Dag(links)))
      /\ carSize \in Nat
  BY Numbers, CarFetcherConstants
  DEF MappingInv, FetcherInv, FetcherTypeOK, SizeInv
<1>2. size > MaxCarBytes /\ size <= carSize
  BY DEF MappingInv, FetcherInv, StreamInv, SizeInv
<1> QED
  BY <1>1, <1>2 DEF FittingDags
-----------------------------------------------------------------------------
\* A step of the handler in Pickup, or a stutter.
Maps == [Handler!HandlerNext("slot")]_(Handler!handlerVars)

\* What the mapping makes of the table and the queue, and whose message it is.
LEMMA MapsFrame ==
  ASSUME links \in Dags, UNCHANGED links
  PROVE  /\ UNCHANGED Handler!tableVars
         /\ UNCHANGED Handler!queueVars
         /\ Handler!JobCid("slot") = links
BY DEF Handler!tableVars, Handler!queueVars, Handler!JobCid

LEMMA MapsGoto ==
  ASSUME NEW from, NEW to, HandlerStep = from, HandlerStep' = to,
         UNCHANGED links
  PROVE  Handler!Goto("slot", from, to)
BY DEF Handler!Goto

\* A step that leaves the verdicts alone is a stutter.
LEMMA MapsStutter ==
  ASSUME UNCHANGED <<links, verdict, check, Object>>
  PROVE  Maps
BY DEF Maps, Handler!handlerVars, HandlerStep

\* The uploaded object is what it was when its upload was done.
LEMMA ObjectStays ==
  ASSUME MappingInv, [AttemptNext]_attemptVars, UNCHANGED verdict
  PROVE  UNCHANGED Object
<1>1. CASE verdict # "uploaded"
  BY <1>1 DEF Object
<1>2. CASE verdict = "uploaded"
  <2>1. stream = "ended"
    BY <1>2 DEF MappingInv, AttemptInv, VerifyInv
  <2>2. UNCHANGED <<links, exported, size>>
    BY <2>1 DEF AttemptNext, AttemptTick, Tick, ExportChunk, WatchChunk,
      Fetch, TimerFires, StartUpload, EndStream, BreakStream, UploadPart,
      CompleteUpload, FailUpload, Decide, Over, CheckCar, CopyCar,
      VerifyThrows, ExtendVisibility, attemptVars, checkVars, fetcherVars,
      streamVars
  <2> QED
    BY <2>2 DEF Object, WholeCar
<1> QED
  BY <1>1, <1>2

\* messageHandler goes on after its fetch: UploadCar, TooBig or FetchFails.
LEMMA DecideMaps ==
  ASSUME MappingInv, Decide, UNCHANGED <<links, checkVars>>
  PROVE  Maps
<1>. links \in Dags /\ UNCHANGED <<links, exported, size, check, stream>>
  BY DEF Decide, checkVars, streamVars, MappingInv, SizeInv
<1>1. /\ verdict = "pending" /\ check = "none"
      /\ HandlerStep = "fetch" /\ Object = "none"
  BY DEF Decide, HandlerStep, Object, MappingInv, AttemptInv, VerifyInv
<1>2. CASE upload = "done"
  <2>1. /\ verdict' = "uploaded" /\ HandlerStep' = "get"
        /\ Object' = IF WholeCar THEN "complete" ELSE "partial"
    BY <1>1, <1>2 DEF Decide, HandlerStep, Object, WholeCar
  <2>2. stream # "broken"
    BY <1>2 DEF MappingInv, AttemptInv, VerifyInv
  <2>3. Object' \in IF links \in FittingDags THEN {"partial", "complete"}
                                            ELSE {"partial"}
    BY <2>1, <2>2, WholeCarFits
  <2>4. Handler!Goto("slot", "fetch", "get")
    BY <1>1, <2>1, MapsGoto
  <2>5. Handler!UploadCar("slot")
    BY <1>1, <2>3, <2>4, MapsFrame
    DEF Handler!UploadCar, Handler!WriteCar, FittingDags
  <2> QED
    BY <2>5 DEF Maps, Handler!HandlerNext
<1>3. CASE upload # "done"
  <2>1. Object' = "none" /\ verdict' \in {"too big", "released"}
    BY <1>1, <1>3 DEF Decide, Object
  <2>2. CASE verdict' = "too big"
    <3>1. HandlerStep' = "fail"
      BY <2>2 DEF HandlerStep
    <3>2. links \notin FittingDags
      BY <1>3, <2>2, TooBigDoesNotFit DEF Decide
    <3>3. Handler!Goto("slot", "fetch", "fail")
      BY <1>1, <3>1, MapsGoto
    <3>4. Handler!TooBig("slot")
      BY <1>1, <2>1, <3>2, <3>3, MapsFrame DEF Handler!TooBig, FittingDags
    <3> QED
      BY <3>4 DEF Maps, Handler!HandlerNext
  <2>3. CASE verdict' = "released"
    <3>1. HandlerStep' = "release"
      BY <2>3 DEF HandlerStep
    <3>2. Handler!Goto("slot", "fetch", "release")
      BY <1>1, <3>1, MapsGoto
    <3>3. Handler!FetchFails("slot")
      BY <1>1, <2>1, <3>2, MapsFrame DEF Handler!FetchFails
    <3> QED
      BY <3>3 DEF Maps, Handler!HandlerNext
  <2> QED
    BY <2>1, <2>2, <2>3
<1> QED
  BY <1>2, <1>3

\* The steps of verify: VerifyCar, CopyCar, and their failures.
LEMMA VerifyMaps ==
  ASSUME MappingInv, CheckCar \/ CopyCar \/ VerifyThrows
  PROVE  Maps
<1>. /\ links \in Dags /\ verdict = "uploaded"
     /\ UNCHANGED <<links, exported, size, verdict>>
  BY DEF CheckCar, CopyCar, VerifyThrows, fetcherVars, streamVars,
    MappingInv, SizeInv, AttemptInv, VerifyInv
<1>1. UNCHANGED Object
  BY DEF Object, WholeCar
<1>2. CASE CheckCar
  <2>1. HandlerStep = "get" /\ HandlerStep' = "copy"
    BY <1>2 DEF CheckCar, HandlerStep
  <2>2. exported = Dag(links)
    BY <1>2, AcceptedHasDag DEF CheckCar, MappingInv, AttemptInv, ExportInv
  <2>3. Object = "complete"
    BY <1>2, <2>2 DEF CheckCar, Accepts, Object, WholeCar
  <2>4. Handler!Goto("slot", "get", "copy")
    BY <2>1, MapsGoto
  <2>5. check = "none" /\ check' = "accepted"
    BY <1>2 DEF CheckCar
  <2>6. Handler!VerifyCar("slot")
    BY <1>1, <2>3, <2>4, <2>5, MapsFrame DEF Handler!VerifyCar
  <2> QED
    BY <2>6 DEF Maps, Handler!HandlerNext
<1>3. CASE CopyCar
  <2>1. HandlerStep = "copy" /\ HandlerStep' = "pin"
    BY <1>3 DEF CopyCar, HandlerStep
  <2>2. check = "accepted" /\ check' = "copied" /\ Object # "none"
    BY <1>3 DEF CopyCar, Object
  <2>3. Handler!Goto("slot", "copy", "pin")
    BY <2>1, MapsGoto
  <2>4. Handler!CopyCar("slot")
    BY <1>1, <2>2, <2>3, MapsFrame
    DEF Handler!CopyCar, Handler!CopyObject
  <2> QED
    BY <2>4 DEF Maps, Handler!HandlerNext
<1>4. CASE VerifyThrows
  <2>1. check \in {"none", "accepted"} /\ check' = "failed"
    BY <1>4 DEF VerifyThrows
  <2>2. HandlerStep \in {"get", "copy"} /\ HandlerStep' = "release"
    BY <2>1 DEF HandlerStep
  <2>3. \/ Handler!Goto("slot", "get", "release")
        \/ Handler!Goto("slot", "copy", "release")
    BY <2>2, MapsGoto
  <2>4. Handler!VerifyFails("slot") \/ Handler!CopyFails("slot")
    BY <1>1, <2>1, <2>3, MapsFrame DEF Handler!VerifyFails, Handler!CopyFails
  <2> QED
    BY <2>4 DEF Maps, Handler!HandlerNext
<1> QED
  BY <1>2, <1>3, <1>4

LEMMA AttemptMaps ==
  ASSUME MappingInv, [AttemptNext]_attemptVars
  PROVE  Maps
<1>1. CASE CheckCar \/ CopyCar \/ VerifyThrows
  BY <1>1, VerifyMaps
<1>2. CASE Fetch /\ Decide
  BY <1>2, DecideMaps DEF Fetch
<1>3. CASE UNCHANGED <<links, verdict, check>>
  BY <1>3, ObjectStays, MapsStutter
<1> QED
  BY <1>1, <1>2, <1>3
  DEF AttemptNext, AttemptTick, Tick, ExportChunk, WatchChunk, Fetch,
    TimerFires, StartUpload, EndStream, BreakStream, UploadPart,
    CompleteUpload, FailUpload, Over, ExtendVisibility, attemptVars,
    checkVars, fetcherVars

\* An attempt takes the steps Pickup gives a handler, for any DAGs, limits
\* and timeouts: it fails a pin only when its CAR does not fit, copies only
\* a complete CAR it has checked, and otherwise releases its message.
THEOREM AttemptIsAHandler == AttemptSpec => ImplementsHandler
<1>1. AttemptInit => AttemptInv /\ SizeInv
  <2>. SUFFICES ASSUME AttemptInit
                PROVE  AttemptInv /\ SizeInv
    OBVIOUS
  <2>1. AttemptInv
    BY CarAttemptConstants DEF AttemptInit, Init, AttemptInv, ExportInv,
      VerifyInv
  <2>2. carSize \in Nat
    BY CarFetcherConstants DEF AttemptInit, Init
  <2>3. SizeInv
    BY <2>2, FS_EmptySet DEF AttemptInit, Init, SizeInv
  <2> QED
    BY <2>1, <2>3
<1>2. AttemptSpec => []FetcherInv
  BY AttemptIsAFetch, FetchInvariance, PTL
<1>3. FetcherInv /\ AttemptInv /\ SizeInv /\ [AttemptNext]_attemptVars
        => AttemptInv' /\ SizeInv'
  BY AttemptNextInv, SizeStep DEF MappingInv
<1>4. FetcherInv /\ AttemptInv /\ SizeInv /\ [AttemptNext]_attemptVars
        => [Handler!HandlerNext("slot")]_(Handler!handlerVars)
  BY AttemptMaps DEF MappingInv, Maps
<1> QED
  BY <1>1, <1>2, <1>3, <1>4, PTL DEF AttemptSpec, ImplementsHandler
-----------------------------------------------------------------------------
\* The types of what an attempt adds to a fetch.
AddedTypes ==
  /\ links \in Dags
  /\ check \in {"none", "accepted", "copied", "failed"}
  /\ hiddenFor \in 0 .. Visibility /\ age \in 0 .. MaxHidden + 1

LEMMA AddedTypesStep ==
  ASSUME AddedTypes, [AttemptNext]_attemptVars
  PROVE  AddedTypes'
<1>. Visibility \in Nat /\ MaxHidden \in Nat
  BY CarAttemptConstants
<1>1. UNCHANGED links /\ check' \in {"none", "accepted", "copied", "failed"}
  BY DEF AddedTypes, AttemptNext, AttemptTick, ExportChunk, Fetch, CheckCar,
    CopyCar, VerifyThrows, ExtendVisibility, attemptVars, checkVars
<1>2. CASE AttemptTick
  <2>1. /\ age' = IF age < MaxHidden + 1 THEN age + 1 ELSE MaxHidden + 1
        /\ hiddenFor' = IF hiddenFor = 0 THEN 0 ELSE hiddenFor - 1
    BY <1>2 DEF AttemptTick, UpTo
  <2>2. age' \in 0 .. MaxHidden + 1 /\ hiddenFor' \in 0 .. Visibility
    BY <2>1 DEF AddedTypes
  <2> QED
    BY <1>1, <2>2 DEF AddedTypes
<1>3. CASE ExtendVisibility
  <2>1. hiddenFor' = Visibility /\ age' = age
    BY <1>3 DEF ExtendVisibility
  <2> QED
    BY <1>1, <2>1 DEF AddedTypes
<1>4. CASE UNCHANGED messageVars
  BY <1>1, <1>4 DEF AddedTypes, messageVars
<1> QED
  BY <1>2, <1>3, <1>4 DEF AttemptNext, ExportChunk, Fetch, CheckCar, CopyCar,
    VerifyThrows, attemptVars

\* The types of an attempt: no timer, size or visibility leaves its range.
THEOREM AttemptTypes == AttemptSpec => []AttemptTypeOK
<1>1. AttemptInit => AddedTypes /\ AttemptInv
  BY CarAttemptConstants DEF AttemptInit, Init, AddedTypes, AttemptInv,
    ExportInv, VerifyInv
<1>2. AddedTypes /\ [AttemptNext]_attemptVars => AddedTypes'
  BY AddedTypesStep
<1>3. AttemptInv /\ [AttemptNext]_attemptVars => AttemptInv'
  BY AttemptNextInv
<1>4. AttemptSpec => []FetcherInv
  BY AttemptIsAFetch, FetchInvariance, PTL
<1>5. FetcherInv /\ AttemptInv /\ AddedTypes => AttemptTypeOK
  BY DEF FetcherInv, AttemptInv, ExportInv, AddedTypes, AttemptTypeOK, Dag
<1> QED
  BY <1>1, <1>2, <1>3, <1>4, <1>5, PTL DEF AttemptSpec
=============================================================================
