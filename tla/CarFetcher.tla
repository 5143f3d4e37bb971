----------------------------- MODULE CarFetcher -----------------------------
(***************************************************************************)
(* One attempt of a worker to fetch a CAR and write it to the validation   *)
(* bucket: CarFetcher.fetch with its two debounced timers, its stream      *)
(* watcher and the abort controller (pickup/lib/ipfs.js), the multipart    *)
(* upload that drains the stream (pickup/lib/s3.js), and messageHandler's  *)
(* decision between failing the pin and releasing the message.             *)
(*                                                                         *)
(* Time is counted in ticks. It is kubo and S3 that take time; what the    *)
(* process does itself (run a timer that is due, pass on an abort or an    *)
(* error) it does before the next tick, in any order with the other events *)
(* of its tick.                                                            *)
(***************************************************************************)
EXTENDS Integers

CONSTANTS
  FetchTimeout,   \* fetchTimeoutMs, in ticks
  ChunkTimeout,   \* fetchChunkTimeoutMs, in ticks
  MaxCarBytes,
  CarSizes,       \* the sizes of the CARs kubo may export
  ChunkSizes,     \* the sizes of the chunks it may send them in
  HighWater       \* bytes the composed stream buffers before it waits

ASSUME CarFetcherConstants ==
  /\ FetchTimeout \in Nat \ {0} /\ ChunkTimeout \in Nat \ {0}
  /\ MaxCarBytes \in Nat /\ HighWater \in Nat \ {0}
  /\ CarSizes \subseteq Nat /\ ChunkSizes \subseteq Nat \ {0}

VARIABLES
  carSize,      \* the size of the CAR of this attempt
  stream,       \* the state of kubo's response
  size,         \* bytes streamWatcher has counted
  buffered,     \* bytes it has passed on that are not uploaded yet
  fetchTimer,   \* ticks until the timer is due, or Off
  chunkTimer,
  reason,       \* why the abort controller aborted, or "none"
  upload,       \* the state of the multipart upload
  verdict,      \* what messageHandler does
  elapsed,      \* ticks since the clock was started, up to one too many
  quiet         \* ticks since the last chunk, up to one too many

streamVars == <<stream, size, buffered>>
timerVars == <<fetchTimer, chunkTimer, reason>>
clockVars == <<elapsed, quiet>>
fetcherVars ==
  <<carSize, streamVars, timerVars, upload, verdict, clockVars>>

Off == -1
Reason == {"none", "TOO_BIG", "FETCH_TOO_SLOW", "CHUNK_TOO_SLOW"}
ReadingStates == {"connecting", "flowing"}

FetcherTypeOK ==
  /\ carSize \in CarSizes
  /\ stream \in ReadingStates \cup {"ended", "broken"}
  /\ size \in Nat /\ buffered \in Nat
  /\ fetchTimer \in Off .. FetchTimeout /\ chunkTimer \in Off .. ChunkTimeout
  /\ reason \in Reason
  /\ upload \in {"waiting", "running", "done", "failed"}
  /\ verdict \in {"pending", "uploaded", "too big", "released"}
  /\ elapsed \in 0 .. FetchTimeout + 1 /\ quiet \in 0 .. ChunkTimeout + 1

\* Mutation: the clock is not started.
InitWithoutClock ==
  /\ carSize \in CarSizes
  /\ stream = "connecting" /\ size = 0 /\ buffered = 0
  /\ fetchTimer = Off /\ chunkTimer = Off
  /\ reason = "none"
  /\ upload = "waiting"
  /\ verdict = "pending"
  /\ elapsed = 0 /\ quiet = 0

\* fetch is called: both timers are started and the export is requested.
Init ==
  /\ carSize \in CarSizes
  /\ stream = "connecting" /\ size = 0 /\ buffered = 0
  /\ fetchTimer = FetchTimeout /\ chunkTimer = ChunkTimeout
  /\ reason = "none"
  /\ upload = "waiting"
  /\ verdict = "pending"
  /\ elapsed = 0 /\ quiet = 0

-----------------------------------------------------------------------------
ClearTimers == fetchTimer' = Off /\ chunkTimer' = Off

\* abort clears both timers; the first reason stands. The listener of an
\* upload that runs rejects it at once, and kubo's response is broken as soon
\* as what has arrived of it is read.
Abort(why) ==
  /\ ClearTimers
  /\ reason' = IF reason = "none" THEN why ELSE reason
  /\ upload' = IF upload = "running" THEN "failed" ELSE upload

Due(timer) == timer = 0
After(timer) == IF timer = Off THEN Off ELSE timer - 1
UpTo(limit, n) == IF n < limit THEN n + 1 ELSE limit

\* The handler's await ends: the upload settled, or there is none.
Settled ==
  upload \in {"done", "failed"} \/ (upload = "waiting" /\ stream = "broken")

Busy ==
  \/ Due(fetchTimer) \/ Due(chunkTimer)
  \/ reason # "none" /\ stream \in ReadingStates
  \/ upload = "running" /\ stream = "broken"
  \/ verdict = "pending" /\ Settled

Tick ==
  /\ ~Busy
  /\ fetchTimer' = After(fetchTimer)
  /\ chunkTimer' = After(chunkTimer)
  /\ elapsed' = UpTo(FetchTimeout + 1, elapsed)
  /\ quiet' = UpTo(ChunkTimeout + 1, quiet)
  /\ UNCHANGED <<carSize, streamVars, reason, upload, verdict>>

TimerFires ==
  /\ \/ Due(fetchTimer) /\ Abort("FETCH_TOO_SLOW")
     \/ Due(chunkTimer) /\ Abort("CHUNK_TOO_SLOW")
  /\ UNCHANGED <<carSize, streamVars, verdict, clockVars>>

\* fetchCar resolves, and the uploader starts to read the stream.
StartUpload ==
  /\ stream = "connecting" /\ reason = "none"
  /\ stream' = "flowing"
  /\ upload' = "running"
  /\ UNCHANGED <<carSize, size, buffered, timerVars, verdict, clockVars>>

\* Mutation: a chunk restarts both timers.
WatchChunkSlowly(n) ==
  /\ stream = "flowing" /\ buffered < HighWater
  /\ size + n <= carSize
  /\ size' = size + n
  /\ quiet' = 0
  /\ buffered' = buffered + n
  /\ chunkTimer' = ChunkTimeout
  /\ fetchTimer' = FetchTimeout
  /\ UNCHANGED <<carSize, stream, reason, upload, verdict, elapsed>>

\* Mutation: a chunk restarts no timer.
WatchChunkWithoutTimer(n) ==
  /\ stream = "flowing" /\ buffered < HighWater
  /\ size + n <= carSize
  /\ size' = size + n
  /\ quiet' = 0
  /\ buffered' = buffered + n
  /\ UNCHANGED <<carSize, stream, timerVars, upload, verdict, elapsed>>

\* streamWatcher takes a chunk. It restarts the chunk timer even after an
\* abort, and counts before it passes the chunk on.
WatchChunk(n) ==
  /\ stream = "flowing" /\ buffered < HighWater
  /\ size + n <= carSize
  /\ size' = size + n
  /\ quiet' = 0
  /\ \/ /\ size' > MaxCarBytes
        /\ stream' = "broken"
        /\ Abort("TOO_BIG")
        /\ UNCHANGED buffered
     \/ /\ size' <= MaxCarBytes
        /\ buffered' = buffered + n
        /\ chunkTimer' = ChunkTimeout
        /\ UNCHANGED <<stream, fetchTimer, reason, upload>>
  /\ UNCHANGED <<carSize, verdict, elapsed>>

\* Mutation: the timers are left running when the stream ends.
EndStreamOnly ==
  /\ stream = "flowing" /\ reason = "none"
  /\ stream' = "ended"
  /\ UNCHANGED <<carSize, size, buffered, timerVars>>
  /\ UNCHANGED <<upload, verdict, clockVars>>

\* The export ends, of the whole CAR or of what kubo could find of it.
EndStream ==
  /\ stream = "flowing" /\ reason = "none"
  /\ stream' = "ended"
  /\ ClearTimers
  /\ UNCHANGED <<carSize, size, buffered, reason, upload, verdict, clockVars>>

\* kubo refuses or breaks off, or the signal aborts the request. Nobody
\* clears the timers.
BreakStream ==
  /\ stream \in ReadingStates
  /\ stream' = "broken"
  /\ UNCHANGED <<carSize, size, buffered, timerVars>>
  /\ UNCHANGED <<upload, verdict, clockVars>>

UploadPart ==
  /\ upload = "running" /\ buffered > 0
  /\ buffered' = buffered - 1
  /\ UNCHANGED <<carSize, stream, size, timerVars, upload, verdict, clockVars>>

CompleteUpload ==
  /\ upload = "running" /\ stream = "ended" /\ buffered = 0
  /\ upload' = "done"
  /\ UNCHANGED <<carSize, streamVars, timerVars, verdict, clockVars>>

\* The body breaks, or S3 fails.
FailUpload ==
  /\ upload = "running"
  /\ upload' = "failed"
  /\ UNCHANGED <<carSize, streamVars, timerVars, verdict, clockVars>>

\* Mutation: every abort fails the pin.
DecideByAborted ==
  /\ verdict = "pending"
  /\ \/ upload = "done" /\ verdict' = "uploaded"
     \/ /\ Settled /\ upload # "done"
        /\ verdict' = IF reason # "none" THEN "too big" ELSE "released"
  /\ UNCHANGED <<carSize, streamVars, timerVars, upload, clockVars>>

\* messageHandler continues in its try block or in its catch block.
Decide ==
  /\ verdict = "pending"
  /\ \/ /\ upload = "done"
        /\ verdict' = "uploaded"
     \/ /\ Settled /\ upload # "done"
        /\ verdict' = IF reason = "TOO_BIG" THEN "too big" ELSE "released"
  /\ UNCHANGED <<carSize, streamVars, timerVars, upload, clockVars>>

\* The attempt is over and no timer of it is left.
Over == /\ verdict # "pending" /\ fetchTimer = Off /\ chunkTimer = Off
        /\ UNCHANGED fetcherVars

Next ==
  \/ Tick
  \/ TimerFires
  \/ StartUpload
  \/ \E n \in ChunkSizes : WatchChunk(n)
  \/ EndStream
  \/ BreakStream
  \/ UploadPart
  \/ CompleteUpload
  \/ FailUpload
  \/ Decide
  \/ Over

Spec == Init /\ [][Next]_fetcherVars

-----------------------------------------------------------------------------
(***************************************************************************)
(* An upload that completes has not been aborted, and never will be: its   *)
(* timers are gone, so no late abort can race the verification that        *)
(* follows it.                                                             *)
(***************************************************************************)
UploadedIsNotAborted ==
  upload = "done" => reason = "none" /\ fetchTimer = Off /\ chunkTimer = Off

(***************************************************************************)
(* The pin is failed only when kubo has sent more than MaxCarBytes, and    *)
(* never is more than MaxCarBytes passed on to S3. A slow fetch, or an     *)
(* error that comes first, releases the message for another attempt.       *)
(***************************************************************************)
SizeLimit ==
  /\ verdict = "too big" => size > MaxCarBytes
  /\ verdict = "uploaded" => size <= MaxCarBytes
  /\ stream # "broken" => size <= MaxCarBytes

(***************************************************************************)
(* The stream is read for no longer than FetchTimeout, however its chunks  *)
(* restart the other timer, and for no longer than ChunkTimeout without a  *)
(* chunk, from before kubo has answered at all.                            *)
(***************************************************************************)
FetchIsBounded ==
  stream \in ReadingStates => elapsed <= FetchTimeout /\ quiet <= ChunkTimeout

\* CHUNK_TOO_SLOW is only ever given when no chunk came for ChunkTimeout.
SlowChunkIsSlow ==
  [][ reason = "none" /\ reason' = "CHUNK_TOO_SLOW"
        => quiet = ChunkTimeout ]_fetcherVars
=============================================================================
