------------------------------- MODULE GetPins -------------------------------
(***************************************************************************)
(* The API's reads of pin statuses: GET /pins/{cid} (api/basic/get-pin.ts) *)
(* and GET /pins?cids=... (api/basic/get-pins.ts), which splits its cids   *)
(* into chunks, reads all chunks at once, and answers a row for each cid.  *)
(* Meanwhile the pins go through their life cycle: each chunk is read at a *)
(* time of its own, and, as no read asks to be consistent, of the table or *)
(* of a replica that lags behind it.                                       *)
(***************************************************************************)
EXTENDS Naturals, Sequences, FiniteSets, SequencesExt

CONSTANTS
  Cids,
  InvalidCid,       \* what does not parse as a CID
  MaxAsked,         \* bound: the cids in one request
  BatchItemCount,   \* BATCH_ITEM_COUNT: 50 unless it is set
  ReadsMayFail,     \* a BatchGetItem call may fail
  MayThrottle       \* one may also leave keys in UnprocessedKeys

ASSUME GetPinsConstants ==
  /\ InvalidCid \notin Cids
  /\ MaxAsked \in Nat \ {0} /\ BatchItemCount \in Nat \ {0}
  /\ ReadsMayFail \in BOOLEAN /\ MayThrottle \in BOOLEAN

VARIABLES
  status, stored,   \* the pins: see PinLifecycle
  replica,          \* cid -> its status on a lagging replica of the table
  asked,            \* the cids of the request, <<>> before there is one
  reads,            \* chunk -> its read
  answer,
  seen              \* cid -> the statuses a read may have had since the request

lifecycleVars == <<status, stored>>
readVars == <<asked, reads, answer>>
getPinsVars == <<lifecycleVars, replica, readVars, seen>>

Lifecycle == INSTANCE PinLifecycle

TrackerStatus == {"unpinned", "pin_queued", "pinned", "pin_error"}

\* Mutation: a failed pin's status is answered as it is stored.
ToTrackerStatusAsStored(st) ==
  CASE st = "unknown" -> "unpinned"
    [] st = "queued"  -> "pin_queued"
    [] st \in {"pinned", "failed"} -> st

\* toClusterTrackerStatus, of the status of an item or of no item.
ToTrackerStatus(st) ==
  CASE st = "unknown" -> "unpinned"
    [] st = "queued"  -> "pin_queued"
    [] st = "pinned"  -> "pinned"
    [] st = "failed"  -> "pin_error"

\* toGetPinResponse: a row of the cid and its status.
ToGetPinResponse(c, st) == [cid |-> c, status |-> ToTrackerStatus(st)]

\* What GET /pins/{cid} answers: a single GetItem that finds status st.
GetPin(c, st) == ToGetPinResponse(c, st)

-----------------------------------------------------------------------------
Reading == [done |-> FALSE, items |-> {}]
Item == [cid : Cids, status : {"queued", "pinned", "failed"}]
PinStatus == {"unknown", "queued", "pinned", "failed"}

NoAnswer == [code |-> 0, rows |-> <<>>]

\* The cids of chunk k.
Chunk(k) ==
  LET last == k * BatchItemCount
  IN  SubSeq(asked, last - BatchItemCount + 1,
             IF last < Len(asked) THEN last ELSE Len(asked))

ChunkCount(list) == (Len(list) + BatchItemCount - 1) \div BatchItemCount

GetPinsTypeOK ==
  /\ status \in [Cids -> PinStatus] /\ replica \in [Cids -> PinStatus]
  /\ asked \in BoundedSeq(Cids, MaxAsked)
  /\ reads \in [1 .. ChunkCount(asked) -> [done : BOOLEAN, items : SUBSET Item]]
  /\ answer.code \in {0, 200, 400, 401, 500}
  /\ answer.rows \in
       BoundedSeq([cid : Cids, status : TrackerStatus], MaxAsked)
  /\ seen \in [Cids -> SUBSET PinStatus]

Init ==
  /\ Lifecycle!Init
  /\ replica = status
  /\ asked = <<>> /\ reads = <<>>
  /\ answer = NoAnswer
  /\ seen = [c \in Cids |-> {}]

-----------------------------------------------------------------------------
\* What the pins do after the last read of the request, none can tell.
ReadsToCome ==
  /\ answer = NoAnswer
  /\ asked = <<>> \/ \E k \in DOMAIN reads : ~reads[k].done

\* A replica catches up with the table.
Sync(c) ==
  /\ ReadsToCome /\ replica[c] # status[c]
  /\ replica' = [replica EXCEPT ![c] = status[c]]
  /\ UNCHANGED <<lifecycleVars, readVars, seen>>

\* The statuses an eventually consistent read may answer.
Reads(c) == {status[c], replica[c]}

Requests == BoundedSeq(Cids \cup {InvalidCid}, MaxAsked) \ {<<>>}

\* An answer without rows: nothing is left of the request.
Refuse(code) ==
  /\ answer' = [code |-> code, rows |-> <<>>]
  /\ asked' = <<>> /\ reads' = <<>>
  /\ seen' = [c \in Cids |-> {}]

\* The request is validated, and the reads of all its chunks are sent.
AskPins ==
  /\ asked = <<>> /\ answer = NoAnswer
  /\ \E list \in Requests :
       \/ /\ InvalidCid \in ToSet(list)
          /\ Refuse(400)
       \/ /\ InvalidCid \notin ToSet(list)
          /\ asked' = list
          /\ reads' = [k \in 1 .. ChunkCount(list) |-> Reading]
          /\ seen' = [c \in Cids |-> Reads(c)]
          /\ UNCHANGED answer
  /\ UNCHANGED <<lifecycleVars, replica>>

\* Without authorisation, or a table name, nothing is read.
RefuseRequest ==
  /\ asked = <<>> /\ answer = NoAnswer
  /\ Refuse(401) \/ Refuse(500)
  /\ UNCHANGED <<lifecycleVars, replica>>

Pending(k) ==
  /\ answer = NoAnswer
  /\ k \in DOMAIN reads /\ ~reads[k].done

\* Mutation: an item is taken for the cid at its place in the chunk.
ReadChunkByPlace(k) ==
  /\ Pending(k)
  /\ IsInjective(Chunk(k))
  /\ LET found == SelectSeq(Chunk(k), LAMBDA c : status[c] # "unknown")
     IN  reads' = [reads EXCEPT ![k] =
           [done  |-> TRUE,
            items |-> {[cid |-> Chunk(k)[i], status |-> status[found[i]]] :
                         i \in DOMAIN found}]]
  /\ UNCHANGED <<lifecycleVars, replica, asked, answer, seen>>

\* BatchGetItem answers the items that exist, in any order, without those it
\* did not get to; when it gets to none, it fails. Nobody looks at its
\* UnprocessedKeys.
ReadChunk(k) ==
  /\ Pending(k)
  /\ IsInjective(Chunk(k))
  /\ LET keys == ToSet(Chunk(k))
     IN  \E left \in IF MayThrottle THEN (SUBSET keys) \ {keys} ELSE {{}} :
           \E read \in [keys \ left -> PinStatus] :
             /\ \A c \in keys \ left : read[c] \in Reads(c)
             /\ reads' = [reads EXCEPT ![k] =
                  [done  |-> TRUE,
                   items |-> {[cid |-> c, status |-> read[c]] :
                                c \in {d \in keys \ left :
                                         read[d] # "unknown"}}]]
  /\ UNCHANGED <<lifecycleVars, replica, asked, answer, seen>>

\* Mutation: a rejection settles nothing.
ReadFailsUnnoticed(k) ==
  /\ Pending(k)
  /\ ReadsMayFail \/ ~IsInjective(Chunk(k))
  /\ UNCHANGED getPinsVars

\* A call fails, as each does whose keys contain duplicates: Promise.all
\* rejects at once (DYNAMO_GET_PINS).
ReadFails(k) ==
  /\ Pending(k)
  /\ ReadsMayFail \/ ~IsInjective(Chunk(k))
  /\ Refuse(500)
  /\ UNCHANGED <<lifecycleVars, replica>>

\* The chunks whose read has an item of the cid, and the status of the item
\* that replaced the others when the chunks' items were collected by cid.
FoundIn(c) ==
  {k \in DOMAIN reads : \E item \in reads[k].items : item.cid = c}

StatusIn(k, c) == (CHOOSE item \in reads[k].items : item.cid = c).status

LastStatus(c) ==
  IF FoundIn(c) = {} THEN "unknown" ELSE StatusIn(Max(FoundIn(c)), c)

AllRead ==
  /\ answer = NoAnswer /\ asked # <<>>
  /\ \A k \in DOMAIN reads : reads[k].done

\* Each cid gets a row.
Respond ==
  /\ AllRead
  /\ answer' = [code |-> 200,
       rows |-> [i \in DOMAIN asked |->
                   ToGetPinResponse(asked[i], LastStatus(asked[i]))]]
  /\ UNCHANGED <<lifecycleVars, replica, asked, reads, seen>>

\* The pins go on.
PinsMove ==
  /\ ReadsToCome
  /\ Lifecycle!Next
  /\ seen' = [c \in Cids |->
       IF asked # <<>> THEN seen[c] \cup {status'[c]} ELSE seen[c]]
  /\ UNCHANGED <<replica, readVars>>

\* The request is answered.
Rest == answer # NoAnswer /\ UNCHANGED getPinsVars

Next ==
  \/ AskPins
  \/ RefuseRequest
  \/ \E k \in 1 .. MaxAsked : ReadChunk(k) \/ ReadFails(k)
  \/ Respond
  \/ PinsMove
  \/ \E c \in Cids : Sync(c)
  \/ Rest

Spec == Init /\ [][Next]_getPinsVars

\* Every call to DynamoDB returns.
FairSpec ==
  /\ Spec
  /\ \A k \in 1 .. MaxAsked : WF_getPinsVars(ReadChunk(k) \/ ReadFails(k))
  /\ WF_getPinsVars(Respond)

-----------------------------------------------------------------------------
(***************************************************************************)
(* A list that is answered has a row for each cid, in the order they were  *)
(* asked for, and the row says what GET /pins/{cid}, which may lag as much, *)
(* could have answered while the request was on its way.                   *)
(***************************************************************************)
RowsAreTrue ==
  answer.code = 200 =>
    /\ Len(answer.rows) = Len(asked)
    /\ \A i \in DOMAIN asked :
         \E st \in seen[asked[i]] :
           answer.rows[i] = GetPin(asked[i], st)

\* Who is told that a pin is pinned can rely on it: a CAR of the cid is in the
\* destination bucket, whatever the reads left out and however old they are.
PinnedRowIsStored ==
  \A i \in DOMAIN answer.rows :
    answer.rows[i].status = "pinned" => stored[answer.rows[i].cid]

\* A list of cids that is asked for is answered.
ListIsAnswered == asked # <<>> ~> answer # NoAnswer
=============================================================================
