--------------------------- MODULE PinningService ---------------------------
(***************************************************************************)
(* The full pinning service API (api/functions/PinningService.ts) and its  *)
(* store of PinStatus items (api/db.ts), which no stack deploys yet: POST  *)
(* /pins, GET /pins and GET, POST and DELETE /pins/{requestid}. The store  *)
(* has a partition per user; there is one access token, so there is one    *)
(* user here. Requests that are unauthorised, invalid or not in the API's  *)
(* definition are answered without a call, and left out.                   *)
(*                                                                         *)
(* Within the partition the items are sorted by requestid, which is the    *)
(* millisecond of the request followed by a random string. A requestid is  *)
(* a record of a time and a rank: the place of its random string among     *)
(* those of the other requests.                                            *)
(***************************************************************************)
EXTENDS Naturals, Sequences, FiniteSets, SequencesExt

CONSTANTS
  Calls,      \* the POST /pins calls
  Cids,
  Statuses,   \* PinStatusVals: queued, pinning, pinned and failed
  MaxTime,    \* bound: the milliseconds the clock goes
  Limits,     \* the limits a query may give
  CallsFail,  \* a call to DynamoDB or SQS may fail
  ReadsLag,   \* reads are eventually consistent: none asks for another kind
  NoCid       \* the cid of an item without a pin attribute

ASSUME PinningServiceConstants ==
  /\ IsFiniteSet(Calls) /\ MaxTime \in Nat /\ "queued" \in Statuses
  /\ Limits \subseteq Nat \ {0} /\ NoCid \notin Cids
  /\ CallsFail \in BOOLEAN /\ ReadsLag \in BOOLEAN

VARIABLES
  now,        \* Date.now()
  call,       \* POST call -> how far it is
  requestid,  \* POST call -> the id of its pin
  items,      \* the PinStatus items
  replica,    \* the items as a lagging replica of the partition has them
  messages,   \* the ids a message was sent for
  answer      \* the last answer to a request other than POST /pins

callVars == <<call, requestid>>
storeVars == <<items, replica>>
serviceVars == <<now, callVars, storeVars, messages, answer>>

Ids == [time : 0 .. MaxTime, rank : 1 .. Cardinality(Calls)]
PinStatus == [requestid : Ids, status : Statuses, cid : Cids \cup {NoCid}]

\* The query parameters getPins looks at, and the cid it does not look at.
Queries == [status : SUBSET Statuses \ {{}}, limit : Limits, cid : Cids]

NoId == [time |-> 0, rank |-> 0]

\* What was asked, of GET /pins or of one requestid, and what was answered.
AnswerTo(query, asked, statusCode, pins) ==
  [query |-> query, asked |-> asked, statusCode |-> statusCode, pins |-> pins]

NoAnswer == AnswerTo({}, {}, 0, <<>>)

Before(a, b) ==
  \/ a.time < b.time
  \/ a.time = b.time /\ a.rank < b.rank

\* The items of a view that are later than an id.
Later(view, id) == {pin \in view : Before(id, pin.requestid)}

\* ScanIndexForward: false.
LatestFirst(pins) ==
  CHOOSE listed \in [1 .. Cardinality(pins) -> pins] :
    \A i, j \in 1 .. Cardinality(pins) :
      i < j => Before(listed[j].requestid, listed[i].requestid)

ServiceTypeOK ==
  /\ now \in 0 .. MaxTime
  /\ call \in [Calls -> {"idle", "put", "send", "done", "error"}]
  /\ requestid \in [Calls -> Ids \cup {NoId}]
  /\ items \subseteq PinStatus /\ replica \subseteq PinStatus
  /\ messages \subseteq Ids
  /\ answer.query \subseteq Queries /\ answer.asked \subseteq Ids
  /\ answer.statusCode \in {0, 200, 404, 500, 501}

Init ==
  /\ now = 0
  /\ call = [p \in Calls |-> "idle"]
  /\ requestid = [p \in Calls |-> NoId]
  /\ items = {} /\ replica = {}
  /\ messages = {}
  /\ answer = NoAnswer

-----------------------------------------------------------------------------
Tick ==
  /\ now < MaxTime
  /\ now' = now + 1
  /\ UNCHANGED <<callVars, storeVars, messages, answer>>

WriteItems(pins) ==
  /\ items' = pins
  /\ replica' = IF ReadsLag THEN replica ELSE pins

\* The replica catches up.
Sync ==
  /\ replica # items
  /\ replica' = items
  /\ UNCHANGED <<now, callVars, items, messages, answer>>

\* The partition as a read may find it.
Views == {items, replica}

Goto(p, from, to) ==
  /\ call[p] = from
  /\ call' = [call EXCEPT ![p] = to]

\* db.addPin makes up the id before it sends the put.
StartAddPin(p) ==
  /\ Goto(p, "idle", "put")
  /\ \E rank \in 1 .. Cardinality(Calls) :
       /\ \A q \in Calls : requestid[q].rank # rank
       /\ requestid' = [requestid EXCEPT ![p] = [time |-> now, rank |-> rank]]
  /\ UNCHANGED <<now, storeVars, messages, answer>>

Put(p) ==
  \E cid \in Cids :
    WriteItems(items \cup
      {[requestid |-> requestid[p], status |-> "queued", cid |-> cid]})

\* Mutation: the put is not awaited, and fails.
PutNothing(p) ==
  /\ Goto(p, "put", "send")
  /\ UNCHANGED <<now, requestid, storeVars, messages, answer>>

PutPin(p) ==
  /\ Goto(p, "put", "send")
  /\ Put(p)
  /\ UNCHANGED <<now, requestid, messages, answer>>

\* sendMessage, and the answer: 200 with the pin as it was put.
SendMessage(p) ==
  /\ Goto(p, "send", "done")
  /\ messages' = messages \cup {requestid[p]}
  /\ UNCHANGED <<now, requestid, storeVars, answer>>

\* The put or the send throws, with or without its effect: 500, and nobody
\* undoes the put or sends the message again.
AddPinFails(p) ==
  /\ CallsFail
  /\ \/ /\ Goto(p, "put", "error")
        /\ Put(p) \/ UNCHANGED storeVars
        /\ UNCHANGED messages
     \/ /\ Goto(p, "send", "error")
        /\ messages' \in {messages, messages \cup {requestid[p]}}
        /\ UNCHANGED storeVars
  /\ UNCHANGED <<now, requestid, answer>>

ItemsOf(id) == {pin \in items : pin.requestid = id}

\* UpdateItem is an upsert: a missing item is created, with no pin attribute.
Upsert(id, status) ==
  LET old == ItemsOf(id)
      new == IF old = {}
               THEN {[requestid |-> id, status |-> status, cid |-> NoCid]}
               ELSE {[pin EXCEPT !.status = status] : pin \in old}
  IN  WriteItems((items \ old) \cup new)

\* Mutation: any status is written.
UpdateToAnyStatus(id, status) ==
  /\ Upsert(id, status)
  /\ UNCHANGED <<now, callVars, messages, answer>>

\* db.updatePinStatusByRequestId refuses what is not a status. Who calls it
\* knows the id from the message.
UpdatePinStatus(id, status) ==
  /\ status \in Statuses
  /\ Upsert(id, status)
  /\ UNCHANGED <<now, callVars, messages, answer>>

\* The pins the API's documentation says a query is for.
Matches(query) ==
  {pin \in items : pin.status \in query.status /\ pin.cid = query.cid}

\* Mutation: the oldest items are evaluated.
QueryOldest(query, view) ==
  LatestFirst({pin \in view :
    /\ Cardinality({p \in view : Before(p.requestid, pin.requestid)})
         < query.limit
    /\ pin.status \in query.status})

\* The items the Query command evaluates, of which Limit is the number.
Evaluated(query, view) ==
  {pin \in view : Cardinality(Later(view, pin.requestid)) < query.limit}

\* DynamoDB applies FilterExpression to those.
Query(query, view) ==
  LatestFirst({pin \in Evaluated(query, view) : pin.status \in query.status})

GetPins(query) ==
  /\ \E view \in Views :
       answer' = AnswerTo({query}, {}, 200, Query(query, view))
  /\ UNCHANGED <<now, callVars, storeVars, messages>>

\* 404 for an id nobody has, and for one the replica has not heard of.
GetPinByRequestId(id) ==
  /\ \E view \in Views :
       LET found == {pin \in view : pin.requestid = id} IN
       answer' = AnswerTo({}, {id}, IF found = {} THEN 404 ELSE 200,
                          SetToSeq(found))
  /\ UNCHANGED <<now, callVars, storeVars, messages>>

\* A read fails; or the request is to replace a pin (500) or to delete one
\* (501), which the store does not implement.
AnswerWithError ==
  /\ \E statusCode \in {500, 501} : answer' = AnswerTo({}, {}, statusCode, <<>>)
  /\ UNCHANGED <<now, callVars, storeVars, messages>>

Next ==
  \/ Tick \/ Sync
  \/ \E p \in Calls :
       StartAddPin(p) \/ PutPin(p) \/ SendMessage(p) \/ AddPinFails(p)
  \/ \E id \in messages, status \in Statuses \cup {"done"} :
       UpdatePinStatus(id, status)
  \/ \E query \in Queries : GetPins(query)
  \/ \E id \in Ids : GetPinByRequestId(id)
  \/ AnswerWithError

Spec == Init /\ [][Next]_serviceVars

-----------------------------------------------------------------------------
\* A pin that was answered with 200 is stored under its requestid from then
\* on, and a message for it was sent: the put comes first.
AnsweredPinIsStored ==
  /\ \A p \in Calls : call[p] = "done" =>
       /\ \E pin \in items : pin.requestid = requestid[p]
       /\ requestid[p] \in messages
  /\ \A id \in messages : \E pin \in items : pin.requestid = id

(***************************************************************************)
(* Whatever a GET answers, from however old a replica, is the pin a POST   *)
(* was for: no update of a status has made an item of its own, and there   *)
(* is one item for a requestid.                                            *)
(***************************************************************************)
AnswersArePins ==
  /\ \A i \in DOMAIN answer.pins :
       /\ answer.pins[i].cid \in Cids
       /\ \E p \in Calls : requestid[p] = answer.pins[i].requestid
  /\ Len(answer.pins) <= 1 \/ answer.asked = {}

(***************************************************************************)
(* What a query lists is sorted latest first, and complete in itself: no   *)
(* pin with a wanted status that is at least as late as the last one       *)
(* listed is left out, as far as the replica that was read knows.          *)
(***************************************************************************)
ListsLatestFirst ==
  [][ \A query \in answer'.query : answer' # answer =>
        LET listed == answer'.pins IN
        \E view \in Views : \A i \in DOMAIN listed : \A pin \in view :
          /\ pin.status \in query.status
          /\ Before(listed[i].requestid, pin.requestid)
          => \E j \in 1 .. i - 1 : listed[j] = pin ]_serviceVars

\* A query lists all pins it is for, unless the list is full.
ListsWhatMatches ==
  [][ \A query \in answer'.query : answer' # answer =>
        \/ Matches(query) \subseteq ToSet(answer'.pins)
        \/ Len(answer'.pins) = query.limit ]_serviceVars
=============================================================================
