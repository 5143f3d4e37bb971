------------------------ MODULE PinningServiceProofs ------------------------
(***************************************************************************)
(* For any number of calls, limits and milliseconds, and whatever fails:   *)
(* a pin that was answered is stored, because the store only ever loses an *)
(* item to another one of its requestid and a call sends its message after *)
(* its put; every answer is of pins the calls have put; and what a query   *)
(* lists is sorted and complete in itself. The last two rest on what       *)
(* LatestFirst returns, which is a permutation of the items it is given.   *)
(***************************************************************************)
EXTENDS PinningService, TLAPS, FiniteSetTheorems

Stored(id) == \E pin \in items : pin.requestid = id

CallsAreFunctions ==
  /\ call = [p \in Calls |-> call[p]]
  /\ requestid = [p \in Calls |-> requestid[p]]

StoreInv ==
  /\ CallsAreFunctions
  /\ \A p \in Calls : call[p] = "send" => Stored(requestid[p])
  /\ AnsweredPinIsStored

-----------------------------------------------------------------------------
\* An update leaves an item for each requestid that had one.
LEMMA UpsertKeeps ==
  ASSUME NEW id, NEW status, Upsert(id, status), NEW other, Stored(other)
  PROVE  Stored(other)'
<1>. DEFINE old == ItemsOf(id)
            new == IF old = {}
               THEN {[requestid |-> id, status |-> status, cid |-> NoCid]}
               ELSE {[pin EXCEPT !.status = status] : pin \in old}
<1>1. items' = (items \ old) \cup new
  BY DEF Upsert, WriteItems
<1>2. PICK pin \in items : pin.requestid = other
  BY DEF Stored
<1>3. CASE pin \in old
  <2>1. [pin EXCEPT !.status = status] \in items'
    BY <1>1, <1>3
  <2>2. [pin EXCEPT !.status = status].requestid = other
    BY <1>2
  <2> QED
    BY <2>1, <2>2 DEF Stored
<1>4. CASE pin \notin old
  BY <1>1, <1>2, <1>4 DEF Stored
<1> QED
  BY <1>3, <1>4

\* A put stores the requestid and leaves the other items alone.
LEMMA PutKeeps ==
  ASSUME NEW p \in Calls, Put(p)
  PROVE  /\ \E pin \in items' : pin.requestid = requestid[p]
         /\ \A id : Stored(id) => Stored(id)'
<1>1. PICK cid \in Cids :
        items' = items \cup
          {[requestid |-> requestid[p], status |-> "queued", cid |-> cid]}
  BY DEF Put, WriteItems
<1>2. items \subseteq items'
  BY <1>1
<1>3. [requestid |-> requestid[p], status |-> "queued", cid |-> cid] \in items'
  BY <1>1
<1> QED
  BY <1>2, <1>3 DEF Stored

\* A step of a call moves it from the put to the send, and from the send to
\* its answer.
LEMMA CallInv ==
  ASSUME StoreInv, NEW p \in Calls,
         StartAddPin(p) \/ PutPin(p) \/ SendMessage(p) \/ AddPinFails(p)
  PROVE  StoreInv'
<1>1. CASE StartAddPin(p)
  <2>1. PICK id : requestid' = [requestid EXCEPT ![p] = id]
    BY <1>1 DEF StartAddPin
  <2>2. /\ call' = [call EXCEPT ![p] = "put"] /\ call[p] = "idle"
        /\ UNCHANGED <<items, messages>>
    BY <1>1 DEF StartAddPin, Goto, storeVars
  <2>3. CallsAreFunctions'
    BY <2>1, <2>2 DEF StoreInv, CallsAreFunctions
  <2>4. /\ call'[p] = "put"
        /\ \A q \in Calls : q # p =>
             call'[q] = call[q] /\ requestid'[q] = requestid[q]
    BY <2>1, <2>2 DEF StoreInv, CallsAreFunctions
  <2> QED
    BY <2>2, <2>3, <2>4 DEF StoreInv, AnsweredPinIsStored, Stored
<1>2. CASE ~StartAddPin(p)
  <2>1. /\ UNCHANGED requestid
        /\ \E to \in {"send", "done", "error"} :
             /\ call' = [call EXCEPT ![p] = to]
             /\ to = "send" => PutPin(p)
             /\ to = "done" => SendMessage(p)
    BY <1>2 DEF PutPin, SendMessage, AddPinFails, Goto
  <2>2. /\ \A q \in Calls : q # p => call'[q] = call[q]
        /\ call'[p] = "send" => PutPin(p)
        /\ call'[p] = "done" => SendMessage(p)
        /\ CallsAreFunctions'
    BY <2>1 DEF StoreInv, CallsAreFunctions
  <2>3. \A id : Stored(id) => Stored(id)'
    BY <1>2, PutKeeps
    DEF PutPin, SendMessage, AddPinFails, storeVars, Stored
  <2>4. PutPin(p) => Stored(requestid[p])'
    <3>1. ASSUME PutPin(p)
          PROVE  \E pin \in items' : pin.requestid = requestid'[p]
      BY <2>1, <3>1, PutKeeps DEF PutPin
    <3> QED
      BY <3>1 DEF Stored
  <2>5. /\ messages' \in {messages, messages \cup {requestid[p]}}
        /\ SendMessage(p) => messages' = messages \cup {requestid[p]}
        /\ messages' # messages => call[p] = "send"
    BY <1>2 DEF PutPin, SendMessage, AddPinFails, Goto
  <2>6. (\A q \in Calls : call[q] = "send" => Stored(requestid[q]))'
    BY <2>1, <2>2, <2>3, <2>4 DEF StoreInv
  <2>7. \A id \in messages' : Stored(id)'
    BY <2>3, <2>5 DEF StoreInv, AnsweredPinIsStored, Stored
  <2>8. ASSUME NEW q \in Calls, call'[q] = "done"
        PROVE  requestid'[q] \in messages'
    BY <2>1, <2>2, <2>5, <2>8 DEF StoreInv, AnsweredPinIsStored
  <2>9. AnsweredPinIsStored'
    BY <2>7, <2>8 DEF AnsweredPinIsStored, Stored
  <2> QED
    BY <2>2, <2>6, <2>9 DEF StoreInv
<1> QED
  BY <1>1, <1>2

LEMMA NextStore ==
  ASSUME StoreInv, [Next]_serviceVars
  PROVE  StoreInv'
<1>1. CASE \E id \in messages, status \in Statuses \cup {"done"} :
             UpdatePinStatus(id, status)
  <2>1. UNCHANGED <<call, requestid, messages>>
    BY <1>1 DEF UpdatePinStatus, callVars
  <2>2. \A id : Stored(id) => Stored(id)'
    BY <1>1, UpsertKeeps DEF UpdatePinStatus
  <2> QED
    BY <2>1, <2>2
    DEF StoreInv, CallsAreFunctions, AnsweredPinIsStored, Stored
<1>2. CASE \/ Tick \/ Sync \/ AnswerWithError \/ UNCHANGED serviceVars
           \/ \E query \in Queries : GetPins(query)
           \/ \E id \in Ids : GetPinByRequestId(id)
  <2>1. UNCHANGED <<call, requestid, messages, items>>
    BY <1>2 DEF Tick, Sync, AnswerWithError, GetPins, GetPinByRequestId,
      serviceVars, callVars, storeVars
  <2> QED
    BY <2>1 DEF StoreInv, CallsAreFunctions, AnsweredPinIsStored, Stored
<1> QED
  BY <1>1, <1>2, CallInv DEF Next

LEMMA Stores == Spec => []StoreInv
<1>1. Init => StoreInv
  BY DEF Init, StoreInv, CallsAreFunctions, AnsweredPinIsStored
<1>2. StoreInv /\ [Next]_serviceVars => StoreInv'
  BY NextStore
<1> QED
  BY <1>1, <1>2, PTL DEF Spec

\* A pin that was answered with 200 stays stored under its requestid, and so
\* does every pin a message was sent for, whatever call fails.
THEOREM AnsweredPinsAreStored == Spec => []AnsweredPinIsStored
<1>1. StoreInv => AnsweredPinIsStored
  BY DEF StoreInv
<1> QED
  BY Stores, <1>1, PTL

-----------------------------------------------------------------------------
ServiceInv ==
  /\ ServiceTypeOK
  /\ \A p \in Calls : call[p] # "idle" => requestid[p] \in Ids

LEMMA StoreTypes ==
  ASSUME ServiceInv, NEW pins \in SUBSET PinStatus, WriteItems(pins)
  PROVE  items' \subseteq PinStatus /\ replica' \subseteq PinStatus
BY DEF WriteItems, ServiceInv, ServiceTypeOK

LEMMA CallTypes ==
  ASSUME ServiceInv, NEW p \in Calls,
         StartAddPin(p) \/ PutPin(p) \/ SendMessage(p) \/ AddPinFails(p)
  PROVE  ServiceInv'
<1>1. CASE StartAddPin(p)
  <2>1. PICK rank \in 1 .. Cardinality(Calls) :
          requestid' = [requestid EXCEPT ![p] = [time |-> now, rank |-> rank]]
    BY <1>1 DEF StartAddPin
  <2>2. /\ call' = [call EXCEPT ![p] = "put"]
        /\ UNCHANGED <<now, items, replica, messages, answer>>
    BY <1>1 DEF StartAddPin, Goto, storeVars
  <2>3. [time |-> now, rank |-> rank] \in Ids
    BY DEF ServiceInv, ServiceTypeOK, Ids
  <2> QED
    BY <2>1, <2>2, <2>3 DEF ServiceInv, ServiceTypeOK
<1>2. CASE ~StartAddPin(p)
  <2>1. /\ UNCHANGED <<now, requestid, answer>>
        /\ \E to \in {"send", "done", "error"} :
             call' = [call EXCEPT ![p] = to]
        /\ call[p] # "idle"
        /\ messages' \in {messages, messages \cup {requestid[p]}}
        /\ Put(p) \/ UNCHANGED storeVars
    BY <1>2 DEF PutPin, SendMessage, AddPinFails, Goto
  <2>2. requestid[p] \in Ids
    BY <2>1 DEF ServiceInv
  <2>3. CASE Put(p)
    <3>1. PICK cid \in Cids :
            WriteItems(items \cup
              {[requestid |-> requestid[p], status |-> "queued", cid |-> cid]})
      BY <2>3 DEF Put
    <3>2. [requestid |-> requestid[p], status |-> "queued", cid |-> cid]
            \in PinStatus
      BY <2>2, PinningServiceConstants DEF PinStatus
    <3>3. items' \subseteq PinStatus /\ replica' \subseteq PinStatus
      BY <3>1, <3>2, StoreTypes DEF ServiceInv, ServiceTypeOK
    <3> QED
      BY <2>1, <2>2, <3>3 DEF ServiceInv, ServiceTypeOK
  <2>4. CASE UNCHANGED storeVars
    BY <2>1, <2>2, <2>4 DEF ServiceInv, ServiceTypeOK, storeVars
  <2> QED
    BY <2>1, <2>3, <2>4
<1> QED
  BY <1>1, <1>2

LEMMA UpdateTypes ==
  ASSUME ServiceInv, NEW id \in messages, NEW status, UpdatePinStatus(id, status)
  PROVE  ServiceInv'
<1>. DEFINE old == ItemsOf(id)
            new == IF old = {}
               THEN {[requestid |-> id, status |-> status, cid |-> NoCid]}
               ELSE {[pin EXCEPT !.status = status] : pin \in old}
<1>1. /\ status \in Statuses
      /\ WriteItems((items \ old) \cup new)
      /\ UNCHANGED <<now, call, requestid, messages, answer>>
  BY DEF UpdatePinStatus, Upsert, callVars
<1>2. id \in Ids /\ items \subseteq PinStatus
  BY DEF ServiceInv, ServiceTypeOK
<1>3. [requestid |-> id, status |-> status, cid |-> NoCid] \in PinStatus
  BY <1>1, <1>2 DEF PinStatus
<1>4. \A pin \in old : [pin EXCEPT !.status = status] \in PinStatus
  BY <1>1, <1>2 DEF ItemsOf, PinStatus
<1>5. (items \ old) \cup new \subseteq PinStatus
  BY <1>2, <1>3, <1>4
<1>6. items' \subseteq PinStatus /\ replica' \subseteq PinStatus
  BY <1>1, <1>5, StoreTypes
<1> QED
  BY <1>1, <1>6 DEF ServiceInv, ServiceTypeOK

LEMMA AnswerTypes ==
  ASSUME ServiceInv,
         \/ \E query \in Queries : GetPins(query)
         \/ \E id \in Ids : GetPinByRequestId(id)
         \/ AnswerWithError
  PROVE  ServiceInv'
<1>1. UNCHANGED <<now, call, requestid, items, replica, messages>>
  BY DEF GetPins, GetPinByRequestId, AnswerWithError, callVars, storeVars
<1>2. /\ answer'.query \subseteq Queries /\ answer'.asked \subseteq Ids
      /\ answer'.statusCode \in {0, 200, 404, 500, 501}
  <2>1. ASSUME NEW query \in Queries, GetPins(query)
        PROVE  answer'.query = {query} /\ answer'.asked = {}
               /\ answer'.statusCode = 200
    BY <2>1 DEF GetPins, AnswerTo
  <2>2. ASSUME NEW id \in Ids, GetPinByRequestId(id)
        PROVE  answer'.query = {} /\ answer'.asked = {id}
               /\ answer'.statusCode \in {200, 404}
    <3>1. PICK statusCode \in {200, 404} :
            \E pins : answer' = AnswerTo({}, {id}, statusCode, pins)
      BY <2>2 DEF GetPinByRequestId
    <3> QED
      BY <3>1 DEF AnswerTo
  <2>3. CASE AnswerWithError
    BY <2>3 DEF AnswerWithError, AnswerTo
  <2> QED
    BY <2>1, <2>2, <2>3
<1> QED
  BY <1>1, <1>2 DEF ServiceInv, ServiceTypeOK

LEMMA Services == Spec => []ServiceInv
<1>1. Init => ServiceInv
  BY PinningServiceConstants
  DEF Init, ServiceInv, ServiceTypeOK, NoAnswer, AnswerTo
<1>2. ServiceInv /\ [Next]_serviceVars => ServiceInv'
  <2>. SUFFICES ASSUME ServiceInv, [Next]_serviceVars
                PROVE  ServiceInv'
    OBVIOUS
  <2>1. CASE \/ Tick \/ Sync \/ UNCHANGED serviceVars
    BY <2>1, PinningServiceConstants
    DEF Tick, Sync, serviceVars, callVars, storeVars, ServiceInv, ServiceTypeOK
  <2> QED
    BY <2>1, CallTypes, UpdateTypes, AnswerTypes DEF Next
<1> QED
  BY <1>1, <1>2, PTL DEF Spec

\* The type invariant of the service and its store. A call has an id before
\* it puts its item.
THEOREM ServiceTypes == Spec => []ServiceTypeOK
<1>1. ServiceInv => ServiceTypeOK
  BY DEF ServiceInv
<1> QED
  BY Services, <1>1, PTL

-----------------------------------------------------------------------------
(* What is listed *)

\* The random part of a requestid tells the calls apart.
IdsTellApart ==
  \A p, q \in Calls :
    call[p] # "idle" /\ call[q] # "idle" /\ requestid[p] = requestid[q] => p = q

\* The ids of a set of items tell them apart.
TellApart(pins) ==
  \A pin, other \in pins : pin.requestid = other.requestid => pin = other

\* Each of them is the pin a call has put.
Listable(pins) ==
  /\ TellApart(pins)
  /\ \A pin \in pins :
       /\ pin.cid \in Cids
       /\ \E p \in Calls :
            call[p] \notin {"idle", "put"} /\ requestid[p] = pin.requestid

AnswerInv ==
  /\ \A i \in DOMAIN answer.pins :
       /\ answer.pins[i].cid \in Cids
       /\ \E p \in Calls :
            call[p] # "idle" /\ requestid[p] = answer.pins[i].requestid
  /\ Len(answer.pins) <= 1 \/ answer.asked = {}

ListingInv ==
  /\ IdsTellApart
  /\ Listable(items) /\ Listable(replica)
  /\ AnswerInv

\* Before is a strict total order of the ids.
LEMMA BeforeIsOrder ==
  ASSUME NEW a \in Ids, NEW b \in Ids, NEW c \in Ids
  PROVE  /\ ~Before(a, a)
         /\ Before(a, b) => ~Before(b, a)
         /\ a # b => Before(a, b) \/ Before(b, a)
         /\ Before(a, b) /\ Before(b, c) => Before(a, c)
<1>1. /\ a.time \in Int /\ b.time \in Int /\ c.time \in Int
      /\ a.rank \in Int /\ b.rank \in Int /\ c.rank \in Int
  BY DEF Ids
<1>2. a # b => a.time # b.time \/ a.rank # b.rank
  BY DEF Ids
<1> QED
  BY <1>1, <1>2 DEF Before

\* The later of two items has fewer items that are later still.
LEMMA LaterIsFewer ==
  ASSUME NEW pins \in SUBSET PinStatus, IsFiniteSet(pins),
         NEW pin \in pins, NEW other \in pins,
         Before(pin.requestid, other.requestid)
  PROVE  Cardinality(Later(pins, other.requestid))
           < Cardinality(Later(pins, pin.requestid))
<1>. DEFINE few == Later(pins, other.requestid)
            many == Later(pins, pin.requestid)
<1>1. \A p \in pins : p.requestid \in Ids
  BY DEF PinStatus
<1>2. few \subseteq many \ {other}
  BY <1>1, BeforeIsOrder DEF Later
<1>3. other \in many
  BY DEF Later
<1>4. many \subseteq pins
  BY DEF Later
<1>5. IsFiniteSet(many) /\ Cardinality(many) \in Nat
  BY <1>4, FS_Subset, FS_CardinalityType
<1>6. /\ IsFiniteSet(many \ {other})
      /\ Cardinality(many \ {other}) = Cardinality(many) - 1
  BY <1>3, <1>5, FS_RemoveElement
<1>7. /\ Cardinality(few) <= Cardinality(many \ {other})
      /\ Cardinality(few) \in Nat
  BY <1>2, <1>6, FS_Subset, FS_CardinalityType
<1> QED
  BY <1>5, <1>6, <1>7

\* Less than all of the items are later than one of them.
LEMMA LaterIsNotAll ==
  ASSUME NEW pins \in SUBSET PinStatus, IsFiniteSet(pins), NEW pin \in pins
  PROVE  /\ Cardinality(pins) \in Nat
         /\ Cardinality(Later(pins, pin.requestid))
              \in 0 .. Cardinality(pins) - 1
<1>. DEFINE later == Later(pins, pin.requestid)
<1>1. later \subseteq pins \ {pin}
  BY BeforeIsOrder DEF Later, PinStatus
<1>2. /\ IsFiniteSet(pins \ {pin})
      /\ Cardinality(pins \ {pin}) = Cardinality(pins) - 1
      /\ Cardinality(pins) \in Nat
  BY FS_RemoveElement, FS_CardinalityType
<1>3. Cardinality(later) <= Cardinality(pins) - 1 /\ Cardinality(later) \in Nat
  BY <1>1, <1>2, FS_Subset, FS_CardinalityType
<1> QED
  BY <1>2, <1>3

\* LatestFirst lists any finite set of items whose ids tell them apart: the
\* place of an item is given by how many are later.
LEMMA ListExists ==
  ASSUME NEW pins \in SUBSET PinStatus, IsFiniteSet(pins), TellApart(pins)
  PROVE  \E listed \in [1 .. Cardinality(pins) -> pins] :
           \A i, j \in 1 .. Cardinality(pins) :
             i < j => Before(listed[j].requestid, listed[i].requestid)
<1>. DEFINE n == Cardinality(pins)
            Count(pin) == Cardinality(Later(pins, pin.requestid))
            place == [pin \in pins |-> Count(pin) + 1]
<1>1. n \in Nat /\ \A pin \in pins : Count(pin) \in 0 .. n - 1
  BY LaterIsNotAll, FS_CardinalityType
<1>2. \A pin, other \in pins :
        Before(pin.requestid, other.requestid) => Count(other) < Count(pin)
  BY LaterIsFewer
<1>. HIDE DEF Count
<1>3. place \in [pins -> 1 .. n]
  BY <1>1
<1>4. ASSUME NEW pin \in pins, NEW other \in pins, place[pin] = place[other]
      PROVE  pin = other
  <2>1. Count(pin) = Count(other)
    BY <1>1, <1>4
  <2>2. /\ ~Before(pin.requestid, other.requestid)
        /\ ~Before(other.requestid, pin.requestid)
    BY <1>1, <1>2, <2>1
  <2>3. pin.requestid = other.requestid
    BY <2>2, BeforeIsOrder DEF PinStatus
  <2> QED
    BY <2>3 DEF TellApart
<1>5. place \in Injection(pins, 1 .. n)
  BY <1>3, <1>4 DEF Injection, IsInjective
<1>6. IsFiniteSet(1 .. n) /\ Cardinality(1 .. n) = n
  BY <1>1, FS_Interval
<1>7. place \in Surjection(pins, 1 .. n)
  BY <1>5, <1>6, FS_Injection
<1>8. \A i \in 1 .. n : \E pin \in pins : Count(pin) + 1 = i
  BY <1>7 DEF Surjection
<1>. DEFINE listed == [i \in 1 .. n |-> CHOOSE pin \in pins : Count(pin) + 1 = i]
<1>9. \A i \in 1 .. n : listed[i] \in pins /\ Count(listed[i]) + 1 = i
  BY <1>8
<1>10. ASSUME NEW i \in 1 .. n, NEW j \in 1 .. n, i < j
       PROVE  Before(listed[j].requestid, listed[i].requestid)
  <2>. HIDE DEF listed
  <2>1. Count(listed[i]) < Count(listed[j])
    BY <1>1, <1>9, <1>10
  <2>2. listed[i] # listed[j] /\ ~(Count(listed[j]) < Count(listed[i]))
    BY <1>1, <1>9, <2>1
  <2>3. listed[i].requestid # listed[j].requestid
    BY <1>9, <2>2 DEF TellApart
  <2>4. ~Before(listed[i].requestid, listed[j].requestid)
    BY <1>2, <1>9, <2>2
  <2> QED
    BY <1>9, <2>3, <2>4, BeforeIsOrder DEF PinStatus
<1>11. listed \in [1 .. n -> pins]
  BY <1>9
<1> QED
  BY <1>10, <1>11

\* What LatestFirst returns, for the proofs to cite: a list of all the items,
\* each later than the next.
LEMMA LatestFirstLists ==
  ASSUME NEW pins \in SUBSET PinStatus, IsFiniteSet(pins), TellApart(pins)
  PROVE  /\ Cardinality(pins) \in Nat
         /\ LatestFirst(pins) \in [1 .. Cardinality(pins) -> pins]
         /\ \A i, j \in 1 .. Cardinality(pins) : i < j =>
              Before(LatestFirst(pins)[j].requestid, LatestFirst(pins)[i].requestid)
         /\ \A pin \in pins : \E i \in 1 .. Cardinality(pins) :
              LatestFirst(pins)[i] = pin
<1>. DEFINE n == Cardinality(pins)
            listed == LatestFirst(pins)
<1>1. n \in Nat
  BY FS_CardinalityType
<1>2. /\ listed \in [1 .. n -> pins]
      /\ \A i, j \in 1 .. n :
           i < j => Before(listed[j].requestid, listed[i].requestid)
  BY ListExists DEF LatestFirst
<1>. HIDE DEF listed
<1>3. ASSUME NEW i \in 1 .. n, NEW j \in 1 .. n, listed[i] = listed[j]
      PROVE  i = j
  <2>1. ~Before(listed[i].requestid, listed[i].requestid)
    BY <1>2, BeforeIsOrder DEF PinStatus
  <2> QED
    BY <1>1, <1>2, <1>3, <2>1
<1>4. listed \in Injection(1 .. n, pins)
  BY <1>2, <1>3 DEF Injection, IsInjective
<1>5. Cardinality(1 .. n) = n
  BY <1>1, FS_Interval
<1>6. listed \in Surjection(1 .. n, pins)
  BY <1>4, <1>5, FS_Injection
<1> QED
  BY <1>1, <1>2, <1>6 DEF Surjection, listed

\* There are at most as many items as calls.
LEMMA ListableIsFinite ==
  ASSUME NEW pins, Listable(pins)
  PROVE  /\ IsFiniteSet(pins)
         /\ Cardinality(pins) \in Nat
         /\ Cardinality(pins) <= Cardinality(Calls)
<1>. DEFINE owner == [pin \in pins |->
              CHOOSE p \in Calls : requestid[p] = pin.requestid]
<1>1. \A pin \in pins :
        owner[pin] \in Calls /\ requestid[owner[pin]] = pin.requestid
  BY DEF Listable
<1>2. \A pin, other \in pins : owner[pin] = owner[other] => pin = other
  BY <1>1 DEF Listable, TellApart
<1>3. owner \in Injection(pins, Calls)
  BY <1>1, <1>2 DEF Injection, IsInjective
<1> QED
  BY <1>3, PinningServiceConstants, FS_Injection, FS_CardinalityType

LEMMA Subsets ==
  ASSUME NEW pins, Listable(pins), NEW some \in SUBSET pins
  PROVE  Listable(some)
BY DEF Listable, TellApart

\* SetToSeq lists what a finite set has.
LEMMA SetsAreListed ==
  ASSUME NEW S, IsFiniteSet(S)
  PROVE  SetToSeq(S) \in [1 .. Cardinality(S) -> S]
<1>1. \E f \in [1 .. Cardinality(S) -> S] : IsInjective(f)
  BY FS_CardinalityType DEF ExistsBijection, Bijection, Injection
<1> QED
  BY <1>1 DEF SetToSeq

\* A set of items stays listable when the calls go on with the ids they have.
LEMMA CallsGoOn ==
  ASSUME NEW pins, Listable(pins),
         \A p \in Calls : call[p] \notin {"idle", "put"} =>
           call'[p] \notin {"idle", "put"} /\ requestid'[p] = requestid[p]
  PROVE  /\ TellApart(pins)
         /\ \A pin \in pins :
              /\ pin.cid \in Cids
              /\ \E p \in Calls :
                   call'[p] \notin {"idle", "put"} /\ requestid'[p] = pin.requestid
<1>1. ASSUME NEW pin \in pins
      PROVE  /\ pin.cid \in Cids
             /\ \E p \in Calls :
                  call'[p] \notin {"idle", "put"} /\ requestid'[p] = pin.requestid
  <2>1. PICK p \in Calls :
          call[p] \notin {"idle", "put"} /\ requestid[p] = pin.requestid
    BY DEF Listable
  <2> QED
    BY <2>1 DEF Listable
<1> QED
  BY <1>1 DEF Listable

\* So do the ids in the last answer.
LEMMA AnswerStays ==
  ASSUME AnswerInv, UNCHANGED answer,
         \A p \in Calls : call[p] # "idle" =>
           call'[p] # "idle" /\ requestid'[p] = requestid[p]
  PROVE  AnswerInv'
<1>1. ASSUME NEW i \in DOMAIN answer.pins
      PROVE  /\ answer.pins[i].cid \in Cids
             /\ \E p \in Calls :
                  call'[p] # "idle" /\ requestid'[p] = answer.pins[i].requestid
  <2>1. PICK p \in Calls :
          call[p] # "idle" /\ requestid[p] = answer.pins[i].requestid
    BY DEF AnswerInv
  <2> QED
    BY <2>1 DEF AnswerInv
<1> QED
  BY <1>1 DEF AnswerInv

\* A call that starts takes a random string no other call has.
LEMMA StartListing ==
  ASSUME CallsAreFunctions, ListingInv, NEW p \in Calls, StartAddPin(p)
  PROVE  ListingInv'
<1>1. /\ call[p] = "idle" /\ call' = [call EXCEPT ![p] = "put"]
      /\ UNCHANGED <<items, replica, answer>>
  BY DEF StartAddPin, Goto, storeVars
<1>2. PICK rank \in 1 .. Cardinality(Calls) :
        /\ \A q \in Calls : requestid[q].rank # rank
        /\ requestid' = [requestid EXCEPT ![p] = [time |-> now, rank |-> rank]]
  BY DEF StartAddPin
<1>3. /\ call'[p] = "put" /\ requestid'[p].rank = rank
      /\ \A q \in Calls : q # p =>
           call'[q] = call[q] /\ requestid'[q] = requestid[q]
  BY <1>1, <1>2 DEF CallsAreFunctions
<1>4. \A q \in Calls : q # p => requestid'[q] # requestid'[p]
  BY <1>2, <1>3
<1>5. IdsTellApart'
  BY <1>3, <1>4 DEF ListingInv, IdsTellApart
<1>6. \A q \in Calls : call[q] # "idle" =>
        call'[q] = call[q] /\ requestid'[q] = requestid[q]
  BY <1>1, <1>3
<1>7. /\ TellApart(items) /\ TellApart(replica)
      /\ \A pin \in items \cup replica :
           /\ pin.cid \in Cids
           /\ \E q \in Calls :
                call'[q] \notin {"idle", "put"} /\ requestid'[q] = pin.requestid
  BY <1>6, CallsGoOn DEF ListingInv
<1>8. Listable(items)' /\ Listable(replica)'
  BY <1>1, <1>7 DEF Listable, TellApart
<1>9. AnswerInv'
  BY <1>1, <1>6, AnswerStays DEF ListingInv
<1> QED
  BY <1>5, <1>8, <1>9 DEF ListingInv

\* A put adds an item with an id no item has: the call that had put it would
\* be this one.
LEMMA PutListing ==
  ASSUME CallsAreFunctions, ListingInv, NEW p \in Calls, call[p] = "put", Put(p),
         NEW to \in {"send", "error"}, call' = [call EXCEPT ![p] = to],
         UNCHANGED <<requestid, answer>>
  PROVE  ListingInv'
<1>1. PICK cid \in Cids :
        WriteItems(items \cup
          {[requestid |-> requestid[p], status |-> "queued", cid |-> cid]})
  BY DEF Put
<1>. DEFINE new == [requestid |-> requestid[p], status |-> "queued", cid |-> cid]
<1>2. /\ call'[p] = to
      /\ \A q \in Calls : q # p => call'[q] = call[q]
  BY DEF CallsAreFunctions
<1>3. /\ \A q \in Calls : call[q] # "idle" =>
           call'[q] # "idle" /\ requestid'[q] = requestid[q]
      /\ \A q \in Calls : call[q] \notin {"idle", "put"} =>
           call'[q] \notin {"idle", "put"} /\ requestid'[q] = requestid[q]
  BY <1>2
<1>4. /\ TellApart(items) /\ TellApart(replica)
      /\ \A pin \in items \cup replica :
           /\ pin.cid \in Cids
           /\ \E q \in Calls :
                call'[q] \notin {"idle", "put"} /\ requestid'[q] = pin.requestid
  BY <1>3, CallsGoOn DEF ListingInv
<1>5. \A pin \in items : pin.requestid # requestid[p]
  <2>1. ASSUME NEW pin \in items, pin.requestid = requestid[p]
        PROVE  FALSE
    <3>1. PICK q \in Calls :
            call[q] \notin {"idle", "put"} /\ requestid[q] = pin.requestid
      BY DEF ListingInv, Listable
    <3>2. q = p
      BY <2>1, <3>1 DEF ListingInv, IdsTellApart
    <3> QED
      BY <3>1, <3>2
  <2> QED
    BY <2>1
<1>6. items' = items \cup {new} /\ replica' \in {replica, items'}
  BY <1>1 DEF WriteItems
<1>7. /\ new.cid \in Cids /\ new.requestid = requestid'[p]
      /\ call'[p] \notin {"idle", "put"}
  BY <1>2
<1>8. TellApart(items)'
  <2>1. \A pin \in items : pin.requestid # new.requestid
    BY <1>5
  <2>. HIDE DEF new
  <2> QED
    BY <1>4, <1>6, <2>1 DEF TellApart
<1>9. \A pin \in items' :
        /\ pin.cid \in Cids
        /\ \E q \in Calls :
             call'[q] \notin {"idle", "put"} /\ requestid'[q] = pin.requestid
  <2>. HIDE DEF new
  <2>1. \E q \in Calls :
          call'[q] \notin {"idle", "put"} /\ requestid'[q] = new.requestid
    BY <1>7
  <2>2. ASSUME NEW pin \in items'
        PROVE  /\ pin.cid \in Cids
               /\ \E q \in Calls :
                    call'[q] \notin {"idle", "put"} /\ requestid'[q] = pin.requestid
    <3>1. CASE pin \in items
      BY <1>4, <3>1
    <3>2. CASE pin = new
      BY <1>7, <2>1, <3>2
    <3> QED
      BY <1>6, <3>1, <3>2
  <2> QED
    BY <2>2
<1>10. Listable(items)' /\ Listable(replica)'
  <2>1. Listable(items)'
    BY <1>8, <1>9 DEF Listable
  <2>2. CASE replica' = items'
    BY <2>1, <2>2 DEF Listable, TellApart
  <2>3. CASE replica' = replica
    <3>1. Listable(replica)'
      BY <1>4, <2>3 DEF Listable, TellApart
    <3> QED
      BY <2>1, <3>1
  <2> QED
    BY <1>6, <2>1, <2>2, <2>3
<1>11. IdsTellApart'
  BY <1>2 DEF ListingInv, IdsTellApart
<1>12. AnswerInv'
  BY <1>3, AnswerStays DEF ListingInv
<1> QED
  BY <1>10, <1>11, <1>12 DEF ListingInv

\* Whatever step a call takes.
LEMMA CallListing ==
  ASSUME CallsAreFunctions, ListingInv, NEW p \in Calls,
         StartAddPin(p) \/ PutPin(p) \/ SendMessage(p) \/ AddPinFails(p)
  PROVE  ListingInv'
<1>1. CASE StartAddPin(p)
  BY <1>1, StartListing
<1>2. CASE PutPin(p)
  <2>1. /\ call[p] = "put" /\ call' = [call EXCEPT ![p] = "send"] /\ Put(p)
        /\ UNCHANGED <<requestid, answer>>
    BY <1>2 DEF PutPin, Goto
  <2> QED
    BY <2>1, PutListing
<1>3. CASE AddPinFails(p) /\ call[p] = "put" /\ Put(p)
  <2>1. call' = [call EXCEPT ![p] = "error"] /\ UNCHANGED <<requestid, answer>>
    BY <1>3 DEF AddPinFails, Goto
  <2> QED
    BY <1>3, <2>1, PutListing
<1>4. CASE SendMessage(p) \/ (AddPinFails(p) /\ UNCHANGED storeVars)
  <2>1. /\ call[p] \in {"put", "send"}
        /\ \E to \in {"done", "error"} : call' = [call EXCEPT ![p] = to]
        /\ UNCHANGED <<requestid, answer, items, replica>>
    BY <1>4 DEF SendMessage, AddPinFails, Goto, storeVars
  <2>2. /\ \A q \in Calls : q # p => call'[q] = call[q]
        /\ call'[p] \in {"done", "error"}
    BY <2>1 DEF CallsAreFunctions
  <2>3. /\ \A q \in Calls : call[q] # "idle" =>
             call'[q] # "idle" /\ requestid'[q] = requestid[q]
        /\ \A q \in Calls : call[q] \notin {"idle", "put"} =>
             call'[q] \notin {"idle", "put"} /\ requestid'[q] = requestid[q]
    BY <2>1, <2>2
  <2>4. /\ TellApart(items) /\ TellApart(replica)
        /\ \A pin \in items \cup replica :
             /\ pin.cid \in Cids
             /\ \E q \in Calls :
                  call'[q] \notin {"idle", "put"} /\ requestid'[q] = pin.requestid
    BY <2>3, CallsGoOn DEF ListingInv
  <2>5. Listable(items)' /\ Listable(replica)'
    BY <2>1, <2>4 DEF Listable, TellApart
  <2>6. IdsTellApart'
    BY <2>1, <2>2 DEF ListingInv, IdsTellApart
  <2>7. AnswerInv'
    BY <2>1, <2>3, AnswerStays DEF ListingInv
  <2> QED
    BY <2>5, <2>6, <2>7 DEF ListingInv
<1> QED
  BY <1>1, <1>2, <1>3, <1>4 DEF AddPinFails, Goto

\* Who updates a status has the id from a message, so its pin is stored, and
\* the item keeps its cid.
LEMMA UpdateListing ==
  ASSUME StoreInv, ListingInv,
         NEW id \in messages, NEW status, UpdatePinStatus(id, status)
  PROVE  ListingInv'
<1>. DEFINE old == ItemsOf(id)
            updated == {[pin EXCEPT !.status = status] : pin \in old}
<1>1. old # {}
  BY DEF StoreInv, AnsweredPinIsStored, ItemsOf
<1>2. /\ items' = (items \ old) \cup updated
      /\ replica' \in {replica, items'}
      /\ UNCHANGED <<call, requestid, answer>>
  BY <1>1 DEF UpdatePinStatus, Upsert, WriteItems, callVars
<1>3. TellApart(items) /\ \A pin \in items :
        /\ pin.cid \in Cids
        /\ \E p \in Calls :
             call[p] \notin {"idle", "put"} /\ requestid[p] = pin.requestid
  BY DEF ListingInv, Listable
<1>4. PICK pin \in items : old = {pin} /\ pin.requestid = id
  BY <1>1, <1>3 DEF TellApart, ItemsOf
<1>. DEFINE new == [pin EXCEPT !.status = status]
<1>5. items' = (items \ {pin}) \cup {new}
  BY <1>2, <1>4
<1>6. new.requestid = pin.requestid /\ new.cid = pin.cid
  OBVIOUS
<1>7. Listable(items)'
  <2>. HIDE DEF new
  <2>1. TellApart(items)'
    BY <1>3, <1>5, <1>6 DEF TellApart
  <2>2. \A q \in items' : \E r \in items :
          q.cid = r.cid /\ q.requestid = r.requestid
    BY <1>5, <1>6
  <2> QED
    BY <1>2, <1>3, <2>1, <2>2 DEF Listable
<1>8. Listable(replica)'
  BY <1>2, <1>7 DEF ListingInv, Listable, TellApart
<1> QED
  BY <1>2, <1>7, <1>8 DEF ListingInv, IdsTellApart, AnswerInv

\* What a query finds are items of the view it reads, so LatestFirst lists them.
LEMMA FoundIsListable ==
  ASSUME NEW view, Listable(view), NEW query
  PROVE  /\ Listable({pin \in Evaluated(query, view) : pin.status \in query.status})
         /\ IsFiniteSet({pin \in Evaluated(query, view) : pin.status \in query.status})
<1>1. {pin \in Evaluated(query, view) : pin.status \in query.status}
        \in SUBSET view
  BY DEF Evaluated
<1> QED
  BY <1>1, Subsets, ListableIsFinite

\* What is read from a view is answered as it is there.
LEMMA GetListing ==
  ASSUME ServiceInv, ListingInv,
         \/ \E query \in Queries : GetPins(query)
         \/ \E id \in Ids : GetPinByRequestId(id)
  PROVE  ListingInv'
<1>1. UNCHANGED <<call, requestid, items, replica>>
  BY DEF GetPins, GetPinByRequestId, callVars, storeVars
<1>2. \A view \in Views : Listable(view) /\ view \subseteq PinStatus
  BY DEF ListingInv, ServiceInv, ServiceTypeOK, Views
<1>3. ASSUME NEW view \in Views, NEW n \in Nat, NEW found \in SUBSET view,
             answer'.pins \in [1 .. n -> found]
      PROVE  \A i \in DOMAIN answer'.pins :
               /\ answer'.pins[i].cid \in Cids
               /\ \E p \in Calls :
                    call[p] # "idle" /\ requestid[p] = answer'.pins[i].requestid
  <2>1. \A i \in DOMAIN answer'.pins : answer'.pins[i] \in view
    BY <1>3
  <2> QED
    BY <1>2, <2>1 DEF Listable
<1>4. ASSUME NEW query \in Queries, GetPins(query)
      PROVE  AnswerInv'
  <2>1. PICK view \in Views :
          answer' = AnswerTo({query}, {}, 200, Query(query, view))
    BY <1>4 DEF GetPins
  <2>. DEFINE found ==
         {pin \in Evaluated(query, view) : pin.status \in query.status}
  <2>2. found \in SUBSET view /\ found \in SUBSET PinStatus
    BY <1>2 DEF Evaluated
  <2>3. Listable(found) /\ IsFiniteSet(found)
    BY <1>2, FoundIsListable
  <2>4. /\ answer'.asked = {} /\ answer'.pins = LatestFirst(found)
    BY <2>1 DEF AnswerTo, Query
  <2>. HIDE DEF found
  <2>5. /\ Cardinality(found) \in Nat
        /\ LatestFirst(found) \in [1 .. Cardinality(found) -> found]
    BY <2>2, <2>3, LatestFirstLists DEF Listable
  <2> QED
    BY <1>1, <1>3, <2>2, <2>4, <2>5 DEF AnswerInv
<1>5. ASSUME NEW id \in Ids, GetPinByRequestId(id)
      PROVE  AnswerInv'
  <2>1. PICK view \in Views :
          \E statusCode : answer' = AnswerTo({}, {id}, statusCode,
            SetToSeq({pin \in view : pin.requestid = id}))
    BY <1>5 DEF GetPinByRequestId
  <2>. DEFINE found == {pin \in view : pin.requestid = id}
  <2>2. /\ answer'.pins = SetToSeq(found)
    BY <2>1 DEF AnswerTo
  <2>3. found = {} \/ \E pin : found = {pin}
    BY <1>2 DEF Listable, TellApart
  <2>4. IsFiniteSet(found) /\ Cardinality(found) \in {0, 1}
    BY <2>3, FS_EmptySet, FS_Singleton
  <2>5. found \in SUBSET view
    OBVIOUS
  <2>. HIDE DEF found
  <2>6. SetToSeq(found) \in [1 .. Cardinality(found) -> found]
    BY <2>4, SetsAreListed
  <2>7. Len(answer'.pins) <= 1
    BY <2>2, <2>4, <2>6
  <2>8. \A i \in DOMAIN answer'.pins :
          /\ answer'.pins[i].cid \in Cids
          /\ \E p \in Calls :
               call[p] # "idle" /\ requestid[p] = answer'.pins[i].requestid
    BY <1>3, <2>2, <2>4, <2>5, <2>6
  <2> QED
    BY <1>1, <2>7, <2>8 DEF AnswerInv
<1>6. (IdsTellApart /\ Listable(items) /\ Listable(replica))'
  BY <1>1 DEF ListingInv, IdsTellApart, Listable, TellApart
<1> QED
  BY <1>4, <1>5, <1>6 DEF ListingInv

LEMMA Listings == Spec => []ListingInv
<1>1. Init => ListingInv
  BY DEF Init, ListingInv, IdsTellApart, Listable, TellApart, AnswerInv,
    NoAnswer, AnswerTo
<1>2. ServiceInv /\ StoreInv /\ ListingInv /\ [Next]_serviceVars => ListingInv'
  <2>. SUFFICES ASSUME ServiceInv, StoreInv, ListingInv, [Next]_serviceVars
                PROVE  ListingInv'
    OBVIOUS
  <2>1. CASE Tick \/ UNCHANGED serviceVars
    BY <2>1 DEF Tick, serviceVars, callVars, storeVars, ListingInv,
      IdsTellApart, Listable, TellApart, AnswerInv
  <2>2. CASE Sync
    BY <2>2 DEF Sync, callVars, ListingInv,
      IdsTellApart, Listable, TellApart, AnswerInv
  <2>3. CASE AnswerWithError
    <3>1. answer'.pins = <<>> /\ answer'.asked = {}
          /\ UNCHANGED <<call, requestid, items, replica>>
      BY <2>3 DEF AnswerWithError, AnswerTo, callVars, storeVars
    <3> QED
      BY <3>1 DEF ListingInv, IdsTellApart, Listable, TellApart, AnswerInv
  <2> QED
    BY <2>1, <2>2, <2>3, CallListing, UpdateListing, GetListing
    DEF Next, StoreInv
<1> QED
  BY <1>1, <1>2, Services, Stores, PTL DEF Spec

\* What a GET answers are pins calls were for, one at most for a requestid.
\* Every item, the replica's too, has the cid and the id of a call that has
\* put it, and the random string tells the calls apart.
THEOREM AnswersArePinsPut == Spec => []AnswersArePins
<1>1. ListingInv => AnswersArePins
  BY DEF ListingInv, AnswerInv, AnswersArePins
<1> QED
  BY Listings, <1>1, PTL

-----------------------------------------------------------------------------
(* What a query leaves out *)

\* A pin later than an evaluated one is evaluated.
LEMMA LaterIsEvaluated ==
  ASSUME NEW view \in SUBSET PinStatus, IsFiniteSet(view), NEW query \in Queries,
         NEW one \in Evaluated(query, view), NEW pin \in view,
         Before(one.requestid, pin.requestid)
  PROVE  pin \in Evaluated(query, view)
<1>1. one \in view /\ query.limit \in Nat
  BY PinningServiceConstants DEF Evaluated, Queries
<1>2. Cardinality(Later(view, pin.requestid))
        < Cardinality(Later(view, one.requestid))
  BY <1>1, LaterIsFewer
<1>3. Cardinality(Later(view, one.requestid)) < query.limit
  BY DEF Evaluated
<1>4. /\ Cardinality(Later(view, pin.requestid)) \in Nat
      /\ Cardinality(Later(view, one.requestid)) \in Nat
  BY <1>1, FS_Subset, FS_CardinalityType DEF Later
<1>5. Cardinality(Later(view, pin.requestid)) < query.limit
  BY <1>1, <1>2, <1>3, <1>4
<1> QED
  BY <1>5 DEF Evaluated

\* A list by LatestFirst has all that is later than one of its pins before it.
LEMMA LaterIsListed ==
  ASSUME NEW view \in SUBSET PinStatus, Listable(view), NEW query \in Queries,
         NEW i \in DOMAIN Query(query, view), NEW pin \in view,
         pin.status \in query.status,
         Before(Query(query, view)[i].requestid, pin.requestid)
  PROVE  \E j \in 1 .. i - 1 : Query(query, view)[j] = pin
<1>. DEFINE found == {p \in Evaluated(query, view) : p.status \in query.status}
            listed == Query(query, view)
<1>1. /\ found \in SUBSET PinStatus /\ IsFiniteSet(found) /\ TellApart(found)
      /\ IsFiniteSet(view)
  BY FoundIsListable, ListableIsFinite DEF Evaluated, Listable
<1>2. listed = LatestFirst(found)
  BY DEF Query
<1>3. /\ Cardinality(found) \in Nat
      /\ listed \in [1 .. Cardinality(found) -> found]
      /\ \A k, j \in 1 .. Cardinality(found) : k < j =>
           Before(listed[j].requestid, listed[k].requestid)
      /\ \A p \in found : \E j \in 1 .. Cardinality(found) : listed[j] = p
  BY <1>1, <1>2, LatestFirstLists
<1>4. i \in 1 .. Cardinality(found) /\ listed[i] \in found
  BY <1>3
<1>5. pin \in found
  BY <1>1, <1>4, LaterIsEvaluated
<1>6. PICK j \in 1 .. Cardinality(found) : listed[j] = pin
  BY <1>3, <1>5
<1>7. listed[i].requestid \in Ids /\ pin.requestid \in Ids
  BY <1>1, <1>4, <1>5 DEF PinStatus
<1>8. ~Before(pin.requestid, listed[i].requestid) /\ i # j
  BY <1>6, <1>7, BeforeIsOrder
<1>. HIDE DEF found, listed
<1>9. ~(i < j)
  BY <1>3, <1>4, <1>6, <1>8
<1>10. j \in 1 .. i - 1
  BY <1>3, <1>4, <1>8, <1>9
<1> QED
  BY <1>6, <1>10 DEF listed

\* A new answer to a query is what the query finds in the view it reads.
LEMMA QueryAnswers ==
  ASSUME Next, NEW query \in answer'.query, answer' # answer
  PROVE  \E view \in Views :
           query \in Queries /\ answer'.pins = Query(query, view)
<1>1. CASE \E q \in Queries : GetPins(q)
  <2>1. PICK q \in Queries, view \in Views :
          answer' = AnswerTo({q}, {}, 200, Query(q, view))
    BY <1>1 DEF GetPins
  <2> QED
    BY <2>1 DEF AnswerTo
<1>2. CASE AnswerWithError \/ \E id \in Ids : GetPinByRequestId(id)
  <2>1. \E asked, statusCode, pins : answer' = AnswerTo({}, asked, statusCode, pins)
    BY <1>2 DEF AnswerWithError, GetPinByRequestId
  <2>2. answer'.query = {}
    BY <2>1 DEF AnswerTo
  <2> QED
    BY <2>2
<1>3. CASE ~((\E q \in Queries : GetPins(q)) \/ AnswerWithError
             \/ \E id \in Ids : GetPinByRequestId(id))
  <2>1. answer' = answer
    BY <1>3 DEF Next, Tick, Sync, StartAddPin, PutPin, SendMessage, AddPinFails,
      UpdatePinStatus
  <2> QED
    BY <2>1
<1> QED
  BY <1>1, <1>2, <1>3

\* What a query lists is sorted latest first and complete in itself, for any
\* limit and any lag of the replica it reads.
THEOREM QueriesListLatestFirst == Spec => ListsLatestFirst
<1>1. ASSUME ServiceInv, ListingInv, Next,
             NEW query \in answer'.query, answer' # answer
      PROVE  \E view \in Views :
               \A i \in DOMAIN answer'.pins : \A pin \in view :
                 /\ pin.status \in query.status
                 /\ Before(answer'.pins[i].requestid, pin.requestid)
                 => \E j \in 1 .. i - 1 : answer'.pins[j] = pin
  <2>1. PICK view \in Views :
          query \in Queries /\ answer'.pins = Query(query, view)
    BY <1>1, QueryAnswers
  <2>2. Listable(view) /\ view \in SUBSET PinStatus
    BY <1>1 DEF ListingInv, ServiceInv, ServiceTypeOK, Views
  <2>3. \A i \in DOMAIN answer'.pins : \A pin \in view :
          /\ pin.status \in query.status
          /\ Before(answer'.pins[i].requestid, pin.requestid)
          => \E j \in 1 .. i - 1 : answer'.pins[j] = pin
    BY <2>1, <2>2, LaterIsListed
  <2> QED
    BY <2>3
<1>2. ServiceInv /\ ListingInv /\ [Next]_serviceVars =>
        [ \A query \in answer'.query : answer' # answer =>
            LET listed == answer'.pins IN
            \E view \in Views : \A i \in DOMAIN listed : \A pin \in view :
              /\ pin.status \in query.status
              /\ Before(listed[i].requestid, pin.requestid)
              => \E j \in 1 .. i - 1 : listed[j] = pin ]_serviceVars
  BY <1>1
<1> QED
  BY <1>2, Services, Listings, PTL DEF Spec, ListsLatestFirst

-----------------------------------------------------------------------------
(* What FilteredOut violates, and when it holds *)

Prompt == ~ReadsLag => replica = items

\* With limits that are never reached, all that a query reads is evaluated.
LEMMA AllIsEvaluated ==
  ASSUME NEW view \in SUBSET PinStatus, Listable(view), NEW query \in Queries,
         Cardinality(Calls) <= query.limit
  PROVE  Evaluated(query, view) = view
<1>1. /\ IsFiniteSet(view) /\ Cardinality(view) \in Nat
      /\ Cardinality(view) <= Cardinality(Calls)
      /\ Cardinality(Calls) \in Nat /\ query.limit \in Nat
  BY ListableIsFinite, FS_CardinalityType, PinningServiceConstants DEF Queries
<1>2. ASSUME NEW pin \in view
      PROVE  Cardinality(Later(view, pin.requestid)) < query.limit
  <2>1. Cardinality(Later(view, pin.requestid)) \in 0 .. Cardinality(view) - 1
    BY <1>1, LaterIsNotAll
  <2> QED
    BY <1>1, <2>1
<1> QED
  BY <1>2 DEF Evaluated

\* A query lists every pin it is for, when reads are consistent and no limit is
\* below the number of items: only a lagging replica, and a limit that is
\* applied before the filter, make ListsWhatMatches fail.
THEOREM MatchesAreListed ==
  ASSUME ~ReadsLag, \A limit \in Limits : Cardinality(Calls) <= limit
  PROVE  /\ Spec => ListsWhatMatches
         /\ Spec => [][ \A query \in answer'.query : answer' # answer =>
                          Matches(query) \subseteq ToSet(answer'.pins)
                       ]_serviceVars
<1>1. Spec => []Prompt
  <2>1. Init => Prompt
    BY DEF Init, Prompt
  <2>2. Prompt /\ [Next]_serviceVars => Prompt'
    BY DEF Prompt, Next, Tick, Sync, StartAddPin, PutPin, Put, SendMessage,
      AddPinFails, UpdatePinStatus, Upsert, WriteItems, GetPins,
      GetPinByRequestId, AnswerWithError, serviceVars, storeVars
  <2> QED
    BY <2>1, <2>2, PTL DEF Spec
<1>2. ASSUME ServiceInv, ListingInv, Prompt, Next,
             NEW query \in answer'.query, answer' # answer
      PROVE  Matches(query) \subseteq ToSet(answer'.pins)
  <2>1. query \in Queries /\ answer'.pins = Query(query, items)
    BY <1>2, QueryAnswers DEF Prompt, Views
  <2>2. Listable(items) /\ items \in SUBSET PinStatus
    BY <1>2 DEF ListingInv, ServiceInv, ServiceTypeOK
  <2>3. Cardinality(Calls) <= query.limit
    BY <2>1 DEF Queries
  <2>4. Evaluated(query, items) = items
    BY <2>1, <2>2, <2>3, AllIsEvaluated
  <2>. DEFINE found == {p \in Evaluated(query, items) : p.status \in query.status}
  <2>5. found \in SUBSET PinStatus /\ IsFiniteSet(found) /\ TellApart(found)
    BY <2>2, FoundIsListable DEF Evaluated, Listable
  <2>6. answer'.pins = LatestFirst(found)
    BY <2>1 DEF Query
  <2>7. \A pin \in Matches(query) : pin \in found
    BY <2>4 DEF Matches
  <2>. HIDE DEF found
  <2>8. /\ \A pin \in found :
             \E i \in 1 .. Cardinality(found) : LatestFirst(found)[i] = pin
        /\ LatestFirst(found) \in [1 .. Cardinality(found) -> found]
        /\ Cardinality(found) \in Nat
    BY <2>5, LatestFirstLists
  <2>9. Len(LatestFirst(found)) = Cardinality(found)
    BY <2>8
  <2> QED
    BY <2>6, <2>7, <2>8, <2>9 DEF ToSet
<1>3. ServiceInv /\ ListingInv /\ Prompt /\ [Next]_serviceVars =>
        [ \A query \in answer'.query : answer' # answer =>
            Matches(query) \subseteq ToSet(answer'.pins) ]_serviceVars
  BY <1>2
<1>4. Spec => [][ \A query \in answer'.query : answer' # answer =>
                   Matches(query) \subseteq ToSet(answer'.pins) ]_serviceVars
  BY <1>1, <1>3, Services, Listings, PTL DEF Spec
<1>5. [][ \A query \in answer'.query : answer' # answer =>
           Matches(query) \subseteq ToSet(answer'.pins) ]_serviceVars
        => ListsWhatMatches
  <2>1. [ \A query \in answer'.query : answer' # answer =>
            Matches(query) \subseteq ToSet(answer'.pins) ]_serviceVars
        => [ \A query \in answer'.query : answer' # answer =>
               \/ Matches(query) \subseteq ToSet(answer'.pins)
               \/ Len(answer'.pins) = query.limit ]_serviceVars
    OBVIOUS
  <2> QED
    BY <2>1, PTL DEF ListsWhatMatches
<1> QED
  BY <1>4, <1>5, PTL
=============================================================================
