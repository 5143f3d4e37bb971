------------------------------ MODULE PinTable ------------------------------
(***************************************************************************)
(* The DynamoDB table of pin records, with the single item operations the  *)
(* API, the workers and the dead letter lambda make on it. Each operation  *)
(* is atomic on the item of its cid; nothing spans two items.              *)
(*                                                                         *)
(* A record's "created" timestamp is what tells the request that created   *)
(* or re-queued the record, so it is modelled by that request. Delegates   *)
(* are multiaddrs of a worker's kubo node, modelled by the worker.         *)
(***************************************************************************)
EXTENDS PickupParameters

VARIABLES
  table,    \* cid -> the item as the table's leader holds it
  replica   \* cid -> the item as a lagging replica holds it

tableVars == <<table, replica>>

\* "absent": there is no item. "unset": an item without a status attribute.
Status == {"absent", "unset", "queued", "pinned", "failed"}

Item == [status    : Status,
         created   : Requests \cup {NoRequest},
         delegates : SUBSET Workers]

NoItem == [status |-> "absent", created |-> NoRequest, delegates |-> {}]

\* The item upsertOnDynamo puts: no delegates attribute yet.
NewPin(r) == [status |-> "queued", created |-> r, delegates |-> {}]

TableTypeOK ==
  /\ table \in [Cids -> Item]
  /\ replica \in [Cids -> Item]

TableInit ==
  /\ table = [c \in Cids |-> NoItem]
  /\ replica = [c \in Cids |-> NoItem]

-----------------------------------------------------------------------------
Write(c, item) ==
  /\ table' = [table EXCEPT ![c] = item]
  /\ replica' = IF CanFail("stale") THEN replica ELSE table'

\* A replica catches up with the leader.
Sync(c) ==
  /\ replica[c] # table[c]
  /\ replica' = [replica EXCEPT ![c] = table[c]]
  /\ UNCHANGED table

\* The items an eventually consistent GetItem may answer.
Reads(c) == {table[c], replica[c]}

Exists(c) == table[c].status # "absent"

\* PutItem on condition attribute_not_exists(cid).
PutIfAbsent(c, r) ==
  /\ ~Exists(c)
  /\ Write(c, NewPin(r))

\* Mutation: the update without its condition.
UpdateAnyItem(c, r) ==
  Write(c, [table[c] EXCEPT !.status = "queued", !.created = r])

\* UpdateItem on condition status = 'failed'. The delegates stay.
UpdateFailedItem(c, r) ==
  /\ table[c].status = "failed"
  /\ Write(c, [table[c] EXCEPT !.status = "queued", !.created = r])

\* UpdateItem is an upsert: on a missing item it creates one with no status.
AddDelegates(c, addrs) ==
  Write(c, [table[c] EXCEPT
              !.delegates = @ \cup addrs,
              !.status = IF Exists(c) THEN @ ELSE "unset"])

\* Unconditional: whoever writes last wins.
UpdatePinStatus(c, status) ==
  Write(c, [table[c] EXCEPT !.status = status])
=============================================================================
