------------------------------ MODULE MCPickup ------------------------------
(***************************************************************************)
(* Small instances of Pickup. Only the requests and the slots of one       *)
(* instance are interchangeable, and only where they share a cid and a     *)
(* worker.                                                                 *)
(***************************************************************************)
EXTENDS PickupExclusion, TLC

CONSTANTS c1, c2, r1, w1

\* Every request is for the same cid.
OneCid == [r \in Requests |-> c1]

\* The first request is for c1, the others are for c2.
TwoCids == [r \in Requests |-> IF r = r1 THEN c1 ELSE c2]

\* One worker process handles all messages.
OneWorker == [s \in Slots |-> w1]

\* Every slot is of another worker process.
OwnWorker == [s \in Slots |-> s]

SlotsAndRequests == Permutations(Slots) \cup Permutations(Requests)

\* The requests for c2.
OtherRequests == Permutations(Requests \ {r1})
=============================================================================
