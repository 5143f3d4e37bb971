-------------------------- MODULE PickupParameters --------------------------
(***************************************************************************)
(* The identities the components of pickup share, and the failures a       *)
(* model of the system allows.                                             *)
(*                                                                         *)
(* A request is one POST /pins/{cid} call. A request sends at most one     *)
(* message to the pin queue, so the message carries the request's identity *)
(* (addToQueue gives each message a requestid of its own). The second copy *)
(* of a message that was sent twice goes by the name of another request.   *)
(***************************************************************************)
EXTENDS Naturals, FiniteSets

CONSTANTS
  Cids,        \* the content identifiers that are asked for
  Requests,    \* the POST requests the API receives
  CidOf,       \* the cid a request, and so its message, is about
  Workers,     \* pickup processes: one per ECS task, beside its kubo node
  NoRequest,   \* "no request": the creator of a record nobody created
  Faults       \* the kinds of failure that may happen

(***************************************************************************)
(* api     an AddPin lambda is killed, or a call it makes fails, or takes  *)
(*         effect although its answer is lost                              *)
(* put     the answer to the put of a record is lost: the SDK sends the    *)
(*         put again, or gives up                                          *)
(* resend  the answer to SendMessage is lost and the SDK sends it again    *)
(* crash   a pickup process dies and drops its jobs. Scale-in and task     *)
(*         restarts do that, and so does every error that escapes          *)
(*         messageHandler as an unhandled rejection                        *)
(* lapse   a message becomes visible again while a handler holds it        *)
(*         (at-least-once delivery; a lost visibility extension)           *)
(* delete  a worker's write of the pin status, or its delete, fails        *)
(* lambda  an update made by the dead letter lambda fails, or the lambda   *)
(*         is killed                                                       *)
(* stale   DynamoDB reads are eventually consistent: no reader asks for a  *)
(*         consistent read                                                 *)
(***************************************************************************)
FaultKinds ==
  {"api", "put", "resend", "crash", "lapse", "delete", "lambda", "stale"}

ASSUME CidOfType == CidOf \in [Requests -> Cids]
ASSUME NoRequestIsNone == NoRequest \notin Requests
ASSUME FaultsType == Faults \subseteq FaultKinds

CanFail(kind) == kind \in Faults

RequestsFor(c) == {r \in Requests : CidOf[r] = c}
=============================================================================
