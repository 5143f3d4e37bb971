-------------------------- MODULE PickupExclusion --------------------------
(***************************************************************************)
(* The inductive invariant behind OneHandlerPerCar and DestinationComplete *)
(* when nothing is delivered twice. Nothing in the code locks a pin. What  *)
(* keeps two handlers from the CAR of a cid is that the API sends another  *)
(* message for it only after the pin has failed, and that a pin which fits *)
(* only fails once the last message for it is dead and marked.             *)
(***************************************************************************)
EXTENDS PickupInvariant

\* A held message is not delivered again, a sent one not sent again, and the
\* dead letter lambda answers for what it marked.
DeliversOnce == Faults \cap {"lapse", "resend", "lambda"} = {}

Marked(r) == \E i \in Invocations : r \in batch[i].marked

\* The message of r can still lead to a handler, or to its pin being failed.
Contends(r) ==
  \/ request[r] = "send"
  \/ queue[r] \in {"visible", "inflight"}
  \/ queue[r] = "dead" /\ ~Marked(r)
  \/ Held(r)

\* One message at most contends for a CAR that fits, and none does for a pin
\* that has failed, which a request may queue again.
Contention ==
  \A r \in Requests : Contends(r) /\ CidOf[r] \in Fits =>
    /\ table[CidOf[r]].status # "failed"
    /\ \A q \in Requests : Contends(q) /\ CidOf[q] = CidOf[r] => q = r

\* A message is held by one handler, with its last receipt, and hidden until
\* that handler deletes or releases it.
Holding ==
  \A s \in Slots : Busy(s) =>
    /\ queue[job[s].message] \in {"inflight", "gone"}
    /\ job[s].receipt = receives[job[s].message]
    /\ \A t \in Slots : Holds(t, job[s].message) => t = s

\* A batch has dead messages no other batch has, and is answered in full.
Batching ==
  \A i \in Invocations :
    /\ batch[i].unmarked = {} /\ batch[i].todo \cap batch[i].marked = {}
    /\ \A r \in Records(i) :
         /\ queue[r] = "dead"
         /\ \A j \in Invocations : r \in Records(j) => j = i

\* What was checked is what is copied.
Copying ==
  /\ \A c \in Cids \ Fits : validation[c] # "complete"
  /\ \A s \in Slots : job[s].pc = "copy" =>
       JobCid(s) \in Fits /\ validation[JobCid(s)] # "partial"
  /\ DestinationComplete

ExclusionInv == Contention /\ Holding /\ Batching /\ Copying

-----------------------------------------------------------------------------
\* A request is about to send the message of a queued pin, and a handler whose
\* message is gone has nothing left to do but release it.
SettlingInv ==
  /\ \A r \in Requests :
       request[r] = "send" /\ CidOf[r] \in Fits
         => table[CidOf[r]].status = "queued"
  /\ \A s \in Slots :
       Busy(s) /\ queue[job[s].message] = "gone" => job[s].pc = "release"

Settled(c) ==
  /\ table[c].status = "pinned"
  /\ \A r \in RequestsFor(c) : queue[r] \in {"unsent", "gone"}

(***************************************************************************)
(* A pin that is pinned when the last of its messages is gone is done: its *)
(* status, which nothing protects from the unconditional updates, does not *)
(* change again, and no message is sent for it, whatever a lagging replica *)
(* tells the API.                                                          *)
(***************************************************************************)
PinnedPinsAreDone == [][ \A c \in Fits : Settled(c) => Settled(c)' ]_vars
=============================================================================
