---------------------------- MODULE PinLifecycle ----------------------------
(***************************************************************************)
(* What the API shows of a pin, and all a client may rely on: a pin is     *)
(* asked for, and is queued until it is pinned or failed. A queued pin is  *)
(* never forgotten, only a failed pin is queued again, and a pin is only   *)
(* ever reported as pinned once its CAR has been copied to the             *)
(* destination bucket. A pinned pin may still be reported as failed: the   *)
(* message of a pin that is done can reach the dead letter queue.          *)
(***************************************************************************)
CONSTANT Cids

VARIABLES
  status,   \* cid -> the status of its pin, "unknown" before it is asked for
  stored    \* cid -> a CAR was copied to the destination bucket

lifecycleVars == <<status, stored>>

Init ==
  /\ status = [c \in Cids |-> "unknown"]
  /\ stored = [c \in Cids |-> FALSE]

Become(c, st) ==
  /\ status' = [status EXCEPT ![c] = st]
  /\ UNCHANGED stored

Ask(c) ==
  /\ status[c] \in {"unknown", "failed"}
  /\ Become(c, "queued")

Store(c) ==
  /\ status[c] # "unknown"
  /\ stored' = [stored EXCEPT ![c] = TRUE]
  /\ UNCHANGED status

Pin(c) ==
  /\ status[c] # "unknown"
  /\ stored[c]
  /\ Become(c, "pinned")

Fail(c) ==
  /\ status[c] # "unknown"
  /\ Become(c, "failed")

Settle(c) ==
  /\ status[c] = "queued"
  /\ Pin(c) \/ Fail(c)

Next == \E c \in Cids : Ask(c) \/ Store(c) \/ Pin(c) \/ Fail(c)

Spec == Init /\ [][Next]_lifecycleVars

FairSpec == Spec /\ \A c \in Cids : WF_lifecycleVars(Settle(c))
=============================================================================
