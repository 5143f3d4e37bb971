-------------------------- MODULE PickupDelegates --------------------------
(***************************************************************************)
(* What the delegates of an answer are worth. Pickup does not keep which   *)
(* workers a message was delivered to; this module adds that, as a history *)
(* variable, which no action depends on.                                   *)
(***************************************************************************)
EXTENDS PickupExclusion

VARIABLE heard   \* cid -> the workers that have received a message for it

delegateVars == <<vars, heard>>

\* The free slot s is given a message for c.
GetsMessage(s, c) == ~Busy(s) /\ Busy(s)' /\ JobCid(s)' = c

DelegateInit == Init /\ heard = [c \in Cids |-> {}]

DelegateNext ==
  /\ Next
  /\ heard' = [c \in Cids |->
       heard[c] \cup {WorkerOf[s] : s \in {t \in Slots : GetsMessage(t, c)}}]

DelegateSpec == DelegateInit /\ [][DelegateNext]_delegateVars

-----------------------------------------------------------------------------
(***************************************************************************)
(* The delegates a request answers with are workers that themselves had a  *)
(* message for its cid: nobody is told to connect to one that never heard  *)
(* of the pin. The record is shared by all attempts and read from a        *)
(* lagging replica, so it need not be a message of this attempt.           *)
(***************************************************************************)
DelegatesHadMessage == \A r \in Requests : response[r] \subseteq heard[CidOf[r]]
=============================================================================
