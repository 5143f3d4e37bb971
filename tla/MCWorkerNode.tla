---------------------------- MODULE MCWorkerNode ----------------------------
(***************************************************************************)
(* A small instance of WorkerNode: two messages that share an origin.      *)
(***************************************************************************)
EXTENDS WorkerNode, TLC

CONSTANTS m1, m2, o1, o2

SharedOrigin == (m1 :> <<o1>>) @@ (m2 :> <<o2, o1>>)
=============================================================================
