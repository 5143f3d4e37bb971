---------------------------- MODULE MCCarAttempt ----------------------------
(***************************************************************************)
(* Small instances of CarAttempt: DAGs of one, two and three blocks, the   *)
(* last with a block that two others link to.                              *)
(***************************************************************************)
EXTENDS CarAttempt, TLC

CONSTANTS b1, b2, b3

NoLinks == [b \in Blocks |-> {}]
OneChild == (b1 :> {b2}) @@ NoLinks
Diamond == (b1 :> {b2, b3}) @@ (b2 :> {b3}) @@ NoLinks
Chain == (b1 :> {b2}) @@ (b2 :> {b3}) @@ NoLinks

SomeDags == {NoLinks, OneChild, Diamond, Chain}
=============================================================================
