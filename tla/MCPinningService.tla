-------------------------- MODULE MCPinningService --------------------------
(***************************************************************************)
(* Small instances of PinningService: the calls are interchangeable.       *)
(***************************************************************************)
EXTENDS PinningService, TLC

AnyCall == Permutations(Calls)
=============================================================================
