------------------------------ MODULE CarCheck ------------------------------
(***************************************************************************)
(* What verify asks of a CAR before it copies it (pickup/lib/s3.js,        *)
(* pickup/lib/car.js): that it can be read, has a block, and that every    *)
(* link of its blocks leads to one of its blocks. Nothing asks whether     *)
(* the root of the DAG is one of them.                                     *)
(*                                                                         *)
(* A DAG is the function that gives the links of each block. All blocks    *)
(* are of one size, so the bytes of a CAR tell how many it holds.          *)
(***************************************************************************)
EXTENDS Naturals, FiniteSets

CONSTANTS
  Blocks,
  Root,         \* the block whose CID is the pin's cid
  HeaderBytes,  \* the size of the header of a CAR
  BlockBytes    \* the size of a block

ASSUME CarCheckConstants ==
  /\ Root \in Blocks
  /\ HeaderBytes \in Nat \ {0} /\ BlockBytes \in Nat \ {0}

Links == [Blocks -> SUBSET Blocks]

Closed(links, S) == \A b \in S : links[b] \subseteq S

\* The blocks of the DAG: what is in every closed set that has the root.
Dag(links) ==
  {b \in Blocks : \A S \in SUBSET Blocks :
                    Root \in S /\ Closed(links, S) => b \in S}

\* The size of a CAR of n blocks, and how many blocks are whole in a part.
CarBytes(n) == HeaderBytes + n * BlockBytes
WholeBlocks(bytes) ==
  IF bytes < HeaderBytes THEN 0 ELSE (bytes - HeaderBytes) \div BlockBytes

\* linkdex reads all blocks, or throws on a header or a block that is cut.
Readable(bytes) ==
  bytes >= HeaderBytes /\ (bytes - HeaderBytes) % BlockBytes = 0

\* The report of linkdex on the blocks it was given.
Report(links, blocks) ==
  [blocksIndexed |-> Cardinality(blocks),
   structure     |-> IF Closed(links, blocks) THEN "Complete" ELSE "Partial"]

\* Mutation: an empty CAR, which has no missing link, passes.
AcceptsEmpty(links, blocks, bytes) ==
  /\ Readable(bytes)
  /\ Report(links, blocks).structure = "Complete"

Accepts(links, blocks, bytes) ==
  /\ Readable(bytes)
  /\ Report(links, blocks).blocksIndexed # 0
  /\ Report(links, blocks).structure = "Complete"
=============================================================================
