-------------------------------- MODULE Paging --------------------------------
(***************************************************************************)
(* The geometry of one rank's paged KV cache and its address arithmetic,   *)
(* which the engine (cache.py) and the Worker (worker/batch.py) each carry *)
(* out for themselves.                                                     *)
(***************************************************************************)
EXTENDS Integers, Sequences

CONSTANTS
    NumBlocks,  \* EngineConfig.num_gpu_blocks
    BlockSize   \* EngineConfig.block_size

\* EngineConfig.__post_init__ refuses anything else.
ASSUME Geometry ==
    /\ NumBlocks \in Nat \ {0}
    /\ BlockSize \in Nat \ {0}

Blocks == 0 .. (NumBlocks - 1)

Slots == 0 .. (NumBlocks * BlockSize - 1)

CeilDiv(a, b) == (a + b - 1) \div b

NatMin(a, b) == IF a <= b THEN a ELSE b

NatMax(a, b) == IF a >= b THEN a ELSE b

\* Mutant: an offset as if blocks were one token wider.
SlotWideOffset(table, position) ==
    table[(position \div BlockSize) + 1] * BlockSize + (position % (BlockSize + 1))

\* The slot of the token at a (0-based) position, through a block table.
Slot(table, position) ==
    table[(position \div BlockSize) + 1] * BlockSize + (position % BlockSize)

\* How many tokens a table has room for.
Room(table) == Len(table) * BlockSize
=============================================================================
