------------------------------- MODULE KVCache -------------------------------
(***************************************************************************)
(* The engine-side paged KV cache of one data-parallel rank: the class     *)
(* BlockPool (a LIFO list of free physical blocks and the set of used      *)
(* ones) and the class KVCacheManager (one block table per request).       *)
(* Source: minivllm/cache.py.                                              *)
(*                                                                         *)
(* The module holds the component's state, its operations and what must    *)
(* stay true of the state.  CacheCaller.tla drives the operations in any   *)
(* order, Scheduler.tla in the order the scheduler does.  An exception is  *)
(* an outcome of a call: exc holds the outcome of the last call.           *)
(***************************************************************************)
EXTENDS Paging, FiniteSetsExt, Functions

CONSTANT
    Ids         \* request ids

VARIABLES
    free,       \* BlockPool._free, a list whose END is the next block to pop
    used,       \* BlockPool._used
    tables,     \* KVCacheManager.tables: id -> list of physical blocks
    exc         \* outcome of the last call: "none" or the exception raised

cacheVars == <<free, used, tables, exc>>

Outcomes == {"none", "MemoryError", "KeyError",
             "table exists",        \* RuntimeError of KVCacheManager.create
             "not allocated"}       \* RuntimeError of BlockPool.free

\* Mutant: block numbers from 1.
CacheInitFromOne ==
    /\ free = [i \in 1 .. NumBlocks |-> NumBlocks - i + 1]
    /\ used = {}
    /\ tables = [r \in {} |-> <<>>]
    /\ exc = "none"

CacheInit ==
    /\ free = [i \in 1 .. NumBlocks |-> NumBlocks - i]
    /\ used = {}
    /\ tables = [r \in {} |-> <<>>]
    /\ exc = "none"

-----------------------------------------------------------------------------
(* Queries. *)

BlocksNeeded(r, target) ==
    NatMax(0, CeilDiv(target, BlockSize) - Len(tables[r]))

CanReserve(r, target) == BlocksNeeded(r, target) <= Len(free)

-----------------------------------------------------------------------------
(* Operations. *)

Raise(e) == exc' = e /\ UNCHANGED <<free, used, tables>>

\* Mutant: hands out blocks from the front of the list and drops the back.
PoppedFromFront(count) == [i \in 1 .. count |-> free[i]]

\* The blocks that count calls of _free.pop() return, in order.
Popped(count) == [i \in 1 .. count |-> free[Len(free) - i + 1]]

\* Mutant: the popped blocks stay on the list.
NotPopped(count) == free

\* What they leave of _free.
LeftAfterPop(count) == SubSeq(free, 1, Len(free) - count)

\* Mutant: the new blocks go to the front of the list.
ExtendInFront(table, got) == got \o table

\* physical_blocks.extend
Extend(table, got) == table \o got

\* BlockPool.free returns the blocks one by one and raises at the first that
\* is not in _used (a second occurrence of a block counts: the first one has
\* just removed it).  The blocks before it stay freed.
Freeable(blocks, n) ==
    \A i \in 1 .. n : /\ blocks[i] \in used
                      /\ \A j \in 1 .. (i - 1) : blocks[j] # blocks[i]

FreedCount(blocks) == Max({n \in 0 .. Len(blocks) : Freeable(blocks, n)})

\* Mutant: forgets the last block.
FreedButLast(blocks) == SubSeq(blocks, 1, Len(blocks) - 1)

FreedPrefix(blocks) == SubSeq(blocks, 1, FreedCount(blocks))

Create(r) ==
    \/ /\ r \in DOMAIN tables
       /\ Raise("table exists")
    \/ /\ r \notin DOMAIN tables
       /\ tables' = [x \in DOMAIN tables \cup {r} |->
                        IF x = r THEN <<>> ELSE tables[x]]
       /\ exc' = "none"
       /\ UNCHANGED <<free, used>>

Reserve(r, target) ==
    \/ /\ r \notin DOMAIN tables
       /\ Raise("KeyError")
    \/ /\ r \in DOMAIN tables
       /\ ~CanReserve(r, target)
       /\ Raise("MemoryError")
    \/ /\ r \in DOMAIN tables
       /\ CanReserve(r, target)
       /\ LET count == BlocksNeeded(r, target)
              got   == Popped(count)
          IN  /\ free' = LeftAfterPop(count)
              /\ used' = used \cup Range(got)
              /\ tables' = [tables EXCEPT ![r] = Extend(@, got)]
       /\ exc' = "none"

Release(r) ==
    \/ /\ r \notin DOMAIN tables
       /\ exc' = "none"
       /\ UNCHANGED <<free, used, tables>>
    \/ /\ r \in DOMAIN tables
       /\ LET freed == FreedPrefix(tables[r])
          IN  /\ free' = free \o freed
              /\ used' = used \ Range(freed)
              /\ exc' = IF Len(freed) = Len(tables[r]) THEN "none"
                                                       ELSE "not allocated"
       /\ tables' = Restrict(tables, DOMAIN tables \ {r})

-----------------------------------------------------------------------------
(* Properties. *)

\* Every variable keeps the type its Python attribute has: _free and the
\* tables are lists of block numbers, _used is a set of them.
CacheTypeOK ==
    /\ free \in Seq(Blocks)
    /\ used \subseteq Blocks
    /\ DOMAIN tables \subseteq Ids
    /\ tables \in [DOMAIN tables -> Seq(Blocks)]
    /\ exc \in Outcomes

\* No block is twice on the free list (BlockPool.free appends without looking).
FreeListDistinct ==
    \A i, j \in DOMAIN free : free[i] = free[j] => i = j

\* No block is at two places of the block tables, of one request or of two.
TablesDisjoint ==
    \A r, s \in DOMAIN tables :
        \A i \in DOMAIN tables[r], j \in DOMAIN tables[s] :
            tables[r][i] = tables[s][j] => r = s /\ i = j

TableBlocks == {b \in Blocks : \E r \in DOMAIN tables : b \in Range(tables[r])}

\* Blocks are conserved and exclusive: each physical block is either on the
\* free list exactly once, or used and in exactly one place of one block table,
\* whatever sequence of create, reserve and release calls was made.
BlocksConserved ==
    /\ FreeListDistinct
    /\ TablesDisjoint
    /\ used = TableBlocks
    /\ Range(free) = Blocks \ used

\* Two different (request, position) pairs never share a slot of the physical
\* cache, so no token's K/V overwrites another's (KVCacheManager.slots).
SlotsDisjoint ==
    \A r, s \in DOMAIN tables :
        \A p \in 0 .. (Room(tables[r]) - 1), q \in 0 .. (Room(tables[s]) - 1) :
            Slot(tables[r], p) = Slot(tables[s], q) => r = s /\ p = q
=============================================================================
