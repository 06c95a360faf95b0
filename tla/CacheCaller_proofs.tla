-------------------------- MODULE CacheCaller_proofs --------------------------
(***************************************************************************)
(* The paged KV cache under any caller: conservation of blocks, failure    *)
(* atomicity, disjoint slots, and the refinement of BlockOwnership.        *)
(***************************************************************************)
EXTENDS CacheCaller, KVCache_proofs

\* One call of the caller preserves the invariant.
LEMMA NextCacheInv == CacheInv /\ [CacheNext]_cacheVars => CacheInv'
<1> SUFFICES ASSUME CacheInv, [CacheNext]_cacheVars PROVE CacheInv'
  OBVIOUS
<1>1. CASE UNCHANGED cacheVars
  BY <1>1, UnchangedCacheInv DEF cacheVars, CacheInv, CacheTypeOK
<1>2. ASSUME NEW r \in Ids, Create(r) PROVE CacheInv'
  BY <1>2, CreateCacheInv
<1>3. ASSUME NEW r \in Ids, NEW t \in Targets, Reserve(r, t) PROVE CacheInv'
  BY <1>3, ReserveCacheInv, TargetsAreCounts
<1>4. ASSUME NEW r \in Ids, Release(r) PROVE CacheInv'
  BY <1>4, ReleaseCacheInv
<1> QED
  BY <1>1, <1>2, <1>3, <1>4 DEF CacheNext

\* In every state of every caller, the pool and the tables are well typed and
\* each physical block is free exactly once or in exactly one place of one
\* request's block table (BlockPool and KVCacheManager).
THEOREM CacheSafety == CacheSpec => [](CacheTypeOK /\ BlocksConserved)
<1>1. CacheInit => CacheInv
  BY InitCacheInv
<1>2. CacheInv /\ [CacheNext]_cacheVars => CacheInv'
  BY NextCacheInv
<1>3. CacheInv => CacheTypeOK /\ BlocksConserved
  BY DEF CacheInv
<1> QED
  BY <1>1, <1>2, <1>3, PTL DEF CacheSpec

\* The free list, the used set and the tables keep their types, and exc is an
\* outcome the code can have.
THEOREM CacheTypes == CacheSpec => []CacheTypeOK
<1>1. CacheTypeOK /\ BlocksConserved => CacheTypeOK
  OBVIOUS
<1> QED
  BY <1>1, CacheSafety, PTL

\* A call of create, reserve or release that raises has changed nothing, and
\* release never raises at all.
THEOREM FailureAtomicity == CacheSpec => FailedCallsChangeNothing
<1>1. ASSUME CacheInv, [CacheNext]_cacheVars
      PROVE  [exc' # "none" => UNCHANGED <<free, used, tables>>]_cacheVars
  <2>1. ASSUME NEW r \in Ids, Create(r), exc' # "none" PROVE UNCHANGED <<free, used, tables>>
    BY <2>1 DEF Create, Raise
  <2>2. ASSUME NEW r \in Ids, NEW t \in Targets, Reserve(r, t), exc' # "none"
        PROVE  UNCHANGED <<free, used, tables>>
    BY <2>2 DEF Reserve, Raise
  <2>3. ASSUME NEW r \in Ids, Release(r) PROVE exc' = "none"
    BY <1>1, <2>3, ReleaseCacheInv
  <2> QED
    BY <1>1, <2>1, <2>2, <2>3 DEF CacheNext
<1>2. CacheInit => CacheInv
  BY InitCacheInv
<1>3. CacheInv /\ [CacheNext]_cacheVars => CacheInv'
  BY NextCacheInv
<1> QED
  BY <1>1, <1>2, <1>3, PTL DEF CacheSpec, FailedCallsChangeNothing

\* No two (request, position) pairs are ever mapped to the same physical slot
\* (KVCacheManager.slots), for every block size and every number of blocks.
THEOREM SlotSafety == CacheSpec => []SlotsDisjoint
<1>1. CacheInit => CacheInv
  BY InitCacheInv
<1>2. CacheInv /\ [CacheNext]_cacheVars => CacheInv'
  BY NextCacheInv
<1>3. CacheInv => SlotsDisjoint
  BY ConservedSlotsDisjoint
<1> QED
  BY <1>1, <1>2, <1>3, PTL DEF CacheSpec

-----------------------------------------------------------------------------
(* Refinement of BlockOwnership. *)

\* The instance counts sets the way this module does.
LEMMA SameCardinality ==
    ASSUME NEW S
    PROVE  Ownership!Cardinality(S) = Cardinality(S)
BY Zenon DEF Ownership!Cardinality, Cardinality

\* The abstract counts are the lengths the code looks at.
LEMMA OwnershipCounts ==
    ASSUME CacheInv
    PROVE  /\ Ownership!Unowned = Range(free)
           /\ Ownership!Cardinality(Ownership!Unowned) = Len(free)
           /\ \A r \in DOMAIN tables :
                /\ Ownership!OwnedBy(r) = Range(tables[r])
                /\ Ownership!Cardinality(Ownership!OwnedBy(r)) = Len(tables[r])
<1>1. Ownership!Unowned = Range(free)
  <2>1. Ownership!Unowned = Blocks \ TableBlocks
    BY DEF Ownership!Unowned, Owners, TableBlocks
  <2> QED
    BY <2>1 DEF CacheInv, BlocksConserved
<1>2. Cardinality(Range(free)) = Len(free)
  BY DistinctListCardinality DEF CacheInv, CacheTypeOK, BlocksConserved, FreeListDistinct
<1>3. ASSUME NEW r \in DOMAIN tables
      PROVE  /\ Ownership!OwnedBy(r) = Range(tables[r])
             /\ Cardinality(Range(tables[r])) = Len(tables[r])
  <2>1. tables[r] \in Seq(Blocks)
    BY DEF CacheInv, CacheTypeOK
  <2>2. Range(tables[r]) \subseteq Blocks
    BY <2>1 DEF Range
  <2>3. Ownership!OwnedBy(r) = Range(tables[r])
    BY <2>2 DEF Ownership!OwnedBy, Owners
  <2>4. \A i, j \in DOMAIN tables[r] : tables[r][i] = tables[r][j] => i = j
    BY DEF CacheInv, BlocksConserved, TablesDisjoint
  <2> QED
    BY <2>1, <2>3, <2>4, DistinctListCardinality
<1> QED
  BY <1>1, <1>2, <1>3, SameCardinality

\* The number of blocks the code allocates is what the owner lacks.
LEMMA NeededIsLacking ==
    ASSUME CacheInv, NEW r \in DOMAIN tables, NEW t \in Nat
    PROVE  BlocksNeeded(r, t) = Ownership!Lacks(r, CeilDiv(t, BlockSize))
<1>1. Ownership!Cardinality(Ownership!OwnedBy(r)) = Len(tables[r])
  BY OwnershipCounts
<1>2. Len(tables[r]) \in Nat
  BY DEF CacheInv, CacheTypeOK
<1>3. CeilDiv(t, BlockSize) \in Int
  BY Geometry DEF CeilDiv
<1> QED
  BY <1>1, <1>2, <1>3 DEF BlocksNeeded, Ownership!Lacks, NatMax

\* At the start nobody owns a block.
LEMMA OwnershipInit == CacheInit => Ownership!Init
<1> SUFFICES ASSUME CacheInit PROVE Ownership!Init
  OBVIOUS
<1>1. DOMAIN tables = {} /\ exc = "none"
  BY DEF CacheInit
<1>2. Owners = [b \in Blocks |-> {}]
  BY <1>1 DEF Owners
<1>3. Outcome = "ok"
  BY <1>1 DEF Outcome
<1> QED
  BY <1>1, <1>2, <1>3 DEF Ownership!Init

\* create opens an account without blocks, or is refused.
LEMMA CreateRefines ==
    ASSUME NEW r \in Ids, Create(r)
    PROVE  Ownership!Open(r) \/ Ownership!Refuse(r)
<1>1. CASE Raise("table exists")
  <2>1. tables' = tables /\ exc' = "table exists"
    BY <1>1 DEF Raise
  <2>2. Outcome' = "refused"
    BY <2>1 DEF Outcome
  <2>3. Owners' = Owners
    BY <2>1 DEF Owners
  <2> QED
    BY <2>1, <2>2, <2>3 DEF Ownership!Refuse
<1>2. CASE /\ r \notin DOMAIN tables
           /\ tables' = [x \in DOMAIN tables \cup {r} |->
                            IF x = r THEN <<>> ELSE tables[x]]
           /\ exc' = "none"
  <2>1. DOMAIN tables' = DOMAIN tables \cup {r} /\ Range(tables'[r]) = {}
    BY <1>2 DEF Range
  <2>2. \A x \in DOMAIN tables : tables'[x] = tables[x]
    BY <1>2
  <2>3. \A b \in Blocks : {x \in DOMAIN tables' : b \in Range(tables'[x])}
                             = {x \in DOMAIN tables : b \in Range(tables[x])}
    BY <2>1, <2>2
  <2>4. Owners' = Owners
    BY <2>3 DEF Owners
  <2>5. Outcome' = "ok"
    BY <1>2 DEF Outcome
  <2> QED
    BY <1>2, <2>1, <2>4, <2>5 DEF Ownership!Open
<1> QED
  BY <1>1, <1>2 DEF Create

\* reserve hands over the missing blocks, or says that too few are left, or is refused.
LEMMA ReserveRefines ==
    ASSUME CacheInv, NEW r \in Ids, NEW t \in Nat, Reserve(r, t)
    PROVE  LET n == CeilDiv(t, BlockSize)
           IN  Ownership!Grow(r, n) \/ Ownership!Full(r, n) \/ Ownership!Refuse(r)
<1> DEFINE n == CeilDiv(t, BlockSize)
<1>1. CASE Raise("KeyError")
  <2>1. tables' = tables /\ exc' = "KeyError"
    BY <1>1 DEF Raise
  <2>2. Outcome' = "refused"
    BY <2>1 DEF Outcome
  <2>3. Owners' = Owners
    BY <2>1 DEF Owners
  <2> QED
    BY <2>1, <2>2, <2>3 DEF Ownership!Refuse
<1>2. CASE r \in DOMAIN tables /\ ~CanReserve(r, t) /\ Raise("MemoryError")
  <2>1. tables' = tables /\ exc' = "MemoryError"
    BY <1>2 DEF Raise
  <2>2. Outcome' = "full"
    BY <2>1 DEF Outcome
  <2>3. Owners' = Owners
    BY <2>1 DEF Owners
  <2>4. BlocksNeeded(r, t) > Len(free)
    <3>1. BlocksNeeded(r, t) \in Nat
      BY <1>2, BlocksNeededType DEF CacheInv
    <3>2. Len(free) \in Nat
      BY DEF CacheInv, CacheTypeOK
    <3> QED
      BY <1>2, <3>1, <3>2 DEF CanReserve
  <2>5. Ownership!Lacks(r, n) > Ownership!Cardinality(Ownership!Unowned)
    BY <1>2, <2>4, NeededIsLacking, OwnershipCounts
  <2> QED
    BY <1>2, <2>1, <2>2, <2>3, <2>5 DEF Ownership!Full
<1>3. CASE /\ r \in DOMAIN tables
           /\ CanReserve(r, t)
           /\ tables' = [tables EXCEPT ![r] = Extend(@, Popped(BlocksNeeded(r, t)))]
           /\ exc' = "none"
  <2> DEFINE count == BlocksNeeded(r, t)
             got == Popped(count)
             old == tables[r]
  <2>1. count \in Nat /\ count <= Len(free)
    BY <1>3, BlocksNeededType DEF CacheInv, CanReserve
  <2>2. /\ got \in Seq(Blocks) /\ Len(got) = count /\ DOMAIN got = 1 .. count
        /\ \A i, j \in 1 .. count : got[i] = got[j] => i = j
        /\ Range(got) \subseteq Range(free)
    BY <2>1, PopFacts
  <2>3. Ownership!Cardinality(Range(got)) = Ownership!Lacks(r, n)
    <3>1. Ownership!Cardinality(Range(got)) = count
      BY <2>2, DistinctListCardinality, SameCardinality
    <3> QED
      BY <3>1, <1>3, NeededIsLacking
  <2>4. Range(got) \in SUBSET Ownership!Unowned
    BY <2>2, OwnershipCounts
  <2> HIDE DEF count, got
  <2>5. /\ DOMAIN tables' = DOMAIN tables /\ tables'[r] = old \o got
        /\ \A x \in DOMAIN tables : x # r => tables'[x] = tables[x]
    BY <1>3 DEF Extend, got, count
  <2>6. old \in Seq(Blocks)
    BY <1>3 DEF CacheInv, CacheTypeOK
  <2>7. Range(tables'[r]) = Range(old) \cup Range(got)
    BY <2>2, <2>5, <2>6, ConcatRange
  <2>8. ASSUME NEW b \in Blocks
        PROVE  {x \in DOMAIN tables' : b \in Range(tables'[x])}
                 = IF b \in Range(got) THEN {r}
                   ELSE {x \in DOMAIN tables : b \in Range(tables[x])}
    <3>1. CASE b \in Range(got)
      <4>1. \A x \in DOMAIN tables : b \notin Range(tables[x])
        BY <3>1, <2>4 DEF Ownership!Unowned, Owners
      <4> QED
        BY <3>1, <4>1, <2>5, <2>7, <1>3
    <3>2. CASE b \notin Range(got)
      BY <3>2, <2>5, <2>7
    <3> QED
      BY <3>1, <3>2
  <2>9. Owners' = [b \in Blocks |-> IF b \in Range(got) THEN {r} ELSE Owners[b]]
    BY <2>8 DEF Owners
  <2>10. Outcome' = "ok"
    BY <1>3 DEF Outcome
  <2> QED
    BY <1>3, <2>3, <2>4, <2>5, <2>9, <2>10 DEF Ownership!Grow
<1> QED
  BY <1>1, <1>2, <1>3 DEF Reserve

\* release gives everything back and never finds the pool corrupt.
LEMMA ReleaseRefines ==
    ASSUME CacheInv, NEW r \in Ids, Release(r)
    PROVE  Ownership!Close(r)
<1>1. exc' = "none"
  BY ReleaseCacheInv
<1>2. Outcome' = "ok"
  BY <1>1 DEF Outcome
<1>3. DOMAIN tables' = DOMAIN tables \ {r} /\ \A x \in DOMAIN tables' : tables'[x] = tables[x]
  BY DEF Release, Restrict
<1>4. \A b \in Blocks : {x \in DOMAIN tables' : b \in Range(tables'[x])}
                           = {x \in DOMAIN tables : b \in Range(tables[x])} \ {r}
  BY <1>3
<1>5. Owners' = [b \in Blocks |-> Owners[b] \ {r}]
  BY <1>4 DEF Owners
<1> QED
  BY <1>2, <1>3, <1>5 DEF Ownership!Close

\* The cache implements BlockOwnership for every caller: reserve raises
\* MemoryError exactly when too few blocks have no owner, hands out exactly the
\* missing number of blocks that nobody owns, and release returns all of them.
THEOREM CacheRefinesOwnership == CacheSpec => ImplementsOwnership
<1>1. ASSUME CacheInv, [CacheNext]_cacheVars
      PROVE  [Ownership!Next]_(Ownership!vars)
  <2>1. CASE UNCHANGED cacheVars
    <3>1. tables' = tables /\ exc' = exc
      BY <2>1 DEF cacheVars
    <3>2. Owners' = Owners /\ Outcome' = Outcome
      BY <3>1 DEF Owners, Outcome
    <3> QED
      BY <3>1, <3>2 DEF Ownership!vars
  <2>2. ASSUME NEW r \in Ids, Create(r) PROVE Ownership!Next
    BY <2>2, CreateRefines DEF Ownership!Next
  <2>3. ASSUME NEW r \in Ids, NEW t \in Targets, Reserve(r, t) PROVE Ownership!Next
    <3>1. t \in Nat
      BY TargetsAreCounts
    <3>2. CeilDiv(t, BlockSize) \in {CeilDiv(x, BlockSize) : x \in Targets}
      OBVIOUS
    <3> QED
      BY <1>1, <2>3, <3>1, <3>2, ReserveRefines DEF Ownership!Next
  <2>4. ASSUME NEW r \in Ids, Release(r) PROVE Ownership!Next
    BY <1>1, <2>4, ReleaseRefines DEF Ownership!Next
  <2> QED
    BY <1>1, <2>1, <2>2, <2>3, <2>4 DEF CacheNext
<1>2. CacheInit => CacheInv
  BY InitCacheInv
<1>3. CacheInv /\ [CacheNext]_cacheVars => CacheInv'
  BY NextCacheInv
<1>4. CacheInit => Ownership!Init
  BY OwnershipInit
<1> QED
  BY <1>1, <1>2, <1>3, <1>4, PTL DEF CacheSpec, ImplementsOwnership, Ownership!Spec
=============================================================================
