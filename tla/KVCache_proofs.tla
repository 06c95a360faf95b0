---------------------------- MODULE KVCache_proofs ----------------------------
(***************************************************************************)
(* What each operation of the paged KV cache preserves, for any number and *)
(* size of blocks and any set of request ids.  BlocksConserved together    *)
(* with the type invariant is inductive.  Each operation has a lemma of    *)
(* its own: CacheCaller_proofs cites them for a caller that makes any call *)
(* at any time, EngineCore_proofs for the calls the scheduler makes.       *)
(***************************************************************************)
EXTENDS KVCache, Basics_proofs, FunctionTheorems

CacheInv == CacheTypeOK /\ BlocksConserved

-----------------------------------------------------------------------------
(* Address arithmetic and counts. *)

\* Appending a list adds its elements.
LEMMA ConcatRange ==
    ASSUME NEW T, NEW a \in Seq(T), NEW b \in Seq(T)
    PROVE  Range(a \o b) = Range(a) \cup Range(b)
<1> DEFINE n == Len(a)
           m == Len(b)
           c == a \o b
<1>1. n \in Nat /\ DOMAIN a = 1 .. n /\ m \in Nat /\ DOMAIN b = 1 .. m
  OBVIOUS
<1>2. /\ DOMAIN c = 1 .. (n + m)
      /\ \A i \in 1 .. n : c[i] = a[i]
      /\ \A i \in (n + 1) .. (n + m) : i - n \in 1 .. m /\ c[i] = b[i - n]
  BY ConcatProperties
<1> HIDE DEF n, m, c
<1>3. ASSUME NEW i \in 1 .. m PROVE n + i \in DOMAIN c /\ c[n + i] = b[i]
  <2>1. n + i \in (n + 1) .. (n + m) /\ (n + i) - n = i
    BY <1>1
  <2> QED
    BY <2>1, <1>1, <1>2
<1>4. ASSUME NEW i \in 1 .. n PROVE i \in DOMAIN c /\ c[i] = a[i]
  BY <1>1, <1>2
<1>5. ASSUME NEW k \in DOMAIN c
      PROVE  \/ k \in 1 .. n /\ c[k] = a[k]
             \/ k - n \in 1 .. m /\ c[k] = b[k - n]
  <2>1. k \in 1 .. n \/ k \in (n + 1) .. (n + m)
    BY <1>1, <1>2
  <2> QED
    BY <2>1, <1>2
<1>6. Range(c) = Range(a) \cup Range(b)
  BY <1>1, <1>3, <1>4, <1>5 DEF Range
<1> QED
  BY <1>6 DEF c

\* The number of blocks a table lacks is a natural number.
LEMMA BlocksNeededType ==
    ASSUME NEW r \in DOMAIN tables, NEW t \in Nat, CacheTypeOK
    PROVE  BlocksNeeded(r, t) \in Nat
<1>1. tables[r] \in Seq(Blocks)
  BY DEF CacheTypeOK
<1>2. Len(tables[r]) \in Nat
  BY <1>1
<1>3. CeilDiv(t, BlockSize) \in Int
  BY Geometry DEF CeilDiv
<1> QED
  BY <1>2, <1>3 DEF BlocksNeeded, NatMax

-----------------------------------------------------------------------------
(* The initial state. *)

\* At the start every block is on the free list, once.
LEMMA InitCacheInv == CacheInit => CacheInv
<1> SUFFICES ASSUME CacheInit PROVE CacheInv
  OBVIOUS
<1> USE Geometry DEF CacheInit, Blocks
<1>1. /\ free \in Seq(Blocks)
      /\ Len(free) = NumBlocks
      /\ DOMAIN free = 1 .. NumBlocks
      /\ \A i \in 1 .. NumBlocks : free[i] = NumBlocks - i
  OBVIOUS
<1>2. DOMAIN tables = {}
  OBVIOUS
<1>3. CacheTypeOK
  BY <1>1, <1>2 DEF CacheTypeOK, Outcomes
<1>4. FreeListDistinct
  BY <1>1 DEF FreeListDistinct
<1>5. TablesDisjoint /\ used = TableBlocks
  BY <1>2 DEF TablesDisjoint, TableBlocks
<1>6. Range(free) = Blocks \ used
  <2>1. ASSUME NEW b \in Blocks PROVE b \in Range(free)
    <3>1. NumBlocks - b \in 1 .. NumBlocks /\ free[NumBlocks - b] = b
      BY <1>1
    <3> QED
      BY <3>1, <1>1 DEF Range
  <2>2. Range(free) \subseteq Blocks
    BY <1>1 DEF Range
  <2> QED
    BY <2>1, <2>2
<1> QED
  BY <1>3, <1>4, <1>5, <1>6 DEF CacheInv, BlocksConserved

-----------------------------------------------------------------------------
(* Calls that leave the pool and the tables alone. *)

\* A call that raises, or no call.
LEMMA UnchangedCacheInv ==
    ASSUME CacheInv, UNCHANGED <<free, used, tables>>, exc' \in Outcomes
    PROVE  CacheInv'
<1>1. CacheTypeOK'
  BY DEF CacheInv, CacheTypeOK
<1>2. FreeListDistinct'
  BY DEF CacheInv, BlocksConserved, FreeListDistinct
<1>3. TablesDisjoint'
  BY DEF CacheInv, BlocksConserved, TablesDisjoint
<1>4. TableBlocks' = TableBlocks
  BY DEF TableBlocks
<1>5. Range(free)' = Range(free)
  OBVIOUS
<1> QED
  BY <1>1, <1>2, <1>3, <1>4, <1>5 DEF CacheInv, BlocksConserved

-----------------------------------------------------------------------------
(* create *)

\* create keeps the invariant.
LEMMA CreateCacheInv ==
    ASSUME NEW r \in Ids, CacheInv, Create(r)
    PROVE  CacheInv'
<1>1. CASE Raise("table exists")
  BY <1>1, UnchangedCacheInv DEF Raise, Outcomes
<1>2. CASE /\ r \notin DOMAIN tables
           /\ tables' = [x \in DOMAIN tables \cup {r} |->
                            IF x = r THEN <<>> ELSE tables[x]]
           /\ exc' = "none"
           /\ UNCHANGED <<free, used>>
  <2>1. DOMAIN tables' = DOMAIN tables \cup {r} /\ tables'[r] = <<>>
    BY <1>2
  <2>2. \A x \in DOMAIN tables : x # r /\ tables'[x] = tables[x]
    BY <1>2
  <2>3. CacheTypeOK'
    <3>1. \A x \in DOMAIN tables : tables[x] \in Seq(Blocks)
      BY DEF CacheInv, CacheTypeOK
    <3>2. \A x \in DOMAIN tables' : tables'[x] \in Seq(Blocks)
      <4>1. <<>> \in Seq(Blocks)
        OBVIOUS
      <4> QED
        BY <2>1, <2>2, <3>1, <4>1
    <3>3. tables' \in [DOMAIN tables' -> Seq(Blocks)]
      BY <1>2, <3>2
    <3> QED
      BY <1>2, <2>1, <3>3 DEF CacheInv, CacheTypeOK, Outcomes
  <2>4. DOMAIN tables'[r] = {} /\ Range(tables'[r]) = {}
    BY <2>1 DEF Range
  <2>5. FreeListDistinct'
    BY <1>2 DEF CacheInv, BlocksConserved, FreeListDistinct
  <2>6. TablesDisjoint'
    BY <2>1, <2>2, <2>4 DEF CacheInv, BlocksConserved, TablesDisjoint
  <2>7. TableBlocks' = TableBlocks
    BY <2>1, <2>2, <2>4 DEF TableBlocks
  <2> QED
    BY <1>2, <2>3, <2>5, <2>6, <2>7 DEF CacheInv, BlocksConserved
<1> QED
  BY <1>1, <1>2 DEF Create

-----------------------------------------------------------------------------
(* reserve *)

\* What popping count blocks off the end of the free list gives and leaves: the
\* two parts are disjoint and make up the list, and none of them is used.
LEMMA PopFacts ==
    ASSUME CacheInv, NEW count \in Nat, count <= Len(free)
    PROVE  LET got == Popped(count)  left == LeftAfterPop(count)
           IN  /\ got \in Seq(Blocks) /\ Len(got) = count /\ DOMAIN got = 1 .. count
               /\ \A i, j \in 1 .. count : got[i] = got[j] => i = j
               /\ left \in Seq(Blocks) /\ Len(left) = Len(free) - count
               /\ \A i \in DOMAIN left : i \in DOMAIN free /\ left[i] = free[i]
               /\ Range(left) = Range(free) \ Range(got)
               /\ Range(got) \subseteq Blocks \ used
               /\ Range(got) \subseteq Range(free)
<1> DEFINE got == Popped(count)
           left == LeftAfterPop(count)
           n == Len(free)
<1>1. free \in Seq(Blocks) /\ n \in Nat /\ DOMAIN free = 1 .. n
  BY DEF CacheInv, CacheTypeOK
<1>2. \A i \in 1 .. n : free[i] \in Blocks
  BY <1>1
<1>3. \A i \in 1 .. count : n - i + 1 \in 1 .. n /\ got[i] = free[n - i + 1]
  BY <1>1 DEF Popped
<1>4. got = [i \in 1 .. count |-> free[n - i + 1]]
  BY DEF Popped
<1>5. \A i \in 1 .. count : free[n - i + 1] \in Blocks
  BY <1>2, <1>3
<1>6. got \in Seq(Blocks) /\ Len(got) = count /\ DOMAIN got = 1 .. count
  BY <1>4, <1>5
<1>7. \A i, j \in 1 .. count : got[i] = got[j] => i = j
  BY <1>1, <1>3 DEF CacheInv, BlocksConserved, FreeListDistinct
<1>8. /\ left \in Seq(Blocks) /\ Len(left) = n - count
      /\ \A i \in 1 .. (n - count) : left[i] = free[i]
  <2>1. n - count \in Nat /\ \A i \in 1 .. (n - count) : free[i] \in Blocks
    BY <1>1, <1>2
  <2>2. left = SubSeq(free, 1, n - count)
    BY DEF LeftAfterPop
  <2> HIDE DEF left, n
  <2>3. /\ left \in Seq(Blocks)
        /\ Len(left) = IF 1 <= n - count THEN n - count - 1 + 1 ELSE 0
        /\ \A i \in 1 .. (n - count - 1 + 1) : left[i] = free[1 + i - 1]
    BY <2>1, <2>2, SubSeqProperties
  <2> QED
    BY <2>1, <2>3
<1>9. DOMAIN left = 1 .. (n - count)
  BY <1>8
<1>10. \A i \in DOMAIN left : i \in DOMAIN free /\ left[i] = free[i]
  BY <1>1, <1>8, <1>9
<1>11. Range(got) \subseteq Range(free)
  BY <1>1, <1>3, <1>6 DEF Range
<1>12. Range(left) = Range(free) \ Range(got)
  <2>1. ASSUME NEW b \in Range(left) PROVE b \in Range(free) /\ b \notin Range(got)
    <3>1. PICK i \in 1 .. (n - count) : b = left[i]
      BY <1>9 DEF Range
    <3>2. i \in DOMAIN free /\ b = free[i]
      BY <3>1, <1>9, <1>10
    <3>3. ASSUME NEW j \in 1 .. count, got[j] = b PROVE FALSE
      <4>1. n - j + 1 \in DOMAIN free /\ free[n - j + 1] = free[i]
        BY <3>3, <3>2, <1>1, <1>3
      <4>2. n - j + 1 = i
        BY <4>1, <3>2 DEF CacheInv, BlocksConserved, FreeListDistinct
      <4> QED
        BY <4>2, <3>1, <1>1
    <3> QED
      BY <3>2, <3>3, <1>6 DEF Range
  <2>2. ASSUME NEW b \in Range(free), b \notin Range(got) PROVE b \in Range(left)
    <3>1. PICK i \in 1 .. n : b = free[i]
      BY <1>1 DEF Range
    <3>2. CASE i <= n - count
      BY <3>1, <3>2, <1>1, <1>8, <1>9 DEF Range
    <3>3. CASE i > n - count
      <4>1. n - i + 1 \in 1 .. count /\ got[n - i + 1] = free[i]
        BY <3>1, <3>3, <1>1, <1>3
      <4>2. b \in Range(got)
        BY <4>1, <3>1, <1>6 DEF Range
      <4> QED
        BY <4>2, <2>2
    <3> QED
      BY <3>1, <3>2, <3>3, <1>1
  <2> QED
    BY <2>1, <2>2
<1>13. Range(got) \subseteq Blocks \ used
  BY <1>11 DEF CacheInv, BlocksConserved
<1> QED
  BY <1>1, <1>6, <1>7, <1>8, <1>10, <1>11, <1>12, <1>13

\* A block in a table is used.
LEMMA TabledIsUsed ==
    ASSUME CacheInv, NEW r \in DOMAIN tables, NEW i \in DOMAIN tables[r]
    PROVE  tables[r][i] \in used /\ tables[r][i] \in Blocks
<1>1. tables[r] \in Seq(Blocks)
  BY DEF CacheInv, CacheTypeOK
<1>2. tables[r][i] \in Blocks
  BY <1>1
<1>3. tables[r][i] \in Range(tables[r])
  BY DEF Range
<1> QED
  BY <1>2, <1>3 DEF CacheInv, BlocksConserved, TableBlocks

\* reserve keeps it: what it takes was on the free list and in no table.
LEMMA ReserveCacheInv ==
    ASSUME NEW r \in Ids, NEW t \in Nat, CacheInv, Reserve(r, t)
    PROVE  CacheInv'
<1>1. CASE Raise("KeyError") \/ Raise("MemoryError")
  BY <1>1, UnchangedCacheInv DEF Raise, Outcomes
<1>2. CASE /\ r \in DOMAIN tables
           /\ CanReserve(r, t)
           /\ free' = LeftAfterPop(BlocksNeeded(r, t))
           /\ used' = used \cup Range(Popped(BlocksNeeded(r, t)))
           /\ tables' = [tables EXCEPT ![r] = Extend(@, Popped(BlocksNeeded(r, t)))]
           /\ exc' = "none"
  <2> DEFINE count == BlocksNeeded(r, t)
             got == Popped(count)
             old == tables[r]
             n == Len(old)
  <2>1. count \in Nat /\ count <= Len(free)
    BY <1>2, BlocksNeededType DEF CacheInv, CanReserve
  <2>2. /\ got \in Seq(Blocks) /\ Len(got) = count /\ DOMAIN got = 1 .. count
        /\ \A i, j \in 1 .. count : got[i] = got[j] => i = j
        /\ free' \in Seq(Blocks)
        /\ \A i \in DOMAIN free' : i \in DOMAIN free /\ free'[i] = free[i]
        /\ Range(free') = Range(free) \ Range(got)
        /\ Range(got) \subseteq Blocks \ used
    BY <1>2, <2>1, PopFacts
  <2> HIDE DEF count, got
  <2>3. old \in Seq(Blocks) /\ n \in Nat /\ DOMAIN old = 1 .. n
    BY <1>2 DEF CacheInv, CacheTypeOK
  <2>4. /\ DOMAIN tables' = DOMAIN tables
        /\ tables'[r] = old \o got
        /\ \A x \in DOMAIN tables : x # r => tables'[x] = tables[x]
    BY <1>2 DEF Extend, got, count
  <2>5. /\ tables'[r] \in Seq(Blocks) /\ DOMAIN tables'[r] = 1 .. (n + count)
        /\ \A i \in 1 .. n : tables'[r][i] = old[i]
        /\ \A i \in (n + 1) .. (n + count) : i - n \in 1 .. count /\ tables'[r][i] = got[i - n]
    BY <2>1, <2>2, <2>3, <2>4, ConcatProperties
  <2>6. CacheTypeOK'
    <3>1. \A x \in DOMAIN tables' : tables'[x] \in Seq(Blocks)
      BY <2>4, <2>5 DEF CacheInv, CacheTypeOK
    <3>2. tables' \in [DOMAIN tables' -> Seq(Blocks)]
      BY <1>2, <3>1
    <3> QED
      BY <1>2, <2>2, <2>4, <3>2 DEF CacheInv, CacheTypeOK, Outcomes, got, count
  <2>7. FreeListDistinct'
    BY <2>2 DEF CacheInv, BlocksConserved, FreeListDistinct
  <2>8. \A i \in DOMAIN got : got[i] \in Range(got) /\ got[i] \notin used
    BY <2>2 DEF Range
  <2>9. TablesDisjoint'
    <3> SUFFICES ASSUME NEW x \in DOMAIN tables, NEW y \in DOMAIN tables,
                        NEW i \in DOMAIN tables'[x], NEW j \in DOMAIN tables'[y],
                        tables'[x][i] = tables'[y][j]
                 PROVE  x = y /\ i = j
      BY <2>4 DEF TablesDisjoint
    <3> DEFINE IsNew(z, k) == z = r /\ k > n
    <3>1. ASSUME NEW z \in DOMAIN tables, NEW k \in DOMAIN tables'[z], ~IsNew(z, k)
          PROVE  k \in DOMAIN tables[z] /\ tables'[z][k] = tables[z][k] /\ tables'[z][k] \in used
      <4>1. k \in DOMAIN tables[z] /\ tables'[z][k] = tables[z][k]
        BY <3>1, <2>1, <2>3, <2>4, <2>5
      <4> QED
        BY <4>1, TabledIsUsed
    <3>2. ASSUME NEW z \in DOMAIN tables, NEW k \in DOMAIN tables'[z], IsNew(z, k)
          PROVE  k - n \in 1 .. count /\ tables'[z][k] = got[k - n] /\ tables'[z][k] \notin used
      BY SMTT(30), <3>2, <2>1, <2>2, <2>3, <2>5, <2>8
    <3>3. CASE ~IsNew(x, i) /\ ~IsNew(y, j)
      BY <3>3, <3>1 DEF CacheInv, BlocksConserved, TablesDisjoint
    <3>4. CASE IsNew(x, i) /\ IsNew(y, j)
      <4>1. i - n = j - n
        BY <3>4, <3>2, <2>2
      <4> QED
        BY <4>1, <3>4, <2>1, <2>3, <2>5
    <3>5. CASE IsNew(x, i) # IsNew(y, j)
      BY <3>5, <3>1, <3>2
    <3> QED
      BY <3>3, <3>4, <3>5
  <2>10. TableBlocks' = TableBlocks \cup Range(got)
    <3>1. Range(tables'[r]) = Range(old) \cup Range(got)
      BY <2>2, <2>3, <2>4, ConcatRange
    <3> QED
      BY <3>1, <2>2, <2>4, <1>2 DEF TableBlocks
  <2>11. used' = TableBlocks'
    BY <1>2, <2>10 DEF CacheInv, BlocksConserved, got, count
  <2>12. Range(free') = Blocks \ used'
    BY <1>2, <2>2 DEF CacheInv, BlocksConserved, got, count
  <2> QED
    BY <2>6, <2>7, <2>9, <2>11, <2>12 DEF CacheInv, BlocksConserved
<1> QED
  BY <1>1, <1>2 DEF Reserve

-----------------------------------------------------------------------------
(* release *)

\* Every block of a table can be returned: BlockPool.free meets no block that
\* is not in _used, so it never stops half way.
LEMMA ReleaseFreesAll ==
    ASSUME CacheInv, NEW r \in DOMAIN tables
    PROVE  FreedPrefix(tables[r]) = tables[r]
<1> DEFINE t == tables[r]
           n == Len(t)
           S == {m \in 0 .. n : Freeable(t, m)}
<1>1. t \in Seq(Blocks) /\ n \in Nat /\ DOMAIN t = 1 .. n
  BY DEF CacheInv, CacheTypeOK
<1>2. Freeable(t, n)
  <2>1. ASSUME NEW i \in 1 .. n
        PROVE  t[i] \in used /\ \A j \in 1 .. (i - 1) : t[j] # t[i]
    <3>1. t[i] \in used
      BY <1>1, TabledIsUsed
    <3>2. \A j \in 1 .. (i - 1) : j \in DOMAIN t /\ j # i
      BY <1>1
    <3> QED
      BY <3>1, <3>2, <1>1 DEF CacheInv, BlocksConserved, TablesDisjoint
  <2> QED
    BY <2>1 DEF Freeable
<1>3. n \in S /\ \A m \in S : m \in 0 .. n
  BY <1>1, <1>2
<1> HIDE DEF S, n
<1>4. ASSUME NEW x \in S, \A m \in S : x >= m PROVE x = n
  <2>1. x >= n /\ x \in 0 .. n
    BY <1>3, <1>4
  <2> QED
    BY <2>1, <1>1
<1>5. n \in S /\ \A m \in S : n >= m
  BY <1>3, <1>1
<1>6. Max(S) = n
  BY <1>4, <1>5 DEF Max
<1>7. FreedCount(t) = n
  BY <1>6 DEF FreedCount, S, n
<1>8. SubSeq(t, 1, n) = t
  BY <1>1 DEF n
<1> QED
  BY <1>7, <1>8 DEF FreedPrefix

\* release keeps it and never raises: what it frees is used and not on the free list.
LEMMA ReleaseCacheInv ==
    ASSUME NEW r \in Ids, CacheInv, Release(r)
    PROVE  CacheInv' /\ exc' = "none"
<1>1. CASE r \notin DOMAIN tables
  BY <1>1, UnchangedCacheInv DEF Release, Outcomes
<1>2. CASE r \in DOMAIN tables
  <2> DEFINE t == tables[r]
             n == Len(free)
             m == Len(t)
  <2>1. FreedPrefix(t) = t
    BY <1>2, ReleaseFreesAll
  <2>2. /\ free' = free \o t
        /\ used' = used \ Range(t)
        /\ exc' = "none"
        /\ tables' = Restrict(tables, DOMAIN tables \ {r})
    BY <1>2, <2>1 DEF Release
  <2>3. /\ t \in Seq(Blocks) /\ m \in Nat /\ DOMAIN t = 1 .. m
        /\ free \in Seq(Blocks) /\ n \in Nat /\ DOMAIN free = 1 .. n
    BY <1>2 DEF CacheInv, CacheTypeOK
  <2>4. /\ DOMAIN tables' = DOMAIN tables \ {r}
        /\ \A x \in DOMAIN tables' : tables'[x] = tables[x]
        /\ tables' = [x \in DOMAIN tables' |-> tables'[x]]
    BY <2>2 DEF Restrict
  <2>5. /\ free' \in Seq(Blocks) /\ DOMAIN free' = 1 .. (n + m)
        /\ \A i \in 1 .. n : free'[i] = free[i]
        /\ \A i \in (n + 1) .. (n + m) : i - n \in 1 .. m /\ free'[i] = t[i - n]
    BY <2>2, <2>3, ConcatProperties
  <2> HIDE DEF n, m
  <2>6. CacheTypeOK'
    <3>1. \A x \in DOMAIN tables' : tables'[x] \in Seq(Blocks)
      BY <2>4 DEF CacheInv, CacheTypeOK
    <3>2. tables' \in [DOMAIN tables' -> Seq(Blocks)]
      BY <2>4, <3>1
    <3> QED
      BY <2>2, <2>4, <2>5, <3>2 DEF CacheInv, CacheTypeOK, Outcomes
  <2>7. \A i \in 1 .. m : t[i] \in used /\ t[i] \in Range(t) /\ t[i] \notin Range(free)
    <3>1. \A i \in 1 .. m : t[i] \in used
      BY <1>2, <2>3, TabledIsUsed
    <3> QED
      BY <3>1, <2>3 DEF CacheInv, BlocksConserved, Range
  <2>8. \A i \in 1 .. n : free[i] \in Range(free)
    BY <2>3 DEF Range
  <2>9. FreeListDistinct'
    <3> SUFFICES ASSUME NEW i \in 1 .. (n + m), NEW j \in 1 .. (n + m), free'[i] = free'[j]
                 PROVE  i = j
      BY <2>5 DEF FreeListDistinct
    <3>0. /\ i \in 1 .. n \/ i \in (n + 1) .. (n + m)
          /\ j \in 1 .. n \/ j \in (n + 1) .. (n + m)
      BY <2>3
    <3>1. CASE i \in 1 .. n /\ j \in 1 .. n
      BY <3>1, <2>3, <2>5 DEF CacheInv, BlocksConserved, FreeListDistinct
    <3>2. CASE i \in (n + 1) .. (n + m) /\ j \in (n + 1) .. (n + m)
      <4>1. i - n \in DOMAIN t /\ j - n \in DOMAIN t /\ t[i - n] = t[j - n]
        BY <3>2, <2>3, <2>5
      <4>2. i - n = j - n
        BY <4>1, <1>2 DEF CacheInv, BlocksConserved, TablesDisjoint
      <4> QED
        BY <4>2, <2>3
    <3>3. CASE i \in 1 .. n /\ j \in (n + 1) .. (n + m)
      BY <3>3, <2>5, <2>7, <2>8
    <3>4. CASE i \in (n + 1) .. (n + m) /\ j \in 1 .. n
      BY <3>4, <2>5, <2>7, <2>8
    <3> QED
      BY <3>0, <3>1, <3>2, <3>3, <3>4
  <2>10. TablesDisjoint'
    BY <2>4 DEF CacheInv, BlocksConserved, TablesDisjoint
  <2>11. TableBlocks' = TableBlocks \ Range(t)
    <3>1. \A x \in DOMAIN tables : x # r => Range(tables[x]) \cap Range(t) = {}
      BY <1>2 DEF CacheInv, BlocksConserved, TablesDisjoint, Range
    <3> QED
      BY <3>1, <2>4, <1>2 DEF TableBlocks
  <2>12. Range(free') = Range(free) \cup Range(t)
    BY <2>2, <2>3, ConcatRange
  <2>13. Range(t) \subseteq used /\ used \subseteq Blocks
    BY <2>3, <2>7 DEF CacheInv, CacheTypeOK, Range
  <2>14. used' = TableBlocks' /\ Range(free') = Blocks \ used'
    BY <2>2, <2>11, <2>12, <2>13 DEF CacheInv, BlocksConserved
  <2> QED
    BY <2>2, <2>6, <2>9, <2>10, <2>14 DEF CacheInv, BlocksConserved
<1> QED
  BY <1>1, <1>2

-----------------------------------------------------------------------------
(* Slots. *)

\* Slots of different blocks differ, and so do slots of one block.
LEMMA ConservedSlotsDisjoint == CacheInv => SlotsDisjoint
<1> SUFFICES ASSUME CacheInv,
                    NEW r \in DOMAIN tables, NEW s \in DOMAIN tables,
                    NEW p \in 0 .. (Room(tables[r]) - 1), NEW q \in 0 .. (Room(tables[s]) - 1),
                    Slot(tables[r], p) = Slot(tables[s], q)
             PROVE  r = s /\ p = q
  BY DEF SlotsDisjoint
<1> DEFINE i == (p \div BlockSize) + 1
           j == (q \div BlockSize) + 1
<1>1. /\ tables[r] \in Seq(Blocks) /\ Len(tables[r]) \in Nat
      /\ tables[s] \in Seq(Blocks) /\ Len(tables[s]) \in Nat
  BY DEF CacheInv, CacheTypeOK
<1>2. i \in 1 .. Len(tables[r]) /\ j \in 1 .. Len(tables[s])
  BY <1>1, PositionInTable DEF Room
<1>3. i \in DOMAIN tables[r] /\ j \in DOMAIN tables[s]
  BY <1>1, <1>2
<1>4. tables[r][i] \in Nat /\ tables[s][j] \in Nat
  BY <1>1, <1>3, Geometry DEF Blocks
<1>5. p \in Nat /\ q \in Nat
  BY <1>1, Geometry DEF Room
<1>6. /\ p \div BlockSize \in Nat /\ q \div BlockSize \in Nat
      /\ p % BlockSize \in 0 .. (BlockSize - 1) /\ q % BlockSize \in 0 .. (BlockSize - 1)
      /\ p = (p \div BlockSize) * BlockSize + (p % BlockSize)
      /\ q = (q \div BlockSize) * BlockSize + (q % BlockSize)
  BY <1>5, PositionParts
<1>7. tables[r][i] = tables[s][j] /\ p % BlockSize = q % BlockSize
  <2>1. tables[r][i] * BlockSize + (p % BlockSize) = tables[s][j] * BlockSize + (q % BlockSize)
    BY DEF Slot
  <2> QED
    BY <2>1, <1>4, <1>6, SlotParts
<1>8. r = s /\ i = j
  BY <1>3, <1>7 DEF CacheInv, BlocksConserved, TablesDisjoint
<1>9. p \div BlockSize = q \div BlockSize
  BY <1>6, <1>8
<1> QED
  BY <1>6, <1>7, <1>8, <1>9

\* A list without repetitions has as many elements as its length says.
LEMMA DistinctListCardinality ==
    ASSUME NEW T, NEW q \in Seq(T), \A i, j \in DOMAIN q : q[i] = q[j] => i = j
    PROVE  Cardinality(Range(q)) = Len(q)
<1>1. Len(q) \in Nat /\ DOMAIN q = 1 .. Len(q)
  OBVIOUS
<1>2. q \in [1 .. Len(q) -> Range(q)] /\ \A y \in Range(q) : \E i \in 1 .. Len(q) : q[i] = y
  BY <1>1 DEF Range
<1>3. q \in Bijection(1 .. Len(q), Range(q))
  BY <1>1, <1>2, Fun_IsBij
<1>4. ExistsBijection(1 .. Len(q), Range(q))
  BY <1>3 DEF ExistsBijection
<1> QED
  BY <1>1, <1>4, FS_CountingElements

-----------------------------------------------------------------------------
(* What a caller sees of the operations. *)

\* A reserve that the pool can serve does not raise; it extends one table, to at
\* least the target, and leaves the others alone.
LEMMA ReserveEffect ==
    ASSUME CacheInv, NEW r \in DOMAIN tables, NEW t \in Nat, CanReserve(r, t), Reserve(r, t)
    PROVE  /\ exc' = "none"
           /\ DOMAIN tables' = DOMAIN tables
           /\ \A x \in DOMAIN tables : x # r => tables'[x] = tables[x]
           /\ tables[r] \in Seq(Blocks) /\ tables'[r] \in Seq(Blocks)
           /\ Len(tables[r]) <= Len(tables'[r])
           /\ \A i \in 1 .. Len(tables[r]) : tables'[r][i] = tables[r][i]
           /\ t <= Room(tables'[r])
           /\ Len(tables'[r]) = NatMax(Len(tables[r]), CeilDiv(t, BlockSize))
<1> DEFINE count == BlocksNeeded(r, t)
           got == Popped(count)
           old == tables[r]
           n == Len(old)
<1>1. /\ exc' = "none"
      /\ tables' = [tables EXCEPT ![r] = Extend(@, got)]
  BY DEF Reserve
<1>2. count \in Nat /\ count <= Len(free)
  BY BlocksNeededType DEF CacheInv, CanReserve
<1>3. got \in Seq(Blocks) /\ Len(got) = count
  BY <1>2, PopFacts
<1>4. old \in Seq(Blocks) /\ n \in Nat
  BY DEF CacheInv, CacheTypeOK
<1>5. DOMAIN tables' = DOMAIN tables /\ \A x \in DOMAIN tables : x # r => tables'[x] = tables[x]
  BY <1>1
<1>6. tables'[r] = old \o got
  BY <1>1 DEF Extend
<1> HIDE DEF got
<1>7. /\ tables'[r] \in Seq(Blocks)
      /\ Len(tables'[r]) = n + count
      /\ \A i \in 1 .. n : tables'[r][i] = old[i]
  <2> HIDE DEF count, n, old
  <2>1. /\ tables'[r] \in Seq(Blocks)
        /\ Len(tables'[r]) = Len(old) + Len(got)
        /\ \A i \in 1 .. Len(old) + Len(got) :
              tables'[r][i] = IF i <= Len(old) THEN old[i] ELSE got[i - Len(old)]
    BY <1>3, <1>4, <1>6, ConcatProperties
  <2>2. Len(tables'[r]) = n + count
    BY <2>1, <1>3 DEF n
  <2>3. \A i \in 1 .. n : i \in 1 .. Len(old) + Len(got) /\ i <= Len(old)
    BY <1>2, <1>3, <1>4 DEF n
  <2> QED
    BY <2>1, <2>2, <2>3
<1>8. CeilDiv(t, BlockSize) \in Nat
  BY CeilDivRoom
<1>9. CeilDiv(t, BlockSize) <= n + count
  BY <1>4, <1>8 DEF BlocksNeeded, NatMax
<1>10. n + count \in Nat /\ n <= n + count
  BY <1>2, <1>4
<1>11. t <= Room(tables'[r])
  BY <1>7, <1>9, <1>10, CeilDivRoom DEF Room
<1>12. Len(tables'[r]) = NatMax(n, CeilDiv(t, BlockSize))
  BY <1>4, <1>7, <1>8 DEF BlocksNeeded, NatMax
<1> QED
  BY <1>1, <1>4, <1>5, <1>7, <1>10, <1>11, <1>12

\* A release does not raise; it removes one table and leaves the others alone.
LEMMA ReleaseEffect ==
    ASSUME CacheInv, NEW r \in Ids, Release(r)
    PROVE  /\ exc' = "none"
           /\ DOMAIN tables' = DOMAIN tables \ {r}
           /\ \A x \in DOMAIN tables' : tables'[x] = tables[x]
<1>1. exc' = "none"
  BY ReleaseCacheInv
<1> QED
  BY <1>1 DEF Release, Restrict

\* Without block tables the whole pool is free.
LEMMA NoTablesAllFree ==
    ASSUME CacheInv, DOMAIN tables = {}
    PROVE  Len(free) = NumBlocks
<1>1. Range(free) = 0 .. (NumBlocks - 1)
  BY DEF CacheInv, BlocksConserved, TableBlocks, Blocks
<1>2. Cardinality(Range(free)) = Len(free)
  BY DistinctListCardinality DEF CacheInv, CacheTypeOK, BlocksConserved, FreeListDistinct
<1>3. Cardinality(0 .. (NumBlocks - 1)) = NumBlocks
  BY FS_Interval, Geometry
<1> QED
  BY <1>1, <1>2, <1>3
=============================================================================
