--------------------------- MODULE ModelRunner_proofs ---------------------------
(***************************************************************************)
(* The model runner on any model size, any number of requests and any      *)
(* capture sizes: what the flat arrays of a batch hold, and that eager     *)
(* execution, captures and replays keep the cache of every request.        *)
(*                                                                         *)
(* RunnerInv is inductive.  It adds to the properties that block tables    *)
(* are apart, that the items of the batch in hand describe the requests as *)
(* they are, and what the static buffers of a graph look like whatever     *)
(* batch filled them.                                                      *)
(***************************************************************************)
EXTENDS ModelRunner, Basics_proofs

-----------------------------------------------------------------------------
(* The invariant. *)

Requests == [state : {"new", "running", "ended"}, prompt : Nat, computed : Nat, gen : Nat,
             table : Seq(Blocks)]

\* A running request has a token to compute and leaves room for one more; its
\* table holds what is computed.
RequestOK(r) ==
    IF reqs[r].state = "running"
    THEN /\ reqs[r].computed < AllTokens(r) /\ AllTokens(r) < MaxModelLen
         /\ reqs[r].computed <= Room(reqs[r].table)
    ELSE reqs[r].computed = 0 /\ reqs[r].gen = 0 /\ reqs[r].table = <<>>

TablesApart ==
    \A r, s \in Running : \A i \in DOMAIN reqs[r].table : \A j \in DOMAIN reqs[s].table :
        reqs[r].table[i] = reqs[s].table[j] => r = s /\ i = j

RequestsInv == reqs \in [Ids -> Requests] /\ (\A r \in Ids : RequestOK(r)) /\ TablesApart

\* What any batch of the engine gives for one request.
WellFormed(x) ==
    /\ x.start < x.seqLen /\ x.seqLen < MaxModelLen /\ x.seqLen <= Room(x.table)
    /\ Len(x.tokens) = x.seqLen - x.start /\ Len(x.slots) = x.seqLen - x.start
    /\ \A j \in 1 .. (x.seqLen - x.start) :
          x.tokens[j] = <<x.id, x.start + j - 1>> /\ x.slots[j] = Slot(x.table, x.start + j - 1)

\* Input tokens: a request and an index in it.
Tokens == Ids \X Nat

ItemFields ==
    [id : Ids, tokens : Seq(Tokens), start : Nat, slots : Seq(Slots),
     table : Seq(Blocks), seqLen : Nat, gen : Nat, sample : BOOLEAN]

Items == {x \in ItemFields : WellFormed(x)}

\* The item describes its request as it is now.
Current(x) ==
    /\ reqs[x.id].state = "running"
    /\ x.table = reqs[x.id].table /\ x.start = reqs[x.id].computed
    /\ x.seqLen <= AllTokens(x.id) /\ (x.sample <=> x.seqLen = AllTokens(x.id))

ItemsInv ==
    /\ items \in Seq(Items) /\ Len(items) <= MaxNumSeqs
    /\ \A i \in DOMAIN items : Current(items[i])
    /\ \A i, j \in DOMAIN items : items[i].id = items[j].id => i = j

Cells == Tokens \cup {Unset}

GraphBuffers(n) ==
    [captured : BOOLEAN,
     inputIds : [1 .. n -> Cells],
     m : [positions  : [1 .. n -> Nat],
          slots      : [1 .. n -> Int],
          queryStart : [1 .. (n + 1) -> Nat],
          seqLens    : [1 .. n -> Nat],
          tables     : [1 .. n -> [1 .. MaxBlocks -> Int]],
          requestOf  : [1 .. n -> Nat],
          isDecode   : [1 .. n -> BOOLEAN],
          active     : [1 .. n -> BOOLEAN]]]

\* A graph reads one row per request.
GraphOK(n, g) ==
    /\ g \in GraphBuffers(n)
    /\ \A i \in 1 .. n : /\ g.m.queryStart[i] = i - 1 /\ g.m.queryStart[i + 1] = i
                         /\ g.m.requestOf[i] = i /\ g.m.isDecode[i]

\* The padding rows of a graph that is run write to scratch slots.
PaddingOK(n, g) ==
    \A i \in 1 .. n : IF g.m.active[i] THEN g.m.slots[i] \in Slots
                      ELSE g.m.slots[i] = ScratchSlot(i)

GraphsInv ==
    /\ DOMAIN graphs \subseteq Range(Sizes)
    /\ \A n \in DOMAIN graphs : GraphOK(n, graphs[n])

CacheInv == DOMAIN kv = CacheSlots /\ CacheKeepsComputedTokens

LastInv ==
    /\ last.mode \in {"none", "eager", "capture", "replay", "error"}
    /\ \A r \in DOMAIN last.logits : r \in Ids /\ reqs[r].state # "new"
    /\ ReplaySampledFromOwnContext

RunnerInv == RequestsInv /\ ItemsInv /\ GraphsInv /\ CacheInv /\ LastInv

-----------------------------------------------------------------------------
(* The flat arrays of a batch. *)

FlatBatches ==
    [ids : Seq(Ids), inputIds : Seq(Tokens), positions : Seq(Nat), slots : Seq(Slots),
     queryStart : Seq(Nat), seqLens : Seq(Nat), tables : Seq(Seq(Blocks)),
     context : Seq(Slots), contextStart : Seq(Nat), isDecode : Seq(BOOLEAN),
     sampleRows : Seq(Int)]

\* The arrays have the lengths of k requests.
Shape(b, k) ==
    /\ Len(b.ids) = k /\ Len(b.seqLens) = k /\ Len(b.tables) = k /\ Len(b.isDecode) = k
    /\ Len(b.sampleRows) = k /\ Len(b.queryStart) = k + 1 /\ Len(b.contextStart) = k + 1
    /\ b.queryStart[1] = 0 /\ b.contextStart[1] = 0
    /\ b.queryStart[k + 1] = Len(b.inputIds) /\ b.contextStart[k + 1] = Len(b.context)
    /\ Len(b.positions) = Len(b.inputIds) /\ Len(b.slots) = Len(b.inputIds)

\* What they say of request q is what x says.
Says(b, q, x) ==
    /\ b.ids[q] = x.id /\ b.seqLens[q] = x.seqLen
    /\ b.tables[q] = SubSeq(x.table, 1, CeilDiv(x.seqLen, BlockSize))
    /\ b.isDecode[q] = IsDecode(x)
    /\ b.sampleRows[q] = IF x.sample THEN b.queryStart[q + 1] - 1 ELSE -1

RowsSay(b, q, x) ==
    /\ b.queryStart[q + 1] = b.queryStart[q] + (x.seqLen - x.start)
    /\ b.queryStart[q + 1] <= Len(b.inputIds)
    /\ \A j \in 1 .. (x.seqLen - x.start) :
          /\ b.inputIds[b.queryStart[q] + j] = x.tokens[j]
          /\ b.positions[b.queryStart[q] + j] = x.start + j - 1
          /\ b.slots[b.queryStart[q] + j] = x.slots[j]

ContextSays(b, q, x) ==
    /\ b.contextStart[q + 1] = b.contextStart[q] + x.seqLen
    /\ b.contextStart[q + 1] <= Len(b.context)
    /\ \A p \in 1 .. x.seqLen : b.context[b.contextStart[q] + p] = Slot(x.table, p - 1)

\* What the types say of an item.
LEMMA ItemFacts ==
    ASSUME NEW x \in Items
    PROVE  /\ x.id \in Ids /\ x.tokens \in Seq(Tokens) /\ x.start \in Nat
           /\ x.slots \in Seq(Slots) /\ x.table \in Seq(Blocks) /\ x.seqLen \in Nat
           /\ x.gen \in Nat /\ x.sample \in BOOLEAN /\ Len(x.table) \in Nat
           /\ x.start < x.seqLen /\ x.seqLen < MaxModelLen
           /\ x.seqLen <= Room(x.table) /\ Room(x.table) \in Nat
           /\ Len(x.tokens) = x.seqLen - x.start /\ Len(x.slots) = x.seqLen - x.start
           /\ x.seqLen - x.start \in Nat
           /\ \A j \in 1 .. (x.seqLen - x.start) :
                 /\ x.tokens[j] = <<x.id, x.start + j - 1>>
                 /\ x.slots[j] = Slot(x.table, x.start + j - 1)
<1>1. x \in ItemFields /\ WellFormed(x)
  BY DEF Items
<1>2. /\ x.id \in Ids /\ x.tokens \in Seq(Tokens) /\ x.start \in Nat
      /\ x.slots \in Seq(Slots) /\ x.table \in Seq(Blocks) /\ x.seqLen \in Nat
      /\ x.gen \in Nat /\ x.sample \in BOOLEAN /\ Len(x.table) \in Nat
  BY <1>1 DEF ItemFields
<1>3. Room(x.table) \in Nat
  BY <1>2, Geometry DEF Room
<1>4. x.seqLen - x.start \in Nat
  BY <1>1, <1>2 DEF WellFormed
<1> QED
  BY <1>1, <1>2, <1>3, <1>4 DEF WellFormed

\* The slots of an item's context are slots of the cache.
LEMMA ContextType ==
    ASSUME NEW x \in Items
    PROVE  /\ ContextSlots(x.table, x.seqLen) \in Seq(Slots)
           /\ Len(ContextSlots(x.table, x.seqLen)) = x.seqLen
<1>1. x.table \in Seq(Blocks) /\ x.seqLen \in Nat /\ x.seqLen <= Room(x.table) /\ Room(x.table) \in Nat
  BY ItemFacts
<1>2. PICK t \in Seq(Blocks) : t = x.table
  BY <1>1
<1>3. ASSUME NEW p \in 1 .. x.seqLen PROVE Slot(t, p - 1) \in Slots
  <2>1. p - 1 \in 0 .. (Room(t) - 1)
    BY <1>1, <1>2
  <2> QED
    BY <2>1, SlotInCache
<1> QED
  BY <1>1, <1>2, <1>3 DEF ContextSlots

\* A table is cut to the blocks of the context.
LEMMA CutTable ==
    ASSUME NEW x \in Items
    PROVE  LET w == CeilDiv(x.seqLen, BlockSize)
               t == SubSeq(x.table, 1, w)
           IN  /\ w \in 1 .. Len(x.table) /\ w <= MaxBlocks /\ MaxBlocks \in Nat
               /\ t \in Seq(Blocks) /\ Len(t) = w
               /\ \A i \in 1 .. w : t[i] = x.table[i]
               /\ \A p \in 1 .. x.seqLen : ((p - 1) \div BlockSize) + 1 \in 1 .. w
<1> DEFINE w == CeilDiv(x.seqLen, BlockSize)
<1>1. /\ x.table \in Seq(Blocks) /\ x.seqLen \in Nat /\ x.seqLen <= Room(x.table)
      /\ Len(x.table) \in Nat /\ x.seqLen > 0 /\ x.seqLen < MaxModelLen
  BY ItemFacts
<1>2. w \in Nat /\ w <= Len(x.table)
  BY <1>1, CeilDivRoom DEF Room
<1>3. w > 0
  <2>1. w <= 0 <=> x.seqLen <= 0 * BlockSize
    BY <1>1, CeilDivRoom
  <2>2. 0 * BlockSize = 0
    BY Geometry
  <2> QED
    BY <1>1, <1>2, <2>1, <2>2
<1>4. MaxBlocks \in Nat /\ w <= MaxBlocks
  <2>1. MaxBlocks \in Nat /\ MaxModelLen <= MaxBlocks * BlockSize
    BY RunnerConfig, CeilDivRoom DEF MaxBlocks
  <2>2. MaxBlocks * BlockSize \in Nat /\ MaxModelLen \in Nat
    BY <2>1, Geometry, RunnerConfig
  <2>3. x.seqLen <= MaxBlocks * BlockSize
    BY <1>1, <2>1, <2>2
  <2> QED
    BY <1>1, <2>1, <2>3, CeilDivRoom
<1>5. ASSUME NEW p \in 1 .. x.seqLen PROVE ((p - 1) \div BlockSize) + 1 \in 1 .. w
  <2>1. x.seqLen <= w * BlockSize /\ w * BlockSize \in Nat
    BY <1>1, <1>2, CeilDivRoom, Geometry
  <2>2. p - 1 \in 0 .. (w * BlockSize - 1)
    BY <1>1, <2>1
  <2> QED
    BY <1>2, <2>2, PositionInTable
<1> HIDE DEF w
<1>6. PICK t \in Seq(Blocks) : t = x.table
  BY <1>1
<1>7. /\ SubSeq(t, 1, w) \in Seq(Blocks) /\ Len(SubSeq(t, 1, w)) = w
      /\ \A i \in 1 .. w : SubSeq(t, 1, w)[i] = t[i]
  BY <1>2, <1>6
<1> QED
  BY <1>2, <1>3, <1>4, <1>5, <1>6, <1>7 DEF w

\* One array behind the other.
LEMMA Joined ==
    ASSUME NEW T, NEW s \in Seq(T), NEW t \in Seq(T)
    PROVE  /\ s \o t \in Seq(T) /\ Len(s \o t) = Len(s) + Len(t)
           /\ Len(s) \in Nat /\ Len(t) \in Nat /\ Len(s \o t) \in Nat
           /\ \A i \in 1 .. Len(s) : (s \o t)[i] = s[i]
           /\ \A j \in 1 .. Len(t) : (s \o t)[Len(s) + j] = t[j]
OBVIOUS

\* One element behind an array.
LEMMA Extended ==
    ASSUME NEW T, NEW s \in Seq(T), NEW e \in T
    PROVE  /\ Append(s, e) \in Seq(T) /\ Len(Append(s, e)) = Len(s) + 1 /\ Len(s) \in Nat
           /\ \A i \in 1 .. Len(s) : Append(s, e)[i] = s[i]
           /\ Append(s, e)[Len(s) + 1] = e
OBVIOUS

\* The fields of a flat batch.
LEMMA FlatFields ==
    ASSUME NEW b \in FlatBatches
    PROVE  /\ b.ids \in Seq(Ids) /\ b.inputIds \in Seq(Tokens) /\ b.positions \in Seq(Nat)
           /\ b.slots \in Seq(Slots) /\ b.queryStart \in Seq(Nat) /\ b.seqLens \in Seq(Nat)
           /\ b.tables \in Seq(Seq(Blocks)) /\ b.context \in Seq(Slots)
           /\ b.contextStart \in Seq(Nat) /\ b.isDecode \in Seq(BOOLEAN)
           /\ b.sampleRows \in Seq(Int)
BY DEF FlatBatches

\* What one round of the loop does to the arrays.
LEMMA AppendItemFields ==
    ASSUME NEW b \in FlatBatches, NEW x \in Items
    PROVE  LET a    == AppendItem(b, x)
               rows == b.inputIds \o x.tokens
               ctx  == b.context \o ContextSlots(x.table, x.seqLen)
           IN  /\ a.ids = Append(b.ids, x.id)
               /\ a.inputIds = rows
               /\ a.positions = b.positions \o [i \in 1 .. (x.seqLen - x.start) |-> x.start + i - 1]
               /\ a.slots = b.slots \o x.slots
               /\ a.queryStart = Append(b.queryStart, Len(rows))
               /\ a.seqLens = Append(b.seqLens, x.seqLen)
               /\ a.tables = Append(b.tables, SubSeq(x.table, 1, CeilDiv(x.seqLen, BlockSize)))
               /\ a.context = ctx
               /\ a.contextStart = Append(b.contextStart, Len(ctx))
               /\ a.isDecode = Append(b.isDecode, IsDecode(x))
               /\ a.sampleRows = Append(b.sampleRows, IF x.sample THEN Len(rows) - 1 ELSE -1)
BY DEF AppendItem, LastRow

\* A round keeps the types.
LEMMA AppendItemType ==
    ASSUME NEW b \in FlatBatches, NEW x \in Items
    PROVE  AppendItem(b, x) \in FlatBatches
<1>1. /\ b.ids \in Seq(Ids) /\ b.inputIds \in Seq(Tokens) /\ b.positions \in Seq(Nat)
      /\ b.slots \in Seq(Slots) /\ b.queryStart \in Seq(Nat) /\ b.seqLens \in Seq(Nat)
      /\ b.tables \in Seq(Seq(Blocks)) /\ b.context \in Seq(Slots)
      /\ b.contextStart \in Seq(Nat) /\ b.isDecode \in Seq(BOOLEAN)
      /\ b.sampleRows \in Seq(Int)
  BY FlatFields
<1>2. /\ x.id \in Ids /\ x.tokens \in Seq(Tokens) /\ x.start \in Nat /\ x.slots \in Seq(Slots)
      /\ x.seqLen \in Nat /\ x.seqLen - x.start \in Nat
  BY ItemFacts
<1> DEFINE rows == b.inputIds \o x.tokens
           ctx == b.context \o ContextSlots(x.table, x.seqLen)
           pos == [i \in 1 .. (x.seqLen - x.start) |-> x.start + i - 1]
           cut == SubSeq(x.table, 1, CeilDiv(x.seqLen, BlockSize))
<1>3. rows \in Seq(Tokens) /\ Len(rows) \in Nat /\ Len(rows) - 1 \in Int
  <2>1. rows \in Seq(Tokens) /\ Len(rows) \in Nat
    BY <1>1, <1>2, Joined
  <2> HIDE DEF rows
  <2> QED
    BY <2>1
<1>4. ctx \in Seq(Slots) /\ Len(ctx) \in Nat
  BY <1>1, ContextType, Joined
<1>5. pos \in Seq(Nat)
  BY <1>2
<1>6. cut \in Seq(Blocks)
  BY CutTable
<1>7. IsDecode(x) \in BOOLEAN
  BY DEF IsDecode
<1> HIDE DEF rows, ctx, pos, cut
<1>8. /\ Append(b.ids, x.id) \in Seq(Ids) /\ b.positions \o pos \in Seq(Nat)
      /\ b.slots \o x.slots \in Seq(Slots)
      /\ Append(b.queryStart, Len(rows)) \in Seq(Nat) /\ Append(b.seqLens, x.seqLen) \in Seq(Nat)
  BY <1>1, <1>2, <1>3, <1>5
<1>9. Append(b.tables, cut) \in Seq(Seq(Blocks)) /\ Append(b.contextStart, Len(ctx)) \in Seq(Nat)
  BY <1>1, <1>4, <1>6
<1>10. Append(b.isDecode, IsDecode(x)) \in Seq(BOOLEAN)
  BY <1>1, <1>7
<1>11. Append(b.sampleRows, IF x.sample THEN LastRow(rows) ELSE -1) \in Seq(Int)
  BY <1>1, <1>3 DEF LastRow
<1> QED
  BY <1>3, <1>4, <1>8, <1>9, <1>10, <1>11 DEF AppendItem, FlatBatches, rows, ctx, pos, cut

\* A round adds the item's request and leaves what the arrays say of the others.
LEMMA AppendItemSays ==
    ASSUME NEW b \in FlatBatches, NEW k \in Nat, Shape(b, k), NEW x \in Items,
           NEW a, a = AppendItem(b, x)
    PROVE  /\ Shape(a, k + 1)
           /\ Says(a, k + 1, x) /\ RowsSay(a, k + 1, x) /\ ContextSays(a, k + 1, x)
           /\ \A q \in 1 .. k : \A y \in Items :
                 /\ Says(b, q, y) => Says(a, q, y)
                 /\ RowsSay(b, q, y) => RowsSay(a, q, y)
                 /\ ContextSays(b, q, y) => ContextSays(a, q, y)
<1>b. /\ b.ids \in Seq(Ids) /\ b.inputIds \in Seq(Tokens) /\ b.positions \in Seq(Nat)
      /\ b.slots \in Seq(Slots) /\ b.queryStart \in Seq(Nat) /\ b.seqLens \in Seq(Nat)
      /\ b.tables \in Seq(Seq(Blocks)) /\ b.context \in Seq(Slots)
      /\ b.contextStart \in Seq(Nat) /\ b.isDecode \in Seq(BOOLEAN)
      /\ b.sampleRows \in Seq(Int)
  BY FlatFields
<1>x. /\ x.id \in Ids /\ x.tokens \in Seq(Tokens) /\ x.start \in Nat /\ x.slots \in Seq(Slots)
      /\ x.seqLen \in Nat /\ x.seqLen - x.start \in Nat
      /\ Len(x.tokens) = x.seqLen - x.start /\ Len(x.slots) = x.seqLen - x.start
  BY ItemFacts
<1> DEFINE n == x.seqLen - x.start
           ctx == ContextSlots(x.table, x.seqLen)
           pos == [i \in 1 .. n |-> x.start + i - 1]
           cut == SubSeq(x.table, 1, CeilDiv(x.seqLen, BlockSize))
<1>1. /\ a.ids = Append(b.ids, x.id)
      /\ a.inputIds = b.inputIds \o x.tokens
      /\ a.positions = b.positions \o pos
      /\ a.slots = b.slots \o x.slots
      /\ a.queryStart = Append(b.queryStart, Len(a.inputIds))
      /\ a.seqLens = Append(b.seqLens, x.seqLen)
      /\ a.tables = Append(b.tables, cut)
      /\ a.context = b.context \o ctx
      /\ a.contextStart = Append(b.contextStart, Len(a.context))
      /\ a.isDecode = Append(b.isDecode, IsDecode(x))
      /\ a.sampleRows = Append(b.sampleRows, IF x.sample THEN Len(a.inputIds) - 1 ELSE -1)
  BY AppendItemFields
<1>2. ctx \in Seq(Slots) /\ Len(ctx) = x.seqLen /\ \A p \in 1 .. x.seqLen : ctx[p] = Slot(x.table, p - 1)
  <2>1. \A p \in 1 .. x.seqLen : ctx[p] = Slot(x.table, p - 1)
    BY DEF ContextSlots
  <2> QED
    BY <2>1, ContextType
<1>3. pos \in Seq(Nat) /\ Len(pos) = n /\ \A i \in 1 .. n : pos[i] = x.start + i - 1
  BY <1>x
<1>4. cut \in Seq(Blocks)
  BY CutTable
<1>5. IsDecode(x) \in BOOLEAN
  BY DEF IsDecode
<1>n. n \in Nat
  BY <1>x
<1> HIDE DEF n, ctx, pos, cut
<1>s. /\ Len(b.ids) = k /\ Len(b.seqLens) = k /\ Len(b.tables) = k /\ Len(b.isDecode) = k
      /\ Len(b.sampleRows) = k /\ Len(b.queryStart) = k + 1 /\ Len(b.contextStart) = k + 1
      /\ b.queryStart[1] = 0 /\ b.contextStart[1] = 0
      /\ b.queryStart[k + 1] = Len(b.inputIds) /\ b.contextStart[k + 1] = Len(b.context)
      /\ Len(b.positions) = Len(b.inputIds) /\ Len(b.slots) = Len(b.inputIds)
  BY DEF Shape
<1>6. /\ a.inputIds \in Seq(Tokens) /\ Len(a.inputIds) = Len(b.inputIds) + n
      /\ Len(b.inputIds) \in Nat /\ Len(a.inputIds) \in Nat
      /\ \A i \in 1 .. Len(b.inputIds) : a.inputIds[i] = b.inputIds[i]
      /\ \A j \in 1 .. n : a.inputIds[Len(b.inputIds) + j] = x.tokens[j]
  <2>1. PICK s \in Seq(Tokens), t \in Seq(Tokens) : s = b.inputIds /\ t = x.tokens
    BY <1>b, <1>x
  <2>2. a.inputIds = s \o t /\ Len(t) = n
    BY <1>1, <1>x, <2>1 DEF n
  <2>3. /\ s \o t \in Seq(Tokens) /\ Len(s \o t) = Len(s) + Len(t)
        /\ Len(s) \in Nat /\ Len(s \o t) \in Nat
        /\ \A i \in 1 .. Len(s) : (s \o t)[i] = s[i]
        /\ \A j \in 1 .. Len(t) : (s \o t)[Len(s) + j] = t[j]
    BY Joined
  <2> QED
    BY <2>1, <2>2, <2>3
<1>7. /\ Len(a.positions) = Len(b.inputIds) + n
      /\ \A i \in 1 .. Len(b.inputIds) : a.positions[i] = b.positions[i]
      /\ \A j \in 1 .. n : a.positions[Len(b.inputIds) + j] = x.start + j - 1
  <2>1. PICK s \in Seq(Nat) : s = b.positions
    BY <1>b
  <2>2. a.positions = s \o pos /\ Len(s) = Len(b.inputIds)
    BY <1>1, <1>s, <2>1
  <2>3. /\ Len(a.positions) = Len(s) + n
        /\ \A i \in 1 .. Len(s) : a.positions[i] = s[i]
        /\ \A j \in 1 .. n : a.positions[Len(s) + j] = pos[j]
    <3>1. PICK t \in Seq(Nat) : t = pos
      BY <1>3
    <3>2. /\ Len(s \o t) = Len(s) + Len(t)
          /\ \A i \in 1 .. Len(s) : (s \o t)[i] = s[i]
          /\ \A j \in 1 .. Len(t) : (s \o t)[Len(s) + j] = t[j]
      BY Joined
    <3> QED
      BY <1>3, <2>2, <3>1, <3>2
  <2> QED
    BY <1>3, <2>1, <2>2, <2>3
<1>8. /\ Len(a.slots) = Len(b.inputIds) + n
      /\ \A i \in 1 .. Len(b.inputIds) : a.slots[i] = b.slots[i]
      /\ \A j \in 1 .. n : a.slots[Len(b.inputIds) + j] = x.slots[j]
  <2>1. PICK s \in Seq(Slots), t \in Seq(Slots) : s = b.slots /\ t = x.slots
    BY <1>b, <1>x
  <2>2. a.slots = s \o t /\ Len(s) = Len(b.inputIds) /\ Len(t) = n
    BY <1>1, <1>s, <1>x, <2>1 DEF n
  <2>3. /\ Len(a.slots) = Len(s) + n
        /\ \A i \in 1 .. Len(s) : a.slots[i] = s[i]
        /\ \A j \in 1 .. n : a.slots[Len(s) + j] = t[j]
    <3>1. /\ s \o t \in Seq(Slots) /\ Len(s \o t) = Len(s) + Len(t)
          /\ Len(s) \in Nat /\ Len(s \o t) \in Nat
          /\ \A i \in 1 .. Len(s) : (s \o t)[i] = s[i]
          /\ \A j \in 1 .. Len(t) : (s \o t)[Len(s) + j] = t[j]
      BY Joined
    <3> QED
      BY <2>2, <3>1
  <2> QED
    BY <2>1, <2>2, <2>3
<1>9. /\ a.context \in Seq(Slots) /\ Len(a.context) = Len(b.context) + x.seqLen
      /\ Len(b.context) \in Nat /\ Len(a.context) \in Nat
      /\ \A i \in 1 .. Len(b.context) : a.context[i] = b.context[i]
      /\ \A p \in 1 .. x.seqLen : a.context[Len(b.context) + p] = Slot(x.table, p - 1)
  <2>1. PICK s \in Seq(Slots) : s = b.context
    BY <1>b
  <2>2. a.context = s \o ctx
    BY <1>1, <2>1
  <2>3. /\ a.context \in Seq(Slots) /\ Len(a.context) = Len(s) + x.seqLen
        /\ Len(s) \in Nat /\ Len(a.context) \in Nat
        /\ \A i \in 1 .. Len(s) : a.context[i] = s[i]
        /\ \A j \in 1 .. x.seqLen : a.context[Len(s) + j] = ctx[j]
    BY <1>2, <2>2, Joined
  <2> QED
    BY <1>2, <2>1, <2>3
<1>10. /\ Len(a.queryStart) = k + 2 /\ a.queryStart[k + 2] = Len(a.inputIds)
       /\ \A i \in 1 .. (k + 1) : a.queryStart[i] = b.queryStart[i] /\ b.queryStart[i] \in Nat
  <2>1. PICK s \in Seq(Nat), e \in Nat : s = b.queryStart /\ e = Len(a.inputIds)
    BY <1>b, <1>6
  <2>2. a.queryStart = Append(s, e) /\ Len(s) = k + 1
    BY <1>1, <1>s, <2>1
  <2> QED
    BY SMTT(30), <2>1, <2>2
<1>11. /\ Len(a.contextStart) = k + 2 /\ a.contextStart[k + 2] = Len(a.context)
       /\ \A i \in 1 .. (k + 1) : a.contextStart[i] = b.contextStart[i] /\ b.contextStart[i] \in Nat
  <2>1. PICK s \in Seq(Nat), e \in Nat : s = b.contextStart /\ e = Len(a.context)
    BY <1>b, <1>9
  <2>2. a.contextStart = Append(s, e) /\ Len(s) = k + 1
    BY <1>1, <1>s, <2>1
  <2> QED
    BY <2>1, <2>2
<1>12. /\ Len(a.ids) = k + 1 /\ a.ids[k + 1] = x.id /\ \A i \in 1 .. k : a.ids[i] = b.ids[i]
       /\ Len(a.seqLens) = k + 1 /\ a.seqLens[k + 1] = x.seqLen
       /\ \A i \in 1 .. k : a.seqLens[i] = b.seqLens[i]
  <2>1. PICK s \in Seq(Ids), e \in Ids : s = b.ids /\ e = x.id
    BY <1>b, <1>x
  <2>2. a.ids = Append(s, e) /\ Len(s) = k
    BY <1>1, <1>s, <2>1
  <2>3. PICK u \in Seq(Nat), f \in Nat : u = b.seqLens /\ f = x.seqLen
    BY <1>b, <1>x
  <2>4. a.seqLens = Append(u, f) /\ Len(u) = k
    BY <1>1, <1>s, <2>3
  <2>5. Len(a.ids) = k + 1 /\ a.ids[k + 1] = e /\ \A i \in 1 .. k : a.ids[i] = s[i]
    BY <2>2
  <2>6. Len(a.seqLens) = k + 1 /\ a.seqLens[k + 1] = f /\ \A i \in 1 .. k : a.seqLens[i] = u[i]
    BY <2>4
  <2> QED
    BY <2>1, <2>3, <2>5, <2>6
<1>13. /\ Len(a.tables) = k + 1 /\ a.tables[k + 1] = cut /\ \A i \in 1 .. k : a.tables[i] = b.tables[i]
  <2>1. PICK s \in Seq(Seq(Blocks)), e \in Seq(Blocks) : s = b.tables /\ e = cut
    BY <1>b, <1>4
  <2>2. a.tables = Append(s, e) /\ Len(s) = k
    BY <1>1, <1>s, <2>1
  <2>3. Len(a.tables) = k + 1 /\ a.tables[k + 1] = e /\ \A i \in 1 .. k : a.tables[i] = s[i]
    BY <2>2
  <2> QED
    BY <2>1, <2>3
<1>14. /\ Len(a.isDecode) = k + 1 /\ a.isDecode[k + 1] = IsDecode(x)
       /\ \A i \in 1 .. k : a.isDecode[i] = b.isDecode[i]
  <2>1. PICK s \in Seq(BOOLEAN), e \in BOOLEAN : s = b.isDecode /\ e = IsDecode(x)
    BY <1>b, <1>5
  <2>2. a.isDecode = Append(s, e) /\ Len(s) = k
    BY <1>1, <1>s, <2>1
  <2>3. Len(a.isDecode) = k + 1 /\ a.isDecode[k + 1] = e /\ \A i \in 1 .. k : a.isDecode[i] = s[i]
    BY <2>2
  <2> QED
    BY <2>1, <2>3
<1>15. /\ Len(a.sampleRows) = k + 1
       /\ a.sampleRows[k + 1] = IF x.sample THEN Len(a.inputIds) - 1 ELSE -1
       /\ \A i \in 1 .. k : a.sampleRows[i] = b.sampleRows[i]
  <2>0. (IF x.sample THEN Len(a.inputIds) - 1 ELSE -1) \in Int
    BY <1>6
  <2>1. PICK s \in Seq(Int), e \in Int : s = b.sampleRows /\ e = IF x.sample THEN Len(a.inputIds) - 1 ELSE -1
    BY <1>b, <2>0
  <2>2. a.sampleRows = Append(s, e) /\ Len(s) = k
    BY <1>1, <1>s, <2>1
  <2>3. Len(a.sampleRows) = k + 1 /\ a.sampleRows[k + 1] = e /\ \A i \in 1 .. k : a.sampleRows[i] = s[i]
    BY <2>2
  <2> QED
    BY <2>1, <2>3
<1>16. (k + 1) + 1 = k + 2 /\ k + 1 \in 1 .. (k + 1) /\ 1 \in 1 .. (k + 1)
  OBVIOUS
<1>17. Shape(a, k + 1)
  BY <1>s, <1>6, <1>7, <1>8, <1>10, <1>11, <1>12, <1>13, <1>14, <1>15, <1>16 DEF Shape
<1>18. Says(a, k + 1, x)
  BY <1>10, <1>12, <1>13, <1>14, <1>15, <1>16 DEF Says, cut
<1>19. RowsSay(a, k + 1, x)
  <2>1. /\ a.queryStart[k + 1] = Len(b.inputIds) /\ a.queryStart[(k + 1) + 1] = Len(a.inputIds)
        /\ Len(a.inputIds) = Len(b.inputIds) + n /\ Len(a.inputIds) \in Nat
    BY <1>s, <1>6, <1>10, <1>16
  <2>2. \A j \in 1 .. n : /\ a.inputIds[a.queryStart[k + 1] + j] = x.tokens[j]
                          /\ a.positions[a.queryStart[k + 1] + j] = x.start + j - 1
                          /\ a.slots[a.queryStart[k + 1] + j] = x.slots[j]
    BY <1>6, <1>7, <1>8, <2>1
  <2> QED
    BY <2>1, <2>2 DEF RowsSay, n
<1>20. ContextSays(a, k + 1, x)
  BY SMTT(30), <1>s, <1>9, <1>11, <1>16 DEF ContextSays
<1>21. ASSUME NEW q \in 1 .. k, NEW y \in Items
       PROVE  /\ Says(b, q, y) => Says(a, q, y)
              /\ RowsSay(b, q, y) => RowsSay(a, q, y)
              /\ ContextSays(b, q, y) => ContextSays(a, q, y)
  <2>0. q \in 1 .. (k + 1) /\ q + 1 \in 1 .. (k + 1)
    OBVIOUS
  <2>1. Says(b, q, y) => Says(a, q, y)
    BY <1>10, <1>12, <1>13, <1>14, <1>15, <2>0 DEF Says
  <2>y. /\ y.seqLen \in Nat /\ y.seqLen - y.start \in Nat
    BY ItemFacts
  <2>2. ASSUME RowsSay(b, q, y) PROVE RowsSay(a, q, y)
    <3>1. /\ b.queryStart[q + 1] = b.queryStart[q] + (y.seqLen - y.start)
          /\ b.queryStart[q + 1] <= Len(b.inputIds)
          /\ a.queryStart[q] = b.queryStart[q] /\ a.queryStart[q + 1] = b.queryStart[q + 1]
          /\ b.queryStart[q] \in Nat /\ b.queryStart[q + 1] \in Nat
      BY <1>10, <2>0, <2>2 DEF RowsSay
    <3>2. \A j \in 1 .. (y.seqLen - y.start) : b.queryStart[q] + j \in 1 .. Len(b.inputIds)
      BY SMTT(30), <1>6, <2>y, <3>1
    <3>3. \A j \in 1 .. (y.seqLen - y.start) :
             /\ a.inputIds[a.queryStart[q] + j] = b.inputIds[b.queryStart[q] + j]
             /\ a.positions[a.queryStart[q] + j] = b.positions[b.queryStart[q] + j]
             /\ a.slots[a.queryStart[q] + j] = b.slots[b.queryStart[q] + j]
      BY <1>6, <1>7, <1>8, <3>1, <3>2
    <3>4. a.queryStart[q + 1] <= Len(a.inputIds)
      BY <1>6, <1>n, <3>1
    <3>5. \A j \in 1 .. (y.seqLen - y.start) :
             /\ b.inputIds[b.queryStart[q] + j] = y.tokens[j]
             /\ b.positions[b.queryStart[q] + j] = y.start + j - 1
             /\ b.slots[b.queryStart[q] + j] = y.slots[j]
      BY <2>2 DEF RowsSay
    <3> QED
      BY <3>1, <3>3, <3>4, <3>5 DEF RowsSay
  <2>3. ASSUME ContextSays(b, q, y) PROVE ContextSays(a, q, y)
    <3>1. /\ b.contextStart[q + 1] = b.contextStart[q] + y.seqLen
          /\ b.contextStart[q + 1] <= Len(b.context)
          /\ a.contextStart[q] = b.contextStart[q] /\ a.contextStart[q + 1] = b.contextStart[q + 1]
          /\ b.contextStart[q] \in Nat /\ b.contextStart[q + 1] \in Nat
      BY <1>11, <2>0, <2>3 DEF ContextSays
    <3>2. \A p \in 1 .. y.seqLen : b.contextStart[q] + p \in 1 .. Len(b.context)
      BY SMTT(30), <1>9, <2>y, <3>1
    <3>3. \A p \in 1 .. y.seqLen :
             a.context[a.contextStart[q] + p] = b.context[b.contextStart[q] + p]
      BY <1>9, <3>1, <3>2
    <3>4. a.contextStart[q + 1] <= Len(a.context)
      BY <1>9, <1>x, <3>1
    <3>5. \A p \in 1 .. y.seqLen : b.context[b.contextStart[q] + p] = Slot(y.table, p - 1)
      BY <2>3 DEF ContextSays
    <3> QED
      BY <3>1, <3>3, <3>4, <3>5 DEF ContextSays
  <2> QED
    BY <2>1, <2>2, <2>3
<1> QED
  BY <1>17, <1>18, <1>19, <1>20, <1>21

\* An empty batch.
LEMMA EmptyBatchShape == EmptyBatch \in FlatBatches /\ Shape(EmptyBatch, 0)
<1>1. \A S : <<>> \in Seq(S)
  OBVIOUS
<1>2. <<0>> \in Seq(Nat) /\ Len(<<0>>) = 1 /\ <<0>>[1] = 0
  OBVIOUS
<1>3. EmptyBatch \in FlatBatches
  BY <1>1, <1>2 DEF EmptyBatch, FlatBatches
<1>4. Shape(EmptyBatch, 0)
  BY <1>2 DEF EmptyBatch, Shape
<1> QED
  BY <1>3, <1>4

\* h[k] holds the first k items.
Builds(h, its) ==
    /\ h \in [0 .. Len(its) -> FlatBatches] /\ h[0] = EmptyBatch
    /\ FoldLeft(AppendItem, EmptyBatch, its) = h[Len(its)]
    /\ \A k \in 1 .. Len(its) : h[k] = AppendItem(h[k - 1], its[k])

\* The loop of from_worker_batch takes one item after the other.
LEMMA BuildSteps ==
    ASSUME NEW its \in Seq(Items)
    PROVE  \E h : Builds(h, its)
<1> DEFINE n == Len(its)
           U == FlatBatches
           F == [i \in 1 .. n |-> [t \in U |-> AppendItem(t, its[i])]]
           P(g) == g = [s \in SUBSET (1 .. n) |->
                          IF s = {} THEN EmptyBatch
                          ELSE AppendItem(g[s \ {Max(s)}], its[Max(s)])]
           c == CHOOSE g : P(g)
<1>0. n \in Nat /\ DOMAIN its = 1 .. n /\ \A i \in 1 .. n : its[i] \in Items
  OBVIOUS
<1>1. FoldLeft(AppendItem, EmptyBatch, its) = c[1 .. n]
  BY <1>0 DEF FoldLeft, MapThenFoldSet
<1>e. EmptyBatch \in U
  BY EmptyBatchShape
<1>t. \A i \in 1 .. n : \A t \in U : AppendItem(t, its[i]) \in U
  BY <1>0, AppendItemType
<1> HIDE DEF U, n
<1>2. \E g : P(g)
  <2>1. F \in [1 .. n -> [U -> U]]
    BY <1>t
  <2>2. PICK g \in [SUBSET (1 .. n) -> U] : IsListFold(F, EmptyBatch, 1 .. n, g)
    <3> HIDE DEF F
    <3> QED
      BY <1>0, <1>e, <2>1, ListFoldExists
  <2>3. ASSUME NEW s \in SUBSET (1 .. n), s # {}
        PROVE  F[Max(s)][g[s \ {Max(s)}]] = AppendItem(g[s \ {Max(s)}], its[Max(s)])
    <3>1. Max(s) \in 1 .. n /\ s \ {Max(s)} \in SUBSET (1 .. n)
      BY <1>0, <2>3, MaxIndex
    <3>2. g[s \ {Max(s)}] \in U
      BY <3>1
    <3> QED
      BY <3>1, <3>2
  <2> HIDE DEF F
  <2>4. P(g)
    BY <2>2, <2>3 DEF IsListFold
  <2> QED
    BY <2>4
<1>3. P(c)
  BY <1>2
<1> HIDE DEF c
<1> DEFINE h == [k \in 0 .. n |-> c[1 .. k]]
<1>4. h[0] = EmptyBatch
  <2>1. 1 .. 0 = {} /\ {} \in SUBSET (1 .. n)
    OBVIOUS
  <2> QED
    BY <1>0, <1>3, <2>1
<1>5. ASSUME NEW k \in 1 .. n PROVE h[k] = AppendItem(h[k - 1], its[k])
  <2>1. /\ Max(1 .. k) = k /\ (1 .. k) \ {k} = 1 .. (k - 1) /\ 1 .. k # {}
        /\ 1 .. k \in SUBSET (1 .. n)
    BY <1>0, MaxOfFirst
  <2>2. k - 1 \in 0 .. n /\ k \in 0 .. n
    BY <1>0
  <2>3. c[1 .. k] = AppendItem(c[1 .. (k - 1)], its[k])
    BY <1>3, <2>1
  <2> QED
    BY <2>2, <2>3
<1>6. FoldLeft(AppendItem, EmptyBatch, its) = h[n]
  BY <1>0, <1>1
<1> HIDE DEF h
<1>7. \A k \in 0 .. n : h[k] \in U
  <2> DEFINE K == {k \in Nat : k <= n => h[k] \in U}
  <2>1. 0 \in K
    BY <1>4, <1>e
  <2>2. ASSUME NEW k \in K PROVE k + 1 \in K
    <3> SUFFICES ASSUME k + 1 <= n PROVE h[k + 1] \in U
      OBVIOUS
    <3>1. k + 1 \in 1 .. n /\ (k + 1) - 1 = k /\ h[k] \in U
      BY <1>0
    <3>2. h[k + 1] = AppendItem(h[k], its[k + 1])
      BY <1>5, <3>1
    <3> QED
      BY <1>t, <3>1, <3>2
  <2> HIDE DEF K
  <2>3. K \subseteq Nat
    BY DEF K
  <2>4. \A k \in Nat : k \in K
    BY <2>1, <2>2, <2>3, SetInduction
  <2> QED
    BY <1>0, <2>4 DEF K
<1>8. h \in [0 .. n -> U]
  BY <1>7 DEF h
<1> QED
  BY <1>4, <1>5, <1>6, <1>8 DEF n, U, Builds

\* What a batch built from its items says of them all.
Reads(b, its) ==
    /\ b \in FlatBatches /\ Shape(b, Len(its))
    /\ \A q \in 1 .. Len(its) :
          Says(b, q, its[q]) /\ RowsSay(b, q, its[q]) /\ ContextSays(b, q, its[q])

\* The loop reads every item as it is.
LEMMA BuiltBatch ==
    ASSUME NEW its \in Seq(Items)
    PROVE  Reads(FoldLeft(AppendItem, EmptyBatch, its), its)
<1> DEFINE n == Len(its)
<1>h. PICK h : Builds(h, its)
  BY BuildSteps
<1>1. /\ h \in [0 .. n -> FlatBatches] /\ h[0] = EmptyBatch /\ n \in Nat
      /\ FoldLeft(AppendItem, EmptyBatch, its) = h[n]
      /\ \A k \in 1 .. n : h[k] = AppendItem(h[k - 1], its[k])
      /\ \A k \in 1 .. n : its[k] \in Items
  BY <1>h DEF Builds
<1> HIDE DEF n
<1> DEFINE All(b, k) == \A q \in 1 .. k : /\ Says(b, q, its[q]) /\ RowsSay(b, q, its[q])
                                          /\ ContextSays(b, q, its[q])
           K == {k \in Nat : k <= n => Shape(h[k], k) /\ All(h[k], k)}
<1>2. 0 \in K
  <2>1. 1 .. 0 = {}
    OBVIOUS
  <2> QED
    BY <1>1, <2>1, EmptyBatchShape
<1>3. ASSUME NEW k \in K PROVE k + 1 \in K
  <2> SUFFICES ASSUME k + 1 <= n PROVE Shape(h[k + 1], k + 1) /\ All(h[k + 1], k + 1)
    OBVIOUS
  <2>1. /\ k + 1 \in 1 .. n /\ (k + 1) - 1 = k /\ k \in 0 .. n /\ k \in Nat
        /\ 1 .. (k + 1) = (1 .. k) \cup {k + 1} /\ 1 .. k \subseteq 1 .. n
    BY <1>1
  <2>2. Shape(h[k], k) /\ All(h[k], k)
    BY <1>1, <2>1
  <2>3. h[k] \in FlatBatches /\ its[k + 1] \in Items /\ h[k + 1] = AppendItem(h[k], its[k + 1])
    BY <1>1, <2>1
  <2>4. /\ Shape(h[k + 1], k + 1)
        /\ Says(h[k + 1], k + 1, its[k + 1]) /\ RowsSay(h[k + 1], k + 1, its[k + 1])
        /\ ContextSays(h[k + 1], k + 1, its[k + 1])
        /\ \A q \in 1 .. k : \A y \in Items :
              /\ Says(h[k], q, y) => Says(h[k + 1], q, y)
              /\ RowsSay(h[k], q, y) => RowsSay(h[k + 1], q, y)
              /\ ContextSays(h[k], q, y) => ContextSays(h[k + 1], q, y)
    BY <2>1, <2>2, <2>3, AppendItemSays
  <2>5. ASSUME NEW q \in 1 .. (k + 1)
        PROVE  /\ Says(h[k + 1], q, its[q]) /\ RowsSay(h[k + 1], q, its[q])
               /\ ContextSays(h[k + 1], q, its[q])
    <3>1. CASE q = k + 1
      BY <2>4, <3>1
    <3>2. CASE q \in 1 .. k
      <4>1. its[q] \in Items
        BY <1>1, <2>1, <3>2
      <4> QED
        BY <2>2, <2>4, <3>2, <4>1
    <3> QED
      BY <2>1, <3>1, <3>2
  <2> QED
    BY <2>4, <2>5
<1>4. n \in K
  <2> HIDE DEF K
  <2>1. K \subseteq Nat
    BY DEF K
  <2> QED
    BY <1>1, <1>2, <1>3, <2>1, SetInduction
<1>5. h[n] \in FlatBatches
  BY <1>1
<1> QED
  BY <1>1, <1>4, <1>5 DEF n, Reads

-----------------------------------------------------------------------------
(* The batch that an attention call gets. *)

Names(b, q, x) ==
    /\ b.ids[q] = x.id /\ b.seqLens[q] = x.seqLen /\ b.isDecode[q] = IsDecode(x)
    /\ b.sampleRows[q] = IF x.sample THEN b.queryStart[q + 1] - 1 ELSE -1

\* Row q of the padded tables starts with the blocks of the context.
Paged(b, q, x) ==
    \A j \in 1 .. CeilDiv(x.seqLen, BlockSize) : j <= Len(b.tables[q]) /\ b.tables[q][j] = x.table[j]

\* The arrays and their types, the tables apart.
ArraysType(b) ==
    /\ b.ids \in Seq(Ids) /\ b.inputIds \in Seq(Tokens) /\ b.positions \in Seq(Nat)
    /\ b.slots \in Seq(Slots) /\ b.queryStart \in Seq(Nat) /\ b.seqLens \in Seq(Nat)
    /\ b.context \in Seq(Slots) /\ b.contextStart \in Seq(Nat) /\ b.isDecode \in Seq(BOOLEAN)
    /\ b.sampleRows \in Seq(Int)

TablesType(b, n) ==
    \E w \in 1 .. MaxBlocks : /\ DOMAIN b.tables = 1 .. n
                              /\ \A q \in 1 .. n : b.tables[q] \in Seq(Int) /\ Len(b.tables[q]) = w

Batch(b, its) ==
    /\ ArraysType(b) /\ Shape(b, Len(its)) /\ TablesType(b, Len(its))
    /\ \A q \in 1 .. Len(its) : /\ Names(b, q, its[q]) /\ Paged(b, q, its[q])
                                /\ RowsSay(b, q, its[q]) /\ ContextSays(b, q, its[q])

\* The width is the longest of the tables.
LEMMA WidthIsLongest ==
    ASSUME NEW ts, NEW n \in Nat, n > 0, DOMAIN ts = 1 .. n,
           \A q \in 1 .. n : Len(ts[q]) \in Nat /\ Len(ts[q]) <= MaxBlocks, MaxBlocks \in Nat
    PROVE  (\E q \in 1 .. n : Width(ts) = Len(ts[q])) /\ \A q \in 1 .. n : Len(ts[q]) <= Width(ts)
<1> DEFINE S == {Len(ts[i]) : i \in DOMAIN ts}
<1>1. S \subseteq Nat /\ S # {} /\ \A x \in S : x <= MaxBlocks
  <2>1. 1 \in 1 .. n
    OBVIOUS
  <2> QED
    BY <2>1
<1> HIDE DEF S
<1>2. \E x \in S : \A y \in S : y <= x
  BY <1>1, LargestNumber
<1>3. \E w \in S : \A i \in DOMAIN ts : Len(ts[i]) <= w
  BY <1>2 DEF S
<1>4. Width(ts) \in S /\ \A i \in DOMAIN ts : Len(ts[i]) <= Width(ts)
  BY <1>3 DEF S, Width
<1> QED
  BY <1>4 DEF S

\* Padding keeps what a table holds.
LEMMA Padded ==
    ASSUME NEW t \in Seq(Int), NEW w \in Nat, Len(t) <= w
    PROVE  /\ PadTo(t, w) \in Seq(Int) /\ Len(PadTo(t, w)) = w
           /\ \A j \in 1 .. Len(t) : PadTo(t, w)[j] = t[j]
<1>1. w - Len(t) \in Nat
  OBVIOUS
<1>2. PICK u \in Seq(Int) : u = [i \in 1 .. (w - Len(t)) |-> -1] /\ Len(u) = w - Len(t)
  <2>1. PICK k \in Nat : k = w - Len(t)
    BY <1>1
  <2>2. PICK u : u = [i \in 1 .. k |-> -1]
    OBVIOUS
  <2>3. u \in [1 .. k -> Int]
    BY <2>2
  <2>4. u \in Seq(Int) /\ Len(u) = k
    BY <2>3
  <2> QED
    BY <2>1, <2>2, <2>4
<1>3. /\ t \o u \in Seq(Int) /\ Len(t \o u) = Len(t) + Len(u)
      /\ \A i \in 1 .. Len(t) : (t \o u)[i] = t[i]
  BY Joined
<1> QED
  BY <1>2, <1>3 DEF PadTo

\* Flatten gives the attention call what the items say.
LEMMA FlattenReads ==
    ASSUME NEW its \in Seq(Items), Len(its) > 0
    PROVE  Batch(Flatten(its), its)
<1> DEFINE n == Len(its)
           f == FoldLeft(AppendItem, EmptyBatch, its)
           w == Width(f.tables)
           b == Flatten(its)
<1>1. Reads(f, its)
  BY BuiltBatch
<1>2. b = [f EXCEPT !.tables = [i \in DOMAIN @ |-> PadTo(@[i], w)]]
  BY DEF Flatten
<1>n. n \in Nat /\ n > 0 /\ \A q \in 1 .. n : its[q] \in Items
  OBVIOUS
<1> HIDE DEF f, n, w, b
<1>3. /\ f \in FlatBatches /\ Shape(f, n)
      /\ \A q \in 1 .. n : /\ Says(f, q, its[q]) /\ RowsSay(f, q, its[q])
                           /\ ContextSays(f, q, its[q])
  BY <1>1 DEF Reads, n
<1>4. /\ b.ids = f.ids /\ b.inputIds = f.inputIds /\ b.positions = f.positions /\ b.slots = f.slots
      /\ b.queryStart = f.queryStart /\ b.seqLens = f.seqLens /\ b.context = f.context
      /\ b.contextStart = f.contextStart /\ b.isDecode = f.isDecode
      /\ b.sampleRows = f.sampleRows
      /\ b.tables = [i \in DOMAIN f.tables |-> PadTo(f.tables[i], w)]
  BY <1>2, <1>3 DEF FlatBatches
<1>5. f.tables \in Seq(Seq(Blocks)) /\ Len(f.tables) = n /\ DOMAIN f.tables = 1 .. n
  <2>1. f.tables \in Seq(Seq(Blocks))
    BY <1>3, FlatFields
  <2>2. Len(f.tables) = n
    BY <1>3 DEF Shape
  <2> QED
    BY <2>1, <2>2
<1>6. ASSUME NEW q \in 1 .. n
      PROVE  /\ f.tables[q] \in Seq(Int) /\ Len(f.tables[q]) = CeilDiv(its[q].seqLen, BlockSize)
             /\ Len(f.tables[q]) \in Nat /\ Len(f.tables[q]) > 0 /\ Len(f.tables[q]) <= MaxBlocks
             /\ \A j \in 1 .. CeilDiv(its[q].seqLen, BlockSize) : f.tables[q][j] = its[q].table[j]
             /\ MaxBlocks \in Nat
  <2>1. PICK x \in Items : x = its[q]
    BY <1>n
  <2> DEFINE v == CeilDiv(x.seqLen, BlockSize)
             t == SubSeq(x.table, 1, v)
  <2>2. /\ v \in 1 .. Len(x.table) /\ v <= MaxBlocks /\ MaxBlocks \in Nat
        /\ t \in Seq(Blocks) /\ Len(t) = v /\ \A i \in 1 .. v : t[i] = x.table[i]
    BY CutTable
  <2>3. f.tables[q] = t
    BY <1>3, <2>1 DEF Says
  <2>4. Len(x.table) \in Nat
    BY ItemFacts
  <2> HIDE DEF v, t
  <2>5. t \in Seq(Int)
    <3>1. Blocks \subseteq Int
      BY Geometry DEF Blocks
    <3>2. PICK u \in Seq(Blocks) : u = t
      BY <2>2
    <3>3. Len(u) \in Nat /\ \A i \in 1 .. Len(u) : u[i] \in Blocks
      OBVIOUS
    <3>4. u \in Seq(Int)
      <4>1. \A i \in 1 .. Len(u) : u[i] \in Int
        BY <3>1, <3>3
      <4>2. u \in [1 .. Len(u) -> Int]
        BY <4>1
      <4> QED
        BY <3>3, <4>2
    <3> QED
      BY <3>2, <3>4
  <2> QED
    BY <2>1, <2>2, <2>3, <2>4, <2>5 DEF v
<1>7. w \in 1 .. MaxBlocks /\ \A q \in 1 .. n : Len(f.tables[q]) <= w
  <2>1. MaxBlocks \in Nat
    <3>1. 1 \in 1 .. n
      BY <1>n
    <3> QED
      BY <1>6, <3>1
  <2>2. (\E q \in 1 .. n : w = Len(f.tables[q])) /\ \A q \in 1 .. n : Len(f.tables[q]) <= w
    BY <1>n, <1>5, <1>6, <2>1, WidthIsLongest DEF w
  <2> QED
    BY <1>6, <2>1, <2>2
<1>8. ASSUME NEW q \in 1 .. n
      PROVE  /\ b.tables[q] \in Seq(Int) /\ Len(b.tables[q]) = w
             /\ \A j \in 1 .. CeilDiv(its[q].seqLen, BlockSize) :
                   j <= Len(b.tables[q]) /\ b.tables[q][j] = its[q].table[j]
  <2>1. b.tables[q] = PadTo(f.tables[q], w)
    BY <1>4, <1>5
  <2>2. PICK t \in Seq(Int) : t = f.tables[q]
    BY <1>6
  <2>3. /\ PadTo(t, w) \in Seq(Int) /\ Len(PadTo(t, w)) = w
        /\ \A j \in 1 .. Len(t) : PadTo(t, w)[j] = t[j]
    BY SMTT(30), <1>7, <2>2, Padded
  <2>4. /\ Len(t) = CeilDiv(its[q].seqLen, BlockSize) /\ Len(t) \in Nat /\ Len(t) <= w
        /\ \A j \in 1 .. Len(t) : t[j] = its[q].table[j]
    BY <1>6, <1>7, <2>2
  <2>5. w \in Nat
    BY <1>7
  <2>6. ASSUME NEW j \in 1 .. CeilDiv(its[q].seqLen, BlockSize)
        PROVE  j <= Len(b.tables[q]) /\ b.tables[q][j] = its[q].table[j]
    <3>1. j \in 1 .. Len(t) /\ j <= w
      BY <2>4, <2>5
    <3> QED
      BY <2>1, <2>2, <2>3, <2>4, <3>1
  <2> QED
    BY <2>1, <2>2, <2>3, <2>6
<1>9. ArraysType(b)
  BY <1>3, <1>4, FlatFields DEF ArraysType
<1>10. DOMAIN b.tables = 1 .. n /\ Len(b.tables) = n
  BY <1>4, <1>5, <1>n
<1>11. Shape(b, n)
  BY <1>3, <1>4, <1>10 DEF Shape
<1>12. TablesType(b, n)
  BY <1>7, <1>8, <1>10 DEF TablesType
<1>13. ASSUME NEW q \in 1 .. n
       PROVE  /\ Names(b, q, its[q]) /\ Paged(b, q, its[q])
              /\ RowsSay(b, q, its[q]) /\ ContextSays(b, q, its[q])
  <2>1. Names(b, q, its[q])
    BY <1>3, <1>4 DEF Says, Names
  <2>2. Paged(b, q, its[q])
    BY <1>8 DEF Paged
  <2>3. RowsSay(b, q, its[q])
    BY SMTT(30), <1>3, <1>4 DEF RowsSay
  <2>4. ContextSays(b, q, its[q])
    BY <1>3, <1>4 DEF ContextSays
  <2> QED
    BY <2>1, <2>2, <2>3, <2>4
<1> QED
  BY <1>9, <1>11, <1>12, <1>13 DEF Batch, b, n

-----------------------------------------------------------------------------
(* The rows of a batch. *)

\* How many rows an item has.
Count(x) == x.seqLen - x.start

\* Row i is row j of request q.
IsRow(b, its, i, q, j) == q \in 1 .. Len(its) /\ j \in 1 .. Count(its[q]) /\ i = b.queryStart[q] + j

\* The numbers of a batch.
LEMMA BatchNumbers ==
    ASSUME NEW its \in Seq(Items), NEW b, Batch(b, its)
    PROVE  /\ Len(its) \in Nat /\ Len(b.inputIds) \in Nat
           /\ b.queryStart[1] = 0 /\ b.queryStart[Len(its) + 1] = Len(b.inputIds)
           /\ \A q \in 1 .. (Len(its) + 1) : b.queryStart[q] \in Nat
           /\ \A q \in 1 .. Len(its) : /\ its[q] \in Items /\ Count(its[q]) \in Nat
                                       /\ Count(its[q]) > 0
                                       /\ b.queryStart[q + 1] = b.queryStart[q] + Count(its[q])
<1>1. Len(its) \in Nat /\ \A q \in 1 .. Len(its) : its[q] \in Items
  OBVIOUS
<1>2. /\ b.inputIds \in Seq(Tokens) /\ b.queryStart \in Seq(Nat)
  BY DEF Batch, ArraysType
<1>3. /\ b.queryStart[1] = 0 /\ b.queryStart[Len(its) + 1] = Len(b.inputIds)
      /\ Len(b.queryStart) = Len(its) + 1
  BY DEF Batch, Shape
<1>4. \A q \in 1 .. (Len(its) + 1) : b.queryStart[q] \in Nat
  <2>1. PICK s \in Seq(Nat) : s = b.queryStart
    BY <1>2
  <2> QED
    BY <1>3, <2>1
<1>5. Len(b.inputIds) \in Nat
  BY <1>2
<1>6. ASSUME NEW q \in 1 .. Len(its)
      PROVE  /\ Count(its[q]) \in Nat /\ Count(its[q]) > 0
             /\ b.queryStart[q + 1] = b.queryStart[q] + Count(its[q])
  <2>1. PICK x \in Items : x = its[q]
    BY <1>1
  <2>2. x.start \in Nat /\ x.seqLen \in Nat /\ x.start < x.seqLen
    BY ItemFacts
  <2>3. b.queryStart[q + 1] = b.queryStart[q] + (x.seqLen - x.start)
    BY <2>1 DEF Batch, RowsSay
  <2> QED
    BY <2>1, <2>2, <2>3 DEF Count
<1> QED
  BY <1>1, <1>3, <1>4, <1>5, <1>6

\* Every row belongs to a request.
LEMMA RowExists ==
    ASSUME NEW its \in Seq(Items), NEW b, Batch(b, its), NEW i \in 1 .. Len(b.inputIds)
    PROVE  \E q, j : IsRow(b, its, i, q, j)
<1> DEFINE n == Len(its)
           s == b.queryStart
           P(k) == \A l \in 1 .. s[k + 1] : \E q \in 1 .. k : \E j \in 1 .. Count(its[q]) : l = s[q] + j
           K == {k \in Nat : k <= n => P(k)}
<1>1. /\ n \in Nat /\ Len(b.inputIds) \in Nat /\ s[1] = 0 /\ s[n + 1] = Len(b.inputIds)
      /\ \A q \in 1 .. (n + 1) : s[q] \in Nat
      /\ \A q \in 1 .. n : Count(its[q]) \in Nat /\ s[q + 1] = s[q] + Count(its[q])
  BY BatchNumbers
<1> HIDE DEF n, s
<1>2. 0 \in K
  <2>1. 0 + 1 = 1 /\ 1 .. 0 = {}
    OBVIOUS
  <2>2. P(0)
    BY <1>1, <2>1
  <2> QED
    BY <2>2
<1>3. ASSUME NEW k \in K PROVE k + 1 \in K
  <2> SUFFICES ASSUME k + 1 <= n, NEW l \in 1 .. s[(k + 1) + 1]
               PROVE  \E q \in 1 .. (k + 1) : \E j \in 1 .. Count(its[q]) : l = s[q] + j
    OBVIOUS
  <2>1. k \in Nat /\ k + 1 \in 1 .. n /\ k <= n /\ k + 1 \in 1 .. (k + 1)
    BY <1>1
  <2>2. /\ s[k + 1] \in Nat /\ s[(k + 1) + 1] = s[k + 1] + Count(its[k + 1])
        /\ Count(its[k + 1]) \in Nat
    BY <1>1, <2>1
  <2>3. CASE l <= s[k + 1]
    <3>1. PICK q \in 1 .. k : \E j \in 1 .. Count(its[q]) : l = s[q] + j
      <4>1. l \in 1 .. s[k + 1] /\ P(k)
        BY <2>1, <2>2, <2>3
      <4> QED
        BY <4>1
    <3>2. q \in 1 .. (k + 1)
      BY <2>1
    <3> QED
      BY <3>1, <3>2
  <2>4. CASE l > s[k + 1]
    <3>1. PICK j : j = l - s[k + 1]
      OBVIOUS
    <3>2. j \in 1 .. Count(its[k + 1]) /\ l = s[k + 1] + j
      BY <2>2, <2>4, <3>1
    <3> QED
      BY <2>1, <3>2
  <2> QED
    BY <2>2, <2>3, <2>4
<1>4. n \in K
  <2> HIDE DEF K
  <2>1. K \subseteq Nat
    BY DEF K
  <2> QED
    BY <1>1, <1>2, <1>3, <2>1, SetInduction
<1>5. \E q \in 1 .. n : \E j \in 1 .. Count(its[q]) : i = s[q] + j
  BY <1>1, <1>4
<1> QED
  BY <1>5 DEF IsRow, n, s

\* Requests take their rows in order.
LEMMA RowsInOrder ==
    ASSUME NEW its \in Seq(Items), NEW b, Batch(b, its),
           NEW q \in 1 .. Len(its), NEW u \in 1 .. Len(its), q < u
    PROVE  b.queryStart[q + 1] <= b.queryStart[u]
<1> DEFINE n == Len(its)
           s == b.queryStart
           K == {k \in Nat : q + 1 + k <= n => s[q + 1] <= s[q + 1 + k]}
<1>1. /\ n \in Nat /\ \A p \in 1 .. (n + 1) : s[p] \in Nat
      /\ \A p \in 1 .. n : Count(its[p]) \in Nat /\ s[p + 1] = s[p] + Count(its[p])
  BY BatchNumbers
<1>2. q \in 1 .. n /\ u \in 1 .. n
  OBVIOUS
<1> HIDE DEF n, s
<1>3. 0 \in K
  <2>1. q + 1 + 0 = q + 1
    BY <1>1
  <2>2. q + 1 + 0 <= n => s[q + 1] \in Nat
    BY <1>1, <1>2
  <2> QED
    BY <2>1, <2>2
<1>4. ASSUME NEW k \in K PROVE k + 1 \in K
  <2> SUFFICES ASSUME q + 1 + (k + 1) <= n PROVE s[q + 1] <= s[q + 1 + (k + 1)]
    OBVIOUS
  <2>1. PICK p \in 1 .. n : p = q + 1 + k /\ p + 1 = q + 1 + (k + 1)
    BY <1>1, <1>2
  <2>2. s[q + 1] <= s[p] /\ q + 1 \in 1 .. n
    BY <1>1, <1>2, <2>1
  <2>3. s[p + 1] = s[p] + Count(its[p]) /\ Count(its[p]) \in Nat /\ s[p] \in Nat /\ s[q + 1] \in Nat
    BY <1>1, <2>2
  <2> QED
    BY <2>1, <2>2, <2>3
<1>5. u - (q + 1) \in Nat /\ q + 1 + (u - (q + 1)) = u
  BY <1>1, <1>2
<1>6. u - (q + 1) \in K
  <2> HIDE DEF K
  <2>1. K \subseteq Nat
    BY DEF K
  <2> QED
    BY <1>3, <1>4, <1>5, <2>1, SetInduction
<1> QED
  BY <1>1, <1>2, <1>5, <1>6 DEF s

\* A row belongs to one request.
LEMMA RowUnique ==
    ASSUME NEW its \in Seq(Items), NEW b, Batch(b, its), NEW i, NEW q, NEW j, NEW u, NEW v,
           IsRow(b, its, i, q, j), IsRow(b, its, i, u, v)
    PROVE  q = u /\ j = v
<1>1. /\ q \in 1 .. Len(its) /\ j \in 1 .. Count(its[q]) /\ i = b.queryStart[q] + j
      /\ u \in 1 .. Len(its) /\ v \in 1 .. Count(its[u]) /\ i = b.queryStart[u] + v
  BY DEF IsRow
<1>2. /\ b.queryStart[q] \in Nat /\ b.queryStart[u] \in Nat
      /\ b.queryStart[q + 1] = b.queryStart[q] + Count(its[q]) /\ Count(its[q]) \in Nat
      /\ b.queryStart[u + 1] = b.queryStart[u] + Count(its[u]) /\ Count(its[u]) \in Nat
  <2>1. Len(its) \in Nat /\ q \in 1 .. (Len(its) + 1) /\ u \in 1 .. (Len(its) + 1)
    BY <1>1, BatchNumbers
  <2> QED
    BY <1>1, <2>1, BatchNumbers
<1>b. /\ b.queryStart[q] < i /\ i <= b.queryStart[q + 1] /\ b.queryStart[q + 1] \in Nat
      /\ b.queryStart[u] < i /\ i <= b.queryStart[u + 1] /\ b.queryStart[u + 1] \in Nat
      /\ b.queryStart[q] \in Nat /\ b.queryStart[u] \in Nat /\ i \in Nat
  <2>1. PICK c \in Nat, d \in Nat, s \in Nat, t \in Nat :
           c = Count(its[q]) /\ d = Count(its[u]) /\ s = b.queryStart[q] /\ t = b.queryStart[u]
    BY <1>2
  <2>2. j \in 1 .. c /\ i = s + j /\ v \in 1 .. d /\ i = t + v
    BY <1>1, <2>1
  <2>3. b.queryStart[q + 1] = s + c /\ b.queryStart[u + 1] = t + d
    BY <1>2, <2>1
  <2>4. s < i /\ i <= s + c /\ t < i /\ i <= t + d /\ i \in Nat /\ s + c \in Nat /\ t + d \in Nat
    BY <2>2
  <2> QED
    BY <2>1, <2>3, <2>4
<1>3. ~(q < u)
  <2> SUFFICES ASSUME q < u PROVE FALSE
    OBVIOUS
  <2>1. b.queryStart[q + 1] <= b.queryStart[u]
    BY <1>1, RowsInOrder
  <2> QED
    BY <1>b, <2>1
<1>4. ~(u < q)
  <2> SUFFICES ASSUME u < q PROVE FALSE
    OBVIOUS
  <2>1. b.queryStart[u + 1] <= b.queryStart[q]
    BY <1>1, RowsInOrder
  <2> QED
    BY <1>b, <2>1
<1>5. q = u
  BY <1>1, <1>3, <1>4
<1> QED
  BY <1>1, <1>2, <1>5

\* What the arrays hold at a row.
LEMMA RowContent ==
    ASSUME NEW its \in Seq(Items), NEW b, Batch(b, its), NEW i, NEW q, NEW j,
           IsRow(b, its, i, q, j)
    PROVE  LET x == its[q]
               p == x.start + j - 1
           IN  /\ q \in 1 .. Len(its) /\ x \in Items /\ p \in Nat /\ p < x.seqLen
               /\ i \in 1 .. Len(b.inputIds) /\ i \in 1 .. Len(b.positions) /\ i \in 1 .. Len(b.slots)
               /\ i > b.queryStart[q] /\ i <= b.queryStart[q + 1]
               /\ b.inputIds[i] = <<x.id, p>> /\ b.positions[i] = p
               /\ b.slots[i] = Slot(x.table, p) /\ b.slots[i] \in Slots
<1>1. /\ q \in 1 .. Len(its) /\ j \in 1 .. Count(its[q]) /\ i = b.queryStart[q] + j
  BY DEF IsRow
<1>2. PICK x \in Items : x = its[q]
  BY <1>1
<1>3. /\ x.start \in Nat /\ x.seqLen \in Nat /\ x.start < x.seqLen /\ x.slots \in Seq(Slots)
      /\ Len(x.slots) = x.seqLen - x.start /\ j \in 1 .. (x.seqLen - x.start)
      /\ x.tokens[j] = <<x.id, x.start + j - 1>> /\ x.slots[j] = Slot(x.table, x.start + j - 1)
  BY <1>1, <1>2, ItemFacts DEF Count
<1>4. /\ b.queryStart[q + 1] = b.queryStart[q] + (x.seqLen - x.start)
      /\ b.queryStart[q + 1] <= Len(b.inputIds)
      /\ b.inputIds[i] = x.tokens[j] /\ b.positions[i] = x.start + j - 1 /\ b.slots[i] = x.slots[j]
  BY <1>1, <1>2, <1>3 DEF Batch, RowsSay
<1>5. b.queryStart[q] \in Nat /\ Len(b.inputIds) \in Nat
  <2>1. Len(its) \in Nat /\ q \in 1 .. (Len(its) + 1)
    BY <1>1
  <2> QED
    BY <2>1, BatchNumbers
<1>6. Len(b.positions) = Len(b.inputIds) /\ Len(b.slots) = Len(b.inputIds)
  BY DEF Batch, Shape
<1>7. x.start + j - 1 \in Nat /\ x.start + j - 1 < x.seqLen
  BY <1>3
<1>8. i > b.queryStart[q] /\ i <= b.queryStart[q + 1] /\ i \in 1 .. Len(b.inputIds)
  <2>1. PICK c \in Nat, s \in Nat : c = x.seqLen - x.start /\ s = b.queryStart[q]
    BY <1>3, <1>5
  <2>2. j \in 1 .. c /\ i = s + j /\ b.queryStart[q + 1] = s + c
    BY <1>1, <1>3, <1>4, <2>1
  <2>3. s + c <= Len(b.inputIds)
    BY <1>4, <2>2
  <2>4. i > s /\ i <= s + c /\ i \in Nat /\ i >= 1 /\ s + c \in Nat
    BY <2>2
  <2>5. i <= Len(b.inputIds)
    BY <1>5, <2>3, <2>4
  <2> QED
    BY <1>5, <2>1, <2>2, <2>4, <2>5
<1>9. x.slots[j] \in Slots
  BY <1>3
<1> QED
  BY <1>1, <1>2, <1>3, <1>4, <1>6, <1>7, <1>8, <1>9

\* The rows that query_start_loc cuts out for a request are its rows.
LEMMA RowsOfRequest ==
    ASSUME NEW its \in Seq(Items), NEW b, Batch(b, its), NEW q \in 1 .. Len(its),
           NEW i \in (b.queryStart[q] + 1) .. b.queryStart[q + 1]
    PROVE  IsRow(b, its, i, q, i - b.queryStart[q])
<1>1. /\ b.queryStart[q] \in Nat /\ Count(its[q]) \in Nat
      /\ b.queryStart[q + 1] = b.queryStart[q] + Count(its[q])
  <2>1. Len(its) \in Nat /\ q \in 1 .. (Len(its) + 1)
    OBVIOUS
  <2> QED
    BY <2>1, BatchNumbers
<1>2. i - b.queryStart[q] \in 1 .. Count(its[q]) /\ i = b.queryStart[q] + (i - b.queryStart[q])
  BY <1>1
<1> QED
  BY <1>2 DEF IsRow

\* request_indices names the request of every row.
LEMMA RowRequest ==
    ASSUME NEW its \in Seq(Items), Len(its) > 0, NEW b, Batch(b, its), NEW i, NEW q, NEW j,
           IsRow(b, its, i, q, j)
    PROVE  RequestIndices(b)[i] = q
<1> DEFINE n == Len(its)
           s == b.queryStart
           qs == [u \in DOMAIN b.ids |-> [v \in 1 .. RowsOf(b, u) |-> u]]
<1>1. /\ n \in Nat /\ n > 0 /\ s[1] = 0 /\ \A u \in 1 .. (n + 1) : s[u] \in Nat
      /\ \A u \in 1 .. n : Count(its[u]) \in Nat /\ s[u + 1] = s[u] + Count(its[u])
  BY BatchNumbers
<1>2. DOMAIN b.ids = 1 .. n
  <2>1. b.ids \in Seq(Ids) /\ Len(b.ids) = n
    BY DEF Batch, ArraysType, Shape
  <2> QED
    BY <2>1
<1>3. ASSUME NEW u \in 1 .. n PROVE RowsOf(b, u) = Count(its[u])
  <2>1. u \in 1 .. (n + 1)
    BY <1>1
  <2>2. s[u] \in Nat /\ Count(its[u]) \in Nat /\ s[u + 1] = s[u] + Count(its[u])
    BY <1>1, <2>1
  <2>3. RowsOf(b, u) = s[u + 1] - s[u]
    BY DEF RowsOf
  <2> HIDE DEF s
  <2> QED
    BY <2>2, <2>3
<1>r. q \in 1 .. n /\ j \in 1 .. Count(its[q]) /\ i = s[q] + j
  BY DEF IsRow
<1>f. RequestIndices(b) = FlattenSeq(qs)
  BY DEF RequestIndices
<1> HIDE DEF n, s
<1>4. ASSUME NEW u \in 1 .. n
      PROVE  /\ qs[u] \in Seq(Nat) /\ Len(qs[u]) = Count(its[u])
             /\ \A v \in 1 .. Count(its[u]) : qs[u][v] = u
  <2>1. PICK c \in Nat : c = Count(its[u])
    BY <1>1
  <2>2. PICK t : t = [v \in 1 .. c |-> u]
    OBVIOUS
  <2>3. qs[u] = t
    BY <1>2, <1>3, <2>1, <2>2
  <2>4. t \in Seq(Nat) /\ Len(t) = c /\ \A v \in 1 .. c : t[v] = u
    BY <1>1, <2>2
  <2> QED
    BY <2>1, <2>3, <2>4
<1>5. qs \in Seq(Seq(Nat)) /\ Len(qs) = n
  <2>1. DOMAIN qs = 1 .. n
    BY <1>2
  <2>2. qs \in [1 .. n -> Seq(Nat)]
    BY <1>2, <1>4, <2>1
  <2> HIDE DEF qs
  <2> QED
    BY <1>1, <2>2
<1> HIDE DEF qs
<1>h. PICK h : Concatenates(h, qs, Nat) /\ FlattenSeq(qs) = h[Len(qs)]
  BY <1>1, <1>5, FlattenSteps
<1>6. /\ h \in [0 .. n -> Seq(Nat)] /\ h[0] = <<>> /\ FlattenSeq(qs) = h[n]
      /\ \A k \in 1 .. n : h[k] = h[k - 1] \o qs[k]
  BY <1>h, <1>5 DEF Concatenates
<1> DEFINE P(k) == /\ Len(h[k]) = s[k + 1]
                   /\ \A u \in 1 .. k : \A v \in 1 .. Count(its[u]) :
                         s[u] + v \in 1 .. s[k + 1] /\ h[k][s[u] + v] = u
           K == {k \in Nat : k <= n => P(k)}
<1>7. 0 \in K
  <2>1. 0 + 1 = 1 /\ 1 .. 0 = {} /\ Len(<<>>) = 0
    OBVIOUS
  <2>2. P(0)
    BY <1>1, <1>6, <2>1
  <2> QED
    BY <2>2
<1>8. ASSUME NEW k \in K PROVE k + 1 \in K
  <2> SUFFICES ASSUME k + 1 <= n PROVE P(k + 1)
    OBVIOUS
  <2>0. k \in Nat
    OBVIOUS
  <2>1. k \in Nat /\ k + 1 \in 1 .. n /\ (k + 1) - 1 = k /\ k <= n /\ k \in 0 .. n /\ k + 1 \in 1 .. (n + 1)
    <3> HIDE DEF K, P
    <3> QED
      BY <1>1, <2>0
  <2>2. P(k)
    BY <2>1
  <2>3. PICK a \in Seq(Nat), t \in Seq(Nat) : a = h[k] /\ t = qs[k + 1]
    BY <1>4, <1>6, <2>1
  <2>4. h[k + 1] = a \o t
    BY <1>6, <2>1, <2>3
  <2>5. /\ Len(a \o t) = Len(a) + Len(t) /\ Len(a) \in Nat /\ Len(t) \in Nat
        /\ \A l \in 1 .. Len(a) : (a \o t)[l] = a[l]
        /\ \A l \in 1 .. Len(t) : (a \o t)[Len(a) + l] = t[l]
    BY Joined
  <2>6. Len(a) = s[k + 1] /\ Len(t) = Count(its[k + 1]) /\ \A v \in 1 .. Len(t) : t[v] = k + 1
    BY <1>4, <2>1, <2>2, <2>3
  <2>7. s[(k + 1) + 1] = s[k + 1] + Count(its[k + 1])
    BY <1>1, <2>1
  <2>8. ASSUME NEW u \in 1 .. (k + 1), NEW v \in 1 .. Count(its[u])
        PROVE  s[u] + v \in 1 .. s[(k + 1) + 1] /\ h[k + 1][s[u] + v] = u
    <3>1. CASE u = k + 1
      <4>1. v \in 1 .. Len(t) /\ s[u] = Len(a) /\ s[(k + 1) + 1] = Len(a) + Len(t)
        BY <2>6, <2>7, <3>1
      <4>2. h[k + 1][Len(a) + v] = u
        BY <2>4, <2>5, <2>6, <3>1, <4>1
      <4> QED
        BY SMTT(30), <2>5, <4>1, <4>2
    <3>2. CASE u \in 1 .. k
      <4>1. s[u] + v \in 1 .. Len(a) /\ a[s[u] + v] = u
        BY <2>2, <2>3, <2>6, <3>2
      <4>2. h[k + 1][s[u] + v] = u
        BY <2>4, <2>5, <4>1
      <4>3. s[(k + 1) + 1] = Len(a) + Len(t)
        BY <2>6, <2>7
      <4> QED
        BY <2>5, <4>1, <4>2, <4>3
    <3> QED
      BY <2>1, <3>1, <3>2
  <2>9. Len(h[k + 1]) = s[(k + 1) + 1]
    BY <2>4, <2>5, <2>6, <2>7
  <2> QED
    BY <2>8, <2>9
<1>9. n \in K
  <2> HIDE DEF K
  <2>1. K \subseteq Nat
    BY DEF K
  <2> QED
    BY <1>1, <1>7, <1>8, <2>1, SetInduction
<1>10. h[n][s[q] + j] = q
  BY <1>1, <1>9, <1>r
<1> QED
  BY <1>6, <1>10, <1>f, <1>r

\* A slice of an array.
LEMMA Slice ==
    ASSUME NEW T, NEW s \in Seq(T), NEW a \in Nat, NEW k \in Nat, a + k <= Len(s)
    PROVE  SubSeq(s, a + 1, a + k) = [p \in 1 .. k |-> s[a + p]]
<1>1. PICK t : t = SubSeq(s, a + 1, a + k)
  OBVIOUS
<1>2. t \in Seq(T) /\ Len(t) = k
  BY <1>1
<1>3. \A p \in 1 .. k : t[p] = s[a + p]
  BY <1>1
<1>4. t = [p \in 1 .. k |-> s[a + p]]
  <2>1. DOMAIN t = 1 .. k /\ t = [p \in DOMAIN t |-> t[p]]
    BY <1>2
  <2> QED
    BY <1>3, <2>1
<1> QED
  BY <1>1, <1>4

\* The reference backend's slice is the request's context.
LEMMA ReferenceContext ==
    ASSUME NEW its \in Seq(Items), NEW b, Batch(b, its), NEW q \in 1 .. Len(its)
    PROVE  ReferenceReads(b, q) = ContextSlots(its[q].table, its[q].seqLen)
<1>1. PICK x \in Items : x = its[q]
  OBVIOUS
<1>2. x.seqLen \in Nat
  BY ItemFacts
<1>3. b.context \in Seq(Slots) /\ b.contextStart \in Seq(Nat) /\ Len(b.contextStart) = Len(its) + 1
  BY DEF Batch, ArraysType, Shape
<1>4. /\ b.contextStart[q + 1] = b.contextStart[q] + x.seqLen
      /\ b.contextStart[q + 1] <= Len(b.context)
      /\ \A p \in 1 .. x.seqLen : b.context[b.contextStart[q] + p] = Slot(x.table, p - 1)
  BY <1>1 DEF Batch, ContextSays
<1>5. PICK a \in Nat : a = b.contextStart[q]
  <2>1. Len(its) \in Nat /\ q \in 1 .. (Len(its) + 1)
    OBVIOUS
  <2> QED
    BY <1>3, <2>1
<1>6. PICK s \in Seq(Slots), k \in Nat : s = b.context /\ k = x.seqLen /\ a + k <= Len(s)
  BY <1>2, <1>3, <1>4, <1>5
<1>7. ReferenceReads(b, q) = SubSeq(s, a + 1, a + k)
  BY <1>4, <1>5, <1>6 DEF ReferenceReads
<1>8. SubSeq(s, a + 1, a + k) = [p \in 1 .. k |-> s[a + p]]
  BY <1>6, Slice
<1>9. [p \in 1 .. k |-> s[a + p]] = [p \in 1 .. k |-> Slot(x.table, p - 1)]
  BY <1>4, <1>5, <1>6
<1> QED
  BY <1>1, <1>6, <1>7, <1>8, <1>9 DEF ContextSlots

\* Two tables that agree on the blocks of a context give it the same slots.
LEMMA SameSlots ==
    ASSUME NEW x \in Items, NEW t, NEW k \in 0 .. x.seqLen,
           \A j \in 1 .. CeilDiv(x.seqLen, BlockSize) : t[j] = x.table[j]
    PROVE  ContextSlots(t, k) = ContextSlots(x.table, k)
<1>1. ASSUME NEW p \in 1 .. k PROVE Slot(t, p - 1) = Slot(x.table, p - 1)
  <2>1. p \in 1 .. x.seqLen
    BY ItemFacts
  <2>2. ((p - 1) \div BlockSize) + 1 \in 1 .. CeilDiv(x.seqLen, BlockSize)
    BY <2>1, CutTable
  <2> QED
    BY <2>2 DEF Slot
<1> QED
  BY <1>1 DEF ContextSlots

\* The metadata of a batch.
LEMMA MetadataFields ==
    ASSUME NEW b
    PROVE  /\ Metadata(b).positions = b.positions /\ Metadata(b).slots = b.slots
           /\ Metadata(b).queryStart = b.queryStart /\ Metadata(b).seqLens = b.seqLens
           /\ Metadata(b).tables = [q \in DOMAIN b.tables |-> PadTo(b.tables[q], MaxBlocks)]
           /\ Metadata(b).requestOf = RequestIndices(b) /\ Metadata(b).isDecode = b.isDecode
           /\ Metadata(b).active = [i \in 1 .. NumTokens(b) |-> TRUE]
BY DEF Metadata

\* The tables of the metadata hold the blocks of every context.
LEMMA MetadataTables ==
    ASSUME NEW its \in Seq(Items), NEW b, Batch(b, its), NEW q \in 1 .. Len(its)
    PROVE  \A j \in 1 .. CeilDiv(its[q].seqLen, BlockSize) : Metadata(b).tables[q][j] = its[q].table[j]
<1>1. PICK w \in 1 .. MaxBlocks : /\ DOMAIN b.tables = 1 .. Len(its)
                                  /\ b.tables[q] \in Seq(Int) /\ Len(b.tables[q]) = w
  BY DEF Batch, TablesType
<1>2. Metadata(b).tables[q] = PadTo(b.tables[q], MaxBlocks)
  <2>1. Metadata(b).tables = [u \in DOMAIN b.tables |-> PadTo(b.tables[u], MaxBlocks)]
    BY MetadataFields
  <2> QED
    BY <1>1, <2>1
<1>3. MaxBlocks \in Nat
  <2>1. its[q] \in Items
    OBVIOUS
  <2> QED
    BY <2>1, CutTable
<1>4. PICK t \in Seq(Int) : t = b.tables[q] /\ Len(t) <= MaxBlocks
  BY <1>1, <1>3
<1>5. \A j \in 1 .. Len(t) : PadTo(t, MaxBlocks)[j] = t[j]
  BY <1>3, <1>4, Padded
<1>6. \A j \in 1 .. CeilDiv(its[q].seqLen, BlockSize) : j <= Len(t) /\ t[j] = its[q].table[j]
  BY <1>4 DEF Batch, Paged
<1>7. CeilDiv(its[q].seqLen, BlockSize) \in Nat
  <2>1. its[q] \in Items /\ its[q].seqLen \in Nat
    BY ItemFacts
  <2> QED
    BY <2>1, CeilDivRoom
<1>8. ASSUME NEW j \in 1 .. CeilDiv(its[q].seqLen, BlockSize) PROVE j \in 1 .. Len(t)
  BY <1>6, <1>7
<1> QED
  BY <1>2, <1>4, <1>5, <1>6, <1>8

\* A decode item has one row, at the end of its context.
LEMMA DecodeItem ==
    ASSUME NEW x \in Items, IsDecode(x)
    PROVE  Count(x) = 1 /\ x.seqLen = x.start + 1
<1>1. x.seqLen \in Nat /\ x.start \in Nat /\ Len(x.tokens) = x.seqLen - x.start
  BY ItemFacts
<1>2. Len(x.tokens) = 1
  BY DEF IsDecode
<1>3. PICK e \in Nat, a \in Nat : e = x.seqLen /\ a = x.start /\ e - a = 1
  BY <1>1, <1>2
<1>4. e = a + 1
  BY <1>3
<1> QED
  BY <1>3, <1>4 DEF Count

\* Both backends read the row's own context.
LEMMA EagerRow ==
    ASSUME NEW its \in Seq(Items), Len(its) > 0, NEW b, Batch(b, its), NEW i, NEW q, NEW j,
           IsRow(b, its, i, q, j)
    PROVE  LET m == Metadata(b)
               own == ContextSlots(its[q].table, b.positions[i] + 1)
           IN  Computed(m, i) /\ TorchReads(m, i) = own /\ CustomReads(m, i) = own
<1> DEFINE m == Metadata(b)
<1>1. PICK x \in Items : x = its[q]
  BY RowContent
<1>2. /\ q \in 1 .. Len(its) /\ i \in 1 .. Len(b.inputIds) /\ b.positions[i] = x.start + j - 1
      /\ i > b.queryStart[q] /\ i <= b.queryStart[q + 1]
      /\ x.start + j - 1 \in Nat /\ x.start + j - 1 < x.seqLen
  BY <1>1, RowContent
<1>3. /\ j \in 1 .. Count(x) /\ i = b.queryStart[q] + j
  BY <1>1 DEF IsRow
<1>4. /\ x.seqLen \in Nat /\ x.start \in Nat
  BY ItemFacts
<1>5. /\ m.positions = b.positions /\ m.queryStart = b.queryStart /\ m.seqLens = b.seqLens
      /\ m.requestOf = RequestIndices(b) /\ m.isDecode = b.isDecode
      /\ m.active = [l \in 1 .. NumTokens(b) |-> TRUE]
  BY MetadataFields
<1>6. \A l \in 1 .. CeilDiv(x.seqLen, BlockSize) : m.tables[q][l] = x.table[l]
  BY <1>1, <1>2, MetadataTables
<1> HIDE DEF m
<1>7. m.requestOf[i] = q
  BY <1>5, RowRequest
<1>8. m.isDecode[q] = IsDecode(x) /\ m.seqLens[q] = x.seqLen
  BY <1>1, <1>2, <1>5 DEF Batch, Names
<1>9. IsDecode(x) => j = 1 /\ x.seqLen = b.positions[i] + 1
  BY <1>2, <1>3, <1>4, DecodeItem
<1>10. b.positions[i] + 1 \in 0 .. x.seqLen
  BY <1>2, <1>4
<1>11. ContextSlots(m.tables[q], b.positions[i] + 1) = ContextSlots(x.table, b.positions[i] + 1)
  BY <1>6, <1>10, SameSlots
<1>12. CustomReads(m, i) = ContextSlots(x.table, b.positions[i] + 1)
  BY <1>5, <1>7, <1>8, <1>9, <1>11 DEF CustomReads
<1>13. Computed(m, i)
  <2>1. m.active[i]
    BY <1>2, <1>5 DEF NumTokens
  <2>2. IsDecode(x) => i = m.queryStart[q] + 1
    BY <1>3, <1>5, <1>9
  <2> QED
    BY <1>7, <1>8, <2>1, <2>2 DEF Computed
<1>14. TorchReads(m, i) = ContextSlots(x.table, b.positions[i] + 1)
  <2> DEFINE c == CHOOSE u \in DOMAIN m.seqLens : m.queryStart[u] < i /\ i <= m.queryStart[u + 1]
  <2>1. DOMAIN m.seqLens = 1 .. Len(its)
    <3>1. b.seqLens \in Seq(Nat) /\ Len(b.seqLens) = Len(its)
      BY DEF Batch, ArraysType, Shape
    <3> QED
      BY <1>5, <3>1
  <2>2. b.queryStart[q] \in Nat
    <3>1. Len(its) \in Nat /\ q \in 1 .. (Len(its) + 1)
      BY <1>2
    <3> QED
      BY <3>1, BatchNumbers
  <2>3. m.queryStart[q] < i /\ i <= m.queryStart[q + 1]
    BY <1>2, <1>3, <1>5, <2>2
  <2>4. c \in 1 .. Len(its) /\ m.queryStart[c] < i /\ i <= m.queryStart[c + 1]
    BY <1>2, <2>1, <2>3
  <2>5. TorchReads(m, i) = ContextSlots(m.tables[c], NatMin(m.seqLens[c], m.positions[i] + 1))
    BY DEF TorchReads
  <2> HIDE DEF c
  <2>6. c = q
    <3>1. /\ b.queryStart[c] \in Nat /\ b.queryStart[c + 1] \in Nat
      <4>1. Len(its) \in Nat /\ c \in 1 .. (Len(its) + 1) /\ c + 1 \in 1 .. (Len(its) + 1)
        BY <2>4
      <4> QED
        BY <4>1, BatchNumbers
    <3>2. i \in (b.queryStart[c] + 1) .. b.queryStart[c + 1]
      BY <1>2, <1>5, <2>4, <3>1
    <3>3. IsRow(b, its, i, c, i - b.queryStart[c])
      BY <2>4, <3>2, RowsOfRequest
    <3> QED
      BY <3>3, RowUnique
  <2>7. NatMin(m.seqLens[q], m.positions[i] + 1) = b.positions[i] + 1
    BY <1>4, <1>5, <1>8, <1>10 DEF NatMin
  <2> QED
    BY <1>11, <2>5, <2>6, <2>7
<1> QED
  BY <1>1, <1>12, <1>13, <1>14 DEF m

\* The item of a request that is in the batch.
LEMMA ItemOfRequest ==
    ASSUME ItemsInv, NEW q \in DOMAIN items
    PROVE  ItemOf(items[q].id) = items[q]
<1>1. \A i \in DOMAIN items : items[i].id = items[q].id => i = q
  BY DEF ItemsInv
<1>2. (CHOOSE i \in DOMAIN items : items[i].id = items[q].id) = q
  BY <1>1
<1> QED
  BY <1>2 DEF ItemOf

\* The items of a batch.
LEMMA BatchInHand ==
    ASSUME ItemsInv
    PROVE  /\ items \in Seq(Items) /\ Len(items) \in Nat /\ DOMAIN items = 1 .. Len(items)
           /\ items # <<>> => Len(items) > 0 /\ Batch(Flatten(items), items)
<1>1. items \in Seq(Items)
  BY DEF ItemsInv
<1>2. PICK s \in Seq(Items) : s = items
  BY <1>1
<1>3. Len(s) \in Nat /\ DOMAIN s = 1 .. Len(s) /\ (s # <<>> => Len(s) > 0)
  OBVIOUS
<1>4. s # <<>> => Batch(Flatten(s), s)
  BY <1>3, FlattenReads
<1> QED
  BY <1>2, <1>3, <1>4

\* The flat arrays match the items.
LEMMA FlatArrays == ItemsInv => FlatArraysMatchItems
<1> SUFFICES ASSUME ItemsInv, NEW q \in DOMAIN items
             PROVE LET b == Flatten(items)
                       item == items[q]
                       rows == (b.queryStart[q] + 1) .. b.queryStart[q + 1]
                   IN  /\ b.ids[q] = item.id
                       /\ Cardinality(rows) = Len(item.tokens)
                       /\ \A i \in rows :
                             /\ b.inputIds[i] = <<item.id, b.positions[i]>>
                             /\ b.slots[i] = Slot(item.table, b.positions[i])
                       /\ ReferenceReads(b, q) = ContextSlots(item.table, item.seqLen)
                       /\ item.sample =>
                             /\ b.sampleRows[q] + 1 \in rows
                             /\ b.positions[b.sampleRows[q] + 1] = item.seqLen - 1
  BY DEF FlatArraysMatchItems
<1> DEFINE b == Flatten(items)
           rows == (b.queryStart[q] + 1) .. b.queryStart[q + 1]
<1>1. /\ items \in Seq(Items) /\ q \in 1 .. Len(items) /\ Len(items) \in Nat
      /\ Batch(b, items)
  <2>1. items # <<>>
    OBVIOUS
  <2> QED
    BY <2>1, BatchInHand
<1> HIDE DEF b
<1>2. PICK x \in Items : x = items[q]
  BY <1>1
<1>3. /\ x.seqLen \in Nat /\ x.start \in Nat /\ x.start < x.seqLen /\ Len(x.tokens) = x.seqLen - x.start
  BY ItemFacts
<1>4. /\ b.queryStart[q] \in Nat /\ b.queryStart[q + 1] \in Nat
      /\ b.queryStart[q + 1] = b.queryStart[q] + Count(x) /\ Count(x) \in Nat /\ Count(x) > 0
  <2>1. q \in 1 .. (Len(items) + 1) /\ q + 1 \in 1 .. (Len(items) + 1)
    BY <1>1
  <2> QED
    BY <1>1, <1>2, <2>1, BatchNumbers
<1>5. Cardinality(rows) = Len(x.tokens)
  <2>1. PICK a \in Nat, c \in Nat : a = b.queryStart[q] /\ c = Count(x) /\ c > 0
    BY <1>4
  <2>2. rows = (a + 1) .. (a + c)
    BY <1>4, <2>1
  <2>3. Cardinality((a + 1) .. (a + c)) = c
    <3>1. a + 1 \in Int /\ a + c \in Int /\ ~(a + 1 > a + c) /\ (a + c) - (a + 1) + 1 = c
      BY <2>1
    <3> QED
      BY <3>1, FS_Interval
  <2>4. c = Len(x.tokens)
    BY <1>3, <2>1 DEF Count
  <2> QED
    BY <2>2, <2>3, <2>4
<1>6. ASSUME NEW i \in rows
      PROVE  /\ b.inputIds[i] = <<x.id, b.positions[i]>> /\ b.slots[i] = Slot(x.table, b.positions[i])
  <2>1. IsRow(b, items, i, q, i - b.queryStart[q])
    BY <1>1, RowsOfRequest
  <2> QED
    BY <1>1, <1>2, <2>1, RowContent
<1>7. ReferenceReads(b, q) = ContextSlots(x.table, x.seqLen)
  BY <1>1, <1>2, ReferenceContext
<1>8. b.ids[q] = x.id /\ b.sampleRows[q] = IF x.sample THEN b.queryStart[q + 1] - 1 ELSE -1
  BY <1>1, <1>2 DEF Batch, Names
<1>9. ASSUME x.sample
      PROVE  b.sampleRows[q] + 1 \in rows /\ b.positions[b.sampleRows[q] + 1] = x.seqLen - 1
  <2>1. b.sampleRows[q] + 1 = b.queryStart[q + 1]
    BY <1>4, <1>8, <1>9
  <2>2. b.queryStart[q + 1] \in rows
    BY <1>4
  <2>3. IsRow(b, items, b.queryStart[q + 1], q, Count(x))
    BY <1>1, <1>2, <1>4 DEF IsRow
  <2>4. b.positions[b.queryStart[q + 1]] = x.start + Count(x) - 1
    BY <1>1, <1>2, <2>3, RowContent
  <2>5. x.start + Count(x) - 1 = x.seqLen - 1
    BY <1>3 DEF Count
  <2> QED
    BY <2>1, <2>2, <2>4, <2>5
<1> QED
  BY <1>2, <1>5, <1>6, <1>7, <1>8, <1>9 DEF b

\* The two backends agree.
LEMMA SameContext == ItemsInv => BackendsReadTheSameContext
<1> DEFINE b == Flatten(items)
           m == Metadata(b)
<1> SUFFICES ASSUME ItemsInv, items # <<>>, NEW i \in DOMAIN b.inputIds
             PROVE LET own == ContextSlots(ItemOf(b.inputIds[i][1]).table, b.positions[i] + 1)
                   IN  Computed(m, i) /\ TorchReads(m, i) = own /\ CustomReads(m, i) = own
  BY DEF BackendsReadTheSameContext
<1> HIDE DEF b, m
<1>1. /\ items \in Seq(Items) /\ Len(items) > 0 /\ DOMAIN items = 1 .. Len(items) /\ Batch(b, items)
  BY BatchInHand DEF b
<1>2. i \in 1 .. Len(b.inputIds)
  <2>1. b.inputIds \in Seq(Tokens)
    BY <1>1 DEF Batch, ArraysType
  <2> QED
    BY <2>1
<1>3. PICK q, j : IsRow(b, items, i, q, j)
  BY <1>1, <1>2, RowExists
<1>4. /\ q \in DOMAIN items /\ b.inputIds[i] = <<items[q].id, items[q].start + j - 1>>
  BY <1>1, <1>3, RowContent
<1>5. b.inputIds[i][1] = items[q].id
  BY <1>4
<1>6. ItemOf(b.inputIds[i][1]) = items[q]
  BY <1>4, <1>5, ItemOfRequest
<1>7. /\ Computed(m, i)
      /\ TorchReads(m, i) = ContextSlots(items[q].table, b.positions[i] + 1)
      /\ CustomReads(m, i) = ContextSlots(items[q].table, b.positions[i] + 1)
  BY <1>1, <1>3, EagerRow DEF m
<1> QED
  BY <1>6, <1>7

-----------------------------------------------------------------------------
(* The capture sizes. *)

\* The sizes that the Worker keeps.
LEMMA SizesFacts == Sizes \in Seq(Nat) /\ \A i \in DOMAIN Sizes : Sizes[i] \in 1 .. MaxNumSeqs
<1>1. CaptureSizes \in Seq(Nat)
  <2>1. CaptureSizes \in Seq(Nat \ {0})
    BY RunnerConfig
  <2>2. PICK s \in Seq(Nat \ {0}) : s = CaptureSizes
    BY <2>1
  <2>3. s \in [1 .. Len(s) -> Nat] /\ Len(s) \in Nat
    OBVIOUS
  <2>4. s \in Seq(Nat)
    BY <2>3
  <2> QED
    BY <2>2, <2>4
<1> QED
  BY <1>1, OnlyKept DEF Sizes

\* The dispatcher picks a size that fits.
LEMMA CaptureFits ==
    ASSUME NEW b, WantsGraph(b), NumTokens(b) \in Nat, NumRequests(b) \in Nat
    PROVE  /\ CaptureSize(b) \in Range(Sizes) /\ CaptureSize(b) \in 1 .. MaxNumSeqs
           /\ CaptureSize(b) \in Nat /\ NumRequests(b) <= CaptureSize(b)
<1> DEFINE n == NatMax(NumTokens(b), NumRequests(b))
           S == {i \in DOMAIN Sizes : Sizes[i] >= n}
           c == CHOOSE i \in DOMAIN Sizes : Sizes[i] >= n /\ \A j \in 1 .. (i - 1) : Sizes[j] < n
<1>1. n \in Nat /\ NumRequests(b) <= n
  BY DEF NatMax
<1>2. PICK s \in Seq(Nat) : s = Sizes
  BY SizesFacts
<1>3. Len(s) \in Nat /\ DOMAIN s = 1 .. Len(s) /\ \A i \in 1 .. Len(s) : s[i] \in Nat
  OBVIOUS
<1>4. S \subseteq Nat
  BY <1>2, <1>3
<1>5. S # {}
  BY DEF WantsGraph
<1> HIDE DEF n
<1>6. PICK i \in S : \A j \in S : i <= j
  <2> HIDE DEF S
  <2> QED
    BY <1>4, <1>5, FirstIndex
<1>7. i \in 1 .. Len(s) /\ Sizes[i] >= n
  BY <1>2, <1>3
<1>8. ASSUME NEW j \in 1 .. (i - 1) PROVE Sizes[j] < n
  <2>1. j \in 1 .. Len(s) /\ j < i
    BY <1>3, <1>7
  <2>2. j \notin S
    BY <1>3, <1>6, <1>7, <2>1
  <2> QED
    BY <1>1, <1>2, <1>3, <2>1, <2>2
<1>9. c \in DOMAIN Sizes /\ Sizes[c] >= n
  BY <1>2, <1>3, <1>7, <1>8
<1>10. CaptureSize(b) = Sizes[c]
  BY DEF CaptureSize, n
<1> HIDE DEF c, S
<1>11. Sizes[c] \in 1 .. MaxNumSeqs /\ Sizes[c] \in Range(Sizes) /\ Sizes[c] \in Nat
  BY <1>9, SizesFacts, RunnerConfig DEF Range
<1>12. NumRequests(b) <= Sizes[c]
  BY <1>1, <1>9, <1>11
<1> QED
  BY <1>10, <1>11, <1>12

\* The numbers of tokens and requests of a batch.
LEMMA BatchCounts ==
    ASSUME NEW its \in Seq(Items), NEW b, Batch(b, its)
    PROVE  NumTokens(b) = Len(b.inputIds) /\ NumTokens(b) \in Nat
           /\ NumRequests(b) = Len(its) /\ NumRequests(b) \in Nat
<1>1. Len(b.ids) = Len(its) /\ Len(its) \in Nat
  BY DEF Batch, Shape
<1>2. Len(b.inputIds) \in Nat
  BY BatchNumbers
<1> QED
  BY <1>1, <1>2 DEF NumTokens, NumRequests

\* No batch of the engine is refused.
LEMMA NeverRefused == ItemsInv => RunnerNeverRefuses
<1> DEFINE b == Flatten(items)
<1> SUFFICES ASSUME ItemsInv, items # <<>> PROVE ~Refused(b)
  BY DEF RunnerNeverRefuses
<1> HIDE DEF b
<1>1. /\ items \in Seq(Items) /\ Len(items) > 0 /\ Len(items) \in Nat /\ Batch(b, items)
  BY BatchInHand DEF b
<1>2. MaxBlocks \in Nat /\ Len(b.tables[1]) \in Nat /\ Len(b.tables[1]) <= MaxBlocks
  <2>1. 1 \in 1 .. Len(items)
    BY <1>1
  <2>2. PICK w \in 1 .. MaxBlocks : Len(b.tables[1]) = w
    BY <1>1, <2>1 DEF Batch, TablesType
  <2>3. MaxBlocks \in Nat
    BY <1>1, <2>1, CutTable
  <2> QED
    BY <2>2, <2>3
<1>4. ~(Len(b.tables[1]) > MaxBlocks)
  BY <1>2
<1>5. ASSUME WantsGraph(b)
      PROVE  ~(CaptureSize(b) > MaxNumSeqs) /\ UniformDecode(b) /\ ~(NumRequests(b) > CaptureSize(b))
  <2>1. NumRequests(b) \in Nat /\ NumTokens(b) \in Nat
    BY <1>1, BatchCounts
  <2>2. /\ CaptureSize(b) \in 1 .. MaxNumSeqs /\ CaptureSize(b) \in Nat
        /\ NumRequests(b) <= CaptureSize(b)
    BY <1>5, <2>1, CaptureFits
  <2>3. UniformDecode(b)
    BY <1>5 DEF WantsGraph
  <2> QED
    BY <2>1, <2>2, <2>3, RunnerConfig
<1> QED
  BY <1>4, <1>5 DEF Refused

\* A uniform decode batch has one row per request.
LEMMA OneRowPerRequest ==
    ASSUME NEW its \in Seq(Items), NEW b, Batch(b, its), UniformDecode(b)
    PROVE  /\ Len(b.inputIds) = Len(its)
           /\ \A q \in 1 .. Len(its) : IsDecode(its[q]) /\ IsRow(b, its, q, q, 1)
<1> DEFINE n == Len(its)
           s == b.queryStart
           K == {k \in Nat : k <= n => s[k + 1] = k}
<1>1. /\ n \in Nat /\ s[1] = 0 /\ s[n + 1] = Len(b.inputIds)
      /\ \A q \in 1 .. n : its[q] \in Items /\ s[q + 1] = s[q] + Count(its[q])
  BY BatchNumbers
<1>2. ASSUME NEW q \in 1 .. n PROVE IsDecode(its[q]) /\ Count(its[q]) = 1
  <2>1. b.isDecode \in Seq(BOOLEAN) /\ Len(b.isDecode) = n
    BY DEF Batch, ArraysType, Shape
  <2>2. q \in DOMAIN b.isDecode
    BY <2>1
  <2>3. b.isDecode[q] = IsDecode(its[q])
    BY DEF Batch, Names
  <2>4. IsDecode(its[q])
    BY <2>2, <2>3 DEF UniformDecode
  <2> QED
    BY <1>1, <2>4, DecodeItem
<1> HIDE DEF n, s
<1>3. 0 \in K
  BY <1>1
<1>4. ASSUME NEW k \in K PROVE k + 1 \in K
  <2> SUFFICES ASSUME k + 1 <= n PROVE s[(k + 1) + 1] = k + 1
    OBVIOUS
  <2>1. k + 1 \in 1 .. n /\ s[k + 1] = k
    BY <1>1
  <2>2. s[(k + 1) + 1] = s[k + 1] + Count(its[k + 1])
    BY <1>1, <2>1
  <2> QED
    BY <1>2, <2>1, <2>2
<1>5. \A k \in Nat : k \in K
  <2> HIDE DEF K
  <2>1. K \subseteq Nat
    BY DEF K
  <2> QED
    BY <1>3, <1>4, <2>1, SetInduction
<1>6. Len(b.inputIds) = n
  BY <1>1, <1>5
<1>7. ASSUME NEW q \in 1 .. n PROVE IsRow(b, its, q, q, 1)
  <2>1. q - 1 \in Nat /\ q - 1 <= n /\ (q - 1) + 1 = q
    BY <1>1
  <2>2. s[q] = q - 1
    BY <1>5, <2>1
  <2>3. q = s[q] + 1 /\ 1 \in 1 .. Count(its[q])
    BY <1>2, <2>1, <2>2
  <2> QED
    BY <2>3 DEF IsRow, n, s
<1> QED
  BY <1>2, <1>6, <1>7 DEF n

-----------------------------------------------------------------------------
(* What a forward pass writes. *)

\* Different positions of running requests have different slots.
LEMMA SlotsApart ==
    ASSUME RequestsInv, NEW r \in Running, NEW s \in Running,
           NEW p \in 0 .. (Room(reqs[r].table) - 1), NEW o \in 0 .. (Room(reqs[s].table) - 1),
           Slot(reqs[r].table, p) = Slot(reqs[s].table, o)
    PROVE  r = s /\ p = o
<1>1. reqs[r].table \in Seq(Blocks) /\ reqs[s].table \in Seq(Blocks)
  BY DEF RequestsInv, Running, Requests
<1>2. PICK t \in Seq(Blocks), u \in Seq(Blocks) : t = reqs[r].table /\ u = reqs[s].table
  BY <1>1
<1>3. /\ Len(t) \in Nat /\ DOMAIN t = 1 .. Len(t) /\ \A i \in 1 .. Len(t) : t[i] \in Blocks
      /\ Len(u) \in Nat /\ DOMAIN u = 1 .. Len(u) /\ \A i \in 1 .. Len(u) : u[i] \in Blocks
  OBVIOUS
<1>4. Room(t) \in Nat /\ Room(u) \in Nat /\ p \in 0 .. (Room(t) - 1) /\ o \in 0 .. (Room(u) - 1)
  BY <1>2, <1>3, Geometry DEF Room
<1> DEFINE i == (p \div BlockSize) + 1
           j == (o \div BlockSize) + 1
<1>5. i \in 1 .. Len(t) /\ j \in 1 .. Len(u)
  <2>1. p \in 0 .. (Len(t) * BlockSize - 1) /\ o \in 0 .. (Len(u) * BlockSize - 1)
    BY <1>4 DEF Room
  <2> QED
    BY <1>3, <2>1, PositionInTable
<1>6. /\ p \div BlockSize \in Nat /\ p % BlockSize \in 0 .. (BlockSize - 1)
      /\ p = (p \div BlockSize) * BlockSize + (p % BlockSize)
      /\ o \div BlockSize \in Nat /\ o % BlockSize \in 0 .. (BlockSize - 1)
      /\ o = (o \div BlockSize) * BlockSize + (o % BlockSize)
  <2>1. p \in Nat /\ o \in Nat
    BY <1>4
  <2> QED
    BY <2>1, PositionParts
<1>7. t[i] \in Nat /\ u[j] \in Nat
  <2> HIDE DEF i, j
  <2>1. t[i] \in Blocks /\ u[j] \in Blocks
    BY <1>3, <1>5
  <2> QED
    BY <2>1, Geometry DEF Blocks
<1>8. t[i] * BlockSize + (p % BlockSize) = u[j] * BlockSize + (o % BlockSize)
  BY <1>2 DEF Slot
<1>9. t[i] = u[j] /\ p % BlockSize = o % BlockSize
  <2> HIDE DEF i, j
  <2> QED
    BY <1>6, <1>7, <1>8, SlotParts
<1>10. r = s /\ i = j
  <2> HIDE DEF i, j
  <2> QED
    BY <1>2, <1>3, <1>5, <1>9 DEF RequestsInv, TablesApart
<1>11. p \div BlockSize = o \div BlockSize
  BY <1>6, <1>10
<1> QED
  BY <1>6, <1>9, <1>10, <1>11

\* An item and its request.
LEMMA ItemAndRequest ==
    ASSUME RequestsInv, ItemsInv, NEW q \in DOMAIN items
    PROVE  LET x == items[q] IN
           /\ x \in Items /\ x.id \in Running /\ x.id \in Ids /\ reqs[x.id].table = x.table
           /\ reqs[x.id].computed = x.start /\ x.start \in Nat /\ x.seqLen \in Nat
           /\ x.start < x.seqLen /\ x.seqLen < MaxModelLen
           /\ \A p \in 0 .. (x.seqLen - 1) : p \in 0 .. (Room(reqs[x.id].table) - 1)
<1>1. PICK x \in Items : x = items[q]
  BY BatchInHand
<1>2. /\ x.id \in Ids /\ x.start \in Nat /\ x.seqLen \in Nat /\ x.start < x.seqLen
      /\ x.seqLen < MaxModelLen /\ x.seqLen <= Room(x.table) /\ Room(x.table) \in Nat
  BY ItemFacts
<1>3. Current(x)
  BY <1>1 DEF ItemsInv
<1>4. /\ reqs[x.id].state = "running" /\ reqs[x.id].table = x.table /\ reqs[x.id].computed = x.start
  BY <1>3 DEF Current
<1>5. ASSUME NEW p \in 0 .. (x.seqLen - 1) PROVE p \in 0 .. (Room(x.table) - 1)
  BY <1>2
<1> QED
  BY <1>1, <1>2, <1>4, <1>5 DEF Running

\* A pass writes a token of the batch in every active row, and all of them.
Writes(m, inputIds) ==
    /\ \A i \in DOMAIN inputIds : m.active[i] =>
          \E q \in DOMAIN items : \E p \in items[q].start .. (items[q].seqLen - 1) :
             /\ m.slots[i] = Slot(items[q].table, p) /\ m.positions[i] = p
             /\ inputIds[i] = <<items[q].id, p>>
    /\ \A q \in DOMAIN items : \A p \in items[q].start .. (items[q].seqLen - 1) :
          \E i \in DOMAIN inputIds : m.active[i] /\ m.slots[i] = Slot(items[q].table, p)

\* Such a pass leaves what is computed and adds the tokens of the batch.
LEMMA PassKeepsCache ==
    ASSUME RequestsInv, ItemsInv, CacheInv, NEW m, NEW inputIds, Writes(m, inputIds),
           NEW c, c = Appended(m, inputIds)
    PROVE  /\ DOMAIN c = CacheSlots
           /\ \A r \in Running : \A p \in 0 .. (reqs[r].computed - 1) :
                 c[Slot(reqs[r].table, p)] = OwnKV(r, p)
           /\ \A q \in DOMAIN items : \A p \in 0 .. (items[q].seqLen - 1) :
                 c[Slot(items[q].table, p)] = OwnKV(items[q].id, p)
<1> DEFINE W(s) == {i \in DOMAIN inputIds : m.active[i] /\ m.slots[i] = s}
<1>1. DOMAIN c = CacheSlots /\ DOMAIN kv = CacheSlots
  BY DEF CacheInv, Appended
<1>2. ASSUME NEW s \in CacheSlots
      PROVE  c[s] = IF W(s) = {} THEN kv[s]
                    ELSE LET i == CHOOSE i \in W(s) : TRUE IN KV(inputIds[i], m.positions[i])
  BY <1>1 DEF Appended
<1>3. ASSUME NEW r \in Running, NEW p \in 0 .. (Room(reqs[r].table) - 1)
      PROVE  Slot(reqs[r].table, p) \in CacheSlots
  <2>1. reqs[r].table \in Seq(Blocks)
    BY DEF RequestsInv, Running, Requests
  <2>2. Slot(reqs[r].table, p) \in Slots
    BY <2>1, SlotInCache
  <2>3. NumBlocks * BlockSize \in Nat /\ MaxNumSeqs \in Nat
    BY Geometry, RunnerConfig
  <2> QED
    BY <2>2, <2>3 DEF Slots, CacheSlots, PhysicalSlots
\* What a write to a slot of a request is.
<1>4. ASSUME NEW r \in Running, NEW p \in 0 .. (Room(reqs[r].table) - 1),
             NEW i \in W(Slot(reqs[r].table, p))
      PROVE  /\ inputIds[i] = <<r, p>> /\ m.positions[i] = p /\ p >= reqs[r].computed
             /\ \E q \in DOMAIN items : items[q].id = r
  <2>0. PICK q \in DOMAIN items : \E o \in items[q].start .. (items[q].seqLen - 1) :
             /\ m.slots[i] = Slot(items[q].table, o) /\ m.positions[i] = o
             /\ inputIds[i] = <<items[q].id, o>>
    BY DEF Writes
  <2>1. PICK o \in items[q].start .. (items[q].seqLen - 1) :
             /\ m.slots[i] = Slot(items[q].table, o) /\ m.positions[i] = o
             /\ inputIds[i] = <<items[q].id, o>>
    BY <2>0
  <2>2. PICK x \in Items : x = items[q]
    BY ItemAndRequest
  <2>3. /\ x.id \in Running /\ reqs[x.id].table = x.table /\ reqs[x.id].computed = x.start
        /\ x.start \in Nat /\ x.seqLen \in Nat
        /\ \A l \in 0 .. (x.seqLen - 1) : l \in 0 .. (Room(reqs[x.id].table) - 1)
    BY <2>2, ItemAndRequest
  <2>4. o \in 0 .. (x.seqLen - 1) /\ o >= x.start
    BY <2>1, <2>2, <2>3
  <2>5. o \in 0 .. (Room(reqs[x.id].table) - 1)
    BY <2>3, <2>4
  <2>6. Slot(reqs[r].table, p) = Slot(reqs[x.id].table, o)
    BY <2>1, <2>2, <2>3
  <2>7. r = x.id /\ p = o
    BY <2>3, <2>5, <2>6, SlotsApart
  <2> QED
    BY <2>1, <2>2, <2>3, <2>4, <2>7
\* A slot holds the token when it is written, or held it before.
<1>5. ASSUME NEW r \in Running, NEW p \in 0 .. (Room(reqs[r].table) - 1),
             W(Slot(reqs[r].table, p)) # {} \/ kv[Slot(reqs[r].table, p)] = OwnKV(r, p)
      PROVE  c[Slot(reqs[r].table, p)] = OwnKV(r, p)
  <2> DEFINE s == Slot(reqs[r].table, p)
             l == CHOOSE l \in W(s) : TRUE
  <2>1. s \in CacheSlots
    BY <1>3
  <2>2. CASE W(s) = {}
    BY <1>2, <1>5, <2>1, <2>2
  <2>3. CASE W(s) # {}
    <3>1. l \in W(s)
      BY <2>3
    <3>2. c[s] = KV(inputIds[l], m.positions[l])
      BY <1>2, <2>1, <2>3
    <3> HIDE DEF l
    <3>3. inputIds[l] = <<r, p>> /\ m.positions[l] = p
      BY <1>4, <3>1
    <3> QED
      BY <3>2, <3>3 DEF OwnKV
  <2> QED
    BY <2>2, <2>3
<1>6. ASSUME NEW r \in Running, NEW p \in 0 .. (reqs[r].computed - 1)
      PROVE  /\ p \in 0 .. (Room(reqs[r].table) - 1)
             /\ c[Slot(reqs[r].table, p)] = OwnKV(r, p)
  <2>1. /\ reqs[r].computed \in Nat /\ reqs[r].computed <= Room(reqs[r].table)
        /\ reqs[r].table \in Seq(Blocks)
    <3>1. r \in Ids /\ reqs[r].state = "running" /\ reqs[r] \in Requests /\ RequestOK(r)
      BY DEF RequestsInv, Running
    <3> QED
      BY <3>1 DEF Requests, RequestOK
  <2>2. Room(reqs[r].table) \in Nat
    BY <2>1, Geometry DEF Room
  <2>3. p \in 0 .. (Room(reqs[r].table) - 1)
    BY <2>1, <2>2
  <2>4. kv[Slot(reqs[r].table, p)] = OwnKV(r, p)
    BY DEF CacheInv, CacheKeepsComputedTokens
  <2> QED
    BY <1>5, <2>3, <2>4
<1>7. ASSUME NEW q \in DOMAIN items, NEW p \in 0 .. (items[q].seqLen - 1)
      PROVE  c[Slot(items[q].table, p)] = OwnKV(items[q].id, p)
  <2>1. PICK x \in Items : x = items[q]
    BY ItemAndRequest
  <2>2. /\ x.id \in Running /\ reqs[x.id].table = x.table /\ reqs[x.id].computed = x.start
        /\ x.start \in Nat /\ x.seqLen \in Nat
        /\ p \in 0 .. (Room(reqs[x.id].table) - 1)
    BY <2>1, ItemAndRequest
  <2>3. CASE p < x.start
    <3>1. p \in 0 .. (reqs[x.id].computed - 1)
      BY <2>1, <2>2, <2>3
    <3> QED
      BY <1>6, <2>1, <2>2, <3>1
  <2>4. CASE p >= x.start
    <3>1. p \in x.start .. (x.seqLen - 1)
      BY <2>1, <2>2, <2>4
    <3>2. W(Slot(x.table, p)) # {}
      BY <2>1, <3>1 DEF Writes
    <3> QED
      BY <1>5, <2>1, <2>2, <3>2
  <2> QED
    BY <2>1, <2>2, <2>3, <2>4
<1> QED
  BY <1>1, <1>6, <1>7

\* An eager pass writes the tokens of its batch.
LEMMA EagerWrites ==
    ASSUME RequestsInv, ItemsInv, items # <<>>
    PROVE  Writes(Metadata(Flatten(items)), Flatten(items).inputIds)
<1> DEFINE b == Flatten(items)
           m == Metadata(b)
<1>1. /\ items \in Seq(Items) /\ Len(items) > 0 /\ DOMAIN items = 1 .. Len(items) /\ Batch(b, items)
  BY BatchInHand
<1> HIDE DEF b
<1>2. DOMAIN b.inputIds = 1 .. Len(b.inputIds)
  <2>1. b.inputIds \in Seq(Tokens)
    BY <1>1 DEF Batch, ArraysType
  <2> QED
    BY <2>1
<1>3. m.positions = b.positions /\ m.slots = b.slots /\ m.active = [i \in 1 .. Len(b.inputIds) |-> TRUE]
  BY MetadataFields DEF NumTokens
<1> HIDE DEF m
<1>4. ASSUME NEW i \in DOMAIN b.inputIds
      PROVE  \E q \in DOMAIN items : \E p \in items[q].start .. (items[q].seqLen - 1) :
                /\ m.slots[i] = Slot(items[q].table, p) /\ m.positions[i] = p
                /\ b.inputIds[i] = <<items[q].id, p>>
  <2>1. PICK q, j : IsRow(b, items, i, q, j)
    BY <1>1, <1>2, RowExists
  <2>2. PICK x \in Items : x = items[q]
    BY <1>1, <2>1, RowContent
  <2>3. PICK p : p = x.start + j - 1
    OBVIOUS
  <2>4. /\ q \in DOMAIN items /\ p \in Nat /\ p < x.seqLen
        /\ b.inputIds[i] = <<x.id, p>> /\ b.positions[i] = p /\ b.slots[i] = Slot(x.table, p)
    BY <1>1, <2>1, <2>2, <2>3, RowContent
  <2>5. p \in x.start .. (x.seqLen - 1)
    <3>1. j \in 1 .. Count(x)
      BY <2>1, <2>2 DEF IsRow
    <3>2. x.start \in Nat /\ x.seqLen \in Nat /\ x.seqLen - x.start \in Nat
      BY ItemFacts
    <3>3. j \in Nat /\ j >= 1
      BY <3>1, <3>2 DEF Count
    <3> QED
      BY <2>3, <2>4, <3>2, <3>3
  <2> QED
    BY <1>3, <2>2, <2>4, <2>5
<1>5. ASSUME NEW q \in DOMAIN items, NEW p \in items[q].start .. (items[q].seqLen - 1)
      PROVE  \E i \in DOMAIN b.inputIds : m.active[i] /\ m.slots[i] = Slot(items[q].table, p)
  <2>1. PICK x \in Items : x = items[q]
    BY <1>1
  <2>2. x.start \in Nat /\ x.seqLen \in Nat
    BY ItemFacts
  <2>3. PICK j : j = p - x.start + 1
    OBVIOUS
  <2>4. j \in 1 .. Count(x) /\ x.start + j - 1 = p
    BY <2>1, <2>2, <2>3 DEF Count
  <2>5. PICK i : i = b.queryStart[q] + j
    OBVIOUS
  <2>6. IsRow(b, items, i, q, j)
    BY <1>1, <2>1, <2>4, <2>5 DEF IsRow
  <2>7. i \in 1 .. Len(b.inputIds) /\ b.slots[i] = Slot(x.table, p)
    BY <1>1, <2>1, <2>4, <2>6, RowContent
  <2> QED
    BY <1>2, <1>3, <2>1, <2>7
<1> QED
  BY <1>4, <1>5 DEF Writes, b, m

-----------------------------------------------------------------------------
(* The buffers of a graph. *)

\* The buffers of a new graph.
LEMMA NewGraphOK ==
    ASSUME NEW n \in Nat
    PROVE  GraphOK(n, NewGraph(n)) /\ NewGraph(n).captured = FALSE
<1>1. MaxBlocks \in Nat
  BY RunnerConfig, CeilDivRoom DEF MaxBlocks
<1>2. /\ [i \in 1 .. n |-> Unset] \in [1 .. n -> Cells]
      /\ [i \in 1 .. n |-> 0] \in [1 .. n -> Nat]
      /\ [i \in 1 .. n |-> -1] \in [1 .. n -> Int]
      /\ [i \in 1 .. n |-> 1] \in [1 .. n -> Nat]
  BY DEF Cells
<1>3. /\ [i \in 1 .. (n + 1) |-> i - 1] \in [1 .. (n + 1) -> Nat]
      /\ [i \in 1 .. n |-> i] \in [1 .. n -> Nat]
  OBVIOUS
<1>4. /\ [i \in 1 .. n |-> TRUE] \in [1 .. n -> BOOLEAN]
      /\ [i \in 1 .. n |-> FALSE] \in [1 .. n -> BOOLEAN]
      /\ [i \in 1 .. n |-> [j \in 1 .. MaxBlocks |-> 0]] \in [1 .. n -> [1 .. MaxBlocks -> Int]]
  OBVIOUS
<1>5. NewGraph(n) \in GraphBuffers(n)
  BY <1>2, <1>3, <1>4 DEF NewGraph, GraphBuffers
<1>6. ASSUME NEW i \in 1 .. n
      PROVE  /\ NewGraph(n).m.queryStart[i] = i - 1 /\ NewGraph(n).m.queryStart[i + 1] = i
             /\ NewGraph(n).m.requestOf[i] = i /\ NewGraph(n).m.isDecode[i]
  <2>1. i \in 1 .. (n + 1) /\ i + 1 \in 1 .. (n + 1) /\ (i + 1) - 1 = i
    OBVIOUS
  <2> QED
    BY <2>1 DEF NewGraph
<1> QED
  BY <1>5, <1>6 DEF GraphOK, NewGraph

\* The state of a graph of one of the sizes.
LEMMA GraphStateOK ==
    ASSUME GraphsInv, NEW n \in Nat
    PROVE  GraphOK(n, GraphState(n))
BY NewGraphOK DEF GraphsInv, GraphState

\* The fields of a graph.
LEMMA GraphFields ==
    ASSUME NEW n, NEW g \in GraphBuffers(n)
    PROVE  /\ g.captured \in BOOLEAN /\ g.inputIds \in [1 .. n -> Cells]
           /\ g.m.positions \in [1 .. n -> Nat] /\ g.m.slots \in [1 .. n -> Int]
           /\ g.m.queryStart \in [1 .. (n + 1) -> Nat] /\ g.m.seqLens \in [1 .. n -> Nat]
           /\ g.m.tables \in [1 .. n -> [1 .. MaxBlocks -> Int]]
           /\ g.m.requestOf \in [1 .. n -> Nat] /\ g.m.isDecode \in [1 .. n -> BOOLEAN]
           /\ g.m.active \in [1 .. n -> BOOLEAN]
BY DEF GraphBuffers

\* What _copy_decode_batch changes.
LEMMA CopiedFields ==
    ASSUME NEW n, NEW g \in GraphBuffers(n), NEW b, NEW c, c = Copied(g, b)
    PROVE  /\ c.captured = g.captured
           /\ c.inputIds = Overwrite(g.inputIds, b.inputIds, Unset)
           /\ c.m.positions = Overwrite(g.m.positions, b.positions, 0)
           /\ c.m.slots = CopiedSlots(g.m.slots, b)
           /\ c.m.seqLens = Overwrite(g.m.seqLens, b.seqLens, 1)
           /\ c.m.tables = CopiedTables(g.m.tables, b)
           /\ c.m.active = [i \in DOMAIN g.m.active |-> i <= NumRequests(b)]
           /\ c.m.queryStart = g.m.queryStart /\ c.m.requestOf = g.m.requestOf
           /\ c.m.isDecode = g.m.isDecode
BY ZenonT(30) DEF GraphBuffers, Copied

\* It keeps the shape of the record.
LEMMA CopiedType ==
    ASSUME NEW n, NEW g \in GraphBuffers(n), NEW b, NEW c, c = Copied(g, b),
           c.inputIds \in [1 .. n -> Cells],
           c.m.positions \in [1 .. n -> Nat], c.m.slots \in [1 .. n -> Int],
           c.m.seqLens \in [1 .. n -> Nat], c.m.tables \in [1 .. n -> [1 .. MaxBlocks -> Int]],
           c.m.active \in [1 .. n -> BOOLEAN]
    PROVE  c \in GraphBuffers(n)
BY DEF GraphBuffers, Copied

\* Overwriting keeps the size of a tensor.
LEMMA Overwritten ==
    ASSUME NEW n, NEW T, NEW tensor, DOMAIN tensor = 1 .. n, NEW reset \in T,
           NEW rows \in Seq(T), NEW k \in Nat, Len(rows) = k
    PROVE  /\ Overwrite(tensor, rows, reset) \in [1 .. n -> T]
           /\ \A i \in 1 .. n : i <= k => Overwrite(tensor, rows, reset)[i] = rows[i]
<1>1. ASSUME NEW i \in 1 .. n, i <= k PROVE rows[i] \in T
  BY <1>1
<1> QED
  BY <1>1 DEF Overwrite

\* A row of a graph that holds a decode of x.
RowHolds(g, i, x) ==
    /\ g.inputIds[i] = <<x.id, x.start>> /\ g.m.positions[i] = x.start
    /\ g.m.slots[i] = Slot(x.table, x.start) /\ g.m.seqLens[i] = x.seqLen
    /\ \A j \in 1 .. CeilDiv(x.seqLen, BlockSize) : g.m.tables[i][j] = x.table[j]

\* A graph filled with a decode batch: its first rows hold the batch, whatever
\* they held before, the others go to scratch slots.
LEMMA CopiedBatch ==
    ASSUME NEW its \in Seq(Items), Len(its) > 0, NEW b, Batch(b, its), UniformDecode(b),
           NEW n \in Nat, Len(its) <= n, NEW g, GraphOK(n, g), NEW c, c = Copied(g, b)
    PROVE  /\ GraphOK(n, c) /\ PaddingOK(n, c) /\ c.captured = g.captured
           /\ \A i \in 1 .. n : c.m.active[i] <=> i <= Len(its)
           /\ \A i \in 1 .. Len(its) : RowHolds(c, i, its[i])
<1> DEFINE k == Len(its)
<1>0. k \in Nat /\ k > 0 /\ k <= n /\ \A i \in 1 .. k : its[i] \in Items
  OBVIOUS
<1>g. g \in GraphBuffers(n)
  BY DEF GraphOK
<1>h. \A i \in 1 .. n : /\ g.m.queryStart[i] = i - 1 /\ g.m.queryStart[i + 1] = i
                        /\ g.m.requestOf[i] = i /\ g.m.isDecode[i]
  BY DEF GraphOK
<1>1. /\ b.inputIds \in Seq(Tokens) /\ b.positions \in Seq(Nat) /\ b.slots \in Seq(Slots)
      /\ b.seqLens \in Seq(Nat)
  BY DEF Batch, ArraysType
<1>2. /\ Len(b.inputIds) = k /\ \A q \in 1 .. k : IsDecode(its[q]) /\ IsRow(b, its, q, q, 1)
  BY OneRowPerRequest
<1>3. Len(b.positions) = k /\ Len(b.slots) = k /\ Len(b.seqLens) = k
  BY <1>2 DEF Batch, Shape
<1>4. NumRequests(b) = k
  BY BatchCounts
<1>5. PICK w \in 1 .. MaxBlocks : \A q \in 1 .. k : b.tables[q] \in Seq(Int) /\ Len(b.tables[q]) = w
  BY DEF Batch, TablesType
<1>6. MaxBlocks \in Nat /\ Len(b.tables[1]) = w
  <2>1. 1 \in 1 .. k
    BY <1>0
  <2> QED
    BY <1>0, <1>5, <2>1, CutTable
<1>7. /\ g.inputIds \in [1 .. n -> Cells] /\ g.m.positions \in [1 .. n -> Nat]
      /\ g.m.slots \in [1 .. n -> Int] /\ g.m.seqLens \in [1 .. n -> Nat]
      /\ g.m.tables \in [1 .. n -> [1 .. MaxBlocks -> Int]] /\ g.m.active \in [1 .. n -> BOOLEAN]
  BY <1>g, GraphFields
<1>8. /\ c.captured = g.captured
      /\ c.inputIds = Overwrite(g.inputIds, b.inputIds, Unset)
      /\ c.m.positions = Overwrite(g.m.positions, b.positions, 0)
      /\ c.m.slots = CopiedSlots(g.m.slots, b)
      /\ c.m.seqLens = Overwrite(g.m.seqLens, b.seqLens, 1)
      /\ c.m.tables = CopiedTables(g.m.tables, b)
      /\ c.m.active = [i \in DOMAIN g.m.active |-> i <= NumRequests(b)]
      /\ c.m.queryStart = g.m.queryStart /\ c.m.requestOf = g.m.requestOf
      /\ c.m.isDecode = g.m.isDecode
  BY <1>g, CopiedFields
<1> HIDE DEF k
<1>9. c.inputIds \in [1 .. n -> Cells] /\ \A i \in 1 .. n : i <= k => c.inputIds[i] = b.inputIds[i]
  <2>1. Unset \in Cells /\ DOMAIN g.inputIds = 1 .. n
    BY <1>7 DEF Cells
  <2>2. PICK s \in Seq(Tokens) : s = b.inputIds
    BY <1>1
  <2>3. s \in Seq(Cells)
    <3>1. \A i \in 1 .. Len(s) : s[i] \in Cells
      BY DEF Cells
    <3>2. s \in [1 .. Len(s) -> Cells] /\ Len(s) \in Nat
      BY <3>1
    <3> QED
      BY <3>2
  <2>4. Len(s) = k /\ c.inputIds = Overwrite(g.inputIds, s, Unset)
    BY <1>2, <1>8, <2>2
  <2>5. k \in Nat
    BY <2>4
  <2>6. /\ Overwrite(g.inputIds, s, Unset) \in [1 .. n -> Cells]
        /\ \A i \in 1 .. n : i <= k => Overwrite(g.inputIds, s, Unset)[i] = s[i]
    <3> HIDE DEF Cells
    <3> QED
      BY <2>1, <2>3, <2>4, <2>5 DEF Overwrite
  <2> QED
    BY <2>2, <2>4, <2>6
<1>10. c.m.positions \in [1 .. n -> Nat] /\ \A i \in 1 .. n : i <= k => c.m.positions[i] = b.positions[i]
  <2>1. 0 \in Nat /\ DOMAIN g.m.positions = 1 .. n
    BY <1>7
  <2>2. PICK s \in Seq(Nat) : s = b.positions
    BY <1>1
  <2>3. Len(s) = k /\ c.m.positions = Overwrite(g.m.positions, s, 0)
    BY <1>3, <1>8, <2>2
  <2>4. PICK t : t = g.m.positions /\ DOMAIN t = 1 .. n
    BY <2>1
  <2>5. /\ Overwrite(t, s, 0) \in [1 .. n -> Nat]
        /\ \A i \in 1 .. n : i <= k => Overwrite(t, s, 0)[i] = s[i]
    <3>1. \A i \in 1 .. n : i <= k => s[i] \in Nat
      BY <1>0, <2>3
    <3> QED
      BY <2>3, <2>4, <3>1 DEF Overwrite
  <2> QED
    BY <2>2, <2>3, <2>4, <2>5
<1>11. c.m.seqLens \in [1 .. n -> Nat] /\ \A i \in 1 .. n : i <= k => c.m.seqLens[i] = b.seqLens[i]
  <2>1. 1 \in Nat /\ DOMAIN g.m.seqLens = 1 .. n
    BY <1>7
  <2>2. PICK s \in Seq(Nat) : s = b.seqLens
    BY <1>1
  <2>3. Len(s) = k /\ c.m.seqLens = Overwrite(g.m.seqLens, s, 1)
    BY <1>3, <1>8, <2>2
  <2>4. PICK t : t = g.m.seqLens /\ DOMAIN t = 1 .. n
    BY <2>1
  <2>5. /\ Overwrite(t, s, 1) \in [1 .. n -> Nat]
        /\ \A i \in 1 .. n : i <= k => Overwrite(t, s, 1)[i] = s[i]
    <3>1. \A i \in 1 .. n : i <= k => s[i] \in Nat
      BY <1>0, <2>3
    <3> QED
      BY <2>3, <2>4, <3>1 DEF Overwrite
  <2> QED
    BY <2>2, <2>3, <2>4, <2>5
<1>12. c.m.active = [i \in 1 .. n |-> i <= k]
  BY <1>4, <1>7, <1>8
<1>13. c.m.slots = [i \in 1 .. n |-> IF i <= k THEN b.slots[i] ELSE ScratchSlot(i)]
  BY <1>4, <1>7, <1>8 DEF CopiedSlots
<1>14. ASSUME NEW i \in 1 .. n, i <= k PROVE b.slots[i] \in Slots
  <2>1. i \in 1 .. Len(b.slots)
    BY <1>3, <1>14
  <2> QED
    BY <1>1, <2>1
<1>15. c.m.slots \in [1 .. n -> Int]
  <2>1. NumBlocks * BlockSize \in Nat
    BY Geometry
  <2>2. ASSUME NEW i \in 1 .. n PROVE ScratchSlot(i) \in Int
    BY <2>1 DEF ScratchSlot, PhysicalSlots
  <2>3. Slots \subseteq Int
    BY <2>1 DEF Slots
  <2> QED
    BY <1>13, <1>14, <2>2, <2>3
<1>16. c.m.tables = [i \in 1 .. n |-> [j \in 1 .. MaxBlocks |->
                        IF i <= k /\ j <= w THEN b.tables[i][j] ELSE 0]]
  BY <1>4, <1>6, <1>7, <1>8 DEF CopiedTables
<1>17. c.m.tables \in [1 .. n -> [1 .. MaxBlocks -> Int]]
  <2>1. ASSUME NEW i \in 1 .. n, i <= k, NEW j \in 1 .. MaxBlocks, j <= w PROVE b.tables[i][j] \in Int
    <3>1. i \in 1 .. k
      BY <1>0, <2>1
    <3>2. PICK t \in Seq(Int) : t = b.tables[i] /\ Len(t) = w
      BY <1>5, <3>1
    <3>3. j \in 1 .. Len(t)
      BY <1>6, <2>1, <3>2
    <3> QED
      BY <3>2, <3>3
  <2> QED
    BY <1>16, <2>1
<1>18. c.m.active \in [1 .. n -> BOOLEAN]
  BY <1>12
<1>19. c \in GraphBuffers(n)
  BY <1>g, <1>9, <1>10, <1>11, <1>15, <1>17, <1>18, CopiedType
<1>20. GraphOK(n, c)
  BY <1>h, <1>8, <1>19 DEF GraphOK
<1>21. PaddingOK(n, c)
  <2>1. ASSUME NEW i \in 1 .. n
        PROVE  IF c.m.active[i] THEN c.m.slots[i] \in Slots ELSE c.m.slots[i] = ScratchSlot(i)
    <3>1. c.m.active[i] <=> i <= k
      BY <1>12
    <3>2. c.m.slots[i] = IF i <= k THEN b.slots[i] ELSE ScratchSlot(i)
      BY <1>13
    <3> QED
      BY <1>14, <3>1, <3>2
  <2> QED
    BY <2>1 DEF PaddingOK
<1>22. ASSUME NEW i \in 1 .. k PROVE RowHolds(c, i, its[i])
  <2>1. PICK x \in Items : x = its[i]
    BY <1>0
  <2>2. i \in 1 .. n /\ i <= k
    BY <1>0
  <2>3. x.start \in Nat /\ x.start + 1 - 1 = x.start
    BY ItemFacts
  <2>4. /\ b.inputIds[i] = <<x.id, x.start>> /\ b.positions[i] = x.start
        /\ b.slots[i] = Slot(x.table, x.start)
    BY <1>2, <2>1, <2>3, RowContent
  <2>5. b.seqLens[i] = x.seqLen
    BY <2>1 DEF Batch, Names, k
  <2>6. c.m.slots[i] = b.slots[i]
    BY <1>13, <2>2
  <2>7. ASSUME NEW j \in 1 .. CeilDiv(x.seqLen, BlockSize) PROVE c.m.tables[i][j] = x.table[j]
    <3>1. j <= Len(b.tables[i]) /\ b.tables[i][j] = x.table[j]
      BY <2>1 DEF Batch, Paged, k
    <3>2. CeilDiv(x.seqLen, BlockSize) \in Nat
      BY ItemFacts, CeilDivRoom
    <3>3. j <= w /\ j \in 1 .. MaxBlocks
      BY <1>5, <1>6, <3>1, <3>2
    <3> QED
      BY <1>16, <2>2, <3>1, <3>3
  <2> QED
    BY <1>9, <1>10, <1>11, <2>1, <2>2, <2>4, <2>5, <2>6, <2>7 DEF RowHolds
<1>23. \A i \in 1 .. n : c.m.active[i] <=> i <= k
  BY <1>12
<1> QED
  BY <1>8, <1>20, <1>21, <1>22, <1>23 DEF k

\* A graph pass writes the tokens of its batch.
LEMMA GraphWrites ==
    ASSUME RequestsInv, ItemsInv, NEW n \in Nat, Len(items) <= n, NEW c, GraphOK(n, c),
           \A i \in 1 .. n : c.m.active[i] <=> i <= Len(items),
           \A i \in 1 .. Len(items) : IsDecode(items[i]) /\ RowHolds(c, i, items[i])
    PROVE  Writes(c.m, c.inputIds)
<1>0. Len(items) \in Nat /\ DOMAIN items = 1 .. Len(items) /\ items \in Seq(Items)
  BY BatchInHand
<1>1. DOMAIN c.inputIds = 1 .. n
  BY GraphFields DEF GraphOK
<1>2. ASSUME NEW i \in 1 .. Len(items)
      PROVE  /\ \A p : p \in items[i].start .. (items[i].seqLen - 1) <=> p = items[i].start
             /\ c.m.slots[i] = Slot(items[i].table, items[i].start)
             /\ c.m.positions[i] = items[i].start /\ c.inputIds[i] = <<items[i].id, items[i].start>>
  <2>1. PICK x \in Items : x = items[i]
    BY <1>0
  <2>2. x.seqLen = x.start + 1 /\ x.start \in Nat
    BY <2>1, DecodeItem, ItemFacts
  <2>3. PICK a \in Nat : a = x.start /\ x.seqLen = a + 1
    BY <2>2
  <2>4. \A p : p \in a .. ((a + 1) - 1) <=> p = a
    OBVIOUS
  <2> QED
    BY <2>1, <2>3, <2>4 DEF RowHolds
<1>3. ASSUME NEW i \in DOMAIN c.inputIds, c.m.active[i]
      PROVE  \E q \in DOMAIN items : \E p \in items[q].start .. (items[q].seqLen - 1) :
                /\ c.m.slots[i] = Slot(items[q].table, p) /\ c.m.positions[i] = p
                /\ c.inputIds[i] = <<items[q].id, p>>
  <2>1. i \in 1 .. Len(items)
    BY <1>0, <1>1, <1>3
  <2>2. i \in DOMAIN items /\ items[i].start \in items[i].start .. (items[i].seqLen - 1)
    BY <1>0, <1>2, <2>1
  <2>3. /\ c.m.slots[i] = Slot(items[i].table, items[i].start) /\ c.m.positions[i] = items[i].start
        /\ c.inputIds[i] = <<items[i].id, items[i].start>>
    BY <1>2, <2>1
  <2> QED
    BY <2>2, <2>3
<1>4. ASSUME NEW q \in DOMAIN items, NEW p \in items[q].start .. (items[q].seqLen - 1)
      PROVE  \E i \in DOMAIN c.inputIds : c.m.active[i] /\ c.m.slots[i] = Slot(items[q].table, p)
  <2>1. q \in 1 .. n /\ q \in 1 .. Len(items) /\ q <= Len(items)
    BY <1>0
  <2>2. p = items[q].start
    BY <1>2, <2>1
  <2> QED
    BY <1>1, <1>2, <2>1, <2>2
<1> QED
  BY <1>3, <1>4 DEF Writes

\* A row of a graph reads the whole context of its request.
LEMMA GraphRow ==
    ASSUME NEW n \in Nat, NEW c, GraphOK(n, c), NEW i \in 1 .. n, c.m.active[i],
           NEW x \in Items, RowHolds(c, i, x)
    PROVE  Computed(c.m, i) /\ CustomReads(c.m, i) = ContextSlots(x.table, x.seqLen)
<1>1. c.m.requestOf[i] = i /\ c.m.isDecode[i] /\ c.m.queryStart[i] = i - 1
  BY DEF GraphOK
<1>2. Computed(c.m, i)
  <2>1. i = c.m.queryStart[i] + 1
    BY <1>1
  <2> QED
    BY <1>1, <2>1 DEF Computed
<1>3. CustomReads(c.m, i) = ContextSlots(c.m.tables[i], x.seqLen)
  BY <1>1 DEF CustomReads, RowHolds
<1>4. ContextSlots(c.m.tables[i], x.seqLen) = ContextSlots(x.table, x.seqLen)
  <2>1. x.seqLen \in 0 .. x.seqLen
    BY ItemFacts
  <2>2. \A j \in 1 .. CeilDiv(x.seqLen, BlockSize) : c.m.tables[i][j] = x.table[j]
    BY DEF RowHolds
  <2> QED
    BY <2>1, <2>2, SameSlots
<1> QED
  BY <1>2, <1>3, <1>4

-----------------------------------------------------------------------------
(* What is sampled. *)

\* The row of each sampled request attended to the request's whole context.
SampledRows(b, c, logits) ==
    \A q \in DOMAIN items : items[q].sample =>
        logits[b.queryStart[q + 1]] = Attended(c, ContextSlots(items[q].table, items[q].seqLen))

\* The requests that are sampled.
LEMMA SampledRequests ==
    ASSUME ItemsInv, items # <<>>, NEW b, Batch(b, items), NEW logits, NEW r,
           r \in DOMAIN Sampled(b, logits)
    PROVE  \E q \in DOMAIN items : /\ items[q].id = r /\ items[q].sample
                                   /\ Sampled(b, logits)[r] = logits[b.queryStart[q + 1]]
<1>0. items \in Seq(Items) /\ Len(items) \in Nat /\ DOMAIN items = 1 .. Len(items)
  BY BatchInHand
<1> DEFINE qs == {q \in DOMAIN b.ids : b.sampleRows[q] >= 0}
           c == CHOOSE q \in qs : b.ids[q] = r
<1>1. DOMAIN b.ids = DOMAIN items
  <2>1. b.ids \in Seq(Ids) /\ Len(b.ids) = Len(items)
    BY DEF Batch, ArraysType, Shape
  <2> QED
    BY <1>0, <2>1
<1>2. Sampled(b, logits) = [s \in {b.ids[q] : q \in qs} |->
                              logits[b.sampleRows[CHOOSE q \in qs : b.ids[q] = s] + 1]]
  BY DEF Sampled
<1>3. r \in {b.ids[q] : q \in qs} /\ Sampled(b, logits)[r] = logits[b.sampleRows[c] + 1]
  BY <1>2
<1>4. c \in qs /\ b.ids[c] = r
  BY <1>3
<1>5. c \in DOMAIN items /\ b.sampleRows[c] >= 0
  BY <1>1, <1>4
<1> HIDE DEF c
<1>6. /\ b.ids[c] = items[c].id
      /\ b.sampleRows[c] = IF items[c].sample THEN b.queryStart[c + 1] - 1 ELSE -1
  BY <1>0, <1>5 DEF Batch, Names
<1>7. items[c].sample
  BY <1>5, <1>6
<1>8. b.queryStart[c + 1] \in Nat
  <2>1. c + 1 \in 1 .. (Len(items) + 1)
    BY <1>0, <1>5
  <2> QED
    BY <1>0, <2>1, BatchNumbers
<1>9. b.sampleRows[c] + 1 = b.queryStart[c + 1]
  BY <1>6, <1>7, <1>8
<1> QED
  BY <1>3, <1>4, <1>5, <1>6, <1>7, <1>9

\* What a row attended to when the cache holds the request's own tokens.
LEMMA OwnAttended ==
    ASSUME NEW c, NEW x, NEW r, x.seqLen \in Nat,
           \A p \in 0 .. (x.seqLen - 1) : c[Slot(x.table, p)] = OwnKV(r, p)
    PROVE  Attended(c, ContextSlots(x.table, x.seqLen)) = OwnContext(r, x.seqLen)
<1>1. ASSUME NEW p \in 1 .. x.seqLen PROVE c[Slot(x.table, p - 1)] = OwnKV(r, p - 1)
  <2>1. p - 1 \in 0 .. (x.seqLen - 1)
    OBVIOUS
  <2> QED
    BY <2>1
<1>2. DOMAIN ContextSlots(x.table, x.seqLen) = 1 .. x.seqLen
      /\ \A p \in 1 .. x.seqLen : ContextSlots(x.table, x.seqLen)[p] = Slot(x.table, p - 1)
  BY DEF ContextSlots
<1> QED
  BY <1>1, <1>2 DEF Attended, OwnContext

\* The logits of a pass, for the rows it computes.
LEMMA PassLogits ==
    ASSUME NEW c, NEW m, NEW i \in DOMAIN m.positions, NEW slots, Computed(m, i),
           IF GraphSafe THEN CustomReads(m, i) = slots ELSE TorchReads(m, i) = slots
    PROVE  Logits(c, m)[i] = Attended(c, slots)
BY DEF Logits

\* Eager execution samples rows that attended to their own context.
LEMMA EagerSampled ==
    ASSUME ItemsInv, items # <<>>, NEW c
    PROVE  SampledRows(Flatten(items), c, Logits(c, Metadata(Flatten(items))))
<1> DEFINE b == Flatten(items)
           m == Metadata(b)
<1> SUFFICES ASSUME NEW q \in DOMAIN items
             PROVE  Logits(c, m)[b.queryStart[q + 1]]
                      = Attended(c, ContextSlots(items[q].table, items[q].seqLen))
  BY DEF SampledRows
<1>1. /\ items \in Seq(Items) /\ Len(items) > 0 /\ Len(items) \in Nat
      /\ DOMAIN items = 1 .. Len(items) /\ Batch(b, items)
  BY BatchInHand
<1> HIDE DEF b
<1>2. PICK x \in Items : x = items[q]
  BY <1>1
<1>3. /\ x.seqLen \in Nat /\ x.start \in Nat /\ x.start < x.seqLen
  BY ItemFacts
<1> DEFINE i == b.queryStart[q + 1]
<1>4. IsRow(b, items, i, q, Count(x))
  <2>1. i = b.queryStart[q] + Count(x) /\ Count(x) \in Nat /\ Count(x) > 0
    BY <1>1, <1>2, BatchNumbers
  <2> QED
    BY <1>1, <1>2, <2>1 DEF IsRow
<1>5. b.positions[i] = x.start + Count(x) - 1 /\ i \in 1 .. Len(b.positions)
  BY <1>1, <1>2, <1>4, RowContent
<1>6. b.positions[i] + 1 = x.seqLen
  BY <1>3, <1>5 DEF Count
<1>7. /\ Computed(m, i) /\ TorchReads(m, i) = ContextSlots(x.table, x.seqLen)
      /\ CustomReads(m, i) = ContextSlots(x.table, x.seqLen)
  BY <1>1, <1>2, <1>4, <1>6, EagerRow
<1>8. i \in DOMAIN m.positions
  <2>1. m.positions = b.positions
    BY MetadataFields
  <2>2. b.positions \in Seq(Nat)
    BY <1>1 DEF Batch, ArraysType
  <2> QED
    BY <1>5, <2>1, <2>2
<1> HIDE DEF m, i
<1>9. Logits(c, m)[i] = Attended(c, ContextSlots(x.table, x.seqLen))
  BY <1>7, <1>8, PassLogits
<1> QED
  BY <1>2, <1>9 DEF i

\* Replays sample rows that attended to their own context.
LEMMA GraphSampled ==
    ASSUME ItemsInv, items # <<>>, GraphSafe, NEW b, Batch(b, items), UniformDecode(b),
           NEW n \in Nat, Len(items) <= n, NEW c, GraphOK(n, c),
           \A i \in 1 .. n : c.m.active[i] <=> i <= Len(items),
           \A i \in 1 .. Len(items) : RowHolds(c, i, items[i]), NEW k
    PROVE  SampledRows(b, k, Logits(k, c.m))
<1> SUFFICES ASSUME NEW q \in DOMAIN items
             PROVE  Logits(k, c.m)[b.queryStart[q + 1]]
                      = Attended(k, ContextSlots(items[q].table, items[q].seqLen))
  BY DEF SampledRows
<1>1. /\ items \in Seq(Items) /\ Len(items) \in Nat /\ DOMAIN items = 1 .. Len(items)
  BY BatchInHand
<1>2. PICK x \in Items : x = items[q]
  BY <1>1
<1>3. IsDecode(x) /\ IsRow(b, items, q, q, 1)
  BY <1>1, <1>2, OneRowPerRequest
<1>4. b.queryStart[q + 1] = q
  <2>1. Count(x) = 1
    BY <1>3, DecodeItem
  <2>2. q = b.queryStart[q] + 1
    BY <1>3 DEF IsRow
  <2>3. b.queryStart[q + 1] = b.queryStart[q] + Count(x)
    <3>1. \A p \in 1 .. Len(items) : b.queryStart[p + 1] = b.queryStart[p] + Count(items[p])
      BY SMTT(30), <1>1, BatchNumbers
    <3> QED
      BY <1>1, <1>2, <3>1
  <2> QED
    BY <2>1, <2>2, <2>3
<1>5. q \in 1 .. n /\ c.m.active[q]
  BY <1>1
<1>6. Computed(c.m, q) /\ CustomReads(c.m, q) = ContextSlots(x.table, x.seqLen)
  BY <1>1, <1>2, <1>5, GraphRow
<1>7. q \in DOMAIN c.m.positions
  BY <1>5, GraphFields DEF GraphOK
<1>8. PICK m : m = c.m
  OBVIOUS
<1>9. Logits(k, m)[q] = Attended(k, ContextSlots(x.table, x.seqLen))
  BY <1>6, <1>7, <1>8, PassLogits
<1> QED
  BY <1>2, <1>4, <1>8, <1>9

\* A batch that is sent to a graph: the graph is allowed, holds the batch, writes
\* its tokens and reads its contexts.
LEMMA GraphPass ==
    ASSUME RequestsInv, ItemsInv, GraphsInv, NEW b, b = Flatten(items), GraphBatch(b),
           NEW n, n = CaptureSize(b), NEW g, g = Copied(GraphState(n), b)
    PROVE  /\ n \in Nat /\ n \in Range(Sizes)
           /\ GraphOK(n, g) /\ PaddingOK(n, g) /\ Writes(g.m, g.inputIds)
           /\ \A k : SampledRows(b, k, Logits(k, g.m))
<1>1. items # <<>> /\ WantsGraph(b) /\ GraphSafe
  BY DEF GraphBatch
<1>2. /\ items \in Seq(Items) /\ Len(items) > 0 /\ DOMAIN items = 1 .. Len(items) /\ Batch(b, items)
  BY <1>1, BatchInHand
<1>3. NumTokens(b) \in Nat /\ NumRequests(b) = Len(items) /\ NumRequests(b) \in Nat
  BY <1>2, BatchCounts
<1>4. n \in Range(Sizes) /\ n \in Nat /\ Len(items) <= n
  BY <1>1, <1>3, CaptureFits
<1>5. UniformDecode(b)
  BY <1>1 DEF WantsGraph
<1>6. GraphOK(n, GraphState(n))
  BY <1>4, GraphStateOK
<1>7. /\ GraphOK(n, g) /\ PaddingOK(n, g)
      /\ \A i \in 1 .. n : g.m.active[i] <=> i <= Len(items)
      /\ \A i \in 1 .. Len(items) : RowHolds(g, i, items[i])
  BY <1>2, <1>4, <1>5, <1>6, CopiedBatch
<1>8. \A i \in 1 .. Len(items) : IsDecode(items[i])
  BY <1>2, <1>5, OneRowPerRequest
<1>9. Writes(g.m, g.inputIds)
  BY <1>4, <1>7, <1>8, GraphWrites
<1>10. ASSUME NEW k PROVE SampledRows(b, k, Logits(k, g.m))
  BY <1>1, <1>2, <1>4, <1>5, <1>7, GraphSampled
<1> QED
  BY <1>4, <1>7, <1>9, <1>10

\* A graph that is kept.
LEMMA GraphKept ==
    ASSUME GraphsInv, NEW n \in Range(Sizes), NEW g, GraphOK(n, g), SetGraph(n, g)
    PROVE  GraphsInv'
<1>1. graphs' = [k \in DOMAIN graphs \cup {n} |-> IF k = n THEN g ELSE graphs[k]]
  BY DEF SetGraph
<1>2. DOMAIN graphs' = DOMAIN graphs \cup {n}
  BY <1>1
<1>3. ASSUME NEW k \in DOMAIN graphs' PROVE GraphOK(k, graphs'[k])
  <2>1. CASE k = n
    BY <1>1, <1>2, <2>1
  <2>2. CASE k # n
    BY <1>1, <1>2, <2>2 DEF GraphsInv
  <2> QED
    BY <2>1, <2>2
<1>4. DOMAIN graphs' \subseteq Range(Sizes)
  BY <1>2 DEF GraphsInv
<1> QED
  BY <1>3, <1>4 DEF GraphsInv

\* Marking a graph as captured changes nothing else.
LEMMA MarkedOK ==
    ASSUME NEW n, NEW g, GraphOK(n, g), NEW h, h = [g EXCEPT !.captured = TRUE]
    PROVE  GraphOK(n, h)
<1>1. g \in GraphBuffers(n)
  BY DEF GraphOK
<1>2. h \in GraphBuffers(n) /\ h.m = g.m
  BY <1>1 DEF GraphBuffers
<1> QED
  BY <1>2 DEF GraphOK

\* What a copy that raises changes.
LEMMA HalfFields ==
    ASSUME NEW n, NEW g \in GraphBuffers(n), NEW b, NEW k, NEW h, h = HalfCopied(g, b, k)
    PROVE  /\ h.captured = g.captured
           /\ h.inputIds = Overwrite(g.inputIds, Made(k, 1, b.inputIds), Unset)
           /\ h.m.positions = Overwrite(g.m.positions, Made(k, 2, b.positions), 0)
           /\ h.m.slots = [i \in DOMAIN g.m.slots |->
                             IF 3 <= k /\ i <= NumRequests(b) THEN b.slots[i] ELSE g.m.slots[i]]
           /\ h.m.seqLens = Overwrite(g.m.seqLens, Made(k, 4, b.seqLens), 1)
           /\ h.m.tables = IF 5 <= k THEN CopiedTables(g.m.tables, b)
                           ELSE [i \in DOMAIN g.m.tables |-> [j \in 1 .. MaxBlocks |-> 0]]
           /\ h.m.active = [i \in DOMAIN g.m.active |-> 6 <= k /\ i <= NumRequests(b)]
           /\ h.m.queryStart = g.m.queryStart /\ h.m.requestOf = g.m.requestOf
           /\ h.m.isDecode = g.m.isDecode
BY ZenonT(90) DEF GraphBuffers, HalfCopied

\* It keeps the shape of the record.
LEMMA HalfType ==
    ASSUME NEW n, NEW g \in GraphBuffers(n), NEW b, NEW k, NEW h, h = HalfCopied(g, b, k),
           h.inputIds \in [1 .. n -> Cells],
           h.m.positions \in [1 .. n -> Nat], h.m.slots \in [1 .. n -> Int],
           h.m.seqLens \in [1 .. n -> Nat], h.m.tables \in [1 .. n -> [1 .. MaxBlocks -> Int]],
           h.m.active \in [1 .. n -> BOOLEAN]
    PROVE  h \in GraphBuffers(n)
BY DEF GraphBuffers, HalfCopied

\* A tensor that is reset, and then overwritten or not.
LEMMA MadeOrReset ==
    ASSUME NEW n \in Nat, NEW T, NEW tensor, DOMAIN tensor = 1 .. n, NEW reset \in T,
           NEW k \in Nat, NEW j \in Nat, NEW rows, Overwrite(tensor, rows, reset) \in [1 .. n -> T]
    PROVE  Overwrite(tensor, Made(k, j, rows), reset) \in [1 .. n -> T]
<1>1. CASE j <= k
  BY <1>1 DEF Made
<1>2. CASE ~(j <= k)
  <2>1. Made(k, j, rows) = <<>> /\ Len(<<>>) = 0
    BY <1>2 DEF Made
  <2>2. \A i \in 1 .. n : ~(i <= 0)
    OBVIOUS
  <2>3. Overwrite(tensor, Made(k, j, rows), reset) = [i \in 1 .. n |-> reset]
    BY <2>1, <2>2 DEF Overwrite
  <2> QED
    BY <2>3
<1> QED
  BY <1>1, <1>2

\* A copy that raises leaves buffers of the right shape, with whatever contents.
LEMMA HalfCopiedOK ==
    ASSUME NEW n \in Nat, NEW g, GraphOK(n, g), NEW b, NEW c, c = Copied(g, b), GraphOK(n, c),
           NEW k \in Nat, NEW h, h = HalfCopied(g, b, k)
    PROVE  GraphOK(n, h)
<1>1. g \in GraphBuffers(n) /\ c \in GraphBuffers(n)
  BY DEF GraphOK
<1>2. /\ g.inputIds \in [1 .. n -> Cells] /\ g.m.positions \in [1 .. n -> Nat]
      /\ g.m.slots \in [1 .. n -> Int] /\ g.m.seqLens \in [1 .. n -> Nat]
      /\ g.m.tables \in [1 .. n -> [1 .. MaxBlocks -> Int]] /\ g.m.active \in [1 .. n -> BOOLEAN]
  BY <1>1, GraphFields
<1>3. /\ c.inputIds \in [1 .. n -> Cells] /\ c.m.positions \in [1 .. n -> Nat]
      /\ c.m.slots \in [1 .. n -> Int] /\ c.m.seqLens \in [1 .. n -> Nat]
      /\ c.m.tables \in [1 .. n -> [1 .. MaxBlocks -> Int]]
  BY <1>1, GraphFields
<1>4. /\ c.captured = g.captured
      /\ c.inputIds = Overwrite(g.inputIds, b.inputIds, Unset)
      /\ c.m.positions = Overwrite(g.m.positions, b.positions, 0)
      /\ c.m.slots = CopiedSlots(g.m.slots, b)
      /\ c.m.seqLens = Overwrite(g.m.seqLens, b.seqLens, 1)
      /\ c.m.tables = CopiedTables(g.m.tables, b)
      /\ c.m.active = [i \in DOMAIN g.m.active |-> i <= NumRequests(b)]
      /\ c.m.queryStart = g.m.queryStart /\ c.m.requestOf = g.m.requestOf
      /\ c.m.isDecode = g.m.isDecode
  BY <1>1, CopiedFields
<1>5. /\ h.captured = g.captured
      /\ h.inputIds = Overwrite(g.inputIds, Made(k, 1, b.inputIds), Unset)
      /\ h.m.positions = Overwrite(g.m.positions, Made(k, 2, b.positions), 0)
      /\ h.m.slots = [i \in DOMAIN g.m.slots |->
                        IF 3 <= k /\ i <= NumRequests(b) THEN b.slots[i] ELSE g.m.slots[i]]
      /\ h.m.seqLens = Overwrite(g.m.seqLens, Made(k, 4, b.seqLens), 1)
      /\ h.m.tables = IF 5 <= k THEN CopiedTables(g.m.tables, b)
                      ELSE [i \in DOMAIN g.m.tables |-> [j \in 1 .. MaxBlocks |-> 0]]
      /\ h.m.active = [i \in DOMAIN g.m.active |-> 6 <= k /\ i <= NumRequests(b)]
      /\ h.m.queryStart = g.m.queryStart /\ h.m.requestOf = g.m.requestOf
      /\ h.m.isDecode = g.m.isDecode
  BY <1>1, HalfFields
<1>6. Unset \in Cells /\ 0 \in Nat /\ 1 \in Nat /\ 2 \in Nat /\ 4 \in Nat
  BY DEF Cells
<1>7. h.inputIds \in [1 .. n -> Cells]
  <2>1. PICK t : t = g.inputIds
    OBVIOUS
  <2>2. PICK rows : rows = b.inputIds
    OBVIOUS
  <2>3. DOMAIN t = 1 .. n
    BY <1>2, <2>1
  <2>4. Overwrite(t, rows, Unset) \in [1 .. n -> Cells]
    BY <1>3, <1>4, <2>1, <2>2
  <2>5. Overwrite(t, Made(k, 1, rows), Unset) \in [1 .. n -> Cells]
    BY <1>6, <2>3, <2>4, MadeOrReset
  <2> QED
    BY <1>5, <2>1, <2>2, <2>5
<1>8. h.m.positions \in [1 .. n -> Nat]
  <2>1. PICK t : t = g.m.positions
    OBVIOUS
  <2>2. PICK rows : rows = b.positions
    OBVIOUS
  <2>3. DOMAIN t = 1 .. n
    BY <1>2, <2>1
  <2>4. Overwrite(t, rows, 0) \in [1 .. n -> Nat]
    BY <1>3, <1>4, <2>1, <2>2
  <2>5. Overwrite(t, Made(k, 2, rows), 0) \in [1 .. n -> Nat]
    BY <1>6, <2>3, <2>4, MadeOrReset
  <2> QED
    BY <1>5, <2>1, <2>2, <2>5
<1>9. h.m.seqLens \in [1 .. n -> Nat]
  <2>1. PICK t : t = g.m.seqLens
    OBVIOUS
  <2>2. PICK rows : rows = b.seqLens
    OBVIOUS
  <2>3. DOMAIN t = 1 .. n
    BY <1>2, <2>1
  <2>4. Overwrite(t, rows, 1) \in [1 .. n -> Nat]
    BY <1>3, <1>4, <2>1, <2>2
  <2>5. Overwrite(t, Made(k, 4, rows), 1) \in [1 .. n -> Nat]
    BY <1>6, <2>3, <2>4, MadeOrReset
  <2> QED
    BY <1>5, <2>1, <2>2, <2>5
<1>10. h.m.slots \in [1 .. n -> Int]
  <2>1. \A i \in 1 .. n : i <= NumRequests(b) => c.m.slots[i] = b.slots[i]
    BY <1>2, <1>4 DEF CopiedSlots
  <2>2. PICK s : s = g.m.slots
    OBVIOUS
  <2>3. PICK q : q = NumRequests(b)
    OBVIOUS
  <2>4. PICK f : f = [i \in 1 .. n |-> IF 3 <= k /\ i <= q THEN b.slots[i] ELSE s[i]]
    OBVIOUS
  <2>5. DOMAIN s = 1 .. n /\ h.m.slots = f
    <3>1. DOMAIN s = 1 .. n
      BY <1>2, <2>2
    <3>2. h.m.slots = [i \in DOMAIN s |-> IF 3 <= k /\ i <= q THEN b.slots[i] ELSE s[i]]
      BY <1>5, <2>2, <2>3
    <3> QED
      BY <3>1, <3>2, <2>4
  <2>6. ASSUME NEW i \in 1 .. n  PROVE f[i] \in Int
    <3>1. s[i] \in Int
      BY <1>2, <2>2
    <3>2. c.m.slots[i] \in Int
      BY <1>3
    <3>3. i <= q => b.slots[i] \in Int
      BY <2>1, <2>3, <3>2
    <3>4. f[i] = IF 3 <= k /\ i <= q THEN b.slots[i] ELSE s[i]
      BY <2>4
    <3> QED
      BY <3>1, <3>3, <3>4
  <2>7. f \in [1 .. n -> Int]
    BY <2>4, <2>6
  <2> QED
    BY <2>5, <2>7
<1>11. h.m.tables \in [1 .. n -> [1 .. MaxBlocks -> Int]]
  <2>1. [i \in DOMAIN g.m.tables |-> [j \in 1 .. MaxBlocks |-> 0]] \in [1 .. n -> [1 .. MaxBlocks -> Int]]
    BY <1>2
  <2> QED
    BY <1>3, <1>4, <1>5, <2>1
<1>12. h.m.active \in [1 .. n -> BOOLEAN]
  BY <1>2, <1>5
<1>13. h \in GraphBuffers(n)
  BY <1>1, <1>7, <1>8, <1>9, <1>10, <1>11, <1>12, HalfType
<1> QED
  BY <1>5, <1>13 DEF GraphOK

\* An ended request.
LEMMA EndedRequest ==
    ASSUME NEW e, e = [NewRequest EXCEPT !.state = "ended"]
    PROVE  e \in Requests /\ e.state = "ended" /\ e.computed = 0 /\ e.gen = 0 /\ e.table = <<>>
<1>1. PICK t \in Seq(Blocks) : t = <<>>
  <2>1. <<>> \in Seq(Blocks)
    OBVIOUS
  <2> QED
    BY <2>1
<1>2. e = [state |-> "ended", prompt |-> 0, computed |-> 0, gen |-> 0, table |-> t]
  BY <1>1 DEF NewRequest
<1>3. e \in Requests
  <2>1. [state |-> "ended", prompt |-> 0, computed |-> 0, gen |-> 0, table |-> t] \in Requests
    BY DEF Requests
  <2> QED
    BY <1>2, <2>1
<1>4. e.state = "ended" /\ e.computed = 0 /\ e.gen = 0 /\ e.table = t
  BY <1>2
<1> QED
  BY <1>1, <1>3, <1>4

\* What a result makes of a request.
LEMMA AppliedRequest ==
    ASSUME RequestsInv, ItemsInv, NEW r \in Ids, reqs' = Applied
    PROVE  /\ reqs'[r] \in Requests /\ RequestOK(r)'
           /\ reqs[r].state # "new" => reqs'[r].state # "new"
           /\ reqs'[r].state = "running" =>
                 /\ reqs[r].state = "running" /\ reqs'[r].table = reqs[r].table
                 /\ \/ reqs'[r].computed = reqs[r].computed
                    \/ \E q \in DOMAIN items : items[q].id = r /\ reqs'[r].computed = items[q].seqLen
           /\ \A q \in DOMAIN items : items[q].id = r /\ reqs'[r].state = "running" =>
                 reqs'[r].computed = items[q].seqLen
<1>1. reqs[r] \in Requests /\ RequestOK(r)
  BY DEF RequestsInv
<1>2. reqs'[r] = IF r \notin InBatch THEN reqs[r]
                 ELSE IF ItemOf(r).sample /\ AllTokens(r) + 1 >= MaxModelLen
                 THEN [NewRequest EXCEPT !.state = "ended"]
                 ELSE [reqs[r] EXCEPT !.computed = ItemOf(r).seqLen,
                                      !.gen = IF ItemOf(r).sample THEN @ + 1 ELSE @]
  BY DEF Applied
<1>3. CASE r \notin InBatch
  <2>1. reqs'[r] = reqs[r] /\ \A q \in DOMAIN items : items[q].id # r
    BY <1>2, <1>3 DEF InBatch
  <2>2. RequestOK(r)'
    BY <1>1, <2>1 DEF RequestOK, AllTokens
  <2> QED
    BY <1>1, <2>1, <2>2
<1>4. CASE r \in InBatch
  <2>1. PICK q \in DOMAIN items : items[q].id = r
    BY <1>4 DEF InBatch
  <2>2. PICK x \in Items : x = items[q]
    BY ItemAndRequest
  <2>3. ItemOf(r) = x /\ \A u \in DOMAIN items : items[u].id = r => u = q
    BY <2>1, <2>2, ItemOfRequest DEF ItemsInv
  <2>4. /\ x.seqLen \in Nat /\ x.sample \in BOOLEAN /\ x.seqLen <= Room(x.table)
        /\ x.seqLen < MaxModelLen
    BY ItemFacts
  <2>5. /\ reqs[r].state = "running" /\ x.table = reqs[r].table
        /\ x.seqLen <= AllTokens(r) /\ (x.sample <=> x.seqLen = AllTokens(r))
    BY <2>1, <2>2 DEF ItemsInv, Current
  <2>6. /\ reqs[r].prompt \in Nat /\ reqs[r].gen \in Nat /\ reqs[r].computed \in Nat
        /\ reqs[r].table \in Seq(Blocks) /\ AllTokens(r) \in Nat /\ AllTokens(r) < MaxModelLen
        /\ AllTokens(r) = reqs[r].prompt + reqs[r].gen
    BY <1>1, <2>5 DEF Requests, RequestOK, AllTokens
  <2>7. CASE x.sample /\ AllTokens(r) + 1 >= MaxModelLen
    <3>1. reqs'[r] = [NewRequest EXCEPT !.state = "ended"]
      BY <1>2, <1>4, <2>3, <2>7
    <3>2. /\ reqs'[r] \in Requests /\ reqs'[r].state = "ended" /\ reqs'[r].computed = 0
          /\ reqs'[r].gen = 0 /\ reqs'[r].table = <<>>
      BY <3>1, EndedRequest
    <3>3. RequestOK(r)'
      BY <3>2 DEF RequestOK
    <3> QED
      BY <3>2, <3>3
  <2>8. CASE ~(x.sample /\ AllTokens(r) + 1 >= MaxModelLen)
    <3> DEFINE v == IF x.sample THEN reqs[r].gen + 1 ELSE reqs[r].gen
    <3>1. reqs'[r] = [reqs[r] EXCEPT !.computed = x.seqLen, !.gen = v]
      BY <1>2, <1>4, <2>3, <2>8
    <3>v. v \in Nat
      BY <2>4, <2>6
    <3>w. reqs[r].prompt + v = IF x.sample THEN AllTokens(r) + 1 ELSE AllTokens(r)
      BY SMTT(30), <2>4, <2>6
    <3> HIDE DEF v
    <3>2. /\ reqs'[r] \in Requests /\ reqs'[r].state = "running" /\ reqs'[r].computed = x.seqLen
          /\ reqs'[r].gen = v /\ reqs'[r].table = reqs[r].table /\ reqs'[r].prompt = reqs[r].prompt
      BY <1>1, <2>4, <2>5, <3>1, <3>v DEF Requests
    <3>3. AllTokens(r)' = reqs[r].prompt + v
      BY <3>2 DEF AllTokens
    <3>4. x.seqLen < AllTokens(r)' /\ AllTokens(r)' < MaxModelLen
      <4>1. CASE x.sample
        BY <2>4, <2>5, <2>6, <2>8, <3>3, <3>w, <4>1, RunnerConfig
      <4>2. CASE ~x.sample
        BY <2>4, <2>5, <2>6, <3>3, <3>w, <4>2, RunnerConfig
      <4> QED
        BY <4>1, <4>2
    <3>5. RequestOK(r)'
      BY <2>4, <2>5, <3>2, <3>4 DEF RequestOK
    <3> QED
      BY <2>1, <2>2, <2>3, <2>5, <3>2, <3>5
  <2> QED
    BY <2>7, <2>8
<1> QED
  BY <1>3, <1>4

\* The requests after a result.
LEMMA AppliedInv ==
    ASSUME RequestsInv, ItemsInv, reqs' = Applied
    PROVE  RequestsInv'
<1>1. reqs' \in [Ids -> Requests]
  <2>1. \A r \in Ids : reqs'[r] \in Requests
    BY AppliedRequest
  <2>2. DOMAIN reqs' = Ids /\ reqs' = [r \in DOMAIN reqs' |-> reqs'[r]]
    BY DEF Applied
  <2> QED
    BY <2>1, <2>2
<1>2. \A r \in Ids : RequestOK(r)'
  BY AppliedRequest
<1>3. \A r \in Running' : r \in Running /\ reqs'[r].table = reqs[r].table
  BY AppliedRequest DEF Running
<1>4. TablesApart'
  BY <1>3 DEF RequestsInv, TablesApart
<1> QED
  BY <1>1, <1>2, <1>4 DEF RequestsInv

\* A batch that finishes keeps the invariant, when its pass kept the cache.
LEMMA FinishKeeps ==
    ASSUME RequestsInv, ItemsInv, items # <<>>, NEW m, NEW ids, Writes(m, ids), CacheInv,
           kv' = Appended(m, ids), NEW mode \in {"eager", "capture", "replay"},
           NEW logits, Finish(mode, Flatten(items), logits),
           mode # "capture" => SampledRows(Flatten(items), kv', logits)
    PROVE  RequestsInv' /\ ItemsInv' /\ CacheInv' /\ LastInv'
<1> DEFINE b == Flatten(items)
<1>0. Batch(b, items)
  BY BatchInHand
<1>f. /\ last' = [mode |-> mode, logits |-> Sampled(b, logits)] /\ reqs' = Applied /\ items' = <<>>
  BY DEF Finish
<1>b. mode # "capture" => SampledRows(b, kv', logits)
  OBVIOUS
<1> HIDE DEF b
<1>1. RequestsInv'
  BY <1>f, AppliedInv
<1>2. ItemsInv'
  <2>1. <<>> \in Seq(Items) /\ Len(<<>>) = 0 /\ DOMAIN <<>> = {}
    OBVIOUS
  <2> QED
    BY <1>f, <2>1, RunnerConfig DEF ItemsInv
<1>3. /\ DOMAIN kv' = CacheSlots
      /\ \A r \in Running : \A p \in 0 .. (reqs[r].computed - 1) :
            kv'[Slot(reqs[r].table, p)] = OwnKV(r, p)
      /\ \A q \in DOMAIN items : \A p \in 0 .. (items[q].seqLen - 1) :
            kv'[Slot(items[q].table, p)] = OwnKV(items[q].id, p)
  BY PassKeepsCache
<1>4. CacheInv'
  <2> SUFFICES ASSUME NEW r \in Running', NEW p \in 0 .. (reqs'[r].computed - 1)
               PROVE  kv'[Slot(reqs'[r].table, p)] = OwnKV(r, p)
    BY <1>3 DEF CacheInv, CacheKeepsComputedTokens
  <2>1. /\ r \in Ids /\ reqs[r].state = "running" /\ reqs'[r].table = reqs[r].table
        /\ \/ reqs'[r].computed = reqs[r].computed
           \/ \E q \in DOMAIN items : items[q].id = r /\ reqs'[r].computed = items[q].seqLen
    BY <1>f, AppliedRequest DEF Running
  <2>2. CASE reqs'[r].computed = reqs[r].computed
    BY <1>3, <2>1, <2>2 DEF Running
  <2>3. ASSUME NEW q \in DOMAIN items, items[q].id = r, reqs'[r].computed = items[q].seqLen
        PROVE  kv'[Slot(reqs'[r].table, p)] = OwnKV(r, p)
    <3>1. reqs[r].table = items[q].table
      BY <2>3, ItemAndRequest
    <3> QED
      BY <1>3, <2>1, <2>3, <3>1
  <2> QED
    BY <2>1, <2>2, <2>3
<1>5. ASSUME NEW r \in DOMAIN last'.logits
      PROVE  /\ r \in Ids /\ reqs'[r].state # "new"
             /\ mode # "capture" =>
                   \E n \in 1 .. MaxModelLen : /\ last'.logits[r] = OwnContext(r, n)
                                               /\ reqs'[r].state = "running" => n >= reqs'[r].computed
  <2>1. PICK q \in DOMAIN items : /\ items[q].id = r /\ items[q].sample
                                  /\ last'.logits[r] = logits[b.queryStart[q + 1]]
    BY <1>0, <1>f, SampledRequests
  <2>2. PICK x \in Items : x = items[q]
    BY ItemAndRequest
  <2>3. /\ r \in Running /\ r \in Ids /\ x.start \in Nat /\ x.seqLen \in Nat /\ x.start < x.seqLen
        /\ x.seqLen < MaxModelLen
    BY <2>1, <2>2, ItemAndRequest
  <2>4. reqs'[r].state # "new" /\ (reqs'[r].state = "running" => reqs'[r].computed = x.seqLen)
    BY <1>f, <2>1, <2>2, <2>3, AppliedRequest DEF Running
  <2>5. ASSUME mode # "capture" PROVE last'.logits[r] = OwnContext(r, x.seqLen)
    <3>1. last'.logits[r] = Attended(kv', ContextSlots(x.table, x.seqLen))
      BY <1>b, <2>1, <2>2, <2>5 DEF SampledRows
    <3>2. \A p \in 0 .. (x.seqLen - 1) : kv'[Slot(x.table, p)] = OwnKV(r, p)
      BY <1>3, <2>1, <2>2
    <3> QED
      BY <2>3, <3>1, <3>2, OwnAttended
  <2>6. x.seqLen \in 1 .. MaxModelLen
    BY <2>3, RunnerConfig
  <2>7. x.seqLen >= x.seqLen
    BY <2>3
  <2> QED
    BY <2>3, <2>4, <2>5, <2>6, <2>7
<1>6. last'.mode = mode
  BY <1>f
<1>7. LastInv'
  BY <1>5, <1>6 DEF LastInv, ReplaySampledFromOwnContext, SampledFromOwnContext
<1> QED
  BY <1>1, <1>2, <1>4, <1>7

\* A batch that fails ends its requests.
LEMMA RaiseKeeps ==
    ASSUME RequestsInv, ItemsInv, CacheInv, items # <<>>, NEW m, NEW ids, Writes(m, ids),
           kv' \in {kv, Appended(m, ids)},
           last' = [mode |-> "error", logits |-> NoLogits],
           reqs' = [r \in Ids |-> IF r \in InBatch
                                  THEN [NewRequest EXCEPT !.state = "ended"] ELSE reqs[r]],
           items' = <<>>
    PROVE  RequestsInv' /\ ItemsInv' /\ CacheInv' /\ LastInv'
<1>1. ASSUME NEW r \in Ids
      PROVE  /\ reqs'[r] \in Requests /\ RequestOK(r)'
             /\ reqs'[r].state = "running" => reqs'[r] = reqs[r]
  <2>1. CASE r \in InBatch
    <3>1. reqs'[r] = [NewRequest EXCEPT !.state = "ended"]
      BY <2>1
    <3>2. /\ reqs'[r] \in Requests /\ reqs'[r].state = "ended" /\ reqs'[r].computed = 0
          /\ reqs'[r].gen = 0 /\ reqs'[r].table = <<>>
      BY <3>1, EndedRequest
    <3> QED
      BY <3>2 DEF RequestOK
  <2>2. CASE r \notin InBatch
    <3>1. reqs'[r] = reqs[r]
      BY <2>2
    <3>2. reqs[r] \in Requests /\ RequestOK(r)
      BY DEF RequestsInv
    <3> QED
      BY <3>1, <3>2 DEF RequestOK, AllTokens
  <2> QED
    BY <2>1, <2>2
<1>2. \A r \in Running' : /\ r \in Running /\ reqs'[r].table = reqs[r].table
                           /\ reqs'[r].computed = reqs[r].computed
  BY <1>1 DEF Running
<1>3. RequestsInv'
  <2>1. reqs' \in [Ids -> Requests]
    BY <1>1
  <2>2. TablesApart'
    <3> SUFFICES ASSUME NEW a \in Running', NEW s \in Running', NEW i \in DOMAIN reqs'[a].table,
                        NEW j \in DOMAIN reqs'[s].table, reqs'[a].table[i] = reqs'[s].table[j]
                 PROVE  a = s /\ i = j
      BY DEF TablesApart
    <3>1. /\ a \in Running /\ reqs'[a].table = reqs[a].table
          /\ s \in Running /\ reqs'[s].table = reqs[s].table
      BY <1>2
    <3> QED
      BY <3>1 DEF RequestsInv, TablesApart
  <2> QED
    BY <1>1, <2>1, <2>2 DEF RequestsInv
<1>4. ItemsInv'
  <2>1. <<>> \in Seq(Items) /\ Len(<<>>) = 0 /\ DOMAIN <<>> = {}
    OBVIOUS
  <2> QED
    BY <2>1, RunnerConfig DEF ItemsInv
<1>5. /\ DOMAIN kv' = CacheSlots
      /\ \A r \in Running : \A p \in 0 .. (reqs[r].computed - 1) :
            kv'[Slot(reqs[r].table, p)] = OwnKV(r, p)
  <2>1. CASE kv' = kv
    BY <2>1 DEF CacheInv, CacheKeepsComputedTokens
  <2>2. CASE kv' = Appended(m, ids)
    BY <2>2, PassKeepsCache
  <2> QED
    BY <2>1, <2>2
<1>6. CacheInv'
  BY <1>2, <1>5 DEF CacheInv, CacheKeepsComputedTokens
<1>7. LastInv'
  <2>1. last'.mode = "error" /\ DOMAIN last'.logits = {}
    BY DEF NoLogits
  <2> QED
    BY <2>1 DEF LastInv, ReplaySampledFromOwnContext, SampledFromOwnContext
<1> QED
  BY <1>3, <1>4, <1>6, <1>7

-----------------------------------------------------------------------------
(* The invariant is inductive. *)

\* The four ends of a batch.
LEMMA EagerKeeps == RunnerInv /\ Eager => RunnerInv'
<1> SUFFICES ASSUME RunnerInv, Eager PROVE RunnerInv'
  OBVIOUS
<1> DEFINE b == Flatten(items)
           m == Metadata(b)
<1>1. /\ items # <<>> /\ kv' = Appended(m, b.inputIds) /\ Finish("eager", b, Logits(kv', m))
      /\ graphs' = graphs
  BY DEF Eager
<1>2. RequestsInv /\ ItemsInv /\ GraphsInv /\ CacheInv
  BY DEF RunnerInv
<1>3. Writes(m, b.inputIds) /\ SampledRows(b, kv', Logits(kv', m))
  BY <1>1, <1>2, EagerWrites, EagerSampled
<1> HIDE DEF m
<1>4. PICK ids, logits : ids = b.inputIds /\ logits = Logits(kv', m)
  OBVIOUS
<1>5. RequestsInv' /\ ItemsInv' /\ CacheInv' /\ LastInv'
  BY <1>1, <1>2, <1>3, <1>4, FinishKeeps
<1>6. GraphsInv'
  BY <1>1, <1>2 DEF GraphsInv
<1> QED
  BY <1>5, <1>6 DEF RunnerInv

\* The capture of a graph keeps the invariant: _capture and the first replay.
LEMMA CaptureKeeps == RunnerInv /\ Capture => RunnerInv'
<1> SUFFICES ASSUME RunnerInv, Capture PROVE RunnerInv'
  OBVIOUS
<1> DEFINE b == Flatten(items)
           n == CaptureSize(b)
           g == Copied(GraphState(n), b)
           h == [g EXCEPT !.captured = TRUE]
<1>1. /\ GraphBatch(b) /\ kv' = Appended(g.m, g.inputIds) /\ SetGraph(n, h)
      /\ Finish("capture", b, [i \in 1 .. n |-> Unset])
  BY DEF Capture
<1>2. RequestsInv /\ ItemsInv /\ GraphsInv /\ CacheInv
  BY DEF RunnerInv
<1>3. /\ n \in Range(Sizes) /\ GraphOK(n, g) /\ PaddingOK(n, g) /\ Writes(g.m, g.inputIds)
      /\ items # <<>>
  BY <1>1, <1>2, GraphPass DEF GraphBatch
<1>4. GraphOK(n, h)
  BY <1>3, MarkedOK
<1> HIDE DEF g, h, n
<1>5. GraphsInv'
  BY <1>1, <1>2, <1>3, <1>4, GraphKept
<1>6. PICK m, ids, logits : m = g.m /\ ids = g.inputIds /\ logits = [i \in 1 .. n |-> Unset]
  OBVIOUS
<1>7. RequestsInv' /\ ItemsInv' /\ CacheInv' /\ LastInv'
  BY <1>1, <1>2, <1>3, <1>6, FinishKeeps
<1> QED
  BY <1>5, <1>7 DEF RunnerInv

\* The replay of a captured graph keeps the invariant.
LEMMA ReplayKeeps == RunnerInv /\ Replay => RunnerInv'
<1> SUFFICES ASSUME RunnerInv, Replay PROVE RunnerInv'
  OBVIOUS
<1> DEFINE b == Flatten(items)
           n == CaptureSize(b)
           g == Copied(GraphState(n), b)
<1>1. /\ GraphBatch(b) /\ kv' = Appended(g.m, g.inputIds) /\ SetGraph(n, g)
      /\ Finish("replay", b, Logits(kv', g.m))
  BY DEF Replay
<1>2. RequestsInv /\ ItemsInv /\ GraphsInv /\ CacheInv
  BY DEF RunnerInv
<1>3. /\ n \in Range(Sizes) /\ GraphOK(n, g) /\ PaddingOK(n, g) /\ Writes(g.m, g.inputIds)
      /\ items # <<>> /\ \A k : SampledRows(b, k, Logits(k, g.m))
  BY <1>1, <1>2, GraphPass DEF GraphBatch
<1> HIDE DEF g, n
<1>4. GraphsInv'
  BY <1>1, <1>2, <1>3, GraphKept
<1>5. PICK m, ids, logits : m = g.m /\ ids = g.inputIds /\ logits = Logits(kv', g.m)
  OBVIOUS
<1>6. SampledRows(b, kv', logits)
  BY <1>3, <1>5
<1>7. RequestsInv' /\ ItemsInv' /\ CacheInv' /\ LastInv'
  BY <1>1, <1>2, <1>3, <1>5, <1>6, FinishKeeps
<1> QED
  BY <1>4, <1>7 DEF RunnerInv

\* What is left of a graph whose execution raised, and what it did to the cache.
LEMMA GraphRaisesKeeps ==
    ASSUME RequestsInv, ItemsInv, GraphsInv, NEW b, b = Flatten(items), GraphBatch(b), GraphRaises(b)
    PROVE  /\ GraphsInv'
           /\ \E m, ids : Writes(m, ids) /\ kv' \in {kv, Appended(m, ids)}
<1> DEFINE n == CaptureSize(b)
           g == Copied(GraphState(n), b)
           h == [g EXCEPT !.captured = TRUE]
<1>1. /\ n \in Nat /\ n \in Range(Sizes) /\ GraphOK(n, g) /\ Writes(g.m, g.inputIds)
  BY GraphPass
<1>2. GraphOK(n, GraphState(n)) /\ GraphOK(n, h)
  BY <1>1, GraphStateOK, MarkedOK
<1>3. \A k \in 0 .. 6 : GraphOK(n, HalfCopied(GraphState(n), b, k))
  BY <1>1, <1>2, HalfCopiedOK
<1>4. \/ UNCHANGED <<graphs, kv>>
      \/ \E k \in 0 .. 6 : SetGraph(n, HalfCopied(GraphState(n), b, k)) /\ UNCHANGED kv
      \/ SetGraph(n, g) /\ kv' \in {kv, Appended(g.m, g.inputIds)}
      \/ SetGraph(n, h) /\ kv' = Appended(g.m, g.inputIds)
  BY DEF GraphRaises
<1> HIDE DEF n, g, h
<1>5. kv' \in {kv, Appended(g.m, g.inputIds)}
  BY <1>4
<1>6. GraphsInv'
  <2>1. CASE UNCHANGED graphs
    BY <2>1 DEF GraphsInv
  <2>2. ASSUME NEW k \in 0 .. 6, SetGraph(n, HalfCopied(GraphState(n), b, k)) PROVE GraphsInv'
    BY <1>1, <1>3, <2>2, GraphKept
  <2>3. CASE SetGraph(n, g)
    BY <1>1, <2>3, GraphKept
  <2>4. CASE SetGraph(n, h)
    BY <1>1, <1>2, <2>4, GraphKept
  <2> QED
    BY <1>4, <2>1, <2>2, <2>3, <2>4
<1> QED
  BY <1>1, <1>5, <1>6

\* A batch that fails keeps the invariant.
LEMMA RaiseKept == RunnerInv /\ Raise => RunnerInv'
<1> SUFFICES ASSUME RunnerInv, Raise PROVE RunnerInv'
  OBVIOUS
<1> DEFINE b == Flatten(items)
<1>1. /\ items # <<>> /\ last' = [mode |-> "error", logits |-> NoLogits] /\ items' = <<>>
      /\ reqs' = [r \in Ids |-> IF r \in InBatch
                                THEN [NewRequest EXCEPT !.state = "ended"] ELSE reqs[r]]
      /\ IF GraphBatch(b) THEN GraphRaises(b)
         ELSE graphs' = graphs /\ kv' \in {kv, Appended(Metadata(b), b.inputIds)}
  BY DEF Raise, EagerRaises
<1>2. RequestsInv /\ ItemsInv /\ GraphsInv /\ CacheInv
  BY DEF RunnerInv
<1>3. GraphsInv' /\ \E m, ids : Writes(m, ids) /\ kv' \in {kv, Appended(m, ids)}
  <2>1. CASE GraphBatch(b)
    BY <1>1, <1>2, <2>1, GraphRaisesKeeps
  <2>2. CASE ~GraphBatch(b)
    <3>1. Writes(Metadata(b), b.inputIds)
      BY <1>1, <1>2, EagerWrites
    <3>2. GraphsInv'
      BY <1>1, <1>2, <2>2 DEF GraphsInv
    <3> QED
      BY <1>1, <2>2, <3>1, <3>2
  <2> QED
    BY <2>1, <2>2
<1>4. PICK m, ids : Writes(m, ids) /\ kv' \in {kv, Appended(m, ids)}
  BY <1>3
<1>5. RequestsInv' /\ ItemsInv' /\ CacheInv' /\ LastInv'
  BY <1>1, <1>2, <1>4, RaiseKeeps
<1> QED
  BY <1>3, <1>5 DEF RunnerInv

\* The invariant holds at the start.
LEMMA InitRunner == Init => RunnerInv
<1> SUFFICES ASSUME Init PROVE RunnerInv
  OBVIOUS
<1>0. /\ reqs = [r \in Ids |-> NewRequest] /\ items = <<>> /\ kv = [s \in CacheSlots |-> Unset]
      /\ graphs = [n \in {} |-> Unset] /\ last = [mode |-> "none", logits |-> NoLogits]
  BY DEF Init
<1>1. PICK t \in Seq(Blocks) : t = <<>>
  <2>1. <<>> \in Seq(Blocks)
    OBVIOUS
  <2> QED
    BY <2>1
<1>2. NewRequest = [state |-> "new", prompt |-> 0, computed |-> 0, gen |-> 0, table |-> t]
  BY <1>1 DEF NewRequest
<1>3. /\ NewRequest \in Requests /\ NewRequest.state = "new" /\ NewRequest.computed = 0
      /\ NewRequest.gen = 0 /\ NewRequest.table = t
  BY <1>2 DEF Requests
<1>4. reqs \in [Ids -> Requests] /\ \A r \in Ids : reqs[r] = NewRequest
  BY <1>0, <1>3
<1>5. \A r \in Ids : RequestOK(r)
  BY <1>1, <1>3, <1>4 DEF RequestOK
<1>6. Running = {}
  BY <1>3, <1>4 DEF Running
<1>7. RequestsInv
  BY <1>4, <1>5, <1>6 DEF RequestsInv, TablesApart
<1>8. ItemsInv
  <2>1. <<>> \in Seq(Items) /\ Len(<<>>) = 0 /\ DOMAIN <<>> = {}
    OBVIOUS
  <2> QED
    BY <1>0, <2>1, RunnerConfig DEF ItemsInv
<1>9. GraphsInv
  BY <1>0 DEF GraphsInv
<1>10. CacheInv
  BY <1>0, <1>6 DEF CacheInv, CacheKeepsComputedTokens
<1>11. LastInv
  <2>1. last.mode = "none" /\ DOMAIN last.logits = {}
    BY <1>0 DEF NoLogits
  <2> QED
    BY <2>1 DEF LastInv, ReplaySampledFromOwnContext, SampledFromOwnContext
<1> QED
  BY <1>7, <1>8, <1>9, <1>10, <1>11 DEF RunnerInv

\* Starting or ending a request while no batch is in hand.
LEMMA StartKeeps == \A r \in Ids : RunnerInv /\ Start(r) => RunnerInv'
<1> SUFFICES ASSUME NEW r \in Ids, RunnerInv, Start(r) PROVE RunnerInv'
  OBVIOUS
<1>0. RequestsInv /\ ItemsInv /\ GraphsInv /\ CacheInv /\ LastInv
  BY DEF RunnerInv
<1>1. PICK n \in 1 .. MaxPrompt :
         /\ reqs[r].state = "new" /\ items = <<>>
         /\ reqs' = [reqs EXCEPT ![r].state = "running", ![r].prompt = n]
         /\ items' = items /\ kv' = kv /\ graphs' = graphs /\ last' = last
  BY DEF Start
<1>2. n \in Nat /\ n > 0 /\ n < MaxModelLen
  BY RunnerConfig
<1>3. reqs \in [Ids -> Requests] /\ reqs[r] \in Requests /\ RequestOK(r)
  BY <1>0 DEF RequestsInv
<1>4. reqs[r].computed = 0 /\ reqs[r].gen = 0 /\ reqs[r].table = <<>>
  BY <1>1, <1>3 DEF RequestOK
<1>5. /\ reqs' \in [Ids -> Requests] /\ reqs'[r].state = "running" /\ reqs'[r].prompt = n
      /\ reqs'[r].computed = 0 /\ reqs'[r].gen = 0 /\ reqs'[r].table = reqs[r].table
      /\ \A s \in Ids : s # r => reqs'[s] = reqs[s]
  BY <1>1, <1>2, <1>3, <1>4 DEF Requests
<1>6. ASSUME NEW s \in Ids PROVE RequestOK(s)'
  <2>1. CASE s = r
    <3>1. AllTokens(r)' = n
      BY <1>2, <1>5 DEF AllTokens
    <3>2. Room(reqs'[r].table) = 0
      BY <1>4, <1>5, Geometry DEF Room
    <3> QED
      BY <1>2, <1>5, <2>1, <3>1, <3>2 DEF RequestOK
  <2>2. CASE s # r
    BY <1>0, <1>5, <2>2 DEF RequestsInv, RequestOK, AllTokens
  <2> QED
    BY <2>1, <2>2
<1>7. /\ \A s \in Running' : \/ s = r /\ DOMAIN reqs'[s].table = {} /\ reqs'[s].computed = 0
                             \/ /\ s \in Running /\ reqs'[s].table = reqs[s].table
                                /\ reqs'[s].computed = reqs[s].computed
  BY <1>4, <1>5 DEF Running
<1>8. TablesApart'
  <2> SUFFICES ASSUME NEW a \in Running', NEW s \in Running', NEW i \in DOMAIN reqs'[a].table,
                      NEW j \in DOMAIN reqs'[s].table, reqs'[a].table[i] = reqs'[s].table[j]
               PROVE  a = s /\ i = j
    BY DEF TablesApart
  <2>1. /\ a \in Running /\ reqs'[a].table = reqs[a].table
        /\ s \in Running /\ reqs'[s].table = reqs[s].table
    BY <1>7
  <2> QED
    BY <1>0, <2>1 DEF RequestsInv, TablesApart
<1>9. ItemsInv'
  BY <1>0, <1>1 DEF ItemsInv
<1>10. CacheInv'
  <2> SUFFICES ASSUME NEW s \in Running', NEW p \in 0 .. (reqs'[s].computed - 1)
               PROVE  kv[Slot(reqs'[s].table, p)] = OwnKV(s, p)
    BY <1>0, <1>1 DEF CacheInv, CacheKeepsComputedTokens
  <2>1. /\ s \in Running /\ reqs'[s].table = reqs[s].table
        /\ reqs'[s].computed = reqs[s].computed
    BY <1>7
  <2> QED
    BY <1>0, <2>1 DEF CacheInv, CacheKeepsComputedTokens
<1>11. LastInv'
  <2>1. \A s \in DOMAIN last.logits : s \in Ids /\ s # r /\ reqs'[s] = reqs[s]
    BY <1>0, <1>1, <1>5 DEF LastInv
  <2> QED
    BY <1>0, <1>1, <2>1 DEF LastInv, ReplaySampledFromOwnContext, SampledFromOwnContext
<1>12. GraphsInv'
  BY <1>0, <1>1 DEF GraphsInv
<1> QED
  BY <1>5, <1>6, <1>8, <1>9, <1>10, <1>11, <1>12 DEF RunnerInv, RequestsInv

\* The end of a request, which frees its blocks, keeps the invariant.
LEMMA EndKeeps == \A r \in Ids : RunnerInv /\ End(r) => RunnerInv'
<1> SUFFICES ASSUME NEW r \in Ids, RunnerInv, End(r) PROVE RunnerInv'
  OBVIOUS
<1>0. RequestsInv /\ ItemsInv /\ GraphsInv /\ CacheInv /\ LastInv
  BY DEF RunnerInv
<1>1. PICK e : /\ e = [NewRequest EXCEPT !.state = "ended"]
               /\ reqs' = [reqs EXCEPT ![r] = e] /\ items = <<>>
               /\ items' = items /\ kv' = kv /\ graphs' = graphs /\ last' = last
  BY DEF End
<1>2. e \in Requests /\ e.state = "ended" /\ e.computed = 0 /\ e.gen = 0 /\ e.table = <<>>
  BY <1>1, EndedRequest
<1>3. /\ reqs' \in [Ids -> Requests] /\ reqs'[r] = e /\ \A s \in Ids : s # r => reqs'[s] = reqs[s]
  BY <1>0, <1>1, <1>2 DEF RequestsInv
<1>4. ASSUME NEW s \in Ids PROVE RequestOK(s)'
  <2>1. CASE s = r
    BY <1>2, <1>3, <2>1 DEF RequestOK
  <2>2. CASE s # r
    BY <1>0, <1>3, <2>2 DEF RequestsInv, RequestOK, AllTokens
  <2> QED
    BY <2>1, <2>2
<1>5. \A s \in Running' : /\ s \in Running /\ reqs'[s].table = reqs[s].table
                          /\ reqs'[s].computed = reqs[s].computed
  BY <1>2, <1>3 DEF Running
<1>6. TablesApart'
  BY <1>0, <1>5 DEF RequestsInv, TablesApart
<1>7. ItemsInv'
  BY <1>0, <1>1 DEF ItemsInv
<1>8. CacheInv'
  BY <1>0, <1>1, <1>5 DEF CacheInv, CacheKeepsComputedTokens
<1>9. LastInv'
  <2>1. \A s \in DOMAIN last.logits : /\ s \in Ids /\ reqs'[s].state # "new"
                                      /\ reqs'[s].state = "running" => reqs'[s] = reqs[s]
    BY <1>0, <1>2, <1>3 DEF LastInv
  <2> QED
    BY <1>0, <1>1, <2>1 DEF LastInv, ReplaySampledFromOwnContext, SampledFromOwnContext
<1>10. GraphsInv'
  BY <1>0, <1>1 DEF GraphsInv
<1> QED
  BY <1>3, <1>4, <1>6, <1>7, <1>8, <1>9, <1>10 DEF RunnerInv, RequestsInv

\* An item is added to the batch.
LEMMA ScheduleKeeps ==
    \A r \in Ids : \A n \in 1 .. MaxModelLen : RunnerInv /\ ScheduleItem(r, n) => RunnerInv'
<1> SUFFICES ASSUME NEW r \in Ids, NEW n \in 1 .. MaxModelLen, RunnerInv, ScheduleItem(r, n)
             PROVE  RunnerInv'
  OBVIOUS
<1>0. RequestsInv /\ ItemsInv /\ GraphsInv /\ CacheInv /\ LastInv
  BY DEF RunnerInv
<1> DEFINE q == reqs[r]
           need == CeilDiv(q.computed + n, BlockSize) - Len(q.table)
           Item(t) == [id     |-> r,
                       tokens |-> [i \in 1 .. n |-> <<r, q.computed + i - 1>>],
                       start  |-> q.computed,
                       slots  |-> [i \in 1 .. n |-> Slot(t, q.computed + i - 1)],
                       table  |-> t,
                       seqLen |-> q.computed + n,
                       gen    |-> q.gen,
                       sample |-> q.computed + n = AllTokens(r)]
<1>1. /\ r \in Running /\ Len(items) < MaxNumSeqs /\ \A i \in DOMAIN items : items[i].id # r
      /\ n \in 1 .. (AllTokens(r) - q.computed)
      /\ kv' = kv /\ graphs' = graphs /\ last' = last
  BY DEF ScheduleItem
<1>2. PICK new \in [1 .. need -> FreeBlocks] :
         /\ IsInjective(new) /\ reqs' = [reqs EXCEPT ![r].table = q.table \o new]
         /\ items' = Append(items, Item(q.table \o new))
  BY DEF ScheduleItem
<1>3. /\ reqs \in [Ids -> Requests] /\ q \in Requests /\ RequestOK(r) /\ q.state = "running"
  BY <1>0, <1>1 DEF RequestsInv, Running
<1>4. /\ q.computed \in Nat /\ q.gen \in Nat /\ q.prompt \in Nat /\ q.table \in Seq(Blocks)
      /\ AllTokens(r) \in Nat /\ q.computed < AllTokens(r) /\ AllTokens(r) < MaxModelLen
      /\ q.computed <= Room(q.table) /\ Len(q.table) \in Nat
  BY <1>3 DEF Requests, RequestOK, AllTokens
<1>5. n \in Nat /\ n > 0 /\ q.computed + n <= AllTokens(r) /\ q.computed + n \in Nat
  BY SMTT(30), <1>1, <1>4, RunnerConfig
<1> DEFINE w == CeilDiv(q.computed + n, BlockSize)
           old == q.table
           k == Len(old)
<1>6. w \in Nat /\ q.computed + n <= w * BlockSize /\ w * BlockSize \in Nat
  <2>1. w \in Nat
    BY <1>5, CeilDivRoom
  <2> QED
    BY SMTT(30), <1>5, <2>1, CeilDivRoom, Geometry
<1>7. need = w - k /\ need \in Int
  BY <1>4, <1>6
<1>o. old \in Seq(Blocks) /\ k \in Nat /\ \A i \in 1 .. k : old[i] \in Blocks
  BY <1>4
<1> HIDE DEF w, need, k, old
\* The new blocks, and the table that has them at its end.
<1>8. PICK u \in Seq(Blocks) :
         /\ u = new /\ DOMAIN u = 1 .. need /\ Len(u) \in Nat /\ (need > 0 => Len(u) = need)
         /\ \A i \in 1 .. Len(u) : u[i] \in FreeBlocks
         /\ \A i, j \in 1 .. Len(u) : u[i] = u[j] => i = j
  <2>1. PICK l \in Nat : 1 .. need = 1 .. l /\ (need > 0 => l = need)
    <3>1. CASE need > 0
      BY <1>7, <3>1
    <3>2. CASE ~(need > 0)
      <4>1. 1 .. need = 1 .. 0
        BY <1>7, <3>2
      <4> QED
        BY <3>2, <4>1
    <3> QED
      BY <3>1, <3>2
  <2>2. FreeBlocks \subseteq Blocks
    BY DEF FreeBlocks
  <2>3. PICK v : v = new /\ v \in [1 .. l -> FreeBlocks] /\ IsInjective(v)
    BY <1>2, <2>1
  <2>4. v \in [1 .. l -> Blocks]
    BY <2>2, <2>3
  <2>5. v \in Seq(Blocks) /\ Len(v) = l /\ DOMAIN v = 1 .. l
    BY <2>4
  <2>6. \A i, j \in 1 .. l : v[i] = v[j] => i = j
    BY <2>3, <2>5 DEF IsInjective
  <2> QED
    BY <2>1, <2>3, <2>5, <2>6
<1>9. PICK t \in Seq(Blocks) :
         /\ t = old \o u /\ Len(t) = k + Len(u) /\ Len(t) \in Nat
         /\ \A i \in 1 .. k : t[i] = old[i]
         /\ \A i \in 1 .. Len(u) : t[k + i] = u[i]
  <2>1. old \o u \in Seq(Blocks) /\ Len(old \o u) = Len(old) + Len(u)
        /\ (\A i \in 1 .. Len(old) : (old \o u)[i] = old[i])
        /\ (\A j \in 1 .. Len(u) : (old \o u)[Len(old) + j] = u[j])
    BY <1>o, Joined
  <2>2. Len(old) = k
    BY DEF k
  <2>3. PICK t \in Seq(Blocks) : t = old \o u
    BY <2>1
  <2>4. Len(t) = k + Len(u) /\ Len(t) \in Nat
    BY <1>8, <1>o, <2>1, <2>2, <2>3
  <2> QED
    BY <2>1, <2>2, <2>3, <2>4
<1>10. Len(t) >= w /\ Len(t) >= k
  BY <1>6, <1>7, <1>8, <1>9, <1>o
<1>11. q.computed + n <= Room(t) /\ Room(t) \in Nat /\ q.computed <= Room(t)
  <2>1. w * BlockSize <= Len(t) * BlockSize /\ Len(t) * BlockSize \in Nat
    BY <1>6, <1>9, <1>10, RoomMonotonic
  <2> QED
    BY SMTT(30), <1>4, <1>5, <1>6, <2>1 DEF Room
<1>12. /\ reqs' = [reqs EXCEPT ![r].table = t] /\ items' = Append(items, Item(t))
  BY <1>2, <1>8, <1>9 DEF old
<1>13. /\ reqs' \in [Ids -> Requests] /\ reqs'[r].table = t /\ reqs'[r].state = "running"
       /\ reqs'[r].prompt = q.prompt /\ reqs'[r].gen = q.gen /\ reqs'[r].computed = q.computed
       /\ \A s \in Ids : s # r => reqs'[s] = reqs[s]
  BY <1>3, <1>12 DEF Requests
<1>14. AllTokens(r)' = AllTokens(r)
  BY <1>13 DEF AllTokens
<1>15. ASSUME NEW s \in Ids PROVE RequestOK(s)'
  <2>1. CASE s = r
    BY <1>4, <1>11, <1>13, <1>14, <2>1 DEF RequestOK
  <2>2. CASE s # r
    BY <1>0, <1>13, <2>2 DEF RequestsInv, RequestOK, AllTokens
  <2> QED
    BY <2>1, <2>2
<1>16. Running' = Running
  BY <1>3, <1>13 DEF Running
\* A block of the new table is an old one in its place, or was free.
<1>17. ASSUME NEW i \in DOMAIN t
       PROVE  \/ i \in 1 .. k /\ t[i] = old[i]
              \/ i - k \in 1 .. Len(u) /\ t[i] = u[i - k] /\ t[i] \in FreeBlocks
  <2>1. i \in 1 .. (k + Len(u)) /\ Len(u) \in Nat /\ k \in Nat
    BY <1>8, <1>9, <1>o
  <2>2. CASE i <= k
    BY <1>9, <2>1, <2>2
  <2>3. CASE i > k
    <3>1. PICK l \in 1 .. Len(u) : i = k + l /\ i - k = l
      BY <2>1, <2>3
    <3> QED
      BY <1>8, <1>9, <3>1
  <2> QED
    BY <2>1, <2>2, <2>3
<1>18. ASSUME NEW s \in Running, NEW i \in DOMAIN reqs[s].table PROVE reqs[s].table[i] \notin FreeBlocks
  BY DEF FreeBlocks, Range
<1>19. old = reqs[r].table /\ DOMAIN old = 1 .. k
  BY <1>o DEF old, k
<1>a. ASSUME NEW s \in Running, NEW i \in 1 .. k, NEW j \in DOMAIN reqs[s].table,
             old[i] = reqs[s].table[j]
      PROVE  r = s /\ i = j
  <2>1. \A l \in DOMAIN reqs[r].table : reqs[r].table[l] = reqs[s].table[j] => r = s /\ l = j
    BY <1>0, <1>1 DEF RequestsInv, TablesApart
  <2> QED
    BY <1>19, <1>a, <2>1
<1>20. TablesApart'
  <2> SUFFICES ASSUME NEW a \in Running, NEW s \in Running, NEW i \in DOMAIN reqs'[a].table,
                      NEW j \in DOMAIN reqs'[s].table, reqs'[a].table[i] = reqs'[s].table[j]
               PROVE  a = s /\ i = j
    BY <1>16 DEF TablesApart
  <2>1. \A x \in Running : x # r => reqs'[x].table = reqs[x].table
    BY <1>13 DEF Running
  <2>2. CASE a # r /\ s # r
    BY <1>0, <2>1, <2>2 DEF RequestsInv, TablesApart
  <2>3. CASE a = r /\ s # r
    <3>1. i \in DOMAIN t /\ reqs'[a].table[i] = t[i] /\ reqs'[s].table = reqs[s].table
      BY <1>13, <2>1, <2>3
    <3>2. t[i] \notin FreeBlocks
      BY <1>18, <2>3, <3>1
    <3>3. i \in 1 .. k /\ t[i] = old[i]
      BY <1>17, <3>1, <3>2
    <3> QED
      BY <1>a, <2>3, <3>1, <3>3
  <2>4. CASE a # r /\ s = r
    <3>1. j \in DOMAIN t /\ reqs'[s].table[j] = t[j] /\ reqs'[a].table = reqs[a].table
      BY <1>13, <2>1, <2>4
    <3>2. t[j] \notin FreeBlocks
      BY <1>18, <2>4, <3>1
    <3>3. j \in 1 .. k /\ t[j] = old[j]
      BY <1>17, <3>1, <3>2
    <3> QED
      BY <1>a, <2>4, <3>1, <3>3
  <2>5. CASE a = r /\ s = r
    <3>1. i \in DOMAIN t /\ j \in DOMAIN t /\ t[i] = t[j]
      BY <1>13, <2>5
    <3>2. \A x \in 1 .. k : old[x] \notin FreeBlocks
      BY <1>1, <1>18, <1>19
    <3>3. CASE i \in 1 .. k /\ t[i] = old[i]
      <4>1. j \in 1 .. k /\ t[j] = old[j]
        BY <1>17, <3>1, <3>2, <3>3
      <4>2. j \in DOMAIN reqs[r].table /\ old[i] = reqs[r].table[j]
        BY <1>19, <3>1, <3>3, <4>1
      <4> QED
        BY <1>1, <1>a, <2>5, <3>3, <4>2
    <3>4. CASE i - k \in 1 .. Len(u) /\ t[i] = u[i - k] /\ t[i] \in FreeBlocks
      <4>1. j - k \in 1 .. Len(u) /\ t[j] = u[j - k]
        BY <1>17, <3>1, <3>2, <3>4
      <4>2. i - k = j - k
        BY <1>8, <3>1, <3>4, <4>1
      <4>3. i \in Int /\ j \in Int
        BY <1>9, <3>1
      <4> QED
        BY <1>o, <2>5, <4>2, <4>3
    <3> QED
      BY <1>17, <3>1, <3>3, <3>4
  <2> QED
    BY <2>2, <2>3, <2>4, <2>5
<1>21. RequestsInv'
  BY <1>13, <1>15, <1>20 DEF RequestsInv
\* The item.
<1>x. PICK x : x = Item(t)
  OBVIOUS
<1>22. /\ x.id = r /\ x.start = q.computed /\ x.table = t /\ x.seqLen = q.computed + n
       /\ x.gen = q.gen /\ x.sample = (q.computed + n = AllTokens(r))
       /\ x.tokens = [i \in 1 .. n |-> <<r, q.computed + i - 1>>]
       /\ x.slots = [i \in 1 .. n |-> Slot(t, q.computed + i - 1)]
  BY <1>x
<1>23. ASSUME NEW i \in 1 .. n
       PROVE  <<r, q.computed + i - 1>> \in Tokens /\ Slot(t, q.computed + i - 1) \in Slots
  <2>1. q.computed + i - 1 \in 0 .. (Room(t) - 1)
    BY SMTT(30), <1>4, <1>5, <1>11
  <2>2. Slot(t, q.computed + i - 1) \in Slots
    BY <2>1, SlotInCache
  <2>3. q.computed + i - 1 \in Nat
    BY <1>4
  <2> QED
    BY <2>2, <2>3 DEF Tokens
<1>24. /\ x.tokens \in Seq(Tokens) /\ Len(x.tokens) = n /\ x.slots \in Seq(Slots) /\ Len(x.slots) = n
  <2>1. PICK a, s : a = x.tokens /\ s = x.slots
    OBVIOUS
  <2>2. a \in [1 .. n -> Tokens] /\ s \in [1 .. n -> Slots]
    BY <1>22, <1>23, <2>1
  <2>3. a \in Seq(Tokens) /\ Len(a) = n
    BY SMTT(30), <1>5, <2>2
  <2>4. s \in Seq(Slots) /\ Len(s) = n
    BY <1>5, <2>2
  <2> QED
    BY <2>1, <2>3, <2>4
<1>25. x \in ItemFields
  <2>1. PICK a \in Seq(Tokens), s \in Seq(Slots), d \in BOOLEAN :
           a = x.tokens /\ s = x.slots /\ d = x.sample
    BY <1>22, <1>24
  <2>2. x = [id |-> r, tokens |-> a, start |-> q.computed, slots |-> s, table |-> t,
             seqLen |-> q.computed + n, gen |-> q.gen, sample |-> d]
    BY <1>x, <1>22, <2>1
  <2> QED
    BY <1>4, <1>5, <2>2 DEF ItemFields
<1>26. WellFormed(x)
  <2>1. x.seqLen - x.start = n
    BY <1>4, <1>5, <1>22
  <2>2. x.start < x.seqLen /\ x.seqLen < MaxModelLen /\ x.seqLen <= Room(x.table)
    <3>1. q.computed < q.computed + n
      BY <1>4, <1>5
    <3>2. q.computed + n < MaxModelLen
      BY <1>4, <1>5, RunnerConfig
    <3> QED
      BY <1>11, <1>22, <3>1, <3>2
  <2>3. \A j \in 1 .. n : x.tokens[j] = <<x.id, x.start + j - 1>> /\ x.slots[j] = Slot(x.table, x.start + j - 1)
    BY <1>22
  <2> QED
    BY <1>24, <2>1, <2>2, <2>3 DEF WellFormed
<1>27. x \in Items
  BY <1>25, <1>26 DEF Items
<1>28. /\ items \in Seq(Items) /\ Len(items) \in Nat /\ DOMAIN items = 1 .. Len(items)
  BY <1>0, BatchInHand
<1>29. /\ items' \in Seq(Items) /\ Len(items') = Len(items) + 1
       /\ DOMAIN items' = 1 .. (Len(items) + 1)
       /\ \A i \in 1 .. Len(items) : items'[i] = items[i]
       /\ items'[Len(items) + 1] = x
  <2>1. PICK s \in Seq(Items) : s = items
    BY <1>28
  <2>2. /\ Append(s, x) \in Seq(Items) /\ Len(Append(s, x)) = Len(s) + 1
        /\ \A i \in 1 .. Len(s) : Append(s, x)[i] = s[i]
        /\ Append(s, x)[Len(s) + 1] = x
    BY <1>27, Extended
  <2>3. items' = Append(s, x)
    BY <1>12, <1>x, <2>1
  <2>4. DOMAIN Append(s, x) = 1 .. (Len(s) + 1)
    BY <2>2
  <2> QED
    BY <2>1, <2>2, <2>3, <2>4
<1>30. Current(x)'
  BY <1>5, <1>13, <1>14, <1>22 DEF Current
<1>31. ASSUME NEW i \in 1 .. Len(items) PROVE Current(items[i])' /\ items[i].id # r
  <2>1. PICK y \in Items : y = items[i]
    BY <1>28
  <2>2. y.id # r /\ y.id \in Ids /\ Current(y)
    BY <1>0, <1>1, <1>28, <2>1, ItemFacts DEF ItemsInv
  <2>3. reqs'[y.id] = reqs[y.id]
    BY <1>13, <2>2
  <2>4. PICK z : z = reqs[y.id] /\ z = reqs'[y.id]
    BY <2>3
  <2>5. Current(items[i])'
    BY <1>29, <2>1, <2>2, <2>4 DEF Current, AllTokens
  <2> QED
    BY <2>1, <2>2, <2>5
<1>32. ItemsInv'
  <2>1. ASSUME NEW i \in DOMAIN items'
        PROVE  \/ i \in 1 .. Len(items) /\ items'[i] = items[i]
               \/ i = Len(items) + 1 /\ items'[i] = x
    <3>1. i \in 1 .. (Len(items) + 1)
      BY <1>29
    <3>2. i \in 1 .. Len(items) \/ i = Len(items) + 1
      BY <1>28, <3>1
    <3>3. \A l \in 1 .. Len(items) : items'[l] = items[l]
      BY <1>29
    <3>4. items'[Len(items) + 1] = x
      BY <1>29
    <3>5. CASE i \in 1 .. Len(items)
      <4>1. items'[i] = items[i]
        BY <3>3, <3>5, Zenon
      <4> QED
        BY <3>5, <4>1, Zenon
    <3>6. CASE i = Len(items) + 1
      <4>1. items'[i] = x
        BY <3>4, <3>6, Zenon
      <4> QED
        BY <3>6, <4>1, Zenon
    <3> QED
      BY <3>2, <3>5, <3>6
  <2>2. ASSUME NEW i \in DOMAIN items' PROVE Current(items[i])'
    <3>1. CASE i \in 1 .. Len(items) /\ items'[i] = items[i]
      BY <1>31, <3>1 DEF Current, AllTokens
    <3>2. CASE items'[i] = x
      BY <1>30, <3>2 DEF Current, AllTokens
    <3> QED
      BY <2>1, <3>1, <3>2
  <2>3. ASSUME NEW i \in DOMAIN items', NEW j \in DOMAIN items', items'[i].id = items'[j].id
        PROVE  i = j
    <3>1. \A l \in 1 .. Len(items) : items[l].id # x.id
      BY <1>22, <1>31
    <3>2. \A l, v \in 1 .. Len(items) : items[l].id = items[v].id => l = v
      BY <1>0, <1>28 DEF ItemsInv
    <3>3. \/ i \in 1 .. Len(items) /\ items'[i] = items[i]
          \/ i = Len(items) + 1 /\ items'[i] = x
      BY <2>1
    <3>4. \/ j \in 1 .. Len(items) /\ items'[j] = items[j]
          \/ j = Len(items) + 1 /\ items'[j] = x
      BY <2>1
    <3> QED
      BY <2>3, <3>1, <3>2, <3>3, <3>4
  <2>4. Len(items') <= MaxNumSeqs
    BY <1>1, <1>28, <1>29, RunnerConfig
  <2> QED
    BY <1>29, <2>2, <2>3, <2>4 DEF ItemsInv
<1>33. CacheInv'
  <2> SUFFICES ASSUME NEW s \in Running, NEW p \in 0 .. (reqs'[s].computed - 1)
               PROVE  kv[Slot(reqs'[s].table, p)] = OwnKV(s, p)
    BY <1>0, <1>1, <1>16 DEF CacheInv, CacheKeepsComputedTokens
  <2>1. CASE s # r
    BY <1>0, <1>13, <2>1 DEF Running, CacheInv, CacheKeepsComputedTokens
  <2>2. CASE s = r
    <3>1. p \in 0 .. (q.computed - 1) /\ reqs'[s].table = t
      BY <1>13, <2>2
    <3>2. kv[Slot(old, p)] = OwnKV(s, p)
      BY <1>0, <1>19, <2>2, <3>1 DEF CacheInv, CacheKeepsComputedTokens
    <3>3. Slot(t, p) = Slot(old, p)
      <4>1. p \in 0 .. (k * BlockSize - 1)
        <5>1. Room(old) = k * BlockSize /\ k * BlockSize \in Nat
          BY <1>o, Geometry DEF Room, k
        <5>2. q.computed <= Room(old)
          BY <1>4 DEF old
        <5> QED
          BY <1>4, <3>1, <5>1, <5>2
      <4>2. (p \div BlockSize) + 1 \in 1 .. k
        BY <1>o, <4>1, PositionInTable
      <4> QED
        BY <1>9, <4>2 DEF Slot
    <3> QED
      BY <3>1, <3>2, <3>3
  <2> QED
    BY <2>1, <2>2
<1>34. LastInv'
  <2>1. \A s \in DOMAIN last.logits : /\ s \in Ids /\ reqs'[s].state = reqs[s].state
                                      /\ reqs'[s].computed = reqs[s].computed
    BY <1>0, <1>3, <1>13 DEF LastInv
  <2> QED
    BY <1>0, <1>1, <2>1 DEF LastInv, ReplaySampledFromOwnContext, SampledFromOwnContext
<1>35. GraphsInv'
  BY <1>0, <1>1 DEF GraphsInv
<1> QED
  BY <1>21, <1>32, <1>33, <1>34, <1>35 DEF RunnerInv

\* RunnerInv is an invariant of the runner.
THEOREM RunnerInvariant == Spec => []RunnerInv
<1>1. Init => RunnerInv
  BY InitRunner
<1>2. RunnerInv /\ [Next]_vars => RunnerInv'
  <2> SUFFICES ASSUME RunnerInv, [Next]_vars PROVE RunnerInv'
    OBVIOUS
  <2>1. ASSUME NEW r \in Ids, Start(r) PROVE RunnerInv'
    BY <2>1, StartKeeps
  <2>2. ASSUME NEW r \in Ids, End(r) PROVE RunnerInv'
    BY <2>2, EndKeeps
  <2>3. ASSUME NEW r \in Ids, NEW n \in 1 .. MaxModelLen, ScheduleItem(r, n) PROVE RunnerInv'
    BY <2>3, ScheduleKeeps
  <2>4. ASSUME Eager PROVE RunnerInv'
    BY <2>4, EagerKeeps
  <2>5. ASSUME Capture PROVE RunnerInv'
    BY <2>5, CaptureKeeps
  <2>6. ASSUME Replay PROVE RunnerInv'
    BY <2>6, ReplayKeeps
  <2>7. ASSUME Raise PROVE RunnerInv'
    BY <2>7, RaiseKept
  <2>8. CASE UNCHANGED vars
    <3>1. reqs' = reqs /\ items' = items /\ kv' = kv /\ graphs' = graphs /\ last' = last
      BY <2>8 DEF vars
    <3>2. RequestsInv' /\ ItemsInv'
      BY <3>1 DEF RunnerInv, RequestsInv, RequestOK, AllTokens, TablesApart, Running,
                  ItemsInv, Current
    <3>3. GraphsInv' /\ CacheInv'
      BY <3>1 DEF RunnerInv, GraphsInv, CacheInv, CacheKeepsComputedTokens, Running
    <3>4. LastInv'
      BY <3>1 DEF RunnerInv, LastInv, ReplaySampledFromOwnContext, SampledFromOwnContext
    <3> QED
      BY <3>2, <3>3, <3>4 DEF RunnerInv
  <2> QED
    BY <2>1, <2>2, <2>3, <2>4, <2>5, <2>6, <2>7, <2>8 DEF Next
<1> QED
  BY <1>1, <1>2, PTL DEF Spec

-----------------------------------------------------------------------------
(* The properties. *)

\* The variables keep their types, and a graph has buffers of its size.
THEOREM RunnerTypes == Spec => []RunnerTypeOK
<1>1. RunnerInv => RunnerTypeOK
  <2> SUFFICES ASSUME RunnerInv PROVE RunnerTypeOK
    OBVIOUS
  <2>0. RequestsInv /\ ItemsInv /\ GraphsInv /\ CacheInv /\ LastInv
    BY DEF RunnerInv
  <2>1. ASSUME NEW r \in Ids
        PROVE  /\ reqs[r].state \in {"new", "running", "ended"} /\ reqs[r].table \in Seq(Blocks)
               /\ reqs[r].computed \in 0 .. MaxModelLen
    <3>1. reqs[r] \in Requests /\ RequestOK(r)
      BY <2>0 DEF RequestsInv
    <3>2. /\ reqs[r].state \in {"new", "running", "ended"} /\ reqs[r].table \in Seq(Blocks)
          /\ reqs[r].computed \in Nat /\ AllTokens(r) \in Nat
      BY <3>1 DEF Requests, AllTokens
    <3>3. reqs[r].computed < MaxModelLen
      BY <3>1, <3>2, RunnerConfig DEF RequestOK
    <3> QED
      BY <3>2, <3>3, RunnerConfig
  <2>2. Len(items) <= MaxNumSeqs
    BY <2>0 DEF ItemsInv
  <2>3. DOMAIN kv = 0 .. (PhysicalSlots + MaxNumSeqs - 1)
    BY <2>0 DEF CacheInv, CacheSlots
  <2>4. DOMAIN graphs \subseteq Range(Sizes)
    BY <2>0 DEF GraphsInv
  <2>5. ASSUME NEW n \in DOMAIN graphs
        PROVE  graphs[n].captured \in BOOLEAN /\ DOMAIN graphs[n].inputIds = 1 .. n
    <3>1. graphs[n] \in GraphBuffers(n)
      BY <2>0 DEF GraphsInv, GraphOK
    <3>2. graphs[n].captured \in BOOLEAN /\ graphs[n].inputIds \in [1 .. n -> Cells]
      BY <3>1, GraphFields
    <3> QED
      BY <3>2
  <2>6. last.mode \in {"none", "eager", "capture", "replay", "error"}
    BY <2>0 DEF LastInv
  <2> QED
    BY <2>1, <2>2, <2>3, <2>4, <2>5, <2>6 DEF RunnerTypeOK
<1> QED
  BY <1>1, RunnerInvariant, PTL

\* Every flat array of every batch says what the items say (from_worker_batch).
THEOREM RunnerFlattensItems == Spec => []FlatArraysMatchItems
<1>1. RunnerInv => FlatArraysMatchItems
  BY FlatArrays DEF RunnerInv
<1> QED
  BY <1>1, RunnerInvariant, PTL

\* The Torch backend and the custom kernels read the same slots for every row of
\* every batch: those of the row's request, up to the row's position.
THEOREM RunnerBackendsAgree == Spec => []BackendsReadTheSameContext
<1>1. RunnerInv => BackendsReadTheSameContext
  BY SameContext DEF RunnerInv
<1> QED
  BY <1>1, RunnerInvariant, PTL

\* No check of _create_graph_state, _copy_decode_batch or from_batch ever raises.
THEOREM RunnerRefusesNothing == Spec => []RunnerNeverRefuses
<1>1. RunnerInv => RunnerNeverRefuses
  BY NeverRefused DEF RunnerInv
<1> QED
  BY <1>1, RunnerInvariant, PTL

\* No pass, eager, captured, replayed or failed, disturbs the K/V that a running
\* request has computed.
THEOREM RunnerKeepsCache == Spec => []CacheKeepsComputedTokens
<1>1. RunnerInv => CacheKeepsComputedTokens
  BY DEF RunnerInv, CacheInv
<1> QED
  BY <1>1, RunnerInvariant, PTL

\* What an eager batch or a replay samples was computed from the request's own
\* context, all of it.
THEOREM RunnerSamplesOwnContext == Spec => []ReplaySampledFromOwnContext
<1>1. RunnerInv => ReplaySampledFromOwnContext
  BY DEF RunnerInv, LastInv
<1> QED
  BY <1>1, RunnerInvariant, PTL

\* Padding rows of a graph that is run are masked and have scratch slots of their
\* own, whatever its buffers held before.
THEOREM RunnerPadsInScratch == Spec => []PaddingStaysInScratch
<1>1. RunnerInv => PaddingStaysInScratch
  <2> DEFINE b == Flatten(items)
             n == CaptureSize(b)
             g == Copied(GraphState(n), b)
             slots == g.m.slots
  <2> SUFFICES ASSUME RunnerInv, GraphBatch(b), NEW i \in 1 .. n, ~g.m.active[i]
               PROVE  /\ slots[i] >= PhysicalSlots /\ slots[i] \in DOMAIN kv
                      /\ \A j \in 1 .. n : slots[j] = slots[i] => j = i
    BY DEF PaddingStaysInScratch
  <2>1. PaddingOK(n, g) /\ n \in Range(Sizes) /\ DOMAIN kv = CacheSlots
    BY GraphPass DEF RunnerInv, CacheInv
  <2> HIDE DEF n, g
  <2>2. n \in 1 .. MaxNumSeqs /\ MaxNumSeqs \in Nat
    BY <2>1, SizesFacts, RunnerConfig DEF Range
  <2>3. PICK c \in Nat : c = PhysicalSlots /\ c = NumBlocks * BlockSize
    BY Geometry DEF PhysicalSlots
  <2>4. slots[i] = c + i - 1
    BY <2>1, <2>3 DEF PaddingOK, ScratchSlot
  <2>5. c + i - 1 >= c /\ c + i - 1 \in 0 .. (c + MaxNumSeqs - 1)
    BY <2>2
  <2>6. ASSUME NEW j \in 1 .. n, slots[j] = c + i - 1 PROVE j = i
    <3>1. IF g.m.active[j] THEN slots[j] \in Slots ELSE slots[j] = c + j - 1
      BY <2>1, <2>3 DEF PaddingOK, ScratchSlot
    <3>2. slots[j] \notin Slots
      BY <2>2, <2>3, <2>6 DEF Slots
    <3> QED
      BY <2>2, <2>6, <3>1, <3>2
  <2> QED
    BY <2>1, <2>3, <2>4, <2>5, <2>6 DEF CacheSlots
<1> QED
  BY <1>1, RunnerInvariant, PTL
=============================================================================
