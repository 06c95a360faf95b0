--------------------------- MODULE EngineCore_proofs ---------------------------
(***************************************************************************)
(* The engine's bookkeeping, proved for any number of requests, any prompt *)
(* lengths and limits, any geometry of the cache, any faults of the Worker *)
(* and any behaviour of the clients: the types, that no cache call ever    *)
(* raises, that block tables belong to exactly the running requests, that  *)
(* no running request is stuck, that tables only grow, and that attention  *)
(* reads the request's own tokens.                                         *)
(*                                                                         *)
(* The properties are not inductive by themselves: that reserve finds a    *)
(* table needs the tables to be those of the running requests, and that a  *)
(* request has work left after a step depends on the batch under way, on   *)
(* what the Worker may report for it and on where it is reported.  CoreInv *)
(* below says all of this.                                                 *)
(***************************************************************************)
EXTENDS EngineCore, KVCache_proofs

Distinct(q) == \A i, j \in DOMAIN q : q[i] = q[j] => i = j

\* The scheduler's lists: no id is twice in them, and exactly the running
\* requests have a block table.
ListsInv ==
    /\ Distinct(waiting) /\ Distinct(running)
    /\ Range(waiting) \cap Range(running) = {}
    /\ DOMAIN tables = Range(running)

\* A request the scheduler knows has work left and room for its next token.
RequestOK(r) ==
    /\ req[r].sub \in Submissions
    /\ req[r].computed < NumAllTokens(r)
    /\ req[r].out > 0 => NumAllTokens(r) - req[r].computed = 1
    /\ NumAllTokens(r) < ContextLimit

RequestsInv ==
    /\ \A r \in Range(waiting) : RequestOK(r) /\ req[r].computed = 0
    /\ \A r \in Range(running) : RequestOK(r) /\ req[r].computed <= Room(tables[r])

Items == [id : Ids, sub : 0 .. MaxAdds, start : Nat, slots : Seq(Slots), table : Seq(Blocks),
          seqLen : Nat, gen : Nat, sample : BOOLEAN]

\* A WorkerItem that is still to be applied describes its request as it is.
ItemOK(item) ==
    /\ item.id \in Range(running)
    /\ item.sub = req[item.id].sub
    /\ item.start = req[item.id].computed
    /\ item.seqLen \in (item.start + 1) .. NumAllTokens(item.id)
    /\ item.table = tables[item.id]
    /\ item.seqLen <= Room(item.table)
    /\ item.slots = [i \in 1 .. (item.seqLen - item.start) |->
                        Slot(item.table, item.start + i - 1)]
    /\ item.sample = (item.seqLen = NumAllTokens(item.id))

\* The batch is on the Worker's queue.
Dispatched == \E k \in DOMAIN workq : ~workq[k].shutdown

Unapplied(i) ==
    \/ pc \in {"sched", "wait"}
    \/ pc = "apply" /\ i >= cursor
    \/ Dispatched

BatchInv ==
    /\ batch \in Seq(Items)
    /\ pc \in {"drain", "admit"} => batch = <<>>
    /\ \A i, j \in DOMAIN batch : batch[i].id = batch[j].id => i = j
    /\ \A i \in DOMAIN batch : Unapplied(i) => ItemOK(batch[i])
    /\ pc = "sched" => \A i \in DOMAIN batch :
                          \E k \in DOMAIN running : k < cursor /\ running[k] = batch[i].id

\* A result for the current batch: a token for each request that asked for one.
ResultOK(res) ==
    /\ res.batchId = batchId
    /\ res.error \in BOOLEAN
    /\ ~res.error => res.sampled \in [SampledIds(batch) -> TokenKinds]

\* Core and Worker take turns: while the core is not waiting, the Worker has
\* nothing to do and nothing to say, except that it could not start.
ChannelInv ==
    /\ workq \in Seq({ShutdownCommand, BatchCommand(batchId, batch)})
    /\ pc \in {"drain", "admit", "sched", "apply"} =>
          /\ workq = <<>>
          /\ \/ resq = <<>> /\ wstate # "exited"
             \/ resq = <<InitFailure>> /\ wstate = "exited"
    /\ pc = "wait" =>
          \/ /\ workq = <<BatchCommand(batchId, batch)>>
             /\ \/ resq = <<>> /\ wstate # "exited"
                \/ resq = <<InitFailure>> /\ wstate = "exited"
          \/ /\ workq = <<>> /\ wstate \notin {"init", "exited"}
             /\ Len(resq) = 1 /\ resq = <<resq[1]>> /\ ResultOK(resq[1])
    /\ pc = "apply" => ResultOK(result) /\ wstate # "init"

Commands ==
    {[type |-> "SHUTDOWN"]}
        \cup {Command("ABORT", r, 0) : r \in Ids}
        \cup {Command("ADD", r, n) : r \in Ids, n \in Submissions}

CoreInv ==
    /\ TypeOK
    /\ BlocksConserved
    /\ exc = "none"
    /\ cmdq \in Seq(Commands)
    /\ ListsInv
    /\ RequestsInv
    /\ BatchInv
    /\ ChannelInv

-----------------------------------------------------------------------------
(* Lists of ids. *)

\* Appending a new element to a list without repetitions.
LEMMA AppendFacts ==
    ASSUME NEW T, NEW q \in Seq(T), NEW e \in T
    PROVE  /\ Append(q, e) \in Seq(T)
           /\ Range(Append(q, e)) = Range(q) \cup {e}
           /\ Distinct(q) /\ e \notin Range(q) => Distinct(Append(q, e))
<1> DEFINE n == Len(q)
           a == Append(q, e)
<1>1. n \in Nat /\ DOMAIN q = 1 .. n
  OBVIOUS
<1>2. /\ a \in Seq(T) /\ DOMAIN a = 1 .. (n + 1)
      /\ \A i \in 1 .. n : a[i] = q[i]
      /\ a[n + 1] = e
  OBVIOUS
<1> HIDE DEF n, a
<1>3. \A i \in 1 .. (n + 1) : i \in 1 .. n \/ i = n + 1
  BY <1>1
<1>4. \A i \in 1 .. n : i \in 1 .. (n + 1)
  BY <1>1
<1>5. n + 1 \in 1 .. (n + 1)
  BY <1>1
<1>6. Range(a) = Range(q) \cup {e}
  BY <1>1, <1>2, <1>3, <1>4, <1>5 DEF Range
<1>7. ASSUME Distinct(q), e \notin Range(q) PROVE Distinct(a)
  <2>1. \A i \in 1 .. n : q[i] # e
    BY <1>1, <1>7 DEF Range
  <2> QED
    BY <2>1, <1>1, <1>2, <1>3, <1>7 DEF Distinct
<1> QED
  BY <1>2, <1>6, <1>7 DEF a

\* Taking the first element of a list without repetitions.
LEMMA TailFacts ==
    ASSUME NEW T, NEW q \in Seq(T), q # <<>>
    PROVE  /\ Head(q) \in T /\ Head(q) \in Range(q)
           /\ Tail(q) \in Seq(T)
           /\ Distinct(q) => /\ Distinct(Tail(q))
                             /\ Range(Tail(q)) = Range(q) \ {Head(q)}
<1> DEFINE n == Len(q)
           t == Tail(q)
<1>1. n \in Nat \ {0} /\ DOMAIN q = 1 .. n /\ Head(q) = q[1]
  OBVIOUS
<1>2. t \in Seq(T) /\ DOMAIN t = 1 .. (n - 1) /\ \A i \in 1 .. (n - 1) : t[i] = q[i + 1]
  OBVIOUS
<1> HIDE DEF n, t
<1>3. q[1] \in T /\ q[1] \in Range(q)
  BY <1>1 DEF Range
<1>4. ASSUME NEW i \in 1 .. n PROVE i = 1 \/ (i - 1 \in 1 .. (n - 1) /\ t[i - 1] = q[i])
  <2>1. i = 1 \/ (i - 1 \in 1 .. (n - 1) /\ (i - 1) + 1 = i)
    BY <1>1
  <2> QED
    BY <2>1, <1>2
<1>5. ASSUME NEW i \in 1 .. (n - 1) PROVE i + 1 \in 1 .. n /\ i + 1 # 1
  BY <1>1
<1>6. ASSUME Distinct(q) PROVE Distinct(t) /\ Range(t) = Range(q) \ {q[1]}
  <2>1. Distinct(t)
    <3> SUFFICES ASSUME NEW i \in 1 .. (n - 1), NEW j \in 1 .. (n - 1), t[i] = t[j] PROVE i = j
      BY <1>2 DEF Distinct
    <3>1. i + 1 = j + 1
      BY ZenonT(30), <1>1, <1>2, <1>5, <1>6 DEF Distinct
    <3> QED
      BY <3>1, <1>1
  <2>2. ASSUME NEW x \in Range(t) PROVE x \in Range(q) /\ x # q[1]
    <3>1. PICK i \in 1 .. (n - 1) : x = t[i]
      BY <1>2 DEF Range
    <3>2. i + 1 \in DOMAIN q /\ 1 \in DOMAIN q /\ x = q[i + 1] /\ i + 1 # 1
      BY <3>1, <1>1, <1>2, <1>5
    <3> QED
      BY <3>2, <1>6 DEF Distinct, Range
  <2>3. ASSUME NEW x \in Range(q), x # q[1] PROVE x \in Range(t)
    <3>1. PICK i \in 1 .. n : x = q[i]
      BY <1>1 DEF Range
    <3> QED
      BY <3>1, <2>3, <1>2, <1>4 DEF Range
  <2> QED
    BY <2>1, <2>2, <2>3
<1> QED
  BY <1>1, <1>2, <1>3, <1>6 DEF t

\* Removing an element of a list without repetitions (OrderedDict.pop, and
\* deque.remove).
LEMMA RemoveFacts ==
    ASSUME NEW T, NEW q \in Seq(T), Distinct(q), NEW e \in Range(q)
    PROVE  /\ RemoveFirst(q, e) \in Seq(T)
           /\ Range(RemoveFirst(q, e)) = Range(q) \ {e}
           /\ Distinct(RemoveFirst(q, e))
           /\ Len(RemoveFirst(q, e)) = Len(q) - 1
<1> DEFINE n == Len(q)
           I == {i \in 1 .. n : q[i] = e}
<1>1. n \in Nat /\ DOMAIN q = 1 .. n
  OBVIOUS
<1>2. PICK k \in 1 .. n : q[k] = e
  BY <1>1 DEF Range
<1>3. \A i \in 1 .. n : q[i] = e => i = k
  BY <1>1, <1>2 DEF Distinct
<1>4. I = {k}
  BY <1>2, <1>3
<1>5. Min(I) = k
  <2>1. k \in {k} /\ \A y \in {k} : k <= y
    BY <1>2
  <2>2. \A x \in {k} : x = k
    OBVIOUS
  <2> QED
    BY <1>4, <2>1, <2>2 DEF Min
<1> DEFINE a == SubSeq(q, 1, k - 1)
           b == SubSeq(q, k + 1, n)
           c == RemoveFirst(q, e)
<1>6. c = a \o b
  <2>1. SelectInSeq(q, LAMBDA v : v = e) = k
    BY <1>4, <1>5 DEF SelectInSeq
  <2> QED
    BY <2>1, <1>2 DEF RemoveFirst, RemoveAt
<1>7. /\ a \in Seq(T) /\ Len(a) = k - 1
      /\ \A i \in 1 .. (k - 1) : a[i] = q[i]
  <2>1. \A i \in 1 .. (k - 1) : q[i] \in T
    BY <1>1, <1>2
  <2>2. k - 1 \in Int /\ 1 \in Int
    BY <1>2
  <2>3. /\ a \in Seq(T)
        /\ Len(a) = IF 1 <= k - 1 THEN k - 1 - 1 + 1 ELSE 0
        /\ \A i \in 1 .. (k - 1 - 1 + 1) : a[i] = q[1 + i - 1]
    BY <2>1, <2>2, SubSeqProperties
  <2> HIDE DEF a, b, n
  <2> QED
    BY <2>3, <1>1, <1>2
<1>8. /\ b \in Seq(T) /\ Len(b) = n - k
      /\ \A i \in 1 .. (n - k) : b[i] = q[k + i]
  <2>1. \A i \in (k + 1) .. n : q[i] \in T
    BY <1>1, <1>2
  <2>2. k + 1 \in Int /\ n \in Int
    BY <1>1, <1>2
  <2>3. /\ b \in Seq(T)
        /\ Len(b) = IF k + 1 <= n THEN n - (k + 1) + 1 ELSE 0
        /\ \A i \in 1 .. (n - (k + 1) + 1) : b[i] = q[(k + 1) + i - 1]
    BY <2>1, <2>2, SubSeqProperties
  <2> HIDE DEF a, b, n
  <2>4. n \in Nat /\ k \in Nat /\ k <= n
    BY <1>1, <1>2
  <2>5. n - (k + 1) + 1 = n - k /\ (~(k + 1 <= n) => n - k = 0)
    BY <2>4
  <2>6. Len(b) = n - k
    BY <2>3, <2>4, <2>5
  <2>7. ASSUME NEW i \in 1 .. (n - k) PROVE b[i] = q[k + i]
    <3>1. (k + 1) + i - 1 = k + i
      BY <2>4
    <3> QED
      BY <2>3, <2>5, <3>1
  <2> QED
    BY <2>3, <2>6, <2>7
<1> HIDE DEF a, b, c, n, I
<1>9. /\ c \in Seq(T) /\ Len(c) = n - 1
      /\ \A i \in 1 .. (n - 1) : c[i] = IF i < k THEN q[i] ELSE q[i + 1]
  <2>1. /\ c \in Seq(T)
        /\ Len(c) = Len(a) + Len(b)
        /\ \A i \in 1 .. Len(a) + Len(b) : c[i] = IF i <= Len(a) THEN a[i] ELSE b[i - Len(a)]
    BY <1>6, <1>7, <1>8, ConcatProperties
  <2>2. Len(a) + Len(b) = n - 1
    BY <1>1, <1>2, <1>7, <1>8
  <2>3. ASSUME NEW i \in 1 .. (n - 1), i < k PROVE c[i] = q[i]
    BY <2>1, <2>2, <2>3, <1>1, <1>2, <1>7
  <2>4. ASSUME NEW i \in 1 .. (n - 1), ~(i < k) PROVE c[i] = q[i + 1]
    <3>1. i - (k - 1) \in 1 .. (n - k) /\ k + (i - (k - 1)) = i + 1
      BY <2>4, <1>1, <1>2
    <3>2. c[i] = b[i - (k - 1)]
      BY SMTT(30), <2>1, <2>2, <2>4, <1>1, <1>2, <1>7
    <3> QED
      BY <3>1, <3>2, <1>8
  <2> QED
    BY <2>1, <2>2, <2>3, <2>4
<1>10. DOMAIN c = 1 .. (n - 1)
  BY <1>1, <1>2, <1>9
<1>11. ASSUME NEW i \in 1 .. (n - 1)
       PROVE  i \in 1 .. n /\ i + 1 \in 1 .. n
  BY <1>1
<1>12. Distinct(c)
  <2> SUFFICES ASSUME NEW i \in 1 .. (n - 1), NEW j \in 1 .. (n - 1), c[i] = c[j] PROVE i = j
    BY <1>10 DEF Distinct
  <2>1. (IF i < k THEN i ELSE i + 1) = (IF j < k THEN j ELSE j + 1)
    BY <1>1, <1>9, <1>11 DEF Distinct
  <2> QED
    BY <2>1, <1>2
<1>13. ASSUME NEW x \in Range(c) PROVE x \in Range(q) /\ x # e
  <2>1. PICK i \in 1 .. (n - 1) : x = c[i]
    BY <1>10 DEF Range
  <2>2. PICK j \in 1 .. n : x = q[j] /\ j # k
    BY <2>1, <1>2, <1>9, <1>11
  <2> QED
    BY <2>2, <1>1, <1>3 DEF Range
<1>14. ASSUME NEW x \in Range(q), x # e PROVE x \in Range(c)
  <2>1. PICK j \in 1 .. n : x = q[j]
    BY <1>1 DEF Range
  <2>2. j # k
    BY <2>1, <1>2, <1>14
  <2>3. CASE j < k
    <3>1. j \in 1 .. (n - 1) /\ c[j] = x
      BY <2>1, <2>3, <1>1, <1>2, <1>9
    <3> QED
      BY <3>1, <1>10 DEF Range
  <2>4. CASE j > k
    <3>1. j - 1 \in 1 .. (n - 1) /\ ~(j - 1 < k) /\ (j - 1) + 1 = j
      BY <2>4, <1>1, <1>2
    <3>2. c[j - 1] = x
      BY <3>1, <2>1, <1>9
    <3> QED
      BY <3>1, <3>2, <1>10 DEF Range
  <2> QED
    BY <2>2, <2>3, <2>4, <1>2
<1> QED
  BY <1>9, <1>12, <1>13, <1>14 DEF c, n

-----------------------------------------------------------------------------
(* Steps that leave part of the state alone. *)

\* A step that does not touch the cache keeps its invariant.
LEMMA CacheKept ==
    ASSUME CoreInv, UNCHANGED cacheVars
    PROVE  CacheInv' /\ CacheTypeOK' /\ BlocksConserved' /\ exc' = "none"
<1>1. CacheInv /\ exc = "none"
  BY DEF CoreInv, TypeOK, CacheInv
<1>2. UNCHANGED <<free, used, tables>> /\ exc' = "none"
  BY <1>1 DEF cacheVars
<1>3. CacheInv'
  BY <1>1, <1>2, UnchangedCacheInv DEF Outcomes
<1> QED
  BY <1>2, <1>3 DEF CacheInv

\* A step that does not touch the scheduler's lists, requests and tables keeps
\* what is known of them.
LEMMA ListsKept ==
    ASSUME ListsInv, RequestsInv, UNCHANGED <<waiting, running, req, tables>>
    PROVE  ListsInv' /\ RequestsInv'
<1>1. ListsInv'
  BY DEF ListsInv, Distinct
<1>2. \A r : RequestOK(r)' <=> RequestOK(r)
  BY DEF RequestOK, NumAllTokens, ContextLimit
<1> QED
  BY <1>1, <1>2 DEF RequestsInv

\* The same for a WorkerItem.
LEMMA ItemKept ==
    ASSUME NEW item, UNCHANGED <<running, req, tables>>, ItemOK(item)
    PROVE  ItemOK(item)'
BY DEF ItemOK, NumAllTokens

\* The batch stays what it was; at most fewer of its items are still to apply.
LEMMA BatchKept ==
    ASSUME BatchInv, UNCHANGED <<batch, running, req, tables>>,
           pc' \in {"drain", "admit"} => batch = <<>>,
           pc' = "sched" => pc = "sched" /\ cursor' = cursor,
           \A i \in DOMAIN batch : Unapplied(i)' => Unapplied(i)
    PROVE  BatchInv'
<1>1. \A i \in DOMAIN batch : Unapplied(i)' => ItemOK(batch[i])'
  <2> SUFFICES ASSUME NEW i \in DOMAIN batch, Unapplied(i)' PROVE ItemOK(batch[i])'
    OBVIOUS
  <2>1. ItemOK(batch[i])
    BY DEF BatchInv
  <2>2. running' = running /\ req' = req /\ tables' = tables /\ batch' = batch
    OBVIOUS
  <2> QED
    BY <2>1, <2>2 DEF ItemOK, NumAllTokens
<1> QED
  BY <1>1 DEF BatchInv

\* Putting an output on the queue keeps the log's type.
LEMMA PutType ==
    ASSUME log \in [Ids -> [Submissions -> Seq(Outputs)]],
           NEW r \in Ids, NEW n \in Submissions, NEW o \in Outputs, Put(r, n, o)
    PROVE  /\ log' \in [Ids -> [Submissions -> Seq(Outputs)]]
           /\ log'[r][n] = Append(log[r][n], o)
           /\ \A x \in Ids : \A m \in Submissions :
                 x # r \/ m # n => log'[x][m] = log[x][m]
<1>1. log' = [log EXCEPT ![r] = [log[r] EXCEPT ![n] = Append(log[r][n], o)]]
  BY DEF Put
<1>2. Append(log[r][n], o) \in Seq(Outputs)
  OBVIOUS
<1> QED
  BY <1>1, <1>2

-----------------------------------------------------------------------------
(* The initial state. *)

\* CoreInv holds when the processes start.
LEMMA CoreInvInit == Init => CoreInv
<1> SUFFICES ASSUME Init PROVE CoreInv
  OBVIOUS
<1> USE DEF Init, SchedulerInit, WorkerInit
<1>1. CacheInv /\ exc = "none" /\ DOMAIN tables = {}
  BY InitCacheInv DEF CacheInit
<1>2. Range(waiting) = {} /\ Range(running) = {}
  BY DEF Range
<1>3. TypeOK
  <2>1. log \in [Ids -> [Submissions -> Seq(Outputs)]]
    OBVIOUS
  <2>2. req \in [Ids -> [sub : 0 .. MaxAdds, computed : Nat, out : Nat]]
    BY ClientBounds DEF NoRequest
  <2>3. adds \in [Ids -> 0 .. MaxAdds] /\ aborts \in 0 .. MaxAborts
    BY ClientBounds
  <2>4. attempts \in Nat /\ budget \in 0 .. MaxNumBatchedTokens /\ cursor \in Nat \ {0}
    BY SchedulerConfig
  <2>5. waiting \in Seq(Ids) /\ running \in Seq(Ids) /\ DOMAIN kv = Slots /\ batchId \in Nat
    OBVIOUS
  <2>6. shutdown \in BOOLEAN /\ closed \in BOOLEAN
    OBVIOUS
  <2> QED
    BY <1>1, <2>1, <2>2, <2>3, <2>4, <2>5, <2>6 DEF CacheInv, TypeOK
<1>4. ListsInv /\ RequestsInv
  BY <1>1, <1>2 DEF ListsInv, RequestsInv, Distinct
<1>5. BatchInv
  BY DEF BatchInv
<1>6. ChannelInv
  BY DEF ChannelInv
<1> QED
  BY <1>1, <1>3, <1>4, <1>5, <1>6 DEF CoreInv, CacheInv

-----------------------------------------------------------------------------
(* The clients. *)

\* The clients only append to the command queue and count what they sent, and
\* the core may be terminated at any moment.
LEMMA ClientInv ==
    ASSUME CoreInv, ClientStep
    PROVE  CoreInv'
<1> USE DEF CoreInv
<1>1. CASE \/ SendShutdown
           \/ \E r \in Ids : SendAdd(r) \/ SendAbort(r)
  <2>1. UNCHANGED <<cacheVars, schedVars, workerVars, coreVars>>
    BY <1>1 DEF SendShutdown, SendAdd, SendAbort
  <2>2. /\ UNCHANGED <<waiting, running, req, tables, attempts, budget, cursor, batch>>
        /\ UNCHANGED <<workq, resq, wstate, kv, pc, shutdown, batchId, result, log>>
    BY <2>1 DEF cacheVars, schedVars, workerVars, coreVars
  <2>3. CacheTypeOK' /\ BlocksConserved' /\ exc' = "none"
    BY <2>1, CacheKept
  <2>4. ListsInv' /\ RequestsInv'
    BY <2>2, ListsKept
  <2>5. BatchInv'
    <3>1. \A i : Unapplied(i)' => Unapplied(i)
      BY <2>2 DEF Unapplied, Dispatched
    <3> QED
      BY <2>2, <3>1, BatchKept DEF BatchInv
  <2>6. ChannelInv'
    BY <2>2 DEF ChannelInv, ResultOK
  <2>7. adds' \in [Ids -> 0 .. MaxAdds] /\ aborts' \in 0 .. MaxAborts /\ closed' \in BOOLEAN
    <3>1. CASE SendShutdown
      BY <3>1 DEF TypeOK, SendShutdown
    <3>2. ASSUME NEW r \in Ids, SendAdd(r) PROVE adds' \in [Ids -> 0 .. MaxAdds]
      BY <3>2, ClientBounds DEF TypeOK, SendAdd
    <3>3. ASSUME NEW r \in Ids, SendAdd(r) PROVE aborts' = aborts /\ closed' = closed
      BY <3>3 DEF SendAdd
    <3>4. ASSUME NEW r \in Ids, SendAbort(r)
          PROVE  aborts' \in 0 .. MaxAborts /\ adds' = adds /\ closed' = closed
      BY <3>4, ClientBounds DEF TypeOK, SendAbort
    <3> QED
      BY <1>1, <3>1, <3>2, <3>3, <3>4 DEF TypeOK
  <2>8. cmdq' \in Seq(Commands)
    <3>1. CASE SendShutdown
      BY <3>1 DEF SendShutdown, Commands
    <3>2. ASSUME NEW r \in Ids, SendAdd(r) PROVE cmdq' \in Seq(Commands)
      <4>1. adds[r] + 1 \in Submissions
        BY <3>2, ClientBounds DEF TypeOK, SendAdd, Submissions
      <4>2. Command("ADD", r, adds[r] + 1) \in Commands
        BY <4>1 DEF Commands
      <4> QED
        BY <3>2, <4>2 DEF SendAdd
    <3>3. ASSUME NEW r \in Ids, SendAbort(r) PROVE cmdq' \in Seq(Commands)
      <4>1. Command("ABORT", r, 0) \in Commands
        BY DEF Commands
      <4> QED
        BY <3>3, <4>1 DEF SendAbort
    <3> QED
      BY <1>1, <3>1, <3>2, <3>3
  <2>9. TypeOK'
    BY <2>2, <2>3, <2>7 DEF TypeOK
  <2> QED
    BY <2>3, <2>4, <2>5, <2>6, <2>8, <2>9
<1>2. CASE TerminateCore
  <2>1. /\ UNCHANGED <<cacheVars, schedVars, workerVars, clientVars>>
        /\ UNCHANGED <<shutdown, batchId, result, log, cmdq>>
        /\ pc' = "killed"
    BY <1>2 DEF TerminateCore
  <2>2. /\ UNCHANGED <<waiting, running, req, tables, attempts, budget, cursor, batch>>
        /\ UNCHANGED <<workq, resq, wstate, kv, adds, aborts, closed>>
    BY <2>1 DEF cacheVars, schedVars, workerVars, clientVars
  <2>3. CacheTypeOK' /\ BlocksConserved' /\ exc' = "none"
    BY <2>1, CacheKept
  <2>4. ListsInv' /\ RequestsInv'
    BY <2>2, ListsKept
  <2>5. BatchInv'
    <3>1. \A i : Unapplied(i)' => Unapplied(i)
      BY <2>1, <2>2 DEF Unapplied, Dispatched
    <3> QED
      BY <2>1, <2>2, <3>1, BatchKept
  <2>6. ChannelInv'
    BY <2>1, <2>2 DEF ChannelInv
  <2>7. TypeOK'
    BY <2>1, <2>2, <2>3 DEF TypeOK
  <2> QED
    BY <2>1, <2>3, <2>4, <2>5, <2>6, <2>7
<1> QED
  BY <1>1, <1>2 DEF ClientStep

-----------------------------------------------------------------------------
(* The Worker. *)

\* The Worker takes a batch off its queue and reports a result for it, or
\* reports that it could not start.
LEMMA WorkerInv ==
    ASSUME CoreInv, WorkerStep
    PROVE  CoreInv'
<1> USE DEF CoreInv
<1>1. /\ UNCHANGED <<cacheVars, schedVars, coreVars, cmdq, clientVars>>
      /\ \/ WorkerReady \/ WorkerInitFails \/ WorkerExecute
         \/ WorkerBatchFails \/ WorkerShutdown
  BY DEF WorkerStep, CoreIdle
<1>2. /\ UNCHANGED <<waiting, running, req, tables, attempts, budget, cursor, batch>>
      /\ UNCHANGED <<pc, shutdown, batchId, result, log, cmdq, adds, aborts, closed>>
  BY <1>1 DEF cacheVars, schedVars, coreVars, clientVars
<1>3. CacheTypeOK' /\ BlocksConserved' /\ exc' = "none"
  BY <1>1, CacheKept
<1>4. ListsInv' /\ RequestsInv'
  BY <1>2, ListsKept
<1> DEFINE Cmds == {ShutdownCommand, BatchCommand(batchId, batch)}
<1>5. workq \in Seq(Cmds) /\ Cmds' = Cmds
  BY <1>2 DEF ChannelInv
<1> HIDE DEF Cmds
<1>6. workq' = workq \/ (workq # <<>> /\ workq' = Tail(workq))
  BY <1>1 DEF WorkerReady, WorkerInitFails, WorkerExecute, WorkerBatchFails, WorkerShutdown
<1>7. workq' \in Seq(Cmds)
  BY <1>5, <1>6
<1>8. BatchInv'
  <2>1. Dispatched' => Dispatched
    <3>1. \A k \in DOMAIN workq' : \E j \in DOMAIN workq : workq'[k] = workq[j]
      BY <1>5, <1>6
    <3> QED
      BY <3>1 DEF Dispatched
  <2>2. \A i : Unapplied(i)' => Unapplied(i)
    BY <1>2, <2>1 DEF Unapplied
  <2> QED
    BY <1>2, <2>2, BatchKept DEF BatchInv
<1>9. DOMAIN kv' = Slots /\ wstate' \in {"init", "ready", "exited", "terminated"}
  BY <1>1 DEF TypeOK, WorkerReady, WorkerInitFails, WorkerExecute, WorkerBatchFails,
              WorkerShutdown, Written
<1>10. TypeOK'
  BY <1>2, <1>3, <1>9 DEF TypeOK
<1>11. ChannelInv'
  <2>1. workq' \in Seq({ShutdownCommand, BatchCommand(batchId, batch)}')
    BY <1>5, <1>7 DEF Cmds
  <2>2. \A res : ResultOK(res)' <=> ResultOK(res)
    BY <1>2 DEF ResultOK
  <2>3. CASE pc \in {"drain", "admit", "sched", "apply"}
    <3>1. workq = <<>> /\ workq' = <<>>
      BY <1>6, <2>3 DEF ChannelInv
    <3>2. WorkerReady \/ WorkerInitFails
      BY <1>1, <3>1 DEF WorkerExecute, WorkerBatchFails, WorkerShutdown
    <3>3. pc = "apply" => ResultOK(result)' /\ wstate # "init"
      BY <1>2, <2>2 DEF ChannelInv
    <3>4. wstate = "init" /\ resq = <<>>
      BY <2>3, <3>2 DEF ChannelInv, WorkerReady, WorkerInitFails
    <3>5. \/ resq' = <<>> /\ wstate' = "ready"
          \/ resq' = <<InitFailure>> /\ wstate' = "exited"
      BY <3>2, <3>4 DEF WorkerReady, WorkerInitFails
    <3> QED
      BY <1>2, <2>1, <2>3, <3>1, <3>3, <3>4, <3>5 DEF ChannelInv
  <2>4. CASE pc = "wait"
    <3>1. CASE workq = <<BatchCommand(batchId, batch)>>
      <4> DEFINE cmd == Head(workq)
      <4>1. cmd = BatchCommand(batchId, batch) /\ Tail(workq) = <<>>
        BY <3>1
      <4>2. ~cmd.shutdown /\ cmd.batchId = batchId /\ cmd.items = batch
        BY <4>1 DEF BatchCommand
      <4> HIDE DEF cmd
      <4>3. CASE WorkerReady \/ WorkerInitFails
        BY <1>2, <2>1, <2>4, <3>1, <4>3 DEF ChannelInv, WorkerReady, WorkerInitFails, BatchCommand
      <4>4. ASSUME NEW e \in BOOLEAN, NEW s, resq' = Append(resq, Result(batchId, e, s)),
                   ~e => s \in [SampledIds(batch) -> TokenKinds],
                   wstate = "ready", wstate' = wstate, workq' = Tail(workq)
            PROVE  ChannelInv'
        <5>1. resq = <<>>
          BY <2>4, <3>1, <4>4 DEF ChannelInv
        <5>2. resq' = <<Result(batchId, e, s)>>
          BY <4>4, <5>1
        <5>3. ResultOK(Result(batchId, e, s))
          BY <4>4 DEF ResultOK, Result
        <5>4. resq'[1] = Result(batchId, e, s) /\ Len(resq') = 1
          BY <5>2
        <5> QED
          BY <1>2, <2>1, <2>2, <2>4, <4>1, <4>4, <5>2, <5>3, <5>4 DEF ChannelInv, cmd
      <4>5. CASE WorkerExecute
        BY <4>2, <4>4, <4>5 DEF WorkerExecute, cmd
      <4>6. CASE WorkerBatchFails
        BY <4>2, <4>4, <4>6 DEF WorkerBatchFails, cmd
      <4>7. ~WorkerShutdown
        BY <4>2 DEF WorkerShutdown, cmd
      <4> QED
        BY <1>1, <4>3, <4>5, <4>6, <4>7
    <3>2. CASE workq = <<>>
      <4>1. /\ wstate # "init" /\ Len(resq) = 1 /\ resq = <<resq[1]>> /\ ResultOK(resq[1])
        BY <2>4, <3>2 DEF ChannelInv
      <4>2. FALSE
        BY <1>1, <3>2, <4>1 DEF WorkerReady, WorkerInitFails, WorkerExecute, WorkerBatchFails,
                                WorkerShutdown
      <4> QED
        BY <4>2
    <3> QED
      BY <2>4, <3>1, <3>2 DEF ChannelInv
  <2>5. CASE pc \in {"except", "finally", "join", "done", "killed"}
    BY <1>2, <2>1, <2>5 DEF ChannelInv
  <2> QED
    BY <2>3, <2>4, <2>5 DEF TypeOK
<1> QED
  BY <1>2, <1>3, <1>4, <1>8, <1>10, <1>11

-----------------------------------------------------------------------------
(* The core: steps that leave the scheduler's lists and the cache alone. *)

\* Reading a command off the queue.
LEMMA CommandFacts ==
    ASSUME cmdq \in Seq(Commands), cmdq # <<>>
    PROVE  /\ Tail(cmdq) \in Seq(Commands)
           /\ Head(cmdq).type \in {"ABORT", "ADD"} => Head(cmdq).id \in Ids
           /\ Head(cmdq).type = "ADD" => Head(cmdq).sub \in Submissions
<1>1. Tail(cmdq) \in Seq(Commands) /\ Head(cmdq) \in Commands
  OBVIOUS
<1> QED
  BY <1>1 DEF Commands, Command

\* _drain_commands reads SHUTDOWN.
LEMMA HandleShutdownInv ==
    ASSUME CoreInv, HandleShutdown
    PROVE  CoreInv'
<1> USE DEF CoreInv
<1>1. /\ UNCHANGED <<cacheVars, schedVars, workerVars, pc, batchId, result, log, clientVars>>
      /\ shutdown' = TRUE /\ cmdq # <<>> /\ cmdq' = Tail(cmdq)
  BY DEF HandleShutdown, NextCommand
<1>2. /\ UNCHANGED <<waiting, running, req, tables, attempts, budget, cursor, batch>>
      /\ UNCHANGED <<workq, resq, wstate, kv, adds, aborts, closed>>
  BY <1>1 DEF cacheVars, schedVars, workerVars, clientVars
<1>3. CacheTypeOK' /\ BlocksConserved' /\ exc' = "none"
  BY <1>1, CacheKept
<1>4. ListsInv' /\ RequestsInv'
  BY <1>2, ListsKept
<1>5. BatchInv'
  <2>1. \A i : Unapplied(i)' => Unapplied(i)
    BY <1>1, <1>2 DEF Unapplied, Dispatched
  <2> QED
    BY <1>1, <1>2, <2>1, BatchKept DEF BatchInv
<1>6. ChannelInv'
  BY <1>1, <1>2 DEF ChannelInv, ResultOK
<1>7. TypeOK'
  <2>1. shutdown' \in BOOLEAN
    BY <1>1
  <2> QED
    BY <1>1, <1>2, <1>3, <2>1 DEF TypeOK
<1> QED
  BY <1>1, <1>3, <1>4, <1>5, <1>6, <1>7, CommandFacts

\* _drain_commands finds the queue empty.
LEMMA DrainEndInv ==
    ASSUME CoreInv, DrainEnd
    PROVE  CoreInv'
<1> USE DEF CoreInv
<1>1. /\ UNCHANGED <<cacheVars, waiting, running, req, budget, cursor, batch>>
      /\ UNCHANGED <<workerVars, shutdown, batchId, result, log, cmdq, clientVars>>
      /\ attempts' \in {attempts, Len(waiting)}
      /\ pc = "drain" /\ pc' \in {"finally", "admit"}
  BY DEF DrainEnd, StartAdmission, schedVars
<1>2. /\ UNCHANGED <<waiting, running, req, tables, budget, cursor, batch>>
      /\ UNCHANGED <<workq, resq, wstate, kv, adds, aborts, closed>>
  BY <1>1 DEF cacheVars, workerVars, clientVars
<1>3. CacheTypeOK' /\ BlocksConserved' /\ exc' = "none"
  BY <1>1, CacheKept
<1>4. ListsInv' /\ RequestsInv'
  BY <1>2, ListsKept
<1>5. BatchInv'
  <2>1. batch = <<>>
    BY <1>1 DEF BatchInv
  <2> QED
    BY <1>1, <1>2, <2>1, BatchKept
<1>6. ChannelInv'
  BY <1>1, <1>2 DEF ChannelInv
<1>7. attempts' \in Nat
  BY <1>1 DEF TypeOK
<1>8. TypeOK'
  BY <1>1, <1>2, <1>3, <1>7 DEF TypeOK
<1> QED
  BY <1>1, <1>3, <1>4, <1>5, <1>6, <1>8

\* _admit_waiting ends.
LEMMA AdmitEndInv ==
    ASSUME CoreInv, AdmitEnd
    PROVE  CoreInv'
<1> USE DEF CoreInv
<1>1. /\ UNCHANGED <<cacheVars, waiting, running, req>>
      /\ UNCHANGED <<workerVars, shutdown, batchId, result, log, cmdq, clientVars>>
      /\ attempts' = 0 /\ budget' = MaxNumBatchedTokens /\ cursor' = 1 /\ batch' = <<>>
      /\ pc = "admit" /\ pc' = "sched"
  BY DEF AdmitEnd, StartBatch
<1>2. UNCHANGED <<waiting, running, req, tables, workq, resq, wstate, kv, adds, aborts, closed>>
  BY <1>1 DEF cacheVars, workerVars, clientVars
<1>3. CacheTypeOK' /\ BlocksConserved' /\ exc' = "none"
  BY <1>1, CacheKept
<1>4. ListsInv' /\ RequestsInv'
  BY <1>2, ListsKept
<1>5. BatchInv'
  BY <1>1 DEF BatchInv
<1>6. ChannelInv'
  BY <1>1, <1>2 DEF ChannelInv
<1>7. TypeOK'
  BY <1>1, <1>2, <1>3, SchedulerConfig DEF TypeOK
<1> QED
  BY <1>1, <1>3, <1>4, <1>5, <1>6, <1>7

\* The batch goes to the Worker, or there is none.
LEMMA DispatchInv ==
    ASSUME CoreInv, Dispatch
    PROVE  CoreInv'
<1> USE DEF CoreInv
<1>1. /\ UNCHANGED <<cacheVars, waiting, running, req, attempts, batch>>
      /\ UNCHANGED <<resq, wstate, kv, shutdown, result, log, cmdq, clientVars>>
      /\ budget' = 0 /\ cursor' = 1 /\ pc = "sched"
      /\ \/ batch = <<>> /\ pc' = "drain" /\ UNCHANGED <<batchId, workq>>
         \/ /\ batchId' = batchId + 1 /\ pc' = "wait"
            /\ workq' = Append(workq, BatchCommand(batchId + 1, batch))
  BY DEF Dispatch
<1>2. UNCHANGED <<waiting, running, req, tables, adds, aborts, closed>>
  BY <1>1 DEF cacheVars, clientVars
<1>3. CacheTypeOK' /\ BlocksConserved' /\ exc' = "none"
  BY <1>1, CacheKept
<1>4. ListsInv' /\ RequestsInv'
  BY <1>2, ListsKept
<1>5. BatchInv'
  <2>1. \A i : Unapplied(i)
    BY <1>1 DEF Unapplied
  <2> QED
    BY <1>1, <1>2, <2>1, BatchKept
<1>6. workq = <<>>
  BY <1>1 DEF ChannelInv
<1>7. ChannelInv'
  <2>1. CASE pc' = "drain"
    BY <1>1, <1>6, <2>1 DEF ChannelInv
  <2>2. CASE pc' = "wait"
    <3>1. batchId' = batchId + 1 /\ batch' = batch
      BY <1>1, <2>2
    <3>2. workq' = <<BatchCommand(batchId', batch')>>
      BY <1>1, <1>6, <2>2, <3>1
    <3>3. workq' \in Seq({ShutdownCommand, BatchCommand(batchId', batch')})
      BY <3>2
    <3> QED
      BY <1>1, <2>2, <3>2, <3>3 DEF ChannelInv
  <2> QED
    BY <1>1, <2>1, <2>2
<1>8. TypeOK'
  BY <1>1, <1>2, <1>3, SchedulerConfig DEF TypeOK
<1> QED
  BY <1>1, <1>3, <1>4, <1>5, <1>7, <1>8

\* The core reads the result of the batch it waits for, or learns that its
\* Worker could not start; a result of another batch is never on the queue.
LEMMA ReceiveResultInv ==
    ASSUME CoreInv, ReceiveResult
    PROVE  CoreInv'
<1> USE DEF CoreInv
<1>1. /\ UNCHANGED <<cacheVars, schedVars, workq, wstate, kv>>
      /\ UNCHANGED <<shutdown, batchId, log, cmdq, clientVars>>
      /\ pc = "wait" /\ resq # <<>> /\ resq' = Tail(resq) /\ result' = Head(resq)
      /\ pc' = NextAfterResult(Head(resq).batchId)
  BY DEF ReceiveResult
<1>2. UNCHANGED <<waiting, running, req, tables, attempts, budget, cursor, batch,
                  adds, aborts, closed>>
  BY <1>1 DEF cacheVars, schedVars, clientVars
<1>3. CacheTypeOK' /\ BlocksConserved' /\ exc' = "none"
  BY <1>1, CacheKept
<1>4. ListsInv' /\ RequestsInv'
  BY <1>2, ListsKept
<1>5. \/ pc' = "except"
      \/ /\ pc' = "apply" /\ resq' = <<>> /\ workq = <<>> /\ wstate \notin {"init", "exited"}
         /\ ResultOK(result')
  <2>1. CASE resq = <<InitFailure>>
    <3>1. Head(resq).batchId = -1
      BY <2>1 DEF InitFailure, Result
    <3>2. batchId # -1
      BY DEF TypeOK
    <3> QED
      BY <1>1, <3>1, <3>2 DEF NextAfterResult
  <2>2. CASE /\ workq = <<>> /\ wstate \notin {"init", "exited"}
             /\ Len(resq) = 1 /\ resq = <<resq[1]>> /\ ResultOK(resq[1])
    <3>1. Head(resq) = resq[1] /\ Tail(resq) = <<>>
      <4> DEFINE res == resq[1]
      <4>1. resq = <<res>>
        BY <2>2
      <4> HIDE DEF res
      <4>2. Head(resq) = res /\ Tail(resq) = <<>>
        BY <4>1
      <4> QED
        BY <4>2 DEF res
    <3>2. Head(resq).batchId = batchId /\ batchId # -1
      BY <2>2, <3>1 DEF ResultOK, TypeOK
    <3>3. pc' = "apply"
      BY <1>1, <3>2 DEF NextAfterResult
    <3> QED
      BY <1>1, <2>2, <3>1, <3>3
  <2> QED
    BY <1>1, <2>1, <2>2 DEF ChannelInv
<1>6. BatchInv'
  <2>1. \A i : Unapplied(i)
    BY <1>1 DEF Unapplied
  <2> QED
    BY <1>1, <1>2, <1>5, <2>1, BatchKept
<1>7. ChannelInv'
  <2>1. \A res : ResultOK(res)' <=> ResultOK(res)
    BY <1>1, <1>2 DEF ResultOK
  <2>2. ResultOK(result') => ResultOK(result)'
    BY <1>1, <1>2 DEF ResultOK
  <2> QED
    BY <1>1, <1>2, <1>5, <2>2 DEF ChannelInv
<1>8. TypeOK'
  BY <1>1, <1>2, <1>3, <1>5 DEF TypeOK
<1> QED
  BY <1>1, <1>3, <1>4, <1>6, <1>7, <1>8

\* All results of the batch are applied.
LEMMA ApplyEndInv ==
    ASSUME CoreInv, ApplyEnd
    PROVE  CoreInv'
<1> USE DEF CoreInv
<1>1. /\ UNCHANGED <<cacheVars, waiting, running, req, attempts, budget>>
      /\ UNCHANGED <<workerVars, shutdown, batchId, log, cmdq, clientVars>>
      /\ pc = "apply" /\ pc' = "drain"
      /\ batch' = <<>> /\ cursor' = 1
  BY DEF ApplyEnd
<1>2. UNCHANGED <<waiting, running, req, tables, workq, resq, wstate, kv, adds, aborts, closed>>
  BY <1>1 DEF cacheVars, workerVars, clientVars
<1>3. CacheTypeOK' /\ BlocksConserved' /\ exc' = "none"
  BY <1>1, CacheKept
<1>4. ListsInv' /\ RequestsInv'
  BY <1>2, ListsKept
<1>5. BatchInv'
  BY <1>1 DEF BatchInv
<1>6. ChannelInv'
  BY <1>1, <1>2 DEF ChannelInv
<1>7. TypeOK'
  BY <1>1, <1>2, <1>3 DEF TypeOK
<1> QED
  BY <1>1, <1>3, <1>4, <1>5, <1>6, <1>7

\* The end of run(): nothing is scheduled any more.
LEMMA ExitInv ==
    ASSUME CoreInv, ExceptionExit \/ StopWorker \/ JoinWorker \/ TerminateWorker
    PROVE  CoreInv'
<1> USE DEF CoreInv
<1>1. /\ UNCHANGED <<cacheVars, schedVars, resq, kv, shutdown, batchId, result, cmdq, clientVars>>
      /\ pc' \in {"finally", "join", "done"}
      /\ workq' \in {workq, Append(workq, ShutdownCommand)}
      /\ wstate' \in {wstate, "terminated"}
  BY DEF ExceptionExit, StopWorker, JoinWorker, TerminateWorker, workerVars
<1>2. UNCHANGED <<waiting, running, req, tables, attempts, budget, cursor, batch,
                  adds, aborts, closed>>
  BY <1>1 DEF cacheVars, schedVars, clientVars
<1>3. CacheTypeOK' /\ BlocksConserved' /\ exc' = "none"
  BY <1>1, CacheKept
<1>4. ListsInv' /\ RequestsInv'
  BY <1>2, ListsKept
<1> DEFINE Cmds == {ShutdownCommand, BatchCommand(batchId, batch)}
<1>5. workq \in Seq(Cmds) /\ ShutdownCommand \in Cmds
  BY DEF ChannelInv
<1>6. BatchInv'
  <2>1. \A k \in DOMAIN workq' :
           workq'[k] = ShutdownCommand \/ \E j \in DOMAIN workq : workq'[k] = workq[j]
    <3> HIDE DEF Cmds
    <3> QED
      BY <1>1, <1>5
  <2>2. Dispatched' => Dispatched
    BY <2>1 DEF Dispatched, ShutdownCommand
  <2>3. \A i : Unapplied(i)' => Unapplied(i)
    BY <1>1, <2>2 DEF Unapplied
  <2> QED
    BY <1>1, <1>2, <2>3, BatchKept
<1>7. ChannelInv'
  <2>1. workq' \in Seq(Cmds)
    <3> HIDE DEF Cmds
    <3> QED
      BY <1>1, <1>5
  <2>2. Cmds' = Cmds
    BY <1>1, <1>2
  <2> QED
    BY <1>1, <2>1, <2>2 DEF ChannelInv
<1>8. log' \in [Ids -> [Submissions -> Seq(Outputs)]]
  <2>1. CASE ExceptionExit
    <3>1. Output(0, "ERROR") \in Outputs
      BY DEF Output, Outputs, Reasons
    <3>2. ASSUME NEW r \in Ids
          PROVE  [log[r] EXCEPT ![req[r].sub] = Append(@, Output(0, "ERROR"))]
                    \in [Submissions -> Seq(Outputs)]
      <4> DEFINE f == log[r]
                 n == req[r].sub
      <4>1. f \in [Submissions -> Seq(Outputs)]
        BY DEF TypeOK
      <4> HIDE DEF f, n
      <4>2. n \in Submissions => Append(f[n], Output(0, "ERROR")) \in Seq(Outputs)
        BY <3>1, <4>1
      <4>3. [f EXCEPT ![n] = Append(@, Output(0, "ERROR"))] \in [Submissions -> Seq(Outputs)]
        BY <4>1, <4>2
      <4> QED
        BY <4>3 DEF f, n
    <3> QED
      BY <2>1, <3>2 DEF ExceptionExit, TypeOK
  <2>2. CASE ~ExceptionExit
    BY <2>2 DEF TypeOK, StopWorker, JoinWorker, TerminateWorker
  <2> QED
    BY <2>1, <2>2
<1>9. TypeOK'
  BY <1>1, <1>2, <1>3, <1>8 DEF TypeOK
<1> QED
  BY <1>1, <1>3, <1>4, <1>6, <1>7, <1>9

-----------------------------------------------------------------------------
(* The core: commands. *)

\* What is known of a request depends on its own fields only.
LEMMA RequestKept ==
    ASSUME NEW r, req'[r] = req[r], RequestOK(r)
    PROVE  RequestOK(r)'
BY DEF RequestOK, NumAllTokens, ContextLimit

\* What is known of an item depends on its own request only.
LEMMA ItemKeptByOthers ==
    ASSUME NEW item, ItemOK(item), item.id \in Range(running)',
           req'[item.id] = req[item.id], tables'[item.id] = tables[item.id]
    PROVE  ItemOK(item)'
BY DEF ItemOK, NumAllTokens

\* finish drops a running request with its blocks, and nothing else.
LEMMA FinishFacts ==
    ASSUME CoreInv, NEW r \in Range(running), Finish(r), waiting' = waiting
    PROVE  /\ CacheTypeOK' /\ BlocksConserved' /\ exc' = "none"
           /\ ListsInv' /\ RequestsInv'
           /\ running' \in Seq(Ids)
           /\ req' \in [Ids -> [sub : 0 .. MaxAdds, computed : Nat, out : Nat]]
           /\ req'[r] = NoRequest
           /\ Range(running') = Range(running) \ {r}
           /\ \A x \in Ids \ {r} : req'[x] = req[x]
           /\ \A x \in Range(running) \ {r} : tables'[x] = tables[x]
<1> USE DEF CoreInv
<1>1. running \in Seq(Ids) /\ Range(running) \subseteq Ids /\ r \in Ids
  BY RangeOfSeq DEF TypeOK
<1>2. /\ Release(r)
      /\ running' = RemoveFirst(running, r)
      /\ req' = [req EXCEPT ![r] = NoRequest]
  BY DEF Finish, IsRunning
<1>3. CacheInv
  BY DEF TypeOK, CacheInv
<1>4. CacheInv' /\ exc' = "none"
  BY <1>1, <1>2, <1>3, ReleaseCacheInv
<1>5. /\ DOMAIN tables' = DOMAIN tables \ {r}
      /\ \A x \in DOMAIN tables' : tables'[x] = tables[x]
  BY <1>1, <1>2, <1>3, ReleaseEffect
<1>6. /\ running' \in Seq(Ids)
      /\ Range(running') = Range(running) \ {r}
      /\ Distinct(running')
  BY <1>1, <1>2, RemoveFacts DEF ListsInv
<1>7. ListsInv'
  BY <1>5, <1>6 DEF ListsInv
<1>8. /\ req' \in [Ids -> [sub : 0 .. MaxAdds, computed : Nat, out : Nat]]
      /\ req'[r] = NoRequest
      /\ \A x \in Ids \ {r} : req'[x] = req[x]
  BY <1>1, <1>2, ClientBounds DEF TypeOK, NoRequest
<1>9. Range(waiting) \subseteq Ids \ {r}
  BY RangeOfSeq DEF TypeOK, ListsInv
<1>10. \A x \in Range(waiting') : RequestOK(x)' /\ req'[x].computed = 0
  BY <1>8, <1>9, RequestKept DEF RequestsInv
<1>11. \A x \in Range(running') : RequestOK(x)' /\ req'[x].computed <= Room(tables'[x])
  BY <1>1, <1>5, <1>6, <1>8, RequestKept DEF RequestsInv, ListsInv
<1>12. RequestsInv'
  BY <1>10, <1>11 DEF RequestsInv
<1> QED
  BY <1>4, <1>5, <1>6, <1>7, <1>8, <1>12 DEF CacheInv, ListsInv

\* _drain_commands reads an ADD: the request waits, or is rejected at once.
LEMMA HandleAddInv ==
    ASSUME CoreInv, HandleAdd
    PROVE  CoreInv'
<1> USE DEF CoreInv
<1>1. /\ cmdq # <<>> /\ cmdq' = Tail(cmdq) /\ pc = "drain"
      /\ UNCHANGED <<workerVars, pc, shutdown, batchId, result, clientVars>>
      /\ Head(cmdq).type = "ADD"
  BY DEF HandleAdd, NextCommand
<1>0. /\ cmdq' \in Seq(Commands)
      /\ \E r \in Ids, n \in Submissions : r = Head(cmdq).id /\ n = Head(cmdq).sub
  BY <1>1, CommandFacts
<1>2. PICK r \in Ids, n \in Submissions : r = Head(cmdq).id /\ n = Head(cmdq).sub
  BY <1>0
<1>3. UNCHANGED <<workq, resq, wstate, kv, adds, aborts, closed>>
  BY <1>1 DEF workerVars, clientVars
<1>4. \/ AddRejected(r) /\ Put(r, n, Output(0, "ERROR")) /\ UNCHANGED <<cacheVars, schedVars>>
      \/ ~AddRejected(r) /\ AddRequest(r, n) /\ UNCHANGED log
  BY <1>2 DEF HandleAdd
<1>5. UNCHANGED <<cacheVars, running, tables, attempts, budget, cursor, batch>>
  BY <1>4 DEF AddRequest, schedVars, cacheVars
<1>6. CacheTypeOK' /\ BlocksConserved' /\ exc' = "none"
  BY <1>5, CacheKept
<1>7. log' \in [Ids -> [Submissions -> Seq(Outputs)]]
  <2>1. Output(0, "ERROR") \in Outputs
    BY DEF Output, Outputs, Reasons
  <2> QED
    BY <1>2, <1>4, <2>1, PutType DEF TypeOK
<1>8. /\ ListsInv' /\ RequestsInv' /\ waiting' \in Seq(Ids)
      /\ req' \in [Ids -> [sub : 0 .. MaxAdds, computed : Nat, out : Nat]]
  <2>1. CASE AddRejected(r)
    <3>1. UNCHANGED <<waiting, running, req, tables>>
      BY <1>4, <1>5, <2>1 DEF schedVars
    <3> QED
      BY <3>1, ListsKept DEF TypeOK
  <2>2. CASE ~AddRejected(r)
    <3>1. /\ waiting' = Append(waiting, r)
          /\ req' = [req EXCEPT ![r] = [sub |-> n, computed |-> 0, out |-> 0]]
      BY <1>4, <2>2 DEF AddRequest
    <3>2. r \notin Range(running) /\ r \notin Range(waiting) /\ ~(PromptLen[r] >= ContextLimit)
      BY <2>2 DEF AddRejected, IsRunning, IsWaiting
    <3>3. /\ waiting' \in Seq(Ids) /\ Range(waiting') = Range(waiting) \cup {r}
          /\ Distinct(waiting')
      BY <1>2, <3>1, <3>2, AppendFacts DEF TypeOK, ListsInv
    <3>4. Range(running') = Range(running) /\ tables' = tables /\ Distinct(running')
      BY <1>5 DEF ListsInv
    <3>5. ListsInv'
      BY <3>2, <3>3, <3>4 DEF ListsInv
    <3>6. /\ req' \in [Ids -> [sub : 0 .. MaxAdds, computed : Nat, out : Nat]]
          /\ req'[r].sub = n /\ req'[r].computed = 0 /\ req'[r].out = 0
          /\ \A x \in Ids \ {r} : req'[x] = req[x]
      BY <1>2, <3>1 DEF TypeOK, Submissions
    <3>7. RequestOK(r)' /\ req'[r].computed = 0
      <4>1. PromptLen[r] \in Nat \ {0}
        BY <1>2, SchedulerConfig
      <4>2. ContextLimit \in Int
        BY Geometry, SchedulerConfig DEF ContextLimit, NatMin
      <4>3. NumAllTokens(r)' = PromptLen[r]
        BY <3>6, <4>1 DEF NumAllTokens
      <4>4. ContextLimit' = ContextLimit
        BY DEF ContextLimit
      <4>5. PromptLen[r] < ContextLimit
        BY <3>2, <4>1, <4>2
      <4> QED
        BY <1>2, <3>6, <4>1, <4>3, <4>4, <4>5 DEF RequestOK
    <3>8. Range(waiting) \subseteq Ids \ {r} /\ Range(running) \subseteq Ids \ {r}
      BY <3>2, RangeOfSeq DEF TypeOK
    <3>9. RequestsInv'
      <4>1. \A x \in Range(waiting') : RequestOK(x)' /\ req'[x].computed = 0
        BY <3>3, <3>6, <3>7, <3>8, RequestKept DEF RequestsInv
      <4>2. \A x \in Range(running') : RequestOK(x)' /\ req'[x].computed <= Room(tables'[x])
        BY <3>4, <3>6, <3>8, RequestKept DEF RequestsInv
      <4> QED
        BY <4>1, <4>2 DEF RequestsInv
    <3> QED
      BY <3>3, <3>5, <3>6, <3>9
  <2> QED
    BY <2>1, <2>2
<1>9. BatchInv'
  BY <1>1, <1>5 DEF BatchInv
<1>10. ChannelInv'
  BY <1>1, <1>3, <1>5 DEF ChannelInv
<1>11. TypeOK'
  BY <1>1, <1>3, <1>5, <1>6, <1>7, <1>8 DEF TypeOK
<1> QED
  BY <1>0, <1>6, <1>8, <1>9, <1>10, <1>11

\* _drain_commands reads an ABORT: the request, wherever it is, leaves with its blocks.
LEMMA HandleAbortInv ==
    ASSUME CoreInv, HandleAbort
    PROVE  CoreInv' /\ pc' = "drain"
<1> USE DEF CoreInv
<1> DEFINE r == Head(cmdq).id
<1>1. /\ cmdq # <<>> /\ cmdq' = Tail(cmdq) /\ pc = "drain"
      /\ UNCHANGED <<attempts, budget, cursor, batch, workerVars,
                     shutdown, batchId, result, clientVars>>
      /\ Head(cmdq).type = "ABORT"
      /\ pc' = IF exc' = "none" THEN "drain" ELSE "except"
  BY DEF HandleAbort, NextCommand
<1>2. cmdq' \in Seq(Commands) /\ r \in Ids
  BY <1>1, CommandFacts
<1>3. UNCHANGED <<workq, resq, wstate, kv, adds, aborts, closed>>
  BY <1>1 DEF workerVars, clientVars
<1>4. /\ IsRunning(r) => Finish(r) /\ UNCHANGED waiting
      /\ ~IsRunning(r) /\ IsWaiting(r) => Unqueue(r)
      /\ ~IsRunning(r) /\ ~IsWaiting(r) => UNCHANGED <<cacheVars, waiting, running, req>>
      /\ \/ log' = log
         \/ Known(r) /\ Put(r, req[r].sub, Output(0, "ABORT"))
  BY DEF HandleAbort
<1> HIDE DEF r
<1>5. log' \in [Ids -> [Submissions -> Seq(Outputs)]]
  <2>1. Output(0, "ABORT") \in Outputs
    BY DEF Output, Outputs, Reasons
  <2>2. Known(r) => req[r].sub \in Submissions
    BY DEF Known, IsRunning, IsWaiting, RequestsInv, RequestOK
  <2> QED
    BY <1>2, <1>4, <2>1, <2>2, PutType DEF TypeOK
<1>6. /\ CacheTypeOK' /\ BlocksConserved' /\ exc' = "none"
      /\ ListsInv' /\ RequestsInv' /\ waiting' \in Seq(Ids) /\ running' \in Seq(Ids)
      /\ req' \in [Ids -> [sub : 0 .. MaxAdds, computed : Nat, out : Nat]]
  <2>1. CASE IsRunning(r)
    BY <1>4, <2>1, FinishFacts DEF IsRunning, TypeOK
  <2>2. CASE ~IsRunning(r) /\ IsWaiting(r)
    <3>1. /\ waiting' = RemoveFirst(waiting, r)
          /\ req' = [req EXCEPT ![r] = NoRequest]
          /\ UNCHANGED <<cacheVars, running, tables>>
      BY <1>4, <2>2 DEF Unqueue, cacheVars
    <3>2. r \notin Range(running) /\ r \in Range(waiting)
      BY <2>2 DEF IsRunning, IsWaiting
    <3>3. /\ waiting' \in Seq(Ids) /\ Distinct(waiting')
          /\ Range(waiting') = Range(waiting) \ {r}
      BY <3>1, <3>2, RemoveFacts DEF TypeOK, ListsInv
    <3>4. Range(running') = Range(running) /\ tables' = tables /\ Distinct(running')
      BY <3>1 DEF ListsInv
    <3>5. ListsInv'
      BY <3>3, <3>4 DEF ListsInv
    <3>6. /\ req' \in [Ids -> [sub : 0 .. MaxAdds, computed : Nat, out : Nat]]
          /\ \A x \in Ids \ {r} : req'[x] = req[x]
      BY <1>2, <3>1, ClientBounds DEF TypeOK, NoRequest
    <3>7. Range(waiting') \subseteq Ids \ {r} /\ Range(running) \subseteq Ids \ {r}
      BY <3>2, <3>3, RangeOfSeq DEF TypeOK
    <3>8. RequestsInv'
      BY <3>3, <3>4, <3>6, <3>7, RequestKept DEF RequestsInv
    <3> QED
      BY <3>1, <3>3, <3>5, <3>6, <3>8, CacheKept DEF TypeOK
  <2>3. CASE ~IsRunning(r) /\ ~IsWaiting(r)
    <3>1. UNCHANGED <<cacheVars, waiting, running, req, tables>>
      BY <1>4, <2>3 DEF cacheVars
    <3> QED
      BY <3>1, CacheKept, ListsKept DEF TypeOK
  <2> QED
    BY <2>1, <2>2, <2>3
<1>7. pc' = "drain"
  BY <1>1, <1>6
<1>8. BatchInv'
  BY <1>1, <1>7 DEF BatchInv
<1>9. ChannelInv'
  BY <1>1, <1>3, <1>7 DEF ChannelInv
<1>10. TypeOK'
  BY <1>1, <1>3, <1>5, <1>6, <1>7 DEF TypeOK
<1> QED
  BY <1>2, <1>6, <1>7, <1>8, <1>9, <1>10

-----------------------------------------------------------------------------
(* The core: schedule. *)

\* Admission gives the head of the queue an empty table or puts it to the tail.
LEMMA AdmitInv ==
    ASSUME CoreInv, Admit
    PROVE  CoreInv' /\ pc' = "admit"
<1> USE DEF CoreInv
<1>1. /\ pc = "admit" /\ AdmitOne
      /\ pc' = IF exc' = "none" THEN "admit" ELSE "except"
      /\ UNCHANGED <<workerVars, shutdown, batchId, result, log, cmdq, clientVars>>
  BY DEF Admit
<1>2. UNCHANGED <<workq, resq, wstate, kv, adds, aborts, closed>>
  BY <1>1 DEF workerVars, clientVars
<1>3. waiting # <<>> /\ attempts' = attempts - 1 /\ attempts > 0
  BY <1>1 DEF AdmitOne, AdmissionOpen
<1>4. PICK r \in Ids : r = Head(waiting)
  BY <1>3 DEF TypeOK
<1>5. /\ r \in Range(waiting) /\ Tail(waiting) \in Seq(Ids) /\ Distinct(Tail(waiting))
      /\ Range(Tail(waiting)) = Range(waiting) \ {r}
  BY <1>3, <1>4, TailFacts DEF TypeOK, ListsInv
<1>6. r \notin Range(running) /\ r \notin DOMAIN tables
  BY <1>5 DEF ListsInv
<1>7. UNCHANGED <<req, budget, cursor, batch>>
  BY <1>1 DEF AdmitOne
<1>8. \/ Create(r) /\ waiting' = Tail(waiting) /\ running' = Append(running, r)
      \/ waiting' = Append(Tail(waiting), r) /\ UNCHANGED <<cacheVars, running>>
  BY <1>1, <1>4, <1>6 DEF AdmitOne
<1>9. CacheInv
  BY DEF TypeOK, CacheInv
<1>10. \A x : RequestOK(x) => RequestOK(x)'
  BY <1>7, RequestKept
<1>11. /\ CacheTypeOK' /\ BlocksConserved' /\ exc' = "none"
       /\ ListsInv' /\ RequestsInv' /\ waiting' \in Seq(Ids) /\ running' \in Seq(Ids)
  <2>1. CASE Create(r) /\ waiting' = Tail(waiting) /\ running' = Append(running, r)
    <3>1. CacheInv'
      BY <2>1, <1>9, CreateCacheInv
    <3>2. /\ exc' = "none" /\ DOMAIN tables' = DOMAIN tables \cup {r}
          /\ tables'[r] = <<>> /\ \A x \in DOMAIN tables : tables'[x] = tables[x]
      BY <2>1, <1>6 DEF Create
    <3>3. /\ running' \in Seq(Ids) /\ Range(running') = Range(running) \cup {r}
          /\ Distinct(running')
      BY <2>1, <1>6, AppendFacts DEF TypeOK, ListsInv
    <3>4. ListsInv'
      BY <2>1, <1>5, <3>2, <3>3 DEF ListsInv
    <3>5. Room(tables'[r]) = 0
      BY <3>2, Geometry DEF Room
    <3>6. RequestOK(r)' /\ req'[r].computed <= Room(tables'[r])
      BY <1>5, <1>7, <1>10, <3>5 DEF RequestsInv
    <3>7. \A x \in Range(running) : RequestOK(x)' /\ req'[x].computed <= Room(tables'[x])
      BY <1>7, <1>10, <3>2 DEF RequestsInv, ListsInv
    <3>8. \A x \in Range(waiting') : RequestOK(x)' /\ req'[x].computed = 0
      BY <2>1, <1>5, <1>7, <1>10 DEF RequestsInv
    <3>9. RequestsInv'
      BY <3>3, <3>6, <3>7, <3>8 DEF RequestsInv
    <3> QED
      BY <2>1, <1>5, <3>1, <3>2, <3>3, <3>4, <3>9 DEF CacheInv
  <2>2. CASE waiting' = Append(Tail(waiting), r) /\ UNCHANGED <<cacheVars, running>>
    <3>1. /\ waiting' \in Seq(Ids) /\ Distinct(waiting') /\ Range(waiting') = Range(waiting)
      <4> DEFINE t == Tail(waiting)
      <4>1. t \in Seq(Ids) /\ Distinct(t) /\ r \notin Range(t) /\ Range(t) = Range(waiting) \ {r}
        BY <1>5
      <4>2. waiting' = Append(t, r)
        BY <2>2
      <4> HIDE DEF t
      <4>3. /\ waiting' \in Seq(Ids) /\ Distinct(waiting')
            /\ Range(waiting') = Range(t) \cup {r}
        BY <4>1, <4>2, AppendFacts
      <4> QED
        BY <1>5, <4>1, <4>3
    <3>2. tables' = tables /\ running' = running
      BY <2>2 DEF cacheVars
    <3>3. ListsInv'
      BY <3>1, <3>2 DEF ListsInv
    <3>4. RequestsInv'
      BY <1>7, <1>10, <3>1, <3>2 DEF RequestsInv
    <3> QED
      BY <2>2, <3>1, <3>2, <3>3, <3>4, CacheKept DEF TypeOK
  <2> QED
    BY <1>8, <2>1, <2>2
<1>12. pc' = "admit"
  BY <1>1, <1>11
<1>13. BatchInv'
  BY <1>1, <1>7, <1>12 DEF BatchInv
<1>14. ChannelInv'
  BY <1>1, <1>2, <1>7, <1>12 DEF ChannelInv
<1>15. TypeOK'
  <2>1. attempts' \in Nat
    BY <1>3 DEF TypeOK
  <2> QED
    BY <1>1, <1>2, <1>7, <1>11, <1>12, <2>1 DEF TypeOK
<1> QED
  BY <1>1, <1>11, <1>12, <1>13, <1>14, <1>15

\* The item schedule builds for tokens start .. target - 1 of a request whose
\* table has room for them.
LEMMA WorkerItemFacts ==
    ASSUME TypeOK, NEW r \in Ids, NEW start \in Nat, NEW target \in Nat, start < target,
           NEW tbl \in Seq(Blocks), target <= Room(tbl)
    PROVE  LET item == WorkerItem(r, start, target, tbl)
           IN  /\ item \in Items
               /\ item.id = r /\ item.sub = req[r].sub /\ item.start = start
               /\ item.table = tbl /\ item.seqLen = target
               /\ item.slots = [i \in 1 .. (target - start) |-> Slot(tbl, start + i - 1)]
               /\ item.sample = (target = NumAllTokens(r))
<1> DEFINE s == [i \in 1 .. (target - start) |-> Slot(tbl, start + i - 1)]
<1>1. target - start \in Nat
  OBVIOUS
<1>2. ASSUME NEW i \in 1 .. (target - start) PROVE Slot(tbl, start + i - 1) \in Slots
  <2>1. Room(tbl) \in Nat
    BY Geometry DEF Room
  <2>2. start + i - 1 \in 0 .. (Room(tbl) - 1)
    BY <2>1
  <2> QED
    BY <2>2, SlotInCache
<1>3. s \in Seq(Slots)
  BY <1>1, <1>2
<1>4. req[r].sub \in 0 .. MaxAdds /\ req[r].out \in Nat
  BY DEF TypeOK
<1>5. ShouldSample(r, target) \in BOOLEAN
  BY DEF ShouldSample
<1> HIDE DEF s
<1>6. WorkerItem(r, start, target, tbl)
        = [id |-> r, sub |-> req[r].sub, start |-> start, slots |-> s, table |-> tbl,
           seqLen |-> target, gen |-> req[r].out, sample |-> ShouldSample(r, target)]
  BY DEF WorkerItem, s
<1>7. WorkerItem(r, start, target, tbl) \in Items
  BY <1>3, <1>4, <1>5, <1>6 DEF Items
<1> QED
  BY <1>6, <1>7 DEF s, ShouldSample

\* One round of schedule extends one table and appends one item, or skips.
LEMMA ScheduleInv ==
    ASSUME CoreInv, Schedule
    PROVE  CoreInv' /\ pc' = "sched"
<1> USE DEF CoreInv
<1>1. /\ pc = "sched" /\ ScheduleOne
      /\ pc' = IF exc' = "none" THEN "sched" ELSE "except"
      /\ UNCHANGED <<workerVars, shutdown, batchId, result, log, cmdq, clientVars>>
  BY DEF Schedule
<1>2. UNCHANGED <<workq, resq, wstate, kv, adds, aborts, closed>>
  BY <1>1 DEF workerVars, clientVars
<1>3. /\ UNCHANGED <<waiting, running, req, attempts>>
      /\ cursor' = cursor + 1 /\ cursor <= Len(running) /\ budget > 0
  BY <1>1 DEF ScheduleOne, BatchOpen
<1>4. /\ running \in Seq(Ids) /\ cursor \in 1 .. Len(running) /\ DOMAIN running = 1 .. Len(running)
      /\ budget \in 0 .. MaxNumBatchedTokens /\ MaxNumBatchedTokens \in Nat
  BY <1>3, SchedulerConfig DEF TypeOK
<1>5. PICK r \in Ids : r = running[cursor]
  BY <1>4
<1>6. r \in Range(running) /\ r \in DOMAIN tables
  BY <1>4, <1>5 DEF Range, ListsInv
<1> DEFINE start == req[r].computed
           count == NatMin(NumAllTokens(r) - start, budget)
           target == start + count
<1>7. start \in Nat /\ NumAllTokens(r) \in Nat /\ start < NumAllTokens(r) /\ RequestOK(r)
  BY <1>6, SchedulerConfig DEF RequestsInv, RequestOK, TypeOK, NumAllTokens
<1>8. /\ count \in Nat /\ count > 0 /\ count <= budget
      /\ target \in Nat /\ start < target /\ target <= NumAllTokens(r)
  BY <1>3, <1>4, <1>7 DEF NatMin
<1>9. \/ UNCHANGED <<cacheVars, budget, batch>>
      \/ /\ CanReserve(r, target) /\ Reserve(r, target)
         /\ IF exc' = "none"
            THEN /\ batch' = Append(batch, WorkerItem(r, start, target, tables'[r]))
                 /\ budget' = budget - count
            ELSE UNCHANGED <<budget, batch>>
  <2>1. ~Skipped(r, count) => CanReserve(r, target)
    BY <1>6 DEF Skipped
  <2>2. \/ UNCHANGED <<cacheVars, budget, batch>>
        \/ /\ ~Skipped(r, count) /\ Reserve(r, target)
           /\ IF exc' = "none"
              THEN /\ batch' = Append(batch, WorkerItem(r, start, target, tables'[r]))
                   /\ budget' = Charged(count)
              ELSE UNCHANGED <<budget, batch>>
    BY <1>1, <1>5 DEF ScheduleOne
  <2> QED
    BY <2>1, <2>2 DEF Charged
<1> HIDE DEF count, target
<1>10. CASE UNCHANGED <<cacheVars, budget, batch>>
  <2>1. tables' = tables /\ exc' = "none" /\ pc' = "sched"
    BY <1>1, <1>10 DEF cacheVars
  <2>2. ListsInv' /\ RequestsInv'
    BY <1>3, <2>1, ListsKept
  <2>3. BatchInv'
    <3>1. \A i \in DOMAIN batch : ItemOK(batch[i])'
      <4> SUFFICES ASSUME NEW i \in DOMAIN batch PROVE ItemOK(batch[i])'
        OBVIOUS
      <4>1. PICK item : item = batch[i]
        OBVIOUS
      <4>2. ItemOK(item)
        BY <1>1, <4>1 DEF BatchInv, Unapplied
      <4>3. ItemOK(item)'
        BY <1>3, <2>1, <4>2, ItemKept
      <4>4. item = batch'[i]
        BY <1>10, <4>1
      <4> QED
        BY <4>3, <4>4 DEF ItemOK
    <3>2. \A i \in DOMAIN batch :
             \E k \in DOMAIN running' : k < cursor' /\ running'[k] = batch'[i].id
      <4>1. \A k \in DOMAIN running : k < cursor => k < cursor'
        BY <1>3, <1>4
      <4> QED
        BY <1>1, <1>3, <1>10, <4>1 DEF BatchInv
    <3> QED
      BY <1>10, <2>1, <3>1, <3>2 DEF BatchInv
  <2>4. ChannelInv'
    BY <1>1, <1>2, <1>10, <2>1 DEF ChannelInv
  <2>5. TypeOK'
    <3>1. CacheTypeOK' /\ BlocksConserved'
      BY <1>10, CacheKept
    <3>2. cursor' \in Nat \ {0}
      BY <1>3, <1>4
    <3> QED
      BY <1>1, <1>2, <1>3, <1>10, <2>1, <3>1, <3>2 DEF TypeOK
  <2> QED
    BY <1>1, <1>10, <2>1, <2>2, <2>3, <2>4, <2>5, CacheKept
<1>11. CASE CanReserve(r, target) /\ Reserve(r, target)
            /\ IF exc' = "none"
               THEN /\ batch' = Append(batch, WorkerItem(r, start, target, tables'[r]))
                    /\ budget' = budget - count
               ELSE UNCHANGED <<budget, batch>>
  <2>1. CacheInv
    BY DEF TypeOK, CacheInv
  <2>2. CacheInv'
    BY <1>8, <1>11, <2>1, ReserveCacheInv
  <2>3. /\ exc' = "none"
        /\ DOMAIN tables' = DOMAIN tables
        /\ \A x \in DOMAIN tables : x # r => tables'[x] = tables[x]
        /\ tables[r] \in Seq(Blocks) /\ tables'[r] \in Seq(Blocks)
        /\ Len(tables[r]) <= Len(tables'[r])
        /\ target <= Room(tables'[r])
    BY <1>6, <1>8, <1>11, <2>1, ReserveEffect
  <2>4. pc' = "sched"
    BY <1>1, <2>3
  <2> DEFINE tbl == tables'[r]
             item == WorkerItem(r, start, target, tbl)
  <2>5. batch' = Append(batch, item) /\ budget' = budget - count
    BY <1>11, <2>3
  <2>6. /\ item \in Items
        /\ item.id = r /\ item.sub = req[r].sub /\ item.start = start
        /\ item.table = tbl /\ item.seqLen = target
        /\ item.slots = [i \in 1 .. (target - start) |-> Slot(tbl, start + i - 1)]
        /\ item.sample = (target = NumAllTokens(r))
    <3> HIDE DEF start, tbl
    <3>1. start \in Nat /\ target \in Nat /\ start < target /\ tbl \in Seq(Blocks)
      BY <1>7, <1>8, <2>3 DEF start, tbl
    <3>2. target <= Room(tbl)
      BY <2>3 DEF tbl
    <3> QED
      BY <3>1, <3>2, WorkerItemFacts
  <2>7. PICK it \in Items : it = item
    BY <2>6
  <2> HIDE DEF item
  <2>8. ItemOK(it)'
    <3>1. /\ it.id = r /\ it.sub = req'[r].sub /\ it.start = req'[r].computed
          /\ it.table = tables'[r] /\ it.seqLen = target
          /\ it.slots = [i \in 1 .. (it.seqLen - it.start) |-> Slot(it.table, it.start + i - 1)]
          /\ NumAllTokens(r)' = NumAllTokens(r)
          /\ it.sample = (it.seqLen = NumAllTokens(it.id)')
      BY <1>3, <2>6, <2>7 DEF NumAllTokens
    <3>2. it.seqLen \in (it.start + 1) .. NumAllTokens(it.id)'
      BY <1>3, <1>7, <1>8, <3>1
    <3>3. it.id \in Range(running)' /\ it.seqLen <= Room(it.table)
      BY <1>3, <1>6, <2>3, <3>1
    <3> QED
      BY <3>1, <3>2, <3>3 DEF ItemOK
  <2>9. ListsInv'
    BY <1>3, <2>3 DEF ListsInv, Distinct
  <2>10. Room(tables[r]) <= Room(tables'[r]) /\ Room(tables[r]) \in Nat /\ Room(tables'[r]) \in Nat
    BY <2>3, RoomMonotonic DEF Room
  <2>11. RequestsInv'
    <3>1. \A x : RequestOK(x) => RequestOK(x)'
      BY <1>3, RequestKept
    <3>2. \A x \in Range(running) : req[x].computed <= Room(tables'[x])
      <4>1. req[r].computed <= Room(tables'[r])
        BY <1>6, <1>7, <2>10 DEF RequestsInv
      <4> QED
        BY <4>1, <2>3 DEF RequestsInv, ListsInv
    <3> QED
      BY <1>3, <3>1, <3>2 DEF RequestsInv
  <2>12. /\ batch' \in Seq(Items) /\ DOMAIN batch' = 1 .. (Len(batch) + 1)
         /\ DOMAIN batch = 1 .. Len(batch) /\ Len(batch) \in Nat
         /\ \A i \in DOMAIN batch : batch'[i] = batch[i]
         /\ batch'[Len(batch) + 1] = it
    BY <2>5, <2>7 DEF BatchInv
  <2>13. \A i \in DOMAIN batch' : i \in DOMAIN batch \/ i = Len(batch) + 1
    BY <2>12
  <2>14. ASSUME NEW i \in DOMAIN batch
         PROVE  /\ ItemOK(batch[i])'
                /\ batch[i].id # r
                /\ \E k \in DOMAIN running : k < cursor /\ running[k] = batch[i].id
    <3>1. PICK k \in DOMAIN running : k < cursor /\ running[k] = batch[i].id
      BY <1>1 DEF BatchInv
    <3>2. batch[i].id # r
      BY <1>4, <1>5, <3>1 DEF ListsInv, Distinct
    <3>3. PICK x : x = batch[i]
      OBVIOUS
    <3>4. ItemOK(x)
      BY <1>1, <3>3 DEF BatchInv, Unapplied
    <3>5. x.id \in Range(running) /\ x.id \in DOMAIN tables /\ x.id # r
      BY <3>2, <3>3, <3>4 DEF ItemOK, ListsInv
    <3>6. ItemOK(x)'
      BY <1>3, <2>3, <3>4, <3>5, ItemKeptByOthers
    <3>7. x = batch'[i]
      BY <2>12, <3>3
    <3> QED
      BY <3>1, <3>2, <3>6, <3>7 DEF ItemOK
  <2>15. BatchInv'
    <3>1. \A i \in DOMAIN batch' : ItemOK(batch[i])'
      <4>1. \A i \in DOMAIN batch' : i = Len(batch) + 1 => ItemOK(batch[i])'
        BY <2>7, <2>8, <2>12 DEF ItemOK
      <4> QED
        BY <2>13, <2>14, <4>1
    <3>2. \A i, j \in DOMAIN batch' : batch'[i].id = batch'[j].id => i = j
      BY <2>6, <2>7, <2>12, <2>13, <2>14 DEF BatchInv
    <3>3. \A i \in DOMAIN batch' :
             \E k \in DOMAIN running' : k < cursor' /\ running'[k] = batch'[i].id
      <4>1. \A k \in DOMAIN running : k < cursor => k < cursor'
        BY <1>3, <1>4
      <4>2. cursor \in DOMAIN running' /\ cursor < cursor' /\ running'[cursor] = r
        BY <1>3, <1>4, <1>5
      <4> QED
        BY <1>3, <2>6, <2>7, <2>12, <2>13, <2>14, <4>1, <4>2
    <3> QED
      BY <2>4, <2>12, <3>1, <3>2, <3>3 DEF BatchInv
  <2>16. ChannelInv'
    BY <1>1, <1>2, <2>4 DEF ChannelInv
  <2>17. TypeOK'
    <3>1. budget' \in 0 .. MaxNumBatchedTokens /\ cursor' \in Nat \ {0}
      BY <1>3, <1>4, <1>8, <2>5
    <3> QED
      BY <1>1, <1>2, <1>3, <2>2, <2>4, <3>1 DEF TypeOK, CacheInv
  <2> QED
    BY <1>1, <2>2, <2>3, <2>4, <2>9, <2>11, <2>15, <2>16, <2>17 DEF CacheInv
<1> QED
  BY <1>9, <1>10, <1>11

-----------------------------------------------------------------------------
(* The core: applying a result. *)

\* The item at the cursor describes its request as it is.
LEMMA ApplyFacts ==
    ASSUME CoreInv, pc = "apply", cursor <= Len(batch)
    PROVE  /\ cursor \in DOMAIN batch /\ batch[cursor] \in Items
           /\ ItemOK(batch[cursor])
           /\ batch[cursor].id \in Range(running) /\ batch[cursor].id \in Ids
           /\ batch[cursor].sub = req[batch[cursor].id].sub
           /\ batch[cursor].sub \in Submissions
           /\ Len(batch[cursor].slots) = batch[cursor].seqLen - batch[cursor].start
<1> USE DEF CoreInv
<1>1. batch \in Seq(Items) /\ cursor \in DOMAIN batch
  BY DEF TypeOK, BatchInv
<1>2. PICK item \in Items : item = batch[cursor]
  BY <1>1
<1>3. ItemOK(item)
  BY <1>1, <1>2 DEF BatchInv, Unapplied, TypeOK
<1>4. item.id \in Range(running) /\ item.id \in Ids
  BY <1>2, <1>3 DEF ItemOK, Items
<1>5. item.sub = req[item.id].sub /\ item.sub \in Submissions
  BY <1>3, <1>4 DEF ItemOK, RequestsInv, RequestOK
<1>6. Len(item.slots) = item.seqLen - item.start
  <2>1. item.start \in Nat /\ item.seqLen \in Nat
    BY <1>2 DEF Items
  <2>2. NumAllTokens(item.id) \in Int
    BY SMTT(30), <1>4, SchedulerConfig DEF NumAllTokens, TypeOK
  <2>3. item.seqLen - item.start \in Nat
    BY <1>3, <2>1, <2>2 DEF ItemOK
  <2> QED
    BY <1>3, <2>3 DEF ItemOK
<1> QED
  BY <1>1, <1>2, <1>3, <1>4, <1>5, <1>6

\* Applying one item leaves the others as they are.
LEMMA ApplyKeepsBatch ==
    ASSUME CoreInv, pc = "apply", cursor <= Len(batch),
           UNCHANGED <<batch, workq, resq, wstate, batchId, result>>,
           cursor' = cursor + 1, pc' = "apply",
           \A x \in Range(running) : x # batch[cursor].id =>
               x \in Range(running') /\ req'[x] = req[x] /\ tables'[x] = tables[x]
    PROVE  BatchInv' /\ ChannelInv' /\ cursor' \in Nat \ {0}
<1> USE DEF CoreInv
<1>1. cursor \in Nat \ {0} /\ cursor \in DOMAIN batch
  BY ApplyFacts DEF TypeOK
<1>2. workq' = <<>>
  BY DEF ChannelInv
<1>3. ASSUME NEW i \in DOMAIN batch, Unapplied(i)' PROVE ItemOK(batch[i])'
  <2>1. i >= cursor + 1
    BY <1>2, <1>3 DEF Unapplied, Dispatched
  <2>2. i \in Nat
    BY DEF BatchInv
  <2>3. i >= cursor /\ i # cursor
    BY <1>1, <2>1, <2>2
  <2>4. PICK x : x = batch[i]
    OBVIOUS
  <2>5. ItemOK(x)
    BY <2>3, <2>4 DEF BatchInv, Unapplied
  <2>6. x.id # batch[cursor].id
    BY <1>1, <2>3, <2>4 DEF BatchInv
  <2>7. x.id \in Range(running)
    BY <2>5 DEF ItemOK
  <2>8. ItemOK(x)'
    BY <2>5, <2>6, <2>7, ItemKeptByOthers
  <2>9. x = batch'[i]
    BY <2>4
  <2> QED
    BY <2>8, <2>9 DEF ItemOK
<1>4. BatchInv'
  BY <1>3 DEF BatchInv
<1>5. ChannelInv'
  BY DEF ChannelInv, ResultOK
<1> QED
  BY <1>1, <1>4, <1>5

\* A request of a batch that failed is answered with an error and finished.
LEMMA ApplyErrorInv ==
    ASSUME CoreInv, ApplyError
    PROVE  CoreInv' /\ pc' = "apply"
<1> USE DEF CoreInv
<1>1. /\ pc = "apply" /\ cursor <= Len(batch) /\ cursor' = cursor + 1
      /\ UNCHANGED <<waiting, attempts, budget, batch, workerVars,
                     shutdown, batchId, result, cmdq, clientVars>>
      /\ Put(batch[cursor].id, batch[cursor].sub, Output(0, "ERROR"))
      /\ Finish(batch[cursor].id)
      /\ pc' = IF exc' = "none" THEN "apply" ELSE "except"
  BY DEF ApplyError
<1>2. UNCHANGED <<workq, resq, wstate, kv, adds, aborts, closed>>
  BY <1>1 DEF workerVars, clientVars
<1>3. PICK r \in Ids : r = batch[cursor].id /\ r \in Range(running)
  BY <1>1, ApplyFacts
<1>4. /\ CacheTypeOK' /\ BlocksConserved' /\ exc' = "none"
      /\ ListsInv' /\ RequestsInv'
      /\ running' \in Seq(Ids)
      /\ req' \in [Ids -> [sub : 0 .. MaxAdds, computed : Nat, out : Nat]]
      /\ Range(running') = Range(running) \ {r}
      /\ \A x \in Ids \ {r} : req'[x] = req[x]
      /\ \A x \in Range(running) \ {r} : tables'[x] = tables[x]
  BY <1>1, <1>3, FinishFacts
<1>5. pc' = "apply"
  BY <1>1, <1>4
<1>6. Range(running) \subseteq Ids
  BY RangeOfSeq DEF TypeOK
<1>7. BatchInv' /\ ChannelInv' /\ cursor' \in Nat \ {0}
  BY <1>1, <1>2, <1>3, <1>4, <1>5, <1>6, ApplyKeepsBatch
<1>8. log' \in [Ids -> [Submissions -> Seq(Outputs)]]
  <2>1. Output(0, "ERROR") \in Outputs
    BY DEF Output, Outputs, Reasons
  <2> QED
    BY <1>1, <2>1, ApplyFacts, PutType DEF TypeOK
<1>9. TypeOK'
  BY <1>1, <1>2, <1>4, <1>5, <1>7, <1>8 DEF TypeOK
<1> QED
  BY <1>1, <1>4, <1>5, <1>7, <1>9

\* A request gets a token exactly when its chunk reaches its last known token.
LEMMA SampledFacts ==
    ASSUME CoreInv, pc = "apply", cursor <= Len(batch), ~result.error
    PROVE  /\ batch[cursor].id \in DOMAIN result.sampled
                 <=> batch[cursor].seqLen = NumAllTokens(batch[cursor].id)
           /\ batch[cursor].id \in DOMAIN result.sampled
                 => result.sampled[batch[cursor].id] \in TokenKinds
<1> USE DEF CoreInv
<1>1. cursor \in DOMAIN batch /\ ItemOK(batch[cursor])
  BY ApplyFacts
<1>2. result.sampled \in [SampledIds(batch) -> TokenKinds]
  BY DEF ChannelInv, ResultOK
<1>3. batch[cursor].id \in SampledIds(batch) <=> batch[cursor].sample
  <2>1. \A j \in DOMAIN batch : batch[j].id = batch[cursor].id => j = cursor
    BY <1>1 DEF BatchInv
  <2> QED
    BY <1>1, <2>1 DEF SampledIds
<1>4. batch[cursor].sample <=> batch[cursor].seqLen = NumAllTokens(batch[cursor].id)
  BY <1>1 DEF ItemOK
<1> QED
  BY <1>2, <1>3, <1>4

\* One result is applied: the request goes on, or is finished and its blocks released.
LEMMA ApplyItemInv ==
    ASSUME CoreInv, ApplyItem
    PROVE  CoreInv' /\ pc' = "apply"
<1> USE DEF CoreInv
<1>1. /\ pc = "apply" /\ cursor <= Len(batch) /\ cursor' = cursor + 1 /\ ~result.error
      /\ UNCHANGED <<waiting, attempts, budget, batch, workerVars,
                     shutdown, batchId, result, cmdq, clientVars>>
      /\ pc' = IF exc' = "none" THEN "apply" ELSE "except"
  BY DEF ApplyItem
<1>2. UNCHANGED <<workq, resq, wstate, kv, adds, aborts, closed>>
  BY <1>1 DEF workerVars, clientVars
<1>3. PICK item \in Items : item = batch[cursor]
  BY <1>1, ApplyFacts
<1>4. PICK r \in Ids : r = item.id
  BY <1>3 DEF Items
<1>5. /\ r \in Range(running) /\ ItemOK(item)
      /\ item.sub = req[r].sub /\ req[r].sub \in Submissions
      /\ Len(item.slots) = item.seqLen - item.start
      /\ item.start \in Nat /\ item.seqLen \in Nat
  BY <1>1, <1>3, <1>4, ApplyFacts DEF Items
<1>6. /\ req[r].computed \in Nat /\ req[r].out \in Nat /\ item.start = req[r].computed
      /\ NumAllTokens(r) = PromptLen[r] + req[r].out /\ PromptLen[r] \in Nat
      /\ item.seqLen \in (item.start + 1) .. NumAllTokens(r)
      /\ item.seqLen <= Room(tables[r])
  BY <1>4, <1>5, SchedulerConfig DEF ItemOK, TypeOK, NumAllTokens
<1>7. req[r].computed + Len(item.slots) = item.seqLen
  BY <1>5, <1>6
<1>8. RequestOK(r) /\ req[r].computed <= Room(tables[r])
  BY <1>5 DEF RequestsInv
<1> DEFINE sampled == r \in DOMAIN result.sampled
           tok == result.sampled[r]
           why == FinishReason(r, item.seqLen, tok)
           got == IF tok = "eos" THEN 0 ELSE 1
<1>9. /\ sampled <=> item.seqLen = NumAllTokens(r)
      /\ sampled => tok \in TokenKinds
  BY <1>1, <1>3, <1>4, SampledFacts
<1>10. \/ /\ ~sampled
          /\ req' = [req EXCEPT ![r].computed = item.seqLen]
          /\ UNCHANGED <<cacheVars, running, log>>
       \/ /\ sampled /\ why = "none"
          /\ Put(r, req[r].sub, Output(got, why))
          /\ req' = [req EXCEPT ![r].computed = item.seqLen, ![r].out = @ + got]
          /\ UNCHANGED <<cacheVars, running>>
       \/ /\ sampled /\ why # "none"
          /\ Put(r, req[r].sub, Output(got, why))
          /\ Finish(r)
  BY <1>3, <1>4, <1>5, <1>7 DEF ApplyItem, IsRunning
<1>11. Output(got, why) \in Outputs
  BY DEF Output, Outputs, FinishReason, Reasons
<1> HIDE DEF sampled, tok, why, got
<1>12. log' \in [Ids -> [Submissions -> Seq(Outputs)]]
  BY <1>5, <1>10, <1>11, PutType DEF TypeOK
<1>13. Range(running) \subseteq Ids /\ Range(waiting) \subseteq Ids \ {r}
  BY SMTT(30), <1>5, RangeOfSeq DEF TypeOK, ListsInv
<1>14. ASSUME UNCHANGED <<cacheVars, running>>,
              req' \in [Ids -> [sub : 0 .. MaxAdds, computed : Nat, out : Nat]],
              \A x \in Ids \ {r} : req'[x] = req[x],
              RequestOK(r)', req'[r].computed = item.seqLen
       PROVE  /\ CacheTypeOK' /\ BlocksConserved' /\ exc' = "none"
              /\ ListsInv' /\ RequestsInv' /\ running' \in Seq(Ids)
              /\ \A x \in Range(running) : x # r =>
                    x \in Range(running') /\ req'[x] = req[x] /\ tables'[x] = tables[x]
  <2>1. CacheTypeOK' /\ BlocksConserved' /\ exc' = "none"
    BY <1>14, CacheKept
  <2>2. tables' = tables /\ running' = running /\ waiting' = waiting
    BY <1>1, <1>14 DEF cacheVars
  <2>3. ListsInv'
    BY <2>2 DEF ListsInv, Distinct
  <2>4. \A x \in Range(waiting) : RequestOK(x)' /\ req'[x].computed = 0
    BY <1>13, <1>14, RequestKept DEF RequestsInv
  <2>5. \A x \in Range(running) : RequestOK(x)' /\ req'[x].computed <= Room(tables[x])
    BY <1>6, <1>13, <1>14, RequestKept DEF RequestsInv
  <2>6. RequestsInv'
    BY <2>2, <2>4, <2>5 DEF RequestsInv
  <2> QED
    BY <1>13, <1>14, <2>1, <2>2, <2>3, <2>6 DEF TypeOK
<1>15. /\ CacheTypeOK' /\ BlocksConserved' /\ exc' = "none"
       /\ ListsInv' /\ RequestsInv' /\ running' \in Seq(Ids)
       /\ req' \in [Ids -> [sub : 0 .. MaxAdds, computed : Nat, out : Nat]]
       /\ \A x \in Range(running) : x # r =>
             x \in Range(running') /\ req'[x] = req[x] /\ tables'[x] = tables[x]
  <2>1. CASE ~sampled /\ UNCHANGED <<cacheVars, running>>
             /\ req' = [req EXCEPT ![r].computed = item.seqLen]
    <3>1. /\ req' \in [Ids -> [sub : 0 .. MaxAdds, computed : Nat, out : Nat]]
          /\ req'[r].computed = item.seqLen /\ req'[r].out = req[r].out
          /\ req'[r].sub = req[r].sub
          /\ \A x \in Ids \ {r} : req'[x] = req[x]
      BY <1>5, <2>1 DEF TypeOK
    <3>2. item.seqLen < NumAllTokens(r)
      BY <1>6, <1>9, <2>1
    <3>3. NumAllTokens(r)' = NumAllTokens(r) /\ ContextLimit' = ContextLimit
      BY <3>1 DEF NumAllTokens, ContextLimit
    <3>4. ~(req[r].out > 0)
      BY <1>6, <1>8, <3>2 DEF RequestOK
    <3>5. RequestOK(r)'
      BY <1>8, <3>1, <3>2, <3>3, <3>4 DEF RequestOK
    <3> QED
      BY <1>14, <2>1, <3>1, <3>5
  <2>2. CASE sampled /\ why = "none" /\ UNCHANGED <<cacheVars, running>>
             /\ req' = [req EXCEPT ![r].computed = item.seqLen, ![r].out = @ + got]
    <3>1. tok = "plain" /\ got = 1 /\ ~(item.seqLen + 1 >= ContextLimit)
      BY <1>9, <2>2 DEF why, got, FinishReason, TokenKinds, AtContextLimit
    <3>2. /\ req' \in [Ids -> [sub : 0 .. MaxAdds, computed : Nat, out : Nat]]
          /\ req'[r].computed = item.seqLen /\ req'[r].out = req[r].out + 1
          /\ req'[r].sub = req[r].sub
          /\ \A x \in Ids \ {r} : req'[x] = req[x]
      <4> DEFINE upd == [req EXCEPT ![r].computed = item.seqLen]
      <4>1. /\ upd \in [Ids -> [sub : 0 .. MaxAdds, computed : Nat, out : Nat]]
            /\ upd[r].computed = item.seqLen /\ upd[r].out = req[r].out
            /\ upd[r].sub = req[r].sub
            /\ \A x \in Ids \ {r} : upd[x] = req[x]
        BY <1>5, <1>6 DEF TypeOK
      <4>2. req' = [upd EXCEPT ![r].out = @ + 1]
        BY <1>5, <2>2, <3>1, <4>1 DEF TypeOK
      <4> HIDE DEF upd
      <4> QED
        BY <1>5, <4>1, <4>2
    <3>3. item.seqLen = NumAllTokens(r)
      BY <1>9, <2>2
    <3>4. NumAllTokens(r)' = item.seqLen + 1 /\ ContextLimit' = ContextLimit
      BY SMTT(30), <1>6, <3>2, <3>3 DEF NumAllTokens, ContextLimit
    <3>5. ContextLimit \in Int
      BY Geometry, SchedulerConfig DEF ContextLimit, NatMin
    <3>6. RequestOK(r)'
      BY <1>5, <3>1, <3>2, <3>4, <3>5 DEF RequestOK
    <3> QED
      BY <1>14, <2>2, <3>2, <3>6
  <2>3. CASE Finish(r)
    BY <1>1, <1>5, <1>13, <2>3, FinishFacts
  <2> QED
    BY <1>10, <2>1, <2>2, <2>3
<1>16. pc' = "apply"
  BY <1>1, <1>15
<1>17. BatchInv' /\ ChannelInv' /\ cursor' \in Nat \ {0}
  BY <1>1, <1>2, <1>3, <1>4, <1>15, <1>16, ApplyKeepsBatch
<1>18. TypeOK'
  BY <1>1, <1>2, <1>12, <1>15, <1>16, <1>17 DEF TypeOK
<1> QED
  BY <1>1, <1>15, <1>16, <1>17, <1>18

-----------------------------------------------------------------------------
(* CoreInv is an invariant. *)

\* Every step of every process keeps CoreInv.
LEMMA CoreInvNext == CoreInv /\ [Next]_vars => CoreInv'
<1> SUFFICES ASSUME CoreInv, [Next]_vars PROVE CoreInv'
  OBVIOUS
<1>1. CASE UNCHANGED vars
  <2>1. /\ UNCHANGED <<free, used, tables, exc>>
        /\ UNCHANGED <<waiting, running, req, attempts, budget, cursor, batch>>
        /\ UNCHANGED <<workq, resq, wstate, kv, pc, shutdown, batchId, result, log>>
        /\ UNCHANGED <<cmdq, adds, aborts, closed>>
    BY <1>1 DEF vars, cacheVars, schedVars, workerVars, coreVars, clientVars
  <2>2. CacheTypeOK' /\ BlocksConserved' /\ exc' = "none"
    BY <2>1, CacheKept DEF cacheVars
  <2>3. ListsInv' /\ RequestsInv'
    BY <2>1, ListsKept DEF CoreInv
  <2>4. BatchInv'
    <3>1. \A i : Unapplied(i)' => Unapplied(i)
      BY <2>1 DEF Unapplied, Dispatched
    <3> QED
      BY <2>1, <3>1, BatchKept DEF CoreInv, BatchInv
  <2>5. ChannelInv'
    BY <2>1 DEF ChannelInv, ResultOK, CoreInv
  <2>6. TypeOK'
    BY <2>1, <2>2 DEF TypeOK, CoreInv
  <2> QED
    BY <2>1, <2>2, <2>3, <2>4, <2>5, <2>6 DEF CoreInv
<1>2. CASE ClientStep
  BY <1>2, ClientInv
<1>3. CASE WorkerStep
  BY <1>3, WorkerInv
<1>4. CASE CoreStep
  BY <1>4, HandleShutdownInv, HandleAddInv, HandleAbortInv, DrainEndInv, AdmitInv,
     AdmitEndInv, ScheduleInv, DispatchInv, ReceiveResultInv, ApplyErrorInv,
     ApplyItemInv, ApplyEndInv, ExitInv DEF CoreStep
<1> QED
  BY <1>1, <1>2, <1>3, <1>4 DEF Next

\* CoreInv holds in every reachable state.
LEMMA CoreInvariant == Spec => []CoreInv
<1> QED
  BY CoreInvInit, CoreInvNext, PTL DEF Spec

-----------------------------------------------------------------------------
(* What a step does to the requests. *)

\* A result without error: the request's chunk is computed and it goes on, with
\* one more token or none, or it is finished with a final output.
LEMMA ApplyItemEffect ==
    ASSUME CoreInv, ApplyItem
    PROVE  \E r \in Range(running), item \in Items :
              /\ item = batch[cursor] /\ r = item.id /\ ItemOK(item)
              /\ req[r].sub \in Submissions
              /\ \/ /\ UNCHANGED <<cacheVars, running>>
                    /\ req'[r].sub = req[r].sub
                    /\ req'[r].computed = item.seqLen
                    /\ \A x \in Ids \ {r} : req'[x] = req[x]
                    /\ log' = log \/ Put(r, req[r].sub, Output(1, "none"))
                 \/ /\ Finish(r)
                    /\ \E o \in Outputs : Final(o) /\ Put(r, req[r].sub, o)
<1> USE DEF CoreInv
<1>1. pc = "apply" /\ cursor <= Len(batch) /\ ~result.error
  BY DEF ApplyItem
<1>2. PICK item \in Items : item = batch[cursor]
  BY <1>1, ApplyFacts
<1>3. PICK r \in Ids : r = item.id
  BY <1>2 DEF Items
<1>4. /\ r \in Range(running) /\ ItemOK(item)
      /\ item.sub = req[r].sub /\ req[r].sub \in Submissions
      /\ Len(item.slots) = item.seqLen - item.start
      /\ item.start \in Nat /\ item.seqLen \in Nat
  BY <1>1, <1>2, <1>3, ApplyFacts DEF Items
<1>5. req[r].computed + Len(item.slots) = item.seqLen
  <2>1. req[r].computed \in Nat /\ item.start = req[r].computed
    BY <1>3, <1>4 DEF ItemOK, TypeOK
  <2> QED
    BY <1>4, <2>1
<1> DEFINE sampled == r \in DOMAIN result.sampled
           tok == result.sampled[r]
           why == FinishReason(r, item.seqLen, tok)
           got == IF tok = "eos" THEN 0 ELSE 1
<1>6. \/ /\ ~sampled
         /\ req' = [req EXCEPT ![r].computed = item.seqLen]
         /\ UNCHANGED <<cacheVars, running, log>>
      \/ /\ sampled /\ why = "none"
         /\ Put(r, req[r].sub, Output(got, why))
         /\ req' = [req EXCEPT ![r].computed = item.seqLen, ![r].out = @ + got]
         /\ UNCHANGED <<cacheVars, running>>
      \/ /\ sampled /\ why # "none"
         /\ Put(r, req[r].sub, Output(got, why))
         /\ Finish(r)
  BY <1>2, <1>3, <1>4, <1>5 DEF ApplyItem, IsRunning
<1>7. Output(got, why) \in Outputs /\ (why # "none" => Final(Output(got, why)))
  BY DEF Output, Outputs, FinishReason, Reasons, Final
<1>8. why = "none" => got = 1
  BY DEF FinishReason
<1>9. req \in [Ids -> [sub : 0 .. MaxAdds, computed : Nat, out : Nat]]
  BY DEF TypeOK
<1> HIDE DEF sampled, tok, why, got
<1>10. CASE /\ ~sampled
            /\ req' = [req EXCEPT ![r].computed = item.seqLen]
            /\ UNCHANGED <<cacheVars, running, log>>
  <2>1. /\ req'[r].sub = req[r].sub
        /\ req'[r].computed = item.seqLen
        /\ \A x \in Ids \ {r} : req'[x] = req[x]
    BY <1>4, <1>9, <1>10
  <2> QED
    BY <1>2, <1>3, <1>4, <1>10, <2>1
<1>11. CASE /\ sampled /\ why = "none"
            /\ Put(r, req[r].sub, Output(got, why))
            /\ req' = [req EXCEPT ![r].computed = item.seqLen, ![r].out = @ + got]
            /\ UNCHANGED <<cacheVars, running>>
  <2> DEFINE upd == [req EXCEPT ![r].computed = item.seqLen]
  <2>1. /\ upd \in [Ids -> [sub : 0 .. MaxAdds, computed : Nat, out : Nat]]
        /\ upd[r].computed = item.seqLen /\ upd[r].out = req[r].out
        /\ upd[r].sub = req[r].sub
        /\ \A x \in Ids \ {r} : upd[x] = req[x]
    BY <1>4, <1>9
  <2>2. req' = [upd EXCEPT ![r].out = @ + got]
    BY <1>4, <1>9, <1>11, <2>1
  <2> HIDE DEF upd
  <2>3. /\ req'[r].sub = req[r].sub
        /\ req'[r].computed = item.seqLen
        /\ \A x \in Ids \ {r} : req'[x] = req[x]
    BY <1>4, <2>1, <2>2
  <2>4. Put(r, req[r].sub, Output(1, "none"))
    BY <1>8, <1>11
  <2> QED
    BY <1>2, <1>3, <1>4, <1>11, <2>3, <2>4
<1>12. CASE sampled /\ why # "none" /\ Put(r, req[r].sub, Output(got, why)) /\ Finish(r)
  BY <1>2, <1>3, <1>4, <1>7, <1>12
<1> QED
  BY <1>6, <1>10, <1>11, <1>12

\* A round of schedule's loop reserves for one running request, or for none.
LEMMA ScheduleEffect ==
    ASSUME CoreInv, Schedule
    PROVE  \E r \in Range(running), t \in Nat :
              UNCHANGED cacheVars \/ (CanReserve(r, t) /\ Reserve(r, t))
<1> USE DEF CoreInv
<1>1. /\ running \in Seq(Ids) /\ cursor \in 1 .. Len(running)
      /\ budget \in Nat /\ budget > 0
  BY SchedulerConfig DEF Schedule, ScheduleOne, BatchOpen, TypeOK
<1>2. PICK r \in Ids : r = running[cursor]
  BY <1>1
<1>3. r \in Range(running) /\ r \in DOMAIN tables
  BY <1>1, <1>2 DEF Range, ListsInv
<1> DEFINE count == NatMin(NumAllTokens(r) - req[r].computed, budget)
           target == req[r].computed + count
<1>4. req[r].computed \in Nat /\ NumAllTokens(r) \in Nat /\ req[r].computed < NumAllTokens(r)
  BY <1>3, SchedulerConfig DEF RequestsInv, RequestOK, TypeOK, NumAllTokens
<1>5. target \in Nat
  BY <1>1, <1>4 DEF NatMin
<1>6. \/ UNCHANGED cacheVars
      \/ ~Skipped(r, count) /\ Reserve(r, target)
  BY <1>2 DEF Schedule, ScheduleOne
<1>7. ~Skipped(r, count) => CanReserve(r, target)
  BY <1>3 DEF Skipped
<1> QED
  BY <1>3, <1>5, <1>6, <1>7

\* What stays of a running request x over a step: it goes on with the same
\* table or a longer one and no less computed, or it is dropped.
Kept(x) ==
    /\ x \in Range(running')
    /\ req'[x].sub = req[x].sub
    /\ req[x].computed <= req'[x].computed
    /\ Len(tables[x]) <= Len(tables'[x])
    /\ \A i \in 1 .. Len(tables[x]) : tables'[x][i] = tables[x][i]

\* A request whose entries do not change is kept.
LEMMA KeptUnchanged ==
    ASSUME CoreInv, NEW x \in Range(running), x \in Range(running'),
           req'[x] = req[x], tables'[x] = tables[x]
    PROVE  Kept(x)
<1>1. x \in Ids /\ req[x].computed \in Nat
  BY RangeOfSeq DEF CoreInv, TypeOK
<1>2. Len(tables[x]) \in Nat
  BY DEF CoreInv, TypeOK, CacheTypeOK, ListsInv
<1> QED
  BY <1>1, <1>2 DEF Kept

\* Every step keeps each running request or drops it.
LEMMA RunningKept ==
    ASSUME CoreInv, [Next]_vars, NEW x \in Range(running)
    PROVE  Kept(x) \/ req'[x] = NoRequest
<1>1. x \in Ids /\ Range(running) \subseteq Ids /\ running \in Seq(Ids)
  BY RangeOfSeq DEF CoreInv, TypeOK
<1>2. CASE UNCHANGED <<running, req, tables>>
  BY <1>2, KeptUnchanged
<1>3. \/ UNCHANGED <<running, req, tables>>
      \/ HandleAdd \/ HandleAbort \/ Admit \/ Schedule \/ ApplyError \/ ApplyItem
  <2>1. CASE ClientStep
    BY <2>1 DEF ClientStep, SendShutdown, TerminateCore, SendAdd, SendAbort, schedVars, cacheVars
  <2>2. CASE WorkerStep
    BY <2>2 DEF WorkerStep, CoreIdle, schedVars, cacheVars
  <2>3. CASE UNCHANGED vars
    BY <2>3 DEF vars, schedVars, cacheVars
  <2>4. CASE HandleShutdown \/ DrainEnd \/ AdmitEnd \/ Dispatch
    BY <2>4 DEF HandleShutdown, DrainEnd, StartAdmission, AdmitEnd, StartBatch, Dispatch,
                schedVars, cacheVars
  <2>5. CASE ReceiveResult \/ ApplyEnd
    BY <2>5 DEF ReceiveResult, ApplyEnd, schedVars, cacheVars
  <2>6. CASE ExceptionExit \/ StopWorker \/ JoinWorker \/ TerminateWorker
    BY <2>6 DEF ExceptionExit, StopWorker, JoinWorker, TerminateWorker, schedVars, cacheVars
  <2> QED
    BY <2>1, <2>2, <2>3, <2>4, <2>5, <2>6 DEF Next, CoreStep
<1>4. CASE HandleAdd
  <2>1. PICK r \in Ids, n \in Submissions : r = Head(cmdq).id /\ n = Head(cmdq).sub
    BY <1>4, CommandFacts DEF HandleAdd, NextCommand, CoreInv
  <2>2. \/ UNCHANGED <<cacheVars, schedVars>>
        \/ ~AddRejected(r) /\ AddRequest(r, n)
    BY <1>4, <2>1 DEF HandleAdd
  <2>3. running' = running /\ tables' = tables
    BY <2>2 DEF AddRequest, schedVars, cacheVars
  <2>4. req'[x] = req[x]
    BY <1>1, <2>2 DEF AddRequest, AddRejected, IsRunning, schedVars, CoreInv, TypeOK
  <2> QED
    BY <2>3, <2>4, KeptUnchanged
<1>5. ASSUME NEW r \in Range(running), Finish(r), waiting' = waiting
      PROVE  Kept(x) \/ req'[x] = NoRequest
  <2>1. /\ req'[r] = NoRequest
        /\ Range(running') = Range(running) \ {r}
        /\ \A y \in Ids \ {r} : req'[y] = req[y]
        /\ \A y \in Range(running) \ {r} : tables'[y] = tables[y]
    BY <1>5, FinishFacts
  <2> QED
    BY <1>1, <2>1, KeptUnchanged
<1>6. CASE HandleAbort
  <2>1. PICK r \in Ids : r = Head(cmdq).id
    BY <1>6, CommandFacts DEF HandleAbort, NextCommand, CoreInv
  <2>2. \/ r \in Range(running) /\ Finish(r) /\ waiting' = waiting
        \/ r \notin Range(running) /\ Unqueue(r)
        \/ UNCHANGED <<cacheVars, waiting, running, req>>
    BY <1>6, <2>1 DEF HandleAbort, IsRunning
  <2>3. CASE r \notin Range(running) /\ Unqueue(r)
    <3>1. UNCHANGED <<running, tables>> /\ req'[x] = req[x]
      BY <1>1, <2>3 DEF Unqueue, cacheVars, CoreInv, TypeOK
    <3> QED
      BY <3>1, KeptUnchanged
  <2> QED
    BY <1>2, <1>5, <2>2, <2>3 DEF cacheVars
<1>7. CASE Admit
  <2>1. PICK r \in Ids : r = Head(waiting) /\ r \notin DOMAIN tables
    <3>1. waiting # <<>> /\ waiting \in Seq(Ids)
      BY <1>7 DEF Admit, AdmitOne, AdmissionOpen, CoreInv, TypeOK
    <3>2. Head(waiting) \in Ids /\ Head(waiting) \in Range(waiting)
      BY <3>1, TailFacts
    <3> QED
      BY <3>2 DEF CoreInv, ListsInv
  <2>2. \/ Create(r) /\ running' = Append(running, r)
        \/ UNCHANGED <<cacheVars, running>>
    BY <1>7, <2>1 DEF Admit, AdmitOne
  <2>3. req' = req
    BY <1>7 DEF Admit, AdmitOne
  <2>4. CASE Create(r) /\ running' = Append(running, r)
    <3>1. x \in Range(running')
      BY <1>1, <2>4, AppendFacts
    <3>2. tables'[x] = tables[x]
      BY <2>1, <2>4 DEF Create, CoreInv, ListsInv
    <3> QED
      BY <2>3, <3>1, <3>2, KeptUnchanged
  <2> QED
    BY <1>2, <2>2, <2>3, <2>4 DEF cacheVars
<1>8. CASE Schedule
  <2>1. PICK r \in Range(running), t \in Nat :
           UNCHANGED <<cacheVars>> \/ (CanReserve(r, t) /\ Reserve(r, t))
    BY <1>8, ScheduleEffect
  <2>2. running' = running /\ req' = req
    BY <1>8 DEF Schedule, ScheduleOne
  <2>3. CASE CanReserve(r, t) /\ Reserve(r, t)
    <3>1. CacheInv /\ r \in DOMAIN tables /\ x \in DOMAIN tables
      BY DEF CoreInv, TypeOK, CacheInv, ListsInv
    <3>2. /\ x # r => tables'[x] = tables[x]
          /\ x = r => /\ Len(tables[x]) <= Len(tables'[x])
                      /\ \A i \in 1 .. Len(tables[x]) : tables'[x][i] = tables[x][i]
      BY <2>3, <3>1, ReserveEffect
    <3>3. req[x].computed \in Nat
      BY <1>1 DEF CoreInv, TypeOK
    <3> QED
      BY <2>2, <3>2, <3>3, KeptUnchanged DEF Kept
  <2> QED
    BY <1>2, <2>1, <2>2, <2>3 DEF cacheVars
<1>9. CASE ApplyError
  <2>1. PICK r \in Range(running) : r = batch[cursor].id
    BY <1>9, ApplyFacts DEF ApplyError
  <2>2. Finish(r) /\ waiting' = waiting
    BY <1>9, <2>1 DEF ApplyError
  <2> QED
    BY <1>5, <2>2
<1>10. CASE ApplyItem
  <2>1. PICK r \in Range(running), item \in Items :
           /\ item = batch[cursor] /\ r = item.id /\ ItemOK(item)
           /\ \/ /\ UNCHANGED <<cacheVars, running>>
                 /\ req'[r].sub = req[r].sub
                 /\ req'[r].computed = item.seqLen
                 /\ \A y \in Ids \ {r} : req'[y] = req[y]
              \/ Finish(r)
    BY <1>10, ApplyItemEffect
  <2>2. waiting' = waiting
    BY <1>10 DEF ApplyItem
  <2>3. CASE /\ UNCHANGED <<cacheVars, running>>
             /\ req'[r].sub = req[r].sub
             /\ req'[r].computed = item.seqLen
             /\ \A y \in Ids \ {r} : req'[y] = req[y]
    <3>1. tables' = tables /\ running' = running
      BY <2>3 DEF cacheVars
    <3>2. r \in Ids /\ req[r].computed \in Nat /\ Len(tables[r]) \in Nat
      BY SMTT(30), <1>1 DEF CoreInv, TypeOK, CacheTypeOK, ListsInv
    <3>3. req[r].computed <= item.seqLen
      BY <2>1, <3>2 DEF ItemOK, Items
    <3>4. CASE x = r
      BY <2>3, <3>1, <3>2, <3>3, <3>4 DEF Kept
    <3>5. CASE x # r
      BY <1>1, <2>3, <3>1, <3>5, KeptUnchanged
    <3> QED
      BY <3>4, <3>5
  <2> QED
    BY <1>5, <2>1, <2>2, <2>3
<1> QED
  BY <1>2, <1>3, <1>4, <1>6, <1>7, <1>8, <1>9, <1>10

-----------------------------------------------------------------------------
(* The theorems. *)

\* Every variable of the core, its scheduler and cache, the Worker and the
\* clients keeps its type (EngineCore.run and all it calls).
THEOREM EngineTypes == Spec => []TypeOK
<1>1. CoreInv => TypeOK
  BY DEF CoreInv
<1> QED
  BY <1>1, CoreInvariant, PTL

\* No cache call of the core ever raises: create finds no table (_admit_waiting),
\* reserve finds one and enough blocks (schedule, after can_reserve), and free
\* returns only blocks in use (finish, abort).
THEOREM EngineNeverRaises == Spec => []BookkeepingNeverRaises
<1>1. CoreInv => BookkeepingNeverRaises
  BY DEF CoreInv, BookkeepingNeverRaises
<1> QED
  BY <1>1, CoreInvariant, PTL

\* Block tables belong to exactly the running requests, and with none running
\* the whole pool is free: no path out of the scheduler leaks a block.
THEOREM EngineKeepsNoBlocks == Spec => []BlocksFollowRequests
<1>1. CoreInv => BlocksFollowRequests
  <2> SUFFICES ASSUME CoreInv PROVE BlocksFollowRequests
    OBVIOUS
  <2>1. DOMAIN tables = Range(running) /\ CacheInv
    BY DEF CoreInv, ListsInv, TypeOK, CacheInv
  <2>2. ASSUME running = <<>> PROVE Len(free) = NumBlocks
    <3>1. Range(running) = {}
      BY <2>2 DEF Range
    <3> QED
      BY <2>1, <3>1, NoTablesAllFree
  <2> QED
    BY <2>1, <2>2 DEF BlocksFollowRequests
<1> QED
  BY <1>1, CoreInvariant, PTL

\* Blocks stay conserved and exclusive when the engine drives the cache.
THEOREM EngineConservesBlocks == Spec => []BlocksConserved
<1>1. CoreInv => BlocksConserved
  BY DEF CoreInv
<1> QED
  BY <1>1, CoreInvariant, PTL

\* At the top of the loop every running request has something to compute, one
\* token when it decodes, and room for the token this will sample: schedule
\* never skips a request for ever for want of work (schedule, append_token).
THEOREM EngineAlwaysHasWork == Spec => []RunningHasWork
<1>1. CoreInv => RunningHasWork
  <2> SUFFICES ASSUME CoreInv, NEW r \in Range(running)
               PROVE  /\ NumAllTokens(r) - req[r].computed > 0
                      /\ req[r].out > 0 => NumAllTokens(r) - req[r].computed = 1
                      /\ NumAllTokens(r) < ContextLimit
    BY DEF RunningHasWork
  <2>1. RequestOK(r)
    BY DEF CoreInv, RequestsInv
  <2>2. r \in Ids
    BY RangeOfSeq DEF CoreInv, TypeOK
  <2>3. NumAllTokens(r) \in Nat /\ req[r].computed \in Nat
    BY <2>2, SchedulerConfig DEF CoreInv, TypeOK, NumAllTokens
  <2>4. NumAllTokens(r) - req[r].computed > 0
    BY <2>1, <2>3 DEF RequestOK
  <2> QED
    BY <2>1, <2>4 DEF RequestOK
<1> QED
  BY <1>1, CoreInvariant, PTL

\* Until a running request leaves, its block table is only extended and its
\* computed count never falls, whatever command, batch, failure or admission
\* the step is about.
THEOREM EngineTablesOnlyGrow == Spec => TablesOnlyGrow
<1> DEFINE Grow ==
      \A r \in Ids :
         (IsRunning(r) /\ req'[r].sub = req[r].sub /\ r \in DOMAIN tables) =>
            /\ r \in DOMAIN tables'
            /\ IsPrefix(tables[r], tables'[r])
            /\ req'[r].computed >= req[r].computed
<1>1. CoreInv /\ CoreInv' /\ [Next]_vars => Grow
  <2> SUFFICES ASSUME CoreInv, CoreInv', [Next]_vars, NEW r \in Ids,
                      IsRunning(r), req'[r].sub = req[r].sub
               PROVE  /\ r \in DOMAIN tables'
                      /\ IsPrefix(tables[r], tables'[r])
                      /\ req'[r].computed >= req[r].computed
    OBVIOUS
  <2>1. r \in Range(running) /\ req[r].sub \in Submissions
    BY DEF IsRunning, CoreInv, RequestsInv, RequestOK
  <2>2. req'[r] # NoRequest
    BY <2>1, ClientBounds DEF NoRequest, Submissions
  <2>3. Kept(r)
    BY <2>1, <2>2, RunningKept
  <2>4. r \in DOMAIN tables /\ r \in DOMAIN tables'
    BY <2>1, <2>3 DEF Kept, CoreInv, ListsInv
  <2>5. tables[r] \in Seq(Blocks) /\ tables'[r] \in Seq(Blocks)
    BY <2>4 DEF CoreInv, TypeOK, CacheTypeOK, Blocks
  <2>6. SubSeq(tables[r], 1, Len(tables[r])) = SubSeq(tables'[r], 1, Len(tables[r]))
    <3> DEFINE s == tables[r]
               t == tables'[r]
    <3>1. s \in Seq(Blocks) /\ t \in Seq(Blocks) /\ Len(s) <= Len(t)
          /\ \A i \in 1 .. Len(s) : t[i] = s[i]
      BY <2>3, <2>5 DEF Kept
    <3> HIDE DEF s, t
    <3>2. SubSeq(s, 1, Len(s)) = [i \in 1 .. Len(s) |-> s[i]]
      BY <3>1
    <3>3. SubSeq(t, 1, Len(s)) = [i \in 1 .. Len(s) |-> t[i]]
      BY <3>1
    <3> QED
      BY <3>1, <3>2, <3>3 DEF s, t
  <2>7. req'[r].computed >= req[r].computed
    BY <2>3 DEF Kept, CoreInv, TypeOK
  <2> QED
    BY <2>3, <2>4, <2>6, <2>7 DEF Kept, IsPrefix
<1> QED
  BY <1>1, CoreInvariant, PTL DEF TablesOnlyGrow, Spec

-----------------------------------------------------------------------------
(* A request's attention reads its own tokens, whatever blocks changed hands, *)
(* whatever batch failed half way and whoever was aborted.                    *)
(*                                                                            *)
(* AttentionReadsOwnTokens speaks of a batch on the Worker's queue only.  That *)
(* it still holds for the next batch depends on what the Worker wrote for this *)
(* one and on the core counting no token the Worker did not write: ContextInv  *)
(* says both.                                                                  *)

\* The Worker has computed the batch and the core has not yet applied item i.
Computed(i) ==
    \/ pc = "wait" /\ workq = <<>> /\ ~resq[1].error
    \/ pc = "apply" /\ ~result.error /\ i >= cursor

\* The K/V of every token the core counts as computed is where the block table
\* of its request says.
CountedTokensInPlace ==
    \A r \in Range(running) : \A p \in 0 .. (req[r].computed - 1) :
        kv[Slot(tables[r], p)] = <<r, req[r].sub, p>>

\* So is that of the tokens of a computed batch.
BatchTokensInPlace ==
    \A i \in DOMAIN batch : Computed(i) =>
        \A p \in batch[i].start .. (batch[i].seqLen - 1) :
            kv[Slot(batch[i].table, p)] = Token(batch[i], p)

ContextInv == CountedTokensInPlace /\ BatchTokensInPlace

-----------------------------------------------------------------------------
(* What the Worker writes. *)

\* A slot that no scheduled token is mapped to keeps its content, and one that
\* one token is mapped to gets that token.
LEMMA WrittenFacts ==
    ASSUME NEW items, NEW n \in Nat, NEW slot \in Slots
    PROVE  /\ Writers(items, n, slot) = {} => Written(items, n)[slot] = kv[slot]
           /\ \A i \in 1 .. n : \A j \in Nat :
                 Writers(items, n, slot) = {<<i, j>>} =>
                    Written(items, n)[slot] = Token(items[i], items[i].start + j - 1)
<1> DEFINE W == Writers(items, n, slot)
           last == CHOOSE x \in W : \A y \in W :
                      y[1] < x[1] \/ (y[1] = x[1] /\ y[2] <= x[2])
<1>1. Written(items, n)[slot] = IF W = {} THEN kv[slot]
                                ELSE Token(items[last[1]], items[last[1]].start + last[2] - 1)
  BY DEF Written
<1>2. ASSUME NEW i \in 1 .. n, NEW j \in Nat, W = {<<i, j>>} PROVE last = <<i, j>>
  <2>1. \A y \in W : y[1] < <<i, j>>[1] \/ (y[1] = <<i, j>>[1] /\ y[2] <= <<i, j>>[2])
    BY <1>2
  <2>2. \E x \in W : \A y \in W : y[1] < x[1] \/ (y[1] = x[1] /\ y[2] <= x[2])
    BY <1>2, <2>1
  <2>3. last \in W
    BY <2>2
  <2> QED
    BY <1>2, <2>3
<1> HIDE DEF last, W
<1>3. ASSUME NEW i \in 1 .. n, NEW j \in Nat, W = {<<i, j>>}
      PROVE  Written(items, n)[slot] = Token(items[i], items[i].start + j - 1)
  BY <1>1, <1>2, <1>3
<1> QED
  BY <1>1, <1>3 DEF W

\* The slots of a dispatched batch: token number j of item i goes to the slot of
\* its position in the block table of its request.
LEMMA BatchSlots ==
    ASSUME CoreInv, Dispatched, NEW i \in DOMAIN batch
    PROVE  /\ ItemOK(batch[i]) /\ batch[i] \in Items
           /\ batch[i].id \in DOMAIN tables /\ batch[i].id \in Range(running)
           /\ batch[i].table = tables[batch[i].id]
           /\ Len(batch[i].slots) = batch[i].seqLen - batch[i].start
           /\ batch[i].start \in Nat /\ batch[i].seqLen \in Nat
           /\ batch[i].start = req[batch[i].id].computed
           /\ batch[i].seqLen <= Room(batch[i].table)
           /\ Room(batch[i].table) \in Nat
           /\ batch[i].seqLen <= NumBlocks * BlockSize
           /\ \A j \in 1 .. Len(batch[i].slots) :
                 /\ batch[i].slots[j] = Slot(batch[i].table, batch[i].start + j - 1)
                 /\ batch[i].start + j - 1 \in 0 .. (Room(batch[i].table) - 1)
<1> USE DEF CoreInv
<1>1. PICK item \in Items : item = batch[i]
  BY DEF BatchInv
<1>2. ItemOK(item)
  BY <1>1 DEF BatchInv, Unapplied
<1>3. item.id \in Range(running) /\ item.id \in DOMAIN tables /\ item.id \in Ids
  BY <1>2, RangeOfSeq DEF ItemOK, ListsInv, TypeOK
<1>4. /\ item.start \in Nat /\ item.seqLen \in Nat /\ item.table = tables[item.id]
      /\ item.start = req[item.id].computed
      /\ item.seqLen \in (item.start + 1) .. NumAllTokens(item.id)
      /\ item.seqLen <= Room(item.table)
      /\ item.slots = [k \in 1 .. (item.seqLen - item.start) |->
                          Slot(item.table, item.start + k - 1)]
  BY <1>1, <1>2 DEF ItemOK, Items
<1>5. Room(item.table) \in Nat
  <2>1. item.table \in Seq(Blocks)
    BY <1>1 DEF Items
  <2>2. Len(item.table) \in Nat
    BY <2>1
  <2> QED
    BY <2>2, Geometry DEF Room
<1>6. Len(item.slots) = item.seqLen - item.start
  <2>1. item.seqLen - item.start \in Nat
    BY <1>4
  <2>2. DOMAIN item.slots = 1 .. (item.seqLen - item.start)
    BY <1>4
  <2>3. item.slots \in Seq(Slots)
    BY <1>1 DEF Items
  <2> QED
    BY <2>1, <2>2, <2>3, LenProperties
<1>7. item.seqLen <= NumBlocks * BlockSize
  <2>1. NumAllTokens(item.id) < ContextLimit
    BY <1>3 DEF RequestsInv, RequestOK
  <2>2. NumAllTokens(item.id) \in Nat
    BY <1>3, SchedulerConfig DEF NumAllTokens, TypeOK
  <2>3. ContextLimit \in Nat /\ ContextLimit <= NumBlocks * BlockSize /\ NumBlocks * BlockSize \in Nat
    BY Geometry, SchedulerConfig DEF ContextLimit, NatMin
  <2> QED
    BY <1>4, <2>1, <2>2, <2>3
<1>8. ASSUME NEW j \in 1 .. Len(item.slots)
      PROVE  /\ item.slots[j] = Slot(item.table, item.start + j - 1)
             /\ item.start + j - 1 \in 0 .. (Room(item.table) - 1)
  <2>1. j \in 1 .. (item.seqLen - item.start)
    BY <1>6
  <2> QED
    BY <1>4, <1>5, <2>1
<1> QED
  BY <1>1, <1>2, <1>3, <1>4, <1>5, <1>6, <1>7, <1>8

\* Writing the first n items of a dispatched batch touches no counted token, and
\* puts each token of those items in its place.
LEMMA BatchWritten ==
    ASSUME CoreInv, Dispatched, NEW n \in 0 .. Len(batch), kv' = Written(batch, n)
    PROVE  /\ \A r \in Range(running) : \A p \in 0 .. (req[r].computed - 1) :
                 kv'[Slot(tables[r], p)] = kv[Slot(tables[r], p)]
           /\ \A i \in 1 .. n : \A p \in batch[i].start .. (batch[i].seqLen - 1) :
                 kv'[Slot(batch[i].table, p)] = Token(batch[i], p)
<1> USE DEF CoreInv
<1>1. /\ n \in Nat /\ \A i \in 1 .. n : i \in DOMAIN batch
  <2>1. batch \in Seq(Items)
    BY DEF BatchInv
  <2> QED
    BY <2>1
<1>2. SlotsDisjoint
  BY ConservedSlotsDisjoint DEF TypeOK, CacheInv
<1>3. \A x \in DOMAIN tables : tables[x] \in Seq(Blocks)
  BY DEF TypeOK, CacheTypeOK
<1>4. ASSUME NEW slot, NEW w \in Writers(batch, n, slot)
      PROVE  /\ w[1] \in 1 .. n /\ w[1] \in DOMAIN batch /\ w[2] \in Nat /\ w = <<w[1], w[2]>>
             /\ w[2] \in 1 .. Len(batch[w[1]].slots)
             /\ slot = Slot(tables[batch[w[1]].id], batch[w[1]].start + w[2] - 1)
             /\ batch[w[1]].start + w[2] - 1 \in 0 .. (Room(tables[batch[w[1]].id]) - 1)
  <2>1. /\ w \in (1 .. n) \X (1 .. (NumBlocks * BlockSize))
        /\ w[2] <= Len(batch[w[1]].slots) /\ batch[w[1]].slots[w[2]] = slot
    BY <1>4 DEF Writers
  <2>2. /\ w[1] \in 1 .. n /\ w[2] \in 1 .. (NumBlocks * BlockSize) /\ w = <<w[1], w[2]>>
    BY <2>1
  <2>3. w[1] \in DOMAIN batch
    BY <1>1, <2>2
  <2>4. Len(batch[w[1]].slots) \in Nat
    <3>1. batch[w[1]] \in Items
      BY <2>3, BatchSlots
    <3>2. batch[w[1]].slots \in Seq(Slots)
      BY <3>1 DEF Items
    <3> QED
      BY <3>2
  <2>5. NumBlocks * BlockSize \in Nat
    BY Geometry
  <2>6. w[2] \in 1 .. Len(batch[w[1]].slots) /\ w[2] \in Nat
    BY <2>1, <2>2, <2>4, <2>5
  <2> QED
    BY <2>1, <2>2, <2>3, <2>6, BatchSlots
<1>5. ASSUME NEW r \in Range(running), NEW p \in 0 .. (req[r].computed - 1)
      PROVE  kv'[Slot(tables[r], p)] = kv[Slot(tables[r], p)]
  <2>1. r \in Ids /\ r \in DOMAIN tables /\ req[r].computed \in Nat
        /\ req[r].computed <= Room(tables[r])
    BY RangeOfSeq DEF TypeOK, ListsInv, RequestsInv
  <2>2. Room(tables[r]) \in Nat
    BY <1>3, <2>1, Geometry DEF Room
  <2>3. p \in Nat /\ p < req[r].computed /\ p \in 0 .. (Room(tables[r]) - 1)
    BY <2>1, <2>2
  <2>4. Slot(tables[r], p) \in Slots
    BY <1>3, <2>1, <2>3, SlotInCache
  <2>5. Writers(batch, n, Slot(tables[r], p)) = {}
    <3> SUFFICES ASSUME NEW w \in Writers(batch, n, Slot(tables[r], p)) PROVE FALSE
      OBVIOUS
    <3>1. w[1] \in DOMAIN batch /\ w[2] \in 1 .. Len(batch[w[1]].slots) /\ w[2] \in Nat
      BY <1>4
    <3>2. PICK b \in DOMAIN tables, q \in Int :
             /\ q \in 0 .. (Room(tables[b]) - 1)
             /\ b = batch[w[1]].id /\ q = batch[w[1]].start + w[2] - 1
             /\ Slot(tables[r], p) = Slot(tables[b], q)
      BY <1>4, <3>1, BatchSlots
    <3>3. r = b /\ p = q
      BY <1>2, <2>1, <2>3, <3>2 DEF SlotsDisjoint
    <3>4. batch[w[1]].start = req[r].computed /\ w[2] >= 1
      BY SMTT(30), <3>1, <3>2, <3>3, BatchSlots
    <3> QED
      BY <2>1, <2>3, <3>1, <3>2, <3>3, <3>4
  <2> QED
    BY <1>1, <2>4, <2>5, WrittenFacts
<1>6. ASSUME NEW i \in 1 .. n, NEW p \in batch[i].start .. (batch[i].seqLen - 1)
      PROVE  kv'[Slot(batch[i].table, p)] = Token(batch[i], p)
  <2>1. i \in DOMAIN batch
    BY <1>1
  <2>2. PICK start \in Nat, end \in Nat, r \in DOMAIN tables :
           /\ start = batch[i].start /\ end = batch[i].seqLen /\ r = batch[i].id
           /\ batch[i].table = tables[r] /\ end <= Room(tables[r])
           /\ Room(tables[r]) \in Nat /\ Len(batch[i].slots) = end - start
           /\ end <= NumBlocks * BlockSize
    BY <2>1, BatchSlots
  <2>3. p \in start .. (end - 1)
    BY <2>2
  <2>4. PICK j \in Nat : j = p - start + 1
    BY <2>3
  <2>5. /\ p \in Nat /\ j \in 1 .. (end - start) /\ start + j - 1 = p
        /\ p \in 0 .. (Room(tables[r]) - 1)
    <3>1. end <= Room(tables[r]) /\ Room(tables[r]) \in Nat
      BY <2>2
    <3> QED
      BY <2>3, <2>4, <3>1
  <2>6. j \in 1 .. (NumBlocks * BlockSize) /\ j <= end - start
    <3>1. end <= NumBlocks * BlockSize /\ NumBlocks * BlockSize \in Nat
      BY <2>2, Geometry
    <3> QED
      BY <2>5, <3>1
  <2>7. Slot(tables[r], p) \in Slots
    BY <1>3, <2>5, SlotInCache
  <2>8. batch[i].slots[j] = Slot(tables[r], p)
    BY <2>1, <2>2, <2>5, BatchSlots
  <2>9. <<i, j>> \in Writers(batch, n, Slot(tables[r], p))
    BY <2>2, <2>6, <2>8 DEF Writers
  <2>10. ASSUME NEW w \in Writers(batch, n, Slot(tables[r], p)) PROVE w = <<i, j>>
    <3>1. w[1] \in DOMAIN batch /\ w[2] \in Nat /\ w = <<w[1], w[2]>>
      BY <1>4
    <3>2. PICK b \in DOMAIN tables, q \in Int :
             /\ q \in 0 .. (Room(tables[b]) - 1)
             /\ b = batch[w[1]].id /\ q = batch[w[1]].start + w[2] - 1
             /\ Slot(tables[r], p) = Slot(tables[b], q)
      <4>1. batch[w[1]].id \in DOMAIN tables
        BY <3>1, BatchSlots
      <4>2. /\ Slot(tables[r], p) = Slot(tables[batch[w[1]].id], batch[w[1]].start + w[2] - 1)
            /\ batch[w[1]].start + w[2] - 1 \in 0 .. (Room(tables[batch[w[1]].id]) - 1)
        BY <1>4
      <4> QED
        BY <4>1, <4>2
    <3>3. r = b /\ p = q
      BY <1>2, <2>5, <3>2 DEF SlotsDisjoint
    <3>4. w[1] = i
      BY <2>1, <2>2, <3>1, <3>2, <3>3 DEF BatchInv
    <3>5. w[2] = j
      <4>1. p = start + w[2] - 1
        BY <2>2, <3>2, <3>3, <3>4
      <4> QED
        BY SMTT(30), <2>3, <2>4, <3>1, <4>1
    <3> QED
      BY <3>1, <3>4, <3>5
  <2>11. Writers(batch, n, Slot(tables[r], p)) = {<<i, j>>}
    BY <2>9, <2>10
  <2>12. kv'[Slot(tables[r], p)] = Token(batch[i], batch[i].start + j - 1)
    BY <1>1, <2>7, <2>11, WrittenFacts
  <2> QED
    BY <2>2, <2>5, <2>12
<1> QED
  BY <1>5, <1>6

-----------------------------------------------------------------------------
(* The steps that write nothing. *)

\* A longer table maps the positions the shorter one had room for as before.
LEMMA SlotKept ==
    ASSUME NEW s \in Seq(Blocks), NEW t, NEW p \in 0 .. (Room(s) - 1),
           \A i \in 1 .. Len(s) : t[i] = s[i]
    PROVE  Slot(t, p) = Slot(s, p)
<1>1. Len(s) \in Nat
  OBVIOUS
<1>2. (p \div BlockSize) + 1 \in 1 .. Len(s)
  BY <1>1, PositionInTable DEF Room
<1> QED
  BY <1>2 DEF Slot

\* A request that is running after a step was running before it and is as it
\* was, or it has computed nothing yet; only a result changes a count.
LEMMA RunningBefore ==
    ASSUME CoreInv, CoreInv', [Next]_vars, ~ApplyItem, NEW x \in Range(running')
    PROVE  \/ req'[x].computed = 0
           \/ x \in Range(running) /\ Kept(x) /\ req'[x].computed = req[x].computed
<1>1. x \in Ids /\ Range(running) \subseteq Ids /\ running \in Seq(Ids)
  BY RangeOfSeq DEF CoreInv, TypeOK
<1>2. req'[x].sub \in Submissions
  BY DEF CoreInv, RequestsInv, RequestOK
<1>3. req'[x] # NoRequest
  BY <1>2, ClientBounds DEF NoRequest, Submissions
<1>4. x \in Range(running) => Kept(x)
  BY <1>3, RunningKept
<1>5. \/ UNCHANGED <<running, req>>
      \/ HandleAdd \/ HandleAbort \/ Admit \/ ApplyError
  <2>1. CASE ClientStep
    BY <2>1 DEF ClientStep, SendShutdown, TerminateCore, SendAdd, SendAbort, schedVars
  <2>2. CASE WorkerStep
    BY <2>2 DEF WorkerStep, CoreIdle, schedVars
  <2>3. CASE UNCHANGED vars
    BY <2>3 DEF vars, schedVars
  <2>4. CASE HandleShutdown \/ DrainEnd \/ AdmitEnd \/ Dispatch \/ Schedule
    BY <2>4 DEF HandleShutdown, DrainEnd, StartAdmission, AdmitEnd, StartBatch, Dispatch,
                Schedule, ScheduleOne, schedVars
  <2>5. CASE ReceiveResult \/ ApplyEnd
    BY <2>5 DEF ReceiveResult, ApplyEnd, schedVars
  <2>6. CASE ExceptionExit \/ StopWorker \/ JoinWorker \/ TerminateWorker
    BY <2>6 DEF ExceptionExit, StopWorker, JoinWorker, TerminateWorker, schedVars
  <2> QED
    BY <2>1, <2>2, <2>3, <2>4, <2>5, <2>6 DEF Next, CoreStep
<1>6. CASE UNCHANGED <<running, req>>
  BY <1>4, <1>6
<1>7. CASE HandleAdd
  <2>1. PICK r \in Ids, n \in Submissions : r = Head(cmdq).id /\ n = Head(cmdq).sub
    BY <1>7, CommandFacts DEF HandleAdd, NextCommand, CoreInv
  <2>2. \/ UNCHANGED <<cacheVars, schedVars>>
        \/ ~AddRejected(r) /\ AddRequest(r, n)
    BY <1>7, <2>1 DEF HandleAdd
  <2>3. running' = running
    BY <2>2 DEF AddRequest, schedVars
  <2>4. req'[x] = req[x]
    BY <1>1, <2>2, <2>3 DEF AddRequest, AddRejected, IsRunning, schedVars, CoreInv, TypeOK
  <2> QED
    BY <1>4, <2>3, <2>4
<1>8. ASSUME NEW r \in Range(running), Finish(r), waiting' = waiting
      PROVE  x \in Range(running) /\ req'[x] = req[x]
  <2>1. /\ Range(running') = Range(running) \ {r}
        /\ \A y \in Ids \ {r} : req'[y] = req[y]
    BY <1>8, FinishFacts
  <2> QED
    BY <1>1, <2>1
<1>9. CASE HandleAbort
  <2>1. PICK r \in Ids : r = Head(cmdq).id
    BY <1>9, CommandFacts DEF HandleAbort, NextCommand, CoreInv
  <2>2. \/ r \in Range(running) /\ Finish(r) /\ waiting' = waiting
        \/ r \notin Range(running) /\ Unqueue(r)
        \/ UNCHANGED <<running, req>>
    BY <1>9, <2>1 DEF HandleAbort, IsRunning
  <2>3. CASE r \notin Range(running) /\ Unqueue(r)
    <3>1. running' = running /\ req'[x] = req[x]
      BY <1>1, <2>3 DEF Unqueue, CoreInv, TypeOK
    <3> QED
      BY <1>4, <3>1
  <2> QED
    BY <1>4, <1>6, <1>8, <2>2, <2>3
<1>10. CASE Admit
  <2>1. waiting # <<>> /\ waiting \in Seq(Ids) /\ req' = req
    BY <1>10 DEF Admit, AdmitOne, AdmissionOpen, CoreInv, TypeOK
  <2>2. PICK r \in Ids : r = Head(waiting)
    BY <2>1
  <2>3. r \in Range(waiting) /\ req[r].computed = 0
    BY <2>1, <2>2, TailFacts DEF CoreInv, RequestsInv
  <2>4. running' = running \/ running' = Append(running, r)
    BY <1>10, <2>2 DEF Admit, AdmitOne
  <2>5. Range(Append(running, r)) = Range(running) \cup {r}
    BY <1>1, AppendFacts
  <2> QED
    BY <1>4, <2>1, <2>3, <2>4, <2>5
<1>11. CASE ApplyError
  <2>1. PICK r \in Range(running) : r = batch[cursor].id
    BY <1>11, ApplyFacts DEF ApplyError
  <2>2. Finish(r) /\ waiting' = waiting
    BY <1>11, <2>1 DEF ApplyError
  <2> QED
    BY <1>4, <1>8, <2>2
<1> QED
  BY <1>5, <1>6, <1>7, <1>9, <1>10, <1>11

\* So the counted tokens stay in place when the Worker writes nothing.
LEMMA CountedKept ==
    ASSUME CoreInv, CoreInv', ContextInv, [Next]_vars, ~ApplyItem, kv' = kv
    PROVE  CountedTokensInPlace'
<1> SUFFICES ASSUME NEW x \in Range(running'), NEW p \in 0 .. (req'[x].computed - 1)
             PROVE  kv'[Slot(tables'[x], p)] = <<x, req'[x].sub, p>>
  BY DEF CountedTokensInPlace
<1>1. /\ x \in Range(running) /\ Kept(x) /\ req'[x].computed = req[x].computed
  BY RunningBefore
<1>2. /\ x \in Ids /\ tables[x] \in Seq(Blocks) /\ req[x].computed \in Nat
      /\ req[x].computed <= Room(tables[x])
  BY <1>1, RangeOfSeq DEF CoreInv, TypeOK, ListsInv, CacheTypeOK, RequestsInv
<1>3. Room(tables[x]) \in Nat
  BY <1>2, Geometry DEF Room
<1>4. p \in 0 .. (Room(tables[x]) - 1)
  BY <1>1, <1>2, <1>3
<1>5. Slot(tables'[x], p) = Slot(tables[x], p)
  BY <1>1, <1>2, <1>4, SlotKept DEF Kept
<1>6. kv[Slot(tables[x], p)] = <<x, req[x].sub, p>>
  BY <1>1 DEF ContextInv, CountedTokensInPlace
<1> QED
  BY <1>1, <1>5, <1>6 DEF Kept

\* A step after which no computed batch is left to apply, or that leaves the
\* batch and where it stands alone.
LEMMA BatchTokensKept ==
    ASSUME ContextInv, kv' = kv,
           \/ pc' \notin {"wait", "apply"}
           \/ pc' = "wait" /\ workq' # <<>>
           \/ pc' = "apply" /\ result'.error
           \/ /\ UNCHANGED <<pc, workq, resq, result, batch>>
              /\ \A i \in DOMAIN batch : i >= cursor' => i >= cursor
    PROVE  BatchTokensInPlace'
<1>1. CASE \/ pc' \notin {"wait", "apply"}
           \/ pc' = "wait" /\ workq' # <<>>
           \/ pc' = "apply" /\ result'.error
  <2>1. \A i : ~Computed(i)'
    BY <1>1 DEF Computed
  <2> QED
    BY <2>1 DEF BatchTokensInPlace
<1>2. CASE /\ UNCHANGED <<pc, workq, resq, result, batch>>
           /\ \A i \in DOMAIN batch : i >= cursor' => i >= cursor
  <2>1. \A i \in DOMAIN batch : Computed(i)' => Computed(i)
    BY <1>2 DEF Computed
  <2> QED
    BY <1>2, <2>1 DEF ContextInv, BatchTokensInPlace, Token
<1> QED
  BY <1>1, <1>2

\* The result of a computed batch reaches the core.
LEMMA ReceiveResultContext ==
    ASSUME CoreInv, CoreInv', ContextInv, ReceiveResult
    PROVE  BatchTokensInPlace'
<1>1. /\ pc = "wait" /\ resq # <<>> /\ result' = Head(resq)
      /\ UNCHANGED <<workq, kv, batch, cursor, batchId>>
      /\ pc' = NextAfterResult(Head(resq).batchId)
  BY DEF ReceiveResult, schedVars
<1>2. CASE workq # <<>>
  <2>1. resq = <<InitFailure>>
    BY <1>1, <1>2 DEF CoreInv, ChannelInv
  <2>2. Head(resq).batchId = -1
    BY <2>1 DEF InitFailure, Result
  <2>3. pc' = "except"
    BY SMTT(30), <1>1, <2>2 DEF NextAfterResult, CoreInv, TypeOK
  <2> QED
    BY <1>1, <2>3, BatchTokensKept
<1>3. CASE workq = <<>>
  <2>1. resq = <<resq[1]>> /\ Head(resq) = resq[1] /\ ResultOK(resq[1])
    <3>1. resq = <<resq[1]>> /\ ResultOK(resq[1])
      BY <1>1, <1>3 DEF CoreInv, ChannelInv
    <3> QED
      BY <3>1
  <2>2. pc' = "apply"
    BY <1>1, <2>1 DEF NextAfterResult, ResultOK, CoreInv, TypeOK
  <2>3. \A i \in DOMAIN batch : Computed(i)' => Computed(i)
    BY <1>1, <1>3, <2>1, <2>2 DEF Computed
  <2> QED
    BY <1>1, <2>3 DEF ContextInv, BatchTokensInPlace, Token
<1> QED
  BY <1>2, <1>3

-----------------------------------------------------------------------------
(* The Worker's steps and the core's counting. *)

\* A batch leaves what was counted alone, and a batch that succeeds has all its
\* tokens in place; one that fails, wherever it stopped, promises nothing.
LEMMA WorkerContext ==
    ASSUME CoreInv, CoreInv', ContextInv, WorkerStep
    PROVE  ContextInv'
<1>1. /\ UNCHANGED <<waiting, running, req, tables, cursor, batch, pc, batchId, result>>
      /\ \/ WorkerReady \/ WorkerInitFails \/ WorkerExecute
         \/ WorkerBatchFails \/ WorkerShutdown
  BY DEF WorkerStep, CoreIdle, cacheVars, schedVars, coreVars
<1>2. [Next]_vars /\ ~ApplyItem
  <2>1. cursor' # cursor + 1
    BY <1>1 DEF CoreInv, TypeOK
  <2> QED
    BY <2>1 DEF Next, ApplyItem
<1>3. CASE WorkerReady \/ WorkerInitFails \/ WorkerShutdown
  <2>1. kv' = kv
    BY <1>3 DEF WorkerReady, WorkerInitFails, WorkerShutdown
  <2>2. CountedTokensInPlace'
    BY <1>2, <2>1, CountedKept
  <2>3. \A i \in DOMAIN batch : Computed(i)' => Computed(i)
    <3>1. CASE pc = "apply"
      BY <1>1, <3>1 DEF Computed
    <3>2. CASE pc = "wait"
      <4>1. CASE WorkerReady
        BY <1>1, <4>1 DEF Computed, WorkerReady
      <4>2. CASE WorkerInitFails
        <5>1. workq' = workq /\ workq # <<>>
          <6>1. workq = <<BatchCommand(batchId, batch)>> /\ workq' = workq
            BY <3>2, <4>2 DEF WorkerInitFails, CoreInv, ChannelInv
          <6> QED
            BY <6>1
        <5> QED
          BY <1>1, <3>2, <5>1 DEF Computed
      <4>3. CASE WorkerShutdown
        <5>1. workq # <<>> /\ Head(workq).shutdown
          BY <4>3 DEF WorkerShutdown
        <5>2. workq = <<BatchCommand(batchId, batch)>>
          BY <3>2, <5>1 DEF CoreInv, ChannelInv
        <5>3. Head(workq) = BatchCommand(batchId, batch)
          BY <5>2
        <5> QED
          BY <5>1, <5>3 DEF BatchCommand
      <4> QED
        BY <1>3, <4>1, <4>2, <4>3
    <3> QED
      BY <1>1, <3>1, <3>2 DEF Computed
  <2>4. BatchTokensInPlace'
    BY <1>1, <2>1, <2>3 DEF ContextInv, BatchTokensInPlace, Token
  <2> QED
    BY <2>2, <2>4 DEF ContextInv
<1>4. CASE WorkerExecute \/ WorkerBatchFails
  <2>1. workq # <<>> /\ ~Head(workq).shutdown /\ workq' = Tail(workq)
    BY <1>4 DEF WorkerExecute, WorkerBatchFails
  <2>2. Head(workq) = BatchCommand(batchId, batch) /\ Dispatched
    <3>1. Head(workq) \in {ShutdownCommand, BatchCommand(batchId, batch)}
          /\ 1 \in DOMAIN workq /\ Head(workq) = workq[1]
      BY <2>1 DEF CoreInv, ChannelInv
    <3> QED
      BY <2>1, <3>1 DEF ShutdownCommand, Dispatched
  <2>3. Head(workq).items = batch /\ Head(workq).batchId = batchId
    BY <2>2 DEF BatchCommand
  <2>4. batch \in Seq(Items) /\ Len(batch) \in Nat /\ DOMAIN batch = 1 .. Len(batch)
    BY DEF CoreInv, BatchInv
  <2>5. PICK n \in 0 .. Len(batch) :
           /\ kv' = Written(batch, n)
           /\ \/ n = Len(batch)
              \/ resq' = Append(resq, Result(batchId, TRUE, NoSamples))
    <3>1. CASE WorkerExecute
      <4>1. kv' = Written(batch, Len(batch))
        BY <3>1, <2>3 DEF WorkerExecute
      <4>2. Len(batch) \in 0 .. Len(batch)
        BY <2>4
      <4> QED
        BY <4>1, <4>2
    <3>2. CASE WorkerBatchFails
      <4>1. \E n \in 0 .. (IF ValidBatch(batch) THEN Len(batch) ELSE 0) : kv' = Written(batch, n)
        BY <3>2, <2>3 DEF WorkerBatchFails
      <4>2. resq' = Append(resq, Result(batchId, TRUE, NoSamples))
        BY <3>2, <2>3 DEF WorkerBatchFails
      <4> QED
        BY <4>1, <4>2, <2>4
    <3> QED
      BY <1>4, <3>1, <3>2
  <2>6. /\ \A r \in Range(running) : \A p \in 0 .. (req[r].computed - 1) :
              kv'[Slot(tables[r], p)] = kv[Slot(tables[r], p)]
        /\ \A i \in 1 .. n : \A p \in batch[i].start .. (batch[i].seqLen - 1) :
              kv'[Slot(batch[i].table, p)] = Token(batch[i], p)
    BY <2>2, <2>5, BatchWritten
  <2>7. CountedTokensInPlace'
    BY <1>1, <2>6 DEF ContextInv, CountedTokensInPlace
  <2>8. BatchTokensInPlace'
    <3> SUFFICES ASSUME NEW i \in DOMAIN batch, Computed(i)'
                 PROVE  \A p \in batch[i].start .. (batch[i].seqLen - 1) :
                           kv'[Slot(batch[i].table, p)] = Token(batch[i], p)
      BY <1>1 DEF BatchTokensInPlace, Token
    <3>1. pc = "wait"
      <4>1. pc = "apply" => workq = <<>>
        BY DEF CoreInv, ChannelInv
      <4> QED
        BY <1>1, <2>1, <4>1 DEF Computed
    <3>2. resq = <<>>
      <4>1. wstate = "ready"
        BY <1>4 DEF WorkerExecute, WorkerBatchFails
      <4> QED
        BY <2>1, <3>1, <4>1 DEF CoreInv, ChannelInv
    <3>3. n = Len(batch)
      <4> SUFFICES ASSUME resq' = Append(resq, Result(batchId, TRUE, NoSamples)) PROVE FALSE
        BY <2>5
      <4>1. resq'[1] = Result(batchId, TRUE, NoSamples)
        BY <3>2
      <4>2. resq'[1].error
        BY <4>1 DEF Result
      <4> QED
        BY <1>1, <3>1, <4>2 DEF Computed
    <3> QED
      BY <2>4, <2>6, <3>3
  <2> QED
    BY <2>7, <2>8 DEF ContextInv
<1> QED
  BY <1>1, <1>3, <1>4

\* What the core counts is what the Worker put in place.
LEMMA ApplyItemContext ==
    ASSUME CoreInv, CoreInv', ContextInv, ApplyItem
    PROVE  ContextInv'
<1>1. /\ pc = "apply" /\ pc' = "apply" /\ ~result.error /\ cursor <= Len(batch)
      /\ cursor' = cursor + 1 /\ UNCHANGED <<waiting, batch, workq, resq, kv, result>>
  BY ApplyItemInv DEF ApplyItem, workerVars
<1>2. cursor \in Nat /\ batch \in Seq(Items) /\ cursor \in DOMAIN batch
  BY <1>1, ApplyFacts DEF CoreInv, TypeOK, BatchInv
<1>3. PICK r \in Range(running), item \in Items :
         /\ item = batch[cursor] /\ r = item.id /\ ItemOK(item)
         /\ \/ /\ UNCHANGED <<cacheVars, running>>
               /\ req'[r].sub = req[r].sub
               /\ req'[r].computed = item.seqLen
               /\ \A x \in Ids \ {r} : req'[x] = req[x]
            \/ Finish(r)
  BY ApplyItemEffect
<1>4. Range(running) \subseteq Ids
  BY RangeOfSeq DEF CoreInv, TypeOK
<1>5. CountedTokensInPlace'
  <2> SUFFICES ASSUME NEW x \in Range(running'), NEW p \in 0 .. (req'[x].computed - 1)
               PROVE  kv[Slot(tables'[x], p)] = <<x, req'[x].sub, p>>
    BY <1>1 DEF CountedTokensInPlace
  <2>1. ASSUME x \in Range(running), tables'[x] = tables[x], req'[x] = req[x]
        PROVE  kv[Slot(tables'[x], p)] = <<x, req'[x].sub, p>>
    BY <2>1 DEF ContextInv, CountedTokensInPlace
  <2>2. CASE Finish(r)
    <3>1. /\ Range(running') = Range(running) \ {r}
          /\ \A y \in Ids \ {r} : req'[y] = req[y]
          /\ \A y \in Range(running) \ {r} : tables'[y] = tables[y]
      BY <1>1, <2>2, FinishFacts
    <3> QED
      BY <1>4, <2>1, <3>1
  <2>3. CASE /\ UNCHANGED <<cacheVars, running>>
             /\ req'[r].sub = req[r].sub
             /\ req'[r].computed = item.seqLen
             /\ \A y \in Ids \ {r} : req'[y] = req[y]
    <3>1. tables' = tables /\ running' = running
      BY <2>3 DEF cacheVars
    <3>2. CASE x # r
      BY <1>4, <2>1, <2>3, <3>1, <3>2
    <3>3. CASE x = r
      <4>1. /\ item.start \in Nat /\ item.seqLen \in Nat /\ item.start = req[r].computed
            /\ item.table = tables[r] /\ item.sub = req[r].sub
        BY <1>3 DEF ItemOK, Items
      <4>2. p \in 0 .. (item.seqLen - 1)
        BY <2>3, <3>3
      <4>3. CASE p < item.start
        <5>1. p \in 0 .. (req[r].computed - 1)
          BY <4>1, <4>2, <4>3
        <5> QED
          BY <2>3, <3>1, <3>3, <5>1 DEF ContextInv, CountedTokensInPlace
      <4>4. CASE ~(p < item.start)
        <5>1. p \in item.start .. (item.seqLen - 1)
          BY <4>1, <4>2, <4>4
        <5>2. Computed(cursor)
          BY <1>1, <1>2 DEF Computed
        <5>3. kv[Slot(item.table, p)] = Token(item, p)
          BY <1>2, <1>3, <5>1, <5>2 DEF ContextInv, BatchTokensInPlace
        <5> QED
          BY <1>3, <2>3, <3>1, <3>3, <4>1, <5>3 DEF Token
      <4> QED
        BY <4>3, <4>4
    <3> QED
      BY <3>2, <3>3
  <2> QED
    BY <1>3, <2>2, <2>3
<1>6. BatchTokensInPlace'
  <2>1. \A i \in DOMAIN batch : i >= cursor' => i >= cursor
    <3>1. \A i \in DOMAIN batch : i \in Nat
      BY <1>2
    <3> QED
      BY <1>1, <1>2, <3>1
  <2> QED
    BY <1>1, <2>1, BatchTokensKept
<1> QED
  BY <1>5, <1>6 DEF ContextInv

\* Every step keeps ContextInv.
LEMMA ContextInvNext == CoreInv /\ CoreInv' /\ ContextInv /\ [Next]_vars => ContextInv'
<1> SUFFICES ASSUME CoreInv, CoreInv', ContextInv, [Next]_vars PROVE ContextInv'
  OBVIOUS
<1>1. CASE WorkerStep
  BY <1>1, WorkerContext
<1>2. CASE ApplyItem
  BY <1>2, ApplyItemContext
<1>3. ASSUME kv' = kv, BatchTokensInPlace', ~ApplyItem PROVE ContextInv'
  BY <1>3, CountedKept DEF ContextInv
<1>4. CASE ReceiveResult /\ ~ApplyItem
  BY <1>3, <1>4, ReceiveResultContext DEF ReceiveResult
<1>5. CASE \/ HandleShutdown \/ HandleAdd \/ HandleAbort \/ DrainEnd \/ Admit
           \/ AdmitEnd \/ Schedule \/ ApplyEnd \/ TerminateCore
  <2>1. kv' = kv /\ ~ApplyItem
    <3>1. pc # "apply" \/ pc' # "apply"
      BY <1>5 DEF HandleShutdown, HandleAdd, HandleAbort, NextCommand, DrainEnd, Admit,
                  AdmitEnd, Schedule, ApplyEnd, TerminateCore
    <3>2. kv' = kv
      BY <1>5 DEF HandleShutdown, HandleAdd, HandleAbort, DrainEnd, Admit,
                  AdmitEnd, Schedule, ApplyEnd, TerminateCore, workerVars
    <3> QED
      BY <3>1, <3>2, ApplyItemInv DEF ApplyItem
  <2>2. pc' \notin {"wait", "apply"}
    BY <1>5 DEF HandleShutdown, HandleAdd, HandleAbort, NextCommand, DrainEnd, Admit,
                AdmitEnd, Schedule, ApplyEnd, TerminateCore
  <2> QED
    BY <1>3, <2>1, <2>2, BatchTokensKept
<1>6. CASE ExceptionExit \/ StopWorker \/ JoinWorker \/ TerminateWorker
  <2>1. kv' = kv /\ pc' \notin {"wait", "apply"} /\ pc # "apply"
    BY <1>6 DEF ExceptionExit, StopWorker, JoinWorker, TerminateWorker, workerVars
  <2> QED
    BY <1>3, <2>1, BatchTokensKept DEF ApplyItem
<1>7. CASE Dispatch
  <2>1. kv' = kv /\ pc = "sched"
    BY <1>7 DEF Dispatch
  <2>2. pc' \notin {"wait", "apply"} \/ (pc' = "wait" /\ workq' # <<>>)
    <3>1. workq = <<>>
      BY <2>1 DEF CoreInv, ChannelInv
    <3>2. \A e : Append(workq, e) # <<>>
      BY <3>1
    <3> QED
      BY <1>7, <3>2 DEF Dispatch
  <2> QED
    BY <1>3, <2>1, <2>2, BatchTokensKept DEF ApplyItem
<1>8. CASE ApplyError
  <2>1. kv' = kv /\ pc' = "apply" /\ result'.error /\ ~ApplyItem
    BY <1>8, ApplyErrorInv DEF ApplyError, ApplyItem, workerVars
  <2> QED
    BY <1>3, <2>1, BatchTokensKept
<1>9. CASE UNCHANGED vars \/ SendShutdown \/ \E r \in Ids : SendAdd(r) \/ SendAbort(r)
  <2>1. UNCHANGED <<kv, pc, workq, resq, result, batch, cursor>>
    BY <1>9 DEF vars, SendShutdown, SendAdd, SendAbort, schedVars, workerVars, coreVars
  <2>2. ~ApplyItem
    <3>1. cursor' # cursor + 1
      BY <2>1 DEF CoreInv, TypeOK
    <3> QED
      BY <3>1 DEF ApplyItem
  <2> QED
    BY <1>3, <2>1, <2>2, BatchTokensKept
<1> QED
  BY <1>1, <1>2, <1>4, <1>5, <1>6, <1>7, <1>8, <1>9 DEF Next, CoreStep, ClientStep

-----------------------------------------------------------------------------
(* The theorem. *)

\* In every batch the Worker takes, the slots below a request's first scheduled
\* position hold the K/V of that very submission and position, and the slots
\* written are those its attention reads (schedule, KVCacheManager.slots,
\* append_kv and the attention over the block table).
THEOREM EngineReadsOwnTokens == Spec => []AttentionReadsOwnTokens
<1>1. Init => ContextInv
  <2> SUFFICES ASSUME Init PROVE ContextInv
    OBVIOUS
  <2>1. running = <<>> /\ batch = <<>>
    BY DEF Init, SchedulerInit
  <2>2. Range(running) = {}
    BY <2>1 DEF Range
  <2> QED
    BY <2>1, <2>2 DEF ContextInv, CountedTokensInPlace, BatchTokensInPlace
<1>2. CoreInv /\ ContextInv => AttentionReadsOwnTokens
  <2> SUFFICES ASSUME CoreInv, ContextInv, NEW k \in DOMAIN workq,
                      NEW i \in DOMAIN workq[k].items,
                      NEW p \in 0 .. (workq[k].items[i].seqLen - 1)
               PROVE  LET item == workq[k].items[i]
                      IN  IF p < item.start
                          THEN kv[Slot(item.table, p)] = Token(item, p)
                          ELSE item.slots[p - item.start + 1] = Slot(item.table, p)
    BY DEF AttentionReadsOwnTokens
  <2>1. workq[k] \in {ShutdownCommand, BatchCommand(batchId, batch)}
    BY DEF CoreInv, ChannelInv
  <2>2. workq[k] = BatchCommand(batchId, batch)
    BY <2>1 DEF ShutdownCommand
  <2>3. workq[k].items = batch /\ Dispatched
    BY <2>2 DEF BatchCommand, Dispatched
  <2>4. PICK item : item = workq[k].items[i] /\ item = batch[i]
    BY <2>3
  <2>5. /\ ItemOK(item) /\ item.start \in Nat /\ item.seqLen \in Nat
        /\ item.start = req[item.id].computed /\ item.id \in Range(running)
        /\ item.table = tables[item.id] /\ item.sub = req[item.id].sub
        /\ item.slots = [j \in 1 .. (item.seqLen - item.start) |->
                            Slot(item.table, item.start + j - 1)]
    BY <2>3, <2>4, BatchSlots DEF ItemOK
  <2>6. p \in 0 .. (item.seqLen - 1)
    BY <2>4
  <2>7. CASE p < item.start
    <3>1. p \in 0 .. (req[item.id].computed - 1)
      BY <2>5, <2>6, <2>7
    <3>2. kv[Slot(tables[item.id], p)] = <<item.id, req[item.id].sub, p>>
      BY <2>5, <3>1 DEF ContextInv, CountedTokensInPlace
    <3>3. kv[Slot(item.table, p)] = Token(item, p)
      BY <2>5, <3>2 DEF Token
    <3> QED
      BY <2>4, <2>7, <3>3
  <2>8. CASE ~(p < item.start)
    <3>1. /\ p - item.start + 1 \in 1 .. (item.seqLen - item.start)
          /\ item.start + (p - item.start + 1) - 1 = p
      BY <2>5, <2>6, <2>8
    <3> QED
      BY <2>4, <2>5, <2>8, <3>1
  <2> QED
    BY <2>7, <2>8
<1> QED
  BY <1>1, <1>2, ContextInvNext, CoreInvariant, PTL DEF Spec
=============================================================================
