------------------------------ MODULE ModelRunner ------------------------------
(***************************************************************************)
(* LlamaModelRunner (model_executor/llama.py) under CUDAGraphManager       *)
(* (worker/cudagraph.py): batches are flattened, sent to a captured graph  *)
(* or to eager execution, write the K/V of their rows and are sampled.     *)
(*                                                                         *)
(* The engine is the environment: it builds any batch that EngineCore.tla  *)
(* may send (ValidItem, disjoint tables, tables as long as needed), and    *)
(* may end a request between two batches.                                  *)
(*                                                                         *)
(* A row's K/V is abstracted to what determines it, the input token and    *)
(* the position it was rotated for; a row's logits to the K/V it attended  *)
(* to.  An input token is <<request, index in the request>>.               *)
(***************************************************************************)
EXTENDS InputBatch, Queues, FiniteSets

CONSTANTS
    Ids,           \* request ids
    MaxPrompt,     \* bound: longest prompt
    MaxNumSeqs,    \* EngineConfig.max_num_seqs
    CaptureSizes,  \* EngineConfig.cudagraph_capture_sizes
    GraphSafe      \* supports_cudagraph: a CUDA device and the custom backend

\* EngineConfig.__post_init__: sizes are positive, sorted and distinct.
ASSUME RunnerConfig ==
    /\ MaxModelLen \in Nat \ {0} /\ MaxNumSeqs \in Nat \ {0}
    /\ MaxPrompt \in 1 .. (MaxModelLen - 1)
    /\ CaptureSizes \in Seq(Nat \ {0})
    /\ \A i, j \in DOMAIN CaptureSizes : i < j => CaptureSizes[i] < CaptureSizes[j]
    /\ GraphSafe \in BOOLEAN

VARIABLES
    reqs,    \* id -> the engine's view of the request
    items,   \* the WorkerBatch being built and executed
    kv,      \* slot -> the K/V it holds; behind the cache come scratch slots
    graphs,  \* capture size -> its LlamaCUDAGraphState
    last     \* how the last batch ended: its mode and the logits it sampled

vars == <<reqs, items, kv, graphs, last>>

PhysicalSlots == NumBlocks * BlockSize

Unset == <<>>

NewRequest == [state |-> "new", prompt |-> 0, computed |-> 0, gen |-> 0, table |-> <<>>]

KV(token, position) == <<token, position>>

\* Mutant: no room behind the cache.
NoScratch == 0 .. (PhysicalSlots - 1)

\* One scratch slot for every row a graph may have.
CacheSlots == 0 .. (PhysicalSlots + MaxNumSeqs - 1)

NoLogits == [r \in {} |-> Unset]

Init ==
    /\ reqs = [r \in Ids |-> NewRequest]
    /\ items = <<>>
    /\ kv = [s \in CacheSlots |-> Unset]
    /\ graphs = [n \in {} |-> Unset]
    /\ last = [mode |-> "none", logits |-> NoLogits]

-----------------------------------------------------------------------------
(* The engine. *)

Running == {r \in Ids : reqs[r].state = "running"}

FreeBlocks == Blocks \ UNION {Range(reqs[r].table) : r \in Running}

AllTokens(r) == reqs[r].prompt + reqs[r].gen

Start(r) ==
    /\ reqs[r].state = "new"
    /\ items = <<>>
    /\ \E n \in 1 .. MaxPrompt :
          reqs' = [reqs EXCEPT ![r].state = "running", ![r].prompt = n]
    /\ UNCHANGED <<items, kv, graphs, last>>

\* An abort.
End(r) ==
    /\ reqs[r].state = "running"
    /\ items = <<>>
    /\ reqs' = [reqs EXCEPT ![r] = [NewRequest EXCEPT !.state = "ended"]]
    /\ UNCHANGED <<items, kv, graphs, last>>

\* The next n tokens of r, in blocks that were free.
ScheduleItem(r, n) ==
    LET q    == reqs[r]
        need == CeilDiv(q.computed + n, BlockSize) - Len(q.table)
    IN  /\ r \in Running
        /\ Len(items) < MaxNumSeqs
        /\ \A i \in DOMAIN items : items[i].id # r
        /\ n \in 1 .. (AllTokens(r) - q.computed)
        /\ \E new \in [1 .. need -> FreeBlocks] :
              LET table == q.table \o new
              IN  /\ IsInjective(new)
                  /\ reqs' = [reqs EXCEPT ![r].table = table]
                  /\ items' = Append(items,
                       [id     |-> r,
                        tokens |-> [i \in 1 .. n |-> <<r, q.computed + i - 1>>],
                        start  |-> q.computed,
                        slots  |-> [i \in 1 .. n |-> Slot(table, q.computed + i - 1)],
                        table  |-> table,
                        seqLen |-> q.computed + n,
                        gen    |-> q.gen,
                        sample |-> q.computed + n = AllTokens(r)])
        /\ UNCHANGED <<kv, graphs, last>>

ItemOf(r) == items[CHOOSE i \in DOMAIN items : items[i].id = r]

InBatch == {items[i].id : i \in DOMAIN items}

\* The engine applies the result: one more token for each sampled request,
\* which ends it when its context is full.
Applied ==
    [r \in Ids |->
        IF r \notin InBatch THEN reqs[r]
        ELSE IF ItemOf(r).sample /\ AllTokens(r) + 1 >= MaxModelLen
        THEN [NewRequest EXCEPT !.state = "ended"]
        ELSE [reqs[r] EXCEPT !.computed = ItemOf(r).seqLen,
                             !.gen = IF ItemOf(r).sample THEN @ + 1 ELSE @]]

-----------------------------------------------------------------------------
(* CUDAGraphDispatcher and CUDAGraphManager *)

\* Mutant: all configured sizes.
UnfilteredSizes == CaptureSizes

\* worker_process_main keeps the sizes that max_num_seqs allows.
Sizes == Only(CaptureSizes, 1 .. MaxNumSeqs)

WantsGraph(b) ==
    /\ UniformDecode(b)
    /\ \E i \in DOMAIN Sizes : Sizes[i] >= NatMax(NumTokens(b), NumRequests(b))

\* The first size that is large enough.
CaptureSize(b) ==
    LET i == CHOOSE i \in DOMAIN Sizes :
                /\ Sizes[i] >= NatMax(NumTokens(b), NumRequests(b))
                /\ \A j \in 1 .. (i - 1) : Sizes[j] < NatMax(NumTokens(b), NumRequests(b))
    IN  Sizes[i]

-----------------------------------------------------------------------------
(* One forward pass, over the rows of m with their input tokens. *)

\* append_kv_: inactive rows write nothing.
Appended(m, inputIds) ==
    [s \in DOMAIN kv |->
        LET w == {i \in DOMAIN inputIds : m.active[i] /\ m.slots[i] = s}
        IN  IF w = {} THEN kv[s]
            ELSE LET i == CHOOSE i \in w : TRUE IN KV(inputIds[i], m.positions[i])]

\* The K/V that row i attends to in cache c.
Attended(c, slots) == [p \in DOMAIN slots |-> c[slots[p]]]

Logits(c, m) ==
    [i \in DOMAIN m.positions |->
        IF ~Computed(m, i) THEN Unset
        ELSE Attended(c, IF GraphSafe THEN CustomReads(m, i) ELSE TorchReads(m, i))]

\* _sample_logits: the row that each sampled request takes.
Sampled(b, logits) ==
    LET qs == {q \in DOMAIN b.ids : b.sampleRows[q] >= 0}
    IN  [r \in {b.ids[q] : q \in qs} |->
           logits[b.sampleRows[CHOOSE q \in qs : b.ids[q] = r] + 1]]

Finish(mode, b, logits) ==
    /\ last' = [mode |-> mode, logits |-> Sampled(b, logits)]
    /\ reqs' = Applied
    /\ items' = <<>>

-----------------------------------------------------------------------------
(* Eager execution: execute_model. *)

Eager ==
    LET b == Flatten(items)  m == Metadata(b)
    IN  /\ items # <<>>
        /\ ~(WantsGraph(b) /\ GraphSafe)
        /\ kv' = Appended(m, b.inputIds)
        /\ Finish("eager", b, Logits(kv', m))
        /\ UNCHANGED graphs

-----------------------------------------------------------------------------
(* Graph execution: execute_cudagraph. *)

\* _create_graph_state; slot_mapping is allocated without a value.
NewGraph(n) ==
    [captured |-> FALSE,
     inputIds |-> [i \in 1 .. n |-> Unset],
     m |-> [positions  |-> [i \in 1 .. n |-> 0],
            slots      |-> [i \in 1 .. n |-> -1],
            queryStart |-> [i \in 1 .. (n + 1) |-> i - 1],
            seqLens    |-> [i \in 1 .. n |-> 1],
            tables     |-> [i \in 1 .. n |-> [j \in 1 .. MaxBlocks |-> 0]],
            requestOf  |-> [i \in 1 .. n |-> i],
            isDecode   |-> [i \in 1 .. n |-> TRUE],
            active     |-> [i \in 1 .. n |-> FALSE]]]

GraphState(n) == IF n \in DOMAIN graphs THEN graphs[n] ELSE NewGraph(n)

\* The first rows of a static tensor are overwritten, the others reset.
Overwrite(tensor, rows, reset) ==
    [i \in DOMAIN tensor |-> IF i <= Len(rows) THEN rows[i] ELSE reset]

\* Mutant: writes the slots of the batch that captured the graph again.
StaleSlots(slots, b) ==
    [i \in DOMAIN slots |-> IF slots[i] >= 0 THEN slots[i]
                           ELSE IF i <= NumRequests(b) THEN b.slots[i] ELSE PhysicalSlots + i - 1]

\* Mutant: scratch slots are counted from the start of the cache.
CacheSlot(i) == i - 1

\* The slot of padding row i.
ScratchSlot(i) == PhysicalSlots + i - 1

CopiedSlots(slots, b) ==
    [i \in DOMAIN slots |-> IF i <= NumRequests(b) THEN b.slots[i] ELSE ScratchSlot(i)]

\* Mutant: keeps the block tables of the batch before.
StaleTables(tables, b) ==
    [i \in DOMAIN tables |-> [j \in 1 .. MaxBlocks |->
        IF i <= NumRequests(b) /\ j <= Len(b.tables[1]) /\ tables[i][j] = 0
        THEN b.tables[i][j] ELSE tables[i][j]]]

CopiedTables(tables, b) ==
    [i \in DOMAIN tables |-> [j \in 1 .. MaxBlocks |->
        IF i <= NumRequests(b) /\ j <= Len(b.tables[1]) THEN b.tables[i][j] ELSE 0]]

\* _copy_decode_batch: all buffers of the graph, whatever the last batch left.
Copied(g, b) ==
    [g EXCEPT !.inputIds    = Overwrite(@, b.inputIds, Unset),
              !.m.positions = Overwrite(@, b.positions, 0),
              !.m.slots     = CopiedSlots(@, b),
              !.m.seqLens   = Overwrite(@, b.seqLens, 1),
              !.m.tables    = CopiedTables(@, b),
              !.m.active    = [i \in DOMAIN @ |-> i <= NumRequests(b)]]

\* The checks of _create_graph_state, _copy_decode_batch and from_batch.
Refused(b) ==
    \/ Len(b.tables[1]) > MaxBlocks
    \/ GraphSafe /\ WantsGraph(b)
         /\ \/ CaptureSize(b) > MaxNumSeqs
            \/ ~UniformDecode(b)
            \/ NumRequests(b) > CaptureSize(b)

GraphBatch(b) == items # <<>> /\ WantsGraph(b) /\ GraphSafe /\ ~Refused(b)

SetGraph(n, g) == graphs' = [k \in DOMAIN graphs \cup {n} |-> IF k = n THEN g ELSE graphs[k]]

\* The first batch of a size.  The warm-up runs on this batch's buffers and
\* writes its K/V; the capture that follows only records: the logits it returns
\* are memory that nothing has computed yet, and they are sampled.
Capture ==
    LET b == Flatten(items)  n == CaptureSize(b)  g == Copied(GraphState(n), b)
    IN  /\ GraphBatch(b)
        /\ ~g.captured
        /\ kv' = Appended(g.m, g.inputIds)
        /\ SetGraph(n, [g EXCEPT !.captured = TRUE])
        /\ Finish("capture", b, [i \in 1 .. n |-> Unset])

Replay ==
    LET b == Flatten(items)  n == CaptureSize(b)  g == Copied(GraphState(n), b)
    IN  /\ GraphBatch(b)
        /\ g.captured
        /\ kv' = Appended(g.m, g.inputIds)
        /\ SetGraph(n, g)
        /\ Finish("replay", b, Logits(kv', g.m))

\* Copy number j of _copy_decode_batch, if it is among the k that were made.
Made(k, j, rows) == IF j <= k THEN rows ELSE <<>>

\* _copy_decode_batch raised behind the resets and the first k copies, each of
\* which allocates a tensor on the device: the padding rows keep their old slots.
HalfCopied(g, b, k) ==
    [g EXCEPT !.inputIds    = Overwrite(@, Made(k, 1, b.inputIds), Unset),
              !.m.positions = Overwrite(@, Made(k, 2, b.positions), 0),
              !.m.slots     = [i \in DOMAIN @ |->
                                 IF 3 <= k /\ i <= NumRequests(b) THEN b.slots[i] ELSE @[i]],
              !.m.seqLens   = Overwrite(@, Made(k, 4, b.seqLens), 1),
              !.m.tables    = IF 5 <= k THEN CopiedTables(@, b)
                              ELSE [i \in DOMAIN @ |-> [j \in 1 .. MaxBlocks |-> 0]],
              !.m.active    = [i \in DOMAIN @ |-> 6 <= k /\ i <= NumRequests(b)]]

\* Graph execution raises: before there is a state, in the copy, in the forward
\* pass or the capture (before or after its writes), or when the logits of a
\* finished one are sampled.  What it did to the state of the graph stays.
GraphRaises(b) ==
    LET n == CaptureSize(b)  g == Copied(GraphState(n), b)
    IN  \/ UNCHANGED <<graphs, kv>>
        \/ \E k \in 0 .. 6 : SetGraph(n, HalfCopied(GraphState(n), b, k)) /\ UNCHANGED kv
        \/ SetGraph(n, g) /\ kv' \in {kv, Appended(g.m, g.inputIds)}
        \/ SetGraph(n, [g EXCEPT !.captured = TRUE]) /\ kv' = Appended(g.m, g.inputIds)

EagerRaises(b) == UNCHANGED graphs /\ kv' \in {kv, Appended(Metadata(b), b.inputIds)}

\* A batch fails.  The Worker reports the error and the engine ends the batch's
\* requests.
Raise ==
    LET b == Flatten(items)
    IN  /\ items # <<>>
        /\ IF GraphBatch(b) THEN GraphRaises(b) ELSE EagerRaises(b)
        /\ last' = [mode |-> "error", logits |-> NoLogits]
        /\ reqs' = [r \in Ids |-> IF r \in InBatch
                                  THEN [NewRequest EXCEPT !.state = "ended"] ELSE reqs[r]]
        /\ items' = <<>>

Next ==
    \/ \E r \in Ids : \/ Start(r) \/ End(r)
                      \/ \E n \in 1 .. MaxModelLen : ScheduleItem(r, n)
    \/ Eager \/ Capture \/ Replay \/ Raise

Spec == Init /\ [][Next]_vars

-----------------------------------------------------------------------------
(* Properties. *)

OwnKV(r, p) == KV(<<r, p>>, p)

OwnContext(r, n) == [p \in 1 .. n |-> OwnKV(r, p - 1)]

\* Every variable keeps its type, and a captured graph has buffers of its size.
RunnerTypeOK ==
    /\ \A r \in Ids : /\ reqs[r].state \in {"new", "running", "ended"}
                       /\ reqs[r].table \in Seq(Blocks)
                       /\ reqs[r].computed \in 0 .. MaxModelLen
    /\ Len(items) <= MaxNumSeqs
    /\ DOMAIN kv = 0 .. (PhysicalSlots + MaxNumSeqs - 1)
    /\ DOMAIN graphs \subseteq Range(Sizes)
    /\ \A n \in DOMAIN graphs : /\ graphs[n].captured \in BOOLEAN
                                /\ DOMAIN graphs[n].inputIds = 1 .. n
    /\ last.mode \in {"none", "eager", "capture", "replay", "error"}

\* The flat arrays of a batch say of every row what its item says: the slices
\* that query_start_loc and context_start_loc cut out are the item's tokens,
\* positions, slots and context, and the sample index is the item's last row.
FlatArraysMatchItems ==
    LET b == Flatten(items)
    IN  \A q \in DOMAIN items :
          LET item == items[q]
              rows == (b.queryStart[q] + 1) .. b.queryStart[q + 1]
          IN  /\ b.ids[q] = item.id
              /\ Cardinality(rows) = Len(item.tokens)
              /\ \A i \in rows :
                    /\ b.inputIds[i] = <<item.id, b.positions[i]>>
                    /\ b.slots[i] = Slot(item.table, b.positions[i])
              /\ ReferenceReads(b, q) = ContextSlots(item.table, item.seqLen)
              /\ item.sample =>
                    /\ b.sampleRows[q] + 1 \in rows
                    /\ b.positions[b.sampleRows[q] + 1] = item.seqLen - 1

\* The Torch reference and the custom kernels agree on every row of every batch,
\* mixed or not: each row is computed, and reads exactly the slots of its own
\* request up to its own position, never through the -1 that pads a table.
BackendsReadTheSameContext ==
    LET b == Flatten(items)  m == Metadata(b)
    IN  items # <<>> =>
          \A i \in DOMAIN b.inputIds :
             LET own == ContextSlots(ItemOf(b.inputIds[i][1]).table, b.positions[i] + 1)
             IN  /\ Computed(m, i)
                 /\ TorchReads(m, i) = own
                 /\ CustomReads(m, i) = own

\* The cache of a running request is never disturbed: each of its computed
\* positions still holds its own K/V, whatever other requests, padding rows of
\* a graph, buffers left by an earlier batch, captures and failed batches wrote.
CacheKeepsComputedTokens ==
    \A r \in Running : \A p \in 0 .. (reqs[r].computed - 1) :
        kv[Slot(reqs[r].table, p)] = OwnKV(r, p)

\* The padding rows of a graph that is run never touch a live block, whatever
\* batch filled its buffers before, or failed while it did: they are masked, and
\* their slots are distinct scratch slots inside the cache tensor.
PaddingStaysInScratch ==
    LET b == Flatten(items)  n == CaptureSize(b)  m == Copied(GraphState(n), b).m
    IN  GraphBatch(b) =>
          \A i \in 1 .. n : ~m.active[i] =>
              /\ m.slots[i] >= PhysicalSlots /\ m.slots[i] \in DOMAIN kv
              /\ \A j \in 1 .. n : m.slots[j] = m.slots[i] => j = i

\* The tokens a batch samples were computed by this batch: the sampled row
\* attended to the whole context of its own request and nothing else.
SampledFromOwnContext ==
    \A r \in DOMAIN last.logits :
        \E n \in 1 .. MaxModelLen :
            /\ last.logits[r] = OwnContext(r, n)
            /\ reqs[r].state = "running" => n >= reqs[r].computed

\* The same, except for the batch that captures a graph.
ReplaySampledFromOwnContext == last.mode # "capture" => SampledFromOwnContext

\* No check of the runner ever refuses a batch of the engine: the dispatcher
\* sends it only to graphs that max_num_seqs allows and that are large enough,
\* and no block table is wider than the metadata.
RunnerNeverRefuses == items # <<>> => ~Refused(Flatten(items))
=============================================================================
