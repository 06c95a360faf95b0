------------------------------ MODULE InputBatch ------------------------------
(***************************************************************************)
(* How a Worker turns the items of a batch into flat arrays                *)
(* (GPUInputBatch.from_worker_batch, worker/batch.py), those into the      *)
(* metadata of an attention call (AttentionMetadata.from_batch,            *)
(* model_executor/attention.py), and which K/V slots each attention        *)
(* backend then reads for a row.                                           *)
(*                                                                         *)
(* Values that the code indexes from 0 (rows, positions, offsets) are kept *)
(* as they are; the sequences that hold them start at 1.                   *)
(***************************************************************************)
EXTENDS Paging, SequencesExt

CONSTANT
    MaxModelLen   \* EngineConfig.max_model_len

\* LlamaModelRunner.max_blocks, the width of the metadata's block tables.
MaxBlocks == CeilDiv(MaxModelLen, BlockSize)

-----------------------------------------------------------------------------
(* GPUInputBatch *)

EmptyBatch ==
    [ids |-> <<>>, inputIds |-> <<>>, positions |-> <<>>, slots |-> <<>>,
     queryStart |-> <<0>>, seqLens |-> <<>>, tables |-> <<>>,
     context |-> <<>>, contextStart |-> <<0>>, isDecode |-> <<>>, sampleRows |-> <<>>]

\* The slots of positions 0 .. n - 1 through a block table.
ContextSlots(table, n) == [p \in 1 .. n |-> Slot(table, p - 1)]

\* Mutant: the row after the item's last one.
RowAfter(rows) == Len(rows)

\* The item's last row, where its logits are sampled.
LastRow(rows) == Len(rows) - 1

IsDecode(item) == Len(item.tokens) = 1 /\ item.gen > 0

\* One round of the loop over worker_batch.items.
AppendItem(b, item) ==
    LET rows    == b.inputIds \o item.tokens
        context == b.context \o ContextSlots(item.table, item.seqLen)
    IN  [ids          |-> Append(b.ids, item.id),
         inputIds     |-> rows,
         positions    |-> b.positions \o [i \in 1 .. (item.seqLen - item.start) |-> item.start + i - 1],
         slots        |-> b.slots \o item.slots,
         queryStart   |-> Append(b.queryStart, Len(rows)),
         seqLens      |-> Append(b.seqLens, item.seqLen),
         tables       |-> Append(b.tables, SubSeq(item.table, 1, CeilDiv(item.seqLen, BlockSize))),
         context      |-> context,
         contextStart |-> Append(b.contextStart, Len(context)),
         isDecode     |-> Append(b.isDecode, IsDecode(item)),
         sampleRows   |-> Append(b.sampleRows, IF item.sample THEN LastRow(rows) ELSE -1)]

PadTo(table, width) == table \o [i \in 1 .. (width - Len(table)) |-> -1]

Width(tables) == CHOOSE w \in {Len(tables[i]) : i \in DOMAIN tables} :
                    \A i \in DOMAIN tables : Len(tables[i]) <= w

Flatten(items) ==
    LET b == FoldLeft(AppendItem, EmptyBatch, items)
    IN  [b EXCEPT !.tables = [i \in DOMAIN @ |-> PadTo(@[i], Width(b.tables))]]

NumRequests(b) == Len(b.ids)

NumTokens(b) == Len(b.inputIds)

RowsOf(b, q) == b.queryStart[q + 1] - b.queryStart[q]

\* BatchDescriptor.uniform_decode
UniformDecode(b) == \A q \in DOMAIN b.isDecode : b.isDecode[q]

-----------------------------------------------------------------------------
(* AttentionMetadata *)

\* Mutant: one row per request, as in a decode batch.
OneRowEach(b) == [i \in DOMAIN b.inputIds |-> NatMin(i, NumRequests(b))]

\* Rows belong to requests in order, as many to each as query_start_loc says.
RequestIndices(b) == FlattenSeq([q \in DOMAIN b.ids |-> [i \in 1 .. RowsOf(b, q) |-> q]])

\* from_batch, for a table no wider than MaxBlocks.
Metadata(b) ==
    [positions  |-> b.positions,
     slots      |-> b.slots,
     queryStart |-> b.queryStart,
     seqLens    |-> b.seqLens,
     tables     |-> [q \in DOMAIN b.tables |-> PadTo(b.tables[q], MaxBlocks)],
     requestOf  |-> RequestIndices(b),
     isDecode   |-> b.isDecode,
     active     |-> [i \in 1 .. NumTokens(b) |-> TRUE]]

\* The slots that row i reads under TorchAttentionBackend: its request is found
\* by query_start_loc, the whole context is gathered, the causal mask cuts it.
TorchReads(m, i) ==
    LET q == CHOOSE q \in DOMAIN m.seqLens : m.queryStart[q] < i /\ i <= m.queryStart[q + 1]
    IN  ContextSlots(m.tables[q], NatMin(m.seqLens[q], m.positions[i] + 1))

\* flash_prefill_kernel and paged_decode_kernel: a decode row reads seq_lens of
\* its request, any other row as far as its own position.
CustomReads(m, i) ==
    LET q == m.requestOf[i]
    IN  ContextSlots(m.tables[q], IF m.isDecode[q] THEN m.seqLens[q] ELSE m.positions[i] + 1)

\* Is row i computed at all?  The decode kernel takes one row per request.
Computed(m, i) ==
    LET q == m.requestOf[i] IN m.active[i] /\ (m.isDecode[q] => i = m.queryStart[q] + 1)

\* ReferenceKernelRuntime.attention_batch: one query per request, over a slice.
ReferenceReads(b, q) == SubSeq(b.context, b.contextStart[q] + 1, b.contextStart[q + 1])
=============================================================================
