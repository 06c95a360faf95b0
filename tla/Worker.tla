-------------------------------- MODULE Worker --------------------------------
(***************************************************************************)
(* The Worker process of one rank (minivllm/worker/worker.py) with the     *)
(* flattening of a batch (worker/batch.py) and the KV storage of its       *)
(* runtime (worker/operator_runtime.py).                                   *)
(*                                                                         *)
(* A token's K/V vectors are abstracted to the token they come from: the   *)
(* id and the submission of a request and a position.  Numeric values and  *)
(* the choice between eager and graph execution are abstracted away.       *)
(***************************************************************************)
EXTENDS Paging

CONSTANT
    Faults    \* what may go wrong: a subset of {"init", "batch"}

ASSUME KnownFaults == Faults \subseteq {"init", "batch"}

VARIABLES
    workq,    \* worker_queues[0]: WorkerCommands, core to Worker
    resq,     \* worker_result_queue: WorkerResults, Worker to core
    wstate,   \* "init", "ready", "exited" or "terminated"
    kv        \* physical slot -> the token whose K/V it holds

workerVars == <<workq, resq, wstate, kv>>

Empty == <<>>

Token(item, position) == <<item.id, item.sub, position>>

TokenKinds == {"eos", "stop", "plain"}

ShutdownCommand == [shutdown |-> TRUE, batchId |-> 0, items |-> <<>>]

BatchCommand(id, items) == [shutdown |-> FALSE, batchId |-> id, items |-> items]

\* WorkerResult; batch id -1 reports that the Worker could not be set up.
Result(id, err, sampled) == [batchId |-> id, error |-> err, sampled |-> sampled]

NoSamples == [r \in {} |-> "plain"]

InitFailure == Result(-1, TRUE, NoSamples)

NoResult == Result(0, FALSE, NoSamples)

WorkerInit ==
    /\ workq = <<>> /\ resq = <<>>
    /\ wstate = "init"
    /\ kv = [s \in Slots |-> Empty]

-----------------------------------------------------------------------------
(* One batch. *)

\* The checks of GPUInputBatch.from_worker_batch on one WorkerItem.
ValidItem(item) ==
    /\ item.slots # <<>>
    /\ item.start >= 0
    /\ item.seqLen = item.start + Len(item.slots)
    /\ Len(item.table) >= CeilDiv(item.seqLen, BlockSize)

ValidBatch(items) == items # <<>> /\ \A i \in DOMAIN items : ValidItem(items[i])

\* append_kv over the first n items of the batch, in order: a later write to a
\* slot wins.
Writers(items, n, slot) ==
    {w \in (1 .. n) \X (1 .. (NumBlocks * BlockSize)) :
        w[2] <= Len(items[w[1]].slots) /\ items[w[1]].slots[w[2]] = slot}

Written(items, n) ==
    [slot \in Slots |->
        LET w == Writers(items, n, slot)
        IN  IF w = {} THEN kv[slot]
            ELSE LET last == CHOOSE x \in w : \A y \in w :
                                 y[1] < x[1] \/ (y[1] = x[1] /\ y[2] <= x[2])
                     item == items[last[1]]
                 IN  Token(item, item.start + last[2] - 1)]

\* BootstrapModelRunner._sample: only requests with a sample index get a token.
SampledIds(items) == {items[i].id : i \in {j \in DOMAIN items : items[j].sample}}

-----------------------------------------------------------------------------
(* The process. *)

WorkerReady ==
    /\ wstate = "init"
    /\ wstate' = "ready"
    /\ UNCHANGED <<workq, resq, kv>>

\* The model runner cannot be built: report batch -1 and return.
WorkerInitFails ==
    /\ "init" \in Faults
    /\ wstate = "init"
    /\ wstate' = "exited"
    /\ resq' = Append(resq, InitFailure)
    /\ UNCHANGED <<workq, kv>>

\* Flatten, append the K/V of every scheduled token, attend, sample.
WorkerExecute ==
    LET cmd == Head(workq)
    IN  /\ wstate = "ready" /\ workq # <<>>
        /\ ~cmd.shutdown
        /\ ValidBatch(cmd.items)
        /\ workq' = Tail(workq)
        /\ kv' = Written(cmd.items, Len(cmd.items))
        /\ \E sampled \in [SampledIds(cmd.items) -> TokenKinds] :
              resq' = Append(resq, Result(cmd.batchId, FALSE, sampled))
        /\ UNCHANGED wstate

\* An exception anywhere in the batch: before, between or after the K/V writes
\* of its items.  An invalid batch fails before the first one.
WorkerBatchFails ==
    LET cmd == Head(workq)
    IN  /\ wstate = "ready" /\ workq # <<>>
        /\ ~cmd.shutdown
        /\ "batch" \in Faults \/ ~ValidBatch(cmd.items)
        /\ workq' = Tail(workq)
        /\ \E n \in 0 .. (IF ValidBatch(cmd.items) THEN Len(cmd.items) ELSE 0) :
              kv' = Written(cmd.items, n)
        /\ resq' = Append(resq, Result(cmd.batchId, TRUE, NoSamples))
        /\ UNCHANGED wstate

WorkerShutdown ==
    /\ wstate = "ready" /\ workq # <<>>
    /\ Head(workq).shutdown
    /\ workq' = Tail(workq)
    /\ wstate' = "exited"
    /\ UNCHANGED <<resq, kv>>
=============================================================================
