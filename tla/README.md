# A TLA+ verification of miniVLLM

miniVLLM serves completions from a Llama model with continuous batching and a
paged KV cache, in the style of vLLM v1. This directory holds TLA+ models of its
engine, TLC configurations that check them on small instances, and TLAPS proofs.

## 1. The system

```
 API threads -- AsyncLLMEngine / LLMEngine -- EngineCoreClient      API process
                                   | command queue    ^ output queue
                  (DP > 1)   DPCoordinator                          process
                                   |                  |
                 EngineCore: Scheduler + KVCacheManager             process per rank
                                   | WorkerCommand    ^ WorkerResult
                 Worker: GPUInputBatch, ModelRunner, KV storage     process per rank
```

All components talk over multiprocessing queues; no memory is shared between
processes. The core is single-threaded and waits for the result of each batch
before it reads another command.

| component | state | operations | what makes it correct | status |
|---|---|---|---|---|
| BlockPool, KVCacheManager (`cache.py`) | free list, used set, block tables | create, reserve, release, slots | blocks are conserved and exclusive; a call that raises changes nothing | modelled, proved |
| Scheduler (`scheduler.py`) | waiting, running, per-request counters | add, admit, schedule, append token, finish, abort | no batch without blocks, no request stuck, limits respected | modelled, proved |
| EngineCore (`engine/core.py`) | queues, batch id, shutdown flag | event loop, error and exit paths | each submission gets exactly one final output; shutdown ends | modelled, safety proved |
| Worker (`worker/worker.py`, `model_runner.py`) | KV storage | start, execute, fail, shut down | attention reads the request's own tokens | modelled, proved |
| GPUInputBatch (`worker/batch.py`) | none | flatten a batch | flat arrays mean what the items mean | modelled, proved |
| LlamaModelRunner, CUDA Graphs (`llama.py`, `cudagraph.py`, `attention.py`) | K/V cache, a graph with static buffers per capture size | dispatch, eager, capture, replay, sample | a batch computes on its own context, whatever ran before | control and K/V modelled and proved, arithmetic not |
| EngineCoreClient (`engine/client.py`) | streams by id, batch counters, closed flag | submit, route, abort, close | no output is misrouted or lost | modelled, safety proved |
| facades (`async_engine.py`, `llm_engine.py`), handlers of the API server | one generator per request | generate, early exit | no request runs on without a reader | modelled, safety proved (HTTP itself is not modelled) |
| DPCoordinator (`dp_coordinator.py`) | id -> rank, loads | add, abort, forward, shut down | loads count open requests; aborts find their rank | modelled, safety proved |
| C++ KV manager (`kernels/paged_kv_cache/*.cpp`) | free list, tables | allocate, reserve, free | as KVCacheManager | not modelled |
| model layers, attention and GEMM kernels, benchmarks | tensors | arithmetic | numeric | not modelled |

What is hard here: three processes and client threads whose commands arrive
between any two rounds of the core; admission that checks capacity without
reserving it; blocks that change owner while their old contents are still in
the cache; batches that fail after some of their K/V was written; a Worker that
fails to start and is noticed rounds later; timeouts during shutdown, nested
three deep; readers that leave at any moment, and ids that are used again while
outputs of their first use are on the way; static graph buffers that still hold
the batch before; ranks that die or hang behind a coordinator that does not
notice; and limits that must agree, to the token, between `add_request`,
`append_token`, the block pool and the buffers of the native runtime. `PROJECT.json` lists these hazards
at their lines, with the property that covers each or the reason none does yet.

## 2. The modules

| module | models |
|---|---|
| `Paging` | cache geometry and the slot arithmetic that `cache.py` and `worker/batch.py` share |
| `KVCache` | `BlockPool` and `KVCacheManager`: state, operations, properties |
| `CacheCaller` | the cache with an arbitrary caller, and the refinement mapping |
| `BlockOwnership` | abstract: what the cache promises, without lists or tables |
| `Queues` | what one observer sees of a list that it shares with others |
| `Scheduler` | the scheduler's methods, on top of `KVCache` |
| `Worker` | the Worker process, its queues and its KV storage |
| `EngineCore` | the core's loop composed with scheduler, Worker and clients; the engine's properties |
| `RequestService` | abstract: what an engine promises its client |
| `Client` | `EngineCoreClient` and the generators, composed with `RequestService` |
| `DPCoordinator` | the coordinator over ranks that behave like `RequestService` |
| `InputBatch` | `GPUInputBatch`, `AttentionMetadata`, and the slots each attention backend reads |
| `ModelRunner` | `LlamaModelRunner` under `CUDAGraphManager`: eager, capture, replay |
| `MCKVCache`, `MCEngine`, `MCClient`, `MCDPCoordinator`, `MCModelRunner` | small instances for TLC |
| `Basics_proofs` | lemmas: sums, folds and filters of lists of any length, slot arithmetic |
| `KVCache_proofs` | lemmas: what each operation of the cache preserves |
| `CacheCaller_proofs` | the cache under any caller, and that it implements `BlockOwnership` |
| `EngineCore_proofs` | the engine's bookkeeping: types, blocks, work, no exceptions; what attention reads |
| `EngineOutputs_proofs` | one place and one final output for each submission; the limits; that the core implements `RequestService` |
| `DPCoordinator_proofs` | the coordinator's two tables; that it implements `RequestService` |
| `Client_proofs` | streams, batch counters, routing, requests without a reader |
| `ModelRunner_proofs` | flat arrays, backends, padding, and the K/V under eager runs, captures and replays |

How they fit together. `KVCache` implements `BlockOwnership`. `EngineCore` is
`Scheduler` (on `KVCache`) plus `Worker` plus the loop, and implements
`RequestService`; so do `DPCoordinator` and its ranks together. `Client` extends
`RequestService` and so holds over either. `ModelRunner` looks inside the
Worker's batch step, which `Worker` treats as a map from slots to tokens; its
environment builds the batches that `BatchesFitTheWorker`, `BlocksFollowRequests`
and `SlotsDisjoint` say the core can build.

**State of the core.** `free`, `used`, `tables` are `_free`, `_used` and the block lists of
`KVCacheManager.tables`; the END of `free` is the next block to pop, as in
Python. `exc` is how the last cache call ended, `"none"` or the exception.
`waiting` and `running` are sequences of ids in the order of the deque and the
OrderedDict; `req` has the fields of `RequestState` that change. `attempts`,
`budget`, `cursor` and `batch` are local variables of the scheduler's loops,
because each loop iteration is one step. `workq`, `resq` and `cmdq` are the
three queues; `pc` is where the core is in `run()`. `kv` maps each physical slot
to the token whose K/V it holds: the id and submission of a request and a
position. `log` records the outputs per submission.

**State of the service and the client.** `RequestService` keeps per id the
commands under way (`cmds`), the live submission (`live`) and, per submission,
which outputs were final (`outs`). In `Client`, `caller` is where each call of
`generate` is, `streams` is `_streams`, `stream` and `taken` are what was put on
a private queue and what was read of it, `outq` is `output_queue`, `seen` and
`total` are `_seen_batches` and `_total_batches`. A batch is a pair of its rank and
its number there (`batches` counts them per rank), as is the key in the code; an
output carries the metrics of the last batch of some rank, an error none. `submit` is
three steps, since `close` or another `submit` may come between its check, its
registration and its put. Any thread may close; `CloseEnd` is the join that ends in time or in
`terminate`, and after it the queues refuse a `put`.

**State of the coordinator.** `cmdq`, `rankq`, `routq` are its queues,
`request_ranks` and `rank_load` its tables; `pc` and `turn` are where `run()` is:
draining the parent's queue, draining the outputs of rank `turn`, putting SHUTDOWN for rank `turn` (`StopRank`), joining,
done, or killed. `TerminateCoordinator` is the `terminate` in the client's `close`:
it may come anywhere after the SHUTDOWN was sent, also between the SHUTDOWNs for two
ranks, and the `finally` of `run()` does not run then.
`rankOf` and `forwarded` record what was sent where and what was passed on, for
the properties only. A rank accepts or rejects, progresses and answers as
`RequestService` says; it may fail (answer all, then end) or hang, as a core
does whose Worker was killed.

**State of the model runner.** `kv` is the cache tensor with its scratch slots:
what a slot holds is the input token and the position it was rotated for, which
determine the K/V. `graphs` maps a capture size to its static buffers and whether
its graph exists. The logits of a row are abstracted to the K/V it attended to,
so a wrong slot, length, table or order shows; logits that nothing computed are
`Unset`. Warm-up (three identical runs) writes the same K/V as one run. A batch may
raise anywhere (`Raise`), and what it did stays: in the copy, behind the resets and
any number of the tensors copied (`HalfCopied`), in the forward pass or the capture,
before or after their writes, and when the logits of a finished capture are sampled,
so that the next batch replays that graph.

**What is abstracted.** Tokens are positions: the model never needs their values
except for how a sampled token ends its request, which the Worker chooses among
`eos`, `stop` and `plain`. (`stop` is decided by the core from the decoded text;
which texts occur depends on the model, so any choice may occur.) Text, latency
metrics, temperatures and numeric results are left out. A queue element appears
when the receiver can see it; a `put` still in a feeder thread's buffer is a
`put` not yet made. `SendAdd` may send an id that is still alive: the client
refuses that while the id's stream is registered, but the core does not rely on
it, and the core is checked without relying on it either. When a batch fails,
the K/V of any prefix of its items may have been written.

**One rank.** `DPCoordinator` gives each core a configuration with
`data_parallel_size = 1` and `_admit_waiting` sets `rank = 0`, so a core has one
Worker, and ranks share nothing.

**Exceptions.** Where a cache call raises, the action ends there and `pc` goes
to `"except"`, with the partial effects the code has had by then (for instance a
popped waiting request). `BookkeepingNeverRaises` shows that this does not
happen; the paths are there so that it can fail.

## 3. What is checked

| run | instance | shows |
|---|---|---|
| `kvcache` | 3 ids, 4 blocks of 2, targets 0..9 | every order of calls, errors included: conservation, disjoint slots, failed calls change nothing, refinement of `BlockOwnership` |
| `engine_contention` | 3 requests (prompts 3, 1, 4), 3 blocks of 2, budget 3, context 5, one abort, shutdown, both Worker faults | the first group of properties below, bar `ExceptionAnswersAll` and liveness |
| `engine_resubmit` | 2 ids submitted twice each, one abort, failing batches | reuse of an id never mixes two submissions; refinement of `RequestService` |
| `engine_liveness` | 3 requests, at most 2 running, 3 blocks, failing batches | every submission is answered, also one that did not fit and was overtaken |
| `engine_shutdown` | 3 requests, one rejected, one running at a time, both faults, abort, a client that may terminate the core | shutdown always completes, and leaves a Worker behind only in the one case it states; a core that dies answers the running and the waiting requests; refinement of `RequestService` |
| `engine_stall` | 2 requests of 1 + 3 tokens, 4 blocks of 1 | expected violation, see below |
| `model_runner` | 3 requests, 3 blocks of 2, context 4, at most 3 per batch, graphs for 2 rows (4 is configured and filtered out) | flat arrays, both backends, padding rows, stale buffers |
| `model_runner_capture` | the same | expected violation, see below |
| `client` | 2 ids: one whose reader may quit, one used twice whose prompt may be refused; 2 ranks with a batch each, engine failure, close | routing, early exit, release of streams, metrics |
| `client_liveness` | 2 ids, used once, early exit, one abort | every reader ends |
| `client_reuse` | 1 id, used twice, early exit | expected violation, see below |
| `dp` | 2 ids, 2 ranks, one of which may die or hang, one abort, shutdown, a client that may terminate the coordinator | loads, aborts, liveness of the other rank, which ranks a shutdown ends, refinement of `RequestService` |

The properties, in the words of the code:

- `BookkeepingNeverRaises`: `schedule()` looks at the pool as it is, not as it
  was at admission; no id gets two tables and no block is freed twice.
- `BlocksFollowRequests`: block tables belong to exactly the running requests.
- `AttentionReadsOwnTokens`: when a batch reaches the Worker, every context slot
  holds the K/V of that request, that submission and that position.
- `BatchesFitTheWorker`: every batch passes `from_worker_batch` and the bounds
  of the native batch entry point; no slot is written by two requests.
- `RunningHasWork`: no running request is skipped for ever for want of tokens,
  and each has room for the token it will sample.
- `SubmissionInOnePlace`, `OneFinalOutput`: a submission is on the command
  queue, in the scheduler or answered, and answered once.
- `LengthLimits`: `max_tokens` and the context limit are met exactly.
- `ExceptionAnswersAll`: a core that dies answers all it knew.
- `TablesOnlyGrow`: a running request's blocks stay where they are.
- `EverySubmissionAnswered`: liveness of requests.
- `ShutdownCompletes`: after SHUTDOWN the core ends, and its Worker ends too. The
  exception is stated in it: a core that the client terminates before it has put the
  Worker's SHUTDOWN leaves the Worker behind.

Of the engine as its client sees it:

- `ImplementsRequestService` (of `EngineCore`, of `DPCoordinator`): every step of
  every process is a step of `RequestService` or invisible to it. For the core,
  the live submission of an id is the one the scheduler knows and has not
  answered, and the exception exit is one `Fail`; for the coordinator, the
  commands of an id are those its rank has not read, followed by those on the
  coordinator's own queue. An ABORT that finds no rank leaves the
  coordinator's queue: the service reads an ABORT that it ignores.
- `ReadersSeeOwnOutputs`: what the router put on a stream is a prefix of the
  outputs of that very submission.
- `NoRequestWithoutReader`: a live request has a reader, or an ABORT on its way.
- `StreamsAreReleased`: an id is taken only while its call is under way. The two
  exceptions are stated in it: an `encode` that raises and a queue closed between
  the check and the put leave the stream registered.
- `BatchesCountedOnce`: once per batch, however often its metrics arrive and
  although the batches of another rank bear the same numbers.
- `ReadersEnd`: liveness of readers.
- `LoadIsOutstanding`, `AbortFindsItsRank`: the coordinator's two tables say what
  is true of the ranks.
- `LiveRanksAnswer`: the requests of a live rank are answered next to a rank that
  is dead or hangs; those of the dead rank are its exception.
- `RanksShutDown`: after SHUTDOWN the coordinator ends, and all ranks end too if it was
  left to end by itself. If the client terminated it, the ranks it leaves behind are
  the one that hangs and those whose SHUTDOWN it had not put.

Of the model runner:

- `FlatArraysMatchItems`: the slices that `query_start_loc` and
  `context_start_loc` cut out are the items' tokens, positions, slots, contexts.
- `BackendsReadTheSameContext`: each row of each batch is computed, and the Torch
  reference and the custom kernels read for it exactly its request's slots up to
  its position.
- `CacheKeepsComputedTokens`: no other request, padding row, stale buffer or
  failed batch disturbs the K/V of a running request.
- `PaddingStaysInScratch`: after every copy, the rows behind the batch write to
  scratch slots inside the tensor, each to its own.
- `RunnerNeverRefuses`: capture sizes and table widths pass the runner's own checks.
- `SampledFromOwnContext`, `ReplaySampledFromOwnContext`: a sampled token was
  computed by this batch from its request's whole context; the second leaves out
  the batch that captures.

**Bounds.** `MaxAdds`, `MaxAborts` and `CanShutdown` bound the clients; the rest
is finite by itself, since every request ends. In `engine_contention` the pool
is smaller than the joint demand, one prompt is longer than a chunk, another
leaves room for exactly one token, and a waiting request is rotated to the tail:
chunked prefill, mixed batches, skipped requests, failing admission and both
limits all occur. Three blocks and three requests are the least with which a
block can go from one request to a second while a third keeps its own. In
`kvcache`, released blocks return in an order different from the initial one.
In `model_runner` the context limit makes requests of one prompt token decode
three times, so a graph is captured, replayed by other requests with other
blocks, and run with and without its padding row; batches of three exceed the
graph and go eager. It uses symmetry of the ids, which nothing distinguishes and
no liveness property needs. In `client` each of quitting, reuse and a refused
prompt is allowed to some id; quitting with reuse of the same id is
`client_reuse`. `MaxOutputs` and `MaxBatches` bound the engine. `client` has
two ranks, which are symmetric, and a batch of each: the two batches bear the same
number, and their reports and outputs interleave on the queue. It has no `abort`
from outside; that is in `client_liveness`, and the theorems hold with any number
of aborts, batches and ranks. In `dp`, `MaxAdds = 1`: every id is used once, which is what generated ids do.
`CHECK_DEADLOCK FALSE` is set where the system may end: the engine shuts down,
the callers are done, all requests have ended.

**Fairness.** Weak fairness of the core and of the Worker: an operating system
process that can run runs. Clients owe nothing. The core's blocking `get` with a
timeout and its `get_nowait` both return, so the loop is always enabled.
The client need not terminate anything: there is no fairness for `TerminateCore` and
`TerminateCoordinator`, which stand for 10 s that may or may not be over.
`engine_liveness` leaves out the start-up failure of the Worker: after it the
core has ended, and a later ADD is never read. A Worker that is killed from
outside is not in `EngineCore`; the code has no timeout for it. Its effect, a
core that hangs, is in `dp`. `client_liveness` adds weak fairness of each
caller's thread, of the router and of the join in `close` (it has a timeout), and
that the engine handles commands and answers what it accepted, which is
`EverySubmissionAnswered`. That is an assumption on the engine and not a fact:
`engine_stall` shows a workload for which it fails, and the same holds for the ranks of
`dp`. `ReadersEnd` and `LiveRanksAnswer` say that client and coordinator lose no answer
the engine gives, not that it gives one. Consumers ask for the next output; nobody need call,
quit, abort or close. `dp` has weak fairness of the coordinator, of each rank
that has not hung, also after its coordinator was terminated, and of `TerminateRank`,
whose join has a timeout. Pipes have no capacity in the models: a process that ends
with output nobody reads is not held up by it, and a rank told to stop does so.

**Who outlives a shutdown.** `close()` waits 10 s for its child and then terminates it. With
several ranks the child is the coordinator, whose own wait of 10 s per rank begins
later, so if a rank hangs it is the client's timeout that ends first: the coordinator
is terminated in its join, and the rank it was waiting for stays. `RanksShutDown` and
`ShutdownCompletes` say that nothing else stays: a process whose SHUTDOWN was put ends
by itself. (A SHUTDOWN that is still in the feeder thread's buffer when the
process is terminated counts as not put.) The repository's documents do not promise
more.

**The first token after a capture.** `model_runner_capture` shows that the batch
which captures a graph is sampled from logits that nothing has computed:
`execute_cudagraph` replays a graph it finds and captures one it does not find,
and work under `torch.cuda.graph` is recorded, not run. The K/V of that batch is
right, because the warm-up wrote it. All other batches are right, which is
`ReplaySampledFromOwnContext`.

**An id that is used again.** `client_reuse` shows a reader that leaves early and
a new call with its id: the ABORT output of the old request, still on its way,
is routed to the new stream and ends it. `docs/architecture.md` describes the
queues as private to a request. Generated ids never meet this. The coordinator
has the same weakness: the late final output of the first use removes the rank
of the second (`AbortFindsItsRank` fails with `MaxAdds = 2`).

**A stall.** `docs/architecture.md` says that the
lack of preemption is a limit on single requests, reported on entry, and "does
not hang silently". `engine_stall` shows two accepted requests, each within that
limit, that hold two blocks each and each need a third. `schedule()` is empty in
every round and the core spins with no output. In `engine_liveness` two of three
requests may run on three blocks, no request needs more than two, and so one of
those that run can always go on; nothing in the code enforces such a condition.
There a request that does not fit goes to the tail of `waiting`, a later one is
admitted before it, and it is still reached, because submissions are finitely many
(`MaxAdds`). An unending stream of small requests could overtake it again and again; that
it could not is not claimed.

## 4. What is proved

The theorems hold for every value of the constants: any set of ids, any number of
blocks, ranks, submissions, outputs and batches, any limits and prompt lengths,
any of the Worker's faults. They rest on the ASSUMEs of the modules, which say
what `config.py` validates and that bounds are numbers: `Geometry` and
`SchedulerConfig` (positive sizes, non-empty prompts), `TargetsAreCounts`,
`KnownFaults`, `ClientBounds`, `CoordinatorConfig`, `ClientConfig`, `RunnerConfig`.
Nothing bounds the environment of the engine, the coordinator, the client or the
runner further, except
where a theorem below says so. Fairness plays no part.

| module | theorem | property |
|---|---|---|
| `CacheCaller_proofs` | `CacheSafety`, `CacheTypes` | `BlocksConserved`, `CacheTypeOK` |
| | `FailureAtomicity` | `FailedCallsChangeNothing` |
| | `SlotSafety` | `SlotsDisjoint` |
| | `CacheRefinesOwnership` | `ImplementsOwnership` |
| `EngineCore_proofs` | `EngineTypes` | `TypeOK` |
| | `EngineNeverRaises` | `BookkeepingNeverRaises` |
| | `EngineKeepsNoBlocks`, `EngineConservesBlocks` | `BlocksFollowRequests`, `BlocksConserved` |
| | `EngineAlwaysHasWork` | `RunningHasWork` |
| | `EngineTablesOnlyGrow` | `TablesOnlyGrow` |
| | `EngineReadsOwnTokens` | `AttentionReadsOwnTokens` |
| `EngineOutputs_proofs` | `EngineAnswersOnce` | `OneFinalOutput` |
| | `EngineLosesNoSubmission` | `SubmissionInOnePlace` |
| | `EngineFailureAnswersAll` | `ExceptionAnswersAll` |
| | `EngineBatchesFit` | `BatchesFitTheWorker` |
| | `EngineKeepsLengthLimits` | `LengthLimits` |
| | `EngineImplementsService` | `ImplementsRequestService` |
| `DPCoordinator_proofs` | `CoordinatorLoadsExact` | `LoadIsOutstanding` |
| | `CoordinatorKnowsItsRank`, if `MaxAdds = 1` | `AbortFindsItsRank` |
| | `CoordinatorImplementsService`, if `MaxAdds = 1` | `ImplementsRequestService` |
| `Client_proofs` | `ClientTypes` | `ClientTypeOK` |
| | `ClientReleasesStreams` | `StreamsAreReleased` |
| | `ClientCountsBatches` | `BatchesCountedOnce` |
| | `ClientReadersOwn`, if `Quitters \cap Reused = {}` | `ReadersSeeOwnOutputs` |
| | `ClientNoOrphans`, if `Quitters \cap Reused = {}` | `NoRequestWithoutReader` |
| `ModelRunner_proofs` | `RunnerTypes` | `RunnerTypeOK` |
| | `RunnerFlattensItems` | `FlatArraysMatchItems` |
| | `RunnerBackendsAgree` | `BackendsReadTheSameContext` |
| | `RunnerRefusesNothing` | `RunnerNeverRefuses` |
| | `RunnerKeepsCache` | `CacheKeepsComputedTokens` |
| | `RunnerSamplesOwnContext` | `ReplaySampledFromOwnContext` |
| | `RunnerPadsInScratch` | `PaddingStaysInScratch` |

These are all the safety properties that a passing run checks. The conditions of
four of them say how ids are used. The HTTP server names no id, and `submit` then
makes a new one, so it meets them. Without the condition,
`CoordinatorKnowsItsRank` fails, since a late final output of an id's first use
removes the rank of its second, and `client_reuse` is the counterexample
for the client. `CoordinatorImplementsService` is stated for the uses of the
coordinator in which its mapping has a meaning: it takes the rank of an id to be
where its one ADD went.

**The cache.** The inductive invariant is `CacheInv`, the conjunction of
`CacheTypeOK` and `BlocksConserved`. That no block is in two tables is not
inductive alone: what `reserve` pops must also be free of repetitions
(`FreeListDistinct`) and in no table, hence the exact equations
`used = TableBlocks` and `Range(free) = Blocks \ used`. With them, the popped
suffix of the free list is fresh (`PopFacts`), and `BlockPool.free` finds every
block of a table in `_used`, so that `release` frees all of them and never raises
(`ReleaseFreesAll`). `SlotSafety` adds that `block * BlockSize + offset`
determines block and offset (`SlotParts`, `PositionParts`). For the refinement, a
list without repetitions has as many elements as its length says
(`DistinctListCardinality`), so the lengths the code compares are the
cardinalities the abstract specification speaks of.

**The engine's bookkeeping.** `CoreInv` carries all proofs about the engine. That
`reserve` finds a table needs `DOMAIN tables = Range(running)` and disjoint lists
(`ListsInv`); that a request has work left after a batch needs to know what the
batch says of it. Hence `ItemOK`: an item that is still to be applied describes
its request as it is now, its table and its counters included. It survives the
Worker's step and the items applied before it because no id is twice in a batch
(`BatchInv`), and it may be applied because a result that arrives is the one for
this batch, with a token for exactly the requests that asked (`ResultOK`). The
latter holds because core and Worker take turns, with the failed start as the
only result nobody asked for (`ChannelInv`).

**Outputs.** `SubmissionInOnePlace` says nothing of a submission after the core
has left its loop, and nothing of duplicates. `OutputInv` adds that an ADD is on the queue
once, that nothing was put for a queued or unsent submission (`QueueInv`), and
that a request the scheduler knows has no final output, up to the moment
the exception exit has answered all (`PlaceInv`).

**Context.** `AttentionReadsOwnTokens` looks at a batch when it reaches the Worker.
For the next batch one must know what this one wrote and that the core counts no
token that was not written: `CountedTokensInPlace` for the tokens counted,
`BatchTokensInPlace` between the Worker's step and the last item applied. Blocks
that change hands need no case of their own: the tokens of a new owner are not
counted before they are written, and disjoint tables keep every other write away.

**Limits.** The budget left in `schedule()` and the tokens of the batch together
stay within `max_num_batched_tokens` (`LimitsInv`); what was put for a request is
what it counts (`LengthInv`). Both are sums over lists. `SumFunction` is a fold
over a finite set that picks elements by `CHOOSE`; the lemmas of the first part
show by `SetInduction` that the fold exists, that its order does not
matter, and that appending an element adds its value.

**The coordinator.** `CourseInv` follows a submission: its ADD is on one rank's queue
once, only that rank emits its outputs, and behind a final output none follows.
So the final output that decrements a load is the only one there will be, and
`LoadInv` equates each load with the number of submissions handed to the rank
whose final output was not yet passed on. `PlaceInv` adds the entry of
`request_ranks`.

**The client.** `HoldInv` says which calls hold the stream of their id, `BatchInv`
that the report of a batch is on the queue once and in front of its outputs.
`CallInv` has three parts per call: the engine's side (`Served`), where the call
is and what that implies (`Called`), and the router's side (`Routed`): the stream
holds the first outputs of the submission, and an increasing enumeration of
the queue gives the rest in order (`Flow`). `NothingLate` is the heart: when an id
that nobody quits is used again, no output of the first use is left on
the queue, since its reader has taken the final one.

**The engine as a service.** The client sees what `View` says: the commands of an
id that are still queued, its live submission, which outputs were final, and
whether the core is up. One lemma per kind of step shows that the step is one of
`RequestService` or leaves `View` as it was. `Only` filters the shared command
queue, so a command that the core reads is the first of its own id and of no other
(lemmas on `Only` in `Basics_proofs`). That a request the core knows is live to the
service is `OutputInv`; that the core shuts down only for a client that closed is
`ClosingInv`.

**The coordinator as a service.** Commands of one id pass through two queues, and
the concatenation keeps their order only if they all go the same way: an ABORT
goes to the rank that got the ADD and to no other (`HomeInv`). The
difficult step is an ABORT that the coordinator drops because `request_ranks` has
no entry. With one use of each id, either nothing of the id went to a rank yet, and
the ABORT is its first command, or the request is answered, nothing is live, and what
the rank has still to read of it is ABORTs like this one. Either way dropping it is
`RequestService` ignoring the first.

**The model runner.** `RunnerInv` has five parts: running requests have a token to
compute and disjoint tables (`RequestsInv`); each item of the batch
describes its request as it is now (`ItemsInv`); the buffers of a graph have their
shape and one row per request (`GraphsInv`); the cache
keeps what is computed (`CacheInv`); a sampled row attended to its own context
(`LastInv`). `GraphsInv` says nothing of what is in the buffers, which a copy that raised
may have left half made, and does not need to: a copy that succeeds overwrites every
row, and behind it the padding rows have their own scratch slots (`PaddingOK`). What `Flatten` computes is shown by induction
over the items: after k of them the arrays have the shape of k requests (`Shape`)
and say of each what its item says (`Says`, `RowsSay`, `ContextSays`). Both backends'
slots follow from that and from the division arithmetic of block tables.

**Induction.** The induction theorems of the library take an operator as a parameter,
which the installed provers cannot instantiate. `SetInduction` in `Basics_proofs`
states induction for a set of naturals instead, which suffices for lists: the folds
of the community modules are unfolded one element at a time, and the set is the
lengths for which the claim holds. Sums, `Only` and `Flatten` rest on it.

**Only model-checked.**

- Liveness (`EverySubmissionAnswered`, `ShutdownCompletes`, `ReadersEnd`,
  `LiveRanksAnswer`, `RanksShutDown`): the prover handles neither fairness nor
  ENABLED.
- The three expected violations, which are behaviours of an instance.

## 5. What could come next

- The C++ KV manager, once a target builds it: `reserve_tokens` there is not the
  all-or-nothing `reserve` of `cache.py`, so it would be checked against
  `BlockOwnership` on its own.
- The proofs over reused ids that the code does not satisfy today
  (`ReadersSeeOwnOutputs`, `AbortFindsItsRank`), if outputs come to carry a
  submission number.

## 6. Not modelled

- The arithmetic of layers and kernels, weight loading, the tokenizer's tables:
  numeric or data, without control that a state machine would add to.
- The ctypes adapter and the bootstrap decode graph of `minivllm_ops.cu`: argument
  passing, and a computation whose result nothing reads (the bootstrap runner
  samples from a canned answer).
- HTTP parsing and responses; the handlers are consumers in `Client`.
- Latency metrics and the text of outputs: they feed back into nothing but the
  stop condition, which is a choice of the Worker in the model.
- The C++ KV manager under `kernels/paged_kv_cache`: no target compiles it and
  nothing calls it. The standalone kernels and benchmarks: no state.
- Real time: timeouts may expire or not, at any moment and in any order, which
  includes the order of the nested timeouts of a shutdown.
