------------------------------- MODULE Scheduler -------------------------------
(***************************************************************************)
(* The token scheduler of one rank (minivllm/scheduler.py) on top of its   *)
(* paged KV cache.  The scheduler is a passive object of the EngineCore    *)
(* process: the actions below are its methods, and EngineCore.tla says     *)
(* when they are called.  The loops of _admit_waiting and schedule are one *)
(* step per iteration; only the core's thread touches this state, so the   *)
(* intermediate states are those the code goes through.                    *)
(*                                                                         *)
(* Tokens are abstracted to their position: what a request computes is     *)
(* known by how many of its tokens went through the model.                 *)
(***************************************************************************)
EXTENDS KVCache, SequencesExt

CONSTANTS
    PromptLen,           \* id -> len(prompt_token_ids), client.submit sends 1 at least
    MaxTokens,           \* id -> SamplingParams.max_tokens
    MaxNumSeqs,          \* EngineConfig.max_num_seqs
    MaxNumBatchedTokens, \* EngineConfig.max_num_batched_tokens
    MaxModelLen          \* EngineConfig.max_model_len

ASSUME SchedulerConfig ==
    /\ PromptLen \in [Ids -> Nat \ {0}]
    /\ MaxTokens \in [Ids -> Nat \ {0}]
    /\ MaxNumSeqs \in Nat \ {0}
    /\ MaxNumBatchedTokens \in Nat \ {0}
    /\ MaxModelLen \in Nat \ {0}

VARIABLES
    waiting,   \* Scheduler.waiting, the ids in queue order
    running,   \* Scheduler.running, the ids in insertion order
    req,       \* id -> the RequestState fields that change
    attempts,  \* _admit_waiting: requests this call may still look at
    budget,    \* schedule: tokens this batch may still take
    cursor,    \* schedule: next index of list(running.values())
    batch      \* schedule: the WorkerItems of by_rank[0], in order

schedVars == <<waiting, running, req, attempts, budget, cursor, batch>>

\* A request that the scheduler does not know.  sub counts the submissions of
\* one id: it tells a request from an earlier one with the same id.
NoRequest == [sub |-> 0, computed |-> 0, out |-> 0]

ContextLimit == NatMin(MaxModelLen, NumBlocks * BlockSize)

NumAllTokens(r) == PromptLen[r] + req[r].out

IsRunning(r) == r \in Range(running)

IsWaiting(r) == r \in Range(waiting)

HasRequests == waiting # <<>> \/ running # <<>>

SchedulerInit ==
    /\ CacheInit
    /\ waiting = <<>> /\ running = <<>>
    /\ req = [r \in Ids |-> NoRequest]
    /\ attempts = 0 /\ budget = 0 /\ cursor = 1
    /\ batch = <<>>

-----------------------------------------------------------------------------
(* add_request: ValueError for a known id or a prompt that fills the cache. *)

\* Mutant: looks for a duplicate among the running requests only.
AddRejectedRunningOnly(r) == IsRunning(r) \/ PromptLen[r] >= ContextLimit

AddRejected(r) ==
    \/ IsRunning(r) \/ IsWaiting(r)
    \/ PromptLen[r] >= ContextLimit

AddRequest(r, sub) ==
    /\ waiting' = Append(waiting, r)
    /\ req' = [req EXCEPT ![r] = [sub |-> sub, computed |-> 0, out |-> 0]]
    /\ UNCHANGED <<cacheVars, running, attempts, budget, cursor, batch>>

-----------------------------------------------------------------------------
(* schedule *)

StartAdmission ==
    /\ attempts' = Len(waiting)
    /\ UNCHANGED <<cacheVars, waiting, running, req, budget, cursor, batch>>

AdmissionOpen ==
    /\ waiting # <<>>
    /\ Len(running) < MaxNumSeqs
    /\ attempts > 0

\* One round of _admit_waiting: pop, create a table, check that the first chunk
\* would fit.  If not, the empty table is released again (nothing to free) and
\* the request goes to the TAIL.  Nothing is reserved for an admitted request.
AdmitOne ==
    LET r     == Head(waiting)
        first == NatMin(PromptLen[r], MaxNumBatchedTokens)
        fits  == CeilDiv(first, BlockSize) <= Len(free)
    IN  /\ AdmissionOpen
        /\ attempts' = attempts - 1
        /\ IF r \in DOMAIN tables \/ fits
           THEN /\ Create(r)
                /\ waiting' = Tail(waiting)
                /\ running' = IF r \in DOMAIN tables THEN running ELSE Append(running, r)
           ELSE /\ waiting' = Append(Tail(waiting), r)
                /\ UNCHANGED <<cacheVars, running>>
        /\ UNCHANGED <<req, budget, cursor, batch>>

StartBatch ==
    /\ ~AdmissionOpen
    /\ budget' = MaxNumBatchedTokens
    /\ cursor' = 1
    /\ batch' = <<>>
    /\ attempts' = 0
    /\ UNCHANGED <<cacheVars, waiting, running, req>>

\* Mutant: samples at the end of the prompt only.
SampleAfterPrompt(r, target) == target = PromptLen[r]

\* A chunk that reaches the last known token is followed by a new one.
ShouldSample(r, target) == target = NumAllTokens(r)

\* The WorkerItem for tokens start .. target - 1 of r, with block table tbl.
WorkerItem(r, start, target, tbl) ==
    [id     |-> r,
     sub    |-> req[r].sub,
     start  |-> start,
     slots  |-> [i \in 1 .. (target - start) |-> Slot(tbl, start + i - 1)],
     table  |-> tbl,
     seqLen |-> target,
     gen    |-> req[r].out,
     sample |-> ShouldSample(r, target)]

BatchOpen == cursor <= Len(running) /\ budget > 0

\* Mutant: relies on the check made at admission.
NeverSkipped(r, count) == count <= 0

\* Nothing to compute, or not enough blocks now.
Skipped(r, count) ==
    count <= 0 \/ (r \in DOMAIN tables /\ ~CanReserve(r, req[r].computed + count))

\* Mutant: does not charge the tokens to the budget.
Uncharged(count) == budget

Charged(count) == budget - count

\* One round of schedule's loop: take as many tokens of running[cursor] as the
\* budget allows, or skip the request.
ScheduleOne ==
    LET r      == running[cursor]
        start  == req[r].computed
        count  == NatMin(NumAllTokens(r) - start, budget)
        target == start + count
    IN  /\ BatchOpen
        /\ cursor' = cursor + 1
        /\ IF Skipped(r, count)
           THEN UNCHANGED <<cacheVars, budget, batch>>
           ELSE /\ Reserve(r, target)
                /\ IF exc' = "none"
                   THEN /\ batch' = Append(batch, WorkerItem(r, start, target, tables'[r]))
                        /\ budget' = Charged(count)
                   ELSE UNCHANGED <<budget, batch>>
        /\ UNCHANGED <<waiting, running, req, attempts>>

-----------------------------------------------------------------------------
(* What the core calls with a result. *)

\* Mutants: each limit checked one token late.
OverMaxTokens(r) == req[r].out >= MaxTokens[r]
OverContext(computed) == computed >= ContextLimit

\* The limits append_token checks, with the new token counted.
AtMaxTokens(r) == req[r].out + 1 >= MaxTokens[r]
AtContextLimit(computed) == computed + 1 >= ContextLimit

\* append_token, on a request whose num_computed_tokens is already updated to
\* computed.  tok is "eos", "stop" (the text now ends with a stop string) or
\* "plain".  "none" means the request goes on.
FinishReason(r, computed, tok) ==
    IF tok \in {"eos", "stop"} THEN "STOP"
    ELSE IF AtMaxTokens(r) \/ AtContextLimit(computed) THEN "LENGTH"
    ELSE "none"

\* Mutants: nothing is dropped; the request is dropped and keeps its blocks.
FinishNothing(r) == UNCHANGED <<cacheVars, running, req>>

FinishKeepsBlocks(r) ==
    /\ IsRunning(r)
    /\ running' = RemoveFirst(running, r)
    /\ req' = [req EXCEPT ![r] = NoRequest]
    /\ UNCHANGED cacheVars

\* finish: drop a running request and release its blocks; no-op otherwise.
Finish(r) ==
    IF IsRunning(r)
    THEN /\ Release(r)
         /\ running' = RemoveFirst(running, r)
         /\ req' = [req EXCEPT ![r] = NoRequest]
    ELSE UNCHANGED <<cacheVars, running, req>>

\* Mutant: leaves the aborted request in the queue.
UnqueueKeeps(r) == UNCHANGED <<cacheVars, waiting, running, req>>

\* abort of a waiting request: it has no block table.
Unqueue(r) ==
    /\ waiting' = RemoveFirst(waiting, r)
    /\ req' = [req EXCEPT ![r] = NoRequest]
    /\ UNCHANGED <<cacheVars, running>>
=============================================================================
