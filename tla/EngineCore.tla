------------------------------ MODULE EngineCore ------------------------------
(***************************************************************************)
(* The EngineCore process of one rank (minivllm/engine/core.py): its event *)
(* loop over the command queue, the scheduler and the Worker, composed     *)
(* with the Worker process and with the clients that send commands.        *)
(*                                                                         *)
(* The loop's control state is pc:                                         *)
(*   "drain"   _drain_commands (a blocking get that times out and a        *)
(*             get_nowait on an empty queue both end the drain)            *)
(*   "admit", "sched"   Scheduler.schedule                                 *)
(*   "wait"    worker_result_queue.get() in _execute_schedule              *)
(*   "apply"   the loop over the items of the result                       *)
(*   "except", "finally", "join", "done"   the end of run()                *)
(*   "killed"  the client terminated the process                           *)
(* An EngineCore has one Worker: DPCoordinator gives each core a config    *)
(* with data_parallel_size = 1, and admission sets request.rank = 0.       *)
(*                                                                         *)
(* Local variables (attempts, budget, cursor, batch, result) are reset     *)
(* where they go out of scope.                                             *)
(*                                                                         *)
(* log records the RequestOutputs put on the output queue, per submission; *)
(* the BatchMetrics that travel on the same queue are left out.            *)
(***************************************************************************)
EXTENDS Scheduler, Worker, Queues

CONSTANTS
    MaxAdds,     \* bound: how often the clients submit each id
    MaxAborts,   \* bound: how many ABORTs the clients send
    CanShutdown, \* may the client close the engine?
    CanKill      \* may its join(timeout=10) run out?

ASSUME ClientBounds ==
    /\ MaxAdds \in Nat /\ MaxAborts \in Nat
    /\ CanShutdown \in BOOLEAN /\ CanKill \in BOOLEAN

VARIABLES
    pc,        \* where the core is
    cmdq,      \* command_queue
    shutdown,  \* EngineCore._shutdown
    batchId,   \* EngineCore._batch_id
    result,    \* the WorkerResult being applied
    log,       \* id -> submission -> its outputs, in order
    adds,      \* id -> ADDs sent so far
    aborts,    \* ABORTs sent so far
    closed     \* SHUTDOWN sent

coreVars == <<pc, shutdown, batchId, result, log>>
clientVars == <<adds, aborts, closed>>
vars == <<cacheVars, schedVars, workerVars, coreVars, cmdq, clientVars>>

Submissions == 1 .. MaxAdds

Output(n, why) == [tokens |-> n, reason |-> why]

Reasons == {"none", "STOP", "LENGTH", "ABORT", "ERROR"}

Outputs == [tokens : {0, 1}, reason : Reasons]

\* RequestOutput.finished
Final(o) == o.reason # "none"

Put(r, sub, o) == log' = [log EXCEPT ![r][sub] = Append(@, o)]

Init ==
    /\ SchedulerInit
    /\ WorkerInit
    /\ pc = "drain"
    /\ cmdq = <<>>
    /\ shutdown = FALSE
    /\ batchId = 0
    /\ result = NoResult
    /\ log = [r \in Ids |-> [n \in Submissions |-> <<>>]]
    /\ adds = [r \in Ids |-> 0]
    /\ aborts = 0
    /\ closed = FALSE

-----------------------------------------------------------------------------
(* The clients: EngineCoreClient.submit, abort and close. *)

Command(type, r, sub) == [type |-> type, id |-> r, sub |-> sub]

SendAdd(r) ==
    /\ adds[r] < MaxAdds
    /\ adds' = [adds EXCEPT ![r] = @ + 1]
    /\ cmdq' = Append(cmdq, Command("ADD", r, adds[r] + 1))
    /\ UNCHANGED <<cacheVars, schedVars, workerVars, coreVars, aborts, closed>>

SendAbort(r) ==
    /\ aborts < MaxAborts
    /\ aborts' = aborts + 1
    /\ cmdq' = Append(cmdq, Command("ABORT", r, 0))
    /\ UNCHANGED <<cacheVars, schedVars, workerVars, coreVars, adds, closed>>

\* A submit that saw _closed = False may still put its ADD after this.
SendShutdown ==
    /\ CanShutdown /\ ~closed
    /\ closed' = TRUE
    /\ cmdq' = Append(cmdq, [type |-> "SHUTDOWN"])
    /\ UNCHANGED <<cacheVars, schedVars, workerVars, coreVars, adds, aborts>>

\* close() waited 10 s for the core and terminates it, wherever it is; nobody
\* tells its Worker.
TerminateCore ==
    /\ CanKill /\ closed
    /\ pc \notin {"done", "killed"}
    /\ pc' = "killed"
    /\ UNCHANGED <<cacheVars, schedVars, workerVars, shutdown, batchId, result, log,
                   cmdq, clientVars>>

ClientStep == SendShutdown \/ TerminateCore \/ \E r \in Ids : SendAdd(r) \/ SendAbort(r)

-----------------------------------------------------------------------------
(* _drain_commands and _handle_command *)

Known(r) == IsRunning(r) \/ IsWaiting(r)

NextCommand(type) ==
    /\ pc = "drain"
    /\ cmdq # <<>>
    /\ Head(cmdq).type = type
    /\ cmdq' = Tail(cmdq)

HandleShutdown ==
    /\ NextCommand("SHUTDOWN")
    /\ shutdown' = TRUE
    /\ UNCHANGED <<cacheVars, schedVars, workerVars, pc, batchId, result, log, clientVars>>

HandleAdd ==
    LET r == Head(cmdq).id  sub == Head(cmdq).sub
    IN  /\ NextCommand("ADD")
        /\ IF AddRejected(r)
           THEN Put(r, sub, Output(0, "ERROR")) /\ UNCHANGED <<cacheVars, schedVars>>
           ELSE AddRequest(r, sub) /\ UNCHANGED log
        /\ UNCHANGED <<workerVars, pc, shutdown, batchId, result, clientVars>>

HandleAbort ==
    LET r == Head(cmdq).id
    IN  /\ NextCommand("ABORT")
        /\ IF IsRunning(r) THEN Finish(r) /\ UNCHANGED waiting
           ELSE IF IsWaiting(r) THEN Unqueue(r)
           ELSE UNCHANGED <<cacheVars, waiting, running, req>>
        /\ pc' = IF exc' = "none" THEN "drain" ELSE "except"
        /\ IF Known(r) /\ exc' = "none"
           THEN Put(r, req[r].sub, Output(0, "ABORT"))
           ELSE UNCHANGED log
        /\ UNCHANGED <<attempts, budget, cursor, batch, workerVars,
                       shutdown, batchId, result, clientVars>>

DrainEnd ==
    /\ pc = "drain"
    /\ cmdq = <<>>
    /\ IF shutdown
       THEN pc' = "finally" /\ UNCHANGED <<cacheVars, schedVars>>
       ELSE pc' = "admit" /\ StartAdmission
    /\ UNCHANGED <<workerVars, shutdown, batchId, result, log, cmdq, clientVars>>

-----------------------------------------------------------------------------
(* _execute_schedule *)

Admit ==
    /\ pc = "admit"
    /\ AdmitOne
    /\ pc' = IF exc' = "none" THEN "admit" ELSE "except"
    /\ UNCHANGED <<workerVars, shutdown, batchId, result, log, cmdq, clientVars>>

AdmitEnd ==
    /\ pc = "admit"
    /\ StartBatch
    /\ pc' = "sched"
    /\ UNCHANGED <<workerVars, shutdown, batchId, result, log, cmdq, clientVars>>

Schedule ==
    /\ pc = "sched"
    /\ ScheduleOne
    /\ pc' = IF exc' = "none" THEN "sched" ELSE "except"
    /\ UNCHANGED <<workerVars, shutdown, batchId, result, log, cmdq, clientVars>>

\* An empty schedule goes straight back to the loop.
Dispatch ==
    /\ pc = "sched"
    /\ ~BatchOpen
    /\ IF batch = <<>>
       THEN pc' = "drain" /\ UNCHANGED <<batchId, workq>>
       ELSE /\ batchId' = batchId + 1
            /\ workq' = Append(workq, BatchCommand(batchId + 1, batch))
            /\ pc' = "wait"
    /\ budget' = 0 /\ cursor' = 1
    /\ UNCHANGED <<cacheVars, waiting, running, req, attempts, batch,
                   resq, wstate, kv, shutdown, result, log, cmdq, clientVars>>

\* Mutant: a Worker that could not start is taken for a late result.
NextIgnoringInitFailure(id) == IF id = batchId THEN "apply" ELSE "wait"

\* A result of another batch is dropped and the core waits on.
NextAfterResult(id) == CASE id = -1 -> "except"
                         [] id = batchId -> "apply"
                         [] OTHER -> "wait"

ReceiveResult ==
    /\ pc = "wait"
    /\ resq # <<>>
    /\ resq' = Tail(resq)
    /\ result' = Head(resq)
    /\ pc' = NextAfterResult(Head(resq).batchId)
    /\ UNCHANGED <<cacheVars, schedVars, workq, wstate, kv,
                   shutdown, batchId, log, cmdq, clientVars>>

\* The Worker failed the batch: each of its requests ends with an error.
ApplyError ==
    LET item == batch[cursor]
    IN  /\ pc = "apply" /\ cursor <= Len(batch)
        /\ result.error
        /\ Put(item.id, item.sub, Output(0, "ERROR"))
        /\ Finish(item.id)
        /\ cursor' = cursor + 1
        /\ pc' = IF exc' = "none" THEN "apply" ELSE "except"
        /\ UNCHANGED <<waiting, attempts, budget, batch, workerVars,
                       shutdown, batchId, result, cmdq, clientVars>>

\* update_computed; then, if a token was sampled, append_token, the output and,
\* with a finish reason, finish.  (The code also skips an item whose request is
\* no longer running: commands are drained before a batch is scheduled, so an
\* abort cannot come between a batch and its result.)
ApplyItem ==
    LET item     == batch[cursor]
        r        == item.id
        computed == req[r].computed + Len(item.slots)
        sampled  == r \in DOMAIN result.sampled
        tok      == result.sampled[r]
        why      == FinishReason(r, computed, tok)
        got      == IF tok = "eos" THEN 0 ELSE 1
    IN  /\ pc = "apply" /\ cursor <= Len(batch)
        /\ ~result.error
        /\ IF ~IsRunning(r)
           THEN UNCHANGED <<cacheVars, running, req, log>>
           ELSE IF ~sampled
           THEN /\ req' = [req EXCEPT ![r].computed = computed]
                /\ UNCHANGED <<cacheVars, running, log>>
           ELSE /\ Put(r, req[r].sub, Output(got, why))
                /\ IF why = "none"
                   THEN /\ req' = [req EXCEPT ![r].computed = computed, ![r].out = @ + got]
                        /\ UNCHANGED <<cacheVars, running>>
                   ELSE Finish(r)
        /\ cursor' = cursor + 1
        /\ pc' = IF exc' = "none" THEN "apply" ELSE "except"
        /\ UNCHANGED <<waiting, attempts, budget, batch, workerVars,
                       shutdown, batchId, result, cmdq, clientVars>>

ApplyEnd ==
    /\ pc = "apply" /\ cursor > Len(batch)
    /\ pc' = "drain"
    /\ batch' = <<>> /\ cursor' = 1 /\ result' = NoResult
    /\ UNCHANGED <<cacheVars, waiting, running, req, attempts, budget,
                   workerVars, shutdown, batchId, log, cmdq, clientVars>>

-----------------------------------------------------------------------------
(* The end of run() *)

\* Mutant: forgets the waiting requests.
OnlyRunning(r) == IsRunning(r)

\* Those who get an error: the running and the waiting requests.
Abandoned(r) == Known(r)

ExceptionExit ==
    /\ pc = "except"
    /\ pc' = "finally"
    /\ log' = [r \in Ids |->
                 IF Abandoned(r)
                 THEN [log[r] EXCEPT ![req[r].sub] = Append(@, Output(0, "ERROR"))]
                 ELSE log[r]]
    /\ UNCHANGED <<cacheVars, schedVars, workerVars, shutdown, batchId, result,
                   cmdq, clientVars>>

StopWorker ==
    /\ pc = "finally"
    /\ pc' = "join"
    /\ workq' = Append(workq, ShutdownCommand)
    /\ UNCHANGED <<cacheVars, schedVars, resq, wstate, kv, shutdown, batchId,
                   result, log, cmdq, clientVars>>

JoinWorker ==
    /\ pc = "join"
    /\ wstate = "exited"
    /\ pc' = "done"
    /\ UNCHANGED <<cacheVars, schedVars, workerVars, shutdown, batchId, result,
                   log, cmdq, clientVars>>

\* join(timeout=5) ran out.
TerminateWorker ==
    /\ pc = "join"
    /\ wstate # "exited"
    /\ wstate' = "terminated"
    /\ pc' = "done"
    /\ UNCHANGED <<cacheVars, schedVars, workq, resq, kv, shutdown, batchId,
                   result, log, cmdq, clientVars>>

-----------------------------------------------------------------------------

CoreStep ==
    \/ HandleShutdown \/ HandleAdd \/ HandleAbort \/ DrainEnd
    \/ Admit \/ AdmitEnd \/ Schedule \/ Dispatch
    \/ ReceiveResult \/ ApplyError \/ ApplyItem \/ ApplyEnd
    \/ ExceptionExit \/ StopWorker \/ JoinWorker \/ TerminateWorker

CoreIdle == UNCHANGED <<cacheVars, schedVars, coreVars, cmdq, clientVars>>

WorkerStep ==
    \/ WorkerReady /\ CoreIdle
    \/ WorkerInitFails /\ CoreIdle
    \/ WorkerExecute /\ CoreIdle
    \/ WorkerBatchFails /\ CoreIdle
    \/ WorkerShutdown /\ CoreIdle

Next == CoreStep \/ WorkerStep \/ ClientStep

Spec == Init /\ [][Next]_vars

\* Both processes run whenever they can; clients owe nothing.
FairSpec == Spec /\ WF_vars(CoreStep) /\ WF_vars(WorkerStep)

-----------------------------------------------------------------------------
(* Properties. *)

InLoop == pc \notin {"except", "finally", "join", "done", "killed"}

Queued(r, n) ==
    \E i \in DOMAIN cmdq : cmdq[i].type = "ADD" /\ cmdq[i] = Command("ADD", r, n)

Answered(r, n) == log[r][n] # <<>> /\ Final(Last(log[r][n]))

\* Every variable of the three processes keeps its type.
TypeOK ==
    /\ CacheTypeOK
    /\ waiting \in Seq(Ids) /\ running \in Seq(Ids)
    /\ req \in [Ids -> [sub : 0 .. MaxAdds, computed : Nat, out : Nat]]
    /\ attempts \in Nat /\ budget \in 0 .. MaxNumBatchedTokens /\ cursor \in Nat \ {0}
    /\ wstate \in {"init", "ready", "exited", "terminated"}
    /\ DOMAIN kv = Slots
    /\ pc \in {"drain", "admit", "sched", "wait", "apply", "except", "finally", "join",
              "done", "killed"}
    /\ shutdown \in BOOLEAN /\ batchId \in Nat
    /\ log \in [Ids -> [Submissions -> Seq(Outputs)]]
    /\ adds \in [Ids -> 0 .. MaxAdds] /\ aborts \in 0 .. MaxAborts /\ closed \in BOOLEAN

\* The bookkeeping never raises: schedule checks can_reserve against the pool as
\* it is at that moment, not as it was at admission, a request id never has two
\* tables and no block is freed twice.  So only a Worker that cannot start
\* brings the core down.
BookkeepingNeverRaises == exc = "none"

\* No block outlives its request: exactly the running requests have a block
\* table, and when none is running the whole pool is free.
BlocksFollowRequests ==
    InLoop => /\ DOMAIN tables = Range(running)
              /\ running = <<>> => Len(free) = NumBlocks

\* When a batch reaches the Worker, each context slot below the first scheduled
\* position holds the K/V of that very request and position, and the slots the
\* batch writes are those its attention will read: blocks that changed hands,
\* failed batches and aborts leave nothing stale in a request's context.
AttentionReadsOwnTokens ==
    \A k \in DOMAIN workq : \A i \in DOMAIN workq[k].items :
        LET item == workq[k].items[i]
        IN  \A p \in 0 .. (item.seqLen - 1) :
               IF p < item.start
               THEN kv[Slot(item.table, p)] = Token(item, p)
               ELSE item.slots[p - item.start + 1] = Slot(item.table, p)

\* Every batch passes the checks of GPUInputBatch.from_worker_batch and fits the
\* native runtime's buffers (mvllm_attention_batch, error 40): at most
\* max_num_seqs requests and max_num_batched_tokens tokens, no wider block table
\* than max_model_len allows, and no slot written twice.
BatchesFitTheWorker ==
    \A k \in DOMAIN workq : ~workq[k].shutdown =>
        LET items == workq[k].items
        IN  /\ ValidBatch(items)
            /\ Len(items) <= NatMin(MaxNumSeqs, NumBlocks)
            /\ SumFunction([i \in DOMAIN items |-> Len(items[i].slots)]) <= MaxNumBatchedTokens
            /\ \A i \in DOMAIN items :
                  Len(items[i].table) <= CeilDiv(MaxModelLen, BlockSize)
            /\ \A i, j \in DOMAIN items :
                  i # j => Range(items[i].slots) \cap Range(items[j].slots) = {}

\* At the top of the loop a running request always has a token left to compute
\* (otherwise schedule would skip it for ever), exactly one once it decodes, and
\* leaves room in its context for the token that computing it will sample.
RunningHasWork ==
    pc \in {"drain", "admit"} =>
        \A r \in Range(running) :
            LET remaining == NumAllTokens(r) - req[r].computed
            IN  /\ remaining > 0
                /\ req[r].out > 0 => remaining = 1
                /\ NumAllTokens(r) < ContextLimit

\* While the core runs, a submission is in exactly one place: on the command
\* queue, in the scheduler, or answered with its final output.  None is lost,
\* and no answered one is still scheduled.
SubmissionInOnePlace ==
    InLoop =>
        \A r \in Ids : \A n \in 1 .. adds[r] :
            Cardinality({p \in {"queue", "scheduler", "answered"} :
                CASE p = "queue" -> Queued(r, n)
                  [] p = "scheduler" -> Known(r) /\ req[r].sub = n
                  [] p = "answered" -> Answered(r, n)}) = 1

\* A final output is the last one of its submission.
OneFinalOutput ==
    \A r \in Ids : \A n \in Submissions : \A i \in DOMAIN log[r][n] :
        Final(log[r][n][i]) => i = Len(log[r][n])

\* The tokens of a submission stay within max_tokens and the context limit, a
\* request that reached either limit is finished, and LENGTH is reported only
\* then.
LengthLimits ==
    \A r \in Ids : \A n \in Submissions :
        LET outs   == log[r][n]
            tokens == SumFunction([i \in DOMAIN outs |-> outs[i].tokens])
            full   == tokens = MaxTokens[r] \/ PromptLen[r] + tokens = ContextLimit
        IN  outs # <<>> =>
              /\ tokens <= MaxTokens[r]
              /\ tokens > 0 => PromptLen[r] + tokens <= ContextLimit
              /\ ~Final(Last(outs)) => ~full
              /\ Last(outs).reason = "LENGTH" => full

\* If the core dies of an exception, every request it knew has its final error.
ExceptionAnswersAll ==
    pc \in {"finally", "join", "done"} /\ ~shutdown =>
        \A r \in Ids : Known(r) => Answered(r, req[r].sub)

\* A running request keeps its blocks in place: until it leaves, its block table
\* is only extended and its computed count never falls.
TablesOnlyGrow ==
    [][\A r \in Ids :
         (IsRunning(r) /\ req'[r].sub = req[r].sub /\ r \in DOMAIN tables) =>
            /\ r \in DOMAIN tables'
            /\ IsPrefix(tables[r], tables'[r])
            /\ req'[r].computed >= req[r].computed]_vars

\* Every submission is eventually answered with a final output.
EverySubmissionAnswered ==
    \A r \in Ids : \A n \in Submissions : (adds[r] >= n) ~> Answered(r, n)

\* The core has put a SHUTDOWN that the Worker did not read.
WorkerTold == \E i \in DOMAIN workq : workq[i].shutdown

\* Closing the engine always ends the core, whatever the Worker was doing or
\* failed at, and the Worker with it.  A core that the client terminates may leave
\* its Worker behind, but only if it had not told it yet: a Worker that was told
\* ends by itself, or never started.
ShutdownCompletes ==
    closed ~> /\ pc \in {"done", "killed"}
              /\ \/ wstate \in {"exited", "terminated"}
                 \/ pc = "killed" /\ ~WorkerTold

-----------------------------------------------------------------------------
(* The service the core implements. *)

\* The commands about one id.
OrdersOf(r) == {Command("ABORT", r, 0)} \cup {Command("ADD", r, n) : n \in Submissions}

\* Those of them that are on the way.
CmdsOf(r) == Only(cmdq, OrdersOf(r))

\* The submission of r that the scheduler holds and nobody answered.
LiveSub(r) == IF Known(r) /\ ~Answered(r, req[r].sub) THEN req[r].sub ELSE 0

\* The outputs of a submission, told apart by whether they are final.
Finals(r, n) == [i \in DOMAIN log[r][n] |-> Final(log[r][n][i])]

Status == IF pc \in {"finally", "join", "done", "killed"} THEN "down" ELSE "up"

Service == INSTANCE RequestService WITH
    cmds   <- [r \in Ids |-> CmdsOf(r)],
    sent   <- [r \in Ids |-> 1 .. adds[r]],
    live   <- [r \in Ids |-> LiveSub(r)],
    outs   <- [r \in Ids |-> [n \in Submissions |-> Finals(r, n)]],
    status <- Status

\* The core with its scheduler, cache and Worker implements RequestService: every
\* step, of whatever process, is one step of the service or invisible to it.
ImplementsRequestService == Service!ServiceSpec
=============================================================================
