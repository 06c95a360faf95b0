-------------------------------- MODULE Client --------------------------------
(***************************************************************************)
(* EngineCoreClient (engine/client.py) and the generators of LLMEngine and *)
(* AsyncLLMEngine that use it (engine/llm_engine.py, async_engine.py),     *)
(* composed with the engine as RequestService describes it.                *)
(*                                                                         *)
(* Threads: one caller for each <<id, n>>, the n-th call of generate with  *)
(* that id; the router; whoever calls close.  A caller is                  *)
(*   "idle", "checked", "registered"    in submit                          *)
(*   "reading"                          in stream.get()                    *)
(*   "yielded", "finished"              handed an output, the final one    *)
(*   "aborting", "dropping"             in the finally of generate         *)
(*   "done", "raised", "leaked"         gone; "leaked" left its stream     *)
(*                                      registered                         *)
(*                                                                         *)
(* The consumer of a generator is an HTTP handler or a script.  One that   *)
(* may quit stands for the streaming handler (its write fails when the     *)
(* peer has gone), a break out of the loop and a cancelled task; the       *)
(* handler of a plain completion reads to the end.                         *)
(***************************************************************************)
EXTENDS RequestService, SequencesExt

CONSTANTS
    Quitters,    \* the ids whose consumer may stop early
    Reused,      \* the ids that are used for more than one call
    BadPrompts,  \* the ids whose prompt encode may refuse
    MaxAborts,   \* bound: calls of the engines' own abort
    MaxOutputs,  \* bound: outputs of a submission before its final one
    Ranks,       \* the data-parallel ranks of the engine
    MaxBatches   \* bound: batches a rank executes

ASSUME ClientConfig ==
    /\ Quitters \subseteq Ids /\ Reused \subseteq Ids /\ BadPrompts \subseteq Ids
    /\ MaxAdds \in Nat /\ MaxAborts \in Nat /\ MaxOutputs \in Nat /\ MaxBatches \in Nat

VARIABLES
    caller,   \* id -> n -> where that call of generate is
    streams,  \* _streams: id -> the n whose stream is registered, 0 for none
    stream,   \* id -> n -> the outputs put on that stream so far
    taken,    \* id -> n -> how many of them the reader took
    outq,     \* output_queue
    batches,  \* rank -> batches it has executed
    seen,     \* _seen_batches
    total,    \* _total_batches
    close,    \* "open", "joining" or "closed"
    aborts    \* calls of abort so far

callVars == <<caller, streams, stream, taken>>
routeVars == <<seen, total>>
closeVars == <<close, aborts>>
vars == <<serviceVars, callVars, outq, batches, routeVars, closeVars>>

\* A batch is named by its rank and its number there; an event without metrics has
\* NoBatch.
NoBatch == <<0, 0>>

Executed == {b \in Ranks \X (1 .. MaxBatches) : b[2] <= batches[b[1]]}

Calls == {c \in Ids \X Submissions : c[2] = 1 \/ c[1] \in Reused}

Init ==
    /\ ServiceInit
    /\ caller = [r \in Ids |-> [n \in Submissions |-> "idle"]]
    /\ streams = [r \in Ids |-> 0]
    /\ stream = [r \in Ids |-> [n \in Submissions |-> <<>>]]
    /\ taken = [r \in Ids |-> [n \in Submissions |-> 0]]
    /\ outq = <<>>
    /\ batches = [k \in Ranks |-> 0]
    /\ seen = {} /\ total = 0
    /\ close = "open" /\ aborts = 0

-----------------------------------------------------------------------------
(* submit, abort and finish_stream, in the thread of a caller *)

Moves(r, n, from, to) ==
    /\ caller[r][n] = from
    /\ caller' = [caller EXCEPT ![r][n] = to]

RestOfClient == <<stream, taken, outq, batches, routeVars, closeVars>>

CheckOpen(r, n) ==
    /\ Moves(r, n, "idle", IF close = "open" THEN "checked" ELSE "raised")
    /\ UNCHANGED <<serviceVars, streams, RestOfClient>>

Register(r, n) ==
    /\ IF streams[r] = 0
       THEN Moves(r, n, "checked", "registered") /\ streams' = [streams EXCEPT ![r] = n]
       ELSE Moves(r, n, "checked", "raised") /\ UNCHANGED streams
    /\ UNCHANGED <<serviceVars, RestOfClient>>

\* encode, then put the ADD.  A closed queue refuses it; either exception leaves
\* submit with the stream still registered.
PutAdd(r, n) ==
    /\ \/ /\ r \in BadPrompts \/ close = "closed"
          /\ Moves(r, n, "registered", "leaked") /\ UNCHANGED serviceVars
       \/ /\ close # "closed"
          /\ Moves(r, n, "registered", "reading") /\ SendAdd(r, n)
    /\ UNCHANGED <<streams, RestOfClient>>

Get(r, n) ==
    LET next == stream[r][n][taken[r][n] + 1]
    IN  /\ taken[r][n] < Len(stream[r][n])
        /\ Moves(r, n, "reading", IF next.final THEN "finished" ELSE "yielded")
        /\ taken' = [taken EXCEPT ![r][n] = @ + 1]
        /\ UNCHANGED <<serviceVars, streams, stream, outq, batches, routeVars, closeVars>>

\* Mutant: does not look at output.finished.
ReadOn(r, n) ==
    /\ \/ Moves(r, n, "yielded", "reading")
       \/ Moves(r, n, "finished", "reading")
    /\ UNCHANGED <<serviceVars, streams, RestOfClient>>

\* The consumer asks for the next output.
Resume(r, n) ==
    /\ \/ Moves(r, n, "yielded", "reading")
       \/ Moves(r, n, "finished", "dropping")
    /\ UNCHANGED <<serviceVars, streams, RestOfClient>>

\* Mutant: takes a generator that was handed something for a finished one.
AbortUnread(from) == IF from = "reading" THEN "aborting" ELSE "dropping"

\* The finally of generate: abort unless the final output was handed out.
AfterQuit(from) == IF from = "finished" \/ close # "open" THEN "dropping" ELSE "aborting"

\* The consumer stops: the generator is closed at its yield or, if it is an
\* asynchronous one, cancelled while its thread waits in get.
Quit(r, n) ==
    /\ r \in Quitters
    /\ \E from \in {"reading", "yielded", "finished"} : Moves(r, n, from, AfterQuit(from))
    /\ UNCHANGED <<serviceVars, streams, RestOfClient>>

PutAbort(r, n) ==
    /\ IF close = "closed"
       THEN Moves(r, n, "aborting", "leaked") /\ UNCHANGED serviceVars
       ELSE Moves(r, n, "aborting", "dropping") /\ SendAbort(r)
    /\ UNCHANGED <<streams, RestOfClient>>

\* Mutant: leaves the stream registered.
KeepStream(r, n) ==
    /\ Moves(r, n, "dropping", "done")
    /\ UNCHANGED <<serviceVars, streams, RestOfClient>>

FinishStream(r, n) ==
    /\ Moves(r, n, "dropping", "done")
    /\ streams' = [streams EXCEPT ![r] = 0]
    /\ UNCHANGED <<serviceVars, RestOfClient>>

\* LLMEngine.abort and AsyncLLMEngine.abort, from any thread.
CallAbort(r) ==
    /\ aborts < MaxAborts
    /\ aborts' = aborts + 1
    /\ IF close = "open" THEN SendAbort(r) ELSE UNCHANGED serviceVars
    /\ UNCHANGED <<callVars, outq, batches, routeVars, close>>

-----------------------------------------------------------------------------
(* close *)

\* Mutant: does not tell the engine.
CloseSilently ==
    /\ close = "open"
    /\ close' = "joining"
    /\ UNCHANGED <<serviceVars, callVars, outq, batches, routeVars, aborts>>

CloseBegin ==
    /\ close = "open"
    /\ close' = "joining"
    /\ SendShutdown
    /\ UNCHANGED <<callVars, outq, batches, routeVars, aborts>>

\* The process ended within 10 s, or is terminated now.
CloseEnd ==
    /\ close = "joining"
    /\ close' = "closed"
    /\ status' = "down"
    /\ UNCHANGED <<cmds, sent, live, outs, closed, callVars, outq, batches, routeVars, aborts>>

-----------------------------------------------------------------------------
(* The router thread: _route_outputs *)

\* Mutant: looks for the number of the batch and forgets its rank.
CountedByNumber(b) == b # NoBatch /\ \A x \in seen : x[2] # b[2]

\* Does an event with the metrics of b count a batch?
Counts(b) == b # NoBatch /\ b \notin seen

\* Mutant: the stream of the first call with the id.
FirstStream(r) == IF streams[r] = 0 THEN 0 ELSE 1

StreamOf(r) == streams[r]

Route ==
    LET event == Head(outq)
        n     == IF event.metrics THEN 0 ELSE StreamOf(event.id)
    IN  /\ outq # <<>> /\ close # "closed"
        /\ outq' = Tail(outq)
        /\ seen' = seen \cup ({event.batch} \ {NoBatch})
        /\ total' = IF Counts(event.batch) THEN total + 1 ELSE total
        /\ stream' = IF n = 0 THEN stream
                     ELSE [stream EXCEPT ![event.id][n] =
                             Append(@, [sub |-> event.sub, final |-> event.final])]
        /\ UNCHANGED <<serviceVars, caller, streams, taken, batches, closeVars>>

-----------------------------------------------------------------------------
(* The engine *)

\* What the engine's step added to outs goes on the output queue, with the
\* metrics of batch b; several outputs of one step in any order.
Forward(b) ==
    LET new == {p \in Ids \X Submissions : Len(outs'[p[1]][p[2]]) > Len(outs[p[1]][p[2]])}
    IN  \E s \in SetToSeqs(new) :
           outq' = outq \o [i \in DOMAIN s |->
                     [metrics |-> FALSE, id |-> s[i][1], sub |-> s[i][2], batch |-> b,
                      final |-> Last(outs'[s[i][1]][s[i][2]])]]

HandleCommand(r) ==
    /\ Accept(r) \/ Reject(r) \/ Abort(r)
    /\ Forward(NoBatch)
    /\ UNCHANGED <<callVars, batches, routeVars, closeVars>>

\* Rank k has executed a batch: its metrics come first, alone.
ReportBatch(k) ==
    /\ status = "up" /\ batches[k] < MaxBatches
    /\ \E r \in Ids : live[r] # 0
    /\ batches' = [batches EXCEPT ![k] = @ + 1]
    /\ outq' = Append(outq, [metrics |-> TRUE, batch |-> <<k, batches[k] + 1>>])
    /\ UNCHANGED <<serviceVars, callVars, routeVars, closeVars>>

\* The last batch of each rank.
LastBatches == {<<k, batches[k]>> : k \in {j \in Ranks : batches[j] > 0}}

\* An output of the last batch of its rank, with the metrics, or an error, without.
Serve(r) ==
    /\ live[r] # 0
    /\ \/ /\ Len(outs[r][live[r]]) < MaxOutputs
          /\ Progress(r) /\ \E b \in LastBatches : Forward(b)
       \/ Answer(r) /\ \E b \in LastBatches \cup {NoBatch} : Forward(b)
    /\ UNCHANGED <<callVars, batches, routeVars, closeVars>>

EngineEnds ==
    /\ Stop \/ Fail
    /\ Forward(NoBatch)
    /\ UNCHANGED <<callVars, batches, routeVars, closeVars>>

-----------------------------------------------------------------------------

CallerStep(r, n) ==
    Register(r, n) \/ PutAdd(r, n) \/ Get(r, n) \/ Resume(r, n)
    \/ PutAbort(r, n) \/ FinishStream(r, n)

EngineStep(r) == HandleCommand(r) \/ Serve(r)

Next ==
    \/ \E c \in Calls : CheckOpen(c[1], c[2]) \/ CallerStep(c[1], c[2]) \/ Quit(c[1], c[2])
    \/ CloseBegin \/ CloseEnd \/ Route
    \/ EngineEnds \/ \E k \in Ranks : ReportBatch(k)
    \/ \E r \in Ids : CallAbort(r) \/ EngineStep(r)

Spec == Init /\ [][Next]_vars

\* Threads run, consumers consume, and the engine answers what it accepted
\* (EverySubmissionAnswered of EngineCore).  Nobody need call, quit or close.
FairSpec ==
    /\ Spec
    /\ \A c \in Calls : WF_vars(CallerStep(c[1], c[2]))
    /\ \A r \in Ids : WF_vars(HandleCommand(r)) /\ WF_vars(Serve(r))
    /\ WF_vars(Route) /\ WF_vars(CloseEnd)

-----------------------------------------------------------------------------
(* Properties. *)

Active == {"reading", "yielded", "finished", "aborting", "dropping"}

Answered(r, n) == outs[r][n] # <<>> /\ Last(outs[r][n])

\* Every variable of the client keeps its type.
ClientTypeOK ==
    /\ \A c \in Calls : taken[c[1]][c[2]] \in 0 .. Len(stream[c[1]][c[2]])
    /\ \A r \in Ids : streams[r] \in {0} \cup Submissions
    /\ seen \subseteq Executed /\ total \in Nat
    /\ close \in {"open", "joining", "closed"}
    /\ closed = (close # "open")

\* The router delivers to each call the outputs of that very submission, all of
\* them and in order, from the first one to where it has got.
ReadersSeeOwnOutputs ==
    \A c \in Calls :
        LET r == c[1]  n == c[2]
        IN  /\ \A i \in DOMAIN stream[r][n] : stream[r][n][i].sub = n
            /\ IsPrefix([i \in DOMAIN stream[r][n] |-> stream[r][n][i].final], outs[r][n])

\* No request runs on after its consumer left: a live submission has a caller
\* that will read or abort it, or an ABORT is on its way, or the engine is being
\* closed.
NoRequestWithoutReader ==
    \A r \in Ids : live[r] # 0 =>
        \/ caller[r][live[r]] \in {"reading", "yielded", "aborting"}
        \/ \E i \in DOMAIN cmds[r] : cmds[r][i].type = "ABORT"
        \/ closed

\* A stream stays registered only while its call is under way, so that the id
\* can be used again; the exceptions are a prompt that encode refuses and a
\* queue that was closed in between.
StreamsAreReleased ==
    \A r \in Ids : streams[r] # 0 =>
        caller[r][streams[r]] \in Active \cup {"registered", "leaked"}

\* Each executed batch is counted once, although its metrics arrive alone and
\* again with every output, and although other ranks have batches of the same
\* number.
BatchesCountedOnce ==
    total = Cardinality({b \in Executed :
               ~\E i \in DOMAIN outq : outq[i] = [metrics |-> TRUE, batch |-> b]})

\* Every reader comes to its end, unless the core went down without answering it
\* or the client was closed.
ReadersEnd ==
    \A c \in Calls :
        caller[c[1]][c[2]] = "reading" ~>
            \/ caller[c[1]][c[2]] \in {"done", "leaked"}
            \/ status = "down" /\ ~Answered(c[1], c[2])
            \/ close = "closed"
=============================================================================
