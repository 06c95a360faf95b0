---------------------------- MODULE DPCoordinator ----------------------------
(***************************************************************************)
(* The DPCoordinator process (engine/dp_coordinator.py) between the client *)
(* and one EngineCore per data-parallel rank.                              *)
(*                                                                         *)
(* The coordinator's control state is pc:                                  *)
(*   "parent"   _drain_parent_commands (a blocking get that times out and  *)
(*              a get_nowait on an empty queue both end the drain)         *)
(*   "outputs"  _drain_rank_outputs, at the queue of rank turn             *)
(*   "stop"     the finally of run(), at the SHUTDOWN for rank turn        *)
(*   "join"     waiting for the ranks, "done" after that                   *)
(*   "killed"   terminated by the client                                   *)
(*                                                                         *)
(* A rank is an EngineCore as RequestService describes it: it handles the  *)
(* commands of its queue in order and answers what it accepted.  A rank    *)
(* that fails answers its requests one after the other and ends; one that  *)
(* hangs (a core whose Worker is gone waits without a timeout) does no     *)
(* more steps.  The BatchMetrics the coordinator passes on are left out.   *)
(***************************************************************************)
EXTENDS Integers, Sequences, FiniteSets, Queues

CONSTANTS
    Ids,         \* request ids
    MaxAdds,     \* bound: submissions of one id
    NumRanks,    \* EngineConfig.data_parallel_size
    MaxAborts,   \* bound: ABORTs the client sends
    MaxOutputs,  \* bound: outputs of a submission before its final one
    CanFail      \* the ranks whose core may die of an exception, or wait for ever
                 \* for a Worker that is gone

Ranks == 1 .. NumRanks

Submissions == 1 .. MaxAdds

ASSUME CoordinatorConfig ==
    /\ NumRanks \in Nat \ {0} /\ MaxAdds \in Nat /\ MaxAborts \in Nat
    /\ MaxOutputs \in Nat /\ CanFail \subseteq Ranks

VARIABLES
    cmdq,          \* command_queue, from the client
    rankq,         \* rank_command_queues
    routq,         \* rank_output_queues
    request_ranks, \* id -> the rank it was sent to, 0 for none
    rank_load,     \* rank -> requests sent to it and not finished
    shutdown,      \* DPCoordinator._shutdown
    pc, turn,      \* where the coordinator is
    forwarded,     \* id -> submission -> the outputs passed on to the client
    rstate,        \* rank -> "up", "failing", "hung" or "down"
    rlive,         \* rank -> id -> the submission it has accepted, 0 for none
    outs,          \* id -> submission -> the outputs its rank has emitted
    rankOf,        \* id -> submission -> the rank that got its ADD
    adds, aborts, closed

tableVars == <<request_ranks, rank_load, forwarded, rankOf>>
coordVars == <<tableVars, shutdown, pc, turn>>
rankVars == <<rstate, rlive, outs>>
clientVars == <<adds, aborts, closed>>
vars == <<cmdq, rankq, routq, coordVars, rankVars, clientVars>>

PerSubmission(x) == [r \in Ids |-> [n \in Submissions |-> x]]

Init ==
    /\ cmdq = <<>>
    /\ rankq = [k \in Ranks |-> <<>>] /\ routq = [k \in Ranks |-> <<>>]
    /\ request_ranks = [r \in Ids |-> 0]
    /\ rank_load = [k \in Ranks |-> 0]
    /\ shutdown = FALSE
    /\ pc = "parent" /\ turn = 1
    /\ forwarded = PerSubmission(<<>>) /\ outs = PerSubmission(<<>>)
    /\ rankOf = PerSubmission(0)
    /\ rstate = [k \in Ranks |-> "up"]
    /\ rlive = [k \in Ranks |-> [r \in Ids |-> 0]]
    /\ adds = [r \in Ids |-> 0] /\ aborts = 0 /\ closed = FALSE

Command(type, r, n) == [type |-> type, id |-> r, sub |-> n]

ShutdownCommand == [type |-> "SHUTDOWN"]

-----------------------------------------------------------------------------
(* The client *)

SendAdd(r) ==
    /\ adds[r] < MaxAdds
    /\ adds' = [adds EXCEPT ![r] = @ + 1]
    /\ cmdq' = Append(cmdq, Command("ADD", r, adds[r] + 1))
    /\ UNCHANGED <<rankq, routq, coordVars, rankVars, aborts, closed>>

SendAbort(r) ==
    /\ aborts < MaxAborts
    /\ aborts' = aborts + 1
    /\ cmdq' = Append(cmdq, Command("ABORT", r, 0))
    /\ UNCHANGED <<rankq, routq, coordVars, rankVars, adds, closed>>

SendShutdown ==
    /\ ~closed
    /\ closed' = TRUE
    /\ cmdq' = Append(cmdq, ShutdownCommand)
    /\ UNCHANGED <<rankq, routq, coordVars, rankVars, adds, aborts>>

\* close() waited 10 s for the coordinator and terminates it, wherever it is; its
\* finally does not run and nobody tells its ranks.  The coordinator's own joins
\* began later, so with a rank that hangs this timeout is the first to run out.
TerminateCoordinator ==
    /\ closed
    /\ pc \notin {"done", "killed"}
    /\ pc' = "killed"
    /\ UNCHANGED <<cmdq, rankq, routq, tableVars, shutdown, turn, rankVars, clientVars>>

-----------------------------------------------------------------------------
(* _handle_command *)

NextCommand(type) ==
    /\ pc = "parent"
    /\ cmdq # <<>>
    /\ Head(cmdq).type = type
    /\ cmdq' = Tail(cmdq)

HandleShutdown ==
    /\ NextCommand("SHUTDOWN")
    /\ shutdown' = TRUE
    /\ UNCHANGED <<rankq, routq, tableVars, pc, turn, rankVars, clientVars>>

\* min over the ranks by load: the first of the least loaded.
LeastLoaded == CHOOSE k \in Ranks :
    /\ \A j \in Ranks : rank_load[k] <= rank_load[j]
    /\ \A j \in 1 .. (k - 1) : rank_load[k] < rank_load[j]

HandleAdd ==
    LET c == Head(cmdq)  k == LeastLoaded
    IN  /\ NextCommand("ADD")
        /\ request_ranks' = [request_ranks EXCEPT ![c.id] = k]
        /\ rank_load' = [rank_load EXCEPT ![k] = @ + 1]
        /\ rankq' = [rankq EXCEPT ![k] = Append(@, c)]
        /\ rankOf' = [rankOf EXCEPT ![c.id][c.sub] = k]
        /\ UNCHANGED <<routq, shutdown, pc, turn, forwarded, rankVars, clientVars>>

\* Mutant: asks the least loaded rank.
AbortAtLeastLoaded(r) == LeastLoaded

\* Where an ABORT goes; 0: nowhere.
AbortRank(r) == request_ranks[r]

HandleAbort ==
    LET c == Head(cmdq)  k == AbortRank(c.id)
    IN  /\ NextCommand("ABORT")
        /\ rankq' = IF k = 0 THEN rankq ELSE [rankq EXCEPT ![k] = Append(@, c)]
        /\ UNCHANGED <<routq, coordVars, rankVars, clientVars>>

ParentDrained ==
    /\ pc = "parent" /\ cmdq = <<>>
    /\ pc' = "outputs" /\ turn' = 1
    /\ UNCHANGED <<cmdq, rankq, routq, tableVars, shutdown, rankVars, clientVars>>

-----------------------------------------------------------------------------
(* _drain_rank_outputs *)

\* Mutant: forgets the rank after the first output.
ForgetAtOnce(output) == 0

\* The rank kept for the id of an output.
RankKept(output) == IF output.final THEN 0 ELSE request_ranks[output.id]

\* Mutant: every output takes one off the load.
LoadAfterAny(k, output) == rank_load[k] - 1

LoadAfter(k, output) ==
    IF output.final /\ rank_load[k] > 0 THEN rank_load[k] - 1 ELSE rank_load[k]

ForwardOutput ==
    LET output == Head(routq[turn])
    IN  /\ pc = "outputs" /\ routq[turn] # <<>>
        /\ routq' = [routq EXCEPT ![turn] = Tail(@)]
        /\ forwarded' = [forwarded EXCEPT ![output.id][output.sub] = Append(@, output.final)]
        /\ request_ranks' = [request_ranks EXCEPT ![output.id] = RankKept(output)]
        /\ rank_load' = [rank_load EXCEPT ![turn] = LoadAfter(turn, output)]
        /\ UNCHANGED <<cmdq, rankq, shutdown, pc, turn, rankOf, rankVars, clientVars>>

\* Mutant: the loop leaves out the rank behind the first.
OtherRanks == {}

\* The ranks whose queues are still to be read in this round.
RanksAfter == {k \in Ranks : k > turn}

\* A rank's queue is empty; behind the last one the loop of run() starts again
\* or, after a SHUTDOWN, ends.
RankDrained ==
    /\ pc = "outputs" /\ routq[turn] = <<>>
    /\ IF RanksAfter # {} THEN turn' = turn + 1 /\ UNCHANGED pc
       ELSE pc' = (IF shutdown THEN "stop" ELSE "parent") /\ turn' = 1
    /\ UNCHANGED <<cmdq, rankq, routq, tableVars, shutdown, rankVars, clientVars>>

-----------------------------------------------------------------------------
(* The finally of run() *)

StopRank ==
    /\ pc = "stop"
    /\ rankq' = [rankq EXCEPT ![turn] = Append(@, ShutdownCommand)]
    /\ IF turn < NumRanks THEN turn' = turn + 1 /\ UNCHANGED pc
       ELSE pc' = "join" /\ UNCHANGED turn
    /\ UNCHANGED <<cmdq, routq, tableVars, shutdown, rankVars, clientVars>>

\* Mutant: a join without a timeout.
TerminateNever(k) == FALSE

\* join(timeout=10) ran out for a rank: it is terminated.
TerminateRank(k) ==
    /\ pc = "join" /\ rstate[k] # "down"
    /\ \A j \in 1 .. (k - 1) : rstate[j] = "down"
    /\ rstate' = [rstate EXCEPT ![k] = "down"]
    /\ UNCHANGED <<cmdq, rankq, routq, coordVars, rlive, outs, clientVars>>

RanksJoined ==
    /\ pc = "join" /\ \A k \in Ranks : rstate[k] = "down"
    /\ pc' = "done"
    /\ UNCHANGED <<cmdq, rankq, routq, tableVars, shutdown, turn, rankVars, clientVars>>

CoordinatorStep ==
    \/ HandleShutdown \/ HandleAdd \/ HandleAbort \/ ParentDrained
    \/ ForwardOutput \/ RankDrained \/ StopRank \/ RanksJoined

-----------------------------------------------------------------------------
(* A rank *)

Emit(k, r, n, final) ==
    /\ routq' = [routq EXCEPT ![k] = Append(@, [id |-> r, sub |-> n, final |-> final])]
    /\ outs' = [outs EXCEPT ![r][n] = Append(@, final)]

Idle == UNCHANGED <<cmdq, coordVars, clientVars>>

RankCommand(k, type) ==
    /\ rstate[k] = "up" /\ rankq[k] # <<>>
    /\ Head(rankq[k]).type = type
    /\ rankq' = [rankq EXCEPT ![k] = Tail(@)]

RankAccepts(k) ==
    LET c == Head(rankq[k])
    IN  /\ RankCommand(k, "ADD")
        /\ rlive[k][c.id] = 0
        /\ rlive' = [rlive EXCEPT ![k][c.id] = c.sub]
        /\ UNCHANGED <<routq, rstate, outs>> /\ Idle

RankRejects(k) ==
    LET c == Head(rankq[k])
    IN  /\ RankCommand(k, "ADD")
        /\ Emit(k, c.id, c.sub, TRUE)
        /\ UNCHANGED <<rstate, rlive>> /\ Idle

RankAborts(k) ==
    LET r == Head(rankq[k]).id
    IN  /\ RankCommand(k, "ABORT")
        /\ IF rlive[k][r] = 0 THEN UNCHANGED <<routq, outs, rlive>>
           ELSE Emit(k, r, rlive[k][r], TRUE) /\ rlive' = [rlive EXCEPT ![k][r] = 0]
        /\ UNCHANGED rstate /\ Idle

RankProgress(k, r) ==
    /\ rstate[k] = "up" /\ rlive[k][r] # 0
    /\ Len(outs[r][rlive[k][r]]) < MaxOutputs
    /\ Emit(k, r, rlive[k][r], FALSE)
    /\ UNCHANGED <<rankq, rstate, rlive>> /\ Idle

\* A final output; a failing rank does this for each of its requests.
RankAnswers(k, r) ==
    /\ rstate[k] \in {"up", "failing"} /\ rlive[k][r] # 0
    /\ Emit(k, r, rlive[k][r], TRUE)
    /\ rlive' = [rlive EXCEPT ![k][r] = 0]
    /\ UNCHANGED <<rankq, rstate>> /\ Idle

RankFails(k) ==
    /\ k \in CanFail /\ rstate[k] = "up"
    /\ \E state \in {"failing", "hung"} : rstate' = [rstate EXCEPT ![k] = state]
    /\ UNCHANGED <<rankq, routq, rlive, outs>> /\ Idle

RankEnds(k) ==
    /\ \/ /\ rstate[k] = "failing" /\ \A r \in Ids : rlive[k][r] = 0
          /\ UNCHANGED rankq
       \/ RankCommand(k, "SHUTDOWN")
    /\ rstate' = [rstate EXCEPT ![k] = "down"]
    /\ UNCHANGED <<routq, rlive, outs>> /\ Idle

RankHandles(k) == RankAccepts(k) \/ RankRejects(k) \/ RankAborts(k) \/ RankEnds(k)

RankServes(k, r) == RankProgress(k, r) \/ RankAnswers(k, r)

Next ==
    \/ CoordinatorStep \/ SendShutdown \/ TerminateCoordinator
    \/ \E r \in Ids : SendAdd(r) \/ SendAbort(r)
    \/ \E k \in Ranks : RankHandles(k) \/ RankFails(k) \/ TerminateRank(k)
    \/ \E k \in Ranks, r \in Ids : RankServes(k, r)

Spec == Init /\ [][Next]_vars

\* The coordinator and the ranks run whenever they can, also the ranks of a
\* coordinator that was terminated.  The client need not lose its patience.
FairSpec ==
    /\ Spec
    /\ WF_vars(CoordinatorStep)
    /\ \A k \in Ranks : /\ WF_vars(RankHandles(k)) /\ WF_vars(TerminateRank(k))
                        /\ \A r \in Ids : WF_vars(RankServes(k, r))

-----------------------------------------------------------------------------
(* Properties. *)

Answered(log, r, n) == log[r][n] # <<>> /\ Last(log[r][n])

\* The submissions a rank was sent and has not answered.
PendingAt(k) ==
    {p \in Ids \X Submissions : rankOf[p[1]][p[2]] = k /\ ~Answered(outs, p[1], p[2])}

\* Those whose final output the client has not got.
OutstandingAt(k) ==
    {p \in Ids \X Submissions : rankOf[p[1]][p[2]] = k /\ ~Answered(forwarded, p[1], p[2])}

\* A rank's load is the number of requests it was sent whose final output has
\* not been passed on: it never drifts, never needs its floor of zero, and so
\* the next request goes to a rank that really has the least to do.
LoadIsOutstanding ==
    \A k \in Ranks : rank_load[k] = Cardinality(OutstandingAt(k))

\* As long as a rank has not answered a request, the coordinator knows which
\* rank that is, so that an ABORT reaches it.
AbortFindsItsRank ==
    \A k \in Ranks : \A p \in PendingAt(k) : request_ranks[p[1]] = k

\* A request is answered, and the client gets the answer, unless its own rank
\* died or hangs or the engine is being closed: the failure of another rank, or
\* requests stuck at it, do not matter (run() reads every rank's queue in turn).
LiveRanksAnswer ==
    \A r \in Ids : \A n \in Submissions :
        (adds[r] >= n) ~> (\/ Answered(forwarded, r, n) \/ closed
                           \/ \E k \in Ranks : rankOf[r][n] = k /\ rstate[k] \in {"hung", "down"})

\* The coordinator has put a SHUTDOWN that rank k did not read.
Told(k) == \E i \in DOMAIN rankq[k] : rankq[k][i] = ShutdownCommand

\* Closing the engine ends the coordinator, and the ranks with it.  A coordinator
\* that the client terminates may leave ranks behind, but only those that hang and
\* those it had not told yet: a rank that was told ends by itself.
RanksShutDown ==
    closed ~> /\ pc \in {"done", "killed"}
              /\ \A k \in Ranks :
                    \/ rstate[k] = "down"
                    \/ pc = "killed" /\ (rstate[k] = "hung" \/ ~Told(k))

-----------------------------------------------------------------------------
(* What a client sees that uses every id once. *)

OrdersOf(r) == {Command("ABORT", r, 0)} \cup {Command("ADD", r, n) : n \in Submissions}

\* The rank that got the only submission of r, 0 before that.
Home(r) == rankOf[r][1]

\* What its rank, and what the coordinator has not read of the commands about r.
AtRank(r) == IF Home(r) = 0 THEN <<>> ELSE Only(rankq[Home(r)], OrdersOf(r))

AtCoordinator(r) == Only(cmdq, OrdersOf(r))

CmdsOf(r) == AtRank(r) \o AtCoordinator(r)

LiveSub(r) == IF Home(r) = 0 THEN 0 ELSE rlive[Home(r)][r]

\* The ranks of a terminated coordinator may still take steps.
Status == IF pc = "done" THEN "down" ELSE "up"

Service == INSTANCE RequestService WITH
    cmds   <- [r \in Ids |-> CmdsOf(r)],
    sent   <- [r \in Ids |-> 1 .. adds[r]],
    live   <- [r \in Ids |-> LiveSub(r)],
    status <- Status

\* To clients that use every id once, the coordinator and its ranks together are
\* one engine: they implement RequestService.
ImplementsRequestService == Service!ServiceSpec
=============================================================================
