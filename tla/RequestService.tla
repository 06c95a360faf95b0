---------------------------- MODULE RequestService ----------------------------
(***************************************************************************)
(* What an engine promises the client, with no scheduler, no cache, no     *)
(* batches and no ranks: commands about one id are handled in the order    *)
(* they were sent, at most one submission of an id is live, a submission   *)
(* is rejected or accepted once, an accepted one gets outputs of its own   *)
(* up to one final output, an ABORT ends exactly the live submission, and  *)
(* a core that fails answers everyone it had accepted.  A core that is     *)
(* closed just stops: what is still live then is never answered.           *)
(*                                                                         *)
(* EngineCore (one rank) and DPCoordinator (several) are shown to          *)
(* implement this specification; Client is composed with it.               *)
(***************************************************************************)
EXTENDS Integers, Sequences

CONSTANTS
    Ids,     \* request ids
    MaxAdds  \* bound: submissions of one id

VARIABLES
    cmds,    \* id -> its commands on the way to the engine
    sent,    \* id -> the submissions whose ADD was sent
    live,    \* id -> the accepted, unanswered submission, 0 if there is none
    outs,    \* id -> submission -> for each of its outputs, is it final?
    closed,  \* SHUTDOWN was sent
    status   \* "up", or "down" once the engine takes no more steps

serviceVars == <<cmds, sent, live, outs, closed, status>>

Submissions == 1 .. MaxAdds

ServiceInit ==
    /\ cmds = [r \in Ids |-> <<>>]
    /\ sent = [r \in Ids |-> {}]
    /\ live = [r \in Ids |-> 0]
    /\ outs = [r \in Ids |-> [n \in Submissions |-> <<>>]]
    /\ closed = FALSE
    /\ status = "up"

Command(type, r, sub) == [type |-> type, id |-> r, sub |-> sub]

Emit(r, n, final) == outs' = [outs EXCEPT ![r][n] = Append(@, final)]

-----------------------------------------------------------------------------
(* What the client sends. *)

SendAdd(r, n) ==
    /\ n \notin sent[r]
    /\ sent' = [sent EXCEPT ![r] = @ \cup {n}]
    /\ cmds' = [cmds EXCEPT ![r] = Append(@, Command("ADD", r, n))]
    /\ UNCHANGED <<live, outs, closed, status>>

SendAbort(r) ==
    /\ cmds' = [cmds EXCEPT ![r] = Append(@, Command("ABORT", r, 0))]
    /\ UNCHANGED <<sent, live, outs, closed, status>>

SendShutdown ==
    /\ closed' = TRUE
    /\ UNCHANGED <<cmds, sent, live, outs, status>>

-----------------------------------------------------------------------------
(* What the engine does. *)

NextIs(type, r) ==
    /\ status = "up"
    /\ cmds[r] # <<>>
    /\ Head(cmds[r]).type = type
    /\ cmds' = [cmds EXCEPT ![r] = Tail(@)]

Accept(r) ==
    /\ NextIs("ADD", r)
    /\ live[r] = 0
    /\ live' = [live EXCEPT ![r] = Head(cmds[r]).sub]
    /\ UNCHANGED <<sent, outs, closed, status>>

\* Always for an id that is live, otherwise as the engine sees fit.
Reject(r) ==
    /\ NextIs("ADD", r)
    /\ Emit(r, Head(cmds[r]).sub, TRUE)
    /\ UNCHANGED <<sent, live, closed, status>>

Abort(r) ==
    /\ NextIs("ABORT", r)
    /\ IF live[r] = 0 THEN UNCHANGED <<outs, live>>
       ELSE Emit(r, live[r], TRUE) /\ live' = [live EXCEPT ![r] = 0]
    /\ UNCHANGED <<sent, closed, status>>

Progress(r) ==
    /\ status = "up" /\ live[r] # 0
    /\ Emit(r, live[r], FALSE)
    /\ UNCHANGED <<cmds, sent, live, closed, status>>

Answer(r) ==
    /\ status = "up" /\ live[r] # 0
    /\ Emit(r, live[r], TRUE)
    /\ live' = [live EXCEPT ![r] = 0]
    /\ UNCHANGED <<cmds, sent, closed, status>>

Stop ==
    /\ closed /\ status = "up"
    /\ status' = "down"
    /\ UNCHANGED <<cmds, sent, live, outs, closed>>

Fail ==
    /\ status = "up"
    /\ status' = "down"
    /\ outs' = [r \in Ids |-> [n \in Submissions |->
                  IF n = live[r] THEN Append(outs[r][n], TRUE) ELSE outs[r][n]]]
    /\ live' = [r \in Ids |-> 0]
    /\ UNCHANGED <<cmds, sent, closed>>

ServiceNext ==
    \/ SendShutdown \/ Stop \/ Fail
    \/ \E r \in Ids :
          \/ \E n \in Submissions : SendAdd(r, n)
          \/ SendAbort(r)
          \/ Accept(r) \/ Reject(r) \/ Abort(r) \/ Progress(r) \/ Answer(r)

ServiceSpec == ServiceInit /\ [][ServiceNext]_serviceVars
=============================================================================
