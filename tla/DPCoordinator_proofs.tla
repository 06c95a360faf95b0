------------------------- MODULE DPCoordinator_proofs -------------------------
(***************************************************************************)
(* The coordinator's two tables, proved for any number of ranks, requests, *)
(* submissions and failures: rank_load counts what a rank still owes, and, *)
(* as long as no id is used twice, request_ranks knows where a request is. *)
(*                                                                         *)
(* Both rest on where a submission is on its way (CourseInv): its ADD is   *)
(* in one queue, once; only the rank that got it emits its outputs; behind *)
(* a final output no other follows, and none was passed on before.         *)
(*                                                                         *)
(* With one use of each id, all commands of an id take the same way, and   *)
(* the coordinator with its ranks implements RequestService.               *)
(***************************************************************************)
EXTENDS DPCoordinator, Basics_proofs

Add(r, n) == Command("ADD", r, n)

Commands ==
    {ShutdownCommand} \cup {Command("ABORT", r, 0) : r \in Ids}
        \cup {Add(r, n) : r \in Ids, n \in Submissions}

Events == [id : Ids, sub : Submissions, final : BOOLEAN]

Logs == [Ids -> [Submissions -> Seq(BOOLEAN)]]

Types ==
    /\ cmdq \in Seq(Commands)
    /\ rankq \in [Ranks -> Seq(Commands)] /\ routq \in [Ranks -> Seq(Events)]
    /\ request_ranks \in [Ids -> 0 .. NumRanks] /\ rank_load \in [Ranks -> Nat]
    /\ turn \in Ranks
    /\ forwarded \in Logs /\ outs \in Logs
    /\ rlive \in [Ranks -> [Ids -> 0 .. MaxAdds]]
    /\ rankOf \in [Ids -> [Submissions -> 0 .. NumRanks]]
    /\ adds \in [Ids -> 0 .. MaxAdds]

Has(q, c) == \E i \in DOMAIN q : q[i] = c

Once(q, c) == \A i, j \in DOMAIN q : q[i] = c /\ q[j] = c => i = j

Of(e, r, n) == e.id = r /\ e.sub = n

\* Outputs, and a final output, of a submission on a rank's queue.
Coming(q, r, n) == \E i \in DOMAIN q : Of(q[i], r, n)

FinalComing(q, r, n) == \E i \in DOMAIN q : Of(q[i], r, n) /\ q[i].final

\* A final output is the last one of its submission on the queue.
FinalsLast(q) ==
    \A i, j \in DOMAIN q : q[i].final /\ Of(q[j], q[i].id, q[i].sub) => j <= i

\* The rank still has to answer the submission.
Open(k, r, n) == Has(rankq[k], Add(r, n)) \/ rlive[k][r] = n

\* Submission n of r, before it is handed to a rank.
Unsent(r, n) ==
    /\ Once(cmdq, Add(r, n))
    /\ Has(cmdq, Add(r, n)) => rankOf[r][n] = 0 /\ n <= adds[r]
    /\ rankOf[r][n] # 0 => n <= adds[r]
    /\ rankOf[r][n] = 0 => ~Answered(outs, r, n) /\ ~Answered(forwarded, r, n)

\* Submission n of r at rank k.
Course(k, r, n) ==
    /\ Once(rankq[k], Add(r, n))
    /\ Has(rankq[k], Add(r, n)) => rlive[k][r] # n
    /\ Open(k, r, n) \/ Coming(routq[k], r, n) => rankOf[r][n] = k /\ ~Answered(forwarded, r, n)
    /\ Open(k, r, n) => ~FinalComing(routq[k], r, n) /\ ~Answered(outs, r, n)
    /\ FinalComing(routq[k], r, n) => Answered(outs, r, n)

CourseInv ==
    /\ Types
    /\ \A r \in Ids, n \in Submissions : Unsent(r, n)
    /\ \A k \in Ranks, r \in Ids, n \in Submissions : Course(k, r, n)
    /\ \A k \in Ranks : FinalsLast(routq[k])

LoadInv ==
    \A k \in Ranks : /\ IsFiniteSet(OutstandingAt(k))
                     /\ rank_load[k] = Cardinality(OutstandingAt(k))

\* With one use of each id.
PlaceInv ==
    \A r \in Ids, n \in Submissions :
        rankOf[r][n] # 0 /\ ~Answered(outs, r, n) => request_ranks[r] = rankOf[r][n]

-----------------------------------------------------------------------------
(* Queues *)

\* What Append does to what a queue has.
LEMMA HasAppend ==
    ASSUME NEW S, NEW q \in Seq(S), NEW e \in S, NEW c
    PROVE  /\ Has(Append(q, e), c) <=> Has(q, c) \/ e = c
           /\ Once(q, c) /\ (e = c => ~Has(q, c)) => Once(Append(q, e), c)
<1> DEFINE p == Append(q, e)
<1>1. /\ Len(p) = Len(q) + 1 /\ DOMAIN p = 1 .. Len(q) + 1 /\ DOMAIN q = 1 .. Len(q)
      /\ \A i \in DOMAIN q : p[i] = q[i]
      /\ p[Len(q) + 1] = e /\ Len(q) \in Nat
  OBVIOUS
<1> HIDE DEF p
<1>2. \A i \in DOMAIN p : i \in DOMAIN q \/ i = Len(q) + 1
  BY <1>1
<1>3. DOMAIN q \subseteq DOMAIN p /\ Len(q) + 1 \in DOMAIN p
  BY <1>1
<1>4. Has(p, c) <=> Has(q, c) \/ e = c
  BY <1>1, <1>2, <1>3 DEF Has
<1>5. Once(q, c) /\ (e = c => ~Has(q, c)) => Once(p, c)
  BY <1>1, <1>2 DEF Once, Has
<1>6. QED
  BY <1>4, <1>5 DEF p

\* The positions of the tail of a queue.
LEMMA TailPositions ==
    ASSUME NEW S, NEW q \in Seq(S), q # <<>>
    PROVE  /\ Tail(q) \in Seq(S) /\ Head(q) \in S /\ 1 \in DOMAIN q /\ q[1] = Head(q)
           /\ \A i \in DOMAIN Tail(q) : /\ i \in Nat \ {0} /\ i + 1 \in DOMAIN q
                                        /\ Tail(q)[i] = q[i + 1]
           /\ \A i \in DOMAIN q : i # 1 => i - 1 \in DOMAIN Tail(q) /\ q[i] = Tail(q)[i - 1]
<1>1. /\ Len(q) \in Nat \ {0} /\ Len(Tail(q)) = Len(q) - 1 /\ Tail(q) \in Seq(S)
      /\ DOMAIN q = 1 .. Len(q) /\ DOMAIN Tail(q) = 1 .. Len(q) - 1
      /\ \A i \in 1 .. Len(q) - 1 : Tail(q)[i] = q[i + 1]
  OBVIOUS
<1>2. Head(q) \in S /\ Head(q) = q[1]
  OBVIOUS
<1>3. QED
  BY <1>1, <1>2

\* What is taken off a queue: nothing new appears, and what it had once is gone.
LEMMA HasTail ==
    ASSUME NEW S, NEW q \in Seq(S), q # <<>>, NEW c
    PROVE  /\ Has(Tail(q), c) => Has(q, c)
           /\ Has(q, Head(q))
           /\ Once(q, c) => Once(Tail(q), c)
           /\ Once(q, Head(q)) => ~Has(Tail(q), Head(q))
           /\ Has(q, c) /\ c # Head(q) => Has(Tail(q), c)
<1> DEFINE t == Tail(q)
           h == Head(q)
<1>1. /\ 1 \in DOMAIN q /\ q[1] = h
      /\ \A i \in DOMAIN t : i \in Nat \ {0} /\ i + 1 \in DOMAIN q /\ t[i] = q[i + 1]
      /\ \A i \in DOMAIN q : i # 1 => i - 1 \in DOMAIN t /\ q[i] = t[i - 1]
  BY TailPositions
<1> HIDE DEF t, h
<1>2. (Has(t, c) => Has(q, c)) /\ Has(q, h)
  BY <1>1 DEF Has
<1>3. Once(q, c) => Once(t, c)
  <2> SUFFICES ASSUME Once(q, c), NEW i \in DOMAIN t, NEW j \in DOMAIN t, t[i] = c, t[j] = c
               PROVE  i = j
    BY DEF Once
  <2>1. i + 1 = j + 1
    BY <1>1 DEF Once
  <2>2. QED
    BY <1>1, <2>1
<1>4. Once(q, h) => ~Has(t, h)
  <2> SUFFICES ASSUME Once(q, h), NEW i \in DOMAIN t, t[i] = h
               PROVE  FALSE
    BY DEF Has
  <2>1. i + 1 = 1
    BY <1>1 DEF Once
  <2>2. QED
    BY <1>1, <2>1
<1>5. Has(q, c) /\ c # h => Has(t, c)
  BY <1>1 DEF Has
<1>6. QED
  BY <1>2, <1>3, <1>4, <1>5 DEF t, h

\* What an emitted output does to a rank's output queue.
LEMMA ComingAppend ==
    ASSUME NEW q \in Seq(Events), NEW e \in Events, FinalsLast(q), ~FinalComing(q, e.id, e.sub),
           NEW r \in Ids, NEW n \in Submissions
    PROVE  /\ Append(q, e) \in Seq(Events) /\ FinalsLast(Append(q, e))
           /\ Coming(Append(q, e), r, n) <=> Coming(q, r, n) \/ Of(e, r, n)
           /\ FinalComing(Append(q, e), r, n) <=> FinalComing(q, r, n) \/ (Of(e, r, n) /\ e.final)
<1> DEFINE p == Append(q, e)
<1>1. /\ p \in Seq(Events) /\ DOMAIN p = 1 .. Len(q) + 1 /\ DOMAIN q = 1 .. Len(q)
      /\ \A i \in DOMAIN q : p[i] = q[i]
      /\ p[Len(q) + 1] = e /\ Len(q) \in Nat
  OBVIOUS
<1> HIDE DEF p
<1>2. \A i \in DOMAIN p : i \in DOMAIN q \/ i = Len(q) + 1
  BY <1>1
<1>3. DOMAIN q \subseteq DOMAIN p /\ Len(q) + 1 \in DOMAIN p
  BY <1>1
<1>4. Coming(p, r, n) <=> Coming(q, r, n) \/ Of(e, r, n)
  BY <1>1, <1>2, <1>3 DEF Coming
<1>5. FinalComing(p, r, n) <=> FinalComing(q, r, n) \/ (Of(e, r, n) /\ e.final)
  BY <1>1, <1>2, <1>3 DEF FinalComing
<1>6. FinalsLast(p)
  <2> SUFFICES ASSUME NEW i \in DOMAIN p, NEW j \in DOMAIN p,
                      p[i].final, Of(p[j], p[i].id, p[i].sub)
               PROVE  j <= i
    BY DEF FinalsLast
  <2>1. CASE i \in DOMAIN q /\ j \in DOMAIN q
    BY <1>1, <2>1 DEF FinalsLast
  <2>2. CASE i \in DOMAIN q /\ j = Len(q) + 1
    <3>1. Of(q[i], e.id, e.sub) /\ q[i].final
      BY <1>1, <2>2 DEF Of
    <3>2. QED
      BY <2>2, <3>1 DEF FinalComing
  <2>3. CASE i = Len(q) + 1
    BY <1>1, <2>3
  <2>4. QED
    BY <1>2, <2>1, <2>2, <2>3
<1>7. QED
  BY <1>1, <1>4, <1>5, <1>6 DEF p

\* What passing on the first output does to a rank's output queue: behind a final
\* one nothing of its submission is left.
LEMMA ComingTail ==
    ASSUME NEW q \in Seq(Events), q # <<>>, FinalsLast(q), NEW r \in Ids, NEW n \in Submissions
    PROVE  /\ FinalsLast(Tail(q))
           /\ Coming(Tail(q), r, n) => Coming(q, r, n)
           /\ FinalComing(Tail(q), r, n) => FinalComing(q, r, n)
           /\ Of(Head(q), r, n) => Coming(q, r, n)
           /\ Of(Head(q), r, n) /\ Head(q).final
                => FinalComing(q, r, n) /\ ~Coming(Tail(q), r, n)
<1> DEFINE t == Tail(q)
           h == Head(q)
<1>1. /\ 1 \in DOMAIN q /\ q[1] = h
      /\ \A i \in DOMAIN t : i \in Nat \ {0} /\ i + 1 \in DOMAIN q /\ t[i] = q[i + 1]
  BY TailPositions
<1> HIDE DEF t, h
<1>2. FinalsLast(t)
  <2> SUFFICES ASSUME NEW i \in DOMAIN t, NEW j \in DOMAIN t,
                      t[i].final, Of(t[j], t[i].id, t[i].sub)
               PROVE  j <= i
    BY DEF FinalsLast
  <2>1. j + 1 <= i + 1
    BY <1>1 DEF FinalsLast
  <2>2. QED
    BY <1>1, <2>1
<1>3. /\ Coming(t, r, n) => Coming(q, r, n)
      /\ FinalComing(t, r, n) => FinalComing(q, r, n)
      /\ Of(h, r, n) => Coming(q, r, n)
      /\ Of(h, r, n) /\ h.final => FinalComing(q, r, n)
  BY <1>1 DEF Coming, FinalComing
<1>4. Of(h, r, n) /\ h.final => ~Coming(t, r, n)
  <2> SUFFICES ASSUME Of(h, r, n), h.final, NEW i \in DOMAIN t, Of(t[i], r, n)
               PROVE  FALSE
    BY DEF Coming
  <2>1. q[1].final /\ Of(q[i + 1], q[1].id, q[1].sub)
    BY <1>1 DEF Of
  <2>2. i + 1 <= 1
    BY <1>1, <2>1 DEF FinalsLast
  <2>3. QED
    BY <1>1, <2>2
<1>5. QED
  BY <1>2, <1>3, <1>4 DEF t, h

\* A log that gets one more output of submission n of r.
Logged(log, r, n, final) == [log EXCEPT ![r][n] = Append(@, final)]

\* It is answered if that one is final; the others are as they were.
LEMMA LoggedAnswered ==
    ASSUME NEW log \in Logs, NEW r \in Ids, NEW n \in Submissions, NEW final \in BOOLEAN
    PROVE  /\ Logged(log, r, n, final) \in Logs
           /\ Answered(Logged(log, r, n, final), r, n) <=> final
           /\ \A s \in Ids, m \in Submissions : s # r \/ m # n =>
                (Answered(Logged(log, r, n, final), s, m) <=> Answered(log, s, m))
<1> DEFINE new == Append(log[r][n], final)
           row == [log[r] EXCEPT ![n] = new]
           upd == [log EXCEPT ![r] = row]
<1>1. Logged(log, r, n, final) = upd
  BY DEF Logged, Logs
<1>2. log[r] \in [Submissions -> Seq(BOOLEAN)] /\ log[r][n] \in Seq(BOOLEAN)
  BY DEF Logs
<1>3. new \in Seq(BOOLEAN) /\ Len(new) = Len(log[r][n]) + 1 /\ Len(log[r][n]) \in Nat
  BY <1>2
<1>4. new[Len(new)] = final
  BY <1>2
<1> HIDE DEF new
<1>5. row \in [Submissions -> Seq(BOOLEAN)] /\ row[n] = new
      /\ \A m \in Submissions : m # n => row[m] = log[r][m]
  BY <1>2, <1>3
<1> HIDE DEF row
<1>6. upd \in Logs /\ upd[r] = row /\ \A s \in Ids : s # r => upd[s] = log[s]
  BY <1>5 DEF Logs
<1> HIDE DEF upd
<1>7. upd[r][n] = new
  BY <1>5, <1>6
<1>8. new # <<>> /\ Last(new) = final
  BY <1>3, <1>4 DEF Last
<1>9. Answered(upd, r, n) <=> final
  BY <1>7, <1>8 DEF Answered
<1>10. ASSUME NEW s \in Ids, NEW m \in Submissions, s # r \/ m # n
       PROVE  Answered(upd, s, m) <=> Answered(log, s, m)
  <2>1. upd[s][m] = log[s][m]
    BY <1>5, <1>6, <1>10
  <2>2. QED
    BY <2>1 DEF Answered
<1>11. QED
  BY <1>1, <1>6, <1>9, <1>10

-----------------------------------------------------------------------------
(* Commands *)

\* The three kinds of commands are told apart by their type, and an ADD names its
\* request and submission.
LEMMA CommandKinds ==
    /\ \A c \in Commands :
        /\ c.type = "ADD" => c.id \in Ids /\ c.sub \in Submissions /\ c = Add(c.id, c.sub)
        /\ c.type = "ABORT" => c.id \in Ids
    /\ \A r \in Ids, n \in Submissions :
        /\ Add(r, n) \in Commands /\ Add(r, n).type = "ADD"
        /\ \A s \in Ids, m \in Submissions : Add(r, n) = Add(s, m) => r = s /\ n = m
    /\ \A r \in Ids : Command("ABORT", r, 0) \in Commands /\ Command("ABORT", r, 0).type = "ABORT"
    /\ ShutdownCommand \in Commands /\ ShutdownCommand.type = "SHUTDOWN"
<1>1. \A r \in Ids, n \in Submissions :
        /\ Add(r, n) \in Commands /\ Add(r, n).type = "ADD"
        /\ Add(r, n).id = r /\ Add(r, n).sub = n
  <2>1. \A r \in Ids, n \in Submissions : Add(r, n) \in Commands
    BY DEF Commands
  <2>2. \A r, n : Add(r, n).type = "ADD" /\ Add(r, n).id = r /\ Add(r, n).sub = n
    BY DEF Add, Command
  <2>3. QED
    BY <2>1, <2>2
<1>2. \A r \in Ids : /\ Command("ABORT", r, 0) \in Commands
                     /\ Command("ABORT", r, 0).type = "ABORT" /\ Command("ABORT", r, 0).id = r
  BY DEF Commands, Command
<1>3. ShutdownCommand \in Commands /\ ShutdownCommand.type = "SHUTDOWN"
  BY DEF Commands, ShutdownCommand
<1>4. \A r \in Ids, n \in Submissions, s \in Ids, m \in Submissions :
        Add(r, n) = Add(s, m) => r = s /\ n = m
  BY <1>1
<1>5. \A c \in Commands : \/ c = ShutdownCommand
                          \/ \E r \in Ids : c = Command("ABORT", r, 0)
                          \/ \E r \in Ids, n \in Submissions : c = Add(r, n)
  BY DEF Commands
<1>6. \A c \in Commands :
        /\ c.type = "ADD" => c.id \in Ids /\ c.sub \in Submissions /\ c = Add(c.id, c.sub)
        /\ c.type = "ABORT" => c.id \in Ids
  <2> SUFFICES ASSUME NEW c \in Commands
               PROVE  /\ c.type = "ADD" => c.id \in Ids /\ c.sub \in Submissions /\ c = Add(c.id, c.sub)
                      /\ c.type = "ABORT" => c.id \in Ids
    OBVIOUS
  <2>1. CASE c = ShutdownCommand
    BY <1>3, <2>1
  <2>2. CASE \E r \in Ids : c = Command("ABORT", r, 0)
    BY <1>2, <2>2
  <2>3. CASE \E r \in Ids, n \in Submissions : c = Add(r, n)
    BY <1>1, <2>3
  <2>4. QED
    BY <1>5, <2>1, <2>2, <2>3
<1>7. QED
  BY <1>1, <1>2, <1>3, <1>4, <1>6

\* The command of type SHUTDOWN is the only one.
LEMMA ShutdownKind == \A c \in Commands : c.type = "SHUTDOWN" => c = ShutdownCommand
BY DEF Commands, Add, Command

\* A command of type ABORT is the ABORT of its id.
LEMMA AbortKind ==
    \A c \in Commands : c.type = "ABORT" => c.id \in Ids /\ c = Command("ABORT", c.id, 0)
BY DEF Commands, Add, Command, ShutdownCommand

\* The number of ranks and of submissions.
LEMMA Counts ==
    /\ NumRanks \in Nat \ {0} /\ MaxAdds \in Nat
    /\ Ranks = 1 .. NumRanks /\ Submissions = 1 .. MaxAdds
    /\ Ranks \subseteq (0 .. NumRanks) \ {0} /\ Submissions \subseteq (0 .. MaxAdds) \ {0}
BY CoordinatorConfig DEF Ranks, Submissions

-----------------------------------------------------------------------------
(* The course of a submission *)

\* Nothing is anywhere at the start.
LEMMA CourseInvInit == Init => CourseInv
<1> SUFFICES ASSUME Init PROVE CourseInv
  OBVIOUS
<1>1. Types
  <2>1. forwarded \in Logs /\ outs \in Logs
    BY DEF Init, Logs, PerSubmission
  <2>2. rankOf \in [Ids -> [Submissions -> 0 .. NumRanks]]
    BY Counts DEF Init, PerSubmission
  <2>3. rlive \in [Ranks -> [Ids -> 0 .. MaxAdds]] /\ turn \in Ranks
    BY Counts DEF Init
  <2>4. QED
    BY Counts, <2>1, <2>2, <2>3 DEF Types, Init
<1>2. ASSUME NEW q, q = <<>>, NEW c, NEW r, NEW n
      PROVE  /\ ~Has(q, c) /\ Once(q, c) /\ FinalsLast(q)
             /\ ~Coming(q, r, n) /\ ~FinalComing(q, r, n)
  BY <1>2 DEF Has, Once, FinalsLast, Coming, FinalComing
<1>3. \A r \in Ids, n \in Submissions : ~Answered(outs, r, n) /\ ~Answered(forwarded, r, n)
  BY DEF Answered, Init, PerSubmission
<1>4. ASSUME NEW r \in Ids, NEW n \in Submissions
      PROVE  Unsent(r, n)
  <2>1. rankOf[r][n] = 0 /\ cmdq = <<>>
    BY DEF Init, PerSubmission
  <2>2. QED
    BY <1>2, <1>3, <2>1 DEF Unsent
<1>5. ASSUME NEW k \in Ranks, NEW r \in Ids, NEW n \in Submissions
      PROVE  Course(k, r, n)
  <2>1. rankq[k] = <<>> /\ routq[k] = <<>> /\ rlive[k][r] = 0 /\ n # 0
    BY Counts DEF Init
  <2>2. ~Has(rankq[k], Add(r, n)) /\ Once(rankq[k], Add(r, n))
        /\ ~Coming(routq[k], r, n) /\ ~FinalComing(routq[k], r, n)
    BY <1>2, <2>1
  <2>3. QED
    BY <2>1, <2>2 DEF Course, Open
<1>6. \A k \in Ranks : FinalsLast(routq[k])
  BY <1>2 DEF Init
<1>7. QED
  BY <1>1, <1>4, <1>5, <1>6 DEF CourseInv

\* Unsent looks at the client's queue, at rankOf, adds and the logs only.
LEMMA UnsentFrame ==
    ASSUME UNCHANGED <<cmdq, forwarded, outs, rankOf, adds>>, NEW r, NEW n, Unsent(r, n)
    PROVE  Unsent(r, n)'
BY DEF Unsent, Answered

\* Course looks at what its rank has, at rankOf and at the logs only.
LEMMA CourseFrame ==
    ASSUME UNCHANGED <<forwarded, outs, rankOf>>, NEW k, NEW r, NEW n,
           rankq'[k] = rankq[k], routq'[k] = routq[k], rlive'[k] = rlive[k],
           Course(k, r, n)
    PROVE  Course(k, r, n)'
BY DEF Course, Open, Answered

\* Steps that only move the coordinator on, or change the state of a rank.
LEMMA QuietCourse ==
    ASSUME CourseInv, UNCHANGED <<cmdq, rankq, routq, tableVars, rlive, outs, adds>>, turn' \in Ranks
    PROVE  CourseInv'
<1> USE DEF CourseInv, tableVars
<1>1. Types'
  BY DEF Types
<1>2. \A r \in Ids, n \in Submissions : Unsent(r, n)'
  BY UnsentFrame
<1>3. \A k \in Ranks, r \in Ids, n \in Submissions : Course(k, r, n)'
  BY CourseFrame
<1>4. QED
  BY <1>1, <1>2, <1>3

-----------------------------------------------------------------------------
(* The client's and the coordinator's steps *)

\* The client sends the next submission of r: no command for it is anywhere yet.
LEMMA SendAddCourse ==
    ASSUME CourseInv, NEW s \in Ids, SendAdd(s)
    PROVE  CourseInv'
<1> USE DEF CourseInv, SendAdd, coordVars, tableVars, rankVars
<1> DEFINE m == adds[s] + 1
<1>1. adds[s] \in 0 .. MaxAdds /\ m \in Submissions /\ m > adds[s]
  BY SMTT(30), Counts DEF Types
<1>2. Add(s, m) \in Commands /\ cmdq' = Append(cmdq, Add(s, m)) /\ cmdq \in Seq(Commands)
  BY <1>1, CommandKinds DEF Types, Add
<1> HIDE DEF m
<1>3. adds' \in [Ids -> 0 .. MaxAdds] /\ adds'[s] = m /\ \A r \in Ids : r # s => adds'[r] = adds[r]
  BY <1>1, Counts DEF Types, m
<1>4. Types'
  BY <1>2, <1>3 DEF Types
<1>5. ASSUME NEW r \in Ids, NEW n \in Submissions
      PROVE  Unsent(r, n)'
  <2>1. Unsent(r, n) /\ Unsent(s, m)
    BY <1>1
  <2>2. m > adds[s] /\ n \in Int /\ adds[r] \in Int /\ m \in Int /\ adds[s] \in Int
    BY <1>1, Counts DEF Types
  <2>3. rankOf[s][m] = 0 /\ ~Has(cmdq, Add(s, m))
    <3>1. ~(m <= adds[s])
      BY <2>2
    <3>2. QED
      BY <2>1, <3>1 DEF Unsent
  <2>4. Once(cmdq', Add(r, n)) /\ (Has(cmdq', Add(r, n)) <=> Has(cmdq, Add(r, n)) \/ Add(s, m) = Add(r, n))
    <3>1. Add(s, m) = Add(r, n) => ~Has(cmdq, Add(r, n))
      BY <2>3
    <3>2. Once(cmdq, Add(r, n))
      BY <2>1 DEF Unsent
    <3>3. QED
      BY <1>2, <3>1, <3>2, HasAppend
  <2>5. Add(s, m) = Add(r, n) => s = r /\ m = n
    BY <1>1, CommandKinds
  <2>6. adds'[r] >= adds[r]
    BY <1>3, <2>2
  <2>7. adds'[r] \in Int /\ (r = s /\ n = m => n <= adds'[r]) /\ (n <= adds[r] => n <= adds'[r])
    BY <1>3, <2>2, <2>6
  <2>8. QED
    BY <2>1, <2>3, <2>4, <2>5, <2>7 DEF Unsent, Answered
<1>6. \A k \in Ranks, r \in Ids, n \in Submissions : Course(k, r, n)'
  BY CourseFrame
<1>7. QED
  BY <1>4, <1>5, <1>6

\* A command that is no ADD joins the client's queue.
LEMMA SendOtherCourse ==
    ASSUME CourseInv, NEW c \in Commands, c.type # "ADD", cmdq' = Append(cmdq, c),
           UNCHANGED <<rankq, routq, coordVars, rankVars, adds>>
    PROVE  CourseInv'
<1> USE DEF CourseInv, coordVars, tableVars, rankVars
<1>1. Types'
  BY DEF Types
<1>2. ASSUME NEW r \in Ids, NEW n \in Submissions
      PROVE  Unsent(r, n)'
  <2>1. c # Add(r, n)
    BY CommandKinds
  <2>2. cmdq \in Seq(Commands) /\ Unsent(r, n)
    BY DEF Types
  <2>3. Once(cmdq', Add(r, n)) /\ (Has(cmdq', Add(r, n)) <=> Has(cmdq, Add(r, n)))
    BY <2>1, <2>2, HasAppend DEF Unsent
  <2>4. QED
    BY <2>2, <2>3 DEF Unsent, Answered
<1>3. \A k \in Ranks, r \in Ids, n \in Submissions : Course(k, r, n)'
  BY CourseFrame
<1>4. QED
  BY <1>1, <1>2, <1>3

\* Commands that are no ADDs join the queues of ranks.
LEMMA PassOtherCourse ==
    ASSUME CourseInv, rankq' \in [Ranks -> Seq(Commands)],
           \A k \in Ranks : \/ rankq'[k] = rankq[k]
                            \/ \E c \in Commands : c.type # "ADD" /\ rankq'[k] = Append(rankq[k], c),
           UNCHANGED <<routq, tableVars, rlive, outs>>,
           NEW k \in Ranks, NEW r \in Ids, NEW n \in Submissions
    PROVE  Course(k, r, n)'
<1> USE DEF CourseInv, tableVars
<1>1. Course(k, r, n) /\ rankq[k] \in Seq(Commands)
  BY DEF Types
<1>2. Once(rankq'[k], Add(r, n)) /\ (Has(rankq'[k], Add(r, n)) <=> Has(rankq[k], Add(r, n)))
  <2>1. CASE rankq'[k] = rankq[k]
    BY <1>1, <2>1 DEF Course
  <2>2. ASSUME NEW c \in Commands, c.type # "ADD", rankq'[k] = Append(rankq[k], c)
        PROVE  Once(rankq'[k], Add(r, n)) /\ (Has(rankq'[k], Add(r, n)) <=> Has(rankq[k], Add(r, n)))
    <3>1. c # Add(r, n)
      BY <2>2, CommandKinds
    <3>2. QED
      BY <1>1, <2>2, <3>1, HasAppend DEF Course
  <2>3. QED
    BY <2>1, <2>2
<1>3. QED
  BY <1>1, <1>2 DEF Course, Open, Answered

\* A command leaves the client's queue, and rankOf and the logs stay.
LEMMA PopCourse ==
    ASSUME CourseInv, cmdq # <<>>, cmdq' = Tail(cmdq), UNCHANGED <<forwarded, outs, rankOf, adds>>,
           NEW r \in Ids, NEW n \in Submissions
    PROVE  Unsent(r, n)'
<1> USE DEF CourseInv
<1>1. cmdq \in Seq(Commands) /\ Unsent(r, n)
  BY DEF Types
<1>2. (Has(cmdq', Add(r, n)) => Has(cmdq, Add(r, n))) /\ Once(cmdq', Add(r, n))
  BY <1>1, HasTail DEF Unsent
<1>3. QED
  BY <1>1, <1>2 DEF Unsent, Answered

\* SHUTDOWN is read.
LEMMA HandleShutdownCourse ==
    ASSUME CourseInv, HandleShutdown
    PROVE  CourseInv'
<1> USE DEF CourseInv, HandleShutdown, NextCommand, tableVars, rankVars, clientVars
<1>1. Types'
  <2>1. cmdq' \in Seq(Commands)
    BY TailPositions DEF Types
  <2>2. QED
    BY <2>1 DEF Types
<1>2. \A r \in Ids, n \in Submissions : Unsent(r, n)'
  BY PopCourse
<1>3. \A k \in Ranks, r \in Ids, n \in Submissions : Course(k, r, n)'
  BY CourseFrame
<1>4. QED
  BY <1>1, <1>2, <1>3

\* An ABORT goes to the rank kept for its id, or nowhere.
LEMMA HandleAbortCourse ==
    ASSUME CourseInv, HandleAbort
    PROVE  CourseInv'
<1> USE DEF CourseInv, coordVars, tableVars, rankVars, clientVars
<1> DEFINE c == Head(cmdq)
           k == AbortRank(c.id)
<1>1. /\ cmdq # <<>> /\ cmdq' = Tail(cmdq) /\ c.type = "ABORT"
      /\ rankq' = IF k = 0 THEN rankq ELSE [rankq EXCEPT ![k] = Append(@, c)]
      /\ UNCHANGED <<routq, coordVars, rankVars, clientVars>>
  BY DEF HandleAbort, NextCommand
<1>2. cmdq \in Seq(Commands) /\ rankq \in [Ranks -> Seq(Commands)]
  BY DEF Types
<1>3. cmdq' \in Seq(Commands) /\ c \in Commands
  BY <1>1, <1>2, TailPositions
<1>4. k \in 0 .. NumRanks
  BY <1>1, <1>3, CommandKinds DEF AbortRank, Types
<1> HIDE DEF c, k
<1>5. /\ rankq' \in [Ranks -> Seq(Commands)]
      /\ \A j \in Ranks : \/ rankq'[j] = rankq[j]
                          \/ \E d \in Commands : d.type # "ADD" /\ rankq'[j] = Append(rankq[j], d)
  <2>1. CASE k = 0
    BY <1>1, <1>2, <2>1
  <2>2. CASE k # 0
    <3>1. k \in Ranks /\ rankq' = [rankq EXCEPT ![k] = Append(rankq[k], c)] /\ Append(rankq[k], c) \in Seq(Commands)
      BY <1>1, <1>2, <1>3, <1>4, <2>2, Counts
    <3>2. QED
      BY <1>1, <1>2, <1>3, <3>1
  <2>3. QED
    BY <2>1, <2>2
<1>6. Types'
  BY <1>1, <1>3, <1>5 DEF Types
<1>7. \A r \in Ids, n \in Submissions : Unsent(r, n)'
  BY <1>1, PopCourse
<1>8. \A j \in Ranks, r \in Ids, n \in Submissions : Course(j, r, n)'
  BY <1>1, <1>5, PassOtherCourse
<1>9. QED
  BY <1>1, <1>6, <1>7, <1>8

\* One rank is sent its SHUTDOWN, and the loop goes on to the next.
LEMMA StopRankPuts ==
    ASSUME Types, StopRank
    PROVE  /\ rankq' \in [Ranks -> Seq(Commands)] /\ turn' \in Ranks
           /\ \A j \in Ranks : \/ rankq'[j] = rankq[j]
                               \/ rankq'[j] = Append(rankq[j], ShutdownCommand)
<1>1. /\ turn \in Ranks /\ rankq \in [Ranks -> Seq(Commands)]
      /\ rankq' = [rankq EXCEPT ![turn] = Append(rankq[turn], ShutdownCommand)]
      /\ turn' = turn \/ (turn < NumRanks /\ turn' = turn + 1)
  BY DEF Types, StopRank
<1>2. ShutdownCommand \in Commands
  BY CommandKinds
<1>3. turn' \in Ranks
  BY <1>1, Counts
<1>4. Append(rankq[turn], ShutdownCommand) \in Seq(Commands)
  BY <1>1, <1>2
<1> QED
  BY <1>1, <1>3, <1>4

\* A rank is sent its SHUTDOWN.
LEMMA StopRankCourse ==
    ASSUME CourseInv, StopRank
    PROVE  CourseInv'
<1> USE DEF CourseInv, tableVars, rankVars, clientVars
<1>0. UNCHANGED <<cmdq, routq, tableVars, rankVars, clientVars>>
  BY DEF StopRank
<1>1. ShutdownCommand \in Commands /\ ShutdownCommand.type # "ADD"
  BY CommandKinds
<1>2. /\ rankq' \in [Ranks -> Seq(Commands)] /\ turn' \in Ranks
      /\ \A j \in Ranks : rankq'[j] = rankq[j] \/ rankq'[j] = Append(rankq[j], ShutdownCommand)
  BY StopRankPuts
<1>3. Types'
  BY <1>0, <1>2 DEF Types
<1>4. \A r \in Ids, n \in Submissions : Unsent(r, n)'
  BY <1>0, UnsentFrame
<1>5. \A j \in Ranks, r \in Ids, n \in Submissions : Course(j, r, n)'
  BY <1>0, <1>1, <1>2, PassOtherCourse
<1>6. QED
  BY <1>0, <1>3, <1>4, <1>5

-----------------------------------------------------------------------------
(* min over the ranks *)

\* A set of numbers that is not empty has a smallest one.
LEMMA Smallest ==
    ASSUME NEW S, S \subseteq Nat, S # {}
    PROVE  \E x \in S : \A y \in S : x <= y
<1>1. PICK x \in S : \A y \in S : ~(<<y, x>> \in OpToRel(<, Nat))
  BY NatLessThanWellFounded, WFMin
<1>2. \A y \in S : ~(y < x)
  BY <1>1 DEF OpToRel
<1>3. QED
  BY <1>2

\* There is a first one of the least loaded ranks.
LEMMA LeastLoadedRank ==
    ASSUME Types
    PROVE  LeastLoaded \in Ranks
<1> DEFINE loads == {rank_load[k] : k \in Ranks}
<1>1. rank_load \in [Ranks -> Nat] /\ Ranks \subseteq Nat /\ 1 \in Ranks
  <2>1. Ranks \subseteq Nat /\ 1 \in Ranks
    BY Counts
  <2>2. QED
    BY <2>1 DEF Types
<1>2. loads \subseteq Nat /\ loads # {}
  BY <1>1
<1>3. PICK v \in loads : \A y \in loads : v <= y
  BY <1>2, Smallest
<1> DEFINE least == {k \in Ranks : rank_load[k] = v}
<1>4. least \subseteq Nat /\ least # {}
  BY <1>1
<1>5. PICK k \in least : \A y \in least : k <= y
  BY <1>4, Smallest
<1>6. \A j \in Ranks : rank_load[k] <= rank_load[j]
  BY <1>3
<1>7. ASSUME NEW j \in 1 .. (k - 1)
      PROVE  rank_load[k] < rank_load[j]
  <2>1. k \in 1 .. NumRanks /\ NumRanks \in Nat
    BY Counts
  <2>2. j \in Ranks /\ ~(k <= j)
    BY <1>7, <2>1, Counts
  <2>3. j \notin least
    BY <1>5, <2>2
  <2>4. rank_load[j] # rank_load[k] /\ rank_load[k] \in Nat /\ rank_load[j] \in Nat
    BY <1>1, <2>2, <2>3
  <2>5. QED
    BY <1>6, <2>2, <2>4
<1>8. QED
  BY <1>6, <1>7 DEF LeastLoaded

-----------------------------------------------------------------------------

\* Setting rankOf.
LEMMA RankOfSet ==
    ASSUME NEW f \in [Ids -> [Submissions -> 0 .. NumRanks]], NEW s \in Ids, NEW m \in Submissions,
           NEW k \in Ranks
    PROVE  /\ [f EXCEPT ![s][m] = k] \in [Ids -> [Submissions -> 0 .. NumRanks]]
           /\ [f EXCEPT ![s][m] = k][s][m] = k
           /\ \A r \in Ids, n \in Submissions : r # s \/ n # m => [f EXCEPT ![s][m] = k][r][n] = f[r][n]
<1> DEFINE row == [f[s] EXCEPT ![m] = k]
<1>1. [f EXCEPT ![s][m] = k] = [f EXCEPT ![s] = row]
  OBVIOUS
<1>2. row \in [Submissions -> 0 .. NumRanks] /\ row[m] = k /\ \A n \in Submissions : n # m => row[n] = f[s][n]
  BY Counts
<1> HIDE DEF row
<1>3. QED
  BY <1>1, <1>2

\* What the coordinator does with an ADD, with names for its parts.
Handed(s, m, k) ==
    /\ s \in Ids /\ m \in Submissions /\ k \in Ranks
    /\ cmdq # <<>> /\ Head(cmdq) = Add(s, m) /\ cmdq' = Tail(cmdq)
    /\ request_ranks' = [request_ranks EXCEPT ![s] = k]
    /\ rank_load' = [rank_load EXCEPT ![k] = @ + 1]
    /\ rankq' = [rankq EXCEPT ![k] = Append(@, Add(s, m))]
    /\ rankOf' = [rankOf EXCEPT ![s][m] = k]
    /\ UNCHANGED <<routq, turn, forwarded, rankVars, clientVars>>

\* Every HandleAdd hands one submission to one rank.
LEMMA HandleAddHands ==
    ASSUME Types, HandleAdd
    PROVE  \E s, m, k : Handed(s, m, k)
<1> DEFINE c == Head(cmdq)
           k == LeastLoaded
<1>1. /\ cmdq # <<>> /\ c.type = "ADD" /\ cmdq' = Tail(cmdq)
      /\ request_ranks' = [request_ranks EXCEPT ![c.id] = k]
      /\ rank_load' = [rank_load EXCEPT ![k] = @ + 1]
      /\ rankq' = [rankq EXCEPT ![k] = Append(@, c)]
      /\ rankOf' = [rankOf EXCEPT ![c.id][c.sub] = k]
      /\ UNCHANGED <<routq, turn, forwarded, rankVars, clientVars>>
  BY DEF HandleAdd, NextCommand
<1>2. c \in Commands
  BY <1>1, TailPositions DEF Types
<1>3. c.id \in Ids /\ c.sub \in Submissions /\ c = Add(c.id, c.sub)
  BY <1>1, <1>2, CommandKinds
<1>4. k \in Ranks
  BY LeastLoadedRank
<1> HIDE DEF c, k
<1>5. Handed(c.id, c.sub, k)
  BY <1>1, <1>3, <1>4 DEF Handed, c
<1>6. QED
  BY <1>5

\* A submission whose ADD the coordinator reads is at no rank yet.
LEMMA NowhereYet ==
    ASSUME CourseInv, NEW s, NEW m, NEW k, Handed(s, m, k)
    PROVE  /\ rankOf[s][m] = 0 /\ m <= adds[s]
           /\ ~Answered(outs, s, m) /\ ~Answered(forwarded, s, m)
           /\ \A j \in Ranks : /\ ~Open(j, s, m) /\ ~Coming(routq[j], s, m)
                               /\ ~FinalComing(routq[j], s, m)
<1> USE DEF CourseInv, Handed
<1>1. cmdq \in Seq(Commands)
  BY DEF Types
<1>2. Has(cmdq, Add(s, m))
  BY <1>1, HasTail
<1>3. rankOf[s][m] = 0 /\ m <= adds[s] /\ ~Answered(outs, s, m) /\ ~Answered(forwarded, s, m)
  BY <1>2 DEF Unsent
<1>4. ASSUME NEW j \in Ranks
      PROVE  ~Open(j, s, m) /\ ~Coming(routq[j], s, m)
  <2>1. Course(j, s, m) /\ j # 0
    BY Counts
  <2>2. QED
    BY <1>3, <2>1 DEF Course
<1>5. \A j \in Ranks : FinalComing(routq[j], s, m) => Coming(routq[j], s, m)
  BY DEF FinalComing, Coming
<1>6. QED
  BY <1>3, <1>4, <1>5

\* A submission is handed to a rank.
LEMMA HandleAddCourse ==
    ASSUME CourseInv, HandleAdd
    PROVE  CourseInv'
<1> USE DEF CourseInv
<1>0. PICK s, m, k : Handed(s, m, k)
  BY HandleAddHands
<1> USE DEF Handed, rankVars, clientVars
<1>1. s \in Ids /\ m \in Submissions /\ k \in Ranks
  BY <1>0
<1>2. /\ rankOf' \in [Ids -> [Submissions -> 0 .. NumRanks]] /\ rankOf'[s][m] = k
      /\ \A r \in Ids, n \in Submissions : r # s \/ n # m => rankOf'[r][n] = rankOf[r][n]
  <2>1. rankOf \in [Ids -> [Submissions -> 0 .. NumRanks]] /\ rankOf' = [rankOf EXCEPT ![s][m] = k]
    BY <1>0 DEF Types
  <2>2. QED
    BY <1>1, <2>1, RankOfSet
<1>3. /\ cmdq \in Seq(Commands) /\ rankq \in [Ranks -> Seq(Commands)]
      /\ Add(s, m) \in Commands /\ rankq[k] \in Seq(Commands)
  BY <1>1, CommandKinds DEF Types
<1>4. /\ rankq' \in [Ranks -> Seq(Commands)] /\ rankq'[k] = Append(rankq[k], Add(s, m))
      /\ \A j \in Ranks : j # k => rankq'[j] = rankq[j]
  BY <1>0, <1>1, <1>3
<1>5. cmdq' \in Seq(Commands)
  BY <1>0, <1>3, TailPositions
<1>6. /\ request_ranks' \in [Ids -> 0 .. NumRanks] /\ rank_load' \in [Ranks -> Nat]
  <2>1. /\ request_ranks' = [request_ranks EXCEPT ![s] = k]
        /\ rank_load' = [rank_load EXCEPT ![k] = rank_load[k] + 1]
    BY <1>0, <1>1 DEF Types
  <2>2. /\ request_ranks \in [Ids -> 0 .. NumRanks] /\ rank_load \in [Ranks -> Nat]
        /\ k \in 0 .. NumRanks /\ rank_load[k] + 1 \in Nat
    BY SMTT(30), <1>1, Counts DEF Types
  <2>3. QED
    BY <1>1, <2>1, <2>2
<1>7. Types'
  BY <1>0, <1>2, <1>4, <1>5, <1>6 DEF Types
<1>8. /\ rankOf[s][m] = 0 /\ m <= adds[s]
      /\ ~Answered(outs, s, m) /\ ~Answered(forwarded, s, m)
      /\ \A j \in Ranks : ~Open(j, s, m) /\ ~Coming(routq[j], s, m) /\ ~FinalComing(routq[j], s, m)
  BY <1>0, NowhereYet
<1>9. ASSUME NEW r \in Ids, NEW n \in Submissions
      PROVE  Unsent(r, n)'
  <2>1. Unsent(r, n) /\ Unsent(s, m)
    BY <1>1
  <2>2. (Has(cmdq', Add(r, n)) => Has(cmdq, Add(r, n))) /\ Once(cmdq', Add(r, n))
    BY <1>0, <1>3, <2>1, HasTail DEF Unsent
  <2>3. ~Has(cmdq', Add(s, m))
    BY <1>0, <1>3, <2>1, HasTail DEF Unsent
  <2>4. CASE r = s /\ n = m
    BY <1>0, <1>1, <1>2, <1>8, <2>2, <2>3, <2>4, Counts DEF Unsent
  <2>5. CASE r # s \/ n # m
    BY <1>0, <1>2, <2>1, <2>2, <2>5 DEF Unsent, Answered
  <2>6. QED
    BY <2>4, <2>5
<1>10. ASSUME NEW j \in Ranks, NEW r \in Ids, NEW n \in Submissions
       PROVE  Course(j, r, n)'
  <2>1. Course(j, r, n)
    OBVIOUS
  <2>2. CASE r = s /\ n = m
    <3>1. ~Has(rankq[j], Add(s, m)) /\ rlive[j][s] # m
      BY <1>8 DEF Open
    <3>2. CASE j = k
      <4>1. Once(rankq'[k], Add(s, m))
        BY <1>3, <1>4, <2>1, <2>2, <3>1, <3>2, HasAppend DEF Course
      <4>2. QED
        BY <1>0, <1>2, <1>8, <2>2, <3>1, <3>2, <4>1 DEF Course, Open, Answered
    <3>3. CASE j # k
      BY <1>0, <1>4, <1>8, <2>1, <2>2, <3>1, <3>3 DEF Course, Open, Answered
    <3>4. QED
      BY <3>2, <3>3
  <2>3. CASE r # s \/ n # m
    <3>1. Add(s, m) # Add(r, n)
      BY <1>1, <2>3, CommandKinds
    <3>2. Once(rankq'[j], Add(r, n)) /\ (Has(rankq'[j], Add(r, n)) <=> Has(rankq[j], Add(r, n)))
      <4>1. CASE j = k
        <5>1. rankq'[j] = Append(rankq[j], Add(s, m)) /\ Once(rankq[j], Add(r, n))
          BY <1>4, <2>1, <4>1 DEF Course
        <5>2. rankq[j] \in Seq(Commands)
          BY <1>3
        <5>3. QED
          BY <1>3, <3>1, <5>1, <5>2, HasAppend
      <4>2. CASE j # k
        BY <1>4, <2>1, <4>2 DEF Course
      <4>3. QED
        BY <4>1, <4>2
    <3>3. QED
      BY <1>0, <1>2, <2>1, <2>3, <3>2 DEF Course, Open, Answered
  <2>4. QED
    BY <2>2, <2>3
<1>11. QED
  BY <1>0, <1>7, <1>9, <1>10

\* What the coordinator does with an output, with names for its parts.
Passed(k, e) ==
    /\ k \in Ranks /\ e \in Events
    /\ routq[k] # <<>> /\ e = Head(routq[k])
    /\ routq' = [routq EXCEPT ![k] = Tail(@)]
    /\ forwarded' = Logged(forwarded, e.id, e.sub, e.final)
    /\ request_ranks' = [request_ranks EXCEPT ![e.id] = RankKept(e)]
    /\ rank_load' = [rank_load EXCEPT ![k] = LoadAfter(k, e)]
    /\ UNCHANGED <<cmdq, rankq, turn, rankOf, rankVars, clientVars>>

\* Every ForwardOutput passes on one output of one rank.
LEMMA ForwardPasses ==
    ASSUME Types, ForwardOutput
    PROVE  \E k, e : Passed(k, e)
<1>1. routq[turn] \in Seq(Events) /\ turn \in Ranks /\ routq[turn] # <<>>
  BY DEF Types, ForwardOutput
<1>2. Head(routq[turn]) \in Events
  BY <1>1, TailPositions
<1>3. Passed(turn, Head(routq[turn]))
  BY <1>1, <1>2 DEF Passed, ForwardOutput, Logged
<1>4. QED
  BY <1>3

\* What is known of the output passed on: its submission was sent to this rank and
\* not answered to the client before.
LEMMA PassedOutput ==
    ASSUME CourseInv, NEW k, NEW e, Passed(k, e)
    PROVE  /\ e.id \in Ids /\ e.sub \in Submissions /\ e.final \in BOOLEAN
           /\ rankOf[e.id][e.sub] = k /\ ~Answered(forwarded, e.id, e.sub)
           /\ e.final => Answered(outs, e.id, e.sub) /\ ~Open(k, e.id, e.sub)
           /\ routq[k] \in Seq(Events) /\ FinalsLast(routq[k])
<1> USE DEF CourseInv, Passed
<1>1. e.id \in Ids /\ e.sub \in Submissions /\ e.final \in BOOLEAN
  BY DEF Events
<1>2. routq[k] \in Seq(Events) /\ FinalsLast(routq[k])
  BY DEF Types
<1>3. Of(e, e.id, e.sub)
  BY DEF Of
<1>4. Coming(routq[k], e.id, e.sub) /\ (e.final => FinalComing(routq[k], e.id, e.sub))
  BY <1>1, <1>2, <1>3, ComingTail
<1>5. Course(k, e.id, e.sub)
  BY <1>1
<1>6. QED
  BY <1>1, <1>2, <1>4, <1>5 DEF Course

\* An output is passed on.
LEMMA ForwardOutputCourse ==
    ASSUME CourseInv, ForwardOutput
    PROVE  CourseInv'
<1> USE DEF CourseInv
<1>0. PICK k, e : Passed(k, e)
  BY ForwardPasses
<1> USE DEF rankVars, clientVars
<1>1. /\ e.id \in Ids /\ e.sub \in Submissions /\ e.final \in BOOLEAN
      /\ rankOf[e.id][e.sub] = k /\ ~Answered(forwarded, e.id, e.sub)
      /\ e.final => Answered(outs, e.id, e.sub) /\ ~Open(k, e.id, e.sub)
      /\ routq[k] \in Seq(Events) /\ FinalsLast(routq[k])
  BY <1>0, PassedOutput
<1>2. /\ k \in Ranks /\ e = Head(routq[k]) /\ routq[k] # <<>>
      /\ UNCHANGED <<cmdq, rankq, turn, rankOf, rankVars, clientVars>>
      /\ forwarded' = Logged(forwarded, e.id, e.sub, e.final)
  BY <1>0 DEF Passed
<1>3. /\ routq' \in [Ranks -> Seq(Events)] /\ routq'[k] = Tail(routq[k])
      /\ \A j \in Ranks : j # k => routq'[j] = routq[j]
  <2>1. routq \in [Ranks -> Seq(Events)] /\ routq' = [routq EXCEPT ![k] = Tail(routq[k])]
    BY <1>0, <1>2 DEF Types, Passed
  <2>2. Tail(routq[k]) \in Seq(Events)
    BY <1>1, <1>2, TailPositions
  <2>3. QED
    BY <1>2, <2>1, <2>2
<1>4. /\ forwarded' \in Logs
      /\ Answered(forwarded', e.id, e.sub) <=> e.final
      /\ \A r \in Ids, n \in Submissions : r # e.id \/ n # e.sub =>
            (Answered(forwarded', r, n) <=> Answered(forwarded, r, n))
  <2>1. forwarded \in Logs
    BY DEF Types
  <2>2. QED
    BY <1>1, <1>2, <2>1, LoggedAnswered
<1>5. Types'
  <2>1. request_ranks' \in [Ids -> 0 .. NumRanks]
    <3>1. RankKept(e) \in 0 .. NumRanks /\ request_ranks \in [Ids -> 0 .. NumRanks]
      BY <1>1, Counts DEF RankKept, Types
    <3>2. QED
      BY <1>0, <3>1 DEF Passed
  <2>2. rank_load' \in [Ranks -> Nat]
    <3>1. rank_load \in [Ranks -> Nat] /\ rank_load[k] \in Nat
      BY <1>2 DEF Types
    <3>2. LoadAfter(k, e) \in Nat
      BY <3>1 DEF LoadAfter
    <3>3. QED
      BY <1>0, <3>1, <3>2 DEF Passed
  <2>3. QED
    BY <1>2, <1>3, <1>4, <2>1, <2>2 DEF Types
<1>6. \A r \in Ids, n \in Submissions :
        /\ FinalsLast(Tail(routq[k]))
        /\ Coming(Tail(routq[k]), r, n) => Coming(routq[k], r, n)
        /\ FinalComing(Tail(routq[k]), r, n) => FinalComing(routq[k], r, n)
        /\ Of(e, r, n) /\ e.final => ~Coming(Tail(routq[k]), r, n)
  BY <1>1, <1>2, ComingTail
<1>7. \A j \in Ranks : FinalsLast(routq'[j])
  BY <1>1, <1>3, <1>6
<1>8. ASSUME NEW r \in Ids, NEW n \in Submissions
      PROVE  Unsent(r, n)'
  <2>1. Unsent(r, n) /\ (r = e.id /\ n = e.sub => rankOf[r][n] # 0)
    BY <1>1, <1>2, Counts
  <2>2. rankOf[r][n] = 0 => ~Answered(forwarded', r, n)
    BY <1>4, <2>1 DEF Unsent
  <2>3. UNCHANGED <<cmdq, rankOf, outs, adds>>
    BY <1>2
  <2>4. QED
    BY <2>1, <2>2, <2>3 DEF Unsent, Answered
<1>9. ASSUME NEW j \in Ranks, NEW r \in Ids, NEW n \in Submissions
      PROVE  Course(j, r, n)'
  <2>1. Course(j, r, n) /\ UNCHANGED <<rankq, rankOf, outs, rlive>>
    BY <1>2
  <2>2. (Coming(routq'[j], r, n) => Coming(routq[j], r, n))
        /\ (FinalComing(routq'[j], r, n) => FinalComing(routq[j], r, n))
    BY <1>3, <1>6
  <2>3. Open(j, r, n)' <=> Open(j, r, n)
    BY <2>1 DEF Open
  <2>4. Open(j, r, n) \/ Coming(routq'[j], r, n) => ~Answered(forwarded', r, n)
    <3>1. CASE r = e.id /\ n = e.sub
      <4>1. Open(j, r, n) \/ Coming(routq'[j], r, n) => j = k
        BY <1>1, <2>1, <2>2, <3>1 DEF Course
      <4>2. e.final => ~Open(k, r, n) /\ ~Coming(routq'[k], r, n)
        BY <1>1, <1>3, <1>6, <3>1 DEF Of
      <4>3. QED
        BY <1>4, <3>1, <4>1, <4>2
    <3>2. CASE r # e.id \/ n # e.sub
      BY <1>4, <2>1, <2>2, <3>2 DEF Course
    <3>3. QED
      BY <3>1, <3>2
  <2>5. (Once(rankq[j], Add(r, n)) <=> Once(rankq[j], Add(r, n))')
        /\ (Has(rankq[j], Add(r, n)) <=> Has(rankq[j], Add(r, n))')
        /\ rlive[j][r]' = rlive[j][r] /\ rankOf[r][n]' = rankOf[r][n]
        /\ (Answered(outs, r, n)' <=> Answered(outs, r, n))
        /\ (Answered(forwarded, r, n)' <=> Answered(forwarded', r, n))
    BY <2>1 DEF Answered
  <2>6. QED
    BY <2>1, <2>2, <2>3, <2>4, <2>5 DEF Course
<1>10. QED
  BY <1>5, <1>7, <1>8, <1>9

-----------------------------------------------------------------------------
(* The ranks' steps *)

\* A rank takes a command: what its queue has then.
LEMMA RankPops ==
    ASSUME Types, NEW k \in Ranks, NEW type, RankCommand(k, type)
    PROVE  /\ rankq[k] \in Seq(Commands) /\ rankq[k] # <<>>
           /\ Head(rankq[k]) \in Commands /\ Head(rankq[k]).type = type
           /\ rankq' \in [Ranks -> Seq(Commands)] /\ rankq'[k] = Tail(rankq[k])
           /\ \A j \in Ranks : j # k => rankq'[j] = rankq[j]
           /\ \A j \in Ranks : \A c : /\ Has(rankq'[j], c) => Has(rankq[j], c)
                                      /\ Once(rankq[j], c) => Once(rankq'[j], c)
<1>1. rankq \in [Ranks -> Seq(Commands)] /\ rankq[k] \in Seq(Commands)
  BY DEF Types
<1>2. /\ rankq[k] # <<>> /\ Head(rankq[k]).type = type
      /\ rankq' = [rankq EXCEPT ![k] = Tail(rankq[k])]
  BY <1>1 DEF RankCommand
<1>3. Head(rankq[k]) \in Commands /\ Tail(rankq[k]) \in Seq(Commands)
  BY <1>1, <1>2, TailPositions
<1>4. /\ rankq' \in [Ranks -> Seq(Commands)] /\ rankq'[k] = Tail(rankq[k])
      /\ \A j \in Ranks : j # k => rankq'[j] = rankq[j]
  BY <1>1, <1>2, <1>3
<1>5. \A c : /\ Has(Tail(rankq[k]), c) => Has(rankq[k], c)
             /\ Once(rankq[k], c) => Once(Tail(rankq[k]), c)
  BY <1>1, <1>2, HasTail
<1>6. QED
  BY <1>1, <1>2, <1>3, <1>4, <1>5

\* A rank that drops a command it has no more to do for.
LEMMA RankDropsCourse ==
    ASSUME CourseInv, NEW k \in Ranks, NEW type, RankCommand(k, type),
           UNCHANGED <<routq, rlive, outs>>, Idle
    PROVE  CourseInv'
<1> USE DEF CourseInv, Idle, coordVars, tableVars, clientVars
<1>1. /\ rankq' \in [Ranks -> Seq(Commands)]
      /\ \A j \in Ranks : \A c : /\ Has(rankq'[j], c) => Has(rankq[j], c)
                                 /\ Once(rankq[j], c) => Once(rankq'[j], c)
  BY RankPops
<1>2. Types'
  BY <1>1 DEF Types
<1>3. \A r \in Ids, n \in Submissions : Unsent(r, n)'
  BY UnsentFrame
<1>4. ASSUME NEW j \in Ranks, NEW r \in Ids, NEW n \in Submissions
      PROVE  Course(j, r, n)'
  <2>1. Course(j, r, n)
    OBVIOUS
  <2>2. (Open(j, r, n)' => Open(j, r, n)) /\ (Once(rankq[j], Add(r, n)) => Once(rankq'[j], Add(r, n)))
        /\ (Has(rankq'[j], Add(r, n)) => Has(rankq[j], Add(r, n)))
    BY <1>1 DEF Open
  <2>3. QED
    BY <2>1, <2>2 DEF Course, Answered
<1>5. QED
  BY <1>2, <1>3, <1>4

\* A rank accepts the submission of the ADD it read.
LEMMA RankAcceptsCourse ==
    ASSUME CourseInv, NEW k \in Ranks, RankAccepts(k)
    PROVE  CourseInv'
<1> USE DEF CourseInv, Idle, coordVars, tableVars, clientVars
<1> DEFINE c == Head(rankq[k])
<1>0. /\ RankCommand(k, "ADD") /\ rlive[k][c.id] = 0
      /\ rlive' = [rlive EXCEPT ![k][c.id] = c.sub]
      /\ UNCHANGED <<routq, rstate, outs>> /\ Idle
  BY DEF RankAccepts
<1>1. /\ rankq' \in [Ranks -> Seq(Commands)] /\ rankq'[k] = Tail(rankq[k])
      /\ rankq[k] \in Seq(Commands) /\ rankq[k] # <<>> /\ c \in Commands /\ c.type = "ADD"
      /\ \A j \in Ranks : \A d : /\ Has(rankq'[j], d) => Has(rankq[j], d)
                                 /\ Once(rankq[j], d) => Once(rankq'[j], d)
  BY <1>0, RankPops
<1>2. PICK s \in Ids, m \in Submissions : c = Add(s, m) /\ c.id = s /\ c.sub = m
  BY <1>1, CommandKinds
<1> HIDE DEF c
<1>3. /\ rlive' \in [Ranks -> [Ids -> 0 .. MaxAdds]] /\ rlive'[k][s] = m
      /\ \A j \in Ranks, r \in Ids : j # k \/ r # s => rlive'[j][r] = rlive[j][r]
  <2> DEFINE row == [rlive[k] EXCEPT ![s] = m]
  <2>1. rlive \in [Ranks -> [Ids -> 0 .. MaxAdds]] /\ m \in 0 .. MaxAdds
    BY Counts DEF Types
  <2>2. rlive' = [rlive EXCEPT ![k] = row]
    BY <1>0, <1>2, <2>1
  <2>3. row \in [Ids -> 0 .. MaxAdds] /\ row[s] = m /\ \A r \in Ids : r # s => row[r] = rlive[k][r]
    BY <2>1
  <2> HIDE DEF row
  <2>4. QED
    BY <2>1, <2>2, <2>3
<1>4. Types'
  BY <1>0, <1>1, <1>3 DEF Types
<1>5. \A r \in Ids, n \in Submissions : Unsent(r, n)'
  BY <1>0, UnsentFrame
<1>6. Has(rankq[k], Add(s, m)) /\ ~Has(rankq'[k], Add(s, m))
  <2>1. Course(k, s, m)
    OBVIOUS
  <2>2. QED
    BY <1>1, <1>2, <2>1, HasTail DEF Course, c
<1>7. ASSUME NEW j \in Ranks, NEW r \in Ids, NEW n \in Submissions
      PROVE  Course(j, r, n)'
  <2>1. Course(j, r, n) /\ Course(k, s, m) /\ n # 0
    BY Counts
  <2>2. (Has(rankq'[j], Add(r, n)) => Has(rankq[j], Add(r, n))) /\ Once(rankq'[j], Add(r, n))
    BY <1>1, <2>1 DEF Course
  <2>3. Open(j, r, n)' => Open(j, r, n)
    <3>1. CASE j = k /\ r = s /\ n = m
      BY <1>6, <3>1 DEF Open
    <3>2. CASE j = k /\ r = s /\ n # m
      BY <1>3, <2>2, <3>2 DEF Open
    <3>3. CASE j # k \/ r # s
      BY <1>3, <2>2, <3>3 DEF Open
    <3>4. QED
      BY <3>1, <3>2, <3>3
  <2>4. Has(rankq'[j], Add(r, n)) => rlive'[j][r] # n
    <3>1. CASE j = k /\ r = s
      BY <1>3, <1>6, <3>1
    <3>2. CASE j # k \/ r # s
      BY <1>3, <2>1, <2>2, <3>2 DEF Course
    <3>3. QED
      BY <3>1, <3>2
  <2>5. QED
    BY <1>0, <2>1, <2>2, <2>3, <2>4 DEF Course, Answered
<1>8. QED
  BY <1>0, <1>4, <1>5, <1>7

\* The rank that has to answer a submission emits one output of it; if it is the
\* final one, the rank has not to answer it any more.
LEMMA EmitCourse ==
    ASSUME CourseInv, NEW k \in Ranks, NEW s \in Ids, NEW m \in Submissions, NEW final \in BOOLEAN,
           Open(k, s, m), Emit(k, s, m, final), Idle,
           rankq' \in [Ranks -> Seq(Commands)], rlive' \in [Ranks -> [Ids -> 0 .. MaxAdds]],
           \A j \in Ranks, r \in Ids, n \in Submissions :
               /\ Open(j, r, n)' => Open(j, r, n)
               /\ Once(rankq'[j], Add(r, n))
               /\ Has(rankq'[j], Add(r, n)) => rlive'[j][r] # n,
           final => ~Open(k, s, m)'
    PROVE  CourseInv'
<1> USE DEF CourseInv, Idle, coordVars, tableVars, clientVars
<1> DEFINE e == [id |-> s, sub |-> m, final |-> final]
<1>1. e \in Events /\ e.id = s /\ e.sub = m /\ e.final = final
  BY DEF Events
<1>2. /\ routq \in [Ranks -> Seq(Events)] /\ routq[k] \in Seq(Events) /\ FinalsLast(routq[k])
      /\ outs \in Logs
  BY DEF Types
<1>3. /\ routq' = [routq EXCEPT ![k] = Append(routq[k], e)]
      /\ outs' = Logged(outs, s, m, final)
  BY <1>2 DEF Emit, Logged
<1> HIDE DEF e
<1>4. /\ rankOf[s][m] = k /\ ~Answered(forwarded, s, m)
      /\ ~FinalComing(routq[k], s, m) /\ ~Answered(outs, s, m)
  <2>1. Course(k, s, m)
    OBVIOUS
  <2>2. QED
    BY <2>1 DEF Course
<1>5. /\ outs' \in Logs
      /\ Answered(outs', s, m) <=> final
      /\ \A r \in Ids, n \in Submissions : r # s \/ n # m =>
            (Answered(outs', r, n) <=> Answered(outs, r, n))
  BY <1>2, <1>3, LoggedAnswered
<1>6. /\ Append(routq[k], e) \in Seq(Events) /\ FinalsLast(Append(routq[k], e))
      /\ \A r \in Ids, n \in Submissions :
            /\ Coming(Append(routq[k], e), r, n) <=> Coming(routq[k], r, n) \/ Of(e, r, n)
            /\ FinalComing(Append(routq[k], e), r, n)
                  <=> FinalComing(routq[k], r, n) \/ (Of(e, r, n) /\ e.final)
  BY <1>1, <1>2, <1>4, ComingAppend
<1>7. /\ routq' \in [Ranks -> Seq(Events)] /\ routq'[k] = Append(routq[k], e)
      /\ \A j \in Ranks : j # k => routq'[j] = routq[j]
  BY <1>2, <1>3, <1>6
<1>8. Types'
  BY <1>5, <1>7 DEF Types
<1>9. \A j \in Ranks : FinalsLast(routq'[j])
  BY <1>6, <1>7
<1>10. ASSUME NEW r \in Ids, NEW n \in Submissions
       PROVE  Unsent(r, n)'
  <2>1. Unsent(r, n) /\ (r = s /\ n = m => rankOf[r][n] # 0)
    BY <1>4, Counts
  <2>2. rankOf[r][n] = 0 => ~Answered(outs', r, n)
    BY <1>5, <2>1 DEF Unsent
  <2>3. QED
    BY <2>1, <2>2 DEF Unsent, Answered
<1>11. ASSUME NEW j \in Ranks, NEW r \in Ids, NEW n \in Submissions
       PROVE  Course(j, r, n)'
  <2>1. Course(j, r, n) /\ (Open(j, r, n)' => Open(j, r, n))
        /\ Once(rankq'[j], Add(r, n)) /\ (Has(rankq'[j], Add(r, n)) => rlive'[j][r] # n)
    OBVIOUS
  <2>2. \A i \in Ranks : FinalComing(routq[i], r, n) => Coming(routq[i], r, n)
    BY DEF FinalComing, Coming
  <2>3. /\ Open(j, r, n)' \/ Coming(routq'[j], r, n) => rankOf[r][n] = j /\ ~Answered(forwarded, r, n)
        /\ Open(j, r, n)' => ~FinalComing(routq'[j], r, n) /\ ~Answered(outs', r, n)
        /\ FinalComing(routq'[j], r, n) => Answered(outs', r, n)
    <3>1. CASE r = s /\ n = m /\ j = k
      <4>1. Of(e, r, n)
        BY <1>1, <3>1 DEF Of
      <4>2. FinalComing(routq'[j], r, n) <=> final
        <5>1. FinalComing(routq'[k], s, m) <=> FinalComing(routq[k], s, m) \/ (Of(e, s, m) /\ e.final)
          BY <1>6, <1>7
        <5>2. FinalComing(routq'[k], s, m) <=> e.final
          BY <1>4, <3>1, <4>1, <5>1
        <5>3. QED
          BY <1>1, <3>1, <5>2
      <4>3. QED
        BY <1>4, <1>5, <3>1, <4>2
    <3>2. CASE r = s /\ n = m /\ j # k
      <4>1. ~Open(j, r, n) /\ ~Coming(routq[j], r, n) /\ ~FinalComing(routq[j], r, n)
        BY <1>4, <2>1, <2>2, <3>2 DEF Course
      <4>2. QED
        BY <1>7, <2>1, <3>2, <4>1
    <3>3. CASE r # s \/ n # m
      <4>1. ~Of(e, r, n)
        BY <1>1, <3>3 DEF Of
      <4>2. (Coming(routq'[j], r, n) <=> Coming(routq[j], r, n))
            /\ (FinalComing(routq'[j], r, n) <=> FinalComing(routq[j], r, n))
        BY <1>6, <1>7, <4>1
      <4>3. QED
        BY <1>5, <2>1, <3>3, <4>2 DEF Course
    <3>4. QED
      BY <3>1, <3>2, <3>3
  <2>4. QED
    BY <2>1, <2>3 DEF Course, Answered
<1>12. QED
  BY <1>8, <1>9, <1>10, <1>11

\* rlive forgets the request a rank answered.
LEMMA LiveForgets ==
    ASSUME Types, NEW k \in Ranks, NEW s \in Ids, rlive' = [rlive EXCEPT ![k][s] = 0]
    PROVE  /\ rlive' \in [Ranks -> [Ids -> 0 .. MaxAdds]] /\ rlive'[k][s] = 0
           /\ \A j \in Ranks, r \in Ids : j # k \/ r # s => rlive'[j][r] = rlive[j][r]
<1> DEFINE row == [rlive[k] EXCEPT ![s] = 0]
<1>1. rlive \in [Ranks -> [Ids -> 0 .. MaxAdds]] /\ 0 \in 0 .. MaxAdds
  <2>1. 0 \in 0 .. MaxAdds
    BY Counts
  <2>2. QED
    BY <2>1 DEF Types
<1>2. rlive' = [rlive EXCEPT ![k] = row]
  BY <1>1
<1>3. row \in [Ids -> 0 .. MaxAdds] /\ row[s] = 0 /\ \A r \in Ids : r # s => row[r] = rlive[k][r]
  BY <1>1
<1> HIDE DEF row
<1>4. QED
  BY <1>1, <1>2, <1>3

\* A rank rejects the submission of the ADD it read.
LEMMA RankRejectsCourse ==
    ASSUME CourseInv, NEW k \in Ranks, RankRejects(k)
    PROVE  CourseInv'
<1> USE DEF CourseInv
<1> DEFINE c == Head(rankq[k])
<1>0. RankCommand(k, "ADD") /\ Emit(k, c.id, c.sub, TRUE) /\ UNCHANGED <<rstate, rlive>> /\ Idle
  BY DEF RankRejects
<1>1. /\ rankq' \in [Ranks -> Seq(Commands)] /\ rankq'[k] = Tail(rankq[k])
      /\ rankq[k] \in Seq(Commands) /\ rankq[k] # <<>> /\ c \in Commands /\ c.type = "ADD"
      /\ \A j \in Ranks : \A d : /\ Has(rankq'[j], d) => Has(rankq[j], d)
                                 /\ Once(rankq[j], d) => Once(rankq'[j], d)
  BY <1>0, RankPops
<1>2. PICK s \in Ids, m \in Submissions : c = Add(s, m) /\ c.id = s /\ c.sub = m
  BY <1>1, CommandKinds
<1>3. Has(rankq[k], c) /\ (Once(rankq[k], c) => ~Has(rankq'[k], c))
  BY <1>1, HasTail
<1> HIDE DEF c
<1>4. Course(k, s, m)
  OBVIOUS
<1>5. Open(k, s, m) /\ ~Open(k, s, m)'
  BY <1>0, <1>2, <1>3, <1>4 DEF Course, Open
<1>6. ASSUME NEW j \in Ranks, NEW r \in Ids, NEW n \in Submissions
      PROVE  /\ Open(j, r, n)' => Open(j, r, n)
             /\ Once(rankq'[j], Add(r, n))
             /\ Has(rankq'[j], Add(r, n)) => rlive'[j][r] # n
  <2>1. Course(j, r, n)
    OBVIOUS
  <2>2. QED
    BY <1>0, <1>1, <2>1 DEF Course, Open
<1>7. rlive' \in [Ranks -> [Ids -> 0 .. MaxAdds]] /\ Emit(k, s, m, TRUE) /\ TRUE \in BOOLEAN
  BY <1>0, <1>2 DEF Types
<1>8. QED
  BY <1>0, <1>1, <1>5, <1>6, <1>7, EmitCourse

\* What remains open when a rank answers its live request s and maybe takes a command.
LEMMA AnswerCloses ==
    ASSUME CourseInv, NEW k \in Ranks, NEW s \in Ids, rlive[k][s] # 0,
           rlive' = [rlive EXCEPT ![k][s] = 0],
           \A j \in Ranks : \A c : /\ Has(rankq'[j], c) => Has(rankq[j], c)
                                   /\ Once(rankq[j], c) => Once(rankq'[j], c)
    PROVE  /\ rlive[k][s] \in Submissions
           /\ rlive' \in [Ranks -> [Ids -> 0 .. MaxAdds]]
           /\ Open(k, s, rlive[k][s])
           /\ \A j \in Ranks, r \in Ids, n \in Submissions :
                 /\ Open(j, r, n)' => Open(j, r, n)
                 /\ Once(rankq'[j], Add(r, n))
                 /\ Has(rankq'[j], Add(r, n)) => rlive'[j][r] # n
           /\ ~Has(rankq'[k], Add(s, rlive[k][s])) /\ rlive'[k][s] # rlive[k][s]
<1> USE DEF CourseInv
<1>1. /\ rlive' \in [Ranks -> [Ids -> 0 .. MaxAdds]] /\ rlive'[k][s] = 0
      /\ \A j \in Ranks, r \in Ids : j # k \/ r # s => rlive'[j][r] = rlive[j][r]
  BY LiveForgets
<1>2. rlive[k][s] \in Submissions
  <2>1. rlive[k][s] \in 0 .. MaxAdds
    BY DEF Types
  <2>2. QED
    BY <2>1, Counts
<1>3. Open(k, s, rlive[k][s])
  BY DEF Open
<1>4. ASSUME NEW j \in Ranks, NEW r \in Ids, NEW n \in Submissions
      PROVE  /\ Open(j, r, n)' => Open(j, r, n)
             /\ Once(rankq'[j], Add(r, n))
             /\ Has(rankq'[j], Add(r, n)) => rlive'[j][r] # n
  <2>1. Course(j, r, n) /\ n # 0
    BY Counts
  <2>2. rlive'[j][r] = n => rlive[j][r] = n
    BY <1>1, <2>1
  <2>3. QED
    BY <2>1, <2>2 DEF Course, Open
<1>5. Course(k, s, rlive[k][s])
  BY <1>2
<1>6. ~Has(rankq'[k], Add(s, rlive[k][s])) /\ rlive'[k][s] # rlive[k][s]
  BY <1>1, <1>5 DEF Course
<1>7. QED
  BY <1>1, <1>2, <1>3, <1>4, <1>6

\* A rank gives a live request its final output, for an ABORT or by itself.
LEMMA FinishCourse ==
    ASSUME CourseInv, NEW k \in Ranks, NEW s \in Ids, rlive[k][s] # 0,
           Emit(k, s, rlive[k][s], TRUE), rlive' = [rlive EXCEPT ![k][s] = 0], Idle,
           rankq' \in [Ranks -> Seq(Commands)],
           \A j \in Ranks : \A c : /\ Has(rankq'[j], c) => Has(rankq[j], c)
                                   /\ Once(rankq[j], c) => Once(rankq'[j], c)
    PROVE  CourseInv'
<1>1. PICK m \in Submissions : m = rlive[k][s]
  BY AnswerCloses
<1>2. /\ rlive' \in [Ranks -> [Ids -> 0 .. MaxAdds]]
      /\ Open(k, s, m)
      /\ \A j \in Ranks, r \in Ids, n \in Submissions :
            /\ Open(j, r, n)' => Open(j, r, n)
            /\ Once(rankq'[j], Add(r, n))
            /\ Has(rankq'[j], Add(r, n)) => rlive'[j][r] # n
      /\ ~Has(rankq'[k], Add(s, m)) /\ rlive'[k][s] # m
  BY <1>1, AnswerCloses
<1>3. ~Open(k, s, m)'
  BY <1>2 DEF Open
<1>4. Emit(k, s, m, TRUE) /\ TRUE \in BOOLEAN
  BY <1>1
<1>5. QED
  BY <1>2, <1>3, <1>4, EmitCourse

\* A rank reads an ABORT.
LEMMA RankAbortsCourse ==
    ASSUME CourseInv, NEW k \in Ranks, RankAborts(k)
    PROVE  CourseInv'
<1>1. RankCommand(k, "ABORT") /\ Idle
  BY DEF RankAborts
<1>2. Types
  BY DEF CourseInv
<1>3. /\ rankq' \in [Ranks -> Seq(Commands)]
      /\ Head(rankq[k]) \in Commands /\ Head(rankq[k]).type = "ABORT"
      /\ \A j \in Ranks : \A c : /\ Has(rankq'[j], c) => Has(rankq[j], c)
                                 /\ Once(rankq[j], c) => Once(rankq'[j], c)
  BY <1>1, <1>2, RankPops
<1>4. PICK s \in Ids : s = Head(rankq[k]).id
  BY <1>3, CommandKinds
<1>5. CASE rlive[k][s] = 0
  <2>1. UNCHANGED <<routq, outs, rlive>>
    BY <1>4, <1>5 DEF RankAborts
  <2>2. QED
    BY <1>1, <2>1, RankDropsCourse
<1>6. CASE rlive[k][s] # 0
  <2>1. Emit(k, s, rlive[k][s], TRUE) /\ rlive' = [rlive EXCEPT ![k][s] = 0]
    BY <1>4, <1>6 DEF RankAborts
  <2>2. QED
    BY <1>1, <1>3, <1>6, <2>1, FinishCourse
<1>7. QED
  BY <1>5, <1>6

\* A rank, up or failing, answers a live request.
LEMMA RankAnswersCourse ==
    ASSUME CourseInv, NEW k \in Ranks, NEW s \in Ids, RankAnswers(k, s)
    PROVE  CourseInv'
<1>1. /\ rlive[k][s] # 0 /\ Emit(k, s, rlive[k][s], TRUE)
      /\ rlive' = [rlive EXCEPT ![k][s] = 0] /\ rankq' = rankq /\ Idle
  BY DEF RankAnswers
<1>2. rankq' \in [Ranks -> Seq(Commands)]
  BY <1>1 DEF CourseInv, Types
<1>3. \A j \in Ranks : \A c : /\ Has(rankq'[j], c) => Has(rankq[j], c)
                              /\ Once(rankq[j], c) => Once(rankq'[j], c)
  BY <1>1
<1>4. QED
  BY <1>1, <1>2, <1>3, FinishCourse

\* A rank emits an output that is not the final one.
LEMMA RankProgressCourse ==
    ASSUME CourseInv, NEW k \in Ranks, NEW s \in Ids, RankProgress(k, s)
    PROVE  CourseInv'
<1>1. /\ rlive[k][s] # 0 /\ Emit(k, s, rlive[k][s], FALSE)
      /\ rankq' = rankq /\ rlive' = rlive /\ Idle
  BY DEF RankProgress
<1>2. rankq' \in [Ranks -> Seq(Commands)] /\ rlive' \in [Ranks -> [Ids -> 0 .. MaxAdds]]
      /\ rlive[k][s] \in 0 .. MaxAdds
  BY <1>1 DEF CourseInv, Types
<1>3. PICK m \in Submissions : m = rlive[k][s]
  BY <1>1, <1>2, Counts
<1>4. Open(k, s, m) /\ Emit(k, s, m, FALSE) /\ FALSE \in BOOLEAN
  BY <1>1, <1>3 DEF Open
<1>5. ASSUME NEW j \in Ranks, NEW r \in Ids, NEW n \in Submissions
      PROVE  /\ Open(j, r, n)' => Open(j, r, n)
             /\ Once(rankq'[j], Add(r, n))
             /\ Has(rankq'[j], Add(r, n)) => rlive'[j][r] # n
  <2>1. Course(j, r, n)
    BY DEF CourseInv
  <2>2. QED
    BY <1>1, <2>1 DEF Course, Open
<1>6. QED
  BY <1>1, <1>2, <1>4, <1>5, EmitCourse

-----------------------------------------------------------------------------

\* Every step keeps the course.
LEMMA CourseInvNext == CourseInv /\ [Next]_vars => CourseInv'
<1> SUFFICES ASSUME CourseInv, [Next]_vars PROVE CourseInv'
  OBVIOUS
<1>0. turn \in Ranks
  BY DEF CourseInv, Types
<1>1. CASE UNCHANGED vars
  BY <1>0, <1>1, QuietCourse DEF vars, coordVars, tableVars, rankVars, clientVars
<1>2. CASE CoordinatorStep
  <2>1. CASE ParentDrained
    <3>1. turn' \in Ranks
      BY <2>1, Counts DEF ParentDrained
    <3>2. QED
      BY <2>1, <3>1, QuietCourse DEF ParentDrained, rankVars, clientVars
  <2>2. CASE RankDrained
    <3>1. CASE RanksAfter # {}
      <4>1. turn' = turn + 1 /\ UNCHANGED <<cmdq, rankq, routq, tableVars, rlive, outs, adds>>
        BY <2>2, <3>1 DEF RankDrained, rankVars, clientVars
      <4>2. PICK j \in Ranks : j > turn
        BY <3>1 DEF RanksAfter
      <4>3. turn' \in Ranks
        BY <1>0, <4>1, <4>2, Counts
      <4>4. QED
        BY <4>1, <4>3, QuietCourse
    <3>2. CASE RanksAfter = {}
      <4>1. turn' \in Ranks
        BY <2>2, <3>2, Counts DEF RankDrained
      <4>2. QED
        BY <2>2, <4>1, QuietCourse DEF RankDrained, rankVars, clientVars
    <3>3. QED
      BY <3>1, <3>2
  <2>3. CASE RanksJoined
    BY <1>0, <2>3, QuietCourse DEF RanksJoined, rankVars, clientVars
  <2>4. QED
    BY <1>2, <2>1, <2>2, <2>3, HandleShutdownCourse, HandleAddCourse, HandleAbortCourse,
       ForwardOutputCourse, StopRankCourse DEF CoordinatorStep
<1>3. CASE SendShutdown
  <2>1. ShutdownCommand \in Commands /\ ShutdownCommand.type # "ADD"
    BY CommandKinds
  <2>2. QED
    BY <1>3, <2>1, SendOtherCourse DEF SendShutdown
<1>4. ASSUME NEW r \in Ids, SendAdd(r) \/ SendAbort(r)
      PROVE  CourseInv'
  <2>1. Command("ABORT", r, 0) \in Commands /\ Command("ABORT", r, 0).type # "ADD"
    BY CommandKinds
  <2>2. CASE SendAbort(r)
    BY <2>1, <2>2, SendOtherCourse DEF SendAbort
  <2>3. QED
    BY <1>4, <2>2, SendAddCourse
<1>5. ASSUME NEW k \in Ranks, RankHandles(k) \/ RankFails(k) \/ TerminateRank(k)
      PROVE  CourseInv'
  <2>1. CASE RankEnds(k)
    <3>1. CASE UNCHANGED rankq
      BY <1>0, <2>1, <3>1, QuietCourse DEF RankEnds, Idle, coordVars, clientVars
    <3>2. CASE RankCommand(k, "SHUTDOWN")
      BY <2>1, <3>2, RankDropsCourse DEF RankEnds
    <3>3. QED
      BY <2>1, <3>1, <3>2 DEF RankEnds
  <2>2. CASE RankFails(k)
    BY <1>0, <2>2, QuietCourse DEF RankFails, Idle, coordVars, clientVars
  <2>3. CASE TerminateRank(k)
    BY <1>0, <2>3, QuietCourse DEF TerminateRank, coordVars, clientVars
  <2>4. QED
    BY <1>5, <2>1, <2>2, <2>3, RankAcceptsCourse, RankRejectsCourse, RankAbortsCourse DEF RankHandles
<1>6. ASSUME NEW k \in Ranks, NEW r \in Ids, RankServes(k, r)
      PROVE  CourseInv'
  BY <1>6, RankProgressCourse, RankAnswersCourse DEF RankServes
<1>7. CASE TerminateCoordinator
  BY <1>0, <1>7, QuietCourse DEF TerminateCoordinator, rankVars, clientVars
<1>8. QED
  BY <1>1, <1>2, <1>3, <1>4, <1>5, <1>6, <1>7 DEF Next

-----------------------------------------------------------------------------
(* rank_load *)

\* Only reading an ADD and passing on an output touch the coordinator's tables.
LEMMA TablesChange ==
    ASSUME [Next]_vars
    PROVE  HandleAdd \/ ForwardOutput \/ UNCHANGED tableVars
<1> USE DEF vars, coordVars
<1>1. CASE UNCHANGED vars
  BY <1>1
<1>2. CASE CoordinatorStep
  BY <1>2 DEF CoordinatorStep, HandleShutdown, HandleAbort, ParentDrained, RankDrained, StopRank, RanksJoined
<1>3. CASE SendShutdown \/ TerminateCoordinator
  BY <1>3 DEF SendShutdown, TerminateCoordinator
<1>4. ASSUME NEW r \in Ids, SendAdd(r) \/ SendAbort(r)
      PROVE  UNCHANGED tableVars
  BY <1>4 DEF SendAdd, SendAbort
<1>5. ASSUME NEW k \in Ranks, RankHandles(k) \/ RankFails(k) \/ TerminateRank(k)
      PROVE  UNCHANGED tableVars
  BY <1>5 DEF RankHandles, RankAccepts, RankRejects, RankAborts, RankEnds, RankFails, TerminateRank, Idle
<1>6. ASSUME NEW k \in Ranks, NEW r \in Ids, RankServes(k, r)
      PROVE  UNCHANGED tableVars
  BY <1>6 DEF RankServes, RankProgress, RankAnswers, Idle
<1>7. QED
  BY <1>1, <1>2, <1>3, <1>4, <1>5, <1>6 DEF Next

\* Nobody owes anything at the start.
LEMMA LoadInvInit == Init => LoadInv
<1> SUFFICES ASSUME Init, NEW k \in Ranks
             PROVE  IsFiniteSet(OutstandingAt(k)) /\ rank_load[k] = Cardinality(OutstandingAt(k))
  BY DEF LoadInv
<1>1. \A r \in Ids, n \in Submissions : rankOf[r][n] = 0
  BY DEF Init, PerSubmission
<1>2. \A p \in Ids \X Submissions : rankOf[p[1]][p[2]] # k
  <2> SUFFICES ASSUME NEW p \in Ids \X Submissions
               PROVE  rankOf[p[1]][p[2]] # k
    OBVIOUS
  <2>1. p[1] \in Ids /\ p[2] \in Submissions
    OBVIOUS
  <2>2. QED
    BY <1>1, <2>1, Counts
<1>3. OutstandingAt(k) = {}
  BY <1>2 DEF OutstandingAt
<1>4. QED
  BY <1>3, FS_EmptySet DEF Init

\* Who owes what, as a property of a pair.
LEMMA OutstandingPair ==
    ASSUME NEW k, NEW p
    PROVE  /\ p \in OutstandingAt(k) <=>
                 /\ p \in Ids \X Submissions
                 /\ rankOf[p[1]][p[2]] = k /\ ~Answered(forwarded, p[1], p[2])
           /\ p \in OutstandingAt(k)' <=>
                 /\ p \in Ids \X Submissions
                 /\ rankOf'[p[1]][p[2]] = k /\ ~Answered(forwarded', p[1], p[2])
BY DEF OutstandingAt, Answered

\* The load is kept exact by every step.
LEMMA LoadInvNext == CourseInv /\ LoadInv /\ [Next]_vars => LoadInv'
<1> SUFFICES ASSUME CourseInv, LoadInv, [Next]_vars PROVE LoadInv'
  OBVIOUS
<1>0. rank_load \in [Ranks -> Nat] /\ Types
  BY DEF CourseInv, Types
<1>1. CASE HandleAdd
  <2>1. PICK s, m, k : Handed(s, m, k)
    BY <1>0, <1>1, HandleAddHands
  <2>2. s \in Ids /\ m \in Submissions /\ k \in Ranks
    BY <2>1 DEF Handed
  <2>3. rankOf[s][m] = 0 /\ ~Answered(forwarded, s, m) /\ forwarded' = forwarded
    BY <2>1, NowhereYet DEF Handed
  <2>4. /\ rankOf'[s][m] = k
        /\ \A r \in Ids, n \in Submissions : r # s \/ n # m => rankOf'[r][n] = rankOf[r][n]
    <3>1. rankOf \in [Ids -> [Submissions -> 0 .. NumRanks]] /\ rankOf' = [rankOf EXCEPT ![s][m] = k]
      BY <1>0, <2>1 DEF Types, Handed
    <3>2. QED
      BY <2>2, <3>1, RankOfSet
  <2>5. rank_load' = [rank_load EXCEPT ![k] = rank_load[k] + 1]
    BY <1>0, <2>1, <2>2 DEF Handed
  <2>6. OutstandingAt(k)' = OutstandingAt(k) \cup {<<s, m>>} /\ <<s, m>> \notin OutstandingAt(k)
    <3>1. <<s, m>> \notin OutstandingAt(k)
      BY <2>2, <2>3, Counts, OutstandingPair
    <3>2. ASSUME NEW p
          PROVE  p \in OutstandingAt(k)' <=> p \in OutstandingAt(k) \/ p = <<s, m>>
      <4>1. CASE p = <<s, m>>
        BY <2>2, <2>3, <2>4, <4>1, OutstandingPair
      <4>2. CASE p # <<s, m>>
        <5>1. p \in Ids \X Submissions => rankOf'[p[1]][p[2]] = rankOf[p[1]][p[2]]
          <6>1. p \in Ids \X Submissions => p = <<p[1], p[2]>> /\ p[1] \in Ids /\ p[2] \in Submissions
            OBVIOUS
          <6>2. QED
            BY <2>4, <4>2, <6>1
        <5>2. QED
          BY <2>3, <4>2, <5>1, OutstandingPair
      <4>3. QED
        BY <4>1, <4>2
    <3>3. QED
      BY <3>1, <3>2
  <2>7. ASSUME NEW j \in Ranks, j # k
        PROVE  OutstandingAt(j)' = OutstandingAt(j)
    <3>1. ASSUME NEW p
          PROVE  p \in OutstandingAt(j)' <=> p \in OutstandingAt(j)
      <4>1. CASE p = <<s, m>>
        BY <2>2, <2>3, <2>4, <2>7, <4>1, Counts, OutstandingPair
      <4>2. CASE p # <<s, m>>
        <5>1. p \in Ids \X Submissions => rankOf'[p[1]][p[2]] = rankOf[p[1]][p[2]]
          <6>1. p \in Ids \X Submissions => p = <<p[1], p[2]>> /\ p[1] \in Ids /\ p[2] \in Submissions
            OBVIOUS
          <6>2. QED
            BY <2>4, <4>2, <6>1
        <5>2. QED
          BY <2>3, <4>2, <5>1, OutstandingPair
      <4>3. QED
        BY <4>1, <4>2
    <3>2. QED
      BY <3>1
  <2>8. ASSUME NEW j \in Ranks
        PROVE  IsFiniteSet(OutstandingAt(j)') /\ rank_load'[j] = Cardinality(OutstandingAt(j)')
    <3>1. IsFiniteSet(OutstandingAt(j)) /\ rank_load[j] = Cardinality(OutstandingAt(j))
      BY DEF LoadInv
    <3>2. CASE j = k
      <4>1. /\ IsFiniteSet(OutstandingAt(k) \cup {<<s, m>>})
            /\ Cardinality(OutstandingAt(k) \cup {<<s, m>>}) = Cardinality(OutstandingAt(k)) + 1
        BY <2>6, <3>1, <3>2, FS_AddElement
      <4>2. rank_load'[k] = rank_load[k] + 1
        BY <1>0, <2>2, <2>5
      <4>3. QED
        BY <2>6, <3>1, <3>2, <4>1, <4>2
    <3>3. CASE j # k
      BY <1>0, <2>5, <2>7, <3>1, <3>3
    <3>4. QED
      BY <3>2, <3>3
  <2>9. QED
    BY <2>8 DEF LoadInv
<1>2. CASE ForwardOutput
  <2>1. PICK k, e : Passed(k, e)
    BY <1>0, <1>2, ForwardPasses
  <2>2. /\ e.id \in Ids /\ e.sub \in Submissions /\ e.final \in BOOLEAN
        /\ rankOf[e.id][e.sub] = k /\ ~Answered(forwarded, e.id, e.sub)
    BY <2>1, PassedOutput
  <2>3. k \in Ranks /\ rankOf' = rankOf /\ forwarded' = Logged(forwarded, e.id, e.sub, e.final)
    BY <2>1 DEF Passed
  <2>4. /\ Answered(forwarded', e.id, e.sub) <=> e.final
        /\ \A r \in Ids, n \in Submissions : r # e.id \/ n # e.sub =>
              (Answered(forwarded', r, n) <=> Answered(forwarded, r, n))
    <3>1. forwarded \in Logs
      BY <1>0 DEF Types
    <3>2. QED
      BY <2>2, <2>3, <3>1, LoggedAnswered
  <2>5. rank_load' = [rank_load EXCEPT ![k] = LoadAfter(k, e)]
    BY <2>1 DEF Passed
  <2>6. ASSUME NEW p, p # <<e.id, e.sub>>, p \in Ids \X Submissions
        PROVE  Answered(forwarded', p[1], p[2]) <=> Answered(forwarded, p[1], p[2])
    <3>1. p = <<p[1], p[2]>> /\ p[1] \in Ids /\ p[2] \in Submissions
      BY <2>6
    <3>2. QED
      BY <2>4, <2>6, <3>1
  <2>7. <<e.id, e.sub>> \in OutstandingAt(k) /\ (<<e.id, e.sub>> \in OutstandingAt(k)' <=> ~e.final)
    BY <2>2, <2>3, <2>4, OutstandingPair
  <2>8. ASSUME NEW j \in Ranks, j # k \/ ~e.final
        PROVE  OutstandingAt(j)' = OutstandingAt(j)
    <3>1. ASSUME NEW p
          PROVE  p \in OutstandingAt(j)' <=> p \in OutstandingAt(j)
      <4>1. CASE p = <<e.id, e.sub>>
        <5>1. CASE j = k
          BY <2>7, <2>8, <4>1, <5>1
        <5>2. CASE j # k
          BY <2>2, <2>3, <4>1, <5>2, OutstandingPair
        <5>3. QED
          BY <5>1, <5>2
      <4>2. CASE p # <<e.id, e.sub>>
        BY <2>3, <2>6, <4>2, OutstandingPair
      <4>3. QED
        BY <4>1, <4>2
    <3>2. QED
      BY <3>1
  <2>9. e.final => OutstandingAt(k)' = OutstandingAt(k) \ {<<e.id, e.sub>>}
    <3>1. SUFFICES ASSUME e.final, NEW p
                   PROVE  p \in OutstandingAt(k)' <=> p \in OutstandingAt(k) \ {<<e.id, e.sub>>}
      OBVIOUS
    <3>2. CASE p = <<e.id, e.sub>>
      BY <2>7, <3>1, <3>2
    <3>3. CASE p # <<e.id, e.sub>>
      BY <2>3, <2>6, <3>3, OutstandingPair
    <3>4. QED
      BY <3>2, <3>3
  <2>10. ASSUME NEW j \in Ranks
         PROVE  IsFiniteSet(OutstandingAt(j)') /\ rank_load'[j] = Cardinality(OutstandingAt(j)')
    <3>1. IsFiniteSet(OutstandingAt(j)) /\ rank_load[j] = Cardinality(OutstandingAt(j))
      BY DEF LoadInv
    <3>2. CASE j = k /\ e.final
      <4>1. /\ IsFiniteSet(OutstandingAt(k) \ {<<e.id, e.sub>>})
            /\ Cardinality(OutstandingAt(k) \ {<<e.id, e.sub>>}) = Cardinality(OutstandingAt(k)) - 1
        BY <2>7, <3>1, <3>2, FS_RemoveElement
      <4>2. Cardinality(OutstandingAt(k)) # 0 /\ Cardinality(OutstandingAt(k)) \in Nat
        BY <2>7, <3>1, <3>2, FS_EmptySet, FS_CardinalityType
      <4>3. LoadAfter(k, e) = rank_load[k] - 1
        BY <3>1, <3>2, <4>2 DEF LoadAfter
      <4>4. rank_load'[k] = rank_load[k] - 1
        BY <1>0, <2>3, <2>5, <4>3
      <4>5. QED
        BY <2>9, <3>1, <3>2, <4>1, <4>4
    <3>3. CASE j # k \/ ~e.final
      <4>1. rank_load'[j] = rank_load[j]
        BY <1>0, <2>3, <2>5, <3>3 DEF LoadAfter
      <4>2. QED
        BY <2>8, <3>1, <3>3, <4>1
    <3>4. QED
      BY <3>2, <3>3
  <2>11. QED
    BY <2>10 DEF LoadInv
<1>3. CASE UNCHANGED tableVars
  <2>1. \A k \in Ranks : OutstandingAt(k)' = OutstandingAt(k)
    BY <1>3 DEF OutstandingAt, Answered, tableVars
  <2>2. QED
    BY <1>3, <2>1 DEF LoadInv, tableVars
<1>4. QED
  BY <1>1, <1>2, <1>3, TablesChange

\* Whatever the ranks and the clients do, whichever ids are used again and whichever
\* ranks fail, rank_load[k] is the number of submissions rank k was sent and the
\* client has no final output of: the loads _handle_command compares never drift.
THEOREM CoordinatorLoadsExact == Spec => []LoadIsOutstanding
<1>1. Init => CourseInv /\ LoadInv
  BY CourseInvInit, LoadInvInit
<1>2. CourseInv /\ LoadInv /\ [Next]_vars => CourseInv' /\ LoadInv'
  BY CourseInvNext, LoadInvNext
<1>3. LoadInv => LoadIsOutstanding
  BY DEF LoadInv, LoadIsOutstanding
<1>4. QED
  BY <1>1, <1>2, <1>3, PTL DEF Spec

-----------------------------------------------------------------------------
(* request_ranks *)

\* An output does not take back an answer: only a rank that has to answer a
\* submission emits outputs of it.
LEMMA EmitKeepsAnswers ==
    ASSUME CourseInv, NEW k \in Ranks, NEW s \in Ids, NEW m \in Submissions, NEW final \in BOOLEAN,
           Open(k, s, m), Emit(k, s, m, final), NEW r \in Ids, NEW n \in Submissions, Answered(outs, r, n)
    PROVE  Answered(outs', r, n)
<1>1. Course(k, s, m) /\ outs \in Logs
  BY DEF CourseInv, Types
<1>2. r # s \/ n # m
  BY <1>1 DEF Course
<1>3. outs' = Logged(outs, s, m, final)
  BY DEF Emit, Logged
<1>4. QED
  BY <1>1, <1>2, <1>3, LoggedAnswered

\* No step takes back an answer.
LEMMA AnswersStay ==
    ASSUME CourseInv, [Next]_vars, NEW r \in Ids, NEW n \in Submissions, Answered(outs, r, n)
    PROVE  Answered(outs', r, n)
<1> USE DEF vars, rankVars
<1>0. Types /\ TRUE \in BOOLEAN /\ FALSE \in BOOLEAN
  BY DEF CourseInv
<1>1. CASE UNCHANGED outs
  BY <1>1
<1>2. CASE \/ CoordinatorStep \/ SendShutdown \/ TerminateCoordinator
           \/ \E s \in Ids : SendAdd(s) \/ SendAbort(s)
  <2>1. UNCHANGED outs
    BY <1>2 DEF CoordinatorStep, HandleShutdown, HandleAdd, HandleAbort, ParentDrained, ForwardOutput,
                RankDrained, StopRank, RanksJoined, SendShutdown, TerminateCoordinator,
                SendAdd, SendAbort
  <2>2. QED
    BY <2>1
<1>3. ASSUME NEW k \in Ranks, NEW s \in Ids, NEW final \in BOOLEAN, rlive[k][s] # 0,
             Emit(k, s, rlive[k][s], final)
      PROVE  Answered(outs', r, n)
  <2>1. rlive[k][s] \in 0 .. MaxAdds
    BY <1>0 DEF Types
  <2>2. PICK m \in Submissions : m = rlive[k][s]
    BY <1>3, <2>1, Counts
  <2>3. Open(k, s, m) /\ Emit(k, s, m, final)
    BY <1>3, <2>2 DEF Open
  <2>4. QED
    BY <2>3, EmitKeepsAnswers
<1>4. ASSUME NEW k \in Ranks, RankRejects(k)
      PROVE  Answered(outs', r, n)
  <2> DEFINE c == Head(rankq[k])
  <2>1. RankCommand(k, "ADD") /\ Emit(k, c.id, c.sub, TRUE)
    BY <1>4 DEF RankRejects
  <2>2. rankq[k] \in Seq(Commands) /\ rankq[k] # <<>> /\ c \in Commands /\ c.type = "ADD"
    BY <1>0, <2>1, RankPops
  <2>3. PICK s \in Ids, m \in Submissions : c = Add(s, m) /\ c.id = s /\ c.sub = m
    BY <2>2, CommandKinds
  <2>4. Has(rankq[k], c)
    BY <2>2, HasTail
  <2> HIDE DEF c
  <2>5. Open(k, s, m) /\ Emit(k, s, m, TRUE)
    BY <2>1, <2>3, <2>4 DEF Open
  <2>6. QED
    BY <1>0, <2>5, EmitKeepsAnswers
<1>5. ASSUME NEW k \in Ranks, RankAborts(k)
      PROVE  Answered(outs', r, n)
  <2>1. RankCommand(k, "ABORT")
    BY <1>5 DEF RankAborts
  <2>2. Head(rankq[k]) \in Commands /\ Head(rankq[k]).type = "ABORT"
    BY <1>0, <2>1, RankPops
  <2>3. PICK s \in Ids : s = Head(rankq[k]).id
    BY <2>2, CommandKinds
  <2>4. UNCHANGED outs \/ (rlive[k][s] # 0 /\ Emit(k, s, rlive[k][s], TRUE))
    BY <1>5, <2>3 DEF RankAborts
  <2>5. QED
    BY <1>0, <1>1, <1>3, <2>4
<1>6. ASSUME NEW k \in Ranks, RankHandles(k) \/ RankFails(k) \/ TerminateRank(k)
      PROVE  Answered(outs', r, n)
  <2>1. RankRejects(k) \/ RankAborts(k) \/ UNCHANGED outs
    BY <1>6 DEF RankHandles, RankAccepts, RankEnds, RankFails, TerminateRank
  <2>2. QED
    BY <1>1, <1>4, <1>5, <2>1
<1>7. ASSUME NEW k \in Ranks, NEW s \in Ids, RankServes(k, s)
      PROVE  Answered(outs', r, n)
  <2>1. \E final \in BOOLEAN : rlive[k][s] # 0 /\ Emit(k, s, rlive[k][s], final)
    BY <1>0, <1>7 DEF RankServes, RankProgress, RankAnswers
  <2>2. QED
    BY <1>3, <2>1
<1>8. QED
  BY <1>1, <1>2, <1>6, <1>7 DEF Next

\* Nothing was sent to a rank at the start.
LEMMA PlaceInvInit == Init => PlaceInv
BY DEF Init, PlaceInv, PerSubmission

\* With one use of each id, the coordinator keeps the place of a request until its
\* rank has answered.
LEMMA PlaceInvNext ==
    ASSUME MaxAdds = 1, CourseInv, PlaceInv, [Next]_vars
    PROVE  PlaceInv'
<1> SUFFICES ASSUME NEW r \in Ids, NEW n \in Submissions, rankOf'[r][n] # 0, ~Answered(outs', r, n)
             PROVE  request_ranks'[r] = rankOf'[r][n]
  BY DEF PlaceInv, Answered
<1>0. Types /\ \A m \in Submissions : m = n
  <2>1. \A m \in Submissions : m = n
    BY Counts
  <2>2. QED
    BY <2>1 DEF CourseInv
<1>1. ~Answered(outs, r, n)
  BY AnswersStay
<1>2. CASE HandleAdd
  <2>1. PICK s, m, k : Handed(s, m, k)
    BY <1>0, <1>2, HandleAddHands
  <2>2. s \in Ids /\ m = n /\ k \in Ranks
    BY <1>0, <2>1 DEF Handed
  <2>3. /\ rankOf'[s][n] = k /\ \A t \in Ids : t # s => rankOf'[t][n] = rankOf[t][n]
    <3>1. rankOf \in [Ids -> [Submissions -> 0 .. NumRanks]] /\ rankOf' = [rankOf EXCEPT ![s][n] = k]
      BY <1>0, <2>1, <2>2 DEF Types, Handed
    <3>2. QED
      BY <2>2, <3>1, RankOfSet
  <2>4. request_ranks'[s] = k /\ \A t \in Ids : t # s => request_ranks'[t] = request_ranks[t]
    BY <1>0, <2>1, <2>2 DEF Types, Handed
  <2>5. QED
    BY <1>1, <2>3, <2>4 DEF PlaceInv
<1>3. CASE ForwardOutput
  <2>1. PICK k, e : Passed(k, e)
    BY <1>0, <1>3, ForwardPasses
  <2>2. e.id \in Ids /\ e.sub = n /\ (e.final => Answered(outs, e.id, e.sub))
    BY <1>0, <2>1, PassedOutput
  <2>3. rankOf' = rankOf /\ request_ranks' = [request_ranks EXCEPT ![e.id] = RankKept(e)]
    BY <2>1 DEF Passed
  <2>4. request_ranks'[r] = request_ranks[r]
    BY <1>0, <1>1, <2>2, <2>3 DEF RankKept, Types
  <2>5. QED
    BY <1>1, <2>3, <2>4 DEF PlaceInv
<1>4. CASE UNCHANGED tableVars
  BY <1>1, <1>4 DEF PlaceInv, tableVars
<1>5. QED
  BY <1>2, <1>3, <1>4, TablesChange

\* To clients that use no id twice: until its rank has answered a request,
\* request_ranks names that rank, so that an ABORT reaches it.  (With a second use
\* the final output of the first one removes the entry of the second: this is why
\* the hypothesis is there.)
THEOREM CoordinatorKnowsItsRank ==
    ASSUME MaxAdds = 1
    PROVE  Spec => []AbortFindsItsRank
<1>1. Init => CourseInv /\ PlaceInv
  BY CourseInvInit, PlaceInvInit
<1>2. CourseInv /\ PlaceInv /\ [Next]_vars => CourseInv' /\ PlaceInv'
  BY CourseInvNext, PlaceInvNext
<1>3. PlaceInv => AbortFindsItsRank
  <2> SUFFICES ASSUME PlaceInv, NEW k \in Ranks, NEW p \in PendingAt(k)
               PROVE  request_ranks[p[1]] = k
    BY DEF AbortFindsItsRank
  <2>1. p \in Ids \X Submissions /\ rankOf[p[1]][p[2]] = k /\ ~Answered(outs, p[1], p[2])
    BY DEF PendingAt
  <2>2. p[1] \in Ids /\ p[2] \in Submissions /\ k # 0
    BY <2>1, Counts
  <2>3. QED
    BY <2>1, <2>2 DEF PlaceInv
<1>4. QED
  BY <1>1, <1>2, <1>3, PTL DEF Spec

-----------------------------------------------------------------------------
(* The service that the coordinator and its ranks implement. *)

\* Only a closed engine is told to shut down, and it ends when no rank is left.
ClosingInv ==
    /\ shutdown => closed
    /\ Has(cmdq, ShutdownCommand) => closed
    /\ pc \in {"stop", "join", "done"} => shutdown
    /\ pc = "done" => \A k \in Ranks : rstate[k] = "down"

\* With one use of each id: the coordinator sends ABORTs to the rank that got the
\* ADD, and to no other.
HomeInv ==
    /\ \A r \in Ids : request_ranks[r] # 0 => request_ranks[r] = Home(r)
    /\ \A k \in Ranks, r \in Ids : Has(rankq[k], Command("ABORT", r, 0)) => Home(r) = k

\* The order to shut down comes from the client that closes the engine, and the
\* coordinator ends behind its ranks.
LEMMA ClosingInvNext == Types /\ ClosingInv /\ [Next]_vars => ClosingInv'
<1> SUFFICES ASSUME Types, ClosingInv, [Next]_vars PROVE ClosingInv'
  OBVIOUS
<1>0. cmdq \in Seq(Commands)
  BY DEF Types
<1>1. ASSUME cmdq' = cmdq, UNCHANGED <<shutdown, closed, pc>>,
             pc = "done" => \A k \in Ranks : rstate'[k] = "down"
      PROVE  ClosingInv'
  BY <1>1 DEF ClosingInv
<1>2. ASSUME NEW c \in Commands, cmdq' = Append(cmdq, c), UNCHANGED <<shutdown, pc, rstate>>,
             closed => closed', c = ShutdownCommand => closed'
      PROVE  ClosingInv'
  <2>1. Has(cmdq', ShutdownCommand) => Has(cmdq, ShutdownCommand) \/ c = ShutdownCommand
    BY <1>0, <1>2, HasAppend
  <2> QED
    BY <1>2, <2>1 DEF ClosingInv
<1>3. ASSUME cmdq # <<>>, cmdq' = Tail(cmdq), UNCHANGED <<closed, pc, rstate>>,
             shutdown' = shutdown \/ (shutdown' = TRUE /\ closed)
      PROVE  ClosingInv'
  <2>1. Has(cmdq', ShutdownCommand) => Has(cmdq, ShutdownCommand)
    BY <1>0, <1>3, HasTail
  <2> QED
    BY <1>3, <2>1 DEF ClosingInv
<1>4. CASE HandleShutdown
  <2>1. /\ cmdq # <<>> /\ cmdq' = Tail(cmdq) /\ UNCHANGED <<closed, pc, rstate>>
        /\ shutdown' = TRUE /\ Head(cmdq).type = "SHUTDOWN"
    BY <1>4 DEF HandleShutdown, NextCommand, rankVars, clientVars
  <2>2. Head(cmdq) \in Commands /\ Has(cmdq, Head(cmdq))
    BY <1>0, <2>1, HasTail, TailPositions
  <2>3. Head(cmdq) = ShutdownCommand
    BY <2>1, <2>2, ShutdownKind
  <2>4. closed
    BY <2>2, <2>3 DEF ClosingInv
  <2> QED
    BY <1>3, <2>1, <2>4
<1>5. CASE HandleAdd \/ HandleAbort
  BY <1>3, <1>5 DEF HandleAdd, HandleAbort, NextCommand, coordVars, rankVars, clientVars
<1>6. CASE ParentDrained \/ ForwardOutput
  <2>1. CASE ParentDrained
    <3>1. pc' = "outputs" /\ UNCHANGED <<shutdown, closed, rstate>> /\ cmdq' = cmdq
      BY <2>1 DEF ParentDrained, rankVars, clientVars
    <3> QED
      BY <3>1 DEF ClosingInv
  <2>2. CASE ForwardOutput
    <3>1. UNCHANGED <<shutdown, closed, pc, rstate>> /\ cmdq' = cmdq
      BY <2>2 DEF ForwardOutput, rankVars, clientVars
    <3> QED
      BY <1>1, <3>1 DEF ClosingInv
  <2> QED
    BY <1>6, <2>1, <2>2
<1>7. CASE RankDrained
  BY <1>7 DEF RankDrained, ClosingInv, rankVars, clientVars
<1>8. CASE StopRank \/ RanksJoined \/ TerminateCoordinator
  BY <1>8 DEF StopRank, RanksJoined, TerminateCoordinator, ClosingInv, rankVars, clientVars
<1>9. CASE SendShutdown
  <2>1. ShutdownCommand \in Commands
    BY CommandKinds
  <2> QED
    BY <1>2, <1>9, <2>1 DEF SendShutdown, coordVars, rankVars
<1>10. ASSUME NEW r \in Ids, SendAdd(r) PROVE ClosingInv'
  <2>0. adds \in [Ids -> 0 .. MaxAdds]
    BY DEF Types
  <2>1. adds[r] + 1 \in Submissions
    BY <1>10, <2>0, Counts DEF SendAdd
  <2>2. PICK c \in Commands : c = Command("ADD", r, adds[r] + 1) /\ c.type = "ADD"
    BY <2>1, CommandKinds DEF Add
  <2>3. c # ShutdownCommand
    BY <2>2, CommandKinds
  <2> QED
    BY <1>2, <1>10, <2>2, <2>3 DEF SendAdd, coordVars, rankVars
<1>11. ASSUME NEW r \in Ids, SendAbort(r) PROVE ClosingInv'
  <2>1. PICK c \in Commands : c = Command("ABORT", r, 0) /\ c # ShutdownCommand
    BY CommandKinds
  <2> QED
    BY <1>2, <1>11, <2>1 DEF SendAbort, coordVars, rankVars
<1>12. ASSUME NEW k \in Ranks, RankHandles(k) \/ RankFails(k) \/ TerminateRank(k)
       PROVE  ClosingInv'
  <2>1. UNCHANGED <<cmdq, shutdown, closed, pc>>
    BY <1>12 DEF RankHandles, RankAccepts, RankRejects, RankAborts, RankEnds, RankFails,
                 TerminateRank, Idle, coordVars, clientVars
  <2>2. ASSUME pc = "done" PROVE rstate' = rstate
    <3>1. rstate[k] = "down"
      BY <2>2 DEF ClosingInv
    <3> QED
      BY <1>12, <2>2, <3>1 DEF RankHandles, RankAccepts, RankRejects, RankAborts, RankEnds,
                               RankFails, TerminateRank, RankCommand
  <2> QED
    BY <1>1, <2>1, <2>2 DEF ClosingInv
<1>13. ASSUME NEW k \in Ranks, NEW r \in Ids, RankServes(k, r) PROVE ClosingInv'
  BY <1>1, <1>13 DEF RankServes, RankProgress, RankAnswers, Idle, coordVars, clientVars, ClosingInv
<1>14. CASE UNCHANGED vars
  BY <1>14 DEF vars, coordVars, rankVars, clientVars, ClosingInv
<1> QED
  BY <1>4, <1>5, <1>6, <1>7, <1>8, <1>9, <1>10, <1>11, <1>12, <1>13, <1>14
     DEF Next, CoordinatorStep

\* Every id has one submission, the first.
LEMMA OneSubmission ==
    ASSUME MaxAdds = 1
    PROVE  1 \in Submissions /\ \A n \in Submissions : n = 1
BY Counts

\* The rank of a submission is kept for good, and an ABORT goes to the rank that
\* request_ranks names.
LEMMA HomeInvNext ==
    ASSUME MaxAdds = 1, CourseInv, HomeInv, [Next]_vars
    PROVE  HomeInv'
<1> USE DEF vars, coordVars, tableVars
<1>0. /\ Types /\ 1 \in Submissions /\ rankq \in [Ranks -> Seq(Commands)]
      /\ cmdq \in Seq(Commands) /\ request_ranks \in [Ids -> 0 .. NumRanks]
  BY OneSubmission DEF CourseInv, Types
<1>1. ASSUME rankOf' = rankOf, request_ranks' = request_ranks,
             \A k \in Ranks, r \in Ids : Has(rankq'[k], Command("ABORT", r, 0))
                => Has(rankq[k], Command("ABORT", r, 0)) \/ Home(r) = k
      PROVE  HomeInv'
  BY <1>1 DEF HomeInv, Home
<1>2. CASE UNCHANGED rankq /\ UNCHANGED <<request_ranks, rankOf>>
  BY <1>1, <1>2
<1>3. CASE HandleAdd
  <2>1. PICK s, m, k : Handed(s, m, k)
    BY <1>0, <1>3, HandleAddHands
  <2>2. s \in Ids /\ m \in Submissions /\ k \in Ranks /\ m = 1
    BY <2>1, OneSubmission DEF Handed
  <2>3. Home(s) = 0
    BY <2>1, <2>2, NowhereYet DEF Home
  <2>4. Home(s)' = k /\ \A t \in Ids : t # s => Home(t)' = Home(t)
    <3>1. rankOf \in [Ids -> [Submissions -> 0 .. NumRanks]] /\ rankOf' = [rankOf EXCEPT ![s][1] = k]
      BY <1>0, <2>1, <2>2 DEF Types, Handed
    <3> QED
      BY <1>0, <2>2, <3>1, RankOfSet DEF Home
  <2>5. request_ranks'[s] = k /\ \A t \in Ids : t # s => request_ranks'[t] = request_ranks[t]
    BY <1>0, <2>1, <2>2 DEF Handed
  <2>6. ASSUME NEW j \in Ranks, NEW r \in Ids, Has(rankq'[j], Command("ABORT", r, 0))
        PROVE  Home(r)' = j
    <3>1. Add(s, m) \in Commands /\ Add(s, m) # Command("ABORT", r, 0)
      BY <2>2, CommandKinds
    <3>2. rankq'[j] = rankq[j] \/ rankq'[j] = Append(rankq[j], Add(s, m))
      BY <1>0, <2>1, <2>2 DEF Handed
    <3>3. Has(rankq[j], Command("ABORT", r, 0))
      <4>1. rankq[j] \in Seq(Commands)
        BY <1>0
      <4>2. PICK c : c = Command("ABORT", r, 0)
        OBVIOUS
      <4>3. PICK d \in Commands : d = Add(s, m) /\ d # c
        BY <3>1, <4>2
      <4>4. Has(Append(rankq[j], d), c) => Has(rankq[j], c)
        BY <4>1, <4>3, HasAppend
      <4> QED
        BY <2>6, <3>2, <4>2, <4>3, <4>4
    <3>4. Home(r) = j /\ j # 0
      BY <3>3, Counts DEF HomeInv
    <3> QED
      BY <2>3, <2>4, <3>4
  <2> QED
    BY <2>4, <2>5, <2>6 DEF HomeInv
<1>4. CASE HandleAbort
  <2>1. /\ cmdq # <<>> /\ Head(cmdq).type = "ABORT"
        /\ UNCHANGED <<request_ranks, rankOf>>
    BY <1>4 DEF HandleAbort, NextCommand
  <2>2. PICK c \in Commands : c = Head(cmdq)
    BY <1>0, <2>1, TailPositions
  <2>3. PICK k : k = request_ranks[c.id]
    OBVIOUS
  <2>4. rankq' = IF k = 0 THEN rankq ELSE [rankq EXCEPT ![k] = Append(@, c)]
    BY <1>4, <2>2, <2>3 DEF HandleAbort, AbortRank
  <2>5. PICK s \in Ids : s = c.id /\ c = Command("ABORT", s, 0)
    BY <2>1, <2>2, AbortKind
  <2>6. ASSUME NEW j \in Ranks, NEW r \in Ids, Has(rankq'[j], Command("ABORT", r, 0))
        PROVE  Has(rankq[j], Command("ABORT", r, 0)) \/ Home(r) = j
    <3>1. CASE rankq'[j] = rankq[j]
      BY <2>6, <3>1
    <3>2. CASE k # 0 /\ j = k /\ rankq'[j] = Append(rankq[j], c)
      <4>1. rankq[j] \in Seq(Commands)
        BY <1>0
      <4>2. Has(rankq[j], Command("ABORT", r, 0)) \/ c = Command("ABORT", r, 0)
        BY <2>6, <3>2, <4>1, HasAppend
      <4>3. c = Command("ABORT", r, 0) => c.id = r
        BY DEF Command
      <4> QED
        BY <2>3, <2>5, <3>2, <4>2, <4>3 DEF HomeInv
    <3> QED
      BY <1>0, <2>4, <3>1, <3>2
  <2> QED
    BY <1>1, <2>1, <2>6
<1>5. CASE ForwardOutput
  <2>1. PICK k, e : Passed(k, e)
    BY <1>0, <1>5, ForwardPasses
  <2>2. /\ rankOf' = rankOf /\ rankq' = rankq
        /\ request_ranks' = [request_ranks EXCEPT ![e.id] = RankKept(e)]
    BY <2>1 DEF Passed
  <2>3. ASSUME NEW r \in Ids PROVE request_ranks'[r] \in {0, request_ranks[r]}
    BY <1>0, <2>2 DEF RankKept
  <2> QED
    BY <2>2, <2>3 DEF HomeInv, Home
<1>6. CASE StopRank
  <2>1. ShutdownCommand \in Commands /\ \A r \in Ids : ShutdownCommand # Command("ABORT", r, 0)
    BY CommandKinds
  <2>2. ASSUME NEW j \in Ranks, NEW r \in Ids, Has(rankq'[j], Command("ABORT", r, 0))
        PROVE  Has(rankq[j], Command("ABORT", r, 0))
    <3>1. /\ rankq'[j] = rankq[j] \/ rankq'[j] = Append(rankq[j], ShutdownCommand)
          /\ rankq[j] \in Seq(Commands)
      BY <1>0, <1>6, StopRankPuts DEF Types
    <3>2. PICK q \in Seq(Commands) : q = rankq[j]
      BY <3>1
    <3>3. Has(Append(q, ShutdownCommand), Command("ABORT", r, 0)) => Has(q, Command("ABORT", r, 0))
      BY <2>1, HasAppend
    <3>4. CASE rankq'[j] = rankq[j]
      BY <2>2, <3>4
    <3>5. CASE rankq'[j] = Append(rankq[j], ShutdownCommand)
      BY <2>2, <3>2, <3>3, <3>5
    <3> QED
      BY <3>1, <3>4, <3>5
  <2> QED
    BY <1>1, <1>6, <2>2 DEF StopRank
<1>7. ASSUME NEW k \in Ranks, NEW type, RankCommand(k, type), UNCHANGED <<request_ranks, rankOf>>
      PROVE  HomeInv'
  <2>1. \A j \in Ranks : \A c : Has(rankq'[j], c) => Has(rankq[j], c)
    BY <1>0, <1>7, RankPops
  <2> QED
    BY <1>1, <1>7, <2>1
<1>8. ASSUME NEW k \in Ranks, RankHandles(k) PROVE HomeInv'
  <2>1. UNCHANGED <<request_ranks, rankOf>>
    BY <1>8 DEF RankHandles, RankAccepts, RankRejects, RankAborts, RankEnds, Idle
  <2>2. UNCHANGED rankq \/ \E type \in {"ADD", "ABORT", "SHUTDOWN"} : RankCommand(k, type)
    BY <1>8 DEF RankHandles, RankAccepts, RankRejects, RankAborts, RankEnds
  <2> QED
    BY <1>2, <1>7, <2>1, <2>2
<1>9. CASE \/ HandleShutdown \/ ParentDrained \/ RankDrained \/ RanksJoined \/ SendShutdown
           \/ TerminateCoordinator \/ \E r \in Ids : SendAdd(r) \/ SendAbort(r)
  BY <1>2, <1>9 DEF HandleShutdown, ParentDrained, RankDrained, RanksJoined, SendShutdown,
                    TerminateCoordinator, SendAdd, SendAbort
<1>10. CASE \E k \in Ranks : RankFails(k) \/ TerminateRank(k) \/ \E r \in Ids : RankServes(k, r)
  BY <1>2, <1>10 DEF RankFails, TerminateRank, RankServes, RankProgress, RankAnswers, Idle
<1> QED
  BY <1>2, <1>3, <1>4, <1>5, <1>6, <1>8, <1>9, <1>10 DEF Next, CoordinatorStep

\* The orders about r are the commands that name it.
LEMMA OrdersFacts ==
    /\ \A c \in Commands : \A r \in Ids : c \in OrdersOf(r) <=> c.type # "SHUTDOWN" /\ c.id = r
    /\ \A r \in Ids : \A c \in OrdersOf(r) : /\ c \in Commands
                                             /\ \/ c = Command("ABORT", r, 0)
                                                \/ \E n \in Submissions : c = Add(r, n)
<1>1. \A r \in Ids : \A c \in OrdersOf(r) :
         /\ c \in Commands
         /\ c = Command("ABORT", r, 0) \/ \E n \in Submissions : c = Add(r, n)
  BY DEF OrdersOf, Commands, Add
<1>2. ASSUME NEW c \in Commands, NEW r \in Ids, c \in OrdersOf(r)
      PROVE  c.type # "SHUTDOWN" /\ c.id = r
  BY <1>2 DEF OrdersOf, Command
<1>3. ASSUME NEW c \in Commands, NEW r \in Ids, c.type # "SHUTDOWN", c.id = r
      PROVE  c \in OrdersOf(r)
  BY <1>3 DEF OrdersOf, Commands, Add, Command, ShutdownCommand
<1> QED
  BY <1>1, <1>2, <1>3

\* What is seen of the queues.
LEMMA SeenTypes ==
    ASSUME MaxAdds = 1, CourseInv, NEW r \in Ids
    PROVE  /\ Home(r) \in 0 .. NumRanks /\ (Home(r) # 0 => Home(r) \in Ranks)
           /\ \A k \in Ranks : rankq[k] \in Seq(Commands) /\ Only(rankq[k], OrdersOf(r)) \in Seq(Commands)
           /\ cmdq \in Seq(Commands)
           /\ AtRank(r) \in Seq(Commands) /\ AtCoordinator(r) \in Seq(Commands)
<1>1. /\ rankOf \in [Ids -> [Submissions -> 0 .. NumRanks]] /\ 1 \in Submissions
      /\ cmdq \in Seq(Commands) /\ rankq \in [Ranks -> Seq(Commands)]
  BY OneSubmission DEF CourseInv, Types
<1>2. Home(r) \in 0 .. NumRanks
  BY <1>1 DEF Home
<1>3. Home(r) # 0 => Home(r) \in Ranks
  BY <1>2, Counts
<1>4. \A k \in Ranks : rankq[k] \in Seq(Commands)
  BY <1>1
<1>5. \A k \in Ranks : Only(rankq[k], OrdersOf(r)) \in Seq(Commands)
  BY <1>4, OnlyKept
<1>6. AtCoordinator(r) \in Seq(Commands)
  BY <1>1, OnlyKept DEF AtCoordinator
<1>7. AtRank(r) \in Seq(Commands)
  BY <1>3, <1>5 DEF AtRank
<1> QED
  BY <1>1, <1>2, <1>3, <1>4, <1>5, <1>6, <1>7

\* Only its rank knows of a request.
LEMMA OnlyItsRank ==
    ASSUME MaxAdds = 1, CourseInv, HomeInv, NEW r \in Ids, NEW k \in Ranks, Home(r) # k
    PROVE  Only(rankq[k], OrdersOf(r)) = <<>> /\ rlive[k][r] = 0
<1>1. ASSUME NEW n \in Submissions PROVE ~Open(k, r, n)
  <2>1. Course(k, r, n) /\ n = 1
    BY OneSubmission DEF CourseInv
  <2> QED
    BY <2>1 DEF Course, Home
<1>2. ~Has(rankq[k], Command("ABORT", r, 0))
  BY DEF HomeInv
<1>3. \A n \in Submissions : ~Has(rankq[k], Add(r, n))
  BY <1>1 DEF Open
<1>4. \A j \in DOMAIN rankq[k] : rankq[k][j] \notin OrdersOf(r)
  BY <1>2, <1>3, OrdersFacts DEF Has
<1>5. rankq[k] \in Seq(Commands)
  BY SeenTypes
<1>6. Only(rankq[k], OrdersOf(r)) = <<>>
  BY <1>4, <1>5, OnlyFrom
<1>7. rlive[k][r] \in 0 .. MaxAdds
  BY DEF CourseInv, Types
<1>8. rlive[k][r] # 0 => rlive[k][r] \in Submissions
  BY <1>7, Counts
<1>9. rlive[k][r] = 0
  BY <1>1, <1>8 DEF Open
<1> QED
  BY <1>6, <1>9

\* A request that is live at a rank is at its own rank.
LEMMA LiveAtHome ==
    ASSUME MaxAdds = 1, CourseInv, HomeInv, NEW k \in Ranks, NEW r \in Ids
    PROVE  /\ rlive[k][r] # 0 => Home(r) = k
           /\ Home(r) = k => LiveSub(r) = rlive[k][r]
<1>1. rlive[k][r] # 0 => Home(r) = k
  BY OnlyItsRank
<1>2. Home(r) = k => LiveSub(r) = rlive[k][r]
  BY Counts DEF LiveSub
<1> QED
  BY <1>1, <1>2

\* A command is sent to the coordinator.
LEMMA CmdsAppend ==
    ASSUME MaxAdds = 1, CourseInv, NEW c \in Commands, cmdq' = Append(cmdq, c),
           rankq' = rankq, rankOf' = rankOf
    PROVE  \A x \in Ids : CmdsOf(x)' = IF c \in OrdersOf(x) THEN Append(CmdsOf(x), c) ELSE CmdsOf(x)
<1> SUFFICES ASSUME NEW x \in Ids
             PROVE  CmdsOf(x)' = IF c \in OrdersOf(x) THEN Append(CmdsOf(x), c) ELSE CmdsOf(x)
  OBVIOUS
<1>1. AtRank(x)' = AtRank(x)
  BY DEF AtRank, Home
<1>2. AtCoordinator(x)' = IF c \in OrdersOf(x) THEN Append(AtCoordinator(x), c) ELSE AtCoordinator(x)
  BY SeenTypes, OnlyAppend DEF AtCoordinator
<1>3. PICK s \in Seq(Commands) : s = AtRank(x)
  BY SeenTypes
<1>4. PICK t \in Seq(Commands) : t = AtCoordinator(x)
  BY SeenTypes
<1>5. s \o Append(t, c) = Append(s \o t, c)
  BY TwoParts
<1> QED
  BY <1>1, <1>2, <1>3, <1>4, <1>5 DEF CmdsOf

\* What the coordinator sees when it reads a command.
LEMMA CoordinatorReads ==
    ASSUME MaxAdds = 1, CourseInv, NEW x \in Ids, cmdq # <<>>, cmdq' = Tail(cmdq)
    PROVE  IF Head(cmdq) \in OrdersOf(x)
           THEN /\ AtCoordinator(x) # <<>> /\ Head(AtCoordinator(x)) = Head(cmdq)
                /\ AtCoordinator(x)' = Tail(AtCoordinator(x))
           ELSE AtCoordinator(x)' = AtCoordinator(x)
BY SeenTypes, OnlyTail DEF AtCoordinator

\* What a client sees of a queue when a command is put behind it.
LEMMA SeenAppend ==
    ASSUME NEW q \in Seq(Commands), NEW c \in Commands, NEW x
    PROVE  Only(Append(q, c), OrdersOf(x)) =
              IF c \in OrdersOf(x) THEN Append(Only(q, OrdersOf(x)), c) ELSE Only(q, OrdersOf(x))
BY OnlyAppend

\* A command that the coordinator hands on moves from its queue to the rank's.
LEMMA CommandMoves ==
    ASSUME MaxAdds = 1, CourseInv, HomeInv, NEW r \in Ids, NEW k \in Ranks, NEW c \in OrdersOf(r),
           cmdq # <<>>, Head(cmdq) = c, cmdq' = Tail(cmdq),
           rankq' = [rankq EXCEPT ![k] = Append(@, c)],
           Home(r) \in {0, k}, Home(r)' = k, \A x \in Ids \ {r} : Home(x)' = Home(x)
    PROVE  \A x \in Ids : CmdsOf(x)' = CmdsOf(x)
<1>1. c \in Commands /\ \A x \in Ids : c \in OrdersOf(x) <=> x = r
  BY OrdersFacts
<1>2. /\ rankq \in [Ranks -> Seq(Commands)] /\ rankq'[k] = Append(rankq[k], c)
      /\ \A j \in Ranks \ {k} : rankq'[j] = rankq[j]
  BY DEF CourseInv, Types
<1>3. ASSUME NEW x \in Ids, NEW j \in Ranks
      PROVE  Only(rankq'[j], OrdersOf(x)) = IF x = r /\ j = k THEN Append(Only(rankq[j], OrdersOf(x)), c)
                                            ELSE Only(rankq[j], OrdersOf(x))
  <2>1. rankq[j] \in Seq(Commands)
    BY <1>2
  <2>2. c \in Commands /\ (c \in OrdersOf(x) <=> x = r)
    BY <1>1
  <2>3. Only(Append(rankq[j], c), OrdersOf(x))
           = IF c \in OrdersOf(x) THEN Append(Only(rankq[j], OrdersOf(x)), c)
             ELSE Only(rankq[j], OrdersOf(x))
    BY <2>1, <2>2, SeenAppend
  <2> QED
    BY <1>2, <2>2, <2>3
<1>4. ASSUME NEW x \in Ids, x # r PROVE CmdsOf(x)' = CmdsOf(x)
  <2>1. AtCoordinator(x)' = AtCoordinator(x)
    BY <1>1, <1>4, CoordinatorReads
  <2>2. Home(x)' = Home(x) /\ (Home(x) # 0 => Home(x) \in Ranks)
    BY <1>4, SeenTypes
  <2>3. AtRank(x)' = AtRank(x)
    BY <1>3, <1>4, <2>2 DEF AtRank
  <2> QED
    BY <2>1, <2>3 DEF CmdsOf
<1>5. CmdsOf(r)' = CmdsOf(r)
  <2>1. /\ AtCoordinator(r) # <<>> /\ Head(AtCoordinator(r)) = c
        /\ AtCoordinator(r)' = Tail(AtCoordinator(r))
    BY <1>1, CoordinatorReads
  <2>2. k # 0
    BY Counts
  <2>3. AtRank(r) = Only(rankq[k], OrdersOf(r))
    <3>1. CASE Home(r) = 0
      BY <2>2, <3>1, OnlyItsRank DEF AtRank
    <3>2. CASE Home(r) = k
      BY <2>2, <3>2 DEF AtRank
    <3> QED
      BY <3>1, <3>2
  <2>4. AtRank(r)' = Append(AtRank(r), c)
    <3>1. AtRank(r)' = Only(rankq'[k], OrdersOf(r))
      BY <2>2 DEF AtRank
    <3> QED
      BY <1>3, <2>3, <3>1
  <2>5. PICK s \in Seq(Commands) : s = AtRank(r)
    BY SeenTypes
  <2>6. PICK t \in Seq(Commands) : t = AtCoordinator(r)
    BY SeenTypes
  <2>7. Append(s, c) \o Tail(t) = s \o t
    <3>1. t # <<>> /\ Head(t) = c
      BY <2>1, <2>6
    <3>2. c \in Commands
      BY <1>1
    <3>3. t # <<>> /\ Head(t) = c => Append(s, c) \o Tail(t) = s \o t
      BY <3>2, TwoParts
    <3> QED
      BY <3>1, <3>3
  <2> QED
    BY <2>1, <2>4, <2>5, <2>6, <2>7 DEF CmdsOf
<1> QED
  BY <1>4, <1>5

\* What a client sees of a rank's queue when the rank reads a command.
LEMMA RankReads ==
    ASSUME MaxAdds = 1, CourseInv, NEW k \in Ranks, NEW type, RankCommand(k, type), NEW x \in Ids
    PROVE  /\ Head(rankq[k]) \in Commands /\ Head(rankq[k]).type = type
           /\ \A j \in Ranks \ {k} : Only(rankq'[j], OrdersOf(x)) = Only(rankq[j], OrdersOf(x))
           /\ IF Head(rankq[k]) \in OrdersOf(x)
              THEN /\ Only(rankq[k], OrdersOf(x)) # <<>>
                   /\ Head(Only(rankq[k], OrdersOf(x))) = Head(rankq[k])
                   /\ Only(rankq'[k], OrdersOf(x)) = Tail(Only(rankq[k], OrdersOf(x)))
              ELSE Only(rankq'[k], OrdersOf(x)) = Only(rankq[k], OrdersOf(x))
<1>1. /\ rankq[k] \in Seq(Commands) /\ rankq[k] # <<>> /\ rankq'[k] = Tail(rankq[k])
      /\ Head(rankq[k]) \in Commands /\ Head(rankq[k]).type = type
      /\ \A j \in Ranks : j # k => rankq'[j] = rankq[j]
  BY RankPops DEF CourseInv
<1>2. IF Head(rankq[k]) \in OrdersOf(x)
      THEN /\ Only(rankq[k], OrdersOf(x)) # <<>>
           /\ Head(Only(rankq[k], OrdersOf(x))) = Head(rankq[k])
           /\ Only(Tail(rankq[k]), OrdersOf(x)) = Tail(Only(rankq[k], OrdersOf(x)))
      ELSE Only(Tail(rankq[k]), OrdersOf(x)) = Only(rankq[k], OrdersOf(x))
  BY <1>1, OnlyTail
<1> QED
  BY <1>1, <1>2

\* The requests that a rank's command is not about.
LEMMA OthersRead ==
    ASSUME MaxAdds = 1, CourseInv, NEW k \in Ranks, NEW type, RankCommand(k, type),
           UNCHANGED <<cmdq, rankOf>>, NEW x \in Ids, Head(rankq[k]) \notin OrdersOf(x)
    PROVE  CmdsOf(x)' = CmdsOf(x)
<1>1. \A j \in Ranks : Only(rankq'[j], OrdersOf(x)) = Only(rankq[j], OrdersOf(x))
  BY RankReads
<1>2. Home(x)' = Home(x) /\ (Home(x) # 0 => Home(x) \in Ranks)
  BY SeenTypes DEF Home
<1>3. AtRank(x)' = AtRank(x)
  BY <1>1, <1>2 DEF AtRank
<1>4. AtCoordinator(x)' = AtCoordinator(x)
  BY DEF AtCoordinator
<1> QED
  BY <1>3, <1>4 DEF CmdsOf

\* The first command about r that a rank reads is the first the client has sent.
LEMMA TakeStep ==
    ASSUME MaxAdds = 1, CourseInv, HomeInv, ClosingInv, NEW k \in Ranks,
           NEW type \in {"ADD", "ABORT"}, RankCommand(k, type),
           UNCHANGED <<cmdq, rankOf>>, NEW r \in Ids, r = Head(rankq[k]).id
    PROVE  /\ Service!NextIs(type, r)
           /\ Home(r) = k /\ Head(CmdsOf(r)) = Head(rankq[k])
<1>1. PICK c \in Commands : c = Head(rankq[k]) /\ c.type = type /\ c.id = r
  BY RankReads
<1>2. \A x \in Ids : c \in OrdersOf(x) <=> x = r
  BY <1>1, OrdersFacts
<1>3. /\ Only(rankq[k], OrdersOf(r)) # <<>> /\ Head(Only(rankq[k], OrdersOf(r))) = c
      /\ Only(rankq'[k], OrdersOf(r)) = Tail(Only(rankq[k], OrdersOf(r)))
  BY <1>1, <1>2, RankReads
<1>4. Home(r) = k /\ k # 0 /\ Home(r)' = Home(r)
  BY <1>3, OnlyItsRank, Counts DEF Home
<1>5. AtRank(r) # <<>> /\ Head(AtRank(r)) = c /\ AtRank(r)' = Tail(AtRank(r))
  BY <1>3, <1>4 DEF AtRank
<1>6. PICK s \in Seq(Commands) : s = AtRank(r)
  BY SeenTypes
<1>7. PICK t \in Seq(Commands) : t = AtCoordinator(r) /\ t = AtCoordinator(r)'
  BY SeenTypes DEF AtCoordinator
<1>8. s \o t # <<>> /\ Head(s \o t) = Head(s) /\ Tail(s \o t) = Tail(s) \o t
  <2>1. s # <<>>
    BY <1>5, <1>6
  <2> QED
    BY <1>1, <2>1, TwoParts
<1>9. CmdsOf(r) # <<>> /\ Head(CmdsOf(r)) = c /\ CmdsOf(r)' = Tail(CmdsOf(r))
  BY <1>5, <1>6, <1>7, <1>8 DEF CmdsOf
<1>10. \A x \in Ids \ {r} : CmdsOf(x)' = CmdsOf(x)
  BY <1>1, <1>2, OthersRead
<1>11. [x \in Ids |-> CmdsOf(x)]' = [[x \in Ids |-> CmdsOf(x)] EXCEPT ![r] = Tail(@)]
  BY <1>9, <1>10
<1>12. Status = "up"
  BY DEF RankCommand, ClosingInv, Status
<1> QED
  BY <1>1, <1>4, <1>9, <1>11, <1>12 DEF Service!NextIs

\* A rank that starts or ends with a request.
LEMMA LiveSet ==
    ASSUME MaxAdds = 1, CourseInv, HomeInv, NEW k \in Ranks, NEW r \in Ids, Home(r) = k, NEW v,
           rlive'[k][r] = v, \A x \in Ids \ {r} : \A j \in Ranks : rlive'[j][x] = rlive[j][x],
           rankOf' = rankOf
    PROVE  [x \in Ids |-> LiveSub(x)]' = [[x \in Ids |-> LiveSub(x)] EXCEPT ![r] = v]
<1>1. \A x \in Ids : Home(x)' = Home(x) /\ (Home(x) # 0 => Home(x) \in Ranks)
  BY SeenTypes DEF Home
<1>2. LiveSub(r)' = v
  BY <1>1, Counts DEF LiveSub
<1>3. \A x \in Ids \ {r} : LiveSub(x)' = LiveSub(x)
  BY <1>1 DEF LiveSub
<1> QED
  BY <1>2, <1>3

\* The state that the service shows.
View == <<[r \in Ids |-> CmdsOf(r)], [r \in Ids |-> 1 .. adds[r]], [r \in Ids |-> LiveSub(r)],
          outs, closed, Status>>

\* A rank accepts or rejects what the service accepts or rejects.
LEMMA RankAddRefines ==
    ASSUME MaxAdds = 1, CourseInv, HomeInv, ClosingInv, NEW k \in Ranks,
           RankAccepts(k) \/ RankRejects(k)
    PROVE  \E r \in Ids : Service!Accept(r) \/ Service!Reject(r)
<1>1. RankCommand(k, "ADD") /\ UNCHANGED <<cmdq, rankOf, adds, closed, pc>>
  BY DEF RankAccepts, RankRejects, Idle, coordVars, tableVars, clientVars
<1>2. PICK c \in Commands : c = Head(rankq[k]) /\ c.type = "ADD"
  BY <1>1, RankPops DEF CourseInv
<1>3. PICK r \in Ids : r = c.id
  BY <1>2, CommandKinds
<1>4. Service!NextIs("ADD", r) /\ Home(r) = k /\ Head(CmdsOf(r)) = c
  BY <1>1, <1>2, <1>3, TakeStep
<1>5. Status' = Status /\ [x \in Ids |-> 1 .. adds[x]]' = [x \in Ids |-> 1 .. adds[x]]
  BY <1>1 DEF Status
<1>6. LiveSub(r) = rlive[k][r]
  BY <1>4, LiveAtHome
<1>7. CASE RankAccepts(k)
  <2>1. rlive[k][r] = 0 /\ rlive' = [rlive EXCEPT ![k][r] = c.sub] /\ outs' = outs
    BY <1>2, <1>3, <1>7 DEF RankAccepts
  <2>2. [x \in Ids |-> LiveSub(x)]' = [[x \in Ids |-> LiveSub(x)] EXCEPT ![r] = c.sub]
    <3>1. rlive \in [Ranks -> [Ids -> 0 .. MaxAdds]]
      BY DEF CourseInv, Types
    <3>2. /\ rlive'[k][r] = c.sub
          /\ \A x \in Ids \ {r} : \A j \in Ranks : rlive'[j][x] = rlive[j][x]
      BY <2>1, <3>1
    <3> QED
      BY <1>1, <1>4, <3>2, LiveSet
  <2>3. Service!Accept(r)
    BY <1>1, <1>4, <1>5, <1>6, <2>1, <2>2 DEF Service!Accept
  <2> QED
    BY <2>3
<1>8. CASE RankRejects(k)
  <2>1. rlive' = rlive /\ outs' = [outs EXCEPT ![r][c.sub] = Append(@, TRUE)]
    BY <1>2, <1>3, <1>8 DEF RankRejects, Emit
  <2>2. [x \in Ids |-> LiveSub(x)]' = [x \in Ids |-> LiveSub(x)]
    BY <1>1, <2>1 DEF LiveSub, Home
  <2>3. Service!Reject(r)
    BY <1>1, <1>4, <1>5, <2>1, <2>2 DEF Service!Reject, Service!Emit
  <2> QED
    BY <2>3
<1> QED
  BY <1>7, <1>8

\* A rank handles an ABORT as the service does.
LEMMA RankAbortRefines ==
    ASSUME MaxAdds = 1, CourseInv, HomeInv, ClosingInv, NEW k \in Ranks, RankAborts(k)
    PROVE  \E r \in Ids : Service!Abort(r)
<1>1. RankCommand(k, "ABORT") /\ UNCHANGED <<cmdq, rankOf, adds, closed, pc>>
  BY DEF RankAborts, Idle, coordVars, tableVars, clientVars
<1>2. PICK c \in Commands : c = Head(rankq[k]) /\ c.type = "ABORT"
  BY <1>1, RankPops DEF CourseInv
<1>3. PICK r \in Ids : r = c.id
  BY <1>2, CommandKinds
<1>4. Service!NextIs("ABORT", r) /\ Home(r) = k
  BY <1>1, <1>2, <1>3, TakeStep
<1>5. Status' = Status /\ [x \in Ids |-> 1 .. adds[x]]' = [x \in Ids |-> 1 .. adds[x]]
  BY <1>1 DEF Status
<1>6. LiveSub(r) = rlive[k][r]
  BY <1>4, LiveAtHome
<1>7. CASE rlive[k][r] = 0
  <2>1. rlive' = rlive /\ outs' = outs
    BY <1>2, <1>3, <1>7 DEF RankAborts
  <2>2. [x \in Ids |-> LiveSub(x)]' = [x \in Ids |-> LiveSub(x)]
    BY <1>1, <2>1 DEF LiveSub, Home
  <2>3. Service!Abort(r)
    BY <1>1, <1>4, <1>5, <1>6, <1>7, <2>1, <2>2 DEF Service!Abort
  <2> QED
    BY <2>3
<1>8. CASE rlive[k][r] # 0
  <2>1. /\ rlive' = [rlive EXCEPT ![k][r] = 0]
        /\ outs' = [outs EXCEPT ![r][rlive[k][r]] = Append(@, TRUE)]
    <3>1. Emit(k, r, rlive[k][r], TRUE) /\ rlive' = [rlive EXCEPT ![k][r] = 0]
      BY <1>2, <1>3, <1>8 DEF RankAborts
    <3> QED
      BY <3>1 DEF Emit
  <2>2. [x \in Ids |-> LiveSub(x)]' = [[x \in Ids |-> LiveSub(x)] EXCEPT ![r] = 0]
    <3>1. rlive \in [Ranks -> [Ids -> 0 .. MaxAdds]]
      BY DEF CourseInv, Types
    <3>2. /\ rlive'[k][r] = 0
          /\ \A x \in Ids \ {r} : \A j \in Ranks : rlive'[j][x] = rlive[j][x]
      BY <2>1, <3>1
    <3> QED
      BY <1>1, <1>4, <3>2, LiveSet
  <2>3. Service!Abort(r)
    BY <1>1, <1>4, <1>5, <1>6, <1>8, <2>1, <2>2 DEF Service!Abort, Service!Emit
  <2> QED
    BY <2>3
<1> QED
  BY <1>7, <1>8

\* The outputs of a rank are those of the service.
LEMMA RankServesRefines ==
    ASSUME MaxAdds = 1, CourseInv, HomeInv, ClosingInv, NEW k \in Ranks, NEW r \in Ids, RankServes(k, r)
    PROVE  Service!Progress(r) \/ Service!Answer(r)
<1>1. /\ UNCHANGED <<cmdq, rankq, rankOf, adds, closed, pc>>
      /\ rlive[k][r] # 0 /\ rstate[k] # "down"
  BY DEF RankServes, RankProgress, RankAnswers, Idle, coordVars, tableVars, clientVars
<1>2. /\ [x \in Ids |-> CmdsOf(x)]' = [x \in Ids |-> CmdsOf(x)]
      /\ [x \in Ids |-> 1 .. adds[x]]' = [x \in Ids |-> 1 .. adds[x]]
      /\ Status' = Status
  BY <1>1 DEF CmdsOf, AtRank, AtCoordinator, Home, Status
<1>3. Home(r) = k /\ LiveSub(r) = rlive[k][r]
  BY <1>1, LiveAtHome
<1>4. Status = "up"
  BY <1>1 DEF ClosingInv, Status
<1>5. CASE RankProgress(k, r)
  <2>1. rlive' = rlive /\ outs' = [outs EXCEPT ![r][rlive[k][r]] = Append(@, FALSE)]
    BY <1>5 DEF RankProgress, Emit
  <2>2. [x \in Ids |-> LiveSub(x)]' = [x \in Ids |-> LiveSub(x)]
    BY <1>1, <2>1 DEF LiveSub, Home
  <2> QED
    BY <1>1, <1>2, <1>3, <1>4, <2>1, <2>2 DEF Service!Progress, Service!Emit
<1>6. CASE RankAnswers(k, r)
  <2>1. /\ rlive' = [rlive EXCEPT ![k][r] = 0]
        /\ outs' = [outs EXCEPT ![r][rlive[k][r]] = Append(@, TRUE)]
    BY <1>6 DEF RankAnswers, Emit
  <2>2. [x \in Ids |-> LiveSub(x)]' = [[x \in Ids |-> LiveSub(x)] EXCEPT ![r] = 0]
    <3>1. rlive \in [Ranks -> [Ids -> 0 .. MaxAdds]]
      BY DEF CourseInv, Types
    <3>2. /\ rlive'[k][r] = 0
          /\ \A x \in Ids \ {r} : \A j \in Ranks : rlive'[j][x] = rlive[j][x]
      BY <2>1, <3>1
    <3> QED
      BY <1>1, <1>3, <3>2, LiveSet
  <2> QED
    BY <1>1, <1>2, <1>3, <1>4, <2>1, <2>2 DEF Service!Answer, Service!Emit
<1> QED
  BY <1>5, <1>6 DEF RankServes

\* What a client sends.
LEMMA SendRefines ==
    ASSUME MaxAdds = 1, CourseInv, SendShutdown \/ \E r \in Ids : SendAdd(r) \/ SendAbort(r)
    PROVE  Service!ServiceNext
<1>1. UNCHANGED <<rankq, rankOf, rlive, outs, pc>>
  BY DEF SendShutdown, SendAdd, SendAbort, coordVars, tableVars, rankVars
<1>2. [x \in Ids |-> LiveSub(x)]' = [x \in Ids |-> LiveSub(x)] /\ Status' = Status
  BY <1>1 DEF LiveSub, Home, Status
<1>3. CASE SendShutdown
  <2>1. PICK c \in Commands : c = ShutdownCommand /\ c.type = "SHUTDOWN"
    BY CommandKinds
  <2>2. cmdq' = Append(cmdq, c) /\ closed' = TRUE /\ adds' = adds
    BY <1>3, <2>1 DEF SendShutdown
  <2>3. \A x \in Ids : c \notin OrdersOf(x)
    BY <2>1, OrdersFacts
  <2>4. \A x \in Ids : CmdsOf(x)' = CmdsOf(x)
    BY <1>1, <2>2, <2>3, CmdsAppend
  <2> QED
    BY <1>1, <1>2, <2>2, <2>4 DEF Service!ServiceNext, Service!SendShutdown
<1>4. ASSUME NEW r \in Ids, NEW c \in Commands, c.type # "SHUTDOWN", c.id = r,
             cmdq' = Append(cmdq, c)
      PROVE  [x \in Ids |-> CmdsOf(x)]' = [[x \in Ids |-> CmdsOf(x)] EXCEPT ![r] = Append(@, c)]
  <2>1. \A x \in Ids : c \in OrdersOf(x) <=> x = r
    BY <1>4, OrdersFacts
  <2>2. \A x \in Ids : CmdsOf(x)' = IF c \in OrdersOf(x) THEN Append(CmdsOf(x), c) ELSE CmdsOf(x)
    BY <1>1, <1>4, CmdsAppend
  <2> QED
    BY <2>1, <2>2
<1>5. ASSUME NEW r \in Ids, SendAbort(r) PROVE Service!SendAbort(r)
  <2>1. PICK c \in Commands : c = Command("ABORT", r, 0) /\ c.type = "ABORT" /\ c.id = r
    <3>1. Command("ABORT", r, 0) \in Commands /\ Command("ABORT", r, 0).type = "ABORT"
      BY CommandKinds
    <3>2. Command("ABORT", r, 0).id = r
      BY DEF Command
    <3> QED
      BY <3>1, <3>2
  <2>2. cmdq' = Append(cmdq, c) /\ adds' = adds /\ closed' = closed
    BY <1>5, <2>1 DEF SendAbort
  <2>3. [x \in Ids |-> CmdsOf(x)]' = [[x \in Ids |-> CmdsOf(x)] EXCEPT ![r] = Append(@, c)]
    BY <1>4, <2>1, <2>2
  <2>4. c = Service!Command("ABORT", r, 0)
    BY <2>1 DEF Command, Service!Command
  <2> QED
    BY <1>1, <1>2, <2>2, <2>3, <2>4 DEF Service!SendAbort
<1>6. ASSUME NEW r \in Ids, SendAdd(r)
      PROVE  \E n \in Service!Submissions : Service!SendAdd(r, n)
  <2>0. adds \in [Ids -> 0 .. MaxAdds] /\ adds[r] < MaxAdds
    BY <1>6 DEF SendAdd, CourseInv, Types
  <2>n. PICK n \in Submissions : n = adds[r] + 1
    BY <2>0, Counts
  <2>1. PICK c \in Commands : c = Command("ADD", r, n) /\ c.type = "ADD" /\ c.id = r
    <3>1. Add(r, n) \in Commands /\ Add(r, n) = Command("ADD", r, n)
      BY CommandKinds DEF Add
    <3> QED
      BY <3>1 DEF Command
  <2>2. cmdq' = Append(cmdq, c) /\ adds' = [adds EXCEPT ![r] = n] /\ closed' = closed
    BY <1>6, <2>1, <2>n DEF SendAdd
  <2>3. [x \in Ids |-> CmdsOf(x)]' = [[x \in Ids |-> CmdsOf(x)] EXCEPT ![r] = Append(@, c)]
    BY <1>4, <2>1, <2>2
  <2>4. c = Service!Command("ADD", r, n)
    BY <2>1 DEF Command, Service!Command
  <2>5. adds[r] \in Nat /\ 1 .. n = (1 .. adds[r]) \cup {n} /\ n \notin 1 .. adds[r]
    BY <2>0, <2>n
  <2>6. [x \in Ids |-> 1 .. adds[x]]' = [[x \in Ids |-> 1 .. adds[x]] EXCEPT ![r] = @ \cup {n}]
    BY <2>0, <2>2, <2>5
  <2>7. Service!SendAdd(r, n)
    BY <1>1, <1>2, <2>2, <2>3, <2>4, <2>5, <2>6 DEF Service!SendAdd
  <2> QED
    BY <2>7 DEF Service!Submissions, Submissions
<1> QED
  BY <1>3, <1>5, <1>6 DEF Service!ServiceNext

\* The coordinator hands a submission to a rank: the service sees nothing.
LEMMA HandleAddRefines ==
    ASSUME MaxAdds = 1, CourseInv, HomeInv, HandleAdd
    PROVE  View' = View
<1>1. PICK s, m, k : Handed(s, m, k)
  BY HandleAddHands DEF CourseInv
<1>2. s \in Ids /\ m = 1 /\ k \in Ranks /\ m \in Submissions
  BY <1>1, OneSubmission DEF Handed
<1>3. Home(s) = 0
  BY <1>1, <1>2, NowhereYet DEF Home
<1>4. Home(s)' = k /\ \A t \in Ids : t # s => Home(t)' = Home(t)
  <2>1. rankOf \in [Ids -> [Submissions -> 0 .. NumRanks]] /\ rankOf' = [rankOf EXCEPT ![s][1] = k]
    BY <1>1, <1>2 DEF CourseInv, Types, Handed
  <2> QED
    BY <1>2, <2>1, RankOfSet DEF Home
<1>5. PICK c \in OrdersOf(s) : c = Add(s, m)
  BY <1>2 DEF OrdersOf, Add
<1>6. /\ cmdq # <<>> /\ Head(cmdq) = c /\ cmdq' = Tail(cmdq)
      /\ rankq' = [rankq EXCEPT ![k] = Append(@, c)]
      /\ UNCHANGED <<rankVars, clientVars>>
  BY <1>1, <1>5 DEF Handed
<1>7. \A x \in Ids : CmdsOf(x)' = CmdsOf(x)
  BY <1>2, <1>3, <1>4, <1>6, CommandMoves
<1>8. rlive' = rlive /\ rlive[k][s] = 0
  BY <1>2, <1>3, <1>6, OnlyItsRank, Counts DEF rankVars
<1>9. \A x \in Ids : LiveSub(x)' = LiveSub(x)
  <2>1. LiveSub(s)' = 0 /\ LiveSub(s) = 0
    BY <1>3, <1>4, <1>8 DEF LiveSub
  <2>2. \A x \in Ids \ {s} : LiveSub(x)' = LiveSub(x)
    BY <1>4, <1>8 DEF LiveSub
  <2> QED
    BY <2>1, <2>2
<1>10. pc' = pc
  BY DEF HandleAdd
<1> QED
  BY <1>6, <1>7, <1>9, <1>10 DEF View, Status, rankVars, clientVars

\* An ABORT is handed on, which the service does not see, or finds no request, which
\* the service sees as the end of the ABORT: behind it are only other ABORTs.
LEMMA HandleAbortRefines ==
    ASSUME MaxAdds = 1, CourseInv, PlaceInv, HomeInv, ClosingInv, HandleAbort
    PROVE  View' = View \/ \E r \in Ids : Service!Abort(r)
<1>1. /\ cmdq # <<>> /\ Head(cmdq).type = "ABORT" /\ cmdq' = Tail(cmdq) /\ pc = "parent"
      /\ UNCHANGED <<rankOf, pc, rlive, outs, adds, closed>>
  BY DEF HandleAbort, NextCommand, coordVars, tableVars, rankVars, clientVars
<1>2. PICK d \in Commands : d = Head(cmdq)
  BY <1>1, TailPositions DEF CourseInv, Types
<1>3. PICK r \in Ids : r = d.id /\ d = Command("ABORT", r, 0)
  BY <1>1, <1>2, AbortKind
<1>4. PICK c \in OrdersOf(r) : c = d /\ c = Head(cmdq) /\ c \in Commands
  BY <1>2, <1>3 DEF OrdersOf
<1>5. PICK k : k = request_ranks[r]
  OBVIOUS
<1>6. rankq' = IF k = 0 THEN rankq ELSE [rankq EXCEPT ![k] = Append(@, c)]
  BY <1>2, <1>3, <1>4, <1>5 DEF HandleAbort, AbortRank
<1>7. /\ \A x \in Ids : LiveSub(x)' = LiveSub(x) /\ Home(x)' = Home(x)
      /\ Status' = Status /\ [x \in Ids |-> 1 .. adds[x]]' = [x \in Ids |-> 1 .. adds[x]]
  BY <1>1 DEF LiveSub, Home, Status
<1>8. CASE k # 0
  <2>1. Home(r) = k /\ Home(r)' = k /\ k \in Ranks
    BY <1>5, <1>7, <1>8, SeenTypes DEF HomeInv
  <2>2. rankq' = [rankq EXCEPT ![k] = Append(@, c)] /\ \A x \in Ids \ {r} : Home(x)' = Home(x)
    BY <1>6, <1>7, <1>8
  <2>3. \A x \in Ids : CmdsOf(x)' = CmdsOf(x)
    BY <1>1, <1>4, <2>1, <2>2, CommandMoves
  <2> QED
    BY <1>1, <1>7, <2>3 DEF View
<1>9. CASE k = 0
  <2>1. rankq' = rankq
    BY <1>6, <1>9
  <2>2. \A x \in Ids : AtRank(x)' = AtRank(x)
    BY <1>7, <2>1 DEF AtRank
  <2>3. \A x \in Ids : c \in OrdersOf(x) <=> x = r
    BY <1>4, OrdersFacts
  <2>4. \A x \in Ids \ {r} : CmdsOf(x)' = CmdsOf(x)
    BY <1>1, <1>4, <2>2, <2>3, CoordinatorReads DEF CmdsOf
  <2>5. /\ AtCoordinator(r) # <<>> /\ Head(AtCoordinator(r)) = c
        /\ AtCoordinator(r)' = Tail(AtCoordinator(r))
    BY <1>1, <1>4, CoordinatorReads
  <2>6. LiveSub(r) = 0 /\ \A i \in DOMAIN AtRank(r) : AtRank(r)[i] = c
    <3>1. CASE Home(r) = 0
      BY <3>1 DEF LiveSub, AtRank
    <3>2. CASE Home(r) # 0
      <4>1. PICK j \in Ranks : j = Home(r)
        BY <3>2, SeenTypes
      <4>2. 1 \in Submissions /\ Answered(outs, r, 1)
        BY <1>5, <1>9, <3>2, OneSubmission DEF PlaceInv, Home
      <4>3. ~Open(j, r, 1)
        BY <4>2 DEF CourseInv, Course
      <4>4. rlive[j][r] \in 0 .. MaxAdds
        BY DEF CourseInv, Types
      <4>5. LiveSub(r) = 0
        BY <3>2, <4>1, <4>3, <4>4 DEF Open, LiveSub
      <4>6. PICK q \in Seq(Commands) : q = rankq[j]
        BY SeenTypes
      <4>7. PICK S : S = OrdersOf(r)
        OBVIOUS
      <4>8. AtRank(r) = Only(q, S)
        BY <3>2, <4>1, <4>6, <4>7 DEF AtRank
      <4>9. ASSUME NEW i \in DOMAIN Only(q, S) PROVE Only(q, S)[i] = c
        <5>1. Only(q, S)[i] \in S /\ \E v \in DOMAIN q : q[v] = Only(q, S)[i]
          BY OnlyFrom
        <5>2. Only(q, S)[i] # Add(r, 1)
          BY <4>3, <4>6, <5>1 DEF Open, Has
        <5>3. Only(q, S)[i] = Command("ABORT", r, 0) \/ Only(q, S)[i] = Add(r, 1)
          BY <4>7, <5>1, OrdersFacts, OneSubmission
        <5> QED
          BY <1>3, <1>4, <5>2, <5>3
      <4> QED
        BY <4>5, <4>8, <4>9
    <3> QED
      BY <3>1, <3>2
  <2>7. PICK s \in Seq(Commands) : s = AtRank(r)
    BY SeenTypes
  <2>8. PICK t \in Seq(Commands) : t = AtCoordinator(r)
    BY SeenTypes
  <2>9. s \o t # <<>> /\ Head(s \o t) = c /\ Tail(s \o t) = s \o Tail(t)
    <3>1. t # <<>> /\ Head(t) = c /\ c \in Commands /\ \A i \in DOMAIN s : s[i] = c
      BY <1>4, <2>5, <2>6, <2>7, <2>8
    <3>2. t # <<>> /\ Head(t) = c /\ (\A i \in DOMAIN s : s[i] = c)
            => s \o t # <<>> /\ Head(s \o t) = c /\ Tail(s \o t) = s \o Tail(t)
      BY <3>1, TwoParts
    <3> QED
      BY <3>1, <3>2
  <2>10. CmdsOf(r) # <<>> /\ Head(CmdsOf(r)) = c /\ CmdsOf(r)' = Tail(CmdsOf(r))
    BY <2>2, <2>5, <2>7, <2>8, <2>9 DEF CmdsOf
  <2>11. [x \in Ids |-> CmdsOf(x)]' = [[x \in Ids |-> CmdsOf(x)] EXCEPT ![r] = Tail(@)]
    BY <2>4, <2>10
  <2>12. Status = "up" /\ c.type = "ABORT"
    BY <1>1, <1>4 DEF Status
  <2>13. Service!NextIs("ABORT", r)
    BY <2>10, <2>11, <2>12 DEF Service!NextIs
  <2>14. Service!Abort(r)
    BY <1>1, <1>7, <2>6, <2>13 DEF Service!Abort
  <2> QED
    BY <2>14
<1> QED
  BY <1>8, <1>9

\* The orders to shut down are about no request.
LEMMA ShutdownRefines ==
    ASSUME MaxAdds = 1, CourseInv,
           HandleShutdown \/ StopRank \/ \E k \in Ranks : RankEnds(k)
    PROVE  View' = View
<1> USE DEF coordVars, tableVars, rankVars, clientVars
<1>1. UNCHANGED <<rankOf, rlive, outs, adds, closed>> /\ Status' = Status
  BY DEF HandleShutdown, StopRank, RankEnds, Idle, Status
<1>2. \A x \in Ids : Home(x)' = Home(x) /\ LiveSub(x)' = LiveSub(x) /\ (Home(x) # 0 => Home(x) \in Ranks)
  BY <1>1, SeenTypes DEF Home, LiveSub
<1>3. \A c \in Commands : c.type = "SHUTDOWN" => \A x \in Ids : c \notin OrdersOf(x)
  BY OrdersFacts
<1>4. CASE HandleShutdown
  <2>1. cmdq # <<>> /\ Head(cmdq).type = "SHUTDOWN" /\ cmdq' = Tail(cmdq) /\ rankq' = rankq
    BY <1>4 DEF HandleShutdown, NextCommand
  <2>2. Head(cmdq) \in Commands
    BY <2>1, TailPositions DEF CourseInv, Types
  <2>3. \A x \in Ids : AtCoordinator(x)' = AtCoordinator(x) /\ AtRank(x)' = AtRank(x)
    BY <1>2, <1>3, <2>1, <2>2, CoordinatorReads DEF AtRank
  <2> QED
    BY <1>1, <1>2, <2>3 DEF View, CmdsOf
<1>5. CASE StopRank
  <2>1. PICK c \in Commands : c = ShutdownCommand /\ c.type = "SHUTDOWN"
    BY CommandKinds
  <2>2. /\ \A j \in Ranks : /\ (rankq'[j] = rankq[j] \/ rankq'[j] = Append(rankq[j], c))
                             /\ rankq[j] \in Seq(Commands)
        /\ cmdq' = cmdq
    BY <1>5, <2>1, StopRankPuts DEF StopRank, CourseInv, Types
  <2>3. ASSUME NEW x \in Ids, NEW j \in Ranks
        PROVE  Only(rankq'[j], OrdersOf(x)) = Only(rankq[j], OrdersOf(x))
    <3>1. c \notin OrdersOf(x)
      BY <1>3, <2>1
    <3>2. PICK q \in Seq(Commands) : q = rankq[j] /\ (rankq'[j] = q \/ rankq'[j] = Append(q, c))
      BY <2>2
    <3>3. Only(Append(q, c), OrdersOf(x)) = Only(q, OrdersOf(x))
      BY <3>1, SeenAppend
    <3> QED
      BY <3>2, <3>3
  <2>4. \A x \in Ids : AtCoordinator(x)' = AtCoordinator(x) /\ AtRank(x)' = AtRank(x)
    BY <1>2, <2>2, <2>3 DEF AtRank, AtCoordinator
  <2> QED
    BY <1>1, <1>2, <2>4 DEF View, CmdsOf
<1>6. ASSUME NEW k \in Ranks, RankEnds(k) PROVE View' = View
  <2>1. cmdq' = cmdq
    BY <1>6 DEF RankEnds, Idle
  <2>2. CASE UNCHANGED rankq
    <3>1. \A x \in Ids : CmdsOf(x)' = CmdsOf(x)
      BY <1>2, <2>1, <2>2 DEF CmdsOf, AtRank, AtCoordinator
    <3> QED
      BY <1>1, <1>2, <3>1 DEF View
  <2>3. CASE RankCommand(k, "SHUTDOWN")
    <3>1. Head(rankq[k]) \in Commands /\ Head(rankq[k]).type = "SHUTDOWN"
      BY <2>3, RankPops DEF CourseInv
    <3>2. \A x \in Ids : CmdsOf(x)' = CmdsOf(x)
      BY <1>1, <1>3, <2>1, <2>3, <3>1, OthersRead
    <3> QED
      BY <1>1, <1>2, <3>2 DEF View
  <2> QED
    BY <1>6, <2>2, <2>3 DEF RankEnds
<1> QED
  BY <1>4, <1>5, <1>6

\* The steps that the service does not see, but for the end.
LEMMA QuietRefines ==
    ASSUME CourseInv, ClosingInv,
           \/ ParentDrained \/ ForwardOutput \/ RankDrained \/ RanksJoined \/ UNCHANGED vars
           \/ TerminateCoordinator \/ \E k \in Ranks : RankFails(k) \/ TerminateRank(k)
    PROVE  View' = View \/ Service!Stop
<1> USE DEF vars, coordVars, tableVars, rankVars, clientVars, Idle
<1>1. UNCHANGED <<cmdq, rankq, rankOf, rlive, outs, adds, closed>>
  BY DEF ParentDrained, ForwardOutput, RankDrained, RanksJoined, TerminateCoordinator, RankFails,
         TerminateRank
<1>2. /\ [x \in Ids |-> CmdsOf(x)]' = [x \in Ids |-> CmdsOf(x)]
      /\ [x \in Ids |-> 1 .. adds[x]]' = [x \in Ids |-> 1 .. adds[x]]
      /\ [x \in Ids |-> LiveSub(x)]' = [x \in Ids |-> LiveSub(x)]
  BY <1>1 DEF CmdsOf, AtRank, AtCoordinator, LiveSub, Home
<1>3. CASE RanksJoined
  <2>1. closed /\ Status = "up" /\ Status' = "down"
    BY <1>3 DEF RanksJoined, ClosingInv, Status
  <2> QED
    BY <1>1, <1>2, <2>1 DEF Service!Stop
<1>4. CASE ~RanksJoined
  <2>1. Status' = Status
    BY <1>4 DEF ParentDrained, ForwardOutput, RankDrained, TerminateCoordinator, RankFails,
                TerminateRank, Status
  <2> QED
    BY <1>1, <1>2, <2>1 DEF View
<1> QED
  BY <1>3, <1>4

\* The coordinator and its ranks implement RequestService (ImplementsRequestService)
\* for clients that use no id twice: spread over any number of ranks, with two queues
\* one behind the other and ranks that die or hang, a client still sees one engine
\* that handles the commands about its id in their order, answers a request once and
\* stops only when it is closed.
THEOREM CoordinatorImplementsService ==
    ASSUME MaxAdds = 1
    PROVE  Spec => ImplementsRequestService
<1> DEFINE Inv == CourseInv /\ PlaceInv /\ HomeInv /\ ClosingInv
<1>1. Init => Inv
  <2> SUFFICES ASSUME Init PROVE HomeInv /\ ClosingInv
    BY CourseInvInit, PlaceInvInit
  <2>1. /\ request_ranks = [r \in Ids |-> 0] /\ rankq = [k \in Ranks |-> <<>>] /\ cmdq = <<>>
        /\ shutdown = FALSE /\ pc = "parent"
    BY DEF Init
  <2>2. \A c : ~Has(<<>>, c)
    BY DEF Has
  <2> QED
    BY <2>1, <2>2 DEF HomeInv, ClosingInv
<1>2. Inv /\ [Next]_vars => Inv'
  <2>1. CourseInv => Types
    BY DEF CourseInv
  <2> QED
    BY <2>1, CourseInvNext, PlaceInvNext, HomeInvNext, ClosingInvNext
<1>3. Init => Service!ServiceInit
  <2> SUFFICES ASSUME Init PROVE Service!ServiceInit
    OBVIOUS
  <2>1. /\ cmdq = <<>> /\ pc = "parent" /\ adds = [r \in Ids |-> 0] /\ closed = FALSE
        /\ outs = [r \in Ids |-> [n \in Submissions |-> <<>>]]
        /\ rankOf = [r \in Ids |-> [n \in Submissions |-> 0]]
    BY DEF Init, PerSubmission
  <2>2. \A r \in Ids : Home(r) = 0
    BY <2>1, OneSubmission DEF Home
  <2>3. ASSUME NEW r \in Ids PROVE CmdsOf(r) = <<>> /\ LiveSub(r) = 0
    <3>1. AtCoordinator(r) = <<>>
      BY <2>1, OnlyEmpty DEF AtCoordinator
    <3> QED
      BY <2>2, <3>1 DEF CmdsOf, AtRank, LiveSub
  <2>4. ASSUME NEW r \in Ids PROVE 1 .. adds[r] = {}
    <3>1. adds[r] = 0
      BY <2>1
    <3> QED
      BY <3>1
  <2>5. Status = "up" /\ Service!Submissions = Submissions
    BY <2>1 DEF Status, Service!Submissions, Submissions
  <2> QED
    BY <2>1, <2>3, <2>4, <2>5 DEF Service!ServiceInit
<1>4. ASSUME Inv, [Next]_vars PROVE Service!ServiceNext \/ View' = View
  <2>1. CASE SendShutdown \/ \E r \in Ids : SendAdd(r) \/ SendAbort(r)
    BY <1>4, <2>1, SendRefines
  <2>2. CASE HandleAdd \/ HandleAbort
    BY <1>4, <2>2, HandleAddRefines, HandleAbortRefines DEF Service!ServiceNext
  <2>3. CASE HandleShutdown \/ StopRank \/ \E k \in Ranks : RankEnds(k)
    BY <1>4, <2>3, ShutdownRefines
  <2>4. CASE \/ ParentDrained \/ ForwardOutput \/ RankDrained \/ RanksJoined \/ UNCHANGED vars
             \/ TerminateCoordinator \/ \E k \in Ranks : RankFails(k) \/ TerminateRank(k)
    BY <1>4, <2>4, QuietRefines DEF Service!ServiceNext
  <2>5. ASSUME NEW k \in Ranks, RankAccepts(k) \/ RankRejects(k) \/ RankAborts(k)
        PROVE  Service!ServiceNext
    BY <1>4, <2>5, RankAddRefines, RankAbortRefines DEF Service!ServiceNext
  <2>6. ASSUME NEW k \in Ranks, NEW r \in Ids, RankServes(k, r) PROVE Service!ServiceNext
    BY <1>4, <2>6, RankServesRefines DEF Service!ServiceNext
  <2> QED
    BY <1>4, <2>1, <2>2, <2>3, <2>4, <2>5, <2>6 DEF Next, CoordinatorStep, RankHandles
<1>5. Inv /\ [Next]_vars => [Service!ServiceNext]_(Service!serviceVars)
  BY <1>4 DEF View, Service!serviceVars
<1> HIDE DEF Inv
<1> QED
  BY <1>1, <1>2, <1>3, <1>5, PTL DEF Spec, ImplementsRequestService, Service!ServiceSpec
=============================================================================
