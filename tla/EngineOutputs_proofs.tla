-------------------------- MODULE EngineOutputs_proofs --------------------------
(***************************************************************************)
(* What the clients of an engine rely on, proved for any number of them,   *)
(* of requests and of submissions of one id: a submission is in exactly    *)
(* one place until it is answered, it is answered once, and a core that    *)
(* dies of an exception answers all it knew.                               *)
(*                                                                         *)
(* The inductive invariant OutputInv adds to CoreInv how the command queue,*)
(* the scheduler and the log of outputs fit together: an ADD is on the     *)
(* queue once, nothing was put for a submission that is still queued, and  *)
(* a request the scheduler knows has no final output yet.                  *)
(*                                                                         *)
(* On it rest the limits, what a batch may hold and how many tokens a      *)
(* submission gets, and that the core implements RequestService.           *)
(***************************************************************************)
EXTENDS EngineCore_proofs

\* The scheduler knows submission n of r.
Live(r, n) == Known(r) /\ req[r].sub = n

\* The core takes commands or is about to answer for all it knows.
Serving == InLoop \/ pc = "except"

DistinctAdds ==
    \A i, j \in DOMAIN cmdq : cmdq[i].type = "ADD" /\ cmdq[i] = cmdq[j] => i = j

\* Nothing happened yet to a submission on the queue, and nothing at all to one
\* that was not sent.
QueueInv ==
    /\ DistinctAdds
    /\ \A r \in Ids : \A n \in Submissions :
          Queued(r, n) => n <= adds[r] /\ log[r][n] = <<>> /\ ~Live(r, n)
    /\ \A r \in Ids : \A n \in Submissions : n > adds[r] => log[r][n] = <<>>
    /\ \A r \in Ids : Known(r) => req[r].sub <= adds[r]

\* Each submission is somewhere, and one that is scheduled is not answered.
PlaceInv ==
    Serving =>
        \A r \in Ids : \A n \in 1 .. adds[r] :
            /\ Queued(r, n) \/ Live(r, n) \/ Answered(r, n)
            /\ Live(r, n) => ~Answered(r, n)

OutputInv ==
    /\ QueueInv
    /\ PlaceInv
    /\ OneFinalOutput
    /\ ExceptionAnswersAll

-----------------------------------------------------------------------------
(* The log and the queue. *)

\* An output put after outputs that are not final is the last one.
LEMMA AppendOutput ==
    ASSUME NEW q \in Seq(Outputs), NEW o \in Outputs,
           \A i \in DOMAIN q : Final(q[i]) => i = Len(q),
           ~(q # <<>> /\ Final(Last(q)))
    PROVE  /\ Append(q, o) # <<>> /\ Last(Append(q, o)) = o
           /\ \A i \in DOMAIN Append(q, o) : Final(Append(q, o)[i]) => i = Len(Append(q, o))
<1> DEFINE a == Append(q, o)
           n == Len(q)
<1>1. n \in Nat /\ DOMAIN q = 1 .. n /\ (n # 0 => q # <<>>)
  OBVIOUS
<1>2. /\ DOMAIN a = 1 .. (n + 1) /\ Len(a) = n + 1
      /\ \A i \in 1 .. n : a[i] = q[i]
      /\ a[n + 1] = o /\ a # <<>>
  OBVIOUS
<1> HIDE DEF a, n
<1>3. \A i \in 1 .. n : ~Final(q[i])
  <2> SUFFICES ASSUME NEW i \in 1 .. n, Final(q[i]) PROVE FALSE
    OBVIOUS
  <2>1. i \in DOMAIN q /\ n # 0
    BY <1>1
  <2>2. i = Len(q)
    BY <2>1
  <2>3. Final(Last(q)) /\ q # <<>>
    BY <1>1, <2>1, <2>2 DEF Last
  <2> QED
    BY <2>3
<1>4. \A i \in 1 .. (n + 1) : i \in 1 .. n \/ i = n + 1
  BY <1>1
<1>5. \A i \in DOMAIN a : Final(a[i]) => i = Len(a)
  BY <1>2, <1>3, <1>4
<1>6. Last(a) = o
  BY <1>2 DEF Last
<1> QED
  BY <1>2, <1>5, <1>6 DEF a

\* A command other than an ADD comes or goes, or nothing does.
SameAdds ==
    /\ \A x \in Ids : \A m \in Submissions : Queued(x, m)' <=> Queued(x, m)
    /\ DistinctAdds'

\* Taking a command off the queue.
LEMMA QueueTail ==
    ASSUME cmdq \in Seq(Commands), cmdq # <<>>, DistinctAdds, cmdq' = Tail(cmdq)
    PROVE  /\ DistinctAdds'
           /\ \A x \in Ids : \A m \in Submissions :
                 Queued(x, m)' <=> Queued(x, m) /\ Head(cmdq) # Command("ADD", x, m)
<1> DEFINE n == Len(cmdq)
           t == cmdq'
<1>1. n \in Nat \ {0} /\ DOMAIN cmdq = 1 .. n /\ Head(cmdq) = cmdq[1]
  OBVIOUS
<1>2. DOMAIN t = 1 .. (n - 1) /\ \A i \in 1 .. (n - 1) : t[i] = cmdq[i + 1]
  OBVIOUS
<1> HIDE DEF n, t
<1>3. ASSUME NEW i \in 1 .. (n - 1) PROVE i + 1 \in 1 .. n /\ i + 1 # 1
  BY <1>1
<1>4. ASSUME NEW i \in 1 .. n, i # 1 PROVE i - 1 \in 1 .. (n - 1) /\ t[i - 1] = cmdq[i]
  <2>1. i - 1 \in 1 .. (n - 1) /\ (i - 1) + 1 = i
    BY <1>1, <1>4
  <2> QED
    BY <1>2, <2>1
<1>5. DistinctAdds'
  <2> SUFFICES ASSUME NEW i \in 1 .. (n - 1), NEW j \in 1 .. (n - 1),
                      t[i].type = "ADD", t[i] = t[j]
               PROVE  i = j
    BY <1>2 DEF DistinctAdds, t
  <2>1. i + 1 \in DOMAIN cmdq /\ j + 1 \in DOMAIN cmdq
    BY <1>1, <1>3
  <2>2. cmdq[i + 1].type = "ADD" /\ cmdq[i + 1] = cmdq[j + 1]
    BY <1>2
  <2>3. i + 1 = j + 1
    BY <2>1, <2>2 DEF DistinctAdds
  <2> QED
    BY <2>3, <1>1
<1>6. ASSUME NEW x \in Ids, NEW m \in Submissions
      PROVE  Queued(x, m)' <=> Queued(x, m) /\ cmdq[1] # Command("ADD", x, m)
  <2>1. ASSUME Queued(x, m)' PROVE Queued(x, m) /\ cmdq[1] # Command("ADD", x, m)
    <3>1. PICK i \in 1 .. (n - 1) : t[i].type = "ADD" /\ t[i] = Command("ADD", x, m)
      BY <2>1, <1>2 DEF Queued, t, Command
    <3>2. cmdq[i + 1].type = "ADD" /\ cmdq[i + 1] = Command("ADD", x, m)
      BY <3>1, <1>2
    <3>3. i + 1 \in DOMAIN cmdq /\ i + 1 # 1 /\ 1 \in DOMAIN cmdq
      BY <1>1, <1>3
    <3> QED
      BY <3>2, <3>3 DEF Queued, DistinctAdds
  <2>2. ASSUME Queued(x, m), cmdq[1] # Command("ADD", x, m) PROVE Queued(x, m)'
    <3>1. PICK i \in 1 .. n : cmdq[i].type = "ADD" /\ cmdq[i] = Command("ADD", x, m)
      BY <2>2, <1>1 DEF Queued
    <3>2. i - 1 \in DOMAIN t /\ t[i - 1] = cmdq[i]
      BY <3>1, <2>2, <1>2, <1>4
    <3> QED
      BY <3>1, <3>2 DEF Queued, t, Command
  <2> QED
    BY <2>1, <2>2
<1> QED
  BY <1>1, <1>5, <1>6

\* Putting a command on the queue.
LEMMA QueueAppend ==
    ASSUME cmdq \in Seq(Commands), DistinctAdds, NEW c \in Commands, cmdq' = Append(cmdq, c)
    PROVE  /\ (c.type # "ADD" \/ \A i \in DOMAIN cmdq : cmdq[i] # c) => DistinctAdds'
           /\ \A x \in Ids : \A m \in Submissions :
                 Queued(x, m)' <=> Queued(x, m) \/ c = Command("ADD", x, m)
<1> DEFINE n == Len(cmdq)
           t == cmdq'
<1>1. n \in Nat /\ DOMAIN cmdq = 1 .. n
  OBVIOUS
<1>2. DOMAIN t = 1 .. (n + 1) /\ t[n + 1] = c /\ \A i \in 1 .. n : t[i] = cmdq[i]
  OBVIOUS
<1> HIDE DEF n, t
<1>3. \A i \in 1 .. (n + 1) : i \in 1 .. n \/ i = n + 1
  BY <1>1
<1>4. (\A i \in 1 .. n : i \in 1 .. (n + 1)) /\ n + 1 \in 1 .. (n + 1)
  BY <1>1
<1>5. ASSUME c.type # "ADD" \/ \A i \in DOMAIN cmdq : cmdq[i] # c PROVE DistinctAdds'
  <2> SUFFICES ASSUME NEW i \in 1 .. (n + 1), NEW j \in 1 .. (n + 1),
                      t[i].type = "ADD", t[i] = t[j]
               PROVE  i = j
    BY ZenonT(30), <1>2 DEF DistinctAdds, t
  <2> QED
    BY <1>1, <1>2, <1>3, <1>5 DEF DistinctAdds
<1>6. ASSUME NEW x \in Ids, NEW m \in Submissions
      PROVE  Queued(x, m)' <=> Queued(x, m) \/ c = Command("ADD", x, m)
  <2>1. Command("ADD", x, m).type = "ADD"
    BY DEF Command
  <2>2. Queued(x, m)' <=> \E i \in 1 .. (n + 1) : t[i] = Command("ADD", x, m)
    BY <1>2, <2>1 DEF Queued, t, Command
  <2>3. Queued(x, m) <=> \E i \in 1 .. n : cmdq[i] = Command("ADD", x, m)
    BY <1>1, <2>1 DEF Queued
  <2> QED
    BY <1>2, <1>3, <1>4, <2>2, <2>3
<1> QED
  BY <1>5, <1>6

-----------------------------------------------------------------------------
(* The kinds of steps. *)

\* Request x stays with the scheduler, or stays unknown to it.
SameRequest(x) == (Known(x)' <=> Known(x)) /\ (Known(x) => req'[x].sub = req[x].sub)

\* What the types say of a submission.
LEMMA SubmissionFacts ==
    ASSUME CoreInv
    PROVE  /\ \A r \in Ids : Known(r) => req[r].sub \in Submissions
           /\ \A r \in Ids : 1 .. adds[r] \subseteq Submissions /\ adds[r] \in Nat
           /\ \A r \in Ids : \A n \in Submissions : n > adds[r] \/ n \in 1 .. adds[r]
           /\ \A r \in Ids : \A n \in Submissions : log[r][n] \in Seq(Outputs)
<1>1. \A r \in Ids : adds[r] \in 0 .. MaxAdds
  BY DEF CoreInv, TypeOK
<1>2. \A r \in Ids : Known(r) => req[r].sub \in Submissions
  BY DEF CoreInv, RequestsInv, RequestOK, Known, IsRunning, IsWaiting
<1>3. \A r \in Ids : \A n \in Submissions : log[r][n] \in Seq(Outputs)
  BY DEF CoreInv, TypeOK
<1> QED
  BY <1>1, <1>2, <1>3, ClientBounds DEF Submissions

\* A step that puts nothing and moves no submission.
LEMMA QuietStep ==
    ASSUME CoreInv, OutputInv, SameAdds, \A x \in Ids : SameRequest(x),
           log' = log, adds' = adds, Serving' => Serving,
           pc' \in {"finally", "join", "done"} /\ ~shutdown'
              => pc \in {"finally", "join", "done"} /\ ~shutdown
    PROVE  OutputInv'
<1>1. /\ \A x \in Ids : \A m : Live(x, m)' <=> Live(x, m)
      /\ \A x \in Ids : \A m : Answered(x, m)' <=> Answered(x, m)
  BY DEF SameRequest, Live, Answered
<1>2. OneFinalOutput'
  BY DEF OutputInv, OneFinalOutput
<1>3. QueueInv'
  BY <1>1 DEF OutputInv, QueueInv, SameAdds, SameRequest
<1>4. PlaceInv'
  BY <1>1, SubmissionFacts DEF OutputInv, PlaceInv, SameAdds
<1>5. ExceptionAnswersAll'
  BY <1>1 DEF OutputInv, ExceptionAnswersAll, SameRequest
<1> QED
  BY <1>2, <1>3, <1>4, <1>5 DEF OutputInv

\* An output of a known request: it leaves with a final one and stays otherwise.
LEMMA PutStep ==
    ASSUME CoreInv, OutputInv, SameAdds, adds' = adds, InLoop, InLoop',
           NEW r \in Ids, NEW o \in Outputs, Known(r), Put(r, req[r].sub, o),
           \A x \in Ids \ {r} : SameRequest(x),
           Final(o) => ~Known(r)',
           ~Final(o) => SameRequest(r)
    PROVE  OutputInv'
<1>1. PICK s \in Submissions : s = req[r].sub
  BY SubmissionFacts
<1>2. Live(r, s) /\ s \in 1 .. adds[r]
  <2>1. s <= adds[r] /\ Live(r, s)
    BY <1>1 DEF Live, OutputInv, QueueInv
  <2>2. s \in Nat /\ adds[r] \in Nat /\ s >= 1
    BY SubmissionFacts, ClientBounds DEF Submissions
  <2> QED
    BY <2>1, <2>2
<1>3. Serving /\ ~Answered(r, s) /\ ~Queued(r, s)
  BY <1>2 DEF OutputInv, PlaceInv, QueueInv, Serving
<1>4. /\ log'[r][s] = Append(log[r][s], o)
      /\ \A x \in Ids : \A m \in Submissions : x # r \/ m # s => log'[x][m] = log[x][m]
  BY SMTT(30), <1>1, PutType DEF CoreInv, TypeOK
<1>5. /\ log'[r][s] # <<>> /\ Last(log'[r][s]) = o
      /\ \A i \in DOMAIN log'[r][s] : Final(log'[r][s][i]) => i = Len(log'[r][s])
  BY SMTT(30), <1>1, <1>3, <1>4, SubmissionFacts, AppendOutput DEF OutputInv, OneFinalOutput, Answered
<1>6. Answered(r, s)' <=> Final(o)
  BY <1>5 DEF Answered
<1>7. \A x \in Ids : \A m \in Submissions : x # r \/ m # s =>
         (Answered(x, m)' <=> Answered(x, m))
  BY <1>4 DEF Answered
<1>8. \A x \in Ids : \A m \in Submissions : x # r \/ m # s =>
         (Live(x, m)' <=> Live(x, m))
  BY <1>1 DEF Live, SameRequest
<1>9. Live(r, s)' <=> ~Final(o)
  BY <1>1 DEF Live, SameRequest
<1>10. OneFinalOutput'
  <2> SUFFICES ASSUME NEW x \in Ids, NEW m \in Submissions, NEW i \in DOMAIN log'[x][m],
                      Final(log'[x][m][i])
               PROVE  i = Len(log'[x][m])
    BY DEF OneFinalOutput
  <2> QED
    BY SMTT(30), <1>4, <1>5 DEF OutputInv, OneFinalOutput
<1>11. QueueInv'
  <2>1. ASSUME NEW x \in Ids, NEW m \in Submissions, Queued(x, m)'
        PROVE  m <= adds'[x] /\ log'[x][m] = <<>> /\ ~Live(x, m)'
    <3>1. Queued(x, m)
      BY <2>1 DEF SameAdds
    <3>2. x # r \/ m # s
      BY <3>1, <1>3
    <3> QED
      BY <3>1, <3>2, <1>4, <1>8 DEF OutputInv, QueueInv
  <2>2. ASSUME NEW x \in Ids, NEW m \in Submissions, m > adds'[x] PROVE log'[x][m] = <<>>
    <3>1. x # r \/ m # s
      BY <2>2, <1>2, SubmissionFacts
    <3> QED
      BY <2>2, <3>1, <1>4 DEF OutputInv, QueueInv
  <2>3. ASSUME NEW x \in Ids, Known(x)' PROVE req'[x].sub <= adds'[x]
    BY <2>3 DEF SameRequest, OutputInv, QueueInv
  <2> QED
    BY <2>1, <2>2, <2>3 DEF QueueInv, SameAdds
<1>12. PlaceInv'
  BY <1>3, <1>6, <1>7, <1>8, <1>9, SubmissionFacts DEF OutputInv, PlaceInv, SameAdds
<1>13. ExceptionAnswersAll'
  BY DEF ExceptionAnswersAll, InLoop
<1> QED
  BY <1>10, <1>11, <1>12, <1>13 DEF OutputInv

-----------------------------------------------------------------------------
(* The steps. *)

\* The queue is as it was.
LEMMA SameQueue ==
    ASSUME OutputInv, cmdq' = cmdq
    PROVE  SameAdds
BY DEF SameAdds, Queued, OutputInv, QueueInv, DistinctAdds, Command

\* A step that leaves the scheduler's lists and requests alone.
LEMMA SameLists ==
    ASSUME UNCHANGED <<waiting, running, req>>
    PROVE  \A x \in Ids : SameRequest(x)
BY DEF SameRequest, Known, IsRunning, IsWaiting

\* A new submission, with a number nobody used.
LEMMA SendAddOutputs ==
    ASSUME CoreInv, OutputInv, NEW r \in Ids, SendAdd(r)
    PROVE  OutputInv'
<1>1. /\ adds[r] < MaxAdds /\ adds' = [adds EXCEPT ![r] = @ + 1]
      /\ cmdq' = Append(cmdq, Command("ADD", r, adds[r] + 1))
      /\ UNCHANGED <<waiting, running, req, log, pc, shutdown>>
  BY DEF SendAdd, schedVars, coreVars
<1>2. PICK n \in Submissions : n = adds[r] + 1
  BY <1>1, ClientBounds, SubmissionFacts DEF Submissions
<1>3. /\ adds'[r] = n /\ adds[r] \in Nat /\ n > adds[r]
      /\ \A x \in Ids \ {r} : adds'[x] = adds[x]
      /\ 1 .. n = (1 .. adds[r]) \cup {n}
  <2>1. adds \in [Ids -> 0 .. MaxAdds] /\ adds[r] \in Nat
    BY SubmissionFacts DEF CoreInv, TypeOK
  <2> QED
    BY <1>1, <1>2, <2>1
<1>4. Command("ADD", r, n) \in Commands
  BY DEF Commands
<1>5. ~Queued(r, n) /\ log[r][n] = <<>> /\ ~Live(r, n)
  <2>1. \A k \in Submissions : k = n => ~(k <= adds[r])
    BY <1>3, SubmissionFacts, ClientBounds DEF Submissions
  <2> QED
    BY <1>3, <2>1, SubmissionFacts DEF OutputInv, QueueInv, Live
<1>6. \A i \in DOMAIN cmdq : cmdq[i] # Command("ADD", r, n)
  BY <1>5 DEF Queued, Command
<1>7. /\ DistinctAdds'
      /\ \A x \in Ids : \A m \in Submissions :
            Queued(x, m)' <=> Queued(x, m) \/ (x = r /\ m = n)
  <2>1. \A x \in Ids : \A m \in Submissions :
           Command("ADD", r, n) = Command("ADD", x, m) <=> x = r /\ m = n
    BY DEF Command
  <2> QED
    BY <1>1, <1>2, <1>4, <1>6, <2>1, QueueAppend DEF CoreInv, OutputInv, QueueInv
<1>8. /\ \A x \in Ids : Known(x)' <=> Known(x)
      /\ \A x \in Ids : \A m : Live(x, m)' <=> Live(x, m)
      /\ \A x \in Ids : \A m : Answered(x, m)' <=> Answered(x, m)
  BY <1>1 DEF Known, IsRunning, IsWaiting, Live, Answered
<1>9. \A x \in Ids : \A m \in Submissions : m <= adds[x] => m <= adds'[x]
  <2>1. \A x \in Ids : adds[x] \in Nat
    BY SubmissionFacts
  <2>2. \A m \in Submissions : m \in Nat
    BY ClientBounds DEF Submissions
  <2> QED
    BY <1>2, <1>3, <2>1, <2>2
<1>10. n <= n
  BY ClientBounds DEF Submissions
<1>11. QueueInv'
  <2>1. ASSUME NEW x \in Ids, NEW m \in Submissions, Queued(x, m)'
        PROVE  m <= adds'[x] /\ log'[x][m] = <<>> /\ ~Live(x, m)'
    BY <2>1, <1>1, <1>3, <1>5, <1>7, <1>8, <1>9, <1>10 DEF OutputInv, QueueInv
  <2>2. ASSUME NEW x \in Ids, NEW m \in Submissions, m > adds'[x] PROVE log'[x][m] = <<>>
    <3>1. m > adds[x]
      BY <2>2, <1>2, <1>3, SubmissionFacts, ClientBounds DEF Submissions
    <3> QED
      BY <3>1, <1>1 DEF OutputInv, QueueInv
  <2>3. ASSUME NEW x \in Ids, Known(x)' PROVE req'[x].sub <= adds'[x]
    BY <2>3, <1>1, <1>8, <1>9, SubmissionFacts DEF OutputInv, QueueInv
  <2> QED
    BY <2>1, <2>2, <2>3, <1>7 DEF QueueInv
<1>12. PlaceInv'
  <2> SUFFICES ASSUME Serving', NEW x \in Ids, NEW m \in 1 .. adds'[x]
               PROVE  /\ Queued(x, m)' \/ Live(x, m)' \/ Answered(x, m)'
                      /\ Live(x, m)' => ~Answered(x, m)'
    BY DEF PlaceInv
  <2>1. Serving
    BY <1>1 DEF Serving, InLoop
  <2>2. m \in 1 .. adds[x] \/ (x = r /\ m = n)
    BY <1>3
  <2>3. CASE m \in 1 .. adds[x]
    <3>1. m \in Submissions
      BY <2>3, SubmissionFacts
    <3> QED
      BY <2>1, <2>3, <3>1, <1>7, <1>8 DEF OutputInv, PlaceInv
  <2>4. CASE x = r /\ m = n
    BY <2>4, <1>5, <1>7, <1>8
  <2> QED
    BY <2>2, <2>3, <2>4
<1>13. ExceptionAnswersAll'
  BY <1>1, <1>8 DEF OutputInv, ExceptionAnswersAll
<1>14. OneFinalOutput'
  BY <1>1 DEF OutputInv, OneFinalOutput
<1> QED
  BY <1>11, <1>12, <1>13, <1>14 DEF OutputInv

\* An ADD leaves the queue for the scheduler, or is answered with an error.
LEMMA HandleAddOutputs ==
    ASSUME CoreInv, OutputInv, HandleAdd
    PROVE  OutputInv'
<1>1. /\ cmdq # <<>> /\ cmdq' = Tail(cmdq) /\ pc = "drain" /\ pc' = "drain"
      /\ Head(cmdq).type = "ADD" /\ adds' = adds
  BY DEF HandleAdd, NextCommand, clientVars
<1>2. PICK r \in Ids, n \in Submissions : r = Head(cmdq).id /\ n = Head(cmdq).sub
  BY <1>1, CommandFacts DEF CoreInv
<1>3. Head(cmdq) = Command("ADD", r, n)
  <2>1. Head(cmdq) \in Commands
    BY <1>1 DEF CoreInv
  <2> QED
    BY <1>1, <1>2, <2>1 DEF Commands, Command
<1>4. Queued(r, n)
  <2>1. 1 \in DOMAIN cmdq /\ Head(cmdq) = cmdq[1]
    BY <1>1 DEF CoreInv
  <2> QED
    BY <1>1, <1>3, <2>1 DEF Queued
<1>5. n <= adds[r] /\ log[r][n] = <<>> /\ ~Live(r, n)
  BY <1>4 DEF OutputInv, QueueInv
<1>6. /\ DistinctAdds'
      /\ \A x \in Ids : \A m \in Submissions :
            Queued(x, m)' <=> Queued(x, m) /\ ~(x = r /\ m = n)
  <2>1. \A x \in Ids : \A m \in Submissions :
           Command("ADD", r, n) = Command("ADD", x, m) <=> x = r /\ m = n
    BY DEF Command
  <2> QED
    BY <1>1, <1>3, <2>1, QueueTail DEF CoreInv, OutputInv, QueueInv
<1>7. Serving /\ ExceptionAnswersAll'
  BY <1>1 DEF Serving, InLoop, ExceptionAnswersAll
<1>8. \/ Put(r, n, Output(0, "ERROR")) /\ UNCHANGED <<waiting, running, req>>
      \/ /\ ~Known(r) /\ log' = log /\ running' = running
         /\ waiting' = Append(waiting, r)
         /\ req' = [req EXCEPT ![r] = [sub |-> n, computed |-> 0, out |-> 0]]
  BY <1>2 DEF HandleAdd, AddRejected, AddRequest, Known, schedVars
<1>9. CASE Put(r, n, Output(0, "ERROR")) /\ UNCHANGED <<waiting, running, req>>
  <2>1. Output(0, "ERROR") \in Outputs /\ Final(Output(0, "ERROR"))
    BY DEF Output, Outputs, Reasons, Final
  <2>2. /\ log'[r][n] = Append(log[r][n], Output(0, "ERROR"))
        /\ \A x \in Ids : \A m \in Submissions : x # r \/ m # n => log'[x][m] = log[x][m]
    BY SMTT(30), <1>9, <2>1, PutType DEF CoreInv, TypeOK
  <2>3. /\ log'[r][n] # <<>> /\ Last(log'[r][n]) = Output(0, "ERROR")
        /\ \A i \in DOMAIN log'[r][n] : Final(log'[r][n][i]) => i = Len(log'[r][n])
    <3>1. ~Answered(r, n)
      BY <1>5 DEF Answered
    <3> QED
      BY <2>1, <2>2, <3>1, SubmissionFacts, AppendOutput
         DEF OutputInv, OneFinalOutput, Answered
  <2>4. Answered(r, n)'
    BY <2>1, <2>3 DEF Answered
  <2>5. /\ \A x \in Ids : \A m \in Submissions : x # r \/ m # n =>
              (Answered(x, m)' <=> Answered(x, m))
        /\ \A x \in Ids : \A m : Live(x, m)' <=> Live(x, m)
        /\ \A x \in Ids : Known(x)' <=> Known(x)
    BY <1>9, <2>2 DEF Answered, Live, Known, IsRunning, IsWaiting
  <2>6. OneFinalOutput'
    <3> SUFFICES ASSUME NEW x \in Ids, NEW m \in Submissions, NEW i \in DOMAIN log'[x][m],
                        Final(log'[x][m][i])
                 PROVE  i = Len(log'[x][m])
      BY DEF OneFinalOutput
    <3> QED
      BY SMTT(30), <2>2, <2>3 DEF OutputInv, OneFinalOutput
  <2>7. QueueInv'
    <3>1. ASSUME NEW x \in Ids, NEW m \in Submissions, Queued(x, m)'
          PROVE  m <= adds'[x] /\ log'[x][m] = <<>> /\ ~Live(x, m)'
      BY <3>1, <1>1, <1>6, <2>2, <2>5 DEF OutputInv, QueueInv
    <3>2. ASSUME NEW x \in Ids, NEW m \in Submissions, m > adds'[x] PROVE log'[x][m] = <<>>
      <4>1. x # r \/ m # n
        BY <3>2, <1>1, <1>5, SubmissionFacts, ClientBounds DEF Submissions
      <4> QED
        BY <3>2, <4>1, <1>1, <2>2 DEF OutputInv, QueueInv
    <3>3. ASSUME NEW x \in Ids, Known(x)' PROVE req'[x].sub <= adds'[x]
      BY <3>3, <1>1, <1>9, <2>5 DEF OutputInv, QueueInv
    <3> QED
      BY <3>1, <3>2, <3>3, <1>6 DEF QueueInv
  <2>8. PlaceInv'
    BY <1>1, <1>5, <1>6, <1>7, <2>4, <2>5, SubmissionFacts DEF OutputInv, PlaceInv
  <2> QED
    BY <1>7, <2>6, <2>7, <2>8 DEF OutputInv
<1>10. CASE /\ ~Known(r) /\ log' = log /\ running' = running
            /\ waiting' = Append(waiting, r)
            /\ req' = [req EXCEPT ![r] = [sub |-> n, computed |-> 0, out |-> 0]]
  <2>1. Range(waiting') = Range(waiting) \cup {r}
    BY <1>10, AppendFacts DEF CoreInv, TypeOK
  <2>2. req'[r].sub = n /\ \A x \in Ids \ {r} : req'[x] = req[x]
    BY <1>10 DEF CoreInv, TypeOK
  <2>3. /\ \A x \in Ids : Known(x)' <=> Known(x) \/ x = r
        /\ \A x \in Ids : \A m : Live(x, m)' <=> Live(x, m) \/ (x = r /\ m = n)
        /\ \A x \in Ids : \A m : Answered(x, m)' <=> Answered(x, m)
    BY <1>10, <2>1, <2>2 DEF Known, IsRunning, IsWaiting, Live, Answered
  <2>4. ~Answered(r, n)
    BY <1>5 DEF Answered
  <2>5. OneFinalOutput'
    BY <1>10 DEF OutputInv, OneFinalOutput
  <2>6. QueueInv'
    <3>1. ASSUME NEW x \in Ids, NEW m \in Submissions, Queued(x, m)'
          PROVE  m <= adds'[x] /\ log'[x][m] = <<>> /\ ~Live(x, m)'
      BY <3>1, <1>1, <1>6, <1>10, <2>3 DEF OutputInv, QueueInv
    <3>2. ASSUME NEW x \in Ids, Known(x)' PROVE req'[x].sub <= adds'[x]
      BY <3>2, <1>1, <1>5, <2>2, <2>3 DEF OutputInv, QueueInv
    <3> QED
      BY <3>1, <3>2, <1>1, <1>6, <1>10 DEF OutputInv, QueueInv
  <2>7. PlaceInv'
    BY <1>1, <1>6, <1>7, <2>3, <2>4, SubmissionFacts DEF OutputInv, PlaceInv
  <2> QED
    BY <1>7, <2>5, <2>6, <2>7 DEF OutputInv
<1> QED
  BY <1>8, <1>9, <1>10

\* Dropping a running request with its final output.
LEMMA FinishOutputs ==
    ASSUME CoreInv, OutputInv, SameAdds, adds' = adds, InLoop, InLoop',
           NEW r \in Range(running), Finish(r), waiting' = waiting,
           NEW o \in Outputs, Final(o), Put(r, req[r].sub, o)
    PROVE  OutputInv'
<1>1. r \in Ids /\ Known(r) /\ r \notin Range(waiting)
  BY RangeOfSeq DEF CoreInv, TypeOK, Known, IsRunning, ListsInv
<1>2. /\ Range(running') = Range(running) \ {r}
      /\ \A x \in Ids \ {r} : req'[x] = req[x]
  BY FinishFacts
<1>3. ~Known(r)' /\ \A x \in Ids \ {r} : SameRequest(x)
  BY <1>1, <1>2 DEF SameRequest, Known, IsRunning, IsWaiting
<1> QED
  BY <1>1, <1>3, PutStep

\* An ABORT answers the request it finds, waiting or running, and drops it.
LEMMA HandleAbortOutputs ==
    ASSUME CoreInv, OutputInv, HandleAbort
    PROVE  OutputInv'
<1>1. /\ cmdq # <<>> /\ cmdq' = Tail(cmdq) /\ pc = "drain" /\ pc' = "drain"
      /\ Head(cmdq).type = "ABORT" /\ adds' = adds /\ exc' = "none"
  BY HandleAbortInv DEF HandleAbort, NextCommand, clientVars, CoreInv
<1>2. SameAdds
  <2>1. \A x, m : Head(cmdq) # Command("ADD", x, m)
    BY <1>1 DEF Command
  <2> QED
    BY <1>1, <2>1, QueueTail DEF SameAdds, CoreInv, OutputInv, QueueInv
<1>3. PICK r \in Ids : r = Head(cmdq).id
  BY <1>1, CommandFacts DEF CoreInv
<1>4. InLoop /\ InLoop'
  BY <1>1 DEF InLoop
<1>5. Output(0, "ABORT") \in Outputs /\ Final(Output(0, "ABORT"))
  BY DEF Output, Outputs, Reasons, Final
<1>6. \/ /\ r \in Range(running) /\ Finish(r) /\ waiting' = waiting
         /\ Put(r, req[r].sub, Output(0, "ABORT"))
      \/ /\ r \in Range(waiting) /\ r \notin Range(running) /\ Unqueue(r)
         /\ Put(r, req[r].sub, Output(0, "ABORT"))
      \/ UNCHANGED <<waiting, running, req, log>>
  BY <1>1, <1>3 DEF HandleAbort, Known, IsRunning, IsWaiting
<1>7. CASE /\ r \in Range(running) /\ Finish(r) /\ waiting' = waiting
           /\ Put(r, req[r].sub, Output(0, "ABORT"))
  BY <1>1, <1>2, <1>4, <1>5, <1>7, FinishOutputs
<1>8. CASE /\ r \in Range(waiting) /\ r \notin Range(running) /\ Unqueue(r)
           /\ Put(r, req[r].sub, Output(0, "ABORT"))
  <2>1. Range(waiting') = Range(waiting) \ {r} /\ running' = running
    BY <1>8, RemoveFacts DEF Unqueue, CoreInv, TypeOK, ListsInv
  <2>2. \A x \in Ids \ {r} : req'[x] = req[x]
    BY <1>8 DEF Unqueue, CoreInv, TypeOK
  <2>3. Known(r) /\ ~Known(r)' /\ \A x \in Ids \ {r} : SameRequest(x)
    BY <1>8, <2>1, <2>2 DEF SameRequest, Known, IsRunning, IsWaiting
  <2> QED
    BY <1>1, <1>2, <1>4, <1>5, <1>8, <2>3, PutStep
<1>9. CASE UNCHANGED <<waiting, running, req, log>>
  <2>1. Serving' => Serving
    BY <1>1 DEF Serving, InLoop
  <2> QED
    BY <1>1, <1>2, <1>9, <2>1, SameLists, QuietStep
<1> QED
  BY <1>6, <1>7, <1>8, <1>9

\* A failed batch: the request gets its error and is dropped.
LEMMA ApplyErrorOutputs ==
    ASSUME CoreInv, OutputInv, ApplyError
    PROVE  OutputInv'
<1>1. pc = "apply" /\ pc' = "apply" /\ cursor <= Len(batch)
  BY ApplyErrorInv DEF ApplyError
<1>2. PICK r \in Range(running) : r = batch[cursor].id /\ batch[cursor].sub = req[r].sub
  BY <1>1, ApplyFacts
<1>3. /\ Finish(r) /\ waiting' = waiting /\ adds' = adds /\ cmdq' = cmdq
      /\ Put(r, req[r].sub, Output(0, "ERROR"))
  BY <1>2 DEF ApplyError, clientVars
<1>4. Output(0, "ERROR") \in Outputs /\ Final(Output(0, "ERROR"))
  BY DEF Output, Outputs, Reasons, Final
<1>5. InLoop /\ InLoop'
  BY <1>1 DEF InLoop
<1> QED
  BY <1>3, <1>4, <1>5, SameQueue, FinishOutputs

\* A token: the request goes on with a plain output or is dropped with a final one.
LEMMA ApplyItemOutputs ==
    ASSUME CoreInv, OutputInv, ApplyItem
    PROVE  OutputInv'
<1>1. /\ pc = "apply" /\ pc' = "apply" /\ waiting' = waiting /\ adds' = adds /\ cmdq' = cmdq
  BY ApplyItemInv DEF ApplyItem, clientVars
<1>2. InLoop /\ InLoop' /\ (Serving' => Serving)
  BY <1>1 DEF InLoop, Serving
<1>3. SameAdds
  BY <1>1, SameQueue
<1>4. PICK r \in Range(running) :
         \/ /\ UNCHANGED <<cacheVars, running>>
            /\ req'[r].sub = req[r].sub
            /\ \A x \in Ids \ {r} : req'[x] = req[x]
            /\ log' = log \/ Put(r, req[r].sub, Output(1, "none"))
         \/ /\ Finish(r)
            /\ \E o \in Outputs : Final(o) /\ Put(r, req[r].sub, o)
  BY ApplyItemEffect
<1>5. r \in Ids /\ Known(r)
  BY RangeOfSeq DEF CoreInv, TypeOK, Known, IsRunning
<1>6. CASE /\ Finish(r)
           /\ \E o \in Outputs : Final(o) /\ Put(r, req[r].sub, o)
  BY <1>1, <1>2, <1>3, <1>6, FinishOutputs
<1>7. CASE /\ UNCHANGED <<cacheVars, running>>
           /\ req'[r].sub = req[r].sub
           /\ \A x \in Ids \ {r} : req'[x] = req[x]
           /\ log' = log \/ Put(r, req[r].sub, Output(1, "none"))
  <2>1. \A x \in Ids : SameRequest(x)
    BY <1>1, <1>7 DEF SameRequest, Known, IsRunning, IsWaiting
  <2>2. Output(1, "none") \in Outputs /\ ~Final(Output(1, "none"))
    BY DEF Output, Outputs, Reasons, Final
  <2>3. CASE log' = log
    BY <1>1, <1>2, <1>3, <2>1, <2>3, QuietStep
  <2>4. CASE Put(r, req[r].sub, Output(1, "none"))
    BY <1>1, <1>2, <1>3, <1>5, <2>1, <2>2, <2>4, PutStep
  <2> QED
    BY <1>7, <2>3, <2>4
<1> QED
  BY <1>4, <1>6, <1>7

\* What the core puts when it dies of an exception.
LEMMA ExceptionLog ==
    ASSUME CoreInv, ExceptionExit
    PROVE  \A x \in Ids : \A m \in Submissions :
              log'[x][m] = IF Live(x, m) THEN Append(log[x][m], Output(0, "ERROR")) ELSE log[x][m]
<1> DEFINE o == Output(0, "ERROR")
<1>1. log' = [r \in Ids |->
                 IF Known(r) THEN [log[r] EXCEPT ![req[r].sub] = Append(@, o)] ELSE log[r]]
  BY DEF ExceptionExit, Abandoned
<1> HIDE DEF o
<1> SUFFICES ASSUME NEW x \in Ids, NEW m \in Submissions
             PROVE  log'[x][m] = IF Live(x, m) THEN Append(log[x][m], o) ELSE log[x][m]
  BY DEF o
<1>2. log[x] \in [Submissions -> Seq(Outputs)]
  BY DEF CoreInv, TypeOK
<1>3. CASE Known(x)
  <2>1. log'[x] = [log[x] EXCEPT ![req[x].sub] = Append(@, o)]
    BY <1>1, <1>3
  <2>2. req[x].sub \in Submissions
    BY <1>3, SubmissionFacts
  <2> QED
    BY <1>2, <1>3, <2>1, <2>2 DEF Live
<1>4. CASE ~Known(x)
  BY <1>1, <1>4 DEF Live
<1> QED
  BY <1>3, <1>4

\* The core dies of an exception: each request it knows gets its one final output.
LEMMA ExceptionOutputs ==
    ASSUME CoreInv, OutputInv, ExceptionExit
    PROVE  OutputInv'
<1>1. /\ pc = "except" /\ pc' = "finally" /\ adds' = adds /\ cmdq' = cmdq
      /\ UNCHANGED <<waiting, running, req>>
      /\ log' = [r \in Ids |->
                   IF Known(r)
                   THEN [log[r] EXCEPT ![req[r].sub] = Append(@, Output(0, "ERROR"))]
                   ELSE log[r]]
  BY DEF ExceptionExit, Abandoned, schedVars, clientVars
<1> DEFINE o == Output(0, "ERROR")
<1>2. o \in Outputs /\ Final(o)
  BY DEF Output, Outputs, Reasons, Final
<1> HIDE DEF o
<1>3. SameAdds /\ Serving /\ ~Serving'
  BY <1>1, SameQueue DEF Serving, InLoop
<1>4. /\ \A x \in Ids : Known(x)' <=> Known(x)
      /\ \A x \in Ids : \A m : Live(x, m)' <=> Live(x, m)
  BY <1>1 DEF Known, IsRunning, IsWaiting, Live
<1>5. \A x \in Ids : \A m \in Submissions :
         log'[x][m] = IF Live(x, m) THEN Append(log[x][m], o) ELSE log[x][m]
  BY ExceptionLog DEF o
<1>6. ASSUME NEW x \in Ids, NEW m \in Submissions, Live(x, m)
      PROVE  /\ m \in 1 .. adds[x] /\ ~Queued(x, m)
             /\ log'[x][m] # <<>> /\ Last(log'[x][m]) = o
             /\ \A i \in DOMAIN log'[x][m] : Final(log'[x][m][i]) => i = Len(log'[x][m])
  <2>1. m <= adds[x] /\ ~Queued(x, m)
    BY <1>6 DEF Live, OutputInv, QueueInv
  <2>2. m \in Nat /\ m >= 1 /\ adds[x] \in Nat
    BY SubmissionFacts, ClientBounds DEF Submissions
  <2>3. m \in 1 .. adds[x]
    BY <2>1, <2>2
  <2>4. ~Answered(x, m)
    BY <1>3, <1>6, <2>3 DEF OutputInv, PlaceInv
  <2>5. log'[x][m] = Append(log[x][m], o)
    BY <1>5, <1>6
  <2> QED
    BY SMTT(30), <1>2, <2>1, <2>3, <2>4, <2>5, SubmissionFacts, AppendOutput
       DEF OutputInv, OneFinalOutput, Answered
<1>7. OneFinalOutput'
  <2> SUFFICES ASSUME NEW x \in Ids, NEW m \in Submissions, NEW i \in DOMAIN log'[x][m],
                      Final(log'[x][m][i])
               PROVE  i = Len(log'[x][m])
    BY DEF OneFinalOutput
  <2> QED
    BY <1>5, <1>6 DEF OutputInv, OneFinalOutput
<1>8. QueueInv'
  <2>1. ASSUME NEW x \in Ids, NEW m \in Submissions, Queued(x, m)'
        PROVE  m <= adds'[x] /\ log'[x][m] = <<>> /\ ~Live(x, m)'
    BY <2>1, <1>1, <1>3, <1>4, <1>5 DEF OutputInv, QueueInv, SameAdds
  <2>2. ASSUME NEW x \in Ids, NEW m \in Submissions, m > adds'[x] PROVE log'[x][m] = <<>>
    <3>1. ~Live(x, m)
      BY <2>2, <1>1, <1>6, SubmissionFacts
    <3> QED
      BY <2>2, <3>1, <1>1, <1>5 DEF OutputInv, QueueInv
  <2>3. ASSUME NEW x \in Ids, Known(x)' PROVE req'[x].sub <= adds'[x]
    BY <2>3, <1>1, <1>4 DEF OutputInv, QueueInv
  <2> QED
    BY <2>1, <2>2, <2>3, <1>3 DEF QueueInv, SameAdds
<1>9. PlaceInv'
  BY <1>3 DEF PlaceInv
<1>10. ExceptionAnswersAll'
  <2> SUFFICES ASSUME NEW x \in Ids, Known(x)' PROVE Answered(x, req[x].sub)'
    BY DEF ExceptionAnswersAll
  <2>1. PICK m \in Submissions : m = req[x].sub
    BY <1>4, SubmissionFacts
  <2>2. Live(x, m)
    BY <1>4, <2>1 DEF Live
  <2>3. Final(Last(log'[x][m])) /\ log'[x][m] # <<>>
    BY <1>2, <1>6, <2>2
  <2>4. req'[x].sub = m
    BY <1>1, <2>1
  <2> QED
    BY <2>3, <2>4 DEF Answered
<1> QED
  BY <1>7, <1>8, <1>9, <1>10 DEF OutputInv

\* The steps of the core that put nothing keep every request, in one list or the other.
LEMMA QuietLists ==
    ASSUME CoreInv,
           \/ DrainEnd \/ Admit \/ AdmitEnd \/ Schedule \/ Dispatch \/ ReceiveResult
           \/ ApplyEnd \/ StopWorker \/ JoinWorker \/ TerminateWorker
           \/ WorkerStep \/ TerminateCore \/ UNCHANGED vars
    PROVE  req' = req /\ \A x \in Ids : SameRequest(x)
<1>1. CASE Admit
  <2>1. waiting # <<>> /\ waiting \in Seq(Ids) /\ running \in Seq(Ids) /\ req' = req
    BY <1>1 DEF Admit, AdmitOne, AdmissionOpen, CoreInv, TypeOK
  <2>2. PICK r \in Ids : r = Head(waiting)
    BY <2>1
  <2>3. /\ r \in Range(waiting) /\ Tail(waiting) \in Seq(Ids)
        /\ Range(Tail(waiting)) = Range(waiting) \ {r} /\ r \notin DOMAIN tables
    BY <2>1, <2>2, TailFacts DEF CoreInv, ListsInv
  <2>4. \/ waiting' = Tail(waiting) /\ running' = Append(running, r)
        \/ waiting' = Append(Tail(waiting), r) /\ running' = running
    BY <1>1, <2>2, <2>3 DEF Admit, AdmitOne
  <2>5. /\ Range(Append(running, r)) = Range(running) \cup {r}
        /\ Range(Append(Tail(waiting), r)) = Range(Tail(waiting)) \cup {r}
    <3> DEFINE t == Tail(waiting)
    <3>1. t \in Seq(Ids)
      BY <2>3
    <3> HIDE DEF t
    <3>2. Range(Append(t, r)) = Range(t) \cup {r}
      BY <3>1, AppendFacts
    <3> QED
      BY <2>1, <3>2, AppendFacts DEF t
  <2>6. Range(waiting') \cup Range(running') = Range(waiting) \cup Range(running)
    BY <2>3, <2>4, <2>5
  <2> QED
    BY <2>1, <2>6 DEF SameRequest, Known, IsRunning, IsWaiting
<1>2. CASE ~Admit
  <2>1. UNCHANGED <<waiting, running, req>>
    <3>1. CASE DrainEnd \/ AdmitEnd \/ Schedule \/ Dispatch
      BY <3>1 DEF DrainEnd, StartAdmission, AdmitEnd, StartBatch, Schedule, ScheduleOne,
                  Dispatch, schedVars
    <3>2. CASE ReceiveResult \/ ApplyEnd \/ StopWorker \/ JoinWorker \/ TerminateWorker
      BY <3>2 DEF ReceiveResult, ApplyEnd, StopWorker, JoinWorker, TerminateWorker, schedVars
    <3>3. CASE WorkerStep \/ TerminateCore \/ UNCHANGED vars
      BY <3>3 DEF WorkerStep, CoreIdle, TerminateCore, vars, schedVars
    <3> QED
      BY <1>2, <3>1, <3>2, <3>3
  <2> QED
    BY <2>1, SameLists
<1> QED
  BY <1>1, <1>2

\* The remaining steps of the core put nothing and move no submission.
LEMMA QuietOutputs ==
    ASSUME CoreInv, OutputInv,
           \/ DrainEnd \/ Admit \/ AdmitEnd \/ Schedule \/ Dispatch \/ ReceiveResult
           \/ ApplyEnd \/ StopWorker \/ JoinWorker \/ TerminateWorker
           \/ WorkerStep \/ TerminateCore \/ UNCHANGED vars
    PROVE  OutputInv'
<1>1. log' = log /\ adds' = adds /\ cmdq' = cmdq /\ shutdown' = shutdown
  <2>1. CASE DrainEnd \/ Admit \/ AdmitEnd \/ Schedule \/ Dispatch
    BY <2>1 DEF DrainEnd, Admit, AdmitEnd, Schedule, Dispatch, clientVars
  <2>2. CASE ReceiveResult \/ ApplyEnd \/ StopWorker \/ JoinWorker \/ TerminateWorker
    BY <2>2 DEF ReceiveResult, ApplyEnd, StopWorker, JoinWorker, TerminateWorker, clientVars
  <2>3. CASE WorkerStep \/ TerminateCore \/ UNCHANGED vars
    BY <2>3 DEF WorkerStep, CoreIdle, TerminateCore, vars, coreVars, clientVars
  <2> QED
    BY <2>1, <2>2, <2>3
<1>2. Serving' => Serving
  <2>1. CASE DrainEnd \/ Admit \/ AdmitEnd \/ Schedule \/ Dispatch
    BY <2>1 DEF DrainEnd, Admit, AdmitEnd, Schedule, Dispatch, Serving, InLoop
  <2>2. CASE ReceiveResult \/ ApplyEnd \/ StopWorker \/ JoinWorker \/ TerminateWorker
    BY <2>2 DEF ReceiveResult, ApplyEnd, StopWorker, JoinWorker, TerminateWorker, Serving, InLoop
  <2>3. CASE WorkerStep \/ TerminateCore \/ UNCHANGED vars
    BY <2>3 DEF WorkerStep, CoreIdle, TerminateCore, vars, coreVars, Serving, InLoop
  <2> QED
    BY <2>1, <2>2, <2>3
<1>3. pc' \in {"finally", "join", "done"} /\ ~shutdown'
         => pc \in {"finally", "join", "done"} /\ ~shutdown
  <2>1. CASE DrainEnd \/ AdmitEnd \/ Dispatch
    BY <2>1 DEF DrainEnd, AdmitEnd, Dispatch
  <2>2. CASE Admit \/ Schedule
    BY <2>2, AdmitInv, ScheduleInv
  <2>3. CASE ReceiveResult
    BY <2>3 DEF ReceiveResult, NextAfterResult
  <2>4. CASE ApplyEnd \/ StopWorker \/ JoinWorker \/ TerminateWorker
    BY <2>4 DEF ApplyEnd, StopWorker, JoinWorker, TerminateWorker
  <2>5. CASE WorkerStep \/ TerminateCore \/ UNCHANGED vars
    BY <2>5 DEF WorkerStep, CoreIdle, TerminateCore, vars, coreVars
  <2> QED
    BY <2>1, <2>2, <2>3, <2>4, <2>5
<1>4. \A x \in Ids : SameRequest(x)
  BY QuietLists
<1> QED
  BY <1>1, <1>2, <1>3, <1>4, SameQueue, QuietStep

\* A SHUTDOWN is handled, or a command other than an ADD is sent.
LEMMA CommandOutputs ==
    ASSUME CoreInv, OutputInv,
           HandleShutdown \/ SendShutdown \/ \E r \in Ids : SendAbort(r)
    PROVE  OutputInv'
<1>1. /\ log' = log /\ adds' = adds /\ pc' = pc /\ UNCHANGED <<waiting, running, req>>
      /\ shutdown => shutdown'
  BY DEF HandleShutdown, SendShutdown, SendAbort, schedVars, coreVars, clientVars
<1>2. /\ HandleShutdown => pc = "drain"
      /\ ~HandleShutdown => shutdown' = shutdown
  BY DEF HandleShutdown, NextCommand, SendShutdown, SendAbort, coreVars
<1>3. SameAdds
  <2>1. CASE HandleShutdown
    <3>1. cmdq # <<>> /\ cmdq' = Tail(cmdq) /\ \A x, m : Head(cmdq) # Command("ADD", x, m)
      BY <2>1 DEF HandleShutdown, NextCommand, Command
    <3> QED
      BY <3>1, QueueTail DEF SameAdds, CoreInv, OutputInv, QueueInv
  <2>2. CASE SendShutdown \/ \E r \in Ids : SendAbort(r)
    <3>1. PICK c \in Commands : c.type # "ADD" /\ cmdq' = Append(cmdq, c)
      <4>1. /\ [type |-> "SHUTDOWN"] \in Commands
            /\ \A r \in Ids : Command("ABORT", r, 0) \in Commands
        BY DEF Commands
      <4>2. [type |-> "SHUTDOWN"].type # "ADD" /\ \A r \in Ids : Command("ABORT", r, 0).type # "ADD"
        BY DEF Command
      <4>3. CASE SendShutdown
        BY <4>1, <4>2, <4>3 DEF SendShutdown
      <4>4. ASSUME NEW r \in Ids, SendAbort(r)
            PROVE  \E c \in Commands : c.type # "ADD" /\ cmdq' = Append(cmdq, c)
        BY <4>1, <4>2, <4>4 DEF SendAbort
      <4> QED
        BY <2>2, <4>3, <4>4
    <3>2. \A x, m : c # Command("ADD", x, m)
      BY <3>1 DEF Command
    <3> QED
      BY <3>1, <3>2, QueueAppend DEF SameAdds, CoreInv, OutputInv, QueueInv
  <2> QED
    BY <2>1, <2>2
<1>4. Serving' => Serving
  BY <1>1 DEF Serving, InLoop
<1> QED
  BY <1>1, <1>2, <1>3, <1>4, SameLists, QuietStep

\* Nothing was sent or put yet.
LEMMA OutputInvInit == Init => OutputInv
<1> SUFFICES ASSUME Init PROVE OutputInv
  OBVIOUS
<1>1. /\ cmdq = <<>> /\ pc = "drain" /\ adds = [r \in Ids |-> 0]
      /\ log = [r \in Ids |-> [n \in Submissions |-> <<>>]]
      /\ waiting = <<>> /\ running = <<>>
  BY DEF Init, SchedulerInit
<1>2. \A r : ~Known(r)
  <2>1. Range(waiting) = {} /\ Range(running) = {}
    BY <1>1 DEF Range
  <2> QED
    BY <2>1 DEF Known, IsRunning, IsWaiting
<1>3. QueueInv
  BY <1>1, <1>2 DEF QueueInv, DistinctAdds, Queued
<1>4. PlaceInv
  BY <1>1 DEF PlaceInv
<1>5. OneFinalOutput
  BY <1>1 DEF OneFinalOutput
<1>6. ExceptionAnswersAll
  BY <1>1 DEF ExceptionAnswersAll
<1> QED
  BY <1>3, <1>4, <1>5, <1>6 DEF OutputInv

\* Every step keeps OutputInv.
LEMMA OutputInvNext == CoreInv /\ OutputInv /\ [Next]_vars => OutputInv'
<1> SUFFICES ASSUME CoreInv, OutputInv, [Next]_vars PROVE OutputInv'
  OBVIOUS
<1>1. CASE CoreStep
  BY <1>1, HandleAddOutputs, HandleAbortOutputs, ApplyErrorOutputs, ApplyItemOutputs,
     ExceptionOutputs, QuietOutputs, CommandOutputs DEF CoreStep
<1>2. CASE ClientStep
  BY <1>2, SendAddOutputs, CommandOutputs, QuietOutputs DEF ClientStep
<1>3. CASE WorkerStep \/ UNCHANGED vars
  BY <1>3, QuietOutputs
<1> QED
  BY <1>1, <1>2, <1>3 DEF Next

\* OutputInv holds in every reachable state.
LEMMA OutputInvariant == Spec => []OutputInv
<1> QED
  BY OutputInvInit, OutputInvNext, CoreInvariant, PTL DEF Spec

-----------------------------------------------------------------------------
(* The theorems. *)

\* A final output is the last one its submission ever gets: no path through an
\* abort, a failed batch, a rejected ADD, a finish or the exception handler puts
\* a second one (EngineCore._handle_command, _execute_schedule, run).
THEOREM EngineAnswersOnce == Spec => []OneFinalOutput
<1>1. OutputInv => OneFinalOutput
  BY DEF OutputInv
<1> QED
  BY <1>1, OutputInvariant, PTL

\* While the core runs, a submission is in exactly one place: on the command
\* queue, in the scheduler, or answered.
THEOREM EngineLosesNoSubmission == Spec => []SubmissionInOnePlace
<1>1. CoreInv /\ OutputInv => SubmissionInOnePlace
  <2> SUFFICES ASSUME CoreInv, OutputInv, InLoop, NEW r \in Ids, NEW n \in 1 .. adds[r]
               PROVE  Cardinality({p \in {"queue", "scheduler", "answered"} :
                          CASE p = "queue" -> Queued(r, n)
                            [] p = "scheduler" -> Known(r) /\ req[r].sub = n
                            [] p = "answered" -> Answered(r, n)}) = 1
    BY DEF SubmissionInOnePlace
  <2> DEFINE places == {p \in {"queue", "scheduler", "answered"} :
                          CASE p = "queue" -> Queued(r, n)
                            [] p = "scheduler" -> Known(r) /\ req[r].sub = n
                            [] p = "answered" -> Answered(r, n)}
  <2>1. n \in Submissions
    BY SubmissionFacts
  <2>2. /\ Queued(r, n) \/ Live(r, n) \/ Answered(r, n)
        /\ Live(r, n) => ~Answered(r, n)
    BY DEF OutputInv, PlaceInv, Serving
  <2>3. Queued(r, n) => ~Live(r, n) /\ ~Answered(r, n)
    BY <2>1 DEF OutputInv, QueueInv, Answered
  <2>4. /\ "queue" \in places <=> Queued(r, n)
        /\ "scheduler" \in places <=> Live(r, n)
        /\ "answered" \in places <=> Answered(r, n)
    BY DEF Live
  <2>5. \A p \in places : p \in {"queue", "scheduler", "answered"}
    OBVIOUS
  <2> HIDE DEF places
  <2>6. \E p : places = {p}
    <3>1. CASE Queued(r, n)
      <4>1. places = {"queue"}
        BY <2>3, <2>4, <2>5, <3>1
      <4> QED
        BY <4>1
    <3>2. CASE Live(r, n)
      <4>1. places = {"scheduler"}
        BY <2>2, <2>3, <2>4, <2>5, <3>2
      <4> QED
        BY <4>1
    <3>3. CASE Answered(r, n)
      <4>1. places = {"answered"}
        BY <2>2, <2>3, <2>4, <2>5, <3>3
      <4> QED
        BY <4>1
    <3> QED
      BY <2>2, <3>1, <3>2, <3>3
  <2>7. Cardinality(places) = 1
    BY <2>6, FS_Singleton
  <2> QED
    BY <2>7 DEF places
<1> QED
  BY <1>1, CoreInvariant, OutputInvariant, PTL

\* A core that dies of an exception has answered every request it knew (the
\* except branch of EngineCore.run).
THEOREM EngineFailureAnswersAll == Spec => []ExceptionAnswersAll
<1>1. OutputInv => ExceptionAnswersAll
  BY DEF OutputInv
<1> QED
  BY <1>1, OutputInvariant, PTL

-----------------------------------------------------------------------------
(* The limits of the configuration: what a batch may hold before the Worker   *)
(* refuses it, and how many tokens a submission may get.  Both speak of sums   *)
(* over lists (the tokens of a batch, the tokens put for a submission).        *)

(* The inductive invariants. *)

TokensIn(items) == SumFunction([i \in DOMAIN items |-> Len(items[i].slots)])

\* What the Worker's buffers must hold: running requests, their tables and the
\* tokens of the batch, together with what the loop of schedule may still add.
LimitsInv ==
    /\ Len(running) <= MaxNumSeqs
    /\ \A r \in Range(running) : Len(tables[r]) <= CeilDiv(MaxModelLen, BlockSize)
    /\ TokensIn(batch) <= MaxNumBatchedTokens
    /\ pc = "sched" => TokensIn(batch) + budget <= MaxNumBatchedTokens

TokensPut(q) == SumFunction([i \in DOMAIN q |-> q[i].tokens])

\* The outputs q of a submission of r respect its limits.
WithinLimits(r, q) ==
    LET full == TokensPut(q) = MaxTokens[r] \/ PromptLen[r] + TokensPut(q) = ContextLimit
    IN  q # <<>> =>
          /\ TokensPut(q) <= MaxTokens[r]
          /\ TokensPut(q) > 0 => PromptLen[r] + TokensPut(q) <= ContextLimit
          /\ ~Final(Last(q)) => ~full
          /\ Last(q).reason = "LENGTH" => full

\* What was put for a request that is still served is what it counts.
Counted(r) ==
    Known(r) /\ ~Answered(r, req[r].sub) =>
        /\ TokensPut(log[r][req[r].sub]) = req[r].out
        /\ req[r].out < MaxTokens[r]

LengthInv ==
    /\ \A r \in Ids : \A n \in Submissions : WithinLimits(r, log[r][n])
    /\ \A r \in Ids : Counted(r)

-----------------------------------------------------------------------------
(* Sums over lists. *)

\* The tokens of a list of outputs.
LEMMA OutputTokens ==
    ASSUME NEW q \in Seq(Outputs), NEW o \in Outputs
    PROVE  /\ TokensPut(q) \in Nat
           /\ TokensPut(Append(q, o)) = TokensPut(q) + o.tokens
           /\ q = <<>> => TokensPut(q) = 0
<1> DEFINE n == Len(q)
           a == Append(q, o)
           f == [i \in DOMAIN q |-> q[i].tokens]
           h == [i \in DOMAIN a |-> a[i].tokens]
<1>1. n \in Nat /\ DOMAIN q = 1 .. n /\ \A i \in 1 .. n : q[i].tokens \in Nat
  <2>1. n \in Nat /\ DOMAIN q = 1 .. n /\ \A i \in 1 .. n : q[i] \in Outputs
    OBVIOUS
  <2>2. \A e \in Outputs : e.tokens \in Nat
    BY DEF Outputs
  <2> QED
    BY <2>1, <2>2
<1>2. /\ DOMAIN a = 1 .. (n + 1) /\ a[n + 1] = o
      /\ \A i \in 1 .. n : a[i] = q[i]
  OBVIOUS
<1>3. o.tokens \in Nat
  BY DEF Outputs
<1>4. TokensPut(q) = SumFunction(f) /\ TokensPut(a) = SumFunction(h)
  BY DEF TokensPut
<1> HIDE DEF n, a
<1>5. \A i \in 1 .. (n + 1) : i \in 1 .. n \/ i = n + 1
  BY <1>1
<1>6. f \in [1 .. n -> Nat]
  BY <1>1
<1>7. h \in [1 .. (n + 1) -> Nat]
  BY <1>1, <1>2, <1>3, <1>5
<1>8. (\A i \in 1 .. n : h[i] = f[i]) /\ h[n + 1] = o.tokens
  BY <1>1, <1>2
<1> HIDE DEF f, h
<1>9. SumFunction(f) \in Nat /\ SumFunction(h) = SumFunction(f) + h[n + 1]
  BY <1>1, <1>6, <1>7, <1>8, SumAppend
<1>10. q = <<>> => SumFunction(f) = 0
  <2> SUFFICES ASSUME q = <<>> PROVE SumFunction(f) = 0
    OBVIOUS
  <2>1. n = 0
    BY DEF n
  <2> QED
    BY <1>6, <2>1, SumEmpty
<1> QED
  BY <1>4, <1>8, <1>9, <1>10 DEF a

\* The tokens of a list of items.
LEMMA ItemTokens ==
    ASSUME NEW q \in Seq(Items), NEW o \in Items
    PROVE  /\ TokensIn(q) \in Nat
           /\ TokensIn(Append(q, o)) = TokensIn(q) + Len(o.slots)
<1> DEFINE n == Len(q)
           a == Append(q, o)
           f == [i \in DOMAIN q |-> Len(q[i].slots)]
           h == [i \in DOMAIN a |-> Len(a[i].slots)]
<1>0. \A e \in Items : Len(e.slots) \in Nat
  <2> SUFFICES ASSUME NEW e \in Items PROVE Len(e.slots) \in Nat
    OBVIOUS
  <2>1. e.slots \in Seq(Slots)
    BY DEF Items
  <2> QED
    BY <2>1
<1>1. n \in Nat /\ DOMAIN q = 1 .. n /\ \A i \in 1 .. n : q[i] \in Items
  OBVIOUS
<1>2. /\ DOMAIN a = 1 .. (n + 1) /\ a[n + 1] = o
      /\ \A i \in 1 .. n : a[i] = q[i]
  OBVIOUS
<1>4. TokensIn(q) = SumFunction(f) /\ TokensIn(a) = SumFunction(h)
  BY DEF TokensIn
<1> HIDE DEF n, a
<1>5. \A i \in 1 .. (n + 1) : i \in 1 .. n \/ i = n + 1
  BY <1>1
<1>6. f \in [1 .. n -> Nat]
  BY <1>0, <1>1
<1>7. h \in [1 .. (n + 1) -> Nat]
  BY <1>0, <1>1, <1>2, <1>5
<1>8. (\A i \in 1 .. n : h[i] = f[i]) /\ h[n + 1] = Len(o.slots)
  BY <1>1, <1>2
<1> HIDE DEF f, h
<1>9. SumFunction(f) \in Nat /\ SumFunction(h) = SumFunction(f) + h[n + 1]
  BY <1>1, <1>6, <1>7, <1>8, SumAppend
<1> QED
  BY <1>4, <1>8, <1>9 DEF a

\* A batch without items has no tokens.
LEMMA NoItemTokens == TokensIn(<<>>) = 0
<1> DEFINE f == [i \in DOMAIN <<>> |-> Len(<<>>[i].slots)]
<1>1. f \in [1 .. 0 -> Nat]
  OBVIOUS
<1>2. TokensIn(<<>>) = SumFunction(f)
  BY DEF TokensIn
<1> HIDE DEF f
<1> QED
  BY <1>1, <1>2, SumEmpty

\* A list without repetitions is no longer than one that has all its elements.
LEMMA DistinctShorter ==
    ASSUME NEW T, NEW p \in Seq(T), Distinct(p), NEW q \in Seq(T), Distinct(q),
           Range(p) \subseteq Range(q)
    PROVE  Len(p) <= Len(q)
<1>1. Cardinality(Range(p)) = Len(p) /\ Cardinality(Range(q)) = Len(q)
  BY DistinctListCardinality DEF Distinct
<1>2. IsFiniteSet(Range(q))
  <2>1. IsFiniteSet(1 .. Len(q))
    BY FS_Interval
  <2>2. q \in Surjection(1 .. Len(q), Range(q))
    BY DEF Range, Surjection
  <2> QED
    BY <2>1, <2>2, FS_Surjection
<1> QED
  BY <1>1, <1>2, FS_Subset

\* A list of different blocks is no longer than the pool.
LEMMA DistinctBlocks ==
    ASSUME NEW p \in Seq(Blocks), Distinct(p)
    PROVE  Len(p) <= NumBlocks
<1>1. Cardinality(Range(p)) = Len(p)
  BY DistinctListCardinality DEF Distinct
<1>2. IsFiniteSet(Blocks) /\ Cardinality(Blocks) = NumBlocks
  BY FS_Interval, Geometry DEF Blocks
<1>3. Range(p) \subseteq Blocks
  BY RangeOfSeq
<1> QED
  BY <1>1, <1>2, <1>3, FS_Subset

-----------------------------------------------------------------------------
(* Batches. *)

\* A step that admits nobody and adds nothing to the batch.
LEMMA LimitsKept ==
    ASSUME CoreInv, LimitsInv,
           running' \in Seq(Ids), Len(running') <= Len(running),
           Range(running') \subseteq Range(running),
           \A x \in Range(running') : tables'[x] = tables[x],
           batch' = batch \/ batch' = <<>>,
           pc' = "sched" => pc = "sched" /\ budget' = budget /\ batch' = batch
    PROVE  LimitsInv'
<1>1. Len(running') \in Nat /\ Len(running) \in Nat /\ MaxNumSeqs \in Nat
  BY SchedulerConfig DEF CoreInv, TypeOK
<1>2. Len(running') <= MaxNumSeqs
  BY <1>1 DEF LimitsInv
<1>3. \A r \in Range(running') : Len(tables'[r]) <= CeilDiv(MaxModelLen, BlockSize)
  BY DEF LimitsInv
<1>4. TokensIn(batch') <= MaxNumBatchedTokens
  BY NoItemTokens, SchedulerConfig DEF LimitsInv
<1>5. pc' = "sched" => TokensIn(batch') + budget' <= MaxNumBatchedTokens
  BY DEF LimitsInv
<1>6. TokensIn(batch)' = TokensIn(batch')
  BY DEF TokensIn
<1> QED
  BY <1>2, <1>3, <1>4, <1>5, <1>6 DEF LimitsInv

\* Dropping a request.
LEMMA FinishLimits ==
    ASSUME CoreInv, LimitsInv, NEW r \in Range(running), Finish(r), waiting' = waiting,
           batch' = batch, pc' # "sched"
    PROVE  LimitsInv'
<1>1. /\ running' \in Seq(Ids) /\ ListsInv'
      /\ Range(running') = Range(running) \ {r}
      /\ \A x \in Range(running) \ {r} : tables'[x] = tables[x]
  BY FinishFacts
<1>2. Len(running') <= Len(running)
  BY <1>1, DistinctShorter DEF CoreInv, TypeOK, ListsInv
<1> QED
  BY <1>1, <1>2, LimitsKept

\* Admission checks max_num_seqs and gives an empty table.
LEMMA AdmitLimits ==
    ASSUME CoreInv, LimitsInv, Admit
    PROVE  LimitsInv'
<1>1. /\ waiting # <<>> /\ Len(running) < MaxNumSeqs /\ batch' = batch
      /\ waiting \in Seq(Ids) /\ running \in Seq(Ids) /\ pc' = "admit"
  BY AdmitInv DEF Admit, AdmitOne, AdmissionOpen, CoreInv, TypeOK
<1>2. PICK r \in Ids : r = Head(waiting) /\ r \notin DOMAIN tables
  BY <1>1, TailFacts DEF CoreInv, ListsInv
<1>3. \/ Create(r) /\ running' = Append(running, r)
      \/ UNCHANGED <<cacheVars, running>>
  BY <1>2 DEF Admit, AdmitOne
<1>4. CASE Create(r) /\ running' = Append(running, r)
  <2>1. /\ tables'[r] = <<>> /\ \A x \in DOMAIN tables : tables'[x] = tables[x]
    BY <1>2, <1>4 DEF Create
  <2>2. Range(running') = Range(running) \cup {r} /\ Len(running') = Len(running) + 1
    BY <1>1, <1>4, AppendFacts
  <2>3. Len(running') <= MaxNumSeqs
    BY <1>1, <2>2, SchedulerConfig
  <2>4. CeilDiv(MaxModelLen, BlockSize) \in Nat
    BY CeilDivRoom, SchedulerConfig
  <2>5. Len(tables'[r]) <= CeilDiv(MaxModelLen, BlockSize)
    BY <2>1, <2>4
  <2>6. \A x \in Range(running') : Len(tables'[x]) <= CeilDiv(MaxModelLen, BlockSize)
    BY <2>1, <2>2, <2>5 DEF LimitsInv, CoreInv, ListsInv
  <2>7. TokensIn(batch)' = TokensIn(batch)
    BY <1>1 DEF TokensIn
  <2> QED
    BY <1>1, <2>3, <2>6, <2>7 DEF LimitsInv
<1>5. CASE UNCHANGED <<cacheVars, running>>
  BY <1>1, <1>5, LimitsKept DEF cacheVars
<1> QED
  BY <1>3, <1>4, <1>5

\* schedule starts with the whole budget and an empty batch.
LEMMA AdmitEndLimits ==
    ASSUME CoreInv, LimitsInv, AdmitEnd
    PROVE  LimitsInv'
<1>1. running' = running /\ tables' = tables /\ batch' = <<>> /\ budget' = MaxNumBatchedTokens
  BY DEF AdmitEnd, StartBatch, cacheVars
<1>2. TokensIn(batch)' = 0
  BY <1>1, NoItemTokens DEF TokensIn
<1> QED
  BY <1>1, <1>2, SchedulerConfig DEF LimitsInv

\* A round of schedule charges the budget with the slots of the item it adds,
\* and extends the table no further than the request's tokens need.
LEMMA ScheduleLimits ==
    ASSUME CoreInv, LimitsInv, Schedule
    PROVE  LimitsInv'
<1> USE DEF CoreInv
<1>1. /\ pc = "sched" /\ pc' = "sched" /\ exc' = "none" /\ running' = running /\ req' = req
      /\ cursor <= Len(running) /\ budget > 0
  BY ScheduleInv DEF Schedule, ScheduleOne, BatchOpen
<1>2. /\ running \in Seq(Ids) /\ cursor \in 1 .. Len(running) /\ DOMAIN running = 1 .. Len(running)
      /\ budget \in Nat /\ MaxNumBatchedTokens \in Nat /\ batch \in Seq(Items)
  BY <1>1, SchedulerConfig DEF TypeOK, BatchInv
<1>3. PICK r \in Ids : r = running[cursor]
  BY <1>2
<1>4. r \in Range(running) /\ r \in DOMAIN tables /\ CacheInv
  BY <1>2, <1>3 DEF Range, ListsInv, TypeOK, CacheInv
<1> DEFINE start == req[r].computed
           count == NatMin(NumAllTokens(r) - start, budget)
           target == start + count
<1>5. /\ start \in Nat /\ NumAllTokens(r) \in Nat /\ start < NumAllTokens(r)
      /\ NumAllTokens(r) < ContextLimit
  BY <1>4, SchedulerConfig DEF RequestsInv, RequestOK, TypeOK, NumAllTokens
<1>6. /\ count \in Nat /\ count > 0 /\ count <= budget /\ target - start = count
      /\ target \in Nat /\ start < target /\ target <= NumAllTokens(r)
  BY <1>1, <1>2, <1>5 DEF NatMin
<1>7. \/ UNCHANGED <<cacheVars, budget, batch>>
      \/ /\ CanReserve(r, target) /\ Reserve(r, target)
         /\ batch' = Append(batch, WorkerItem(r, start, target, tables'[r]))
         /\ budget' = budget - count
  <2>1. ~Skipped(r, count) => CanReserve(r, target)
    BY <1>4 DEF Skipped
  <2>2. \/ UNCHANGED <<cacheVars, budget, batch>>
        \/ /\ ~Skipped(r, count) /\ Reserve(r, target)
           /\ batch' = Append(batch, WorkerItem(r, start, target, tables'[r]))
           /\ budget' = Charged(count)
    BY <1>1, <1>3 DEF Schedule, ScheduleOne
  <2> QED
    BY <2>1, <2>2 DEF Charged
<1> HIDE DEF count, target, start
<1>8. CASE UNCHANGED <<cacheVars, budget, batch>>
  BY <1>1, <1>2, <1>8, LimitsKept DEF cacheVars
<1>9. CASE /\ CanReserve(r, target) /\ Reserve(r, target)
           /\ batch' = Append(batch, WorkerItem(r, start, target, tables'[r]))
           /\ budget' = budget - count
  <2>1. /\ \A x \in DOMAIN tables : x # r => tables'[x] = tables[x]
        /\ tables[r] \in Seq(Blocks) /\ tables'[r] \in Seq(Blocks)
        /\ target <= Room(tables'[r])
        /\ Len(tables'[r]) = NatMax(Len(tables[r]), CeilDiv(target, BlockSize))
    BY <1>4, <1>6, <1>9, ReserveEffect
  <2>2. CeilDiv(target, BlockSize) <= CeilDiv(MaxModelLen, BlockSize)
    <3>1. MaxModelLen \in Nat /\ target <= MaxModelLen
      <4>1. /\ ContextLimit \in Nat /\ ContextLimit <= MaxModelLen /\ MaxModelLen \in Nat
        BY Geometry, SchedulerConfig DEF ContextLimit, NatMin
      <4> QED
        BY <4>1, <1>5, <1>6
    <3>2. PICK n \in Nat : n = CeilDiv(MaxModelLen, BlockSize)
      BY <3>1, CeilDivRoom
    <3>3. MaxModelLen <= n * BlockSize
      BY <3>1, <3>2, CeilDivRoom
    <3>4. n * BlockSize \in Nat
      BY Geometry
    <3>5. target <= n * BlockSize
      BY <3>1, <3>3, <3>4, <1>6
    <3> QED
      BY <3>2, <3>5, <1>6, CeilDivRoom
  <2>3. Len(tables'[r]) <= CeilDiv(MaxModelLen, BlockSize)
    BY <1>4, <2>1, <2>2 DEF NatMax, LimitsInv
  <2>4. \A x \in Range(running') : Len(tables'[x]) <= CeilDiv(MaxModelLen, BlockSize)
    BY <1>1, <2>1, <2>3 DEF LimitsInv, ListsInv
  <2>5. PICK item \in Items : /\ item = WorkerItem(r, start, target, tables'[r])
                              /\ Len(item.slots) = count
    <3> DEFINE w == WorkerItem(r, start, target, tables'[r])
    <3>1. /\ w \in Items
          /\ w.slots = [i \in 1 .. (target - start) |-> Slot(tables'[r], start + i - 1)]
      BY <1>5, <1>6, <2>1, WorkerItemFacts
    <3> HIDE DEF w
    <3>2. w.slots \in Seq(Slots)
      BY <3>1 DEF Items
    <3>3. DOMAIN w.slots = 1 .. count
      BY <3>1, <1>6
    <3>4. Len(w.slots) = count
      BY <3>2, <3>3, <1>6, LenProperties
    <3> QED
      BY <3>1, <3>4 DEF w
  <2>6. TokensIn(batch) \in Nat /\ TokensIn(batch') = TokensIn(batch) + count
    BY <1>2, <1>9, <2>5, ItemTokens
  <2>7. TokensIn(batch)' = TokensIn(batch')
    BY DEF TokensIn
  <2>8. /\ TokensIn(batch') <= MaxNumBatchedTokens
        /\ TokensIn(batch') + budget' <= MaxNumBatchedTokens
    <3>1. TokensIn(batch) + budget <= MaxNumBatchedTokens
      BY <1>1 DEF LimitsInv
    <3> QED
      BY <3>1, <1>2, <1>6, <1>9, <2>6
  <2> QED
    BY <1>1, <2>4, <2>7, <2>8 DEF LimitsInv
<1> QED
  BY <1>7, <1>8, <1>9

\* Every step keeps LimitsInv.
LEMMA LimitsInvNext == CoreInv /\ LimitsInv /\ [Next]_vars => LimitsInv'
<1> SUFFICES ASSUME CoreInv, LimitsInv, [Next]_vars PROVE LimitsInv'
  OBVIOUS
<1>1. running \in Seq(Ids) /\ Len(running) \in Nat
  BY DEF CoreInv, TypeOK
<1>2. ASSUME UNCHANGED <<running, tables>>, batch' = batch \/ batch' = <<>>,
             pc' = "sched" => UNCHANGED <<pc, budget, batch>>
      PROVE  LimitsInv'
  <2>1. pc' = "sched" => pc = "sched" /\ budget' = budget /\ batch' = batch
    BY <1>2
  <2> QED
    BY <1>1, <1>2, <2>1, LimitsKept
<1>3. CASE ClientStep
  <2>1. UNCHANGED <<running, tables, batch, budget>> /\ (pc' = pc \/ pc' = "killed")
    BY <1>3 DEF ClientStep, SendShutdown, TerminateCore, SendAdd, SendAbort, schedVars,
                cacheVars, coreVars
  <2> QED
    BY <1>2, <2>1
<1>4. CASE WorkerStep \/ UNCHANGED vars
  <2>1. UNCHANGED <<running, tables, batch, budget, pc>>
    BY <1>4 DEF WorkerStep, CoreIdle, vars, schedVars, cacheVars, coreVars
  <2> QED
    BY <1>2, <2>1
<1>5. CASE HandleShutdown \/ HandleAdd \/ DrainEnd \/ Dispatch
  <2>1. UNCHANGED <<running, tables, batch>>
    BY <1>5 DEF HandleShutdown, HandleAdd, AddRequest, DrainEnd, StartAdmission, Dispatch,
                schedVars, cacheVars
  <2>2. pc' # "sched"
    BY <1>5 DEF HandleShutdown, HandleAdd, NextCommand, DrainEnd, Dispatch
  <2> QED
    BY <1>2, <2>1, <2>2
<1>6. CASE ReceiveResult \/ ApplyEnd
  <2>1. UNCHANGED <<running, tables>> /\ (batch' = batch \/ batch' = <<>>)
    BY <1>6 DEF ReceiveResult, ApplyEnd, schedVars, cacheVars
  <2>2. pc' # "sched"
    BY <1>6 DEF ReceiveResult, ApplyEnd, NextAfterResult
  <2> QED
    BY <1>2, <2>1, <2>2
<1>7. CASE ExceptionExit \/ StopWorker \/ JoinWorker \/ TerminateWorker
  <2>1. UNCHANGED <<running, tables, batch>> /\ pc' # "sched"
    BY <1>7 DEF ExceptionExit, StopWorker, JoinWorker, TerminateWorker, schedVars, cacheVars
  <2> QED
    BY <1>2, <2>1
<1>8. CASE HandleAbort
  <2>1. PICK r \in Ids : r = Head(cmdq).id
    BY <1>8, CommandFacts DEF HandleAbort, NextCommand, CoreInv
  <2>2. /\ batch' = batch /\ pc' # "sched"
        /\ \/ r \in Range(running) /\ Finish(r) /\ waiting' = waiting
           \/ UNCHANGED <<running, tables>>
    BY <1>8, <2>1 DEF HandleAbort, IsRunning, Unqueue, cacheVars
  <2> QED
    BY <1>2, <2>2, FinishLimits
<1>9. CASE ApplyError
  <2>1. PICK r \in Range(running) : r = batch[cursor].id
    BY <1>9, ApplyFacts DEF ApplyError
  <2>2. Finish(r) /\ waiting' = waiting /\ batch' = batch /\ pc' # "sched"
    BY <1>9, <2>1 DEF ApplyError
  <2> QED
    BY <2>2, FinishLimits
<1>10. CASE ApplyItem
  <2>1. batch' = batch /\ pc' # "sched" /\ waiting' = waiting
    BY <1>10 DEF ApplyItem
  <2>2. PICK r \in Range(running) : UNCHANGED <<cacheVars, running>> \/ Finish(r)
    BY <1>10, ApplyItemEffect
  <2> QED
    BY <1>2, <2>1, <2>2, FinishLimits DEF cacheVars
<1> QED
  BY <1>3, <1>4, <1>5, <1>6, <1>7, <1>8, <1>9, <1>10, AdmitLimits, AdmitEndLimits,
     ScheduleLimits DEF Next, CoreStep

\* What is on the Worker's queue is never an empty batch.
NonemptyInv == Dispatched => batch # <<>>

\* Every step keeps NonemptyInv.
LEMMA NonemptyInvNext == CoreInv /\ CoreInv' /\ NonemptyInv /\ [Next]_vars => NonemptyInv'
<1> SUFFICES ASSUME CoreInv, CoreInv', NonemptyInv, [Next]_vars, Dispatched' PROVE batch' # <<>>
  BY DEF NonemptyInv
<1>1. workq' # <<>>
  BY DEF Dispatched
<1>2. pc' \notin {"drain", "admit", "sched", "apply"}
  BY <1>1 DEF CoreInv, ChannelInv
<1>3. workq \in Seq({ShutdownCommand, BatchCommand(batchId, batch)})
  BY DEF CoreInv, ChannelInv
<1>4. ASSUME batch' = batch, Dispatched PROVE batch' # <<>>
  BY <1>4 DEF NonemptyInv
<1>5. CASE Dispatch
  BY <1>2, <1>5 DEF Dispatch
<1>6. CASE UNCHANGED <<batch, workq>>
  BY <1>4, <1>6 DEF Dispatched
<1>7. CASE workq # <<>> /\ workq' = Tail(workq) /\ batch' = batch
  <2>1. PICK k \in DOMAIN workq' : ~workq'[k].shutdown
    BY DEF Dispatched
  <2>2. k + 1 \in DOMAIN workq /\ workq'[k] = workq[k + 1]
    BY <1>3, <1>7
  <2> QED
    BY <1>4, <1>7, <2>1, <2>2 DEF Dispatched
<1>8. CASE StopWorker
  <2>1. workq' = Append(workq, ShutdownCommand) /\ batch' = batch
    BY <1>8 DEF StopWorker, schedVars
  <2>2. PICK k \in DOMAIN workq' : ~workq'[k].shutdown
    BY DEF Dispatched
  <2>3. k \in DOMAIN workq /\ workq'[k] = workq[k]
    <3>1. ShutdownCommand.shutdown
      BY DEF ShutdownCommand
    <3> HIDE DEF ShutdownCommand
    <3> QED
      BY <1>3, <2>1, <2>2, <3>1
  <2> QED
    BY <1>4, <2>1, <2>2, <2>3 DEF Dispatched
<1>9. CASE WorkerStep
  BY <1>6, <1>7, <1>9 DEF WorkerStep, CoreIdle, schedVars, WorkerReady, WorkerInitFails,
                          WorkerExecute, WorkerBatchFails, WorkerShutdown
<1>10. CASE ClientStep \/ UNCHANGED vars
  BY <1>6, <1>10 DEF ClientStep, SendShutdown, TerminateCore, SendAdd, SendAbort, vars,
                     schedVars, workerVars
<1>11. CASE ExceptionExit \/ JoinWorker \/ TerminateWorker \/ ReceiveResult
  BY <1>6, <1>11 DEF ExceptionExit, JoinWorker, TerminateWorker, ReceiveResult, schedVars,
                     workerVars
<1>12. ~(HandleShutdown \/ HandleAdd \/ HandleAbort \/ Admit \/ AdmitEnd \/ Schedule
         \/ ApplyError \/ ApplyItem \/ ApplyEnd)
  <2>1. ~(HandleShutdown \/ HandleAdd \/ AdmitEnd \/ ApplyEnd)
    BY <1>2 DEF HandleShutdown, HandleAdd, NextCommand, AdmitEnd, ApplyEnd
  <2>2. ~(HandleAbort \/ Admit \/ Schedule \/ ApplyError \/ ApplyItem)
    <3>1. exc' = "none"
      BY DEF CoreInv
    <3> QED
      BY <1>2, <3>1 DEF HandleAbort, Admit, Schedule, ApplyError, ApplyItem
  <2> QED
    BY <2>1, <2>2
<1>13. CASE DrainEnd
  BY <1>2, <1>6, <1>13 DEF DrainEnd, schedVars, workerVars
<1> QED
  BY <1>5, <1>8, <1>9, <1>10, <1>11, <1>12, <1>13 DEF Next, CoreStep

\* A dispatched batch has at most as many items as requests may run, and as the
\* pool has blocks: each has a block of its own.
LEMMA BatchLength ==
    ASSUME CoreInv, LimitsInv, Dispatched
    PROVE  Len(batch) <= NatMin(MaxNumSeqs, NumBlocks)
<1>1. batch \in Seq(Items) /\ Len(batch) \in Nat /\ DOMAIN batch = 1 .. Len(batch)
  BY DEF CoreInv, BatchInv
<1> DEFINE n == Len(batch)
           ids == [i \in 1 .. n |-> batch[i].id]
           first == [i \in 1 .. n |-> batch[i].table[1]]
<1>2. \A i \in 1 .. n : /\ batch[i].id \in Range(running) /\ batch[i].id \in Ids
                        /\ batch[i].id \in DOMAIN tables
                        /\ batch[i].table = tables[batch[i].id]
                        /\ batch[i].table \in Seq(Blocks) /\ 1 \in DOMAIN batch[i].table
  <2> SUFFICES ASSUME NEW i \in DOMAIN batch
               PROVE  /\ batch[i].id \in Range(running) /\ batch[i].id \in Ids
                      /\ batch[i].id \in DOMAIN tables
                      /\ batch[i].table = tables[batch[i].id]
                      /\ batch[i].table \in Seq(Blocks) /\ 1 \in DOMAIN batch[i].table
    BY <1>1
  <2>1. PICK item \in Items : item = batch[i]
    BY <1>1
  <2>2. /\ ItemOK(item) /\ item.id \in Range(running) /\ item.id \in DOMAIN tables
        /\ item.table = tables[item.id] /\ item.start \in Nat /\ item.seqLen \in Nat
        /\ item.seqLen <= Room(item.table)
    BY <2>1, BatchSlots
  <2>3. item.id \in Ids /\ item.table \in Seq(Blocks)
    BY <2>1 DEF Items
  <2>4. item.seqLen > 0
    <3>1. NumAllTokens(item.id) \in Int
      BY <2>3, SchedulerConfig DEF CoreInv, TypeOK, NumAllTokens
    <3> QED
      BY <2>2, <3>1 DEF ItemOK
  <2>5. Len(item.table) # 0
    BY <2>2, <2>4, Geometry DEF Room
  <2>6. 1 \in DOMAIN item.table
    BY <2>3, <2>5
  <2> QED
    BY <2>1, <2>2, <2>3, <2>6
<1>3. n <= MaxNumSeqs
  <2>1. ids \in Seq(Ids) /\ DOMAIN ids = 1 .. n /\ Len(ids) = n
    BY <1>1, <1>2
  <2>2. \A i, j \in 1 .. n : batch[i].id = batch[j].id => i = j
    BY <1>1 DEF CoreInv, BatchInv
  <2>3. Distinct(ids)
    BY <2>1, <2>2 DEF Distinct
  <2>4. Range(ids) \subseteq Range(running)
    <3> SUFFICES ASSUME NEW x \in Range(ids) PROVE x \in Range(running)
      OBVIOUS
    <3>1. PICK i \in 1 .. n : x = batch[i].id
      BY <2>1 DEF Range
    <3> QED
      BY <1>2, <3>1
  <2> HIDE DEF ids
  <2>5. Len(ids) <= Len(running)
    BY <2>1, <2>3, <2>4, DistinctShorter DEF CoreInv, TypeOK, ListsInv
  <2>6. Len(running) <= MaxNumSeqs /\ Len(running) \in Nat
    BY DEF LimitsInv, CoreInv, TypeOK
  <2> QED
    BY <1>1, <2>1, <2>5, <2>6, SchedulerConfig
<1>4. n <= NumBlocks
  <2>1. first \in Seq(Blocks) /\ DOMAIN first = 1 .. n /\ Len(first) = n
    <3>1. \A i \in 1 .. n : batch[i].table[1] \in Blocks
      BY <1>2, ElementOfSeq
    <3> QED
      BY <1>1, <3>1
  <2>2. ASSUME NEW i \in 1 .. n, NEW j \in 1 .. n, first[i] = first[j] PROVE i = j
    <3>1. tables[batch[i].id][1] = tables[batch[j].id][1]
      BY <1>2, <2>2
    <3>2. 1 \in DOMAIN tables[batch[i].id] /\ 1 \in DOMAIN tables[batch[j].id]
      BY <1>2
    <3>3. batch[i].id = batch[j].id
      BY <1>2, <3>1, <3>2 DEF CoreInv, BlocksConserved, TablesDisjoint
    <3> QED
      BY <1>1, <3>3 DEF CoreInv, BatchInv
  <2>3. Distinct(first)
    BY <2>1, <2>2 DEF Distinct
  <2> HIDE DEF first
  <2> QED
    BY <2>1, <2>3, DistinctBlocks
<1> QED
  BY <1>3, <1>4 DEF NatMin

\* No two items of a dispatched batch write the same slot.
LEMMA BatchSlotsApart ==
    ASSUME CoreInv, Dispatched, NEW i \in DOMAIN batch, NEW j \in DOMAIN batch, i # j
    PROVE  Range(batch[i].slots) \cap Range(batch[j].slots) = {}
<1> SUFFICES ASSUME NEW s \in Range(batch[i].slots), s \in Range(batch[j].slots) PROVE FALSE
  OBVIOUS
<1>1. \A k \in DOMAIN batch : batch[k].slots \in Seq(Slots)
  <2>1. \A k \in DOMAIN batch : batch[k] \in Items
    BY DEF CoreInv, BatchInv
  <2>2. \A e \in Items : e.slots \in Seq(Slots)
    BY DEF Items
  <2> QED
    BY <2>1, <2>2
<1>2. PICK a \in 1 .. Len(batch[i].slots) : s = batch[i].slots[a]
  BY <1>1 DEF Range
<1>3. PICK b \in 1 .. Len(batch[j].slots) : s = batch[j].slots[b]
  BY <1>1 DEF Range
<1>4. PICK x \in DOMAIN tables, y \in DOMAIN tables : x = batch[i].id /\ y = batch[j].id
  BY BatchSlots
<1>5. PICK p \in 0 .. (Room(tables[x]) - 1) : s = Slot(tables[x], p)
  BY <1>2, <1>4, BatchSlots
<1>6. PICK q \in 0 .. (Room(tables[y]) - 1) : s = Slot(tables[y], q)
  BY <1>3, <1>4, BatchSlots
<1>7. SlotsDisjoint
  BY ConservedSlotsDisjoint DEF CoreInv, TypeOK, CacheInv
<1>8. x = y
  BY <1>5, <1>6, <1>7 DEF SlotsDisjoint
<1> QED
  BY <1>4, <1>8 DEF CoreInv, BatchInv

\* Every item of a dispatched batch passes the checks of from_worker_batch.
LEMMA BatchItemValid ==
    ASSUME CoreInv, Dispatched, NEW i \in DOMAIN batch
    PROVE  ValidItem(batch[i])
<1>1. PICK item \in Items : item = batch[i]
  BY DEF CoreInv, BatchInv
<1>2. /\ ItemOK(item) /\ item.id \in Range(running)
      /\ Len(item.slots) = item.seqLen - item.start
      /\ item.start \in Nat /\ item.seqLen \in Nat
      /\ item.seqLen <= Room(item.table)
  BY <1>1, BatchSlots
<1>3. item.id \in Ids /\ item.table \in Seq(Blocks) /\ item.slots \in Seq(Slots)
  BY <1>1 DEF Items
<1>4. item.seqLen > item.start
  <2>1. NumAllTokens(item.id) \in Int
    BY <1>3, SchedulerConfig DEF CoreInv, TypeOK, NumAllTokens
  <2> QED
    BY <1>2, <2>1 DEF ItemOK
<1>5. item.slots # <<>> /\ item.seqLen = item.start + Len(item.slots)
  <2>1. Len(item.slots) > 0 /\ item.seqLen = item.start + Len(item.slots)
    BY <1>2, <1>4
  <2> QED
    BY <2>1
<1>6. Len(item.table) >= CeilDiv(item.seqLen, BlockSize)
  <2>1. Len(item.table) \in Nat
    BY <1>3
  <2> QED
    BY <1>2, <2>1, CeilDivRoom DEF Room
<1> QED
  BY <1>1, <1>2, <1>5, <1>6 DEF ValidItem

\* Every batch the Worker takes passes the checks of from_worker_batch and fits
\* the runtime's buffers, for any configuration: max_num_seqs requests at most
\* (checked by _admit_waiting), max_num_batched_tokens tokens at most (the budget
\* of schedule), no table wider than max_model_len allows, no slot written twice.
THEOREM EngineBatchesFit == Spec => []BatchesFitTheWorker
<1>1. Init => LimitsInv /\ NonemptyInv
  <2> SUFFICES ASSUME Init PROVE LimitsInv /\ NonemptyInv
    OBVIOUS
  <2>1. running = <<>> /\ batch = <<>> /\ pc = "drain" /\ workq = <<>>
    BY DEF Init, SchedulerInit, WorkerInit
  <2>2. Range(running) = {} /\ Len(running) = 0
    BY <2>1 DEF Range
  <2> QED
    BY <2>1, <2>2, NoItemTokens, SchedulerConfig DEF LimitsInv, NonemptyInv, Dispatched
<1>2. CoreInv /\ LimitsInv /\ NonemptyInv => BatchesFitTheWorker
  <2> SUFFICES ASSUME CoreInv, LimitsInv, NonemptyInv, NEW k \in DOMAIN workq, ~workq[k].shutdown
               PROVE  /\ ValidBatch(workq[k].items)
                      /\ Len(workq[k].items) <= NatMin(MaxNumSeqs, NumBlocks)
                      /\ SumFunction([i \in DOMAIN workq[k].items |->
                                         Len(workq[k].items[i].slots)]) <= MaxNumBatchedTokens
                      /\ \A i \in DOMAIN workq[k].items :
                            Len(workq[k].items[i].table) <= CeilDiv(MaxModelLen, BlockSize)
                      /\ \A i, j \in DOMAIN workq[k].items : i # j =>
                            Range(workq[k].items[i].slots)
                               \cap Range(workq[k].items[j].slots) = {}
    BY DEF BatchesFitTheWorker
  <2>1. workq[k].items = batch /\ Dispatched
    BY DEF CoreInv, ChannelInv, ShutdownCommand, BatchCommand, Dispatched
  <2>2. ValidBatch(batch)
    BY <2>1, BatchItemValid DEF ValidBatch, NonemptyInv
  <2>3. Len(batch) <= NatMin(MaxNumSeqs, NumBlocks)
    BY <2>1, BatchLength
  <2>4. SumFunction([i \in DOMAIN batch |-> Len(batch[i].slots)]) <= MaxNumBatchedTokens
    BY DEF LimitsInv, TokensIn
  <2>5. \A i \in DOMAIN batch : Len(batch[i].table) <= CeilDiv(MaxModelLen, BlockSize)
    BY <2>1, BatchSlots DEF LimitsInv
  <2>6. \A i, j \in DOMAIN batch : i # j => Range(batch[i].slots) \cap Range(batch[j].slots) = {}
    BY <2>1, BatchSlotsApart
  <2> QED
    BY <2>1, <2>2, <2>3, <2>4, <2>5, <2>6
<1> QED
  BY <1>1, <1>2, LimitsInvNext, NonemptyInvNext, CoreInvariant, PTL DEF Spec

-----------------------------------------------------------------------------
(* Lengths. *)

\* A step that puts nothing and counts nothing.
LEMMA LengthQuiet ==
    ASSUME LengthInv, log' = log,
           \A x \in Ids : Known(x)' => /\ Known(x) /\ req'[x].sub = req[x].sub
                                       /\ req'[x].out = req[x].out
    PROVE  LengthInv'
<1>1. \A r \in Ids : \A n \in Submissions : WithinLimits(r, log'[r][n])
  BY DEF LengthInv
<1>2. ASSUME NEW r \in Ids PROVE Counted(r)'
  <2>1. Counted(r)
    BY DEF LengthInv
  <2>2. \A n : Answered(r, n)' <=> Answered(r, n)
    BY DEF Answered
  <2> QED
    BY <2>1, <2>2 DEF Counted, TokensPut
<1>3. \A r \in Ids : \A n \in Submissions : WithinLimits(r, log[r][n])'
  BY <1>1 DEF WithinLimits, TokensPut
<1> QED
  BY <1>2, <1>3 DEF LengthInv

\* A request the core serves has been put as many tokens as it counts.
LEMMA ServedCounted ==
    ASSUME CoreInv, OutputInv, LengthInv, Serving, NEW r \in Ids, Known(r)
    PROVE  /\ req[r].sub \in Submissions /\ log[r][req[r].sub] \in Seq(Outputs)
           /\ TokensPut(log[r][req[r].sub]) = req[r].out
           /\ req[r].out < MaxTokens[r] /\ req[r].out \in Nat
           /\ NumAllTokens(r) < ContextLimit
           /\ MaxTokens[r] \in Nat /\ PromptLen[r] \in Nat /\ ContextLimit \in Nat
           /\ WithinLimits(r, log[r][req[r].sub])
<1>1. PICK s \in Submissions : s = req[r].sub
  BY SubmissionFacts
<1>2. s \in 1 .. adds[r] /\ Live(r, s)
  <2>1. s <= adds[r] /\ Live(r, s)
    BY <1>1 DEF Live, OutputInv, QueueInv
  <2>2. s \in Nat /\ adds[r] \in Nat /\ s >= 1
    BY SubmissionFacts, ClientBounds DEF Submissions
  <2> QED
    BY <2>1, <2>2
<1>3. ~Answered(r, s)
  BY <1>2 DEF OutputInv, PlaceInv
<1>4. TokensPut(log[r][s]) = req[r].out /\ req[r].out < MaxTokens[r]
  BY <1>1, <1>3 DEF LengthInv, Counted
<1>5. NumAllTokens(r) < ContextLimit
  BY DEF Known, IsRunning, IsWaiting, CoreInv, RequestsInv, RequestOK
<1>6. req[r].out \in Nat /\ log[r][s] \in Seq(Outputs)
  BY DEF CoreInv, TypeOK
<1>7. MaxTokens[r] \in Nat /\ PromptLen[r] \in Nat /\ ContextLimit \in Nat
  BY Geometry, SchedulerConfig DEF ContextLimit, NatMin
<1>8. WithinLimits(r, log[r][s])
  BY DEF LengthInv
<1> QED
  BY <1>1, <1>4, <1>5, <1>6, <1>7, <1>8

\* One output more, for one submission.
LEMMA LengthPut ==
    ASSUME CoreInv, LengthInv, NEW r \in Ids, NEW s \in Submissions, NEW o \in Outputs,
           Put(r, s, o), WithinLimits(r, Append(log[r][s], o)),
           \A x \in Ids \ {r} : Known(x)' => Known(x) /\ req'[x] = req[x],
           Counted(r)'
    PROVE  LengthInv'
<1>1. /\ log'[r][s] = Append(log[r][s], o)
      /\ \A x \in Ids : \A m \in Submissions : x # r \/ m # s => log'[x][m] = log[x][m]
      /\ \A x \in Ids \ {r} : log'[x] = log[x]
  <2>1. log' = [log EXCEPT ![r][s] = Append(@, o)] /\ log \in [Ids -> [Submissions -> Seq(Outputs)]]
    BY DEF Put, CoreInv, TypeOK
  <2>2. \A x \in Ids \ {r} : log'[x] = log[x]
    BY <2>1
  <2> QED
    BY <2>1, <2>2, PutType
<1>2. \A x \in Ids : \A m \in Submissions : WithinLimits(x, log'[x][m])
  BY <1>1 DEF LengthInv
<1>3. ASSUME NEW x \in Ids \ {r} PROVE Counted(x)'
  <2>1. Counted(x)
    BY DEF LengthInv
  <2>2. \A m : Answered(x, m)' <=> Answered(x, m)
    BY <1>1 DEF Answered
  <2> QED
    BY <1>1, <2>1, <2>2 DEF Counted, TokensPut
<1>4. \A x \in Ids : \A m \in Submissions : WithinLimits(x, log[x][m])'
  BY <1>2 DEF WithinLimits, TokensPut
<1> QED
  BY <1>3, <1>4 DEF LengthInv

\* The last element of a list that was just extended.
LEMMA AppendLast ==
    ASSUME NEW q \in Seq(Outputs), NEW o \in Outputs
    PROVE  Append(q, o) # <<>> /\ Last(Append(q, o)) = o
BY DEF Last

\* A final output without a token keeps the limits.
LEMMA ZeroOutput ==
    ASSUME NEW r \in Ids, NEW q \in Seq(Outputs), WithinLimits(r, q),
           NEW why \in {"ABORT", "ERROR", "STOP"}
    PROVE  WithinLimits(r, Append(q, Output(0, why)))
<1>1. PICK o \in Outputs : o = Output(0, why) /\ o.tokens = 0 /\ o.reason = why
  <2>1. why \in Reasons
    BY DEF Reasons
  <2>2. Output(0, why) \in Outputs
    BY <2>1 DEF Output, Outputs
  <2> QED
    BY <2>2 DEF Output
<1>2. Final(o) /\ o.reason # "LENGTH"
  BY <1>1 DEF Final
<1>3. /\ TokensPut(q) \in Nat /\ TokensPut(Append(q, o)) = TokensPut(q)
      /\ q = <<>> => TokensPut(q) = 0
  BY <1>1, OutputTokens
<1>4. Last(Append(q, o)) = o
  BY AppendLast
<1>5. TokensPut(q) <= MaxTokens[r] /\ (TokensPut(q) > 0 => PromptLen[r] + TokensPut(q) <= ContextLimit)
  <2>1. CASE q = <<>>
    BY <1>3, <2>1, SchedulerConfig
  <2>2. CASE q # <<>>
    BY <2>2 DEF WithinLimits
  <2> QED
    BY <2>1, <2>2
<1> QED
  BY <1>1, <1>2, <1>3, <1>4, <1>5 DEF WithinLimits

\* Dropping a request with a final output that keeps its limits.
LEMMA FinishLength ==
    ASSUME CoreInv, LengthInv, NEW r \in Range(running), Finish(r), waiting' = waiting,
           NEW o \in Outputs, Put(r, req[r].sub, o),
           WithinLimits(r, Append(log[r][req[r].sub], o))
    PROVE  LengthInv'
<1>1. r \in Ids /\ Known(r) /\ r \notin Range(waiting)
  BY RangeOfSeq DEF CoreInv, TypeOK, Known, IsRunning, ListsInv
<1>2. /\ Range(running') = Range(running) \ {r}
      /\ \A x \in Ids \ {r} : req'[x] = req[x]
  BY FinishFacts
<1>3. ~Known(r)' /\ \A x \in Ids \ {r} : Known(x)' => Known(x) /\ req'[x] = req[x]
  BY <1>1, <1>2 DEF Known, IsRunning, IsWaiting
<1>4. Counted(r)'
  BY <1>3 DEF Counted
<1>5. req[r].sub \in Submissions
  BY <1>1, SubmissionFacts
<1> QED
  BY <1>1, <1>3, <1>4, <1>5, LengthPut

\* An ADD is refused with an error, or starts to count from zero.
LEMMA HandleAddLength ==
    ASSUME CoreInv, OutputInv, LengthInv, HandleAdd
    PROVE  LengthInv'
<1>1. /\ cmdq # <<>> /\ Head(cmdq).type = "ADD" /\ cmdq \in Seq(Commands)
  BY DEF HandleAdd, NextCommand, CoreInv
<1>2. PICK r \in Ids, n \in Submissions : r = Head(cmdq).id /\ n = Head(cmdq).sub
  BY <1>1, CommandFacts
<1>3. log[r][n] = <<>> /\ ~Live(r, n)
  <2>1. Head(cmdq) = Command("ADD", r, n)
    <3>1. Head(cmdq) \in Commands
      BY <1>1
    <3> QED
      BY <1>1, <1>2, <3>1 DEF Commands, Command
  <2>2. 1 \in DOMAIN cmdq /\ Head(cmdq) = cmdq[1]
    BY <1>1
  <2>3. Queued(r, n)
    BY <1>1, <2>1, <2>2 DEF Queued
  <2> QED
    BY <2>3 DEF OutputInv, QueueInv
<1>4. \/ Put(r, n, Output(0, "ERROR")) /\ UNCHANGED <<waiting, running, req>>
      \/ /\ ~Known(r) /\ log' = log /\ running' = running
         /\ waiting' = Append(waiting, r)
         /\ req' = [req EXCEPT ![r] = [sub |-> n, computed |-> 0, out |-> 0]]
  BY <1>2 DEF HandleAdd, AddRejected, AddRequest, Known, schedVars
<1>5. CASE Put(r, n, Output(0, "ERROR")) /\ UNCHANGED <<waiting, running, req>>
  <2>1. \A x \in Ids : Known(x)' => Known(x) /\ req'[x] = req[x]
    BY <1>5 DEF Known, IsRunning, IsWaiting
  <2>2. Output(0, "ERROR") \in Outputs
    BY DEF Output, Outputs, Reasons
  <2>3. WithinLimits(r, Append(log[r][n], Output(0, "ERROR")))
    BY ZeroOutput, SubmissionFacts DEF LengthInv
  <2>4. Counted(r)'
    <3> SUFFICES ASSUME Known(r)', ~Answered(r, req[r].sub)'
                 PROVE  /\ TokensPut(log'[r][req'[r].sub]) = req'[r].out
                        /\ req'[r].out < MaxTokens[r]
      BY DEF Counted, TokensPut
    <3>1. PICK s \in Submissions : s = req[r].sub /\ s = req'[r].sub /\ s # n
      BY <1>3, <2>1, SubmissionFacts DEF Live
    <3>2. log'[r][s] = log[r][s]
      <4>1. log \in [Ids -> [Submissions -> Seq(Outputs)]]
        BY DEF CoreInv, TypeOK
      <4> QED
        BY <1>5, <2>2, <3>1, <4>1, PutType
    <3>3. ~Answered(r, s)
      <4>1. ~(log'[r][s] # <<>> /\ Final(Last(log'[r][s])))
        BY <3>1 DEF Answered
      <4> QED
        BY <3>2, <4>1 DEF Answered
    <3>4. TokensPut(log[r][s]) = req[r].out /\ req[r].out < MaxTokens[r]
      BY <2>1, <3>1, <3>3 DEF LengthInv, Counted
    <3> QED
      BY <2>1, <3>1, <3>2, <3>4
  <2> QED
    BY <1>5, <2>1, <2>2, <2>3, <2>4, LengthPut
<1>6. CASE /\ ~Known(r) /\ log' = log /\ running' = running
           /\ waiting' = Append(waiting, r)
           /\ req' = [req EXCEPT ![r] = [sub |-> n, computed |-> 0, out |-> 0]]
  <2>1. Range(waiting') = Range(waiting) \cup {r}
    BY <1>6, AppendFacts DEF CoreInv, TypeOK
  <2>2. req'[r].sub = n /\ req'[r].out = 0 /\ \A x \in Ids \ {r} : req'[x] = req[x]
    BY <1>6 DEF CoreInv, TypeOK
  <2>3. \A x \in Ids \ {r} : Known(x)' => Known(x)
    BY <1>6, <2>1 DEF Known, IsRunning, IsWaiting
  <2>4. TokensPut(log[r][n]) = 0
    <3>1. Output(0, "ERROR") \in Outputs
      BY DEF Output, Outputs, Reasons
    <3> QED
      BY <1>3, <3>1, SubmissionFacts, OutputTokens
  <2>5. Counted(r)'
    <3>1. TokensPut(log'[r][req'[r].sub]) = req'[r].out
      BY <1>6, <2>2, <2>4
    <3>2. req'[r].out < MaxTokens[r]
      BY <2>2, SchedulerConfig
    <3> QED
      BY <3>1, <3>2 DEF Counted, TokensPut
  <2>6. ASSUME NEW x \in Ids \ {r} PROVE Counted(x)'
    <3>1. Counted(x)
      BY DEF LengthInv
    <3>2. \A m : Answered(x, m)' <=> Answered(x, m)
      BY <1>6 DEF Answered
    <3> QED
      BY <1>6, <2>2, <2>3, <3>1, <3>2 DEF Counted, TokensPut
  <2>7. \A x \in Ids : \A m \in Submissions : WithinLimits(x, log[x][m])'
    BY <1>6 DEF LengthInv, WithinLimits, TokensPut
  <2> QED
    BY <2>5, <2>6, <2>7 DEF LengthInv
<1> QED
  BY <1>4, <1>5, <1>6

\* An abort answers without a token.
LEMMA HandleAbortLength ==
    ASSUME CoreInv, OutputInv, LengthInv, HandleAbort
    PROVE  LengthInv'
<1>1. /\ cmdq # <<>> /\ Head(cmdq).type = "ABORT" /\ exc' = "none"
  BY HandleAbortInv DEF HandleAbort, NextCommand, CoreInv
<1>2. PICK r \in Ids : r = Head(cmdq).id
  BY <1>1, CommandFacts DEF CoreInv
<1>3. Output(0, "ABORT") \in Outputs
  BY DEF Output, Outputs, Reasons
<1>4. \/ /\ r \in Range(running) /\ Finish(r) /\ waiting' = waiting
         /\ Put(r, req[r].sub, Output(0, "ABORT"))
      \/ /\ r \in Range(waiting) /\ r \notin Range(running) /\ Unqueue(r)
         /\ Put(r, req[r].sub, Output(0, "ABORT"))
      \/ UNCHANGED <<waiting, running, req, log>>
  BY <1>1, <1>2 DEF HandleAbort, Known, IsRunning, IsWaiting
<1>5. Known(r) => /\ req[r].sub \in Submissions
                  /\ WithinLimits(r, Append(log[r][req[r].sub], Output(0, "ABORT")))
  <2> SUFFICES ASSUME Known(r)
               PROVE  /\ req[r].sub \in Submissions
                      /\ WithinLimits(r, Append(log[r][req[r].sub], Output(0, "ABORT")))
    OBVIOUS
  <2>1. PICK s \in Submissions : s = req[r].sub
    BY SubmissionFacts
  <2>2. log[r][s] \in Seq(Outputs) /\ WithinLimits(r, log[r][s])
    BY SubmissionFacts DEF LengthInv
  <2> QED
    BY <2>1, <2>2, ZeroOutput
<1>6. CASE /\ r \in Range(running) /\ Finish(r) /\ waiting' = waiting
           /\ Put(r, req[r].sub, Output(0, "ABORT"))
  <2>1. Known(r)
    BY <1>6 DEF Known, IsRunning
  <2> QED
    BY <1>3, <1>5, <1>6, <2>1, FinishLength
<1>7. CASE /\ r \in Range(waiting) /\ r \notin Range(running) /\ Unqueue(r)
           /\ Put(r, req[r].sub, Output(0, "ABORT"))
  <2>1. Range(waiting') = Range(waiting) \ {r} /\ running' = running
    BY <1>7, RemoveFacts DEF Unqueue, CoreInv, TypeOK, ListsInv
  <2>2. \A x \in Ids \ {r} : req'[x] = req[x]
    BY <1>7 DEF Unqueue, CoreInv, TypeOK
  <2>3. /\ Known(r) /\ ~Known(r)'
        /\ \A x \in Ids \ {r} : Known(x)' => Known(x) /\ req'[x] = req[x]
    BY <1>7, <2>1, <2>2 DEF Known, IsRunning, IsWaiting
  <2>4. Counted(r)'
    BY <2>3 DEF Counted
  <2> QED
    BY <1>3, <1>5, <1>7, <2>3, <2>4, LengthPut
<1>8. CASE UNCHANGED <<waiting, running, req, log>>
  <2>1. \A x \in Ids : Known(x)' => Known(x) /\ req'[x] = req[x]
    BY <1>8 DEF Known, IsRunning, IsWaiting
  <2> QED
    BY <1>8, <2>1, LengthQuiet
<1> QED
  BY <1>4, <1>6, <1>7, <1>8

\* A failed batch answers without a token.
LEMMA ApplyErrorLength ==
    ASSUME CoreInv, OutputInv, LengthInv, ApplyError
    PROVE  LengthInv'
<1>1. PICK r \in Range(running) : r = batch[cursor].id /\ batch[cursor].sub = req[r].sub
  BY ApplyFacts DEF ApplyError
<1>2. /\ Finish(r) /\ waiting' = waiting
      /\ Put(r, req[r].sub, Output(0, "ERROR"))
  BY <1>1 DEF ApplyError
<1>3. Output(0, "ERROR") \in Outputs
  BY DEF Output, Outputs, Reasons
<1>4. r \in Ids /\ Known(r)
  BY RangeOfSeq DEF CoreInv, TypeOK, Known, IsRunning
<1>5. PICK s \in Submissions : s = req[r].sub
  BY <1>4, SubmissionFacts
<1>6. log[r][s] \in Seq(Outputs) /\ WithinLimits(r, log[r][s])
  BY <1>4, SubmissionFacts DEF LengthInv
<1>7. WithinLimits(r, Append(log[r][s], Output(0, "ERROR")))
  BY <1>4, <1>6, ZeroOutput
<1> QED
  BY <1>2, <1>3, <1>5, <1>7, FinishLength

\* The exception answers without a token.
LEMMA ExceptionLength ==
    ASSUME CoreInv, OutputInv, LengthInv, ExceptionExit
    PROVE  LengthInv'
<1> DEFINE o == Output(0, "ERROR")
<1>1. o \in Outputs /\ Final(o)
  BY DEF Output, Outputs, Reasons, Final
<1>2. \A x \in Ids : \A m \in Submissions :
         log'[x][m] = IF Live(x, m) THEN Append(log[x][m], o) ELSE log[x][m]
  BY ExceptionLog
<1>3. \A x \in Ids : \A m \in Submissions : WithinLimits(x, Append(log[x][m], o))
  BY ZeroOutput, SubmissionFacts DEF LengthInv
<1> HIDE DEF o
<1>4. \A x \in Ids : \A m \in Submissions : WithinLimits(x, log[x][m])'
  <2>1. \A x \in Ids : \A m \in Submissions : WithinLimits(x, log'[x][m])
    BY <1>2, <1>3 DEF LengthInv
  <2> QED
    BY <2>1 DEF WithinLimits, TokensPut
<1>5. ASSUME NEW x \in Ids PROVE Counted(x)'
  <2> SUFFICES ASSUME Known(x)' PROVE Answered(x, req[x].sub)'
    BY DEF Counted
  <2>1. Known(x) /\ req' = req
    BY DEF ExceptionExit, schedVars, Known, IsRunning, IsWaiting
  <2>2. PICK s \in Submissions : s = req[x].sub
    BY <2>1, SubmissionFacts
  <2>3. Live(x, s)
    BY <2>1, <2>2 DEF Live
  <2>4. log'[x][s] = Append(log[x][s], o) /\ log[x][s] \in Seq(Outputs)
    BY <1>2, <2>3, SubmissionFacts
  <2>5. log'[x][s] # <<>> /\ Last(log'[x][s]) = o
    BY <1>1, <2>4, AppendLast
  <2> QED
    BY <1>1, <2>1, <2>2, <2>5 DEF Answered
<1> QED
  BY <1>4, <1>5 DEF LengthInv

\* What applying an item does to the tokens of its request: nothing, one more
\* within the limits, or a final output, LENGTH at a limit.
LEMMA ApplyItemTokens ==
    ASSUME CoreInv, ApplyItem
    PROVE  \E r \in Range(running) :
              \/ /\ UNCHANGED <<running, log>>
                 /\ req'[r].sub = req[r].sub /\ req'[r].out = req[r].out
                 /\ \A x \in Ids \ {r} : req'[x] = req[x]
              \/ /\ running' = running
                 /\ req'[r].sub = req[r].sub /\ req'[r].out = req[r].out + 1
                 /\ \A x \in Ids \ {r} : req'[x] = req[x]
                 /\ Put(r, req[r].sub, Output(1, "none"))
                 /\ req[r].out + 1 < MaxTokens[r] /\ NumAllTokens(r) + 1 < ContextLimit
              \/ /\ Finish(r)
                 /\ \/ Put(r, req[r].sub, Output(0, "STOP"))
                    \/ Put(r, req[r].sub, Output(1, "STOP"))
                    \/ /\ Put(r, req[r].sub, Output(1, "LENGTH"))
                       /\ \/ req[r].out + 1 >= MaxTokens[r]
                          \/ NumAllTokens(r) + 1 >= ContextLimit
<1> USE DEF CoreInv
<1>1. pc = "apply" /\ cursor <= Len(batch) /\ ~result.error
  BY DEF ApplyItem
<1>2. PICK item \in Items : item = batch[cursor]
  BY <1>1, ApplyFacts
<1>3. PICK r \in Ids : r = item.id
  BY <1>2 DEF Items
<1>4. /\ r \in Range(running) /\ ItemOK(item)
      /\ Len(item.slots) = item.seqLen - item.start
      /\ item.start \in Nat /\ item.seqLen \in Nat
  BY <1>1, <1>2, <1>3, ApplyFacts DEF Items
<1>5. req[r].computed + Len(item.slots) = item.seqLen
  <2>1. req[r].computed \in Nat /\ item.start = req[r].computed
    BY <1>3, <1>4 DEF ItemOK, TypeOK
  <2> QED
    BY <1>4, <2>1
<1> DEFINE sampled == r \in DOMAIN result.sampled
           tok == result.sampled[r]
           why == FinishReason(r, item.seqLen, tok)
           got == IF tok = "eos" THEN 0 ELSE 1
<1>6. \/ /\ ~sampled
         /\ req' = [req EXCEPT ![r].computed = item.seqLen]
         /\ UNCHANGED <<running, log>>
      \/ /\ sampled /\ why = "none"
         /\ Put(r, req[r].sub, Output(got, why))
         /\ req' = [req EXCEPT ![r].computed = item.seqLen, ![r].out = @ + got]
         /\ running' = running
      \/ /\ sampled /\ why # "none"
         /\ Put(r, req[r].sub, Output(got, why))
         /\ Finish(r)
  BY <1>2, <1>3, <1>4, <1>5 DEF ApplyItem, IsRunning
<1>7. sampled => item.seqLen = NumAllTokens(r)
  BY <1>1, <1>2, <1>3, SampledFacts
<1>8. \/ why = "STOP" /\ got \in {0, 1}
      \/ /\ why = "LENGTH" /\ got = 1
         /\ req[r].out + 1 >= MaxTokens[r] \/ item.seqLen + 1 >= ContextLimit
      \/ /\ why = "none" /\ got = 1
         /\ ~(req[r].out + 1 >= MaxTokens[r]) /\ ~(item.seqLen + 1 >= ContextLimit)
  BY DEF FinishReason, AtMaxTokens, AtContextLimit
<1>9. req \in [Ids -> [sub : 0 .. MaxAdds, computed : Nat, out : Nat]]
  BY DEF TypeOK
<1>10. /\ req[r].out \in Nat /\ MaxTokens[r] \in Nat /\ NumAllTokens(r) \in Nat
       /\ ContextLimit \in Nat
  BY <1>9, Geometry, SchedulerConfig DEF ContextLimit, NatMin, NumAllTokens
<1> HIDE DEF sampled, tok, why, got
<1>11. CASE /\ ~sampled
            /\ req' = [req EXCEPT ![r].computed = item.seqLen]
            /\ UNCHANGED <<running, log>>
  <2>1. /\ req'[r].sub = req[r].sub /\ req'[r].out = req[r].out
        /\ \A x \in Ids \ {r} : req'[x] = req[x]
    BY <1>4, <1>9, <1>11
  <2> QED
    BY <1>4, <1>11, <2>1
<1>12. CASE /\ sampled /\ why = "none"
            /\ Put(r, req[r].sub, Output(got, why))
            /\ req' = [req EXCEPT ![r].computed = item.seqLen, ![r].out = @ + got]
            /\ running' = running
  <2> DEFINE upd == [req EXCEPT ![r].computed = item.seqLen]
  <2>1. /\ upd \in [Ids -> [sub : 0 .. MaxAdds, computed : Nat, out : Nat]]
        /\ upd[r].out = req[r].out
        /\ upd[r].sub = req[r].sub
        /\ \A x \in Ids \ {r} : upd[x] = req[x]
    BY <1>4, <1>9
  <2>2. req' = [upd EXCEPT ![r].out = @ + got]
    BY <1>4, <1>9, <1>12, <2>1
  <2> HIDE DEF upd
  <2>3. /\ req'[r].sub = req[r].sub
        /\ req'[r].out = req[r].out + got
        /\ \A x \in Ids \ {r} : req'[x] = req[x]
    BY <1>4, <2>1, <2>2
  <2>4. /\ got = 1 /\ Put(r, req[r].sub, Output(1, "none"))
        /\ req[r].out + 1 < MaxTokens[r] /\ NumAllTokens(r) + 1 < ContextLimit
    BY <1>7, <1>8, <1>10, <1>12
  <2> QED
    BY <1>4, <1>12, <2>3, <2>4
<1>13. CASE sampled /\ why # "none" /\ Put(r, req[r].sub, Output(got, why)) /\ Finish(r)
  <2>1. \/ Put(r, req[r].sub, Output(0, "STOP"))
        \/ Put(r, req[r].sub, Output(1, "STOP"))
        \/ /\ Put(r, req[r].sub, Output(1, "LENGTH"))
           /\ \/ req[r].out + 1 >= MaxTokens[r]
              \/ NumAllTokens(r) + 1 >= ContextLimit
    <3>1. CASE why = "STOP" /\ got = 0
      BY <1>13, <3>1
    <3>2. CASE why = "STOP" /\ got = 1
      BY <1>13, <3>2
    <3>3. CASE why = "LENGTH"
      BY <1>7, <1>8, <1>13, <3>3
    <3> QED
      BY <1>8, <1>13, <3>1, <3>2, <3>3
  <2> QED
    BY <1>4, <1>13, <2>1
<1> QED
  BY <1>6, <1>11, <1>12, <1>13

\* A sampled token keeps the limits.
LEMMA OneOutput ==
    ASSUME NEW r \in Ids, NEW q \in Seq(Outputs), NEW k \in Nat, TokensPut(q) = k,
           k < MaxTokens[r], PromptLen[r] + k < ContextLimit,
           NEW why \in {"none", "STOP", "LENGTH"},
           why = "none" => k + 1 < MaxTokens[r] /\ PromptLen[r] + k + 1 < ContextLimit,
           why = "LENGTH" => k + 1 >= MaxTokens[r] \/ PromptLen[r] + k + 1 >= ContextLimit
    PROVE  /\ Output(1, why) \in Outputs
           /\ WithinLimits(r, Append(q, Output(1, why)))
           /\ TokensPut(Append(q, Output(1, why))) = k + 1
<1>1. PICK o \in Outputs : o = Output(1, why) /\ o.tokens = 1 /\ o.reason = why
  <2>1. why \in Reasons
    BY DEF Reasons
  <2>2. Output(1, why) \in Outputs
    BY <2>1 DEF Output, Outputs
  <2> QED
    BY <2>2 DEF Output
<1>2. Final(o) <=> why # "none"
  BY <1>1 DEF Final
<1>3. TokensPut(Append(q, o)) = k + 1
  BY <1>1, OutputTokens
<1>4. Last(Append(q, o)) = o
  BY AppendLast
<1>5. MaxTokens[r] \in Nat /\ PromptLen[r] \in Nat /\ ContextLimit \in Nat
  BY Geometry, SchedulerConfig DEF ContextLimit, NatMin
<1>6. /\ k + 1 <= MaxTokens[r] /\ PromptLen[r] + (k + 1) <= ContextLimit
      /\ why = "none" => ~(k + 1 = MaxTokens[r] \/ PromptLen[r] + (k + 1) = ContextLimit)
      /\ why = "LENGTH" => k + 1 = MaxTokens[r] \/ PromptLen[r] + (k + 1) = ContextLimit
  BY <1>5
<1>7. WithinLimits(r, Append(q, o))
  BY <1>1, <1>2, <1>3, <1>4, <1>6 DEF WithinLimits
<1> QED
  BY <1>1, <1>3, <1>7

\* A token counts where it is put.
LEMMA ApplyItemLength ==
    ASSUME CoreInv, OutputInv, LengthInv, ApplyItem
    PROVE  LengthInv'
<1>1. pc = "apply" /\ waiting' = waiting
  BY DEF ApplyItem
<1>2. PICK r \in Range(running) :
         \/ /\ UNCHANGED <<running, log>>
            /\ req'[r].sub = req[r].sub /\ req'[r].out = req[r].out
            /\ \A x \in Ids \ {r} : req'[x] = req[x]
         \/ /\ running' = running
            /\ req'[r].sub = req[r].sub /\ req'[r].out = req[r].out + 1
            /\ \A x \in Ids \ {r} : req'[x] = req[x]
            /\ Put(r, req[r].sub, Output(1, "none"))
            /\ req[r].out + 1 < MaxTokens[r] /\ NumAllTokens(r) + 1 < ContextLimit
         \/ /\ Finish(r)
            /\ \/ Put(r, req[r].sub, Output(0, "STOP"))
               \/ Put(r, req[r].sub, Output(1, "STOP"))
               \/ /\ Put(r, req[r].sub, Output(1, "LENGTH"))
                  /\ \/ req[r].out + 1 >= MaxTokens[r]
                     \/ NumAllTokens(r) + 1 >= ContextLimit
  BY ApplyItemTokens
<1>3. r \in Ids /\ Known(r) /\ Serving
  BY <1>1, RangeOfSeq DEF CoreInv, TypeOK, Known, IsRunning, Serving, InLoop
<1>4. PICK s \in Submissions, k \in Nat : s = req[r].sub /\ k = req[r].out
  BY <1>3, ServedCounted
<1>5. /\ log[r][s] \in Seq(Outputs) /\ TokensPut(log[r][s]) = k /\ k < MaxTokens[r]
      /\ PromptLen[r] + k < ContextLimit /\ WithinLimits(r, log[r][s])
      /\ NumAllTokens(r) = PromptLen[r] + k
  BY <1>3, <1>4, ServedCounted DEF NumAllTokens
<1>6. CASE /\ UNCHANGED <<running, log>>
           /\ req'[r].sub = req[r].sub /\ req'[r].out = req[r].out
           /\ \A x \in Ids \ {r} : req'[x] = req[x]
  <2>1. \A x \in Ids : Known(x)' => /\ Known(x) /\ req'[x].sub = req[x].sub
                                    /\ req'[x].out = req[x].out
    BY <1>1, <1>6 DEF Known, IsRunning, IsWaiting
  <2> QED
    BY <1>6, <2>1, LengthQuiet
<1>7. CASE /\ running' = running
           /\ req'[r].sub = req[r].sub /\ req'[r].out = req[r].out + 1
           /\ \A x \in Ids \ {r} : req'[x] = req[x]
           /\ Put(r, req[r].sub, Output(1, "none"))
           /\ req[r].out + 1 < MaxTokens[r] /\ NumAllTokens(r) + 1 < ContextLimit
  <2>1. /\ Output(1, "none") \in Outputs
        /\ WithinLimits(r, Append(log[r][s], Output(1, "none")))
        /\ TokensPut(Append(log[r][s], Output(1, "none"))) = k + 1
    BY <1>3, <1>4, <1>5, <1>7, OneOutput
  <2>2. \A x \in Ids \ {r} : Known(x)' => Known(x) /\ req'[x] = req[x]
    BY <1>1, <1>7 DEF Known, IsRunning, IsWaiting
  <2>3. log'[r][s] = Append(log[r][s], Output(1, "none"))
    <3>1. log \in [Ids -> [Submissions -> Seq(Outputs)]]
      BY DEF CoreInv, TypeOK
    <3> QED
      BY <1>3, <1>4, <1>7, <2>1, <3>1, PutType
  <2>4. TokensPut(log'[r][req'[r].sub]) = req'[r].out /\ req'[r].out < MaxTokens[r]
    BY <1>4, <1>7, <2>1, <2>3
  <2>5. Counted(r)'
    BY <2>4 DEF Counted, TokensPut
  <2> QED
    BY <1>3, <1>4, <1>7, <2>1, <2>2, <2>5, LengthPut
<1>8. CASE /\ Finish(r)
           /\ \/ Put(r, req[r].sub, Output(0, "STOP"))
              \/ Put(r, req[r].sub, Output(1, "STOP"))
              \/ /\ Put(r, req[r].sub, Output(1, "LENGTH"))
                 /\ \/ req[r].out + 1 >= MaxTokens[r]
                    \/ NumAllTokens(r) + 1 >= ContextLimit
  <2>1. PICK o \in Outputs : Put(r, s, o) /\ WithinLimits(r, Append(log[r][s], o))
    <3>1. CASE Put(r, s, Output(0, "STOP"))
      <4>1. Output(0, "STOP") \in Outputs
        BY DEF Output, Outputs, Reasons
      <4> QED
        BY <1>3, <1>5, <3>1, <4>1, ZeroOutput
    <3>2. CASE Put(r, s, Output(1, "STOP"))
      BY <1>3, <1>5, <3>2, OneOutput
    <3>3. CASE /\ Put(r, s, Output(1, "LENGTH"))
               /\ \/ k + 1 >= MaxTokens[r]
                  \/ NumAllTokens(r) + 1 >= ContextLimit
      BY <1>3, <1>5, <3>3, OneOutput
    <3> QED
      BY <1>4, <1>8, <3>1, <3>2, <3>3
  <2> QED
    BY <1>1, <1>4, <1>8, <2>1, FinishLength
<1> QED
  BY <1>2, <1>6, <1>7, <1>8

\* Every step keeps LengthInv.
LEMMA LengthInvNext == CoreInv /\ OutputInv /\ LengthInv /\ [Next]_vars => LengthInv'
<1> SUFFICES ASSUME CoreInv, OutputInv, LengthInv, [Next]_vars PROVE LengthInv'
  OBVIOUS
<1>1. CASE \/ DrainEnd \/ Admit \/ AdmitEnd \/ Schedule \/ Dispatch \/ ReceiveResult
           \/ ApplyEnd \/ StopWorker \/ JoinWorker \/ TerminateWorker
           \/ WorkerStep \/ TerminateCore \/ UNCHANGED vars
  <2>1. req' = req /\ \A x \in Ids : Known(x)' => Known(x)
    BY <1>1, QuietLists DEF SameRequest
  <2>2. log' = log
    <3>1. CASE DrainEnd \/ Admit \/ AdmitEnd \/ Schedule \/ Dispatch
      BY <3>1 DEF DrainEnd, Admit, AdmitEnd, Schedule, Dispatch
    <3>2. CASE ReceiveResult \/ ApplyEnd \/ StopWorker \/ JoinWorker \/ TerminateWorker
      BY <3>2 DEF ReceiveResult, ApplyEnd, StopWorker, JoinWorker, TerminateWorker
    <3>3. CASE WorkerStep \/ TerminateCore \/ UNCHANGED vars
      BY <3>3 DEF WorkerStep, CoreIdle, TerminateCore, vars, coreVars
    <3> QED
      BY <1>1, <3>1, <3>2, <3>3
  <2> QED
    BY <2>1, <2>2, LengthQuiet
<1>2. CASE HandleShutdown \/ SendShutdown \/ \E r \in Ids : SendAdd(r) \/ SendAbort(r)
  <2>1. UNCHANGED <<waiting, running, req, log>>
    BY <1>2 DEF HandleShutdown, SendShutdown, SendAdd, SendAbort, schedVars, coreVars
  <2>2. \A x \in Ids : Known(x)' => Known(x)
    BY <2>1 DEF Known, IsRunning, IsWaiting
  <2> QED
    BY <2>1, <2>2, LengthQuiet
<1> QED
  BY <1>1, <1>2, HandleAddLength, HandleAbortLength, ApplyErrorLength, ApplyItemLength,
     ExceptionLength DEF Next, CoreStep, ClientStep

\* The tokens of every submission stay within its max_tokens and the context
\* limit, a request at either limit is finished, and LENGTH is reported only
\* there (append_token and what the core does with its answer).
THEOREM EngineKeepsLengthLimits == Spec => []LengthLimits
<1>1. Init => LengthInv
  <2> SUFFICES ASSUME Init PROVE LengthInv
    OBVIOUS
  <2>1. \A r \in Ids : \A n \in Submissions : log[r][n] = <<>>
    BY DEF Init
  <2>2. \A r : ~Known(r)
    <3>1. Range(waiting) = {} /\ Range(running) = {}
      BY DEF Init, SchedulerInit, Range
    <3> QED
      BY <3>1 DEF Known, IsRunning, IsWaiting
  <2> QED
    BY <2>1, <2>2 DEF LengthInv, WithinLimits, Counted
<1>2. LengthInv => LengthLimits
  BY DEF LengthInv, WithinLimits, LengthLimits, TokensPut
<1> QED
  BY <1>1, <1>2, LengthInvNext, CoreInvariant, OutputInvariant, PTL DEF Spec

-----------------------------------------------------------------------------
(* The service the core implements. *)

\* Only a closed engine is told to shut down.
ClosingInv ==
    /\ shutdown => closed
    /\ \A i \in DOMAIN cmdq : cmdq[i].type = "SHUTDOWN" => closed

\* The order to shut down is sent by the client that closes the engine.
LEMMA ClosingInvNext == CoreInv /\ ClosingInv /\ [Next]_vars => ClosingInv'
<1> SUFFICES ASSUME CoreInv, ClosingInv, [Next]_vars PROVE ClosingInv'
  OBVIOUS
<1>1. ASSUME NEW c \in Commands, cmdq' = Append(cmdq, c), shutdown' = shutdown,
             closed => closed', c.type = "SHUTDOWN" => closed'
      PROVE  ClosingInv'
  <2>1. /\ DOMAIN cmdq' = 1 .. (Len(cmdq) + 1) /\ cmdq'[Len(cmdq) + 1] = c
        /\ \A i \in 1 .. Len(cmdq) : cmdq'[i] = cmdq[i]
        /\ Len(cmdq) \in Nat /\ DOMAIN cmdq = 1 .. Len(cmdq)
    BY <1>1 DEF CoreInv
  <2>2. ASSUME NEW i \in DOMAIN cmdq', cmdq'[i].type = "SHUTDOWN" PROVE closed'
    <3>1. i \in 1 .. Len(cmdq) \/ i = Len(cmdq) + 1
      BY <2>1
    <3> QED
      BY <1>1, <2>1, <2>2, <3>1 DEF ClosingInv
  <2> QED
    BY <1>1, <2>2 DEF ClosingInv
<1>2. ASSUME cmdq # <<>>, cmdq' = Tail(cmdq), closed' = closed,
             shutdown' = shutdown \/ Head(cmdq).type = "SHUTDOWN"
      PROVE  ClosingInv'
  <2>1. /\ 1 \in DOMAIN cmdq /\ Head(cmdq) = cmdq[1]
        /\ \A i \in DOMAIN cmdq' : i + 1 \in DOMAIN cmdq /\ cmdq'[i] = cmdq[i + 1]
    BY <1>2 DEF CoreInv
  <2> QED
    BY <1>2, <2>1 DEF ClosingInv
<1>3. ASSUME cmdq' = cmdq, shutdown' = shutdown, closed' = closed PROVE ClosingInv'
  BY <1>3 DEF ClosingInv
<1>4. CASE HandleShutdown
  BY <1>2, <1>4 DEF HandleShutdown, NextCommand, clientVars
<1>5. CASE HandleAdd \/ HandleAbort
  <2>1. /\ cmdq # <<>> /\ cmdq' = Tail(cmdq) /\ closed' = closed /\ shutdown' = shutdown
        /\ Head(cmdq).type \in {"ADD", "ABORT"} /\ shutdown \in BOOLEAN
    BY <1>5 DEF HandleAdd, HandleAbort, NextCommand, clientVars, CoreInv, TypeOK
  <2> QED
    BY <1>2, <2>1
<1>6. CASE ClientStep
  <2>1. CASE SendShutdown
    <3>1. [type |-> "SHUTDOWN"] \in Commands
      BY DEF Commands
    <3> QED
      BY <1>1, <2>1, <3>1 DEF SendShutdown, coreVars
  <2>2. ASSUME NEW r \in Ids, SendAdd(r) PROVE ClosingInv'
    <3>0. PICK n \in Submissions : n = adds[r] + 1
      BY <2>2, ClientBounds, SubmissionFacts DEF Submissions, SendAdd
    <3>1. /\ Command("ADD", r, adds[r] + 1) \in Commands
          /\ Command("ADD", r, adds[r] + 1).type = "ADD"
      BY <3>0 DEF Commands, Command
    <3> QED
      BY <1>1, <2>2, <3>1 DEF SendAdd, coreVars
  <2>3. ASSUME NEW r \in Ids, SendAbort(r) PROVE ClosingInv'
    <3>1. /\ Command("ABORT", r, 0) \in Commands /\ Command("ABORT", r, 0).type = "ABORT"
      BY DEF Commands, Command
    <3> QED
      BY <1>1, <2>3, <3>1 DEF SendAbort, coreVars
  <2>4. CASE TerminateCore
    BY <1>3, <2>4 DEF TerminateCore, clientVars
  <2> QED
    BY <1>6, <2>1, <2>2, <2>3, <2>4 DEF ClientStep
<1>7. CASE CoreStep /\ ~(HandleShutdown \/ HandleAdd \/ HandleAbort)
  <2>1. CASE DrainEnd \/ Admit \/ AdmitEnd \/ Schedule \/ Dispatch
    BY <1>3, <2>1 DEF DrainEnd, Admit, AdmitEnd, Schedule, Dispatch, clientVars
  <2>2. CASE ReceiveResult \/ ApplyError \/ ApplyItem \/ ApplyEnd
    BY <1>3, <2>2 DEF ReceiveResult, ApplyError, ApplyItem, ApplyEnd, clientVars
  <2>3. CASE ExceptionExit \/ StopWorker \/ JoinWorker \/ TerminateWorker
    BY <1>3, <2>3 DEF ExceptionExit, StopWorker, JoinWorker, TerminateWorker, clientVars
  <2> QED
    BY <1>7, <2>1, <2>2, <2>3 DEF CoreStep
<1>8. CASE WorkerStep \/ UNCHANGED vars
  BY <1>3, <1>8 DEF WorkerStep, CoreIdle, vars, coreVars, clientVars
<1> QED
  BY <1>4, <1>5, <1>6, <1>7, <1>8 DEF Next, CoreStep

\* In the beginning nobody was told anything.
LEMMA ClosingInvariant == Spec => []ClosingInv
<1>1. Init => ClosingInv
  BY DEF Init, ClosingInv
<1> QED
  BY <1>1, ClosingInvNext, CoreInvariant, PTL DEF Spec

\* The commands are those about one id and the SHUTDOWN, which is about none.
LEMMA OrdersFacts ==
    /\ \A c \in Commands : c.type # "SHUTDOWN" => c.id \in Ids /\ c \in OrdersOf(c.id)
    /\ \A c \in Commands : \A r \in Ids : c \in OrdersOf(r) => c.type # "SHUTDOWN" /\ c.id = r
<1>1. ASSUME NEW c \in Commands, c.type # "SHUTDOWN" PROVE c.id \in Ids /\ c \in OrdersOf(c.id)
  BY <1>1 DEF Commands, Command, OrdersOf
<1>2. ASSUME NEW c \in Commands, NEW r \in Ids, c \in OrdersOf(r)
      PROVE  c.type # "SHUTDOWN" /\ c.id = r
  BY <1>2 DEF Command, OrdersOf
<1> QED
  BY <1>1, <1>2

\* A command that is sent.
LEMMA CmdsAppend ==
    ASSUME cmdq \in Seq(Commands), NEW c \in Commands, cmdq' = Append(cmdq, c)
    PROVE  \A x \in Ids : CmdsOf(x)' = IF c.type # "SHUTDOWN" /\ c.id = x
                                       THEN Append(CmdsOf(x), c) ELSE CmdsOf(x)
<1> SUFFICES ASSUME NEW x \in Ids
             PROVE  CmdsOf(x)' = IF c.type # "SHUTDOWN" /\ c.id = x
                                 THEN Append(CmdsOf(x), c) ELSE CmdsOf(x)
  OBVIOUS
<1>1. c \in OrdersOf(x) <=> c.type # "SHUTDOWN" /\ c.id = x
  BY OrdersFacts
<1>2. Only(Append(cmdq, c), OrdersOf(x)) =
         IF c \in OrdersOf(x) THEN Append(Only(cmdq, OrdersOf(x)), c) ELSE Only(cmdq, OrdersOf(x))
  BY OnlyAppend
<1> QED
  BY <1>1, <1>2 DEF CmdsOf

\* A command that is read.
LEMMA CmdsTail ==
    ASSUME cmdq \in Seq(Commands), cmdq # <<>>, cmdq' = Tail(cmdq)
    PROVE  \A x \in Ids :
              IF Head(cmdq).type # "SHUTDOWN" /\ Head(cmdq).id = x
              THEN CmdsOf(x) # <<>> /\ Head(CmdsOf(x)) = Head(cmdq) /\ CmdsOf(x)' = Tail(CmdsOf(x))
              ELSE CmdsOf(x)' = CmdsOf(x)
<1> SUFFICES ASSUME NEW x \in Ids
             PROVE  IF Head(cmdq).type # "SHUTDOWN" /\ Head(cmdq).id = x
                    THEN CmdsOf(x) # <<>> /\ Head(CmdsOf(x)) = Head(cmdq)
                         /\ CmdsOf(x)' = Tail(CmdsOf(x))
                    ELSE CmdsOf(x)' = CmdsOf(x)
  OBVIOUS
<1>0. Head(cmdq) \in Commands
  OBVIOUS
<1>1. Head(cmdq) \in OrdersOf(x) <=> Head(cmdq).type # "SHUTDOWN" /\ Head(cmdq).id = x
  BY <1>0, OrdersFacts
<1>2. IF Head(cmdq) \in OrdersOf(x)
      THEN /\ Only(cmdq, OrdersOf(x)) # <<>> /\ Head(Only(cmdq, OrdersOf(x))) = Head(cmdq)
           /\ Only(Tail(cmdq), OrdersOf(x)) = Tail(Only(cmdq, OrdersOf(x)))
      ELSE Only(Tail(cmdq), OrdersOf(x)) = Only(cmdq, OrdersOf(x))
  BY OnlyTail
<1> QED
  BY <1>1, <1>2 DEF CmdsOf

\* An output that is put, as the service sees it.
LEMMA FinalsAppend ==
    ASSUME log \in [Ids -> [Submissions -> Seq(Outputs)]],
           NEW r \in Ids, NEW n \in Submissions, NEW o \in Outputs, log'[r][n] = Append(log[r][n], o)
    PROVE  Finals(r, n)' = Append(Finals(r, n), Final(o))
<1>1. PICK q \in Seq(Outputs) : q = log[r][n]
  OBVIOUS
<1> DEFINE f == [i \in DOMAIN q |-> Final(q[i])]
           a == Append(q, o)
           g == [i \in DOMAIN a |-> Final(a[i])]
<1>2. /\ Len(q) \in Nat /\ DOMAIN q = 1 .. Len(q) /\ DOMAIN a = 1 .. (Len(q) + 1)
      /\ a[Len(q) + 1] = o /\ \A i \in 1 .. Len(q) : a[i] = q[i]
  OBVIOUS
<1>3. f \in Seq(BOOLEAN) /\ Len(f) = Len(q)
  <2>1. \A i \in 1 .. Len(q) : Final(q[i]) \in BOOLEAN
    BY DEF Final
  <2> QED
    BY <1>2, <2>1
<1>4. Final(o) \in BOOLEAN
  BY DEF Final
<1> HIDE DEF a
<1>5. g = Append(f, Final(o))
  <2> DEFINE h == Append(f, Final(o))
  <2> HIDE DEF f
  <2>1. h \in Seq(BOOLEAN) /\ DOMAIN h = 1 .. (Len(q) + 1) /\ h[Len(q) + 1] = Final(o)
        /\ \A i \in 1 .. Len(q) : h[i] = f[i]
    BY <1>2, <1>3, <1>4
  <2> HIDE DEF h
  <2>2. ASSUME NEW i \in 1 .. (Len(q) + 1) PROVE g[i] = h[i]
    <3>1. i \in 1 .. Len(q) \/ i = Len(q) + 1
      BY <1>2
    <3>2. g[i] = Final(a[i])
      BY <1>2
    <3>3. CASE i \in 1 .. Len(q)
      BY <1>2, <2>1, <3>2, <3>3 DEF f
    <3>4. CASE i = Len(q) + 1
      BY <1>2, <2>1, <3>2, <3>4
    <3> QED
      BY <3>1, <3>3, <3>4
  <2>3. h = [i \in 1 .. (Len(q) + 1) |-> h[i]]
    BY <2>1
  <2>4. g = [i \in 1 .. (Len(q) + 1) |-> g[i]]
    BY <1>2
  <2> QED
    BY <2>2, <2>3, <2>4 DEF h
<1>6. Finals(r, n) = f /\ Finals(r, n)' = g
  BY <1>1 DEF Finals, a
<1> QED
  BY <1>5, <1>6

\* What the service sees of the engine.
View ==
    <<[r \in Ids |-> CmdsOf(r)], [r \in Ids |-> 1 .. adds[r]], [r \in Ids |-> LiveSub(r)],
      [r \in Ids |-> [n \in Submissions |-> Finals(r, n)]], closed, Status>>

\* A request the core knows is live until the core ends, or dies.
LEMMA ServingLive ==
    ASSUME CoreInv, OutputInv, Serving, NEW r \in Ids
    PROVE  /\ Known(r) => LiveSub(r) = req[r].sub /\ LiveSub(r) \in Submissions /\ LiveSub(r) # 0
           /\ ~Known(r) => LiveSub(r) = 0
<1>1. ASSUME Known(r) PROVE /\ LiveSub(r) = req[r].sub /\ LiveSub(r) \in Submissions
                            /\ LiveSub(r) # 0
  <2>1. PICK s \in Submissions : s = req[r].sub
    BY <1>1, SubmissionFacts
  <2>2. s <= adds[r] /\ Live(r, s)
    BY <1>1, <2>1 DEF Live, OutputInv, QueueInv
  <2>3. s \in 1 .. adds[r] /\ s # 0
    BY <2>2, SubmissionFacts, ClientBounds DEF Submissions
  <2>4. ~Answered(r, s)
    BY <2>2, <2>3 DEF OutputInv, PlaceInv
  <2> QED
    BY <1>1, <2>1, <2>3, <2>4 DEF LiveSub
<1>2. ASSUME ~Known(r) PROVE LiveSub(r) = 0
  BY <1>2 DEF LiveSub
<1> QED
  BY <1>1, <1>2

\* A request that stays as it is, and whose outputs do.
LEMMA SameLive ==
    ASSUME NEW x \in Ids, SameRequest(x),
           Known(x) => log'[x][req[x].sub] = log[x][req[x].sub]
    PROVE  LiveSub(x)' = LiveSub(x)
<1>1. CASE Known(x)
  BY <1>1 DEF SameRequest, LiveSub, Answered
<1>2. CASE ~Known(x)
  BY <1>2 DEF SameRequest, LiveSub
<1> QED
  BY <1>1, <1>2

\* The same outputs.
LEMMA SameFinals ==
    ASSUME NEW x, NEW m, log'[x][m] = log[x][m]
    PROVE  Finals(x, m)' = Finals(x, m)
BY DEF Finals

\* An output as the service emits it.
LEMMA EmitStep ==
    ASSUME CoreInv, NEW r \in Ids, NEW n \in Submissions, NEW o \in Outputs, Put(r, n, o)
    PROVE  /\ Service!Emit(r, n, Final(o))
           /\ \A x \in Ids : \A m \in Submissions : x # r \/ m # n => log'[x][m] = log[x][m]
<1>1. /\ log'[r][n] = Append(log[r][n], o)
      /\ \A x \in Ids : \A m \in Submissions : x # r \/ m # n => log'[x][m] = log[x][m]
  BY SMTT(30), PutType DEF CoreInv, TypeOK
<1>2. Finals(r, n)' = Append(Finals(r, n), Final(o))
  BY <1>1, FinalsAppend DEF CoreInv, TypeOK
<1>3. \A x \in Ids : \A m \in Submissions : x # r \/ m # n => Finals(x, m)' = Finals(x, m)
  BY <1>1, SameFinals
<1> DEFINE before == [x \in Ids |-> [m \in Submissions |-> Finals(x, m)]]
           after == [x \in Ids |-> [m \in Submissions |-> Finals(x, m)']]
<1>4. after = [before EXCEPT ![r][n] = Append(@, Final(o))]
  <2>1. before[r][n] = Finals(r, n)
    OBVIOUS
  <2>2. ASSUME NEW x \in Ids, NEW m \in Submissions
        PROVE  after[x][m] = [before EXCEPT ![r][n] = Append(@, Final(o))][x][m]
    BY <1>2, <1>3, <2>1
  <2> QED
    BY <2>2
<1> QED
  BY <1>1, <1>4 DEF Service!Emit

\* A command about r is read.
LEMMA TakeStep ==
    ASSUME CoreInv, pc = "drain", cmdq # <<>>, cmdq' = Tail(cmdq),
           NEW r \in Ids, Head(cmdq).type # "SHUTDOWN", Head(cmdq).id = r
    PROVE  /\ Service!NextIs(Head(cmdq).type, r)
           /\ Head(CmdsOf(r)) = Head(cmdq)
<1>1. CmdsOf(r) # <<>> /\ Head(CmdsOf(r)) = Head(cmdq) /\ CmdsOf(r)' = Tail(CmdsOf(r))
  BY CmdsTail DEF CoreInv
<1>2. \A x \in Ids \ {r} : CmdsOf(x)' = CmdsOf(x)
  BY CmdsTail DEF CoreInv
<1>3. [x \in Ids |-> CmdsOf(x)]' = [[x \in Ids |-> CmdsOf(x)] EXCEPT ![r] = Tail(@)]
  BY <1>1, <1>2
<1>4. Status = "up"
  BY DEF Status
<1> QED
  BY <1>1, <1>3, <1>4 DEF Service!NextIs

\* What a client sends.
LEMMA SendRefines ==
    ASSUME CoreInv, OutputInv,
           SendShutdown \/ \E r \in Ids : SendAdd(r) \/ SendAbort(r)
    PROVE  Service!ServiceNext
<1>1. log' = log /\ UNCHANGED <<waiting, running, req, pc>>
  BY DEF SendShutdown, SendAdd, SendAbort, schedVars, coreVars
<1>2. \A x \in Ids : LiveSub(x)' = LiveSub(x)
  BY <1>1, SameLists, SameLive
<1>3. /\ [x \in Ids |-> LiveSub(x)]' = [x \in Ids |-> LiveSub(x)]
      /\ [x \in Ids |-> [m \in Submissions |-> Finals(x, m)]]'
            = [x \in Ids |-> [m \in Submissions |-> Finals(x, m)]]
      /\ Status' = Status
  BY <1>1, <1>2, SameFinals DEF Status
<1>4. CASE SendShutdown
  <2>1. /\ cmdq' = Append(cmdq, [type |-> "SHUTDOWN"]) /\ [type |-> "SHUTDOWN"] \in Commands
        /\ [type |-> "SHUTDOWN"].type = "SHUTDOWN" /\ closed' = TRUE /\ adds' = adds
    BY <1>4 DEF SendShutdown, Commands
  <2>2. \A x \in Ids : CmdsOf(x)' = CmdsOf(x)
    BY <2>1, CmdsAppend DEF CoreInv
  <2>3. [x \in Ids |-> CmdsOf(x)]' = [x \in Ids |-> CmdsOf(x)]
    BY <2>2
  <2> QED
    BY <1>3, <2>1, <2>3 DEF Service!ServiceNext, Service!SendShutdown
<1>5. ASSUME NEW r \in Ids, SendAbort(r) PROVE Service!SendAbort(r)
  <2>1. PICK c \in Commands : /\ c = Command("ABORT", r, 0) /\ cmdq' = Append(cmdq, c)
                              /\ c.type # "SHUTDOWN" /\ c.id = r
    BY <1>5 DEF SendAbort, Commands, Command
  <2>2. adds' = adds /\ closed' = closed
    BY <1>5 DEF SendAbort
  <2>3. \A x \in Ids : CmdsOf(x)' = IF x = r THEN Append(CmdsOf(x), c) ELSE CmdsOf(x)
    BY <2>1, CmdsAppend DEF CoreInv
  <2>4. [x \in Ids |-> CmdsOf(x)]' = [[x \in Ids |-> CmdsOf(x)] EXCEPT ![r] = Append(@, c)]
    BY <2>3
  <2>5. c = Service!Command("ABORT", r, 0)
    BY <2>1 DEF Command, Service!Command
  <2> QED
    BY <1>3, <2>2, <2>4, <2>5 DEF Service!SendAbort
<1>6. ASSUME NEW r \in Ids, SendAdd(r)
      PROVE  \E n \in Service!Submissions : Service!SendAdd(r, n)
  <2>0. PICK n \in Submissions : n = adds[r] + 1
    BY <1>6, ClientBounds, SubmissionFacts DEF Submissions, SendAdd
  <2>1. PICK c \in Commands : /\ c = Command("ADD", r, n) /\ cmdq' = Append(cmdq, c)
                              /\ c.type # "SHUTDOWN" /\ c.id = r
    BY <1>6, <2>0 DEF SendAdd, Commands, Command
  <2>2. /\ adds' = [adds EXCEPT ![r] = @ + 1] /\ closed' = closed
        /\ adds \in [Ids -> 0 .. MaxAdds]
    BY <1>6 DEF SendAdd, CoreInv, TypeOK
  <2>3. \A x \in Ids : CmdsOf(x)' = IF x = r THEN Append(CmdsOf(x), c) ELSE CmdsOf(x)
    BY <2>1, CmdsAppend DEF CoreInv
  <2>4. [x \in Ids |-> CmdsOf(x)]' = [[x \in Ids |-> CmdsOf(x)] EXCEPT ![r] = Append(@, c)]
    BY <2>3
  <2>5. c = Service!Command("ADD", r, n)
    BY <2>1 DEF Command, Service!Command
  <2>6. adds[r] \in Nat /\ 1 .. n = (1 .. adds[r]) \cup {n} /\ n \notin 1 .. adds[r]
    BY <2>0, SubmissionFacts
  <2>7. [x \in Ids |-> 1 .. adds[x]]' = [[x \in Ids |-> 1 .. adds[x]] EXCEPT ![r] = @ \cup {n}]
    BY <2>0, <2>2, <2>6
  <2>8. Service!SendAdd(r, n)
    BY <1>3, <2>2, <2>4, <2>5, <2>6, <2>7 DEF Service!SendAdd
  <2> QED
    BY <2>8 DEF Service!Submissions, Submissions
<1> QED
  BY <1>4, <1>5, <1>6 DEF Service!ServiceNext

\* The service sees nothing, or sees the engine stop.
LEMMA QuietRefines ==
    ASSUME CoreInv, OutputInv, ClosingInv,
           \/ DrainEnd \/ Admit \/ AdmitEnd \/ Schedule \/ Dispatch \/ ReceiveResult
           \/ ApplyEnd \/ StopWorker \/ JoinWorker \/ TerminateWorker
           \/ WorkerStep \/ TerminateCore \/ UNCHANGED vars
    PROVE  Service!Stop \/ View' = View
<1>1. log' = log /\ adds' = adds /\ cmdq' = cmdq /\ closed' = closed
  <2>1. CASE DrainEnd \/ Admit \/ AdmitEnd \/ Schedule \/ Dispatch
    BY <2>1 DEF DrainEnd, Admit, AdmitEnd, Schedule, Dispatch, clientVars
  <2>2. CASE ReceiveResult \/ ApplyEnd \/ StopWorker \/ JoinWorker \/ TerminateWorker
    BY <2>2 DEF ReceiveResult, ApplyEnd, StopWorker, JoinWorker, TerminateWorker, clientVars
  <2>3. CASE WorkerStep \/ TerminateCore \/ UNCHANGED vars
    BY <2>3 DEF WorkerStep, CoreIdle, TerminateCore, vars, coreVars, clientVars
  <2> QED
    BY <2>1, <2>2, <2>3
<1>2. \A x \in Ids : LiveSub(x)' = LiveSub(x)
  BY <1>1, QuietLists, SameLive
<1>3. /\ [x \in Ids |-> LiveSub(x)]' = [x \in Ids |-> LiveSub(x)]
      /\ [x \in Ids |-> [m \in Submissions |-> Finals(x, m)]]'
            = [x \in Ids |-> [m \in Submissions |-> Finals(x, m)]]
      /\ [x \in Ids |-> CmdsOf(x)]' = [x \in Ids |-> CmdsOf(x)]
      /\ [x \in Ids |-> 1 .. adds[x]]' = [x \in Ids |-> 1 .. adds[x]]
  BY <1>1, <1>2, SameFinals DEF CmdsOf
<1>4. Status' = Status \/ (Status = "up" /\ Status' = "down" /\ closed)
  <2>1. CASE DrainEnd
    BY <2>1 DEF DrainEnd, Status, ClosingInv
  <2>2. CASE Admit \/ AdmitEnd \/ Schedule \/ Dispatch
    BY <2>2 DEF Admit, AdmitEnd, Schedule, Dispatch, Status
  <2>3. CASE ReceiveResult \/ ApplyEnd \/ StopWorker \/ JoinWorker \/ TerminateWorker
    BY <2>3 DEF ReceiveResult, NextAfterResult, ApplyEnd, StopWorker, JoinWorker,
                TerminateWorker, Status
  <2>4. CASE TerminateCore
    BY <2>4 DEF TerminateCore, Status
  <2>5. CASE WorkerStep \/ UNCHANGED vars
    BY <2>5 DEF WorkerStep, CoreIdle, vars, coreVars, Status
  <2> QED
    BY <2>1, <2>2, <2>3, <2>4, <2>5
<1> QED
  BY <1>1, <1>3, <1>4 DEF View, Service!Stop

\* A SHUTDOWN on the queue is not a command about a request.
LEMMA ShutdownRefines ==
    ASSUME CoreInv, OutputInv, HandleShutdown
    PROVE  View' = View
<1>1. /\ cmdq # <<>> /\ cmdq' = Tail(cmdq) /\ Head(cmdq).type = "SHUTDOWN"
      /\ log' = log /\ adds' = adds /\ closed' = closed /\ UNCHANGED <<waiting, running, req, pc>>
  BY DEF HandleShutdown, NextCommand, schedVars, clientVars
<1>2. \A x \in Ids : CmdsOf(x)' = CmdsOf(x)
  BY <1>1, CmdsTail DEF CoreInv
<1>3. \A x \in Ids : LiveSub(x)' = LiveSub(x)
  BY <1>1, SameLists, SameLive
<1>4. \A x \in Ids : \A m \in Submissions : Finals(x, m)' = Finals(x, m)
  BY <1>1, SameFinals
<1>5. Status' = Status
  BY <1>1 DEF Status
<1> QED
  BY <1>1, <1>2, <1>3, <1>4, <1>5 DEF View

\* An ADD is rejected with a final output, or accepted for an id that is not live.
LEMMA AddRefines ==
    ASSUME CoreInv, OutputInv, HandleAdd
    PROVE  \E r \in Ids : Service!Accept(r) \/ Service!Reject(r)
<1>1. /\ cmdq # <<>> /\ cmdq' = Tail(cmdq) /\ pc = "drain" /\ pc' = "drain"
      /\ Head(cmdq).type = "ADD" /\ adds' = adds /\ closed' = closed
  BY DEF HandleAdd, NextCommand, clientVars
<1>2. PICK r \in Ids, n \in Submissions : r = Head(cmdq).id /\ n = Head(cmdq).sub
  BY <1>1, CommandFacts DEF CoreInv
<1>3. Service!NextIs("ADD", r) /\ Head(CmdsOf(r)).sub = n
  BY <1>1, <1>2, TakeStep
<1>4. Queued(r, n)
  <2>1. 1 \in DOMAIN cmdq /\ Head(cmdq) = cmdq[1] /\ Head(cmdq) \in Commands
    BY <1>1 DEF CoreInv
  <2>2. Head(cmdq) = Command("ADD", r, n)
    BY <1>1, <1>2, <2>1 DEF Commands, Command
  <2> QED
    BY <1>1, <2>1, <2>2 DEF Queued
<1>5. log[r][n] = <<>> /\ ~Live(r, n)
  BY <1>4 DEF OutputInv, QueueInv
<1>6. \/ Put(r, n, Output(0, "ERROR")) /\ UNCHANGED <<waiting, running, req>>
      \/ /\ ~Known(r) /\ log' = log /\ running' = running
         /\ waiting' = Append(waiting, r)
         /\ req' = [req EXCEPT ![r] = [sub |-> n, computed |-> 0, out |-> 0]]
  BY <1>2 DEF HandleAdd, AddRejected, AddRequest, Known, schedVars
<1>7. Status' = Status /\ Serving
  BY <1>1 DEF Status, Serving, InLoop
<1>8. CASE Put(r, n, Output(0, "ERROR")) /\ UNCHANGED <<waiting, running, req>>
  <2>1. Output(0, "ERROR") \in Outputs /\ Final(Output(0, "ERROR")) = TRUE
    BY DEF Output, Outputs, Reasons, Final
  <2>2. /\ Service!Emit(r, n, TRUE)
        /\ \A x \in Ids : \A m \in Submissions : x # r \/ m # n => log'[x][m] = log[x][m]
    BY <1>8, <2>1, EmitStep
  <2>3. \A x \in Ids : LiveSub(x)' = LiveSub(x)
    <3> SUFFICES ASSUME NEW x \in Ids PROVE LiveSub(x)' = LiveSub(x)
      OBVIOUS
    <3>1. SameRequest(x)
      BY <1>8, SameLists
    <3>2. Known(x) => log'[x][req[x].sub] = log[x][req[x].sub]
      BY <1>5, <2>2, SubmissionFacts DEF Live
    <3> QED
      BY <3>1, <3>2, SameLive
  <2>4. [x \in Ids |-> LiveSub(x)]' = [x \in Ids |-> LiveSub(x)]
    BY <2>3
  <2>5. [x \in Ids |-> CmdsOf(x)][r] = CmdsOf(r)
    OBVIOUS
  <2>6. Service!Reject(r)
    BY <1>1, <1>3, <1>7, <2>2, <2>4, <2>5 DEF Service!Reject
  <2> QED
    BY <2>6
<1>9. CASE /\ ~Known(r) /\ log' = log /\ running' = running
           /\ waiting' = Append(waiting, r)
           /\ req' = [req EXCEPT ![r] = [sub |-> n, computed |-> 0, out |-> 0]]
  <2>1. Range(waiting') = Range(waiting) \cup {r}
    BY <1>9, AppendFacts DEF CoreInv, TypeOK
  <2>2. req'[r].sub = n /\ \A x \in Ids \ {r} : req'[x] = req[x]
    BY <1>9 DEF CoreInv, TypeOK
  <2>3. Known(r)' /\ \A x \in Ids \ {r} : SameRequest(x)
    BY <1>9, <2>1, <2>2 DEF Known, IsRunning, IsWaiting, SameRequest
  <2>4. LiveSub(r) = 0 /\ LiveSub(r)' = n
    <3>1. ~Answered(r, n)'
      BY <1>5, <1>9 DEF Answered
    <3> QED
      BY <1>9, <2>2, <2>3, <3>1 DEF LiveSub
  <2>5. \A x \in Ids \ {r} : LiveSub(x)' = LiveSub(x)
    BY <1>9, <2>3, SameLive
  <2>6. /\ [x \in Ids |-> LiveSub(x)]' = [[x \in Ids |-> LiveSub(x)] EXCEPT ![r] = n]
        /\ [x \in Ids |-> LiveSub(x)][r] = 0
    BY <2>4, <2>5
  <2>7. [x \in Ids |-> [m \in Submissions |-> Finals(x, m)]]'
            = [x \in Ids |-> [m \in Submissions |-> Finals(x, m)]]
    BY <1>9, SameFinals
  <2>8. [x \in Ids |-> CmdsOf(x)][r] = CmdsOf(r)
    OBVIOUS
  <2>9. Service!Accept(r)
    BY <1>1, <1>3, <1>7, <2>6, <2>7, <2>8 DEF Service!Accept
  <2> QED
    BY <2>9
<1> QED
  BY <1>6, <1>8, <1>9

\* An output for a request the core knows, which goes on or is answered.
LEMMA OutputRefines ==
    ASSUME CoreInv, OutputInv, Serving, NEW r \in Ids, Known(r),
           NEW o \in Outputs, Put(r, req[r].sub, o),
           \A x \in Ids \ {r} : SameRequest(x),
           Final(o) => ~Known(r)', ~Final(o) => SameRequest(r)
    PROVE  /\ LiveSub(r) # 0 /\ Service!Emit(r, LiveSub(r), Final(o))
           /\ [x \in Ids |-> LiveSub(x)]' = IF Final(o) THEN [[x \in Ids |-> LiveSub(x)] EXCEPT ![r] = 0]
                                            ELSE [x \in Ids |-> LiveSub(x)]
<1>1. PICK s \in Submissions : s = req[r].sub /\ LiveSub(r) = s /\ s # 0
  BY ServingLive
<1>2. /\ Service!Emit(r, s, Final(o))
      /\ \A x \in Ids : \A m \in Submissions : x # r \/ m # s => log'[x][m] = log[x][m]
  BY <1>1, EmitStep
<1>3. ASSUME NEW x \in Ids \ {r} PROVE LiveSub(x)' = LiveSub(x)
  <2>1. Known(x) => log'[x][req[x].sub] = log[x][req[x].sub]
    BY <1>2, SubmissionFacts
  <2> QED
    BY <2>1, SameLive
<1>4. CASE Final(o)
  <2>1. LiveSub(r)' = 0
    BY <1>4 DEF LiveSub
  <2>2. [x \in Ids |-> LiveSub(x)]' = [[x \in Ids |-> LiveSub(x)] EXCEPT ![r] = 0]
    BY <1>3, <2>1
  <2> QED
    BY <1>1, <1>2, <1>4, <2>2
<1>5. CASE ~Final(o)
  <2>1. LiveSub(r)' = s
    <3>1. log'[r][s] = Append(log[r][s], o)
      BY SMTT(30), <1>1, PutType DEF CoreInv, TypeOK
    <3>2. PICK q \in Seq(Outputs) : q = log[r][s]
      BY SubmissionFacts
    <3>3. Last(Append(q, o)) = o
      BY DEF Last
    <3>4. ~Answered(r, s)'
      BY <1>5, <3>1, <3>2, <3>3 DEF Answered
    <3>5. Known(r)' /\ req'[r].sub = s
      BY <1>1, <1>5 DEF SameRequest
    <3> QED
      BY <3>4, <3>5 DEF LiveSub
  <2>2. [x \in Ids |-> LiveSub(x)]' = [x \in Ids |-> LiveSub(x)]
    BY <1>1, <1>3, <2>1
  <2> QED
    BY <1>1, <1>2, <1>5, <2>2
<1> QED
  BY <1>4, <1>5

\* Finishing a running request leaves the others to the scheduler.
LEMMA FinishDrops ==
    ASSUME CoreInv, NEW r \in Range(running), Finish(r), waiting' = waiting
    PROVE  r \in Ids /\ Known(r) /\ ~Known(r)' /\ \A x \in Ids \ {r} : SameRequest(x)
<1>1. r \in Ids /\ Known(r) /\ r \notin Range(waiting)
  BY RangeOfSeq DEF CoreInv, TypeOK, Known, IsRunning, ListsInv
<1>2. /\ Range(running') = Range(running) \ {r}
      /\ \A x \in Ids \ {r} : req'[x] = req[x]
  BY FinishFacts
<1> QED
  BY <1>1, <1>2 DEF SameRequest, Known, IsRunning, IsWaiting

\* An ABORT answers exactly the live submission, if there is one.
LEMMA AbortRefines ==
    ASSUME CoreInv, OutputInv, HandleAbort
    PROVE  \E r \in Ids : Service!Abort(r)
<1>1. /\ cmdq # <<>> /\ cmdq' = Tail(cmdq) /\ pc = "drain" /\ pc' = "drain"
      /\ Head(cmdq).type = "ABORT" /\ adds' = adds /\ exc' = "none" /\ closed' = closed
  BY HandleAbortInv DEF HandleAbort, NextCommand, clientVars, CoreInv
<1>2. PICK r \in Ids : r = Head(cmdq).id
  BY <1>1, CommandFacts DEF CoreInv
<1>3. Service!NextIs("ABORT", r)
  BY <1>1, <1>2, TakeStep
<1>4. Status' = Status /\ Serving
  BY <1>1 DEF Status, Serving, InLoop
<1>5. Output(0, "ABORT") \in Outputs /\ Final(Output(0, "ABORT")) = TRUE
  BY DEF Output, Outputs, Reasons, Final
<1>6. \/ /\ r \in Range(running) /\ Finish(r) /\ waiting' = waiting
         /\ Put(r, req[r].sub, Output(0, "ABORT"))
      \/ /\ r \in Range(waiting) /\ r \notin Range(running) /\ Unqueue(r)
         /\ Put(r, req[r].sub, Output(0, "ABORT"))
      \/ ~Known(r) /\ UNCHANGED <<waiting, running, req, log>>
  BY <1>1, <1>2 DEF HandleAbort, Known, IsRunning, IsWaiting
<1>7. CASE ~Known(r) /\ UNCHANGED <<waiting, running, req, log>>
  <2>1. \A x \in Ids : LiveSub(x)' = LiveSub(x)
    BY <1>7, SameLists, SameLive
  <2>2. /\ [x \in Ids |-> LiveSub(x)]' = [x \in Ids |-> LiveSub(x)]
        /\ [x \in Ids |-> LiveSub(x)][r] = 0
        /\ [x \in Ids |-> [m \in Submissions |-> Finals(x, m)]]'
              = [x \in Ids |-> [m \in Submissions |-> Finals(x, m)]]
    BY <1>4, <1>7, <2>1, SameFinals, ServingLive
  <2>3. Service!Abort(r)
    BY <1>1, <1>3, <1>4, <2>2 DEF Service!Abort
  <2> QED
    BY <2>3
<1>8. CASE /\ Known(r) /\ ~Known(r)' /\ \A x \in Ids \ {r} : SameRequest(x)
           /\ Put(r, req[r].sub, Output(0, "ABORT"))
  <2>1. /\ LiveSub(r) # 0 /\ Service!Emit(r, LiveSub(r), TRUE)
        /\ [x \in Ids |-> LiveSub(x)]' = [[x \in Ids |-> LiveSub(x)] EXCEPT ![r] = 0]
    BY <1>4, <1>5, <1>8, OutputRefines
  <2>2. [x \in Ids |-> LiveSub(x)][r] = LiveSub(r)
    OBVIOUS
  <2>3. Service!Abort(r)
    BY <1>1, <1>3, <1>4, <2>1, <2>2 DEF Service!Abort
  <2> QED
    BY <2>3
<1>9. CASE /\ r \in Range(running) /\ Finish(r) /\ waiting' = waiting
           /\ Put(r, req[r].sub, Output(0, "ABORT"))
  BY <1>8, <1>9, FinishDrops
<1>10. CASE /\ r \in Range(waiting) /\ r \notin Range(running) /\ Unqueue(r)
            /\ Put(r, req[r].sub, Output(0, "ABORT"))
  <2>1. Range(waiting') = Range(waiting) \ {r} /\ running' = running
    BY <1>10, RemoveFacts DEF Unqueue, CoreInv, TypeOK, ListsInv
  <2>2. \A x \in Ids \ {r} : req'[x] = req[x]
    BY <1>10 DEF Unqueue, CoreInv, TypeOK
  <2>3. Known(r) /\ ~Known(r)' /\ \A x \in Ids \ {r} : SameRequest(x)
    BY <1>10, <2>1, <2>2 DEF SameRequest, Known, IsRunning, IsWaiting
  <2> QED
    BY <1>8, <1>10, <2>3
<1> QED
  BY <1>6, <1>7, <1>9, <1>10

\* A result: a live request goes on, is answered, or nothing is to be seen yet.
LEMMA ResultRefines ==
    ASSUME CoreInv, OutputInv, ApplyError \/ ApplyItem
    PROVE  (\E r \in Ids : Service!Progress(r) \/ Service!Answer(r)) \/ View' = View
<1>1. /\ pc = "apply" /\ pc' = "apply" /\ waiting' = waiting /\ adds' = adds /\ cmdq' = cmdq
      /\ closed' = closed
  BY ApplyItemInv, ApplyErrorInv DEF ApplyItem, ApplyError, clientVars
<1>2. Status' = Status /\ Status = "up" /\ Serving
  BY <1>1 DEF Status, Serving, InLoop
<1>3. /\ [x \in Ids |-> CmdsOf(x)]' = [x \in Ids |-> CmdsOf(x)]
      /\ [x \in Ids |-> 1 .. adds[x]]' = [x \in Ids |-> 1 .. adds[x]]
  BY <1>1 DEF CmdsOf
<1>4. ASSUME NEW r \in Range(running), Finish(r), NEW o \in Outputs, Final(o),
             Put(r, req[r].sub, o)
      PROVE  r \in Ids /\ Service!Answer(r)
  <2>1. r \in Ids /\ Known(r) /\ ~Known(r)' /\ \A x \in Ids \ {r} : SameRequest(x)
    BY <1>1, <1>4, FinishDrops
  <2>2. Final(o) = TRUE
    BY <1>4 DEF Final
  <2>3. /\ LiveSub(r) # 0 /\ Service!Emit(r, LiveSub(r), TRUE)
        /\ [x \in Ids |-> LiveSub(x)]' = [[x \in Ids |-> LiveSub(x)] EXCEPT ![r] = 0]
    BY <1>2, <1>4, <2>1, <2>2, OutputRefines
  <2>4. [x \in Ids |-> LiveSub(x)][r] = LiveSub(r)
    BY <2>1
  <2> QED
    BY <1>1, <1>2, <1>3, <2>1, <2>3, <2>4 DEF Service!Answer
<1>5. CASE ApplyError
  <2>1. PICK r \in Range(running) : r = batch[cursor].id /\ batch[cursor].sub = req[r].sub
    BY <1>1, <1>5, ApplyFacts DEF ApplyError
  <2>2. Finish(r) /\ Put(r, req[r].sub, Output(0, "ERROR"))
    BY <1>5, <2>1 DEF ApplyError
  <2>3. Output(0, "ERROR") \in Outputs /\ Final(Output(0, "ERROR"))
    BY DEF Output, Outputs, Reasons, Final
  <2> QED
    BY <1>4, <2>2, <2>3
<1>6. CASE ApplyItem
  <2>1. PICK r \in Range(running) :
           \/ /\ UNCHANGED <<cacheVars, running>>
              /\ req'[r].sub = req[r].sub
              /\ \A x \in Ids \ {r} : req'[x] = req[x]
              /\ log' = log \/ Put(r, req[r].sub, Output(1, "none"))
           \/ /\ Finish(r)
              /\ \E o \in Outputs : Final(o) /\ Put(r, req[r].sub, o)
    BY <1>6, ApplyItemEffect
  <2>2. r \in Ids /\ Known(r)
    BY RangeOfSeq DEF CoreInv, TypeOK, Known, IsRunning
  <2>3. CASE /\ UNCHANGED <<cacheVars, running>>
             /\ req'[r].sub = req[r].sub
             /\ \A x \in Ids \ {r} : req'[x] = req[x]
             /\ log' = log \/ Put(r, req[r].sub, Output(1, "none"))
    <3>1. \A x \in Ids : SameRequest(x)
      BY <1>1, <2>3 DEF SameRequest, Known, IsRunning, IsWaiting
    <3>2. Output(1, "none") \in Outputs /\ Final(Output(1, "none")) = FALSE
      BY DEF Output, Outputs, Reasons, Final
    <3>3. CASE log' = log
      <4>1. \A x \in Ids : LiveSub(x)' = LiveSub(x)
        BY <3>1, <3>3, SameLive
      <4>2. \A x \in Ids : \A m \in Submissions : Finals(x, m)' = Finals(x, m)
        BY <3>3, SameFinals
      <4> QED
        BY <1>1, <1>2, <1>3, <4>1, <4>2 DEF View
    <3>4. CASE Put(r, req[r].sub, Output(1, "none"))
      <4>1. /\ LiveSub(r) # 0 /\ Service!Emit(r, LiveSub(r), FALSE)
            /\ [x \in Ids |-> LiveSub(x)]' = [x \in Ids |-> LiveSub(x)]
        BY <1>2, <2>2, <3>1, <3>2, <3>4, OutputRefines
      <4>2. [x \in Ids |-> LiveSub(x)][r] = LiveSub(r)
        BY <2>2
      <4>3. Service!Progress(r)
        BY <1>1, <1>2, <1>3, <4>1, <4>2 DEF Service!Progress
      <4> QED
        BY <2>2, <4>3
    <3> QED
      BY <2>3, <3>3, <3>4
  <2>4. CASE /\ Finish(r)
             /\ \E o \in Outputs : Final(o) /\ Put(r, req[r].sub, o)
    BY <1>4, <2>4
  <2> QED
    BY <2>1, <2>3, <2>4
<1> QED
  BY <1>5, <1>6

\* A core that fails answers all that is live.
LEMMA FailRefines ==
    ASSUME CoreInv, OutputInv, ExceptionExit
    PROVE  Service!Fail
<1>1. /\ pc = "except" /\ pc' = "finally" /\ adds' = adds /\ cmdq' = cmdq /\ closed' = closed
      /\ UNCHANGED <<waiting, running, req>>
  BY DEF ExceptionExit, schedVars, clientVars
<1>2. Serving /\ Status = "up" /\ Status' = "down"
  BY <1>1 DEF Serving, Status
<1>3. /\ [x \in Ids |-> CmdsOf(x)]' = [x \in Ids |-> CmdsOf(x)]
      /\ [x \in Ids |-> 1 .. adds[x]]' = [x \in Ids |-> 1 .. adds[x]]
  BY <1>1 DEF CmdsOf
<1>4. Output(0, "ERROR") \in Outputs /\ Final(Output(0, "ERROR")) = TRUE
  BY DEF Output, Outputs, Reasons, Final
<1>5. ASSUME NEW x \in Ids, NEW m \in Submissions PROVE Live(x, m) <=> m = LiveSub(x)
  <2>1. m # 0
    BY ClientBounds DEF Submissions
  <2> QED
    BY <1>2, <2>1, ServingLive DEF Live
<1>6. ASSUME NEW x \in Ids, NEW m \in Submissions
      PROVE  Finals(x, m)' = IF m = LiveSub(x) THEN Append(Finals(x, m), TRUE) ELSE Finals(x, m)
  <2>1. log'[x][m] = IF Live(x, m) THEN Append(log[x][m], Output(0, "ERROR")) ELSE log[x][m]
    BY ExceptionLog
  <2>2. CASE Live(x, m)
    <3>1. Finals(x, m)' = Append(Finals(x, m), Final(Output(0, "ERROR")))
      BY <1>4, <2>1, <2>2, FinalsAppend DEF CoreInv, TypeOK
    <3> QED
      BY <1>4, <1>5, <2>2, <3>1
  <2>3. CASE ~Live(x, m)
    BY <1>5, <2>1, <2>3, SameFinals
  <2> QED
    BY <2>2, <2>3
<1>7. ASSUME NEW x \in Ids PROVE LiveSub(x)' = 0
  <2>1. CASE Known(x)
    <3>1. PICK s \in Submissions : s = req[x].sub
      BY <2>1, SubmissionFacts
    <3>2. log'[x][s] = Append(log[x][s], Output(0, "ERROR"))
      BY <2>1, <3>1, ExceptionLog DEF Live
    <3>3. PICK q \in Seq(Outputs) : q = log[x][s]
      BY SubmissionFacts
    <3>4. PICK o \in Outputs : o = Output(0, "ERROR")
      BY <1>4
    <3>5. Append(q, o) # <<>> /\ Last(Append(q, o)) = o
      BY DEF Last
    <3>6. Answered(x, s)'
      BY <1>4, <3>2, <3>3, <3>4, <3>5 DEF Answered
    <3>7. req'[x].sub = s
      BY <1>1, <3>1
    <3> QED
      BY <3>6, <3>7 DEF LiveSub
  <2>2. CASE ~Known(x)
    <3>1. ~Known(x)'
      BY <1>1, <2>2 DEF Known, IsRunning, IsWaiting
    <3> QED
      BY <3>1 DEF LiveSub
  <2> QED
    BY <2>1, <2>2
<1> DEFINE outs == [x \in Ids |-> [m \in Submissions |-> Finals(x, m)]]
           live == [x \in Ids |-> LiveSub(x)]
<1>8. outs' = [x \in Ids |-> [m \in Service!Submissions |->
                  IF m = live[x] THEN Append(outs[x][m], TRUE) ELSE outs[x][m]]]
  <2>1. Service!Submissions = Submissions
    BY DEF Service!Submissions, Submissions
  <2>2. ASSUME NEW x \in Ids, NEW m \in Submissions
        PROVE  Finals(x, m)' = IF m = live[x] THEN Append(outs[x][m], TRUE) ELSE outs[x][m]
    BY <1>6
  <2>3. outs' = [x \in Ids |-> [m \in Submissions |-> Finals(x, m)']]
    OBVIOUS
  <2> HIDE DEF outs, live
  <2> QED
    BY <2>1, <2>2, <2>3
<1>9. live' = [x \in Ids |-> 0]
  BY <1>7
<1> QED
  BY <1>1, <1>2, <1>3, <1>8, <1>9 DEF Service!Fail

\* The engine implements RequestService (ImplementsRequestService): whatever the
\* scheduler, the cache, the Worker and the two queues do, a client sees commands
\* about its id handled in their order, a submission accepted or rejected once, its
\* outputs up to one final output, and an end of the core that it asked for or that
\* answers every live request.
THEOREM EngineImplementsService == Spec => ImplementsRequestService
<1>1. Init => Service!ServiceInit
  <2> SUFFICES ASSUME Init PROVE Service!ServiceInit
    OBVIOUS
  <2>1. /\ cmdq = <<>> /\ pc = "drain" /\ adds = [r \in Ids |-> 0] /\ closed = FALSE
        /\ log = [r \in Ids |-> [n \in Submissions |-> <<>>]]
        /\ waiting = <<>> /\ running = <<>>
    BY DEF Init, SchedulerInit
  <2>2. ASSUME NEW r \in Ids PROVE LiveSub(r) = 0
    <3>1. Range(waiting) = {} /\ Range(running) = {}
      BY <2>1 DEF Range
    <3> QED
      BY <3>1 DEF LiveSub, Known, IsRunning, IsWaiting
  <2>3. ASSUME NEW r \in Ids PROVE CmdsOf(r) = <<>>
    BY <2>1, OnlyEmpty DEF CmdsOf
  <2>4. ASSUME NEW r \in Ids, NEW n \in Submissions PROVE Finals(r, n) = <<>>
    BY <2>1 DEF Finals
  <2>5. ASSUME NEW r \in Ids PROVE 1 .. adds[r] = {}
    <3>1. adds[r] = 0
      BY <2>1
    <3> QED
      BY <3>1
  <2>6. Status = "up"
    BY <2>1 DEF Status
  <2>7. Service!Submissions = Submissions
    BY DEF Service!Submissions, Submissions
  <2> QED
    BY <2>1, <2>2, <2>3, <2>4, <2>5, <2>6, <2>7 DEF Service!ServiceInit
<1>2. ASSUME CoreInv, OutputInv, ClosingInv, [Next]_vars
      PROVE  Service!ServiceNext \/ View' = View
  <2>1. CASE ClientStep
    BY <1>2, <2>1, SendRefines, QuietRefines DEF ClientStep, Service!ServiceNext
  <2>2. CASE WorkerStep \/ UNCHANGED vars
    BY <1>2, <2>2, QuietRefines DEF Service!ServiceNext
  <2>3. CASE HandleShutdown \/ HandleAdd \/ HandleAbort
    BY <1>2, <2>3, ShutdownRefines, AddRefines, AbortRefines DEF Service!ServiceNext
  <2>4. CASE ApplyError \/ ApplyItem \/ ExceptionExit
    BY <1>2, <2>4, ResultRefines, FailRefines DEF Service!ServiceNext
  <2>5. CASE \/ DrainEnd \/ Admit \/ AdmitEnd \/ Schedule \/ Dispatch \/ ReceiveResult
             \/ ApplyEnd \/ StopWorker \/ JoinWorker \/ TerminateWorker
    BY <1>2, <2>5, QuietRefines DEF Service!ServiceNext
  <2> QED
    BY <1>2, <2>1, <2>2, <2>3, <2>4, <2>5 DEF Next, CoreStep
<1>3. CoreInv /\ OutputInv /\ ClosingInv /\ [Next]_vars
         => [Service!ServiceNext]_(Service!serviceVars)
  BY <1>2 DEF View, Service!serviceVars
<1> QED
  BY <1>1, <1>3, CoreInvariant, OutputInvariant, ClosingInvariant, PTL
     DEF Spec, ImplementsRequestService, Service!ServiceSpec
=============================================================================
