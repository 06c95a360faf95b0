----------------------------- MODULE Client_proofs -----------------------------
(***************************************************************************)
(* The client's bookkeeping, proved for any number of ids, calls, outputs, *)
(* ranks and batches: streams are released, each batch counts once, every  *)
(* reader gets the outputs of its own submission and no request runs on    *)
(* without a reader.                                                       *)
(*                                                                         *)
(* The last two hold when an id that is used again is never given up       *)
(* before its final output (Quitters and Reused are disjoint), as the      *)
(* HTTP server, whose ids are all new, guarantees.                         *)
(***************************************************************************)
EXTENDS Client, FiniteSetTheorems, TLAPS

States == Active \cup {"idle", "checked", "registered", "done", "raised", "leaked"}

\* A call in one of these states has its stream registered.
Holding == Active \cup {"registered", "leaked"}

Orders == [type : {"ADD"}, id : Ids, sub : Submissions] \cup [type : {"ABORT"}, id : Ids, sub : {0}]

Keys == Ranks \X (1 .. MaxBatches)

Batches == Keys \cup {NoBatch}

Outputs == [metrics : {FALSE}, id : Ids, sub : Submissions, batch : Batches, final : BOOLEAN]

Reports == [metrics : {TRUE}, batch : Keys]

Items == [sub : Submissions, final : BOOLEAN]

PerCall(S) == [Ids -> [Submissions -> S]]

Types ==
    /\ cmds \in [Ids -> Seq(Orders)] /\ sent \in [Ids -> SUBSET Submissions]
    /\ live \in [Ids -> 0 .. MaxAdds] /\ outs \in PerCall(Seq(BOOLEAN))
    /\ closed \in BOOLEAN /\ closed = (close # "open") /\ close \in {"open", "joining", "closed"}
    /\ caller \in PerCall(States) /\ streams \in [Ids -> 0 .. MaxAdds]
    /\ stream \in PerCall(Seq(Items)) /\ taken \in PerCall(Nat)
    /\ outq \in Seq(Outputs \cup Reports) /\ batches \in [Ranks -> 0 .. MaxBatches]
    /\ IsFiniteSet({r \in Ids : live[r] # 0})

-----------------------------------------------------------------------------
(* Streams and batches *)

\* Exactly the calls under way, and those that raised on the way, hold their stream.
HoldInv ==
    \A r \in Ids, n \in Submissions :
        /\ caller[r][n] \in Holding <=> streams[r] = n
        /\ taken[r][n] <= Len(stream[r][n])

\* A report is on the queue once and in front of the outputs of its batch; the
\* batches seen are those whose report was read.
BatchInv ==
    /\ seen \subseteq Executed /\ total \in Nat
    /\ IsFiniteSet(seen) /\ total = Cardinality(seen)
    /\ \A i \in DOMAIN outq : outq[i].batch \in Executed \cup {NoBatch}
    /\ \A i \in DOMAIN outq : outq[i].metrics => outq[i].batch \in Executed \ seen
    /\ \A b \in Executed : b \in seen \/ \E i \in DOMAIN outq : outq[i].metrics /\ outq[i].batch = b
    /\ \A i, j \in DOMAIN outq : outq[i].metrics /\ outq[j].batch = outq[i].batch => i <= j

-----------------------------------------------------------------------------
(* Submissions *)

IsAdd(c, n) == c.type = "ADD" /\ c.sub = n

Queued(r, n) == \E i \in DOMAIN cmds[r] : IsAdd(cmds[r][i], n)

\* The engine still has to answer submission n of r.
Open(r, n) == Queued(r, n) \/ live[r] = n

\* The engine's side of a submission: its ADD is sent once, and a final output is
\* the last thing the engine says of it.
Served(r, n) ==
    /\ \A i, j \in DOMAIN cmds[r] : IsAdd(cmds[r][i], n) /\ IsAdd(cmds[r][j], n) => i = j
    /\ Queued(r, n) => live[r] # n
    /\ Open(r, n) => n \in sent[r] /\ \A i \in DOMAIN outs[r][n] : ~outs[r][n][i]
    /\ n \notin sent[r] => outs[r][n] = <<>>
    /\ \A i \in DOMAIN outs[r][n] : outs[r][n][i] => i = Len(outs[r][n])

\* The reader has taken the final output.
Final(r, n) == taken[r][n] # 0 /\ stream[r][n][taken[r][n]].final

\* An ABORT is on its way to where the submission is.
Covered(r, n) ==
    /\ \A i \in DOMAIN cmds[r] : IsAdd(cmds[r][i], n) =>
          \E j \in DOMAIN cmds[r] : j > i /\ cmds[r][j].type = "ABORT"
    /\ live[r] = n => \E j \in DOMAIN cmds[r] : cmds[r][j].type = "ABORT"

\* The caller's side of it, if the caller is at at.
CalledAt(at, r, n) ==
    /\ at # "idle" => n = 1 \/ r \in Reused
    /\ n \in sent[r] => at \in Active \cup {"leaked", "done"}
    /\ at = "leaked" => closed \/ n \notin sent[r]
    /\ at = "aborting" => r \in Quitters
    /\ at = "finished" => Final(r, n)
    /\ at \in {"dropping", "done"} =>
          Final(r, n) \/ (r \in Quitters /\ (closed \/ Covered(r, n)))

Called(r, n) == CalledAt(caller[r][n], r, n)

Of(e, r, n) == ~e.metrics /\ e.id = r /\ e.sub = n

\* f enumerates the outputs of submission n of r on the queue q, and they are what
\* comes in log behind the first k entries.
InFlight(f, q, log, k, r, n) ==
    /\ f \in [1 .. (Len(log) - k) -> DOMAIN q]
    /\ \A a, b \in DOMAIN f : a < b => f[a] < f[b]
    /\ \A i \in DOMAIN q : Of(q[i], r, n) => \E a \in DOMAIN f : f[a] = i
    /\ \A a \in DOMAIN f : Of(q[f[a]], r, n) /\ q[f[a]].final = log[k + a]

Flow(q, log, k, r, n) == \E f \in [1 .. (Len(log) - k) -> DOMAIN q] : InFlight(f, q, log, k, r, n)

\* The router's side: the stream has the first outputs of its submission, and the
\* queue the rest of them.  A consumer that quit leaves outputs on the queue that
\* nobody will get.
Routed(r, n) ==
    /\ Len(stream[r][n]) <= Len(outs[r][n])
    /\ \A i \in DOMAIN stream[r][n] : stream[r][n][i].sub = n /\ stream[r][n][i].final = outs[r][n][i]
    /\ \A i \in DOMAIN outq : Of(outq[i], r, n) => n \in sent[r]
    /\ caller[r][n] # "done" \/ r \notin Quitters =>
          Flow(outq, outs[r][n], Len(stream[r][n]), r, n)

CallInv ==
    \A r \in Ids, n \in Submissions : Served(r, n) /\ Called(r, n) /\ Routed(r, n)

-----------------------------------------------------------------------------
(* Functions and sequences *)

\* The number of submissions.
LEMMA Numbers ==
    MaxAdds \in Nat /\ Submissions = 1 .. MaxAdds /\ Submissions \subseteq (0 .. MaxAdds) \ {0}
BY ClientConfig DEF Submissions

\* f with x for call m of s.
With(f, s, m, x) == [f EXCEPT ![s][m] = x]

\* Setting what belongs to one call.
LEMMA Put ==
    ASSUME NEW S, NEW f \in PerCall(S), NEW s \in Ids, NEW m \in Submissions, NEW x \in S,
           NEW g, g = With(f, s, m, x)
    PROVE  /\ g \in PerCall(S) /\ g[s][m] = x
           /\ \A r \in Ids, n \in Submissions : r # s \/ n # m => g[r][n] = f[r][n]
<1> DEFINE row == [f[s] EXCEPT ![m] = x]
<1>1. g = [f EXCEPT ![s] = row]
  BY DEF PerCall, With
<1>2. row \in [Submissions -> S] /\ row[m] = x /\ \A n \in Submissions : n # m => row[n] = f[s][n]
  BY DEF PerCall
<1> HIDE DEF row
<1>3. QED
  BY <1>1, <1>2 DEF PerCall

\* The positions of a queue with one more element.
LEMMA AppendPositions ==
    ASSUME NEW S, NEW q \in Seq(S), NEW e \in S
    PROVE  /\ Append(q, e) \in Seq(S) /\ Len(q) \in Nat /\ Len(Append(q, e)) = Len(q) + 1
           /\ DOMAIN q = 1 .. Len(q)
           /\ DOMAIN Append(q, e) = DOMAIN q \cup {Len(q) + 1} /\ Len(q) + 1 \notin DOMAIN q
           /\ \A i \in DOMAIN q : Append(q, e)[i] = q[i] /\ i \in Nat \ {0} /\ i < Len(q) + 1
           /\ Append(q, e)[Len(q) + 1] = e
<1>1. /\ Append(q, e) \in Seq(S) /\ Len(q) \in Nat /\ Len(Append(q, e)) = Len(q) + 1
      /\ DOMAIN Append(q, e) = 1 .. Len(q) + 1 /\ DOMAIN q = 1 .. Len(q)
      /\ \A i \in 1 .. Len(q) : Append(q, e)[i] = q[i]
      /\ Append(q, e)[Len(q) + 1] = e
  OBVIOUS
<1>2. QED
  BY <1>1

\* Those of the rest of a queue.
LEMMA TailPositions ==
    ASSUME NEW S, NEW q \in Seq(S), q # <<>>
    PROVE  /\ Tail(q) \in Seq(S) /\ Head(q) \in S /\ 1 \in DOMAIN q /\ q[1] = Head(q)
           /\ \A i \in DOMAIN Tail(q) : /\ i \in Nat \ {0} /\ i + 1 \in DOMAIN q
                                        /\ Tail(q)[i] = q[i + 1]
           /\ \A i \in DOMAIN q : /\ i \in Nat \ {0}
                                  /\ i # 1 => i - 1 \in DOMAIN Tail(q) /\ q[i] = Tail(q)[i - 1]
<1>1. /\ Len(q) \in Nat \ {0} /\ Len(Tail(q)) = Len(q) - 1 /\ Tail(q) \in Seq(S)
      /\ DOMAIN q = 1 .. Len(q) /\ DOMAIN Tail(q) = 1 .. Len(q) - 1
      /\ \A i \in 1 .. Len(q) - 1 : Tail(q)[i] = q[i + 1]
  OBVIOUS
<1>2. Head(q) \in S /\ Head(q) = q[1]
  OBVIOUS
<1>3. QED
  BY <1>1, <1>2

\* u is q with t behind it.
Joined(q, t, u) ==
    /\ Len(q) \in Nat
    /\ \A i \in DOMAIN q : i \in Nat \ {0} /\ i <= Len(q) /\ i \in DOMAIN u /\ u[i] = q[i]
    /\ \A i \in DOMAIN t : i \in Nat \ {0} /\ Len(q) + i \in DOMAIN u /\ u[Len(q) + i] = t[i]
    /\ \A i \in DOMAIN u : /\ i \in Nat \ {0}
                           /\ i \in DOMAIN q \/ (i > Len(q) /\ i - Len(q) \in DOMAIN t)

\* So it is with two queues.
LEMMA ConcatPositions ==
    ASSUME NEW S, NEW q \in Seq(S), NEW t \in Seq(S)
    PROVE  q \o t \in Seq(S) /\ Joined(q, t, q \o t)
<1>1. /\ q \o t \in Seq(S) /\ Len(q) \in Nat /\ Len(t) \in Nat
      /\ DOMAIN (q \o t) = 1 .. Len(q) + Len(t)
      /\ DOMAIN q = 1 .. Len(q) /\ DOMAIN t = 1 .. Len(t)
      /\ \A i \in 1 .. Len(q) : (q \o t)[i] = q[i]
  OBVIOUS
<1>2. \A i \in 1 .. Len(t) : (q \o t)[Len(q) + i] = t[i]
  OBVIOUS
<1>3. QED
  BY <1>1, <1>2 DEF Joined

-----------------------------------------------------------------------------
(* Outputs in flight *)

Events == Outputs \cup Reports

\* Outputs of others join the queue.
LEMMA FlowOthers ==
    ASSUME NEW q \in Seq(Events), NEW t \in Seq(Events), NEW log \in Seq(BOOLEAN), NEW k \in Nat,
           NEW r, NEW n, Flow(q, log, k, r, n), \A i \in DOMAIN t : ~Of(t[i], r, n)
    PROVE  Flow(q \o t, log, k, r, n)
<1> DEFINE u == q \o t
           D == 1 .. (Len(log) - k)
<1>1. PICK f \in [D -> DOMAIN q] : InFlight(f, q, log, k, r, n)
  BY DEF Flow
<1>2. /\ \A i \in DOMAIN q : i \in DOMAIN u /\ u[i] = q[i]
      /\ \A i \in DOMAIN u : i \in DOMAIN q \/ (i - Len(q) \in DOMAIN t /\ u[i] = t[i - Len(q)])
  <2>1. /\ \A i \in DOMAIN q : i \in DOMAIN u /\ u[i] = q[i]
        /\ \A i \in DOMAIN t : u[Len(q) + i] = t[i] /\ i \in Nat
        /\ \A i \in DOMAIN u : i \in Nat /\ (i \in DOMAIN q \/ i - Len(q) \in DOMAIN t)
        /\ Len(q) \in Nat
    BY SMTT(30), ConcatPositions DEF Joined
  <2> HIDE DEF u
  <2>2. \A i \in DOMAIN u : i - Len(q) \in DOMAIN t => u[i] = t[i - Len(q)]
    <3> SUFFICES ASSUME NEW i \in DOMAIN u, i - Len(q) \in DOMAIN t
                 PROVE  u[i] = t[i - Len(q)]
      OBVIOUS
    <3>1. Len(q) + (i - Len(q)) = i
      BY <2>1
    <3>2. QED
      BY <2>1, <3>1
  <2>3. QED
    BY <2>1, <2>2
<1> HIDE DEF u, D
<1>3. f \in [D -> DOMAIN u]
  BY <1>1, <1>2
<1>4. InFlight(f, u, log, k, r, n)
  <2>1. \A a, b \in DOMAIN f : a < b => f[a] < f[b]
    BY <1>1 DEF InFlight
  <2>2. \A i \in DOMAIN u : Of(u[i], r, n) => \E a \in DOMAIN f : f[a] = i
    BY <1>1, <1>2 DEF InFlight
  <2>3. \A a \in DOMAIN f : Of(u[f[a]], r, n) /\ u[f[a]].final = log[k + a]
    BY <1>1, <1>2 DEF InFlight
  <2>4. QED
    BY <1>3, <2>1, <2>2, <2>3 DEF InFlight, D
<1>5. QED
  BY <1>3, <1>4 DEF Flow, D, u

\* An output of the submission joins the queue, among others.
LEMMA FlowJoins ==
    ASSUME NEW q \in Seq(Events), NEW t \in Seq(Events), NEW log \in Seq(BOOLEAN), NEW k \in Nat,
           k <= Len(log), NEW r, NEW n, Flow(q, log, k, r, n),
           NEW p \in DOMAIN t, Of(t[p], r, n), t[p].final \in BOOLEAN,
           \A i \in DOMAIN t : Of(t[i], r, n) => i = p
    PROVE  Flow(q \o t, Append(log, t[p].final), k, r, n)
<1>0. Joined(q, t, q \o t)
  BY ConcatPositions
<1> DEFINE u == q \o t
           D == 1 .. (Len(log) - k)
           new == Append(log, t[p].final)
           z == Len(log) - k + 1
           x == Len(q) + p
<1>1. PICK f \in [D -> DOMAIN q] : InFlight(f, q, log, k, r, n)
  BY DEF Flow
<1>2. /\ \A i \in DOMAIN q : i \in Nat /\ i <= Len(q) /\ i \in DOMAIN u /\ u[i] = q[i]
      /\ \A i \in DOMAIN t : i \in Nat \ {0} /\ u[Len(q) + i] = t[i] /\ Len(q) + i \in DOMAIN u
      /\ \A i \in DOMAIN u : i \in Nat /\ (i \in DOMAIN q \/ i - Len(q) \in DOMAIN t)
      /\ Len(q) \in Nat
  BY <1>0 DEF Joined
<1>3. /\ Len(log) \in Nat /\ Len(new) = Len(log) + 1
      /\ \A i \in 1 .. Len(log) : new[i] = log[i]
      /\ new[Len(log) + 1] = t[p].final
  OBVIOUS
<1> HIDE DEF u, new
<1>4. x \in DOMAIN u /\ x > Len(q) /\ x \in Nat /\ u[x] = t[p]
  BY <1>2
<1>5. \A i \in DOMAIN u : i \in DOMAIN q \/ ~Of(u[i], r, n) \/ i = x
  <2> SUFFICES ASSUME NEW i \in DOMAIN u, i \notin DOMAIN q, Of(u[i], r, n)
               PROVE  i = x
    OBVIOUS
  <2>1. i - Len(q) \in DOMAIN t /\ Len(q) + (i - Len(q)) = i
    BY <1>2
  <2>2. i - Len(q) = p
    BY <1>2, <2>1
  <2>3. QED
    BY <1>2, <2>1, <2>2
<1>6. z \in Nat \ {0} /\ 1 .. (Len(new) - k) = D \cup {z} /\ z \notin D /\ k + z = Len(log) + 1
      /\ \A a \in D : a < z /\ a \in Nat \ {0} /\ k + a \in 1 .. Len(log)
  BY <1>3
<1> HIDE DEF D, z, x
<1> DEFINE g == [a \in D \cup {z} |-> IF a = z THEN x ELSE f[a]]
<1>7. g[z] = x /\ \A a \in D : g[a] = f[a] /\ f[a] \in DOMAIN q
  BY <1>6
<1>8. g \in [D \cup {z} -> DOMAIN u] /\ DOMAIN g = D \cup {z} /\ DOMAIN f = D
  BY <1>2, <1>4
<1> HIDE DEF g
<1>9. \A a, b \in DOMAIN g : a < b => g[a] < g[b]
  <2> SUFFICES ASSUME NEW a \in DOMAIN g, NEW b \in DOMAIN g, a < b
               PROVE  g[a] < g[b]
    OBVIOUS
  <2>1. CASE a \in D /\ b \in D
    BY <1>1, <1>7, <1>8, <2>1 DEF InFlight
  <2>2. CASE a \in D /\ b = z
    BY <1>2, <1>4, <1>7, <2>2
  <2>3. CASE a = z
    BY <1>6, <1>8, <2>3
  <2>4. QED
    BY <1>8, <2>1, <2>2, <2>3
<1>10. \A i \in DOMAIN u : Of(u[i], r, n) => \E a \in DOMAIN g : g[a] = i
  <2> SUFFICES ASSUME NEW i \in DOMAIN u, Of(u[i], r, n)
               PROVE  \E a \in DOMAIN g : g[a] = i
    OBVIOUS
  <2>1. CASE i \in DOMAIN q
    <3>1. PICK a \in D : f[a] = i
      BY <1>1, <1>2, <1>8, <2>1 DEF InFlight
    <3>2. QED
      BY <1>7, <1>8, <3>1
  <2>2. CASE i = x
    BY <1>7, <1>8, <2>2
  <2>3. QED
    BY <1>5, <2>1, <2>2
<1>11. \A a \in DOMAIN g : Of(u[g[a]], r, n) /\ u[g[a]].final = new[k + a]
  <2> SUFFICES ASSUME NEW a \in DOMAIN g
               PROVE  Of(u[g[a]], r, n) /\ u[g[a]].final = new[k + a]
    OBVIOUS
  <2>1. CASE a \in D
    <3>1. Of(q[f[a]], r, n) /\ q[f[a]].final = log[k + a]
      BY <1>1, <1>8, <2>1 DEF InFlight
    <3>2. QED
      BY <1>2, <1>3, <1>6, <1>7, <2>1, <3>1
  <2>2. CASE a = z
    BY <1>3, <1>4, <1>6, <1>7, <2>2
  <2>3. QED
    BY <1>8, <2>1, <2>2
<1>12. InFlight(g, u, new, k, r, n) /\ g \in [1 .. (Len(new) - k) -> DOMAIN u]
  BY <1>6, <1>8, <1>9, <1>10, <1>11 DEF InFlight
<1>13. QED
  BY <1>12 DEF Flow, u, new

\* The router reads an output of someone else.
LEMMA FlowPasses ==
    ASSUME NEW q \in Seq(Events), q # <<>>, NEW log \in Seq(BOOLEAN), NEW k \in Nat,
           NEW r, NEW n, Flow(q, log, k, r, n), ~Of(Head(q), r, n)
    PROVE  Flow(Tail(q), log, k, r, n)
<1> DEFINE t == Tail(q)
           D == 1 .. (Len(log) - k)
<1>1. PICK f \in [D -> DOMAIN q] : InFlight(f, q, log, k, r, n)
  BY DEF Flow
<1>2. /\ 1 \in DOMAIN q /\ q[1] = Head(q)
      /\ \A i \in DOMAIN t : i \in Nat \ {0} /\ i + 1 \in DOMAIN q /\ t[i] = q[i + 1]
      /\ \A i \in DOMAIN q : i \in Nat \ {0} /\ (i # 1 => i - 1 \in DOMAIN t /\ q[i] = t[i - 1])
  BY TailPositions
<1> HIDE DEF t, D
<1>3. \A a \in D : f[a] \in DOMAIN q /\ f[a] # 1 /\ f[a] \in Nat
  BY <1>1, <1>2 DEF InFlight
<1> DEFINE g == [a \in D |-> f[a] - 1]
<1>4. g \in [D -> DOMAIN t] /\ DOMAIN g = D /\ DOMAIN f = D /\ \A a \in D : g[a] = f[a] - 1
  BY <1>2, <1>3
<1> HIDE DEF g
<1>5. \A a, b \in DOMAIN g : a < b => g[a] < g[b]
  <2> SUFFICES ASSUME NEW a \in D, NEW b \in D, a < b PROVE g[a] < g[b]
    BY <1>4
  <2>1. f[a] < f[b]
    BY <1>1, <1>4 DEF InFlight
  <2>2. QED
    BY <1>3, <1>4, <2>1
<1>6. \A i \in DOMAIN t : Of(t[i], r, n) => \E a \in DOMAIN g : g[a] = i
  <2> SUFFICES ASSUME NEW i \in DOMAIN t, Of(t[i], r, n) PROVE \E a \in D : g[a] = i
    BY <1>4
  <2>1. i + 1 \in DOMAIN q /\ Of(q[i + 1], r, n)
    BY <1>2
  <2>2. PICK a \in D : f[a] = i + 1
    BY <1>1, <1>4, <2>1 DEF InFlight
  <2>3. QED
    BY <1>2, <1>4, <2>2
<1>7. \A a \in DOMAIN g : Of(t[g[a]], r, n) /\ t[g[a]].final = log[k + a]
  <2> SUFFICES ASSUME NEW a \in D PROVE Of(t[g[a]], r, n) /\ t[g[a]].final = log[k + a]
    BY <1>4
  <2>1. t[g[a]] = q[f[a]]
    BY <1>2, <1>3, <1>4
  <2>2. QED
    BY <1>1, <1>4, <2>1 DEF InFlight
<1>8. InFlight(g, t, log, k, r, n) /\ g \in [1 .. (Len(log) - k) -> DOMAIN t]
  BY <1>4, <1>5, <1>6, <1>7 DEF InFlight, D
<1>9. QED
  BY <1>8 DEF Flow, t

\* The router reads an output of the submission: it is the next one.
LEMMA FlowTaken ==
    ASSUME NEW q \in Seq(Events), q # <<>>, NEW log \in Seq(BOOLEAN), NEW k \in Nat,
           NEW r, NEW n, Flow(q, log, k, r, n), Of(Head(q), r, n)
    PROVE  /\ k + 1 <= Len(log) /\ Head(q).final = log[k + 1]
           /\ Flow(Tail(q), log, k + 1, r, n)
<1> DEFINE t == Tail(q)
           D == 1 .. (Len(log) - k)
           E == 1 .. (Len(log) - (k + 1))
<1>1. PICK f \in [D -> DOMAIN q] : InFlight(f, q, log, k, r, n)
  BY DEF Flow
<1>2. /\ 1 \in DOMAIN q /\ q[1] = Head(q)
      /\ \A i \in DOMAIN t : i \in Nat \ {0} /\ i + 1 \in DOMAIN q /\ t[i] = q[i + 1]
      /\ \A i \in DOMAIN q : i \in Nat \ {0} /\ (i # 1 => i - 1 \in DOMAIN t /\ q[i] = t[i - 1])
  BY TailPositions
<1>3. PICK z \in D : f[z] = 1
  BY <1>1, <1>2 DEF InFlight
<1>4. /\ Len(log) \in Nat /\ z \in Nat /\ z <= Len(log) - k /\ z >= 1
      /\ 1 \in D /\ k + 1 <= Len(log)
      /\ \A a \in E : /\ a \in Nat \ {0} /\ a + 1 \in D /\ 1 < a + 1
                      /\ k + (a + 1) = (k + 1) + a
      /\ \A a \in D : a # 1 => a - 1 \in E /\ (a - 1) + 1 = a
  BY <1>3
<1> HIDE DEF t, D, E
<1>5. f[1] = 1
  <2>1. 1 < z => f[1] < f[z]
    BY <1>1, <1>4 DEF InFlight
  <2>2. f[1] \in Nat \ {0}
    BY <1>2, <1>4
  <2>3. QED
    BY <1>3, <1>4, <2>1, <2>2
<1>6. Head(q).final = log[k + 1]
  BY SMTT(30), <1>1, <1>2, <1>4, <1>5 DEF InFlight
<1>7. \A a \in E : f[a + 1] \in DOMAIN q /\ f[a + 1] # 1 /\ f[a + 1] \in Nat
  <2> SUFFICES ASSUME NEW a \in E PROVE f[a + 1] \in DOMAIN q /\ f[a + 1] # 1 /\ f[a + 1] \in Nat
    OBVIOUS
  <2>1. a + 1 \in D /\ 1 < a + 1 /\ f[a + 1] \in DOMAIN q /\ f[a + 1] \in Nat
    BY <1>2, <1>4
  <2>2. f[1] < f[a + 1]
    BY <1>1, <1>4, <2>1 DEF InFlight
  <2>3. QED
    BY <1>5, <2>1, <2>2
<1> DEFINE g == [a \in E |-> f[a + 1] - 1]
<1>8. g \in [E -> DOMAIN t] /\ DOMAIN g = E /\ DOMAIN f = D /\ \A a \in E : g[a] = f[a + 1] - 1
  BY <1>2, <1>7
<1> HIDE DEF g
<1>9. \A a, b \in DOMAIN g : a < b => g[a] < g[b]
  <2> SUFFICES ASSUME NEW a \in E, NEW b \in E, a < b PROVE g[a] < g[b]
    BY <1>8
  <2>1. a + 1 < b + 1 /\ a + 1 \in D /\ b + 1 \in D
    BY <1>4
  <2>2. f[a + 1] < f[b + 1]
    BY <1>1, <1>8, <2>1 DEF InFlight
  <2>3. QED
    BY <1>7, <1>8, <2>2
<1>10. \A i \in DOMAIN t : Of(t[i], r, n) => \E a \in DOMAIN g : g[a] = i
  <2> SUFFICES ASSUME NEW i \in DOMAIN t, Of(t[i], r, n) PROVE \E a \in E : g[a] = i
    BY <1>8
  <2>1. i + 1 \in DOMAIN q /\ Of(q[i + 1], r, n) /\ i \in Nat \ {0}
    BY <1>2
  <2>2. PICK a \in D : f[a] = i + 1
    BY <1>1, <1>8, <2>1 DEF InFlight
  <2>3. a # 1
    BY <1>5, <2>1, <2>2
  <2>4. a - 1 \in E /\ (a - 1) + 1 = a
    BY <1>4, <2>3
  <2>5. g[a - 1] = i
    BY <1>8, <2>1, <2>2, <2>4
  <2>6. QED
    BY <2>4, <2>5
<1>11. \A a \in DOMAIN g : Of(t[g[a]], r, n) /\ t[g[a]].final = log[(k + 1) + a]
  <2> SUFFICES ASSUME NEW a \in E PROVE Of(t[g[a]], r, n) /\ t[g[a]].final = log[(k + 1) + a]
    BY <1>8
  <2>1. t[g[a]] = q[f[a + 1]]
    BY <1>2, <1>7, <1>8
  <2>2. a + 1 \in D /\ log[k + (a + 1)] = log[(k + 1) + a]
    BY <1>4
  <2>3. Of(q[f[a + 1]], r, n) /\ q[f[a + 1]].final = log[k + (a + 1)]
    BY <1>1, <1>8, <2>2 DEF InFlight
  <2>4. QED
    BY <2>1, <2>2, <2>3
<1>12. InFlight(g, t, log, k + 1, r, n) /\ g \in [1 .. (Len(log) - (k + 1)) -> DOMAIN t]
  BY <1>8, <1>9, <1>10, <1>11 DEF InFlight, E
<1>13. QED
  BY <1>4, <1>6, <1>12 DEF Flow, t

\* When the stream has everything, nothing is left on the queue.
LEMMA FlowDone ==
    ASSUME NEW q \in Seq(Events), NEW log \in Seq(BOOLEAN), NEW r, NEW n, Flow(q, log, Len(log), r, n),
           NEW i \in DOMAIN q
    PROVE  ~Of(q[i], r, n)
<1>1. 1 .. (Len(log) - Len(log)) = {}
  OBVIOUS
<1>2. PICK f \in [{} -> DOMAIN q] : InFlight(f, q, log, Len(log), r, n)
  BY <1>1 DEF Flow
<1>3. QED
  BY <1>2 DEF InFlight

-----------------------------------------------------------------------------
(* The shape of the engine's steps *)

\* A command is an ADD of a submission or an ABORT.
LEMMA OrderKinds ==
    /\ \A c \in Orders : /\ c.type = "ADD" => c.sub \in Submissions
                         /\ c.type \in {"ADD", "ABORT"}
    /\ \A r \in Ids : /\ Command("ABORT", r, 0) \in Orders /\ Command("ABORT", r, 0).type = "ABORT"
                      /\ \A n \in Submissions : /\ Command("ADD", r, n) \in Orders
                                                /\ Command("ADD", r, n).type = "ADD"
                                                /\ Command("ADD", r, n).sub = n
<1>1. \A c \in Orders : /\ c.type = "ADD" => c.sub \in Submissions
                        /\ c.type \in {"ADD", "ABORT"}
  BY DEF Orders
<1>2. \A r \in Ids : Command("ABORT", r, 0) \in Orders /\ Command("ABORT", r, 0).type = "ABORT"
  BY DEF Orders, Command
<1>3. \A r \in Ids, n \in Submissions :
        Command("ADD", r, n) \in Orders /\ Command("ADD", r, n).type = "ADD" /\ Command("ADD", r, n).sub = n
  BY DEF Orders, Command
<1>4. QED
  BY <1>1, <1>2, <1>3

LiveIds == {r \in Ids : live[r] # 0}

\* The submissions that got an output in this step.
Grown == {p \in Ids \X Submissions : Len(outs'[p[1]][p[2]]) > Len(outs[p[1]][p[2]])}

Grows(r, n) ==
    \/ outs'[r][n] = outs[r][n]
    \/ \E x \in BOOLEAN : outs'[r][n] = Append(outs[r][n], x)

\* What every step of the engine does: a submission gets no output or one, and
\* finitely many get one.
Shape ==
    /\ cmds' \in [Ids -> Seq(Orders)] /\ sent' = sent /\ closed' = closed
    /\ live' \in [Ids -> 0 .. MaxAdds] /\ IsFiniteSet({r \in Ids : live'[r] # 0})
    /\ outs' \in PerCall(Seq(BOOLEAN))
    /\ IsFiniteSet(Grown)
    /\ \A r \in Ids, n \in Submissions : Grows(r, n)

\* A step without outputs.
LEMMA SilentOuts ==
    ASSUME Types, outs' = outs
    PROVE  /\ outs' \in PerCall(Seq(BOOLEAN)) /\ IsFiniteSet(Grown)
           /\ \A r \in Ids, n \in Submissions : Grows(r, n)
<1>1. \A r \in Ids, n \in Submissions : Grows(r, n)
  BY DEF Grows
<1>2. Grown = {}
  <2> SUFFICES ASSUME NEW p \in Grown PROVE FALSE
    OBVIOUS
  <2>1. p[1] \in Ids /\ p[2] \in Submissions /\ Len(outs[p[1]][p[2]]) > Len(outs[p[1]][p[2]])
    BY DEF Grown
  <2>2. outs[p[1]][p[2]] \in Seq(BOOLEAN)
    BY <2>1 DEF Types, PerCall
  <2>3. QED
    BY <2>1, <2>2
<1>3. QED
  BY <1>1, <1>2, FS_EmptySet DEF Types

\* A step with one output.
LEMMA EmitOuts ==
    ASSUME Types, NEW s \in Ids, NEW m \in Submissions, NEW x \in BOOLEAN, Emit(s, m, x)
    PROVE  /\ outs' \in PerCall(Seq(BOOLEAN)) /\ IsFiniteSet(Grown)
           /\ \A r \in Ids, n \in Submissions : Grows(r, n)
           /\ outs'[s][m] = Append(outs[s][m], x)
           /\ \A r \in Ids, n \in Submissions : r # s \/ n # m => outs'[r][n] = outs[r][n]
<1> DEFINE new == Append(outs[s][m], x)
<1>1. outs \in PerCall(Seq(BOOLEAN)) /\ outs[s][m] \in Seq(BOOLEAN) /\ new \in Seq(BOOLEAN)
  BY DEF Types, PerCall
<1>2. outs' = With(outs, s, m, new)
  BY <1>1 DEF Emit, PerCall, With
<1> HIDE DEF new
<1>3. /\ outs' \in PerCall(Seq(BOOLEAN)) /\ outs'[s][m] = new
      /\ \A r \in Ids, n \in Submissions : r # s \/ n # m => outs'[r][n] = outs[r][n]
  BY <1>1, <1>2, Put
<1>4. \A r \in Ids, n \in Submissions : Grows(r, n)
  BY <1>3 DEF Grows, new
<1>5. Grown \subseteq {<<s, m>>}
  <2> SUFFICES ASSUME NEW p \in Grown, p # <<s, m>> PROVE FALSE
    OBVIOUS
  <2>1. p = <<p[1], p[2]>> /\ p[1] \in Ids /\ p[2] \in Submissions
        /\ Len(outs'[p[1]][p[2]]) > Len(outs[p[1]][p[2]])
    BY DEF Grown
  <2>2. outs'[p[1]][p[2]] = outs[p[1]][p[2]] /\ outs[p[1]][p[2]] \in Seq(BOOLEAN)
    BY <1>1, <1>3, <2>1 DEF PerCall
  <2>3. QED
    BY <2>1, <2>2
<1>6. IsFiniteSet(Grown)
  BY <1>5, FS_Singleton, FS_Subset
<1>7. QED
  BY <1>3, <1>4, <1>6 DEF new

\* live forgets s.
LEMMA LiveForgets ==
    ASSUME Types, NEW s \in Ids, live' = [live EXCEPT ![s] = 0]
    PROVE  live' \in [Ids -> 0 .. MaxAdds] /\ IsFiniteSet({r \in Ids : live'[r] # 0})
<1>1. live \in [Ids -> 0 .. MaxAdds] /\ IsFiniteSet(LiveIds)
  BY DEF Types, LiveIds
<1>2. 0 \in 0 .. MaxAdds
  BY Numbers
<1>3. {r \in Ids : live'[r] # 0} \subseteq LiveIds
  BY <1>1 DEF LiveIds
<1>4. QED
  BY <1>1, <1>2, <1>3, FS_Subset

\* What the engine takes from a queue of commands.
LEMMA NextCommand ==
    ASSUME Types, NEW s \in Ids, NEW type, NextIs(type, s)
    PROVE  /\ cmds[s] \in Seq(Orders) /\ cmds[s] # <<>> /\ Head(cmds[s]) \in Orders
           /\ Head(cmds[s]).type = type
           /\ cmds' \in [Ids -> Seq(Orders)] /\ cmds'[s] = Tail(cmds[s])
           /\ \A r \in Ids : r # s => cmds'[r] = cmds[r]
<1>1. cmds \in [Ids -> Seq(Orders)] /\ cmds[s] \in Seq(Orders)
  BY DEF Types
<1>2. cmds[s] # <<>> /\ Head(cmds[s]).type = type /\ cmds' = [cmds EXCEPT ![s] = Tail(cmds[s])]
  BY <1>1 DEF NextIs
<1>3. Head(cmds[s]) \in Orders /\ Tail(cmds[s]) \in Seq(Orders)
  BY <1>1, <1>2, TailPositions
<1>4. QED
  BY <1>1, <1>2, <1>3

\* The submission that is live is one.
LEMMA LiveSubmission ==
    ASSUME Types, NEW s \in Ids, live[s] # 0
    PROVE  live[s] \in Submissions
<1>1. live[s] \in 0 .. MaxAdds
  BY DEF Types
<1>2. QED
  BY <1>1, Numbers

\* All steps of the engine have this shape.
LEMMA EngineShape ==
    ASSUME Types,
           \/ Stop \/ Fail
           \/ \E s \in Ids : Accept(s) \/ Reject(s) \/ Abort(s) \/ Progress(s) \/ Answer(s)
    PROVE  Shape
<1>0. cmds \in [Ids -> Seq(Orders)] /\ live \in [Ids -> 0 .. MaxAdds] /\ IsFiniteSet(LiveIds)
  BY DEF Types, LiveIds
<1>1. CASE Stop
  BY <1>0, <1>1, SilentOuts DEF Stop, Shape, LiveIds
<1>2. CASE Fail
  <2>1. /\ outs' = [r \in Ids |-> [n \in Submissions |->
                     IF n = live[r] THEN Append(outs[r][n], TRUE) ELSE outs[r][n]]]
        /\ live' = [r \in Ids |-> 0] /\ UNCHANGED <<cmds, sent, closed>>
    BY <1>2 DEF Fail
  <2>2. \A r \in Ids, n \in Submissions :
          /\ outs[r][n] \in Seq(BOOLEAN)
          /\ outs'[r][n] = IF n = live[r] THEN Append(outs[r][n], TRUE) ELSE outs[r][n]
    BY <2>1 DEF Types, PerCall
  <2>3. \A r \in Ids, n \in Submissions : Grows(r, n)
    BY <2>2 DEF Grows
  <2>4. outs' \in PerCall(Seq(BOOLEAN))
    <3>1. \A r \in Ids, n \in Submissions :
            (IF n = live[r] THEN Append(outs[r][n], TRUE) ELSE outs[r][n]) \in Seq(BOOLEAN)
      <4>1. \A r \in Ids, n \in Submissions : Append(outs[r][n], TRUE) \in Seq(BOOLEAN)
        <5> SUFFICES ASSUME NEW r \in Ids, NEW n \in Submissions, NEW x \in BOOLEAN
                     PROVE  Append(outs[r][n], x) \in Seq(BOOLEAN)
          OBVIOUS
        <5>1. outs[r][n] \in Seq(BOOLEAN)
          BY <2>2
        <5>2. QED
          BY <5>1, AppendPositions
      <4>2. QED
        BY <2>2, <4>1
    <3>2. QED
      BY <2>1, <3>1 DEF PerCall
  <2>5. IsFiniteSet(Grown)
    <3> DEFINE f == [r \in LiveIds |-> <<r, live[r]>>]
               T == {f[r] : r \in LiveIds}
    <3>1. f \in Surjection(LiveIds, T)
      BY DEF Surjection
    <3>2. IsFiniteSet(T)
      BY <1>0, <3>1, FS_Surjection
    <3>3. Grown \subseteq T
      <4> SUFFICES ASSUME NEW p \in Grown PROVE p \in T
        OBVIOUS
      <4>1. p = <<p[1], p[2]>> /\ p[1] \in Ids /\ p[2] \in Submissions
            /\ Len(outs'[p[1]][p[2]]) > Len(outs[p[1]][p[2]])
        BY DEF Grown
      <4>2. p[2] = live[p[1]]
        <5>1. SUFFICES ASSUME p[2] # live[p[1]] PROVE FALSE
          OBVIOUS
        <5>2. outs'[p[1]][p[2]] = outs[p[1]][p[2]] /\ outs[p[1]][p[2]] \in Seq(BOOLEAN)
          BY <2>2, <4>1, <5>1
        <5>3. QED
          BY <4>1, <5>2
      <4>3. p[1] \in LiveIds
        BY <4>1, <4>2, Numbers DEF LiveIds
      <4>4. f[p[1]] = p
        BY <4>1, <4>2, <4>3
      <4>5. QED
        BY <4>3, <4>4
    <3>4. QED
      BY <3>2, <3>3, FS_Subset
  <2>6. live' \in [Ids -> 0 .. MaxAdds]
    BY <2>1, Numbers
  <2>7. IsFiniteSet({r \in Ids : live'[r] # 0})
    <3>1. {r \in Ids : live'[r] # 0} = {}
      BY <2>1
    <3>2. QED
      BY <3>1, FS_EmptySet
  <2>8. QED
    BY <1>0, <2>1, <2>3, <2>4, <2>5, <2>6, <2>7 DEF Shape
<1>3. ASSUME NEW s \in Ids, Accept(s)
      PROVE  Shape
  <2>1. /\ NextIs("ADD", s) /\ live' = [live EXCEPT ![s] = Head(cmds[s]).sub]
        /\ UNCHANGED <<sent, outs, closed>>
    BY <1>3 DEF Accept
  <2>2. cmds' \in [Ids -> Seq(Orders)] /\ Head(cmds[s]) \in Orders /\ Head(cmds[s]).type = "ADD"
    BY <2>1, NextCommand
  <2>3. PICK m \in Submissions : m = Head(cmds[s]).sub
    BY <2>2, OrderKinds
  <2>4. live' \in [Ids -> 0 .. MaxAdds] /\ \A r \in Ids : r # s => live'[r] = live[r]
    BY <1>0, <2>1, <2>3, Numbers
  <2>5. IsFiniteSet({r \in Ids : live'[r] # 0})
    <3>1. {r \in Ids : live'[r] # 0} \subseteq LiveIds \cup {s}
      BY <2>4 DEF LiveIds
    <3>2. QED
      BY <1>0, <3>1, FS_AddElement, FS_Subset
  <2>6. QED
    BY <2>1, <2>2, <2>4, <2>5, SilentOuts DEF Shape
<1>4. ASSUME NEW s \in Ids, Reject(s)
      PROVE  Shape
  <2>1. NextIs("ADD", s) /\ Emit(s, Head(cmds[s]).sub, TRUE) /\ UNCHANGED <<sent, live, closed>>
    BY <1>4 DEF Reject
  <2>2. cmds' \in [Ids -> Seq(Orders)] /\ Head(cmds[s]) \in Orders /\ Head(cmds[s]).type = "ADD"
    BY <2>1, NextCommand
  <2>3. PICK m \in Submissions : m = Head(cmds[s]).sub
    BY <2>2, OrderKinds
  <2>4. Emit(s, m, TRUE) /\ TRUE \in BOOLEAN
    BY <2>1, <2>3
  <2>5. outs' \in PerCall(Seq(BOOLEAN)) /\ IsFiniteSet(Grown) /\ \A r \in Ids, n \in Submissions : Grows(r, n)
    BY <2>4, EmitOuts
  <2>6. QED
    BY <1>0, <2>1, <2>2, <2>5 DEF Shape, LiveIds
<1>5. ASSUME NEW s \in Ids, NEW x \in BOOLEAN, live[s] # 0, Emit(s, live[s], x)
      PROVE  outs' \in PerCall(Seq(BOOLEAN)) /\ IsFiniteSet(Grown) /\ \A r \in Ids, n \in Submissions : Grows(r, n)
  <2>1. PICK m \in Submissions : m = live[s]
    BY <1>5, LiveSubmission
  <2>2. Emit(s, m, x)
    BY <1>5, <2>1
  <2>3. QED
    BY <2>2, EmitOuts
<1>6. ASSUME NEW s \in Ids, Abort(s)
      PROVE  Shape
  <2>1. NextIs("ABORT", s) /\ UNCHANGED <<sent, closed>>
    BY <1>6 DEF Abort
  <2>2. cmds' \in [Ids -> Seq(Orders)]
    BY <2>1, NextCommand
  <2>3. CASE live[s] = 0
    BY <1>0, <1>6, <2>1, <2>2, <2>3, SilentOuts DEF Abort, Shape, LiveIds
  <2>4. CASE live[s] # 0
    <3>1. Emit(s, live[s], TRUE) /\ live' = [live EXCEPT ![s] = 0] /\ TRUE \in BOOLEAN
      BY <1>6, <2>4 DEF Abort
    <3>2. outs' \in PerCall(Seq(BOOLEAN)) /\ IsFiniteSet(Grown) /\ \A r \in Ids, n \in Submissions : Grows(r, n)
      BY <1>5, <2>4, <3>1
    <3>3. QED
      BY <2>1, <2>2, <3>1, <3>2, LiveForgets DEF Shape
  <2>5. QED
    BY <2>3, <2>4
<1>7. ASSUME NEW s \in Ids, Progress(s)
      PROVE  Shape
  <2>1. live[s] # 0 /\ Emit(s, live[s], FALSE) /\ FALSE \in BOOLEAN /\ UNCHANGED <<cmds, sent, live, closed>>
    BY <1>7 DEF Progress
  <2>2. QED
    BY <1>0, <1>5, <2>1 DEF Shape, LiveIds
<1>8. ASSUME NEW s \in Ids, Answer(s)
      PROVE  Shape
  <2>1. /\ live[s] # 0 /\ Emit(s, live[s], TRUE) /\ TRUE \in BOOLEAN
        /\ live' = [live EXCEPT ![s] = 0] /\ UNCHANGED <<cmds, sent, closed>>
    BY <1>8 DEF Answer
  <2>2. QED
    BY <1>0, <1>5, <2>1, LiveForgets DEF Shape
<1>9. QED
  BY <1>1, <1>2, <1>3, <1>4, <1>6, <1>7, <1>8

\* The outputs es that a step puts on the queue are, for each submission, what it
\* adds to its log.
Emits(es, r, n) ==
    \/ outs'[r][n] = outs[r][n] /\ \A i \in DOMAIN es : ~Of(es[i], r, n)
    \/ \E i \in DOMAIN es : /\ Of(es[i], r, n) /\ outs'[r][n] = Append(outs[r][n], es[i].final)
                            /\ \A j \in DOMAIN es : Of(es[j], r, n) => j = i

\* Forward puts exactly these outputs on the queue.
LEMMA ForwardEmits ==
    ASSUME Types, Shape, NEW b \in Batches, Forward(b)
    PROVE  \E es \in Seq(Outputs) : /\ outq' = outq \o es
                                    /\ \A i \in DOMAIN es : es[i].batch = b
                                    /\ \A r \in Ids, n \in Submissions : Emits(es, r, n)
<1>1. PICK s \in SetToSeqs(Grown) :
         outq' = outq \o [i \in DOMAIN s |->
                     [metrics |-> FALSE, id |-> s[i][1], sub |-> s[i][2], batch |-> b,
                      final |-> Last(outs'[s[i][1]][s[i][2]])]]
  BY DEF Forward, Grown
<1> DEFINE N == Cardinality(Grown)
           event(p) == [metrics |-> FALSE, id |-> p[1], sub |-> p[2], batch |-> b,
                        final |-> Last(outs'[p[1]][p[2]])]
           es == [i \in DOMAIN s |-> event(s[i])]
<1>2. N \in Nat
  BY FS_CardinalityType DEF Shape
<1>3. s \in [1 .. N -> Grown] /\ \A i, j \in 1 .. N : i # j => s[i] # s[j]
  BY DEF SetToSeqs
<1>4. \A p \in Grown : \E i \in 1 .. N : s[i] = p
  <2>1. s \in Injection(1 .. N, Grown)
    BY <1>3 DEF Injection, IsInjective
  <2>2. Cardinality(1 .. N) = N
    BY <1>2, FS_Interval
  <2>3. s \in Surjection(1 .. N, Grown)
    BY <2>1, <2>2, FS_Injection DEF Shape
  <2>4. QED
    BY <2>3 DEF Surjection
<1> HIDE DEF N
<1>5. ASSUME NEW p \in Grown
      PROVE  /\ p = <<p[1], p[2]>> /\ p[1] \in Ids /\ p[2] \in Submissions
             /\ Last(outs'[p[1]][p[2]]) \in BOOLEAN
             /\ outs'[p[1]][p[2]] = Append(outs[p[1]][p[2]], Last(outs'[p[1]][p[2]]))
  <2>1. p = <<p[1], p[2]>> /\ p[1] \in Ids /\ p[2] \in Submissions
        /\ Len(outs'[p[1]][p[2]]) > Len(outs[p[1]][p[2]])
    BY DEF Grown
  <2>2. outs[p[1]][p[2]] \in Seq(BOOLEAN)
    BY <2>1 DEF Types, PerCall
  <2>3. outs'[p[1]][p[2]] # outs[p[1]][p[2]]
    BY <2>1, <2>2
  <2>4. PICK x \in BOOLEAN : outs'[p[1]][p[2]] = Append(outs[p[1]][p[2]], x)
    BY <2>1, <2>3 DEF Shape, Grows
  <2>5. Last(outs'[p[1]][p[2]]) = x
    <3>1. Append(outs[p[1]][p[2]], x)[Len(outs[p[1]][p[2]]) + 1] = x
          /\ Len(Append(outs[p[1]][p[2]], x)) = Len(outs[p[1]][p[2]]) + 1
      BY <2>2, AppendPositions
    <3>2. QED
      BY <2>4, <3>1 DEF Last
  <2>6. QED
    BY <2>1, <2>4, <2>5
<1>6. \A p \in Grown : /\ event(p) \in Outputs /\ event(p).batch = b
                       /\ event(p).final = Last(outs'[p[1]][p[2]])
                       /\ \A r, n : Of(event(p), r, n) <=> p[1] = r /\ p[2] = n
  BY <1>5 DEF Outputs, Of
<1>7. /\ DOMAIN es = 1 .. N /\ DOMAIN s = 1 .. N
      /\ \A i \in 1 .. N : s[i] \in Grown /\ es[i] = event(s[i])
  BY <1>3
<1> HIDE DEF event
<1>8. es \in Seq(Outputs)
  <2>1. es \in [1 .. N -> Outputs]
    BY <1>3, <1>6
  <2> HIDE DEF es
  <2>2. QED
    BY <1>2, <2>1
<1>9. \A i \in DOMAIN es : es[i].batch = b
  BY <1>6, <1>7
<1>10. ASSUME NEW r \in Ids, NEW n \in Submissions
       PROVE  Emits(es, r, n)
  <2> HIDE DEF es
  <2>1. CASE <<r, n>> \in Grown
    <3>1. PICK i \in 1 .. N : s[i] = <<r, n>>
      BY <1>4, <2>1
    <3>2. Of(es[i], r, n) /\ es[i].final = Last(outs'[r][n])
      BY <1>6, <1>7, <2>1, <3>1
    <3>3. outs'[r][n] = Append(outs[r][n], es[i].final)
      BY <1>5, <2>1, <3>2
    <3>4. ASSUME NEW j \in DOMAIN es, Of(es[j], r, n)
          PROVE  j = i
      <4>1. s[j] \in Grown /\ s[j][1] = r /\ s[j][2] = n /\ j \in 1 .. N
        BY <1>6, <1>7, <3>4
      <4>2. s[j] = <<r, n>>
        BY <1>5, <4>1
      <4>3. QED
        BY <1>3, <3>1, <4>1, <4>2
    <3>5. QED
      BY <1>7, <3>2, <3>3, <3>4 DEF Emits
  <2>2. CASE <<r, n>> \notin Grown
    <3>1. outs'[r][n] = outs[r][n]
      <4>1. SUFFICES ASSUME NEW x \in BOOLEAN, outs'[r][n] = Append(outs[r][n], x)
                     PROVE  FALSE
        BY DEF Shape, Grows
      <4>2. outs[r][n] \in Seq(BOOLEAN)
        BY DEF Types, PerCall
      <4>3. Len(outs'[r][n]) > Len(outs[r][n])
        BY <4>1, <4>2
      <4>4. QED
        BY <2>2, <4>3 DEF Grown
    <3>2. \A i \in DOMAIN es : ~Of(es[i], r, n)
      <4> SUFFICES ASSUME NEW i \in DOMAIN es, Of(es[i], r, n)
                   PROVE  FALSE
        OBVIOUS
      <4>1. s[i] \in Grown /\ s[i][1] = r /\ s[i][2] = n
        BY <1>6, <1>7
      <4>2. QED
        BY <1>5, <2>2, <4>1
    <3>3. QED
      BY <3>1, <3>2 DEF Emits
  <2>3. QED
    BY <2>1, <2>2
<1>11. outq' = outq \o es
  BY <1>1 DEF event
<1>12. QED
  BY <1>8, <1>9, <1>10, <1>11

-----------------------------------------------------------------------------
(* Types and streams *)

BaseInv == Types /\ HoldInv

\* A call moves on, the others stay where they are.
LEMMA MovesEffect ==
    ASSUME Types, NEW s \in Ids, NEW m \in Submissions, NEW from, NEW to \in States, Moves(s, m, from, to)
    PROVE  /\ caller[s][m] = from /\ caller' \in PerCall(States) /\ caller'[s][m] = to
           /\ \A r \in Ids, n \in Submissions : r # s \/ n # m => caller'[r][n] = caller[r][n]
<1>1. caller \in PerCall(States) /\ caller[s][m] = from /\ caller' = With(caller, s, m, to)
  BY DEF Types, Moves, With
<1>2. QED
  BY <1>1, Put

\* A command is sent.
LEMMA SendEffect ==
    ASSUME Types, NEW s \in Ids, NEW c \in Orders, cmds' = [cmds EXCEPT ![s] = Append(@, c)]
    PROVE  /\ cmds[s] \in Seq(Orders) /\ cmds' \in [Ids -> Seq(Orders)]
           /\ cmds'[s] = Append(cmds[s], c) /\ \A r \in Ids : r # s => cmds'[r] = cmds[r]
<1>1. cmds \in [Ids -> Seq(Orders)] /\ cmds[s] \in Seq(Orders)
  BY DEF Types
<1>2. cmds' = [cmds EXCEPT ![s] = Append(cmds[s], c)] /\ Append(cmds[s], c) \in Seq(Orders)
  BY <1>1, AppendPositions
<1>3. QED
  BY <1>1, <1>2

\* An ABORT is sent.
LEMMA SendAbortEffect ==
    ASSUME Types, NEW s \in Ids, SendAbort(s)
    PROVE  /\ cmds' \in [Ids -> Seq(Orders)] /\ cmds[s] \in Seq(Orders)
           /\ \E c \in Orders : c.type = "ABORT" /\ cmds'[s] = Append(cmds[s], c)
           /\ \A r \in Ids : r # s => cmds'[r] = cmds[r]
           /\ UNCHANGED <<sent, live, outs, closed, status>>
<1>1. PICK c \in Orders : c = Command("ABORT", s, 0) /\ c.type = "ABORT"
  BY OrderKinds
<1>2. cmds' = [cmds EXCEPT ![s] = Append(@, c)] /\ UNCHANGED <<sent, live, outs, closed, status>>
  BY <1>1 DEF SendAbort
<1>3. QED
  BY <1>1, <1>2, SendEffect

\* An ADD is sent.
LEMMA SendAddEffect ==
    ASSUME Types, NEW s \in Ids, NEW m \in Submissions, SendAdd(s, m)
    PROVE  /\ cmds' \in [Ids -> Seq(Orders)] /\ cmds[s] \in Seq(Orders)
           /\ \E c \in Orders : c.type = "ADD" /\ c.sub = m /\ cmds'[s] = Append(cmds[s], c)
           /\ \A r \in Ids : r # s => cmds'[r] = cmds[r]
           /\ m \notin sent[s] /\ sent' \in [Ids -> SUBSET Submissions]
           /\ sent'[s] = sent[s] \cup {m} /\ \A r \in Ids : r # s => sent'[r] = sent[r]
           /\ UNCHANGED <<live, outs, closed, status>>
<1>1. PICK c \in Orders : c = Command("ADD", s, m) /\ c.type = "ADD" /\ c.sub = m
  BY OrderKinds
<1>2. cmds' = [cmds EXCEPT ![s] = Append(@, c)] /\ UNCHANGED <<live, outs, closed, status>>
  BY <1>1 DEF SendAdd
<1>3. sent \in [Ids -> SUBSET Submissions] /\ sent' = [sent EXCEPT ![s] = @ \cup {m}] /\ m \notin sent[s]
  BY DEF SendAdd, Types
<1>4. /\ sent' \in [Ids -> SUBSET Submissions]
      /\ sent'[s] = sent[s] \cup {m} /\ \A r \in Ids : r # s => sent'[r] = sent[r]
  BY <1>3
<1>5. QED
  BY <1>1, <1>2, <1>3, <1>4, SendEffect

\* Types, when callers move.
LEMMA CallerTypes ==
    ASSUME Types, caller' \in PerCall(States), streams' \in [Ids -> 0 .. MaxAdds], taken' \in PerCall(Nat),
           cmds' \in [Ids -> Seq(Orders)], sent' \in [Ids -> SUBSET Submissions],
           UNCHANGED <<live, outs, closed, close, stream, outq, batches>>
    PROVE  Types'
BY DEF Types

\* A call that moves among the states with a stream, or among those without.
LEMMA MoveHolds ==
    ASSUME BaseInv, NEW s \in Ids, NEW m \in Submissions, NEW from, NEW to \in States, Moves(s, m, from, to),
           from \in Holding <=> to \in Holding,
           UNCHANGED <<streams, taken, live, outs, closed, close, stream, outq, batches>>,
           cmds' \in [Ids -> Seq(Orders)], sent' \in [Ids -> SUBSET Submissions]
    PROVE  BaseInv'
<1> USE DEF BaseInv
<1>1. /\ caller[s][m] = from /\ caller' \in PerCall(States) /\ caller'[s][m] = to
      /\ \A r \in Ids, n \in Submissions : r # s \/ n # m => caller'[r][n] = caller[r][n]
  BY MovesEffect
<1>2. streams' \in [Ids -> 0 .. MaxAdds] /\ taken' \in PerCall(Nat)
  BY DEF Types
<1>3. Types'
  BY <1>1, <1>2, CallerTypes
<1>4. ASSUME NEW r \in Ids, NEW n \in Submissions
      PROVE  (caller'[r][n] \in Holding <=> streams'[r] = n) /\ taken'[r][n] <= Len(stream'[r][n])
  <2>1. (caller[r][n] \in Holding <=> streams[r] = n) /\ taken[r][n] <= Len(stream[r][n])
    BY DEF HoldInv
  <2>2. QED
    BY <1>1, <2>1
<1>5. QED
  BY <1>3, <1>4 DEF HoldInv, Holding, Active

\* Which states hold a stream.
LEMMA HoldingStates ==
    /\ {"registered", "leaked", "reading", "yielded", "finished", "aborting", "dropping"} \subseteq Holding
    /\ "idle" \notin Holding /\ "checked" \notin Holding /\ "done" \notin Holding /\ "raised" \notin Holding
    /\ {"idle", "checked", "raised", "done"} \subseteq States /\ Holding \subseteq States
BY DEF Holding, Active, States

\* A call registers its stream: the id was free.
LEMMA RegisterBase ==
    ASSUME BaseInv, NEW s \in Ids, NEW m \in Submissions, Register(s, m)
    PROVE  BaseInv'
<1> USE DEF BaseInv, RestOfClient, serviceVars, routeVars, closeVars
<1>1. cmds' \in [Ids -> Seq(Orders)] /\ sent' \in [Ids -> SUBSET Submissions]
      /\ UNCHANGED <<taken, live, outs, closed, close, stream, outq, batches>>
  BY DEF Register, Types
<1>2. CASE streams[s] # 0
  BY <1>1, <1>2, HoldingStates, MoveHolds DEF Register
<1>3. CASE streams[s] = 0
  <2>1. Moves(s, m, "checked", "registered") /\ streams' = [streams EXCEPT ![s] = m]
    BY <1>3 DEF Register
  <2>2. /\ caller[s][m] = "checked" /\ caller' \in PerCall(States) /\ caller'[s][m] = "registered"
        /\ \A r \in Ids, n \in Submissions : r # s \/ n # m => caller'[r][n] = caller[r][n]
    BY <2>1, MovesEffect, HoldingStates
  <2>3. /\ streams' \in [Ids -> 0 .. MaxAdds] /\ streams'[s] = m
        /\ \A r \in Ids : r # s => streams'[r] = streams[r]
    BY <2>1, Numbers DEF Types
  <2>4. Types'
    <3>1. taken' \in PerCall(Nat)
      BY <1>1 DEF Types
    <3>2. QED
      BY <1>1, <2>2, <2>3, <3>1, CallerTypes
  <2>5. ASSUME NEW r \in Ids, NEW n \in Submissions
        PROVE  (caller'[r][n] \in Holding <=> streams'[r] = n) /\ taken'[r][n] <= Len(stream'[r][n])
    <3>1. (caller[r][n] \in Holding <=> streams[r] = n) /\ taken[r][n] <= Len(stream[r][n]) /\ n # 0
      BY Numbers DEF HoldInv
    <3>2. taken'[r][n] <= Len(stream'[r][n])
      BY <1>1, <3>1
    <3>3. CASE r = s /\ n = m
      BY <2>2, <2>3, <3>2, <3>3, HoldingStates
    <3>4. CASE r = s /\ n # m
      BY <1>3, <2>2, <2>3, <3>1, <3>2, <3>4
    <3>5. CASE r # s
      BY <2>2, <2>3, <3>1, <3>2, <3>5
    <3>6. QED
      BY <3>3, <3>4, <3>5
  <2>6. QED
    BY <2>4, <2>5 DEF HoldInv, Holding, Active
<1>4. QED
  BY <1>2, <1>3

\* finish_stream releases the stream of the call itself.
LEMMA FinishStreamBase ==
    ASSUME BaseInv, NEW s \in Ids, NEW m \in Submissions, FinishStream(s, m)
    PROVE  BaseInv'
<1> USE DEF BaseInv, RestOfClient, serviceVars, routeVars, closeVars
<1>1. cmds' \in [Ids -> Seq(Orders)] /\ sent' \in [Ids -> SUBSET Submissions]
      /\ UNCHANGED <<taken, live, outs, closed, close, stream, outq, batches>>
  BY DEF FinishStream, Types
<1>2. Moves(s, m, "dropping", "done") /\ streams' = [streams EXCEPT ![s] = 0]
  BY DEF FinishStream
<1>3. /\ caller[s][m] = "dropping" /\ caller' \in PerCall(States) /\ caller'[s][m] = "done"
      /\ \A r \in Ids, n \in Submissions : r # s \/ n # m => caller'[r][n] = caller[r][n]
  BY <1>2, MovesEffect, HoldingStates
<1>4. /\ streams' \in [Ids -> 0 .. MaxAdds] /\ streams'[s] = 0
      /\ \A r \in Ids : r # s => streams'[r] = streams[r]
  <2>1. streams \in [Ids -> 0 .. MaxAdds] /\ 0 \in 0 .. MaxAdds
    BY Numbers DEF Types
  <2>2. QED
    BY <1>2, <2>1
<1>5. Types'
  <2>1. taken' \in PerCall(Nat)
    BY <1>1 DEF Types
  <2>2. QED
    BY <1>1, <1>3, <1>4, <2>1, CallerTypes
<1>6. streams[s] = m
  BY <1>3, HoldingStates DEF HoldInv
<1>7. ASSUME NEW r \in Ids, NEW n \in Submissions
      PROVE  (caller'[r][n] \in Holding <=> streams'[r] = n) /\ taken'[r][n] <= Len(stream'[r][n])
  <2>1. (caller[r][n] \in Holding <=> streams[r] = n) /\ taken[r][n] <= Len(stream[r][n]) /\ n # 0
    BY Numbers DEF HoldInv
  <2>2. QED
    BY <1>1, <1>3, <1>4, <1>6, <2>1, HoldingStates
<1>8. QED
  BY <1>5, <1>7 DEF HoldInv, Holding, Active

\* What Get does, with names for its parts.
LEMMA GetEffect ==
    ASSUME BaseInv, NEW s \in Ids, NEW m \in Submissions, Get(s, m)
    PROVE  /\ taken[s][m] \in Nat /\ taken[s][m] < Len(stream[s][m])
           /\ stream[s][m] \in Seq(Items) /\ stream[s][m][taken[s][m] + 1].final \in BOOLEAN
           /\ caller[s][m] = "reading" /\ caller' \in PerCall(States)
           /\ caller'[s][m] = IF stream[s][m][taken[s][m] + 1].final THEN "finished" ELSE "yielded"
           /\ \A r \in Ids, n \in Submissions : r # s \/ n # m => caller'[r][n] = caller[r][n]
           /\ taken' \in PerCall(Nat) /\ taken'[s][m] = taken[s][m] + 1
           /\ \A r \in Ids, n \in Submissions : r # s \/ n # m => taken'[r][n] = taken[r][n]
           /\ UNCHANGED <<serviceVars, streams, stream, outq, batches, routeVars, closeVars>>
<1> DEFINE next == stream[s][m][taken[s][m] + 1]
           to == IF next.final THEN "finished" ELSE "yielded"
<1>1. /\ taken[s][m] < Len(stream[s][m]) /\ Moves(s, m, "reading", to)
      /\ taken' = With(taken, s, m, taken[s][m] + 1)
      /\ UNCHANGED <<serviceVars, streams, stream, outq, batches, routeVars, closeVars>>
  <2>1. /\ taken[s][m] < Len(stream[s][m]) /\ Moves(s, m, "reading", to)
        /\ UNCHANGED <<serviceVars, streams, stream, outq, batches, routeVars, closeVars>>
    BY DEF Get
  <2>2. taken' = With(taken, s, m, taken[s][m] + 1)
    BY DEF Get, With, BaseInv, Types, PerCall
  <2>3. QED
    BY <2>1, <2>2
<1>2. taken \in PerCall(Nat) /\ taken[s][m] \in Nat /\ taken[s][m] + 1 \in Nat /\ stream[s][m] \in Seq(Items)
  BY DEF BaseInv, Types, PerCall
<1>3. next.final \in BOOLEAN
  <2>1. next \in Items
    BY <1>1, <1>2
  <2>2. QED
    BY <2>1 DEF Items
<1>4. to \in States
  BY HoldingStates
<1> HIDE DEF next, to
<1>5. /\ caller[s][m] = "reading" /\ caller' \in PerCall(States) /\ caller'[s][m] = to
      /\ \A r \in Ids, n \in Submissions : r # s \/ n # m => caller'[r][n] = caller[r][n]
  BY <1>1, <1>4, MovesEffect DEF BaseInv
<1>6. /\ taken' \in PerCall(Nat) /\ taken'[s][m] = taken[s][m] + 1
      /\ \A r \in Ids, n \in Submissions : r # s \/ n # m => taken'[r][n] = taken[r][n]
  BY <1>1, <1>2, Put
<1>7. QED
  BY <1>1, <1>2, <1>3, <1>5, <1>6 DEF to, next

\* A reader takes an output.
LEMMA GetBase ==
    ASSUME BaseInv, NEW s \in Ids, NEW m \in Submissions, Get(s, m)
    PROVE  BaseInv'
<1>1. /\ taken[s][m] \in Nat /\ taken[s][m] < Len(stream[s][m]) /\ stream[s][m] \in Seq(Items)
      /\ caller[s][m] = "reading" /\ caller' \in PerCall(States)
      /\ caller'[s][m] = IF stream[s][m][taken[s][m] + 1].final THEN "finished" ELSE "yielded"
      /\ \A r \in Ids, n \in Submissions : r # s \/ n # m => caller'[r][n] = caller[r][n]
      /\ taken' \in PerCall(Nat) /\ taken'[s][m] = taken[s][m] + 1
      /\ \A r \in Ids, n \in Submissions : r # s \/ n # m => taken'[r][n] = taken[r][n]
      /\ UNCHANGED <<serviceVars, streams, stream, outq, batches, routeVars, closeVars>>
  BY GetEffect
<1>2. Types'
  <2>1. cmds' \in [Ids -> Seq(Orders)] /\ sent' \in [Ids -> SUBSET Submissions]
        /\ streams' \in [Ids -> 0 .. MaxAdds]
    BY <1>1 DEF BaseInv, Types, serviceVars
  <2>2. QED
    BY <1>1, <2>1, CallerTypes DEF BaseInv, serviceVars, closeVars
<1>3. ASSUME NEW r \in Ids, NEW n \in Submissions
      PROVE  (caller'[r][n] \in Holding <=> streams'[r] = n) /\ taken'[r][n] <= Len(stream'[r][n])
  <2>1. (caller[r][n] \in Holding <=> streams[r] = n) /\ taken[r][n] <= Len(stream[r][n])
    BY DEF BaseInv, HoldInv
  <2>2. CASE r = s /\ n = m
    <3>1. caller'[s][m] \in Holding
      BY <1>1, HoldingStates
    <3>2. taken[s][m] + 1 <= Len(stream[s][m])
      BY <1>1
    <3>3. QED
      BY <1>1, <2>1, <2>2, <3>1, <3>2, HoldingStates
  <2>3. CASE r # s \/ n # m
    BY <1>1, <2>1, <2>3
  <2>4. QED
    BY <2>2, <2>3
<1>4. QED
  BY <1>2, <1>3 DEF BaseInv, HoldInv, Holding, Active

\* The other steps of a caller.
LEMMA CallerBase ==
    ASSUME BaseInv, NEW s \in Ids, NEW m \in Submissions,
           CheckOpen(s, m) \/ CallerStep(s, m) \/ Quit(s, m)
    PROVE  BaseInv'
<1> USE DEF RestOfClient, serviceVars, routeVars, closeVars
<1>0. cmds \in [Ids -> Seq(Orders)] /\ sent \in [Ids -> SUBSET Submissions] /\ Types
  BY DEF BaseInv, Types
<1>1. CASE CheckOpen(s, m)
  <2>1. PICK to \in {"checked", "raised"} : to = IF close = "open" THEN "checked" ELSE "raised"
    OBVIOUS
  <2>2. Moves(s, m, "idle", to) /\ to \in States /\ to \notin Holding /\ "idle" \notin Holding
    BY <1>1, <2>1, HoldingStates DEF CheckOpen
  <2>3. QED
    BY <1>0, <1>1, <2>2, MoveHolds DEF CheckOpen
<1>2. CASE PutAdd(s, m)
  <2>1. CASE Moves(s, m, "registered", "leaked") /\ UNCHANGED serviceVars
    BY <1>0, <1>2, <2>1, MoveHolds, HoldingStates DEF PutAdd
  <2>2. CASE Moves(s, m, "registered", "reading") /\ SendAdd(s, m)
    <3>1. /\ cmds' \in [Ids -> Seq(Orders)] /\ sent' \in [Ids -> SUBSET Submissions]
          /\ UNCHANGED <<live, outs, closed>>
      BY <1>0, <2>2, SendAddEffect
    <3>2. QED
      BY <1>2, <2>2, <3>1, MoveHolds, HoldingStates DEF PutAdd
  <2>3. QED
    BY <1>2, <2>1, <2>2 DEF PutAdd
<1>3. CASE Resume(s, m)
  BY <1>0, <1>3, MoveHolds, HoldingStates DEF Resume
<1>4. CASE Quit(s, m)
  <2>1. PICK from \in {"reading", "yielded", "finished"} : Moves(s, m, from, AfterQuit(from))
    BY <1>4 DEF Quit
  <2>2. AfterQuit(from) \in {"dropping", "aborting"}
    BY DEF AfterQuit
  <2>3. from \in Holding /\ AfterQuit(from) \in Holding /\ AfterQuit(from) \in States
    BY <2>2, HoldingStates
  <2>4. QED
    BY <1>0, <1>4, <2>1, <2>3, MoveHolds DEF Quit
<1>5. CASE PutAbort(s, m)
  <2>1. CASE close = "closed"
    BY <1>0, <1>5, <2>1, MoveHolds, HoldingStates DEF PutAbort
  <2>2. CASE close # "closed"
    <3>1. Moves(s, m, "aborting", "dropping") /\ SendAbort(s)
      BY <1>5, <2>2 DEF PutAbort
    <3>2. cmds' \in [Ids -> Seq(Orders)] /\ UNCHANGED <<sent, live, outs, closed>>
      BY <1>0, <3>1, SendAbortEffect
    <3>3. QED
      BY <1>0, <1>5, <3>1, <3>2, MoveHolds, HoldingStates DEF PutAbort
  <2>3. QED
    BY <2>1, <2>2
<1>6. QED
  BY <1>1, <1>2, <1>3, <1>4, <1>5, RegisterBase, GetBase, FinishStreamBase DEF CallerStep

\* What the router does, with names for its parts: the event e leaves the queue, and
\* if it is an output of an id with a stream, that stream gets it.
RoutedTo(e, m) ==
    /\ e \in Events /\ outq # <<>> /\ e = Head(outq) /\ outq' = Tail(outq)
    /\ m = IF e.metrics THEN 0 ELSE streams[e.id]
    /\ seen' = seen \cup ({e.batch} \ {NoBatch})
    /\ total' = IF Counts(e.batch) THEN total + 1 ELSE total
    /\ m = 0 => stream' = stream
    /\ m # 0 => /\ ~e.metrics /\ e \in Outputs /\ m \in Submissions
                /\ stream' \in PerCall(Seq(Items))
                /\ stream'[e.id][m] = Append(stream[e.id][m], [sub |-> e.sub, final |-> e.final])
                /\ \A r \in Ids, n \in Submissions : r # e.id \/ n # m => stream'[r][n] = stream[r][n]
    /\ UNCHANGED <<serviceVars, caller, streams, taken, batches, closeVars>>

\* Every Route is such a step.
LEMMA RouteEffect ==
    ASSUME Types, Route
    PROVE  \E e, m : RoutedTo(e, m)
<1> DEFINE e == Head(outq)
           m == IF e.metrics THEN 0 ELSE streams[e.id]
<1>1. /\ outq # <<>> /\ outq' = Tail(outq)
      /\ seen' = seen \cup ({e.batch} \ {NoBatch})
      /\ total' = IF Counts(e.batch) THEN total + 1 ELSE total
      /\ stream' = IF m = 0 THEN stream
                   ELSE [stream EXCEPT ![e.id][m] = Append(@, [sub |-> e.sub, final |-> e.final])]
      /\ UNCHANGED <<serviceVars, caller, streams, taken, batches, closeVars>>
  BY DEF Route, StreamOf
<1>2. outq \in Seq(Events)
  BY DEF Types, Events
<1>3. e \in Events
  BY <1>1, <1>2, TailPositions
<1>4. (e \in Outputs /\ ~e.metrics) \/ (e \in Reports /\ e.metrics)
  <2> HIDE DEF e
  <2>1. \A x \in Outputs : ~x.metrics
    BY DEF Outputs
  <2>2. \A x \in Reports : x.metrics
    BY DEF Reports
  <2>3. QED
    BY <1>3, <2>1, <2>2 DEF Events
<1>5. m # 0 => ~e.metrics /\ e \in Outputs /\ m = streams[e.id]
  BY <1>4
<1>6. e \in Outputs => e.id \in Ids /\ [sub |-> e.sub, final |-> e.final] \in Items
  BY DEF Outputs, Items
<1>7. ASSUME m # 0
      PROVE  /\ m \in Submissions /\ stream' \in PerCall(Seq(Items))
             /\ stream'[e.id][m] = Append(stream[e.id][m], [sub |-> e.sub, final |-> e.final])
             /\ \A r \in Ids, n \in Submissions : r # e.id \/ n # m => stream'[r][n] = stream[r][n]
  <2>1. PICK s \in Ids : s = e.id
    BY <1>5, <1>6, <1>7
  <2>2. streams[s] \in 0 .. MaxAdds
    BY DEF Types
  <2>3. m \in Submissions
    BY <1>5, <1>7, <2>1, <2>2, Numbers
  <2>4. PICK item \in Items : item = [sub |-> e.sub, final |-> e.final]
    BY <1>5, <1>6, <1>7
  <2> HIDE DEF m, e
  <2>5. stream \in PerCall(Seq(Items)) /\ stream[s][m] \in Seq(Items)
    BY <2>3 DEF Types, PerCall
  <2>6. PICK new \in Seq(Items) : new = Append(stream[s][m], item)
    BY <2>5, AppendPositions
  <2>7. stream' = With(stream, s, m, new)
    <3>1. stream' = [stream EXCEPT ![s][m] = Append(@, item)]
      BY <1>1, <1>7, <2>1, <2>4
    <3>2. QED
      BY <2>3, <2>5, <2>6, <3>1 DEF With, PerCall
  <2>8. /\ stream' \in PerCall(Seq(Items)) /\ stream'[s][m] = new
        /\ \A r \in Ids, n \in Submissions : r # s \/ n # m => stream'[r][n] = stream[r][n]
    <3>1. PICK k \in Submissions : k = m
      BY <2>3
    <3>2. stream' = With(stream, s, k, new)
      BY <2>7, <3>1
    <3>3. /\ stream' \in PerCall(Seq(Items)) /\ stream'[s][k] = new
          /\ \A r \in Ids, n \in Submissions : r # s \/ n # k => stream'[r][n] = stream[r][n]
      BY <2>5, <3>2, Put
    <3>4. QED
      BY <3>1, <3>3
  <2>9. QED
    BY <2>1, <2>3, <2>4, <2>6, <2>8
<1> HIDE DEF m
<1>8. RoutedTo(e, m)
  BY <1>1, <1>3, <1>5, <1>7 DEF RoutedTo, m
<1>9. QED
  BY <1>8

\* The router reads an event.
LEMMA RouteBase ==
    ASSUME BaseInv, Route
    PROVE  BaseInv'
<1>0. Types
  BY DEF BaseInv
<1>1. PICK e, m : RoutedTo(e, m)
  BY <1>0, RouteEffect
<1>2. outq \in Seq(Events) /\ outq # <<>> /\ outq' = Tail(outq)
      /\ UNCHANGED <<serviceVars, caller, streams, taken, batches, closeVars>>
  BY <1>0, <1>1 DEF RoutedTo, Types, Events
<1>3. outq' \in Seq(Outputs \cup Reports)
  BY <1>2, TailPositions DEF Events
<1>4. stream' \in PerCall(Seq(Items))
  BY <1>0, <1>1 DEF RoutedTo, Types
<1>5. Types'
  BY <1>0, <1>2, <1>3, <1>4 DEF Types, serviceVars, closeVars
<1>6. ASSUME NEW r \in Ids, NEW n \in Submissions
      PROVE  (caller'[r][n] \in Holding <=> streams'[r] = n) /\ taken'[r][n] <= Len(stream'[r][n])
  <2>1. (caller[r][n] \in Holding <=> streams[r] = n) /\ taken[r][n] <= Len(stream[r][n])
    BY DEF BaseInv, HoldInv
  <2>2. CASE stream'[r][n] = stream[r][n]
    BY <1>2, <2>1, <2>2
  <2>3. CASE stream'[r][n] # stream[r][n]
    <3>1. m # 0 /\ r = e.id /\ n = m
      BY <1>1, <2>3 DEF RoutedTo
    <3>2. e \in Outputs /\ stream'[r][n] = Append(stream[r][n], [sub |-> e.sub, final |-> e.final])
      BY <1>1, <3>1 DEF RoutedTo
    <3>3. stream[r][n] \in Seq(Items) /\ taken[r][n] \in Nat
      BY <1>0 DEF Types, PerCall
    <3>4. Len(stream'[r][n]) = Len(stream[r][n]) + 1 /\ Len(stream[r][n]) \in Nat
      <4>1. [sub |-> e.sub, final |-> e.final] \in Items
        BY <3>2 DEF Outputs, Items
      <4>2. QED
        BY <3>2, <3>3, <4>1, AppendPositions
    <3>5. taken[r][n] <= Len(stream'[r][n])
      BY <2>1, <3>3, <3>4
    <3>6. QED
      BY <1>2, <2>1, <3>5
  <2>4. QED
    BY <2>2, <2>3
<1>7. QED
  BY <1>5, <1>6 DEF BaseInv, HoldInv, Holding, Active

\* The names of batches.
LEMMA BatchSets ==
    ASSUME Types
    PROVE  /\ Executed \subseteq Keys /\ Keys \subseteq Batches
           /\ NoBatch \in Batches /\ NoBatch \notin Keys
           /\ LastBatches \subseteq Executed
<1>1. NoBatch \notin Keys
  BY DEF NoBatch, Keys
<1>2. Executed \subseteq Keys /\ Keys \subseteq Batches /\ NoBatch \in Batches
  BY DEF Executed, Keys, Batches
<1>3. ASSUME NEW k \in Ranks, batches[k] > 0
      PROVE  <<k, batches[k]>> \in Executed
  <2>1. batches[k] \in 1 .. MaxBatches
    BY <1>3, ClientConfig DEF Types
  <2> QED
    BY <2>1 DEF Executed
<1> QED
  BY <1>1, <1>2, <1>3 DEF LastBatches

\* A rank executes its next batch.
LEMMA NextBatch ==
    ASSUME Types, NEW k \in Ranks, batches[k] < MaxBatches, batches' = [batches EXCEPT ![k] = @ + 1]
    PROVE  /\ <<k, batches[k] + 1>> \in Keys \ Executed
           /\ batches' \in [Ranks -> 0 .. MaxBatches]
           /\ Executed' = Executed \cup {<<k, batches[k] + 1>>}
<1>1. /\ batches \in [Ranks -> 0 .. MaxBatches] /\ batches[k] + 1 \in 1 .. MaxBatches
      /\ \A j \in Ranks : batches'[j] = IF j = k THEN batches[k] + 1 ELSE batches[j]
  BY ClientConfig DEF Types
<1>2. <<k, batches[k] + 1>> \in Keys \ Executed /\ batches' \in [Ranks -> 0 .. MaxBatches]
  BY <1>1, ClientConfig DEF Keys, Executed
<1>3. ASSUME NEW j \in Ranks, NEW b \in 1 .. MaxBatches
      PROVE  b <= batches'[j] <=> b <= batches[j] \/ <<j, b>> = <<k, batches[k] + 1>>
  <2>1. batches[j] \in 0 .. MaxBatches /\ b \in Nat /\ batches[k] \in Nat
    BY <1>1, ClientConfig
  <2> QED
    BY <1>1, <2>1
<1>4. \A x : x \in Executed' <=> x \in Executed \/ x = <<k, batches[k] + 1>>
  <2>1. \A x : x \in Executed' <=> x \in Keys /\ x[2] <= batches'[x[1]]
    BY DEF Executed, Keys
  <2>2. \A x : x \in Executed <=> x \in Keys /\ x[2] <= batches[x[1]]
    BY DEF Executed, Keys
  <2>3. \A x \in Keys : x = <<x[1], x[2]>> /\ x[1] \in Ranks /\ x[2] \in 1 .. MaxBatches
    BY DEF Keys
  <2> QED
    BY <1>2, <1>3, <2>1, <2>2, <2>3
<1> QED
  BY <1>2, <1>4

\* The engine makes a step and forwards its outputs.
LEMMA EngineBase ==
    ASSUME BaseInv, Shape, NEW b \in Batches, Forward(b), UNCHANGED <<callVars, batches, closeVars>>
    PROVE  BaseInv'
<1> USE DEF callVars, closeVars
<1>0. Types
  BY DEF BaseInv
<1>1. PICK es \in Seq(Outputs) : outq' = outq \o es
  BY <1>0, ForwardEmits
<1>2. outq' \in Seq(Outputs \cup Reports)
  <2>1. outq \in Seq(Events)
    BY <1>0 DEF Types, Events
  <2>2. es \in Seq(Events)
    BY DEF Events
  <2>3. QED
    BY <1>1, <2>1, <2>2, ConcatPositions DEF Events
<1>3. Types'
  BY <1>0, <1>2 DEF Types, Shape
<1>4. HoldInv'
  BY DEF BaseInv, HoldInv, Holding, Active
<1>5. QED
  BY <1>3, <1>4 DEF BaseInv

\* The steps of the engine in the client's specification.
LEMMA EngineActions ==
    ASSUME Types, EngineEnds \/ \E s \in Ids : EngineStep(s)
    PROVE  /\ Shape /\ UNCHANGED <<callVars, batches, routeVars, closeVars>>
           /\ \E b \in LastBatches \cup {NoBatch} : Forward(b)
           /\ \/ Stop \/ Fail
              \/ \E s \in Ids : Accept(s) \/ Reject(s) \/ Abort(s) \/ Progress(s) \/ Answer(s)
<1>1. \/ Stop \/ Fail
      \/ \E s \in Ids : Accept(s) \/ Reject(s) \/ Abort(s) \/ Progress(s) \/ Answer(s)
  BY DEF EngineEnds, EngineStep, HandleCommand, Serve
<1>2. UNCHANGED <<callVars, batches, routeVars, closeVars>> /\ \E b \in LastBatches \cup {NoBatch} : Forward(b)
  BY DEF EngineEnds, EngineStep, HandleCommand, Serve
<1>3. QED
  BY <1>1, <1>2, EngineShape

\* Types and streams hold at the start.
LEMMA BaseInvInit == Init => BaseInv
<1> SUFFICES ASSUME Init PROVE BaseInv
  OBVIOUS
<1> USE DEF Init, ServiceInit
<1>1. /\ cmds \in [Ids -> Seq(Orders)] /\ sent \in [Ids -> SUBSET Submissions]
      /\ live \in [Ids -> 0 .. MaxAdds] /\ streams \in [Ids -> 0 .. MaxAdds]
  BY Numbers
<1>2. outs \in PerCall(Seq(BOOLEAN)) /\ stream \in PerCall(Seq(Items)) /\ taken \in PerCall(Nat)
  BY DEF PerCall
<1>3. caller \in PerCall(States)
  BY DEF PerCall, States
<1>4. IsFiniteSet({r \in Ids : live[r] # 0})
  <2>1. {r \in Ids : live[r] # 0} = {}
    OBVIOUS
  <2>2. QED
    BY <2>1, FS_EmptySet
<1>5. closed \in BOOLEAN /\ closed = (close # "open") /\ close \in {"open", "joining", "closed"}
      /\ outq \in Seq(Outputs \cup Reports) /\ batches \in [Ranks -> 0 .. MaxBatches]
  <2>1. closed = FALSE /\ close = "open" /\ outq \in Seq(Outputs \cup Reports) /\ batches \in [Ranks -> 0 .. MaxBatches]
    BY ClientConfig
  <2>2. QED
    BY <2>1
<1>6. Types
  BY <1>1, <1>2, <1>3, <1>4, <1>5 DEF Types
<1>7. ASSUME NEW r \in Ids, NEW n \in Submissions
      PROVE  (caller[r][n] \in Holding <=> streams[r] = n) /\ taken[r][n] <= Len(stream[r][n])
  BY HoldingStates, Numbers
<1>8. QED
  BY <1>6, <1>7 DEF BaseInv, HoldInv

\* Every step keeps types and streams.
LEMMA BaseInvNext == BaseInv /\ [Next]_vars => BaseInv'
<1> SUFFICES ASSUME BaseInv, [Next]_vars PROVE BaseInv'
  OBVIOUS
<1>0. Types /\ HoldInv
  BY DEF BaseInv
<1> USE DEF serviceVars, callVars, routeVars, closeVars
<1>1. ASSUME UNCHANGED callVars, cmds' \in [Ids -> Seq(Orders)], UNCHANGED <<sent, live, outs>>,
             outq' \in Seq(Outputs \cup Reports), batches' \in [Ranks -> 0 .. MaxBatches],
             closed' \in BOOLEAN /\ closed' = (close' # "open") /\ close' \in {"open", "joining", "closed"}
      PROVE  BaseInv'
  <2>1. Types'
    BY <1>0, <1>1 DEF Types
  <2>2. HoldInv'
    BY <1>0, <1>1 DEF HoldInv, Holding, Active
  <2>3. QED
    BY <2>1, <2>2 DEF BaseInv
<1>2. cmds \in [Ids -> Seq(Orders)] /\ outq \in Seq(Outputs \cup Reports) /\ batches \in [Ranks -> 0 .. MaxBatches]
      /\ closed \in BOOLEAN /\ closed = (close # "open") /\ close \in {"open", "joining", "closed"}
  BY <1>0 DEF Types
<1>3. CASE UNCHANGED vars
  BY <1>1, <1>2, <1>3 DEF vars
<1>4. ASSUME NEW c \in Calls, CheckOpen(c[1], c[2]) \/ CallerStep(c[1], c[2]) \/ Quit(c[1], c[2])
      PROVE  BaseInv'
  <2>1. PICK s \in Ids, m \in Submissions : s = c[1] /\ m = c[2]
    BY DEF Calls
  <2>2. QED
    BY <1>4, <2>1, CallerBase
<1>5. CASE CloseBegin
  BY <1>1, <1>2, <1>5 DEF CloseBegin, SendShutdown
<1>6. CASE CloseEnd
  BY <1>1, <1>2, <1>6 DEF CloseEnd
<1>7. ASSUME NEW k \in Ranks, ReportBatch(k)
      PROVE  BaseInv'
  <2> DEFINE key == <<k, batches[k] + 1>>
  <2>1. /\ outq' = Append(outq, [metrics |-> TRUE, batch |-> key])
        /\ batches[k] < MaxBatches /\ batches' = [batches EXCEPT ![k] = @ + 1]
        /\ UNCHANGED <<serviceVars, callVars, closeVars>>
    BY <1>7 DEF ReportBatch
  <2>2. key \in Keys /\ batches' \in [Ranks -> 0 .. MaxBatches]
    BY <1>0, <2>1, NextBatch
  <2> HIDE DEF key
  <2>3. [metrics |-> TRUE, batch |-> key] \in Outputs \cup Reports
    BY <2>2 DEF Reports
  <2>4. outq' \in Seq(Outputs \cup Reports)
    BY <1>2, <2>1, <2>3, AppendPositions
  <2>5. QED
    BY <1>1, <1>2, <2>1, <2>2, <2>4
<1>8. ASSUME NEW s \in Ids, CallAbort(s)
      PROVE  BaseInv'
  <2>1. UNCHANGED <<callVars, outq, batches, close>>
    BY <1>8 DEF CallAbort
  <2>2. cmds' \in [Ids -> Seq(Orders)] /\ UNCHANGED <<sent, live, outs, closed>>
    <3>1. CASE close = "open"
      BY <1>0, <1>8, <3>1, SendAbortEffect DEF CallAbort
    <3>2. CASE close # "open"
      BY <1>2, <1>8, <3>2 DEF CallAbort
    <3>3. QED
      BY <3>1, <3>2
  <2>3. QED
    BY <1>1, <1>2, <2>1, <2>2
<1>9. ASSUME EngineEnds \/ \E s \in Ids : EngineStep(s)
      PROVE  BaseInv'
  <2>1. Shape /\ UNCHANGED <<callVars, batches, closeVars>>
    BY <1>0, <1>9, EngineActions
  <2>2. PICK b \in LastBatches \cup {NoBatch} : Forward(b)
    BY <1>0, <1>9, EngineActions
  <2>3. b \in Batches
    BY <1>0, BatchSets
  <2>4. QED
    BY <2>1, <2>2, <2>3, EngineBase
<1>10. QED
  BY <1>3, <1>4, <1>5, <1>6, <1>7, <1>8, <1>9, RouteBase DEF Next

-----------------------------------------------------------------------------
(* Batches *)

\* The fields of an event.
LEMMA EventFields ==
    /\ \A x \in Outputs : ~x.metrics /\ x.batch \in Batches /\ x.id \in Ids /\ x.sub \in Submissions
                          /\ x.final \in BOOLEAN
    /\ \A x \in Reports : x.metrics /\ x.batch \in Batches
    /\ \A x \in Events : x.batch \in Batches /\ (x.metrics => x \in Reports) /\ (~x.metrics => x \in Outputs)
<1>1. \A x \in Outputs : ~x.metrics /\ x.batch \in Batches /\ x.id \in Ids /\ x.sub \in Submissions
  BY DEF Outputs
<1>2. \A x \in Outputs : x.final \in BOOLEAN
  BY DEF Outputs
<1>3. \A x \in Reports : x.metrics /\ x.batch \in Batches
  BY DEF Reports, Batches
<1>4. QED
  BY <1>1, <1>2, <1>3 DEF Events

\* A batch is reported.
LEMMA ReportBatchInv ==
    ASSUME Types, BatchInv, NEW k \in Ranks, ReportBatch(k)
    PROVE  BatchInv'
<1> DEFINE key == <<k, batches[k] + 1>>
           e == [metrics |-> TRUE, batch |-> key]
           z == Len(outq) + 1
<1>1. /\ outq' = Append(outq, e) /\ UNCHANGED <<seen, total>>
      /\ batches[k] < MaxBatches /\ batches' = [batches EXCEPT ![k] = @ + 1]
  BY DEF ReportBatch, routeVars
<1>0. key \in Keys \ Executed /\ Executed' = Executed \cup {key} /\ NoBatch \notin Keys
  BY <1>1, NextBatch, BatchSets
<1> HIDE DEF key
<1>2. outq \in Seq(Events) /\ e \in Events /\ e.batch = key
  BY <1>0 DEF Types, Events, Reports
<1> HIDE DEF e
<1>3. /\ DOMAIN outq' = DOMAIN outq \cup {z} /\ outq'[z] = e /\ z \in Nat
      /\ \A i \in DOMAIN outq : outq'[i] = outq[i] /\ i \in Nat /\ i < z
  BY <1>1, <1>2, AppendPositions
<1> HIDE DEF z
<1>4. /\ seen \subseteq Executed /\ total \in Nat /\ IsFiniteSet(seen) /\ total = Cardinality(seen)
      /\ \A i \in DOMAIN outq : outq[i].batch \in Executed \cup {NoBatch}
      /\ \A i \in DOMAIN outq : outq[i].metrics => outq[i].batch \in Executed \ seen
      /\ \A b \in Executed : b \in seen \/ \E i \in DOMAIN outq : outq[i].metrics /\ outq[i].batch = b
      /\ \A i, j \in DOMAIN outq : outq[i].metrics /\ outq[j].batch = outq[i].batch => i <= j
  BY DEF BatchInv
<1>5. \A i \in DOMAIN outq : outq[i].batch \in Batches
  BY <1>2, EventFields
<1>6. e.metrics
  BY DEF e
<1>7. seen' \subseteq Executed' /\ total' \in Nat /\ IsFiniteSet(seen') /\ total' = Cardinality(seen')
  BY <1>0, <1>1, <1>4
<1>8. \A i \in DOMAIN outq' : outq'[i].batch \in Executed' \cup {NoBatch}
  BY <1>0, <1>1, <1>2, <1>3, <1>4
<1>9. \A i \in DOMAIN outq' : outq'[i].metrics => outq'[i].batch \in Executed' \ seen'
  BY <1>0, <1>1, <1>2, <1>3, <1>4
<1>10. ASSUME NEW b \in Executed'
       PROVE  b \in seen' \/ \E i \in DOMAIN outq' : outq'[i].metrics /\ outq'[i].batch = b
  <2>1. CASE b = key
    BY <1>2, <1>3, <1>6, <2>1
  <2>2. CASE b \in Executed
    BY <1>1, <1>3, <1>4, <2>2
  <2>3. QED
    BY <1>0, <2>1, <2>2
<1>11. ASSUME NEW i \in DOMAIN outq', NEW j \in DOMAIN outq', outq'[i].metrics,
              outq'[j].batch = outq'[i].batch
       PROVE  i <= j
  <2>1. CASE i \in DOMAIN outq /\ j \in DOMAIN outq
    BY <1>3, <1>4, <1>11, <2>1
  <2>2. CASE i \in DOMAIN outq /\ j = z
    BY <1>3, <2>2
  <2>3. CASE i = z /\ j \in DOMAIN outq
    BY <1>0, <1>2, <1>3, <1>4, <1>11, <2>3
  <2>4. CASE i = z /\ j = z
    BY <1>3, <2>4
  <2>5. QED
    BY <1>3, <2>1, <2>2, <2>3, <2>4
<1>12. QED
  BY <1>7, <1>8, <1>9, <1>10, <1>11 DEF BatchInv

\* Outputs of no batch or of the last one go on the queue.
LEMMA ForwardBatchInv ==
    ASSUME Types, BatchInv, NEW b \in LastBatches \cup {NoBatch}, NEW es \in Seq(Outputs), outq' = outq \o es,
           \A i \in DOMAIN es : es[i].batch = b, UNCHANGED <<batches, seen, total>>
    PROVE  BatchInv'
<1>1. outq \in Seq(Events) /\ batches \in [Ranks -> 0 .. MaxBatches] /\ es \in Seq(Events)
  BY DEF Types, Events
<1>2. Joined(outq, es, outq')
  BY <1>1, ConcatPositions
<1>3. /\ \A i \in DOMAIN outq : i \in Nat /\ i <= Len(outq) /\ i \in DOMAIN outq' /\ outq'[i] = outq[i]
      /\ \A i \in DOMAIN outq' : \/ i \in DOMAIN outq
                                 \/ /\ i > Len(outq) /\ i \in Nat
                                    /\ outq'[i] \in Outputs /\ outq'[i].batch = b
      /\ Len(outq) \in Nat
  <2>1. /\ \A i \in DOMAIN outq : i \in Nat /\ i <= Len(outq) /\ i \in DOMAIN outq' /\ outq'[i] = outq[i]
        /\ Len(outq) \in Nat
    BY <1>2 DEF Joined
  <2>2. ASSUME NEW i \in DOMAIN outq', i \notin DOMAIN outq
        PROVE  i > Len(outq) /\ i \in Nat /\ outq'[i] \in Outputs /\ outq'[i].batch = b
    <3>1. i \in Nat /\ i > Len(outq) /\ i - Len(outq) \in DOMAIN es
      BY <1>2, <2>2 DEF Joined
    <3>2. Len(outq) + (i - Len(outq)) = i
      BY <2>1, <3>1
    <3>3. outq'[i] = es[i - Len(outq)]
      BY <1>2, <3>1, <3>2 DEF Joined
    <3>4. es[i - Len(outq)] \in Outputs
      BY <3>1
    <3>5. QED
      BY <3>1, <3>3, <3>4
  <2>3. QED
    BY <2>1, <2>2
<1>4. /\ seen \subseteq Executed /\ total \in Nat /\ IsFiniteSet(seen) /\ total = Cardinality(seen)
      /\ \A i \in DOMAIN outq : outq[i].batch \in Executed \cup {NoBatch}
      /\ \A i \in DOMAIN outq : outq[i].metrics => outq[i].batch \in Executed \ seen
      /\ \A x \in Executed : x \in seen \/ \E i \in DOMAIN outq : outq[i].metrics /\ outq[i].batch = x
      /\ \A i, j \in DOMAIN outq : outq[i].metrics /\ outq[j].batch = outq[i].batch => i <= j
  BY DEF BatchInv
<1>5. b \in Executed \cup {NoBatch}
  BY BatchSets
<1>6. \A i \in DOMAIN outq' : outq'[i].batch \in Executed \cup {NoBatch}
  BY <1>3, <1>4, <1>5
<1>7. \A i \in DOMAIN outq' : outq'[i].metrics => i \in DOMAIN outq
  BY <1>3, EventFields
<1>8. \A i \in DOMAIN outq' : outq'[i].metrics => outq'[i].batch \in Executed \ seen
  BY <1>3, <1>4, <1>7
<1>9. \A x \in Executed : x \in seen \/ \E i \in DOMAIN outq' : outq'[i].metrics /\ outq'[i].batch = x
  BY <1>3, <1>4
<1>10. \A i, j \in DOMAIN outq' : outq'[i].metrics /\ outq'[j].batch = outq'[i].batch => i <= j
  BY <1>3, <1>4, <1>7
<1>11. QED
  BY <1>4, <1>6, <1>8, <1>9, <1>10 DEF BatchInv, Executed

\* The router reads an event: a report counts, an output with metrics comes after
\* the report of its batch and does not.
LEMMA RouteBatchInv ==
    ASSUME Types, BatchInv, Route
    PROVE  BatchInv'
<1>1. PICK e, m : RoutedTo(e, m)
  BY RouteEffect
<1>2. /\ outq \in Seq(Events) /\ outq # <<>> /\ outq' = Tail(outq) /\ e = Head(outq) /\ e \in Events
      /\ seen' = seen \cup ({e.batch} \ {NoBatch}) /\ Executed' = Executed
      /\ total' = IF Counts(e.batch) THEN total + 1 ELSE total
  BY <1>1 DEF RoutedTo, Types, Events, Executed
<1>3. /\ 1 \in DOMAIN outq /\ outq[1] = e
      /\ \A i \in DOMAIN outq' : i \in Nat \ {0} /\ i + 1 \in DOMAIN outq /\ outq'[i] = outq[i + 1]
      /\ \A i \in DOMAIN outq : /\ i \in Nat \ {0}
                                /\ i # 1 => i - 1 \in DOMAIN outq' /\ outq[i] = outq'[i - 1]
  BY <1>2, TailPositions
<1>4. /\ seen \subseteq Executed /\ total \in Nat /\ IsFiniteSet(seen) /\ total = Cardinality(seen)
      /\ \A i \in DOMAIN outq : outq[i].batch \in Executed \cup {NoBatch}
      /\ \A i \in DOMAIN outq : outq[i].metrics => outq[i].batch \in Executed \ seen
      /\ \A x \in Executed : x \in seen \/ \E i \in DOMAIN outq : outq[i].metrics /\ outq[i].batch = x
      /\ \A i, j \in DOMAIN outq : outq[i].metrics /\ outq[j].batch = outq[i].batch => i <= j
  BY DEF BatchInv
<1>5. \A i \in DOMAIN outq' : outq'[i].batch \in Executed' \cup {NoBatch}
  BY <1>2, <1>3, <1>4
<1>6. \A i, j \in DOMAIN outq' : outq'[i].metrics /\ outq'[j].batch = outq'[i].batch => i <= j
  <2> SUFFICES ASSUME NEW i \in DOMAIN outq', NEW j \in DOMAIN outq', outq'[i].metrics,
                      outq'[j].batch = outq'[i].batch
               PROVE  i <= j
    OBVIOUS
  <2>1. i + 1 <= j + 1 /\ i \in Nat /\ j \in Nat
    BY <1>3, <1>4
  <2>2. QED
    BY <2>1
<1>7. \A i \in DOMAIN outq' : outq'[i].metrics => outq'[i].batch \in Executed \ seen /\ outq'[i].batch # e.batch
  <2> SUFFICES ASSUME NEW i \in DOMAIN outq', outq'[i].metrics
               PROVE  outq'[i].batch \in Executed \ seen /\ outq'[i].batch # e.batch
    OBVIOUS
  <2>1. outq'[i].batch = e.batch => i + 1 <= 1
    BY <1>3, <1>4
  <2>2. QED
    BY <1>3, <1>4, <2>1
<1>8. CASE e.metrics
  <2>1. e.batch \in Executed \ seen
    BY <1>3, <1>4, <1>8
  <2>2. e.batch # NoBatch /\ seen' = seen \cup {e.batch} /\ Counts(e.batch)
    BY <1>2, <2>1, BatchSets DEF Counts
  <2>3. IsFiniteSet(seen') /\ Cardinality(seen') = total + 1 /\ total' = total + 1 /\ total' \in Nat
    <3>1. IsFiniteSet(seen \cup {e.batch}) /\ Cardinality(seen \cup {e.batch}) = Cardinality(seen) + 1
      BY <1>4, <2>1, FS_AddElement
    <3>2. total' = total + 1 /\ total' \in Nat
      BY <1>2, <1>4, <2>2
    <3>3. total + 1 = Cardinality(seen) + 1
      BY <1>4
    <3>4. QED
      BY <2>2, <3>1, <3>2, <3>3
  <2>4. seen' \subseteq Executed'
    BY <1>2, <1>4, <2>1, <2>2
  <2>5. \A i \in DOMAIN outq' : outq'[i].metrics => outq'[i].batch \in Executed' \ seen'
    BY <1>2, <1>7, <2>2
  <2>6. ASSUME NEW x \in Executed'
        PROVE  x \in seen' \/ \E i \in DOMAIN outq' : outq'[i].metrics /\ outq'[i].batch = x
    <3>1. CASE x \in seen'
      BY <3>1
    <3>2. CASE x \notin seen'
      <4>1. x \notin seen /\ x # e.batch
        BY <2>2, <3>2
      <4>2. PICK i \in DOMAIN outq : outq[i].metrics /\ outq[i].batch = x
        BY <1>2, <1>4, <4>1
      <4>3. i # 1
        BY <1>3, <4>1, <4>2
      <4>4. QED
        BY <1>3, <4>2, <4>3
    <3>3. QED
      BY <3>1, <3>2
  <2>7. QED
    BY <1>5, <1>6, <2>3, <2>4, <2>5, <2>6 DEF BatchInv
<1>9. CASE ~e.metrics
  <2>1. e.batch = NoBatch \/ e.batch \in seen
    <3>1. SUFFICES ASSUME e.batch # NoBatch, e.batch \notin seen PROVE FALSE
      OBVIOUS
    <3>2. e.batch \in Executed
      <4>1. e.batch \in Executed \cup {NoBatch}
        BY <1>2, <1>3, <1>4, EventFields
      <4>2. QED
        BY <1>2, <3>1, <4>1
    <3>3. PICK i \in DOMAIN outq : outq[i].metrics /\ outq[i].batch = e.batch
      BY <1>4, <3>1, <3>2
    <3>4. i <= 1 /\ i \in Nat \ {0}
      BY <1>3, <1>4, <3>3
    <3>5. i = 1
      BY <3>4
    <3>6. QED
      BY <1>3, <1>9, <3>3, <3>5
  <2>2. seen' = seen /\ total' = total
    BY <1>2, <2>1 DEF Counts
  <2>3. ASSUME NEW x \in Executed'
        PROVE  x \in seen' \/ \E i \in DOMAIN outq' : outq'[i].metrics /\ outq'[i].batch = x
    <3>1. CASE x \in seen
      BY <2>2, <3>1
    <3>2. CASE x \notin seen
      <4>1. PICK i \in DOMAIN outq : outq[i].metrics /\ outq[i].batch = x
        BY <1>2, <1>4, <3>2
      <4>2. i # 1
        BY <1>3, <1>9, <4>1
      <4>3. QED
        BY <1>3, <4>1, <4>2
    <3>3. QED
      BY <3>1, <3>2
  <2>4. \A i \in DOMAIN outq' : outq'[i].metrics => outq'[i].batch \in Executed' \ seen'
    BY <1>2, <1>7, <2>2
  <2>5. QED
    BY <1>2, <1>4, <1>5, <1>6, <2>2, <2>3, <2>4 DEF BatchInv
<1>10. QED
  BY <1>8, <1>9

\* BatchInv holds at the start.
LEMMA BatchInvInit == Init => BatchInv
<1> SUFFICES ASSUME Init PROVE BatchInv
  OBVIOUS
<1>1. outq = <<>> /\ batches = [k \in Ranks |-> 0] /\ seen = {} /\ total = 0
  BY DEF Init
<1>2. DOMAIN outq = {} /\ Executed = {}
  BY <1>1, ClientConfig DEF Executed
<1>3. IsFiniteSet(seen) /\ total = Cardinality(seen) /\ total \in Nat
  BY <1>1, FS_EmptySet
<1>4. QED
  BY <1>1, <1>2, <1>3 DEF BatchInv

\* Every step keeps it.
LEMMA BatchInvNext == BaseInv /\ BatchInv /\ [Next]_vars => BatchInv'
<1> SUFFICES ASSUME BaseInv, BatchInv, [Next]_vars PROVE BatchInv'
  OBVIOUS
<1>0. Types
  BY DEF BaseInv
<1>1. ASSUME UNCHANGED <<outq, batches, seen, total>>
      PROVE  BatchInv'
  BY <1>1 DEF BatchInv, Executed
<1> USE DEF serviceVars, callVars, routeVars, closeVars, RestOfClient
<1>2. CASE UNCHANGED vars
  BY <1>1, <1>2 DEF vars
<1>3. ASSUME NEW c \in Calls, CheckOpen(c[1], c[2]) \/ CallerStep(c[1], c[2]) \/ Quit(c[1], c[2])
      PROVE  UNCHANGED <<outq, batches, seen, total>>
  BY <1>3 DEF CheckOpen, CallerStep, Quit, Register, PutAdd, Get, Resume, PutAbort, FinishStream
<1>4. ASSUME CloseBegin \/ CloseEnd \/ \E r \in Ids : CallAbort(r)
      PROVE  UNCHANGED <<outq, batches, seen, total>>
  BY <1>4 DEF CloseBegin, CloseEnd, CallAbort
<1>5. ASSUME EngineEnds \/ \E s \in Ids : EngineStep(s)
      PROVE  BatchInv'
  <2>1. Shape /\ UNCHANGED <<batches, seen, total>>
    BY <1>0, <1>5, EngineActions
  <2>2. PICK b \in LastBatches \cup {NoBatch} : Forward(b)
    BY <1>0, <1>5, EngineActions
  <2>3. b \in Batches
    BY <1>0, BatchSets
  <2>4. PICK es \in Seq(Outputs) : outq' = outq \o es /\ \A i \in DOMAIN es : es[i].batch = b
    BY <1>0, <2>1, <2>2, <2>3, ForwardEmits
  <2>5. QED
    BY <1>0, <2>1, <2>4, ForwardBatchInv
<1>6. QED
  BY <1>0, <1>1, <1>2, <1>3, <1>4, <1>5, ReportBatchInv, RouteBatchInv DEF Next

\* Streams are released: only a call under way, or one that raised between the
\* registration and the ADD or at a closed queue, holds a stream.
THEOREM ClientReleasesStreams == Spec => []StreamsAreReleased
<1>1. BaseInv => StreamsAreReleased
  <2> SUFFICES ASSUME BaseInv, NEW r \in Ids, streams[r] # 0
               PROVE  caller[r][streams[r]] \in Active \cup {"registered", "leaked"}
    BY DEF StreamsAreReleased
  <2>1. streams[r] \in 0 .. MaxAdds
    BY DEF BaseInv, Types
  <2>2. streams[r] \in Submissions
    BY <2>1, Numbers
  <2>3. QED
    BY <2>2 DEF BaseInv, HoldInv, Holding
<1>2. QED
  BY <1>1, BaseInvInit, BaseInvNext, PTL DEF Spec

\* Each executed batch is counted once, whatever order outputs and reports take
\* on the queue: _total_batches is the number of batches whose report was read.
THEOREM ClientCountsBatches == Spec => []BatchesCountedOnce
<1>1. BaseInv /\ BatchInv => BatchesCountedOnce
  <2> SUFFICES ASSUME BaseInv, BatchInv PROVE BatchesCountedOnce
    OBVIOUS
  <2>1. outq \in Seq(Events)
    BY DEF BaseInv, Types, Events
  <2>2. ASSUME NEW b \in Executed
        PROVE  b \notin seen <=> \E i \in DOMAIN outq : outq[i] = [metrics |-> TRUE, batch |-> b]
    <3>1. ASSUME NEW i \in DOMAIN outq, outq[i] = [metrics |-> TRUE, batch |-> b]
          PROVE  b \notin seen
      <4>1. outq[i].metrics /\ outq[i].batch = b
        BY <3>1
      <4>2. QED
        BY <4>1 DEF BatchInv
    <3>2. ASSUME b \notin seen
          PROVE  \E i \in DOMAIN outq : outq[i] = [metrics |-> TRUE, batch |-> b]
      <4>1. PICK i \in DOMAIN outq : outq[i].metrics /\ outq[i].batch = b
        BY <3>2 DEF BatchInv
      <4>2. outq[i] \in Reports
        BY <2>1, <4>1, EventFields
      <4>3. outq[i] = [metrics |-> TRUE, batch |-> b]
        BY <4>1, <4>2 DEF Reports
      <4>4. QED
        BY <4>3
    <3>3. QED
      BY <3>1, <3>2
  <2>3. {b \in Executed : ~\E i \in DOMAIN outq : outq[i] = [metrics |-> TRUE, batch |-> b]} = seen
    BY <2>2 DEF BatchInv
  <2>4. total = Cardinality(seen)
    BY DEF BatchInv
  <2>5. QED
    BY <2>3, <2>4 DEF BatchesCountedOnce
<1>2. QED
  BY <1>1, BaseInvInit, BaseInvNext, BatchInvInit, BatchInvNext, PTL DEF Spec

\* The client's variables keep their types, and closed follows close.
THEOREM ClientTypes == Spec => []ClientTypeOK
<1>1. BaseInv /\ BatchInv => ClientTypeOK
  <2> SUFFICES ASSUME BaseInv, BatchInv PROVE ClientTypeOK
    OBVIOUS
  <2>1. ASSUME NEW c \in Calls
        PROVE  taken[c[1]][c[2]] \in 0 .. Len(stream[c[1]][c[2]])
    <3>1. PICK r \in Ids, n \in Submissions : r = c[1] /\ n = c[2]
      BY DEF Calls
    <3>2. taken[r][n] \in Nat /\ stream[r][n] \in Seq(Items) /\ taken[r][n] <= Len(stream[r][n])
      BY DEF BaseInv, Types, HoldInv, PerCall
    <3>3. taken[r][n] \in 0 .. Len(stream[r][n])
      BY <3>2
    <3>4. QED
      BY <3>1, <3>3
  <2>2. \A r \in Ids : streams[r] \in {0} \cup Submissions
    BY Numbers DEF BaseInv, Types
  <2>3. seen \subseteq Executed /\ total \in Nat
    BY DEF BatchInv
  <2>4. close \in {"open", "joining", "closed"} /\ closed = (close # "open")
    BY DEF BaseInv, Types
  <2>5. QED
    BY <2>1, <2>2, <2>3, <2>4 DEF ClientTypeOK
<1>2. QED
  BY <1>1, BaseInvInit, BaseInvNext, BatchInvInit, BatchInvNext, PTL DEF Spec

-----------------------------------------------------------------------------
(* Submissions: what keeps the parts of CallInv *)

\* The engine's side depends on its own variables only.
LEMMA ServedKept ==
    ASSUME NEW r \in Ids, NEW n \in Submissions, Served(r, n),
           cmds'[r] = cmds[r], live'[r] = live[r], sent'[r] = sent[r], outs'[r][n] = outs[r][n]
    PROVE  Served(r, n)' /\ (Covered(r, n) => Covered(r, n)')
<1>1. Queued(r, n)' <=> Queued(r, n)
  BY DEF Queued
<1>2. Open(r, n)' <=> Open(r, n)
  BY <1>1 DEF Open
<1>3. Served(r, n)'
  BY <1>1, <1>2 DEF Served
<1>4. QED
  BY <1>3 DEF Covered

\* A command is put behind the others of its id.
LEMMA ServedSend ==
    ASSUME Types, NEW r \in Ids, NEW n \in Submissions, Served(r, n),
           NEW c \in Orders, cmds'[r] = Append(cmds[r], c), live'[r] = live[r], outs'[r][n] = outs[r][n],
           sent[r] \subseteq sent'[r],
           IsAdd(c, n) => n \notin sent[r] /\ n \in sent'[r]
    PROVE  /\ Served(r, n)'
           /\ ~IsAdd(c, n) /\ Covered(r, n) => Covered(r, n)'
           /\ c.type = "ABORT" => Covered(r, n)'
<1> DEFINE z == Len(cmds[r]) + 1
<1>1. cmds[r] \in Seq(Orders)
  BY DEF Types
<1>2. /\ DOMAIN cmds'[r] = DOMAIN cmds[r] \cup {z} /\ cmds'[r][z] = c /\ z \notin DOMAIN cmds[r] /\ z \in Nat
      /\ \A i \in DOMAIN cmds[r] : cmds'[r][i] = cmds[r][i] /\ i \in Nat /\ i < z
  BY <1>1, AppendPositions
<1> HIDE DEF z
<1>3. Queued(r, n)' <=> Queued(r, n) \/ IsAdd(c, n)
  BY <1>2 DEF Queued
<1>4. Queued(r, n) => n \in sent[r]
  BY DEF Served, Open
<1>5. IsAdd(c, n) => ~Queued(r, n) /\ live[r] # n /\ outs[r][n] = <<>>
  BY DEF Served, Open
<1>6. \A i, j \in DOMAIN cmds'[r] : IsAdd(cmds'[r][i], n) /\ IsAdd(cmds'[r][j], n) => i = j
  <2> SUFFICES ASSUME NEW i \in DOMAIN cmds'[r], NEW j \in DOMAIN cmds'[r],
                      IsAdd(cmds'[r][i], n), IsAdd(cmds'[r][j], n)
               PROVE  i = j
    OBVIOUS
  <2>1. CASE i \in DOMAIN cmds[r] /\ j \in DOMAIN cmds[r]
    BY <1>2, <2>1 DEF Served
  <2>2. CASE i = z /\ j = z
    BY <2>2
  <2>3. CASE (i = z /\ j \in DOMAIN cmds[r]) \/ (j = z /\ i \in DOMAIN cmds[r])
    BY <1>2, <1>5, <2>3 DEF Queued
  <2>4. QED
    BY <1>2, <2>1, <2>2, <2>3
<1>7. Queued(r, n)' => live'[r] # n
  BY <1>3, <1>5 DEF Served
<1>8. Open(r, n)' => n \in sent'[r] /\ \A i \in DOMAIN outs'[r][n] : ~outs'[r][n][i]
  <2>1. CASE IsAdd(c, n)
    BY <1>5, <2>1
  <2>2. CASE ~IsAdd(c, n)
    <3>1. Open(r, n)' => Open(r, n)
      BY <1>3, <2>2 DEF Open
    <3>2. QED
      BY <3>1 DEF Served
  <2>3. QED
    BY <2>1, <2>2
<1>9. Served(r, n)'
  BY <1>6, <1>7, <1>8 DEF Served
<1>10. ASSUME ~IsAdd(c, n), Covered(r, n)
       PROVE  Covered(r, n)'
  BY <1>2, <1>10 DEF Covered
<1>11. ASSUME c.type = "ABORT"
       PROVE  Covered(r, n)'
  <2>1. ~IsAdd(c, n)
    BY <1>11 DEF IsAdd
  <2>2. \A i \in DOMAIN cmds'[r] : IsAdd(cmds'[r][i], n) => z > i
    BY <1>2, <2>1
  <2>3. QED
    BY <1>2, <1>11, <2>2 DEF Covered
<1>12. QED
  BY <1>9, <1>10, <1>11

\* The caller's side, for a call that does not move.
LEMMA CalledKept ==
    ASSUME NEW r \in Ids, NEW n \in Submissions, Called(r, n),
           caller'[r][n] = caller[r][n], n \in sent'[r] <=> n \in sent[r], closed => closed',
           Final(r, n) => Final(r, n)', Covered(r, n) => Covered(r, n)'
    PROVE  Called(r, n)'
BY DEF Called, CalledAt, Active

\* The router's side, when neither the router nor the engine acts.
LEMMA RoutedKept ==
    ASSUME NEW r \in Ids, NEW n \in Submissions, Routed(r, n), UNCHANGED <<stream, outs, outq>>,
           sent[r] \subseteq sent'[r], caller[r][n] = "done" => caller'[r][n] = "done"
    PROVE  Routed(r, n)'
BY DEF Routed

\* The rest of CallInv when the calls of others and of other numbers stay put.
LEMMA OthersKept ==
    ASSUME BaseInv, CallInv, NEW s \in Ids, NEW m \in Submissions,
           \A r \in Ids, n \in Submissions : r # s \/ n # m => caller'[r][n] = caller[r][n]
                                                               /\ taken'[r][n] = taken[r][n],
           UNCHANGED <<stream, outs, outq>>, closed => closed',
           \A r \in Ids : sent[r] \subseteq sent'[r],
           \A r \in Ids, n \in Submissions : r # s \/ n # m => (n \in sent'[r] <=> n \in sent[r]),
           \A r \in Ids, n \in Submissions :
              Served(r, n)' /\ (r # s \/ n # m => (Covered(r, n) => Covered(r, n)')),
           Called(s, m)', caller[s][m] # "done"
    PROVE  CallInv'
<1>1. ASSUME NEW r \in Ids, NEW n \in Submissions
      PROVE  Served(r, n)' /\ Called(r, n)' /\ Routed(r, n)'
  <2>0. Served(r, n) /\ Called(r, n) /\ Routed(r, n)
    BY DEF CallInv
  <2>1. caller[r][n] = "done" => caller'[r][n] = "done"
    OBVIOUS
  <2>2. Routed(r, n)'
    BY <2>0, <2>1, RoutedKept
  <2>3. CASE r = s /\ n = m
    BY <2>2, <2>3
  <2>4. CASE r # s \/ n # m
    <3>1. Final(r, n) => Final(r, n)'
      BY <2>4 DEF Final
    <3>2. Called(r, n)'
      BY <2>0, <2>4, <3>1, CalledKept
    <3>3. QED
      BY <2>2, <3>2
  <2>5. QED
    BY <2>3, <2>4
<1>2. QED
  BY <1>1 DEF CallInv

-----------------------------------------------------------------------------
(* Submissions: the steps of the client *)

\* A caller moves and says nothing to the engine.
LEMMA QuietCall ==
    ASSUME BaseInv, CallInv, NEW s \in Ids, NEW m \in Submissions, NEW from, NEW to \in States,
           Moves(s, m, from, to), from # "done", CalledAt(to, s, m),
           UNCHANGED <<serviceVars, stream, taken, outq>>
    PROVE  CallInv'
<1> USE DEF serviceVars
<1>1. /\ caller[s][m] = from /\ caller'[s][m] = to
      /\ \A r \in Ids, n \in Submissions : r # s \/ n # m => caller'[r][n] = caller[r][n]
  BY MovesEffect DEF BaseInv
<1>2. \A r \in Ids, n \in Submissions : Served(r, n)' /\ (Covered(r, n) => Covered(r, n)')
  BY ServedKept DEF CallInv
<1>3. Called(s, m)'
  BY <1>1, <1>2 DEF Called, CalledAt, Active, Final
<1>4. QED
  BY <1>1, <1>2, <1>3, OthersKept

\* The ADD goes out.
LEMMA PutAddCall ==
    ASSUME BaseInv, CallInv, NEW s \in Ids, NEW m \in Submissions, m = 1 \/ s \in Reused,
           Moves(s, m, "registered", "reading"), SendAdd(s, m), UNCHANGED <<stream, taken, outq>>
    PROVE  CallInv'
<1>0. Types
  BY DEF BaseInv
<1>1. /\ caller[s][m] = "registered" /\ caller'[s][m] = "reading"
      /\ \A r \in Ids, n \in Submissions : r # s \/ n # m => caller'[r][n] = caller[r][n]
  BY <1>0, MovesEffect, HoldingStates
<1>2. /\ \A r \in Ids : r # s => cmds'[r] = cmds[r]
      /\ m \notin sent[s] /\ sent'[s] = sent[s] \cup {m} /\ \A r \in Ids : r # s => sent'[r] = sent[r]
      /\ UNCHANGED <<live, outs, closed>>
  BY <1>0, SendAddEffect
<1>3. PICK c \in Orders : c.type = "ADD" /\ c.sub = m /\ cmds'[s] = Append(cmds[s], c)
  BY <1>0, SendAddEffect
<1>4. ASSUME NEW r \in Ids, NEW n \in Submissions
      PROVE  Served(r, n)' /\ (r # s \/ n # m => (Covered(r, n) => Covered(r, n)'))
  <2>0. Served(r, n)
    BY DEF CallInv
  <2>1. CASE r # s
    BY <1>2, <2>0, <2>1, ServedKept
  <2>2. CASE r = s
    <3>1. IsAdd(c, n) <=> n = m
      BY <1>3 DEF IsAdd
    <3>2. Served(s, n) /\ sent[s] \subseteq sent'[s] /\ (IsAdd(c, n) => n \notin sent[s] /\ n \in sent'[s])
      BY <1>2, <2>0, <2>2, <3>1
    <3>3. live'[s] = live[s] /\ outs'[s][n] = outs[s][n]
      BY <1>2
    <3>4. Served(s, n)' /\ (~IsAdd(c, n) /\ Covered(s, n) => Covered(s, n)')
      BY <1>0, <1>3, <3>2, <3>3, ServedSend
    <3>5. QED
      BY <2>2, <3>1, <3>4
  <2>3. QED
    BY <2>1, <2>2
<1>5. Called(s, m)'
  BY <1>1 DEF Called, CalledAt, Active
<1>6. /\ \A r \in Ids : sent[r] \subseteq sent'[r]
      /\ \A r \in Ids, n \in Submissions : r # s \/ n # m => (n \in sent'[r] <=> n \in sent[r])
  BY <1>2
<1>7. QED
  BY <1>1, <1>2, <1>4, <1>5, <1>6, OthersKept

\* An ABORT goes out: every submission of its id is covered then.
LEMMA AbortCovers ==
    ASSUME Types, CallInv, NEW s \in Ids, SendAbort(s)
    PROVE  /\ \A r \in Ids, n \in Submissions : Served(r, n)' /\ (Covered(r, n) => Covered(r, n)')
           /\ \A n \in Submissions : Covered(s, n)'
           /\ UNCHANGED <<sent, live, outs, closed>>
<1>1. \A r \in Ids : r # s => cmds'[r] = cmds[r]
  BY SendAbortEffect
<1>2. UNCHANGED <<sent, live, outs, closed>>
  BY SendAbortEffect
<1>3. PICK c \in Orders : c.type = "ABORT" /\ cmds'[s] = Append(cmds[s], c)
  BY SendAbortEffect
<1>4. ASSUME NEW n \in Submissions
      PROVE  Served(s, n)' /\ Covered(s, n)'
  <2>1. Served(s, n) /\ ~IsAdd(c, n)
    BY <1>3 DEF CallInv, IsAdd
  <2>2. live'[s] = live[s] /\ outs'[s][n] = outs[s][n] /\ sent[s] \subseteq sent'[s]
    BY <1>2
  <2>3. QED
    BY <1>3, <2>1, <2>2, ServedSend
<1>5. ASSUME NEW r \in Ids, NEW n \in Submissions, r # s
      PROVE  Served(r, n)' /\ (Covered(r, n) => Covered(r, n)')
  BY <1>1, <1>2, <1>5, ServedKept DEF CallInv
<1>6. QED
  BY <1>2, <1>4, <1>5

\* The finally of generate sends its ABORT.
LEMMA PutAbortCall ==
    ASSUME BaseInv, CallInv, NEW s \in Ids, NEW m \in Submissions,
           Moves(s, m, "aborting", "dropping"), SendAbort(s), UNCHANGED <<stream, taken, outq>>
    PROVE  CallInv'
<1>0. Types
  BY DEF BaseInv
<1>1. /\ caller[s][m] = "aborting" /\ caller'[s][m] = "dropping"
      /\ \A r \in Ids, n \in Submissions : r # s \/ n # m => caller'[r][n] = caller[r][n]
  BY <1>0, MovesEffect, HoldingStates
<1>2. /\ \A r \in Ids, n \in Submissions : Served(r, n)' /\ (Covered(r, n) => Covered(r, n)')
      /\ Covered(s, m)' /\ UNCHANGED <<sent, live, outs, closed>>
  BY <1>0, AbortCovers
<1>3. s \in Quitters /\ (m = 1 \/ s \in Reused)
  BY <1>1 DEF CallInv, Called, CalledAt
<1>4. Called(s, m)'
  BY <1>1, <1>2, <1>3 DEF Called, CalledAt, Active
<1>5. QED
  BY <1>1, <1>2, <1>4, OthersKept

\* A reader takes an output; when it is the final one, it has taken that.
LEMMA GetCall ==
    ASSUME BaseInv, CallInv, NEW s \in Ids, NEW m \in Submissions, Get(s, m)
    PROVE  CallInv'
<1>1. /\ taken[s][m] \in Nat /\ caller[s][m] = "reading"
      /\ caller'[s][m] = IF stream[s][m][taken[s][m] + 1].final THEN "finished" ELSE "yielded"
      /\ \A r \in Ids, n \in Submissions : r # s \/ n # m => caller'[r][n] = caller[r][n]
      /\ taken'[s][m] = taken[s][m] + 1
      /\ \A r \in Ids, n \in Submissions : r # s \/ n # m => taken'[r][n] = taken[r][n]
      /\ UNCHANGED <<cmds, sent, live, outs, closed, stream, outq>>
  BY GetEffect DEF serviceVars
<1>2. \A r \in Ids, n \in Submissions : Served(r, n)' /\ (Covered(r, n) => Covered(r, n)')
  BY <1>1, ServedKept DEF CallInv
<1>3. m = 1 \/ s \in Reused
  BY <1>1 DEF CallInv, Called, CalledAt
<1>4. Called(s, m)'
  <2>1. CASE stream[s][m][taken[s][m] + 1].final
    <3>1. Final(s, m)'
      BY <1>1, <2>1 DEF Final
    <3>2. QED
      BY <1>1, <1>3, <2>1, <3>1 DEF Called, CalledAt, Active
  <2>2. CASE ~stream[s][m][taken[s][m] + 1].final
    BY <1>1, <1>3, <2>2 DEF Called, CalledAt, Active
  <2>3. QED
    BY <2>1, <2>2
<1>5. QED
  BY <1>1, <1>2, <1>4, OthersKept

\* All steps of a caller.
LEMMA CallerCall ==
    ASSUME BaseInv, CallInv, NEW s \in Ids, NEW m \in Submissions, m = 1 \/ s \in Reused,
           CheckOpen(s, m) \/ CallerStep(s, m) \/ Quit(s, m)
    PROVE  CallInv'
<1> USE DEF RestOfClient, routeVars, closeVars
<1>0. Called(s, m) /\ closed = (close # "open")
  BY DEF CallInv, BaseInv, Types
<1>1. ASSUME NEW to \in {"checked", "registered", "raised", "leaked"}, m \notin sent[s]
      PROVE  CalledAt(to, s, m) /\ to \in States
  BY <1>1 DEF CalledAt, States, Active
<1>2. caller[s][m] \in {"idle", "checked", "registered"} => m \notin sent[s]
  BY <1>0 DEF Called, CalledAt, Active
<1>3. CASE CheckOpen(s, m)
  <2>1. PICK to \in {"checked", "raised"} : Moves(s, m, "idle", to)
    BY <1>3 DEF CheckOpen
  <2>2. m \notin sent[s]
    BY <1>2, <2>1 DEF Moves
  <2>3. QED
    BY <1>1, <1>3, <2>1, <2>2, QuietCall DEF CheckOpen
<1>4. CASE Register(s, m)
  <2>1. PICK to \in {"registered", "raised"} : Moves(s, m, "checked", to)
    BY <1>4 DEF Register
  <2>2. m \notin sent[s]
    BY <1>2, <2>1 DEF Moves
  <2>3. QED
    BY <1>1, <1>4, <2>1, <2>2, QuietCall DEF Register
<1>5. CASE PutAdd(s, m)
  <2>1. CASE Moves(s, m, "registered", "leaked") /\ UNCHANGED serviceVars
    <3>1. m \notin sent[s]
      BY <1>2, <2>1 DEF Moves
    <3>2. CalledAt("leaked", s, m) /\ "leaked" \in States
      BY <1>1, <3>1
    <3>3. QED
      BY <1>5, <2>1, <3>2, QuietCall DEF PutAdd
  <2>2. CASE Moves(s, m, "registered", "reading") /\ SendAdd(s, m)
    BY <1>5, <2>2, PutAddCall DEF PutAdd
  <2>3. QED
    BY <1>5, <2>1, <2>2 DEF PutAdd
<1>6. CASE Resume(s, m)
  <2>1. CASE Moves(s, m, "yielded", "reading")
    <3>1. CalledAt("reading", s, m) /\ "reading" \in States
      BY DEF CalledAt, States, Active
    <3>2. QED
      BY <1>6, <2>1, <3>1, QuietCall DEF Resume
  <2>2. CASE Moves(s, m, "finished", "dropping")
    <3>1. Final(s, m)
      BY <1>0, <2>2 DEF Called, CalledAt, Moves
    <3>2. CalledAt("dropping", s, m) /\ "dropping" \in States
      BY <3>1 DEF CalledAt, States, Active
    <3>3. QED
      BY <1>6, <2>2, <3>2, QuietCall DEF Resume
  <2>3. QED
    BY <1>6, <2>1, <2>2 DEF Resume
<1>7. CASE Quit(s, m)
  <2>1. PICK from \in {"reading", "yielded", "finished"} : Moves(s, m, from, AfterQuit(from))
    BY <1>7 DEF Quit
  <2>2. s \in Quitters
    BY <1>7 DEF Quit
  <2>3. CASE from = "finished" \/ close # "open"
    <3>1. AfterQuit(from) = "dropping"
      BY <2>3 DEF AfterQuit
    <3>2. Final(s, m) \/ closed
      BY <1>0, <2>1, <2>3 DEF Called, CalledAt, Moves
    <3>3. CalledAt("dropping", s, m) /\ "dropping" \in States
      BY <2>2, <3>2 DEF CalledAt, States, Active
    <3>4. QED
      BY <1>7, <2>1, <3>1, <3>3, QuietCall DEF Quit
  <2>4. CASE ~(from = "finished" \/ close # "open")
    <3>1. AfterQuit(from) = "aborting"
      BY <2>4 DEF AfterQuit
    <3>2. CalledAt("aborting", s, m) /\ "aborting" \in States
      BY <2>2 DEF CalledAt, States, Active
    <3>3. QED
      BY <1>7, <2>1, <3>1, <3>2, QuietCall DEF Quit
  <2>5. QED
    BY <2>3, <2>4
<1>8. CASE PutAbort(s, m)
  <2>1. CASE close = "closed"
    <3>1. Moves(s, m, "aborting", "leaked") /\ UNCHANGED serviceVars
      BY <1>8, <2>1 DEF PutAbort
    <3>2. CalledAt("leaked", s, m) /\ "leaked" \in States
      BY <1>0, <2>1 DEF CalledAt, States, Active
    <3>3. QED
      BY <1>8, <3>1, <3>2, QuietCall DEF PutAbort
  <2>2. CASE close # "closed"
    BY <1>8, <2>2, PutAbortCall DEF PutAbort
  <2>3. QED
    BY <2>1, <2>2
<1>9. CASE FinishStream(s, m)
  <2>1. Moves(s, m, "dropping", "done")
    BY <1>9 DEF FinishStream
  <2>2. CalledAt("done", s, m) /\ "done" \in States
    BY <1>0, <2>1 DEF Called, CalledAt, States, Active, Moves
  <2>3. QED
    BY <1>9, <2>1, <2>2, QuietCall DEF FinishStream
<1>10. QED
  BY <1>3, <1>4, <1>5, <1>6, <1>7, <1>8, <1>9, GetCall DEF CallerStep

\* abort of the engines, and close.
LEMMA AbortCloseCall ==
    ASSUME BaseInv, CallInv, CloseBegin \/ CloseEnd \/ \E s \in Ids : CallAbort(s)
    PROVE  CallInv'
<1> USE DEF serviceVars, callVars
<1>1. UNCHANGED <<caller, stream, taken, outq, sent, live, outs>> /\ (closed => closed')
      /\ \A r \in Ids, n \in Submissions : Served(r, n)' /\ (Covered(r, n) => Covered(r, n)')
  <2>1. ASSUME UNCHANGED <<cmds, sent, live, outs>>
        PROVE  \A r \in Ids, n \in Submissions : Served(r, n)' /\ (Covered(r, n) => Covered(r, n)')
    BY <2>1, ServedKept DEF CallInv
  <2>2. CASE CloseBegin
    <3>1. UNCHANGED <<caller, stream, taken, outq, cmds, sent, live, outs>> /\ closed'
      BY <2>2 DEF CloseBegin, SendShutdown
    <3>2. QED
      BY <2>1, <3>1
  <2>3. CASE CloseEnd
    <3>1. UNCHANGED <<caller, stream, taken, outq, cmds, sent, live, outs, closed>>
      BY <2>3 DEF CloseEnd
    <3>2. QED
      BY <2>1, <3>1
  <2>4. ASSUME NEW s \in Ids, CallAbort(s)
        PROVE  /\ UNCHANGED <<caller, stream, taken, outq, sent, live, outs>> /\ (closed => closed')
               /\ \A r \in Ids, n \in Submissions : Served(r, n)' /\ (Covered(r, n) => Covered(r, n)')
    <3>1. UNCHANGED <<caller, stream, taken, outq>>
      BY <2>4 DEF CallAbort
    <3>2. CASE close = "open"
      BY <2>4, <3>1, <3>2, AbortCovers DEF CallAbort, BaseInv
    <3>3. CASE close # "open"
      <4>1. UNCHANGED <<cmds, sent, live, outs, closed>>
        BY <2>4, <3>3 DEF CallAbort
      <4>2. QED
        BY <2>1, <3>1, <4>1
    <3>4. QED
      BY <3>2, <3>3
  <2>5. QED
    BY <2>2, <2>3, <2>4
<1>2. ASSUME NEW r \in Ids, NEW n \in Submissions
      PROVE  Served(r, n)' /\ Called(r, n)' /\ Routed(r, n)'
  <2>1. Called(r, n) /\ Routed(r, n)
    BY DEF CallInv
  <2>2. Final(r, n) => Final(r, n)'
    BY <1>1 DEF Final
  <2>3. Routed(r, n)'
    BY <1>1, <2>1, RoutedKept
  <2>4. Called(r, n)'
    BY <1>1, <2>1, <2>2, CalledKept
  <2>5. QED
    BY <1>1, <2>3, <2>4
<1>3. QED
  BY <1>2 DEF CallInv

-----------------------------------------------------------------------------
(* Submissions: the steps of the engine *)

\* What a step of the engine does to a submission: its ADD stays where it is, is
\* taken once, and only an open submission gets an output.
EngineMove(r, n) ==
    /\ \A i, j \in DOMAIN cmds'[r] : IsAdd(cmds'[r][i], n) /\ IsAdd(cmds'[r][j], n) => i = j
    /\ Queued(r, n)' => live'[r] # n
    /\ Open(r, n)' => Open(r, n)
    /\ \/ outs'[r][n] = outs[r][n]
       \/ Open(r, n) /\ \E x \in BOOLEAN : outs'[r][n] = Append(outs[r][n], x) /\ (x => ~Open(r, n)')
    /\ Covered(r, n) => Covered(r, n)'

\* The step is about another id.
LEMMA StillMove ==
    ASSUME NEW r \in Ids, NEW n \in Submissions, Served(r, n), cmds'[r] = cmds[r], live'[r] = live[r],
           outs'[r][n] = outs[r][n]
    PROVE  EngineMove(r, n)
<1>1. Queued(r, n)' <=> Queued(r, n)
  BY DEF Queued
<1>2. Open(r, n)' <=> Open(r, n)
  BY <1>1 DEF Open
<1>3. Covered(r, n) => Covered(r, n)'
  BY DEF Covered
<1>4. QED
  BY <1>1, <1>2, <1>3 DEF Served, EngineMove

\* The live submission, if there is one, comes to its end.
LEMMA EndMove ==
    ASSUME NEW r \in Ids, NEW n \in Submissions, Served(r, n), cmds'[r] = cmds[r], live'[r] = 0,
           outs'[r][n] = IF n = live[r] THEN Append(outs[r][n], TRUE) ELSE outs[r][n]
    PROVE  EngineMove(r, n)
<1>0. n # 0
  BY Numbers
<1>1. Queued(r, n)' <=> Queued(r, n)
  BY DEF Queued
<1>2. Open(r, n)' <=> Queued(r, n)
  BY <1>0, <1>1 DEF Open
<1>3. Covered(r, n) => Covered(r, n)'
  BY <1>0 DEF Covered
<1>4. \/ outs'[r][n] = outs[r][n]
      \/ Open(r, n) /\ \E x \in BOOLEAN : outs'[r][n] = Append(outs[r][n], x) /\ (x => ~Open(r, n)')
  <2>1. CASE n = live[r]
    <3>1. Open(r, n) /\ ~Open(r, n)' /\ outs'[r][n] = Append(outs[r][n], TRUE)
      BY <1>2, <2>1 DEF Open, Served
    <3>2. TRUE \in BOOLEAN
      OBVIOUS
    <3>3. QED
      BY <3>1, <3>2
  <2>2. CASE n # live[r]
    BY <2>2
  <2>3. QED
    BY <2>1, <2>2
<1>5. QED
  BY <1>0, <1>1, <1>2, <1>3, <1>4 DEF Served, EngineMove, Open

\* The first command leaves the queue.
LEMMA TailMove ==
    ASSUME Types, NEW r \in Ids, NEW n \in Submissions, Served(r, n),
           cmds[r] # <<>>, cmds'[r] = Tail(cmds[r])
    PROVE  /\ \A i, j \in DOMAIN cmds'[r] : IsAdd(cmds'[r][i], n) /\ IsAdd(cmds'[r][j], n) => i = j
           /\ Queued(r, n)' => Queued(r, n)
           /\ IsAdd(Head(cmds[r]), n) => Queued(r, n) /\ ~Queued(r, n)'
           /\ Covered(r, n) => \A i \in DOMAIN cmds'[r] : IsAdd(cmds'[r][i], n) =>
                                  \E j \in DOMAIN cmds'[r] : j > i /\ cmds'[r][j].type = "ABORT"
           /\ Covered(r, n) /\ Head(cmds[r]).type = "ADD" /\ (live[r] = n \/ IsAdd(Head(cmds[r]), n)) =>
                 \E j \in DOMAIN cmds'[r] : cmds'[r][j].type = "ABORT"
<1>1. cmds[r] \in Seq(Orders)
  BY DEF Types
<1>2. /\ 1 \in DOMAIN cmds[r] /\ cmds[r][1] = Head(cmds[r])
      /\ \A i \in DOMAIN cmds'[r] : i \in Nat \ {0} /\ i + 1 \in DOMAIN cmds[r] /\ cmds'[r][i] = cmds[r][i + 1]
      /\ \A i \in DOMAIN cmds[r] :
            i \in Nat \ {0} /\ (i # 1 => i - 1 \in DOMAIN cmds'[r] /\ cmds[r][i] = cmds'[r][i - 1])
  BY <1>1, TailPositions
<1>3. ASSUME NEW i \in DOMAIN cmds'[r], NEW j \in DOMAIN cmds'[r],
             IsAdd(cmds'[r][i], n), IsAdd(cmds'[r][j], n)
      PROVE  i = j
  <2>1. i + 1 = j + 1 /\ i \in Nat /\ j \in Nat
    BY <1>2, <1>3 DEF Served
  <2>2. QED
    BY <2>1
<1>4. Queued(r, n)' => Queued(r, n)
  BY <1>2 DEF Queued
<1>5. ASSUME IsAdd(Head(cmds[r]), n)
      PROVE  Queued(r, n) /\ ~Queued(r, n)'
  <2>1. Queued(r, n)
    BY <1>2, <1>5 DEF Queued
  <2>2. ASSUME NEW i \in DOMAIN cmds'[r], IsAdd(cmds'[r][i], n)
        PROVE  FALSE
    <3>1. i + 1 = 1 /\ i \in Nat \ {0}
      BY <1>2, <1>5, <2>2 DEF Served
    <3>2. QED
      BY <3>1
  <2>3. QED
    BY <2>1, <2>2 DEF Queued
<1>6. ASSUME Covered(r, n), NEW i \in DOMAIN cmds'[r], IsAdd(cmds'[r][i], n)
      PROVE  \E j \in DOMAIN cmds'[r] : j > i /\ cmds'[r][j].type = "ABORT"
  <2>1. i + 1 \in DOMAIN cmds[r] /\ IsAdd(cmds[r][i + 1], n) /\ i \in Nat
    BY <1>2, <1>6
  <2>2. PICK j \in DOMAIN cmds[r] : j > i + 1 /\ cmds[r][j].type = "ABORT"
    BY <1>6, <2>1 DEF Covered
  <2>3. j # 1 /\ j \in Nat
    BY <1>2, <2>1, <2>2
  <2>4. j - 1 \in DOMAIN cmds'[r] /\ cmds'[r][j - 1].type = "ABORT" /\ j - 1 > i
    BY <1>2, <2>1, <2>2, <2>3
  <2>5. QED
    BY <2>4
<1>7. ASSUME Covered(r, n), Head(cmds[r]).type = "ADD", live[r] = n \/ IsAdd(Head(cmds[r]), n)
      PROVE  \E j \in DOMAIN cmds'[r] : cmds'[r][j].type = "ABORT"
  <2>1. PICK j \in DOMAIN cmds[r] : cmds[r][j].type = "ABORT"
    BY <1>2, <1>7 DEF Covered
  <2>2. j # 1
    BY <1>2, <1>7, <2>1
  <2>3. QED
    BY <1>2, <2>1, <2>2
<1>8. QED
  BY <1>3, <1>4, <1>5, <1>6, <1>7

\* Every step of the engine moves every submission so.
LEMMA EngineMoves ==
    ASSUME Types, CallInv,
           \/ Stop \/ Fail
           \/ \E s \in Ids : Accept(s) \/ Reject(s) \/ Abort(s) \/ Progress(s) \/ Answer(s),
           NEW r \in Ids, NEW n \in Submissions
    PROVE  EngineMove(r, n)
<1>0. Served(r, n) /\ n # 0
  BY Numbers DEF CallInv
<1>1. CASE Stop
  BY <1>0, <1>1, StillMove DEF Stop
<1>2. CASE Fail
  <2>1. cmds'[r] = cmds[r] /\ live'[r] = 0
        /\ outs'[r][n] = IF n = live[r] THEN Append(outs[r][n], TRUE) ELSE outs[r][n]
    BY <1>2 DEF Fail
  <2>2. QED
    BY <1>0, <2>1, EndMove
<1>3. ASSUME NEW s \in Ids, Accept(s)
      PROVE  EngineMove(r, n)
  <2>1. /\ NextIs("ADD", s) /\ live[s] = 0 /\ live' = [live EXCEPT ![s] = Head(cmds[s]).sub] /\ outs' = outs
    BY <1>3 DEF Accept
  <2>2. /\ cmds[s] # <<>> /\ Head(cmds[s]).type = "ADD" /\ cmds'[s] = Tail(cmds[s])
        /\ \A x \in Ids : x # s => cmds'[x] = cmds[x]
    BY <2>1, NextCommand
  <2>3. live'[s] = Head(cmds[s]).sub /\ \A x \in Ids : x # s => live'[x] = live[x]
    BY <2>1 DEF Types
  <2>4. CASE r # s
    BY <1>0, <2>1, <2>2, <2>3, <2>4, StillMove
  <2>5. CASE r = s
    <3>1. IsAdd(Head(cmds[r]), n) <=> live'[r] = n
      BY <2>2, <2>3, <2>5 DEF IsAdd
    <3>2. /\ \A i, j \in DOMAIN cmds'[r] : IsAdd(cmds'[r][i], n) /\ IsAdd(cmds'[r][j], n) => i = j
          /\ Queued(r, n)' => Queued(r, n)
          /\ IsAdd(Head(cmds[r]), n) => Queued(r, n) /\ ~Queued(r, n)'
      BY <1>0, <2>2, <2>5, TailMove
    <3>3. ASSUME Covered(r, n) PROVE Covered(r, n)'
      <4>1. \A i \in DOMAIN cmds'[r] : IsAdd(cmds'[r][i], n) =>
               \E j \in DOMAIN cmds'[r] : j > i /\ cmds'[r][j].type = "ABORT"
        BY <1>0, <2>2, <2>5, <3>3, TailMove
      <4>2. live'[r] = n => \E j \in DOMAIN cmds'[r] : cmds'[r][j].type = "ABORT"
        BY <1>0, <2>2, <2>5, <3>1, <3>3, TailMove
      <4>3. QED
        BY <4>1, <4>2 DEF Covered
    <3>4. Open(r, n)' => Open(r, n)
      BY <3>1, <3>2 DEF Open
    <3>5. Queued(r, n)' => live'[r] # n
      BY <3>1, <3>2
    <3>6. QED
      BY <2>1, <3>2, <3>3, <3>4, <3>5 DEF EngineMove
  <2>6. QED
    BY <2>4, <2>5
<1>4. ASSUME NEW s \in Ids, Reject(s)
      PROVE  EngineMove(r, n)
  <2>1. NextIs("ADD", s) /\ Emit(s, Head(cmds[s]).sub, TRUE) /\ live' = live
    BY <1>4 DEF Reject
  <2>2. /\ cmds[s] # <<>> /\ Head(cmds[s]).type = "ADD" /\ cmds'[s] = Tail(cmds[s]) /\ Head(cmds[s]) \in Orders
        /\ \A x \in Ids : x # s => cmds'[x] = cmds[x]
    BY <2>1, NextCommand
  <2>3. PICK m \in Submissions : m = Head(cmds[s]).sub
    BY <2>2, OrderKinds
  <2>4. Emit(s, m, TRUE) /\ TRUE \in BOOLEAN
    BY <2>1, <2>3
  <2>5. /\ outs'[s][m] = Append(outs[s][m], TRUE)
        /\ \A x \in Ids, y \in Submissions : x # s \/ y # m => outs'[x][y] = outs[x][y]
    BY <2>4, EmitOuts
  <2>6. CASE r # s
    BY <1>0, <2>1, <2>2, <2>5, <2>6, StillMove
  <2>7. CASE r = s
    <3>1. IsAdd(Head(cmds[r]), n) <=> n = m
      BY <2>2, <2>3, <2>7 DEF IsAdd
    <3>2. /\ \A i, j \in DOMAIN cmds'[r] : IsAdd(cmds'[r][i], n) /\ IsAdd(cmds'[r][j], n) => i = j
          /\ Queued(r, n)' => Queued(r, n)
          /\ IsAdd(Head(cmds[r]), n) => Queued(r, n) /\ ~Queued(r, n)'
      BY <1>0, <2>2, <2>7, TailMove
    <3>3. ASSUME Covered(r, n) PROVE Covered(r, n)'
      <4>1. \A i \in DOMAIN cmds'[r] : IsAdd(cmds'[r][i], n) =>
               \E j \in DOMAIN cmds'[r] : j > i /\ cmds'[r][j].type = "ABORT"
        BY <1>0, <2>2, <2>7, <3>3, TailMove
      <4>2. live'[r] = n => \E j \in DOMAIN cmds'[r] : cmds'[r][j].type = "ABORT"
        BY <1>0, <2>1, <2>2, <2>7, <3>3, TailMove
      <4>3. QED
        BY <4>1, <4>2 DEF Covered
    <3>4. Open(r, n)' => Open(r, n)
      BY <2>1, <3>2 DEF Open
    <3>5. Queued(r, n)' => live'[r] # n
      BY <1>0, <2>1, <3>2 DEF Served
    <3>6. CASE n = m
      <4>1. Open(r, n) /\ ~Open(r, n)'
        BY <1>0, <2>1, <3>1, <3>2, <3>6 DEF Open, Served
      <4>2. \E x \in BOOLEAN : outs'[r][n] = Append(outs[r][n], x) /\ (x => ~Open(r, n)')
        BY <2>4, <2>5, <2>7, <3>6, <4>1
      <4>3. QED
        BY <3>2, <3>3, <3>4, <3>5, <4>1, <4>2 DEF EngineMove
    <3>7. CASE n # m
      BY <2>5, <3>2, <3>3, <3>4, <3>5, <3>7 DEF EngineMove
    <3>8. QED
      BY <3>6, <3>7
  <2>8. QED
    BY <2>6, <2>7
<1>5. ASSUME NEW s \in Ids, live[s] # 0, NEW x \in BOOLEAN, Emit(s, live[s], x)
      PROVE  outs'[r][n] = IF r = s /\ n = live[s] THEN Append(outs[r][n], x) ELSE outs[r][n]
  <2>1. PICK m \in Submissions : m = live[s]
    BY <1>5, LiveSubmission
  <2>2. Emit(s, m, x)
    BY <1>5, <2>1
  <2>3. /\ outs'[s][m] = Append(outs[s][m], x)
        /\ \A a \in Ids, b \in Submissions : a # s \/ b # m => outs'[a][b] = outs[a][b]
    BY <2>2, EmitOuts
  <2>4. QED
    BY <2>1, <2>3
<1>6. ASSUME NEW s \in Ids, Abort(s)
      PROVE  EngineMove(r, n)
  <2>1. NextIs("ABORT", s)
    BY <1>6 DEF Abort
  <2>2. /\ cmds[s] # <<>> /\ Head(cmds[s]).type = "ABORT" /\ cmds'[s] = Tail(cmds[s])
        /\ \A x \in Ids : x # s => cmds'[x] = cmds[x]
    BY <2>1, NextCommand
  <2>3. live'[s] = 0 /\ \A x \in Ids : x # s => live'[x] = live[x]
    BY <1>6 DEF Abort, Types
  <2>4. outs'[r][n] = IF r = s /\ n = live[s] THEN Append(outs[r][n], TRUE) ELSE outs[r][n]
    <3>1. CASE live[s] = 0
      BY <1>0, <1>6, <3>1 DEF Abort
    <3>2. CASE live[s] # 0
      <4>1. Emit(s, live[s], TRUE) /\ TRUE \in BOOLEAN
        BY <1>6, <3>2 DEF Abort
      <4>2. QED
        BY <1>5, <3>2, <4>1
    <3>3. QED
      BY <3>1, <3>2
  <2>5. CASE r # s
    BY <1>0, <2>2, <2>3, <2>4, <2>5, StillMove
  <2>6. CASE r = s
    <3>2. /\ \A i, j \in DOMAIN cmds'[r] : IsAdd(cmds'[r][i], n) /\ IsAdd(cmds'[r][j], n) => i = j
          /\ Queued(r, n)' => Queued(r, n)
      BY <1>0, <2>2, <2>6, TailMove
    <3>3. ASSUME Covered(r, n) PROVE Covered(r, n)'
      <4>1. \A i \in DOMAIN cmds'[r] : IsAdd(cmds'[r][i], n) =>
               \E j \in DOMAIN cmds'[r] : j > i /\ cmds'[r][j].type = "ABORT"
        BY <1>0, <2>2, <2>6, <3>3, TailMove
      <4>2. live'[r] # n
        BY <1>0, <2>3, <2>6
      <4>3. QED
        BY <4>1, <4>2 DEF Covered
    <3>4. Open(r, n)' => Queued(r, n)
      BY <1>0, <2>3, <2>6, <3>2 DEF Open
    <3>5. live'[r] # n
      BY <1>0, <2>3, <2>6
    <3>6. CASE n = live[s]
      <4>1. Open(r, n) /\ ~Open(r, n)'
        BY <1>0, <2>6, <3>4, <3>6 DEF Open, Served
      <4>2. TRUE \in BOOLEAN /\ outs'[r][n] = Append(outs[r][n], TRUE)
        BY <2>4, <2>6, <3>6
      <4>3. \E x \in BOOLEAN : outs'[r][n] = Append(outs[r][n], x) /\ (x => ~Open(r, n)')
        BY <4>1, <4>2
      <4>4. QED
        BY <3>2, <3>3, <3>5, <4>1, <4>3 DEF EngineMove
    <3>7. CASE n # live[s]
      BY <2>4, <3>2, <3>3, <3>4, <3>5, <3>7 DEF EngineMove, Open
    <3>8. QED
      BY <3>6, <3>7
  <2>7. QED
    BY <2>5, <2>6
<1>7. ASSUME NEW s \in Ids, Progress(s)
      PROVE  EngineMove(r, n)
  <2>1. live[s] # 0 /\ Emit(s, live[s], FALSE) /\ FALSE \in BOOLEAN /\ UNCHANGED <<cmds, live>>
    BY <1>7 DEF Progress
  <2>2. outs'[r][n] = IF r = s /\ n = live[s] THEN Append(outs[r][n], FALSE) ELSE outs[r][n]
    BY <1>5, <2>1
  <2>3. CASE r # s \/ n # live[s]
    BY <1>0, <2>1, <2>2, <2>3, StillMove
  <2>4. CASE r = s /\ n = live[s]
    <3>1. Queued(r, n)' <=> Queued(r, n)
      BY <2>1 DEF Queued
    <3>2. Open(r, n)' <=> Open(r, n)
      BY <2>1, <3>1 DEF Open
    <3>3. Covered(r, n) => Covered(r, n)'
      BY <2>1 DEF Covered
    <3>4. Open(r, n) /\ \E x \in BOOLEAN : outs'[r][n] = Append(outs[r][n], x) /\ (x => ~Open(r, n)')
      <4>1. Open(r, n)
        BY <2>4 DEF Open
      <4>2. outs'[r][n] = Append(outs[r][n], FALSE)
        BY <2>2, <2>4
      <4>3. QED
        BY <2>1, <4>1, <4>2
    <3>5. /\ \A i, j \in DOMAIN cmds'[r] : IsAdd(cmds'[r][i], n) /\ IsAdd(cmds'[r][j], n) => i = j
          /\ Queued(r, n)' => live'[r] # n
      BY <1>0, <2>1, <3>1 DEF Served
    <3>6. QED
      BY <3>2, <3>3, <3>4, <3>5 DEF EngineMove
  <2>5. QED
    BY <2>3, <2>4
<1>8. ASSUME NEW s \in Ids, Answer(s)
      PROVE  EngineMove(r, n)
  <2>1. /\ live[s] # 0 /\ Emit(s, live[s], TRUE) /\ TRUE \in BOOLEAN
        /\ live' = [live EXCEPT ![s] = 0] /\ cmds' = cmds
    BY <1>8 DEF Answer
  <2>2. outs'[r][n] = IF r = s /\ n = live[s] THEN Append(outs[r][n], TRUE) ELSE outs[r][n]
    BY <1>5, <2>1
  <2>3. live'[s] = 0 /\ \A x \in Ids : x # s => live'[x] = live[x]
    BY <2>1 DEF Types
  <2>4. CASE r # s
    BY <1>0, <2>1, <2>2, <2>3, <2>4, StillMove
  <2>5. CASE r = s
    BY <1>0, <2>1, <2>2, <2>3, <2>5, EndMove
  <2>6. QED
    BY <2>4, <2>5
<1>9. QED
  BY <1>1, <1>2, <1>3, <1>4, <1>6, <1>7, <1>8

\* A step of the engine and what it forwards.
LEMMA EngineCall ==
    ASSUME BaseInv, CallInv, EngineEnds \/ \E s \in Ids : EngineStep(s)
    PROVE  CallInv'
<1>0. Types
  BY DEF BaseInv
<1>1. /\ Shape /\ UNCHANGED <<caller, stream, taken>>
      /\ \/ Stop \/ Fail
         \/ \E s \in Ids : Accept(s) \/ Reject(s) \/ Abort(s) \/ Progress(s) \/ Answer(s)
  BY <1>0, EngineActions DEF callVars
<1>2. PICK b \in LastBatches \cup {NoBatch} : Forward(b)
  BY <1>0, EngineActions
<1>3. b \in Batches /\ outq \in Seq(Events)
  BY <1>0, BatchSets DEF Types, Events
<1>4. PICK es \in Seq(Outputs) : /\ outq' = outq \o es
                                 /\ \A r \in Ids, n \in Submissions : Emits(es, r, n)
  BY <1>0, <1>1, <1>2, <1>3, ForwardEmits
<1>5. es \in Seq(Events)
  BY DEF Events
<1>6. Joined(outq, es, outq')
  BY <1>3, <1>4, <1>5, ConcatPositions
<1>7. sent' = sent /\ closed' = closed
  BY <1>1 DEF Shape
<1>8. ASSUME NEW r \in Ids, NEW n \in Submissions
      PROVE  Served(r, n)' /\ Called(r, n)' /\ Routed(r, n)'
  <2>0. Served(r, n) /\ Called(r, n) /\ Routed(r, n) /\ EngineMove(r, n) /\ Emits(es, r, n)
    BY <1>0, <1>1, <1>4, EngineMoves DEF CallInv
  <2>1. outs[r][n] \in Seq(BOOLEAN) /\ stream[r][n] \in Seq(Items)
    BY <1>0 DEF Types, PerCall
  <2>2. Called(r, n)'
    <3>1. Final(r, n) => Final(r, n)'
      BY <1>1 DEF Final
    <3>2. QED
      BY <1>1, <1>7, <2>0, <3>1, CalledKept DEF EngineMove
  <2>3. CASE outs'[r][n] = outs[r][n]
    <3>1. Served(r, n)'
      BY <1>7, <2>0, <2>3 DEF Served, EngineMove
    <3>2. \A i \in DOMAIN es : ~Of(es[i], r, n)
      <4>1. \A i \in DOMAIN es : outs'[r][n] # Append(outs[r][n], es[i].final)
        BY <2>1, <2>3
      <4>2. QED
        BY <2>0, <4>1 DEF Emits
    <3>3. \A i \in DOMAIN outq' : Of(outq'[i], r, n) => n \in sent'[r]
      <4> SUFFICES ASSUME NEW i \in DOMAIN outq', Of(outq'[i], r, n)
                   PROVE  n \in sent[r]
        BY <1>7
      <4>1. CASE i \in DOMAIN outq
        BY <1>6, <2>0, <4>1 DEF Joined, Routed
      <4>2. CASE i - Len(outq) \in DOMAIN es
        <5>1. Len(outq) + (i - Len(outq)) = i
          BY <1>6 DEF Joined
        <5>2. outq'[i] = es[i - Len(outq)]
          BY <1>6, <4>2, <5>1 DEF Joined
        <5>3. QED
          BY <3>2, <4>2, <5>2
      <4>3. QED
        BY <1>6, <4>1, <4>2 DEF Joined
    <3>4. ASSUME caller'[r][n] # "done" \/ r \notin Quitters
          PROVE  Flow(outq', outs'[r][n], Len(stream'[r][n]), r, n)
      <4>1. Flow(outq, outs[r][n], Len(stream[r][n]), r, n)
        BY <1>1, <2>0, <3>4 DEF Routed
      <4>2. PICK log \in Seq(BOOLEAN), k \in Nat : log = outs[r][n] /\ k = Len(stream[r][n])
        BY <2>1
      <4>3. Flow(outq, log, k, r, n)
        BY <4>1, <4>2
      <4>4. Flow(outq', log, k, r, n)
        BY <1>3, <1>4, <1>5, <3>2, <4>3, FlowOthers
      <4>5. QED
        BY <1>1, <2>3, <4>2, <4>4
    <3>5. Routed(r, n)'
      BY <1>1, <2>0, <2>3, <3>3, <3>4 DEF Routed
    <3>6. QED
      BY <2>2, <3>1, <3>5
  <2>4. CASE outs'[r][n] # outs[r][n]
    <3>1. Open(r, n)
      BY <2>0, <2>4 DEF EngineMove
    <3>2. PICK x \in BOOLEAN : outs'[r][n] = Append(outs[r][n], x) /\ (x => ~Open(r, n)')
      BY <2>0, <2>4 DEF EngineMove
    <3>3. n \in sent[r] /\ \A i \in DOMAIN outs[r][n] : ~outs[r][n][i]
      BY <2>0, <3>1 DEF Served
    <3> DEFINE z == Len(outs[r][n]) + 1
    <3>4. /\ DOMAIN outs'[r][n] = DOMAIN outs[r][n] \cup {z} /\ outs'[r][n][z] = x
          /\ Len(outs'[r][n]) = z /\ z \in Nat /\ Len(outs[r][n]) \in Nat
          /\ DOMAIN outs[r][n] = 1 .. Len(outs[r][n])
          /\ \A i \in DOMAIN outs[r][n] : outs'[r][n][i] = outs[r][n][i]
      BY <2>1, <3>2, AppendPositions
    <3>5. Served(r, n)'
      <4>1. Open(r, n)' => n \in sent'[r] /\ \A i \in DOMAIN outs'[r][n] : ~outs'[r][n][i]
        BY <1>7, <3>2, <3>3, <3>4
      <4>2. \A i \in DOMAIN outs'[r][n] : outs'[r][n][i] => i = Len(outs'[r][n])
        BY <3>3, <3>4
      <4>3. QED
        BY <1>7, <2>0, <3>3, <4>1, <4>2 DEF Served, EngineMove
    <3>6. PICK p \in DOMAIN es : /\ Of(es[p], r, n) /\ outs'[r][n] = Append(outs[r][n], es[p].final)
                                 /\ \A j \in DOMAIN es : Of(es[j], r, n) => j = p
      BY <2>0, <2>4 DEF Emits
    <3>7. \A i \in DOMAIN outq' : Of(outq'[i], r, n) => n \in sent'[r]
      BY <1>7, <3>3
    <3>8. Len(stream'[r][n]) <= Len(outs'[r][n]) /\ Len(stream[r][n]) \in Nat
          /\ Len(stream[r][n]) <= Len(outs[r][n])
      <4>1. Len(stream[r][n]) \in Nat /\ Len(stream[r][n]) <= Len(outs[r][n])
        BY <2>0, <2>1 DEF Routed
      <4>2. QED
        BY <1>1, <3>4, <4>1
    <3>9. \A i \in DOMAIN stream'[r][n] : /\ stream'[r][n][i].sub = n
                                          /\ stream'[r][n][i].final = outs'[r][n][i]
      <4>1. DOMAIN stream[r][n] = 1 .. Len(stream[r][n])
        BY <2>1
      <4>2. \A i \in DOMAIN stream[r][n] : i \in DOMAIN outs[r][n]
        BY <3>4, <3>8, <4>1
      <4>3. QED
        BY <1>1, <2>0, <3>4, <4>2 DEF Routed
    <3>10. ASSUME caller'[r][n] # "done" \/ r \notin Quitters
           PROVE  Flow(outq', outs'[r][n], Len(stream'[r][n]), r, n)
      <4>1. Flow(outq, outs[r][n], Len(stream[r][n]), r, n)
        BY <1>1, <2>0, <3>10 DEF Routed
      <4>2. PICK log \in Seq(BOOLEAN), k \in Nat : log = outs[r][n] /\ k = Len(stream[r][n])
        BY <2>1, <3>8
      <4>3. Flow(outq, log, k, r, n) /\ k <= Len(log)
        BY <3>8, <4>1, <4>2
      <4>4. es[p].final \in BOOLEAN
        <5>1. es[p] \in Outputs
          OBVIOUS
        <5>2. QED
          BY <5>1, EventFields
      <4>5. Flow(outq \o es, Append(log, es[p].final), k, r, n)
        BY <1>3, <1>5, <3>6, <4>3, <4>4, FlowJoins
      <4>6. QED
        BY <1>1, <1>4, <3>6, <4>2, <4>5
    <3>11. Routed(r, n)'
      BY <3>7, <3>8, <3>9, <3>10 DEF Routed
    <3>12. QED
      BY <2>2, <3>5, <3>11
  <2>5. QED
    BY <2>3, <2>4
<1>9. QED
  BY <1>8 DEF CallInv

\* A report is on nobody's stream.
LEMMA ReportCall ==
    ASSUME BaseInv, CallInv, NEW k \in Ranks, ReportBatch(k)
    PROVE  CallInv'
<1> USE DEF serviceVars, callVars
<1> DEFINE key == <<k, batches[k] + 1>>
           e == [metrics |-> TRUE, batch |-> key]
<1>0. Types
  BY DEF BaseInv
<1>1. outq' = Append(outq, e) /\ UNCHANGED <<cmds, sent, live, outs, closed, caller, stream, taken>>
  BY DEF ReportBatch
<1>6. key \in Keys
  BY <1>0, NextBatch DEF ReportBatch
<1> HIDE DEF key
<1>2. outq \in Seq(Events) /\ e \in Events /\ e.metrics
  BY <1>0, <1>6 DEF Types, Events, Reports
<1> HIDE DEF e
<1>3. outq' = outq \o <<e>> /\ <<e>> \in Seq(Events) /\ DOMAIN <<e>> = {1} /\ <<e>>[1] = e
  BY <1>1, <1>2
<1>4. ASSUME NEW r \in Ids, NEW n \in Submissions
      PROVE  Served(r, n)' /\ Called(r, n)' /\ Routed(r, n)'
  <2>0. Served(r, n) /\ Called(r, n) /\ Routed(r, n)
    BY DEF CallInv
  <2>1. outs[r][n] \in Seq(BOOLEAN) /\ Len(stream[r][n]) \in Nat
    BY <1>0 DEF Types, PerCall
  <2>2. Served(r, n)' /\ (Covered(r, n) => Covered(r, n)')
    BY <1>1, <2>0, ServedKept
  <2>3. Called(r, n)'
    <3>1. Final(r, n) => Final(r, n)'
      BY <1>1 DEF Final
    <3>2. QED
      BY <1>1, <2>0, <2>2, <3>1, CalledKept
  <2>4. ~Of(e, r, n)
    BY <1>2 DEF Of
  <2>5. \A i \in DOMAIN outq' : Of(outq'[i], r, n) => n \in sent'[r]
    <3>1. /\ DOMAIN outq' = DOMAIN outq \cup {Len(outq) + 1} /\ outq'[Len(outq) + 1] = e
          /\ \A i \in DOMAIN outq : outq'[i] = outq[i]
      BY <1>1, <1>2, AppendPositions
    <3>2. QED
      BY <1>1, <2>0, <2>4, <3>1 DEF Routed
  <2>6. ASSUME caller'[r][n] # "done" \/ r \notin Quitters
        PROVE  Flow(outq', outs'[r][n], Len(stream'[r][n]), r, n)
    <3>1. Flow(outq, outs[r][n], Len(stream[r][n]), r, n)
      BY <1>1, <2>0, <2>6 DEF Routed
    <3>2. PICK log \in Seq(BOOLEAN), d \in Nat : log = outs[r][n] /\ d = Len(stream[r][n])
      BY <2>1
    <3>3. PICK t \in Seq(Events) : t = <<e>>
      BY <1>3
    <3>4. Flow(outq, log, d, r, n) /\ \A i \in DOMAIN t : ~Of(t[i], r, n)
      BY <1>3, <2>4, <3>1, <3>2, <3>3
    <3>5. Flow(outq \o t, log, d, r, n)
      BY <1>2, <3>4, FlowOthers
    <3>6. QED
      BY <1>1, <1>3, <3>2, <3>3, <3>5
  <2>7. Routed(r, n)'
    BY <1>1, <2>0, <2>5, <2>6 DEF Routed
  <2>8. QED
    BY <2>2, <2>3, <2>7
<1>5. QED
  BY <1>4 DEF CallInv

\* A call that is done, of an id nobody gives up, has got everything: nothing of it
\* is left on the queue.
LEMMA NothingLate ==
    ASSUME BaseInv, CallInv, NEW r \in Ids, NEW n \in Submissions, caller[r][n] = "done", r \notin Quitters,
           NEW i \in DOMAIN outq
    PROVE  ~Of(outq[i], r, n)
<1>0. Served(r, n) /\ Called(r, n) /\ Routed(r, n)
  BY DEF CallInv
<1>1. outq \in Seq(Events) /\ outs[r][n] \in Seq(BOOLEAN) /\ stream[r][n] \in Seq(Items) /\ taken[r][n] \in Nat
      /\ taken[r][n] <= Len(stream[r][n])
  BY DEF BaseInv, Types, Events, PerCall, HoldInv
<1>2. Final(r, n)
  BY <1>0 DEF Called, CalledAt
<1>3. taken[r][n] \in DOMAIN stream[r][n] /\ stream[r][n][taken[r][n]].final
  BY <1>1, <1>2 DEF Final
<1>4. Len(stream[r][n]) <= Len(outs[r][n]) /\ outs[r][n][taken[r][n]]
  BY <1>0, <1>3 DEF Routed
<1>5. taken[r][n] \in DOMAIN outs[r][n]
  BY <1>1, <1>3, <1>4
<1>6. taken[r][n] = Len(outs[r][n])
  BY <1>0, <1>4, <1>5 DEF Served
<1>7. Len(stream[r][n]) = Len(outs[r][n])
  BY <1>1, <1>4, <1>6
<1>8. Flow(outq, outs[r][n], Len(outs[r][n]), r, n)
  BY <1>0, <1>7 DEF Routed
<1>9. PICK log \in Seq(BOOLEAN) : log = outs[r][n]
  BY <1>1
<1>10. Flow(outq, log, Len(log), r, n)
  BY <1>8, <1>9
<1>11. QED
  BY <1>1, <1>10, FlowDone

\* The router reads an event, when ids used again are never given up: an output goes
\* on the stream of its own submission, or on none because its call has gone.
LEMMA RouteCall ==
    ASSUME BaseInv, CallInv, Route, Quitters \cap Reused = {}
    PROVE  CallInv'
<1> USE DEF serviceVars
<1>0. Types
  BY DEF BaseInv
<1>1. PICK e, m : RoutedTo(e, m)
  BY <1>0, RouteEffect
<1>2. /\ outq \in Seq(Events) /\ outq # <<>> /\ outq' = Tail(outq) /\ e = Head(outq) /\ e \in Events
      /\ UNCHANGED <<cmds, sent, live, outs, closed, caller, taken, streams>>
  BY <1>0, <1>1 DEF RoutedTo, Types, Events
<1>3. /\ 1 \in DOMAIN outq /\ outq[1] = e
      /\ \A i \in DOMAIN outq' : i + 1 \in DOMAIN outq /\ outq'[i] = outq[i + 1]
  BY <1>2, TailPositions
<1>4. ASSUME NEW r \in Ids, NEW n \in Submissions, Of(e, r, n)
      PROVE  caller[r][n] \in Holding \cup {"done"} /\ n \in sent[r]
  <2>1. n \in sent[r]
    BY <1>3, <1>4 DEF CallInv, Routed
  <2>2. QED
    BY <2>1 DEF CallInv, Called, CalledAt, Holding
<1>5. ASSUME NEW r \in Ids, NEW n \in Submissions
      PROVE  Served(r, n)' /\ Called(r, n)' /\ Routed(r, n)'
  <2>0. Served(r, n) /\ Called(r, n) /\ Routed(r, n)
    BY DEF CallInv
  <2>1. /\ outs[r][n] \in Seq(BOOLEAN) /\ stream[r][n] \in Seq(Items) /\ taken[r][n] \in Nat
        /\ taken[r][n] <= Len(stream[r][n]) /\ (caller[r][n] \in Holding <=> streams[r] = n) /\ n # 0
    <3>1. outs[r][n] \in Seq(BOOLEAN) /\ stream[r][n] \in Seq(Items) /\ taken[r][n] \in Nat
      BY <1>0 DEF Types, PerCall
    <3>2. taken[r][n] <= Len(stream[r][n]) /\ (caller[r][n] \in Holding <=> streams[r] = n)
      BY DEF BaseInv, HoldInv
    <3>3. QED
      BY <3>1, <3>2, Numbers
  <2>2. Served(r, n)' /\ (Covered(r, n) => Covered(r, n)')
    BY <1>2, <2>0, ServedKept
  <2>3. \A i \in DOMAIN outq' : Of(outq'[i], r, n) => n \in sent'[r]
    BY <1>2, <1>3, <2>0 DEF Routed
  <2>4. PICK log \in Seq(BOOLEAN), k \in Nat : log = outs[r][n] /\ k = Len(stream[r][n])
    BY <2>1
  <2>5. CASE m = n /\ e.id = r /\ ~e.metrics
    <3>1. streams[r] = n /\ e \in Outputs
          /\ stream'[r][n] = Append(stream[r][n], [sub |-> e.sub, final |-> e.final])
      BY <1>1, <2>1, <2>5 DEF RoutedTo
    <3>2. caller[r][n] \in Holding /\ caller[r][n] # "done" /\ caller[r][n] # "idle"
      BY <2>1, <3>1, HoldingStates
    <3>3. PICK k2 \in Submissions : k2 = e.sub
      BY <3>1, EventFields
    <3>4. k2 = n
      <4>1. SUFFICES ASSUME k2 # n PROVE FALSE
        OBVIOUS
      <4>2. Of(e, r, k2)
        BY <2>5, <3>3 DEF Of
      <4>3. caller[r][k2] = "done"
        <5>1. caller[r][k2] \in Holding <=> streams[r] = k2
          BY DEF BaseInv, HoldInv
        <5>2. QED
          BY <1>4, <3>1, <4>1, <4>2, <5>1
      <4>4. (n = 1 \/ r \in Reused) /\ (k2 = 1 \/ r \in Reused)
        BY <3>2, <4>3 DEF CallInv, Called, CalledAt
      <4>5. r \notin Quitters
        BY <4>1, <4>4
      <4>6. ~Of(outq[1], r, k2)
        BY <1>3, <4>3, <4>5, NothingLate
      <4>7. QED
        BY <1>3, <4>2, <4>6
    <3>5. Of(e, r, n) /\ Flow(outq, log, k, r, n)
      BY <2>0, <2>4, <2>5, <3>2, <3>3, <3>4 DEF Of, Routed
    <3>6. k + 1 <= Len(log) /\ e.final = log[k + 1] /\ Flow(Tail(outq), log, k + 1, r, n)
      BY <1>2, <3>5, FlowTaken
    <3>7. PICK item \in Items : item = [sub |-> e.sub, final |-> e.final]
      <4>1. e.sub \in Submissions /\ e.final \in BOOLEAN
        BY <3>1, EventFields
      <4>2. QED
        BY <4>1 DEF Items
    <3>8. item.sub = n /\ item.final = e.final
      BY <3>3, <3>4, <3>7
    <3>9. stream'[r][n] = Append(stream[r][n], item)
      BY <3>1, <3>7
    <3>10. /\ Len(stream'[r][n]) = k + 1 /\ stream'[r][n][k + 1] = item
           /\ DOMAIN stream'[r][n] = DOMAIN stream[r][n] \cup {k + 1}
           /\ \A i \in DOMAIN stream[r][n] : stream'[r][n][i] = stream[r][n][i]
           /\ DOMAIN stream[r][n] = 1 .. k
      BY <2>1, <2>4, <3>9, AppendPositions
    <3>11. Final(r, n) => Final(r, n)'
      <4> SUFFICES ASSUME Final(r, n) PROVE Final(r, n)'
        OBVIOUS
      <4>1. taken[r][n] \in DOMAIN stream[r][n]
        BY <2>1, <2>4, <3>10 DEF Final
      <4>2. stream'[r][n][taken[r][n]] = stream[r][n][taken[r][n]]
        BY <3>10, <4>1
      <4>3. QED
        BY <1>2, <4>2 DEF Final
    <3>12. Called(r, n)'
      BY <1>2, <2>0, <2>2, <3>11, CalledKept
    <3>13. \A i \in DOMAIN stream'[r][n] : /\ stream'[r][n][i].sub = n
                                           /\ stream'[r][n][i].final = outs'[r][n][i]
      <4> SUFFICES ASSUME NEW i \in DOMAIN stream'[r][n]
                   PROVE  stream'[r][n][i].sub = n /\ stream'[r][n][i].final = outs[r][n][i]
        BY <1>2
      <4>1. CASE i = k + 1
        BY <2>4, <3>6, <3>8, <3>10, <4>1
      <4>2. CASE i \in DOMAIN stream[r][n]
        BY <2>0, <3>10, <4>2 DEF Routed
      <4>3. QED
        BY <3>10, <4>1, <4>2
    <3>14. Len(stream'[r][n]) <= Len(outs'[r][n])
           /\ Flow(outq', outs'[r][n], Len(stream'[r][n]), r, n)
      BY <1>2, <2>4, <3>6, <3>10
    <3>15. Routed(r, n)'
      BY <2>3, <3>13, <3>14 DEF Routed
    <3>16. QED
      BY <2>2, <3>12, <3>15
  <2>6. CASE ~(m = n /\ e.id = r /\ ~e.metrics)
    <3>1. stream'[r][n] = stream[r][n]
      BY <1>1, <2>1, <2>6 DEF RoutedTo
    <3>2. Final(r, n) => Final(r, n)'
      BY <1>2, <3>1 DEF Final
    <3>3. Called(r, n)'
      BY <1>2, <2>0, <2>2, <3>2, CalledKept
    <3>4. ASSUME caller'[r][n] # "done" \/ r \notin Quitters
          PROVE  Flow(outq', outs'[r][n], Len(stream'[r][n]), r, n)
      <4>1. ~Of(e, r, n)
        <5>1. SUFFICES ASSUME Of(e, r, n) PROVE FALSE
          OBVIOUS
        <5>2. m = streams[r] /\ m # n
          BY <1>1, <2>6, <5>1 DEF Of, RoutedTo
        <5>3. caller[r][n] = "done"
          BY <1>4, <2>1, <5>1, <5>2
        <5>4. r \notin Quitters
          BY <1>2, <3>4, <5>3
        <5>5. QED
          BY <1>3, <5>1, <5>3, <5>4, NothingLate
      <4>2. Flow(outq, log, k, r, n)
        BY <1>2, <2>0, <2>4, <3>4 DEF Routed
      <4>3. Flow(Tail(outq), log, k, r, n)
        BY <1>2, <4>1, <4>2, FlowPasses
      <4>4. QED
        BY <1>2, <2>4, <3>1, <4>3
    <3>5. Routed(r, n)'
      BY <1>2, <2>0, <2>3, <3>1, <3>4 DEF Routed
    <3>6. QED
      BY <2>2, <3>3, <3>5
  <2>7. QED
    BY <2>5, <2>6
<1>6. QED
  BY <1>5 DEF CallInv

-----------------------------------------------------------------------------
(* Readers and requests *)

\* CallInv holds at the start.
LEMMA CallInvInit == Init => CallInv
<1> SUFFICES ASSUME Init, NEW r \in Ids, NEW n \in Submissions
             PROVE  Served(r, n) /\ Called(r, n) /\ Routed(r, n)
  BY DEF CallInv
<1>1. /\ cmds[r] = <<>> /\ sent[r] = {} /\ live[r] = 0 /\ outs[r][n] = <<>> /\ caller[r][n] = "idle"
      /\ stream[r][n] = <<>> /\ taken[r][n] = 0 /\ outq = <<>> /\ n # 0
  BY Numbers DEF Init, ServiceInit
<1>2. DOMAIN cmds[r] = {} /\ DOMAIN outs[r][n] = {} /\ DOMAIN stream[r][n] = {} /\ DOMAIN outq = {}
      /\ Len(outs[r][n]) = 0 /\ Len(stream[r][n]) = 0
  BY <1>1
<1>3. Served(r, n)
  BY <1>1, <1>2 DEF Served, Open, Queued
<1>4. Called(r, n)
  BY <1>1 DEF Called, CalledAt
<1>5. Flow(outq, outs[r][n], Len(stream[r][n]), r, n)
  <2>1. 1 .. (Len(outs[r][n]) - Len(stream[r][n])) = {}
    BY <1>2
  <2> DEFINE f == [a \in {} |-> a]
  <2>2. f \in [{} -> DOMAIN outq] /\ DOMAIN f = {}
    OBVIOUS
  <2> HIDE DEF f
  <2>3. InFlight(f, outq, outs[r][n], Len(stream[r][n]), r, n)
    BY <1>2, <2>1, <2>2 DEF InFlight
  <2>4. QED
    BY <2>1, <2>2, <2>3 DEF Flow
<1>6. Routed(r, n)
  BY <1>2, <1>5 DEF Routed
<1>7. QED
  BY <1>3, <1>4, <1>6

\* Every step keeps it.
LEMMA CallInvNext ==
    ASSUME Quitters \cap Reused = {}
    PROVE  BaseInv /\ CallInv /\ [Next]_vars => CallInv'
<1> SUFFICES ASSUME BaseInv, CallInv, [Next]_vars PROVE CallInv'
  OBVIOUS
<1>1. CASE UNCHANGED vars
  <2>1. ASSUME NEW r \in Ids, NEW n \in Submissions
        PROVE  Served(r, n)' /\ Called(r, n)' /\ Routed(r, n)'
    <3> USE DEF vars, serviceVars, callVars
    <3>1. Served(r, n) /\ Called(r, n) /\ Routed(r, n)
      BY DEF CallInv
    <3>2. Served(r, n)' /\ (Covered(r, n) => Covered(r, n)')
      BY <1>1, <3>1, ServedKept
    <3>3. Final(r, n) => Final(r, n)'
      BY <1>1 DEF Final
    <3>4. Called(r, n)'
      BY <1>1, <3>1, <3>2, <3>3, CalledKept
    <3>5. Routed(r, n)'
      BY <1>1, <3>1, RoutedKept
    <3>6. QED
      BY <3>2, <3>4, <3>5
  <2>2. QED
    BY <2>1 DEF CallInv
<1>2. ASSUME NEW c \in Calls, CheckOpen(c[1], c[2]) \/ CallerStep(c[1], c[2]) \/ Quit(c[1], c[2])
      PROVE  CallInv'
  <2>1. PICK s \in Ids, m \in Submissions : s = c[1] /\ m = c[2]
    BY DEF Calls
  <2>2. m = 1 \/ s \in Reused
    BY <2>1 DEF Calls
  <2>3. QED
    BY <1>2, <2>1, <2>2, CallerCall
<1>3. QED
  BY <1>1, <1>2, AbortCloseCall, EngineCall, ReportCall, RouteCall DEF Next

\* The router never mixes up two calls with one id: each stream has the outputs of
\* its own submission, in order and from the first.  For ids that are used again,
\* provided that nobody gives such an id up before its final output.
THEOREM ClientReadersOwn ==
    ASSUME Quitters \cap Reused = {}
    PROVE  Spec => []ReadersSeeOwnOutputs
<1>1. BaseInv /\ CallInv => ReadersSeeOwnOutputs
  <2> SUFFICES ASSUME BaseInv, CallInv, NEW c \in Calls
               PROVE  /\ \A i \in DOMAIN stream[c[1]][c[2]] : stream[c[1]][c[2]][i].sub = c[2]
                      /\ IsPrefix([i \in DOMAIN stream[c[1]][c[2]] |-> stream[c[1]][c[2]][i].final],
                                  outs[c[1]][c[2]])
    BY DEF ReadersSeeOwnOutputs
  <2>1. PICK r \in Ids, n \in Submissions : r = c[1] /\ n = c[2]
    BY DEF Calls
  <2>2. Routed(r, n)
    BY DEF CallInv
  <2>3. stream[r][n] \in Seq(Items) /\ outs[r][n] \in Seq(BOOLEAN)
    BY DEF BaseInv, Types, PerCall
  <2> DEFINE fs == [i \in DOMAIN stream[r][n] |-> stream[r][n][i].final]
  <2>4. PICK k \in Nat : k = Len(stream[r][n]) /\ DOMAIN stream[r][n] = 1 .. k
    BY <2>3
  <2>5. fs \in Seq(BOOLEAN) /\ Len(fs) = k /\ \A i \in 1 .. k : fs[i] = outs[r][n][i]
    <3>1. \A i \in 1 .. k : stream[r][n][i].final = outs[r][n][i] /\ outs[r][n][i] \in BOOLEAN
      <4>1. k <= Len(outs[r][n]) /\ \A i \in 1 .. k : stream[r][n][i].final = outs[r][n][i]
        BY <2>2, <2>4 DEF Routed
      <4>2. \A i \in 1 .. Len(outs[r][n]) : outs[r][n][i] \in BOOLEAN
        BY <2>3
      <4>3. \A i \in 1 .. k : i \in 1 .. Len(outs[r][n])
        BY <2>3, <4>1
      <4>4. QED
        BY <4>1, <4>2, <4>3
    <3>2. fs \in [1 .. k -> BOOLEAN] /\ \A i \in 1 .. k : fs[i] = outs[r][n][i]
      BY <2>4, <3>1
    <3> HIDE DEF fs
    <3>3. QED
      BY <3>2
  <2> HIDE DEF fs
  <2>6. IsPrefix(fs, outs[r][n])
    <3>1. k <= Len(outs[r][n])
      BY <2>2, <2>4 DEF Routed
    <3>2. SubSeq(fs, 1, k) = SubSeq(outs[r][n], 1, k)
      <4>1. SubSeq(fs, 1, k) = [i \in 1 .. k |-> fs[i]]
        BY <2>5
      <4>2. SubSeq(outs[r][n], 1, k) = [i \in 1 .. k |-> outs[r][n][i]]
        BY <2>3, <3>1
      <4>3. QED
        BY <2>5, <4>1, <4>2
    <3>3. QED
      BY <2>5, <3>1, <3>2 DEF IsPrefix
  <2>7. \A i \in DOMAIN stream[r][n] : stream[r][n][i].sub = n
    BY <2>2 DEF Routed
  <2>8. QED
    BY <2>1, <2>6, <2>7 DEF fs
<1>2. QED
  BY <1>1, BaseInvInit, BaseInvNext, CallInvInit, CallInvNext, PTL DEF Spec

\* No request runs on after its consumer left: a live submission has a caller that
\* reads or aborts it, or its ABORT is on the way, or the engine is being closed.
THEOREM ClientNoOrphans ==
    ASSUME Quitters \cap Reused = {}
    PROVE  Spec => []NoRequestWithoutReader
<1>1. BaseInv /\ CallInv => NoRequestWithoutReader
  <2> SUFFICES ASSUME BaseInv, CallInv, NEW r \in Ids, live[r] # 0
               PROVE  \/ caller[r][live[r]] \in {"reading", "yielded", "aborting"}
                      \/ \E i \in DOMAIN cmds[r] : cmds[r][i].type = "ABORT"
                      \/ closed
    BY DEF NoRequestWithoutReader
  <2>0. Types
    BY DEF BaseInv
  <2>1. PICK n \in Submissions : n = live[r]
    BY <2>0, LiveSubmission
  <2>2. Served(r, n) /\ Called(r, n) /\ Routed(r, n)
    BY DEF CallInv
  <2>3. n \in sent[r] /\ \A i \in DOMAIN outs[r][n] : ~outs[r][n][i]
    BY <2>1, <2>2 DEF Served, Open
  <2>4. ~Final(r, n)
    <3>1. SUFFICES ASSUME Final(r, n) PROVE FALSE
      OBVIOUS
    <3>2. /\ stream[r][n] \in Seq(Items) /\ outs[r][n] \in Seq(BOOLEAN)
          /\ taken[r][n] \in Nat /\ taken[r][n] <= Len(stream[r][n])
      BY <2>0 DEF Types, PerCall, BaseInv, HoldInv
    <3>3. taken[r][n] \in DOMAIN stream[r][n] /\ stream[r][n][taken[r][n]].final
      BY <3>1, <3>2 DEF Final
    <3>4. Len(stream[r][n]) <= Len(outs[r][n]) /\ outs[r][n][taken[r][n]]
      BY <2>2, <3>3 DEF Routed
    <3>5. taken[r][n] \in DOMAIN outs[r][n]
      BY <3>2, <3>3, <3>4
    <3>6. QED
      BY <2>3, <3>4, <3>5
  <2>5. caller[r][n] \in {"reading", "yielded", "aborting", "dropping", "leaked", "done"}
    BY <2>2, <2>3, <2>4 DEF Called, CalledAt, Active
  <2>6. caller[r][n] = "leaked" => closed
    BY <2>2, <2>3 DEF Called, CalledAt
  <2>7. caller[r][n] \in {"dropping", "done"} => closed \/ \E i \in DOMAIN cmds[r] : cmds[r][i].type = "ABORT"
    BY <2>1, <2>2, <2>4 DEF Called, CalledAt, Covered
  <2>8. QED
    BY <2>1, <2>5, <2>6, <2>7
<1>2. QED
  BY <1>1, BaseInvInit, BaseInvNext, CallInvInit, CallInvNext, PTL DEF Spec
=============================================================================
