--------------------------- MODULE ChannelProofs ---------------------------
(***************************************************************************)
(* Each direction of Connection implements Channel: what is delivered was  *)
(* sent, in order, once, for every set of ids and payloads and every       *)
(* bound.                                                                  *)
(*                                                                         *)
(* The words of a direction are those of the calls of Send, one after the  *)
(* other.  The unread ones lie between two positions in that text: the     *)
(* reader's, which follows from what it has received, and the writer's,    *)
(* which follows from what it has still in m_qMessagesOut.                 *)
(***************************************************************************)
EXTENDS ConnectionProofs

-----------------------------------------------------------------------------
(* Positions: a header or a body of the i-th message sent.                 *)

Positions == [i : Nat \ {0}, k : {"header", "body"}]
Pos(i, k) == [i |-> i, k |-> k]

WordAt(s, p) == IF p.k = "header" THEN Header(s[p.i]) ELSE Body(s[p.i])
Succ(s, p) == IF p.k = "header" /\ HasBody(s[p.i]) THEN Pos(p.i, "body")
              ELSE Pos(p.i + 1, "header")

\* ps are the positions of the words w, and the one after them.
Track(s, w, ps) ==
    /\ ps \in Seq(Positions) /\ Len(ps) = Len(w) + 1
    /\ \A j \in 1 .. Len(w) : /\ ps[j].i <= Len(s)
                              /\ w[j] = WordAt(s, ps[j])
                              /\ ps[j + 1] = Succ(s, ps[j])

\* q and po hold what was sent after the k-th message: all of it, as long as
\* the socket is not closed.
Queued(s, po, q, so, k) ==
    /\ k + Len(q) + Len(po) <= Len(s)
    /\ so # "closed" => k + Len(q) + Len(po) = Len(s)
    /\ \A j \in 1 .. Len(q) : q[j] = s[k + j]
    /\ \A j \in 1 .. Len(po) : po[j] = s[k + Len(q) + j]

\* p is where the next word belongs, when k messages have left the queue and
\* c is being written.  A write that fails ends the direction.
WriterAt(s, c, so, k, p) ==
    /\ \A x \in c : ~x.fails => p = IF x.op = "header" THEN Succ(s, Pos(k + 1, "header"))
                                    ELSE Pos(k + 2, "header")
    /\ so # "closed" /\ c = {} => p = Pos(k + 1, "header")

\* The unread words w lie between the reader's position rp and the writer's.
Flow(s, po, q, c, so, w, rp) ==
    \E ps \in Seq(Positions), k \in Nat :
        /\ Queued(s, po, q, so, k)
        /\ Track(s, w, ps) /\ ps[1] = rp
        /\ WriterAt(s, c, so, k, ps[Len(w) + 1])

LEMMA SuccOK ==
  ASSUME NEW s, NEW p \in Positions
  PROVE  Succ(s, p) \in Positions
  BY DEF Succ, Pos, Positions

LEMMA PosOK ==
  ASSUME NEW i \in Nat \ {0}, NEW k \in {"header", "body"}
  PROVE  Pos(i, k) \in Positions /\ Pos(i, k).i = i /\ Pos(i, k).k = k
  BY DEF Pos, Positions

\* What is sent later moves nothing that is already on its way.
LEMMA AppendKeeps ==
  ASSUME NEW s \in Seq(Messages), NEW m \in Messages
  PROVE  /\ Append(s, m) \in Seq(Messages) /\ Len(Append(s, m)) = Len(s) + 1
         /\ Append(s, m)[Len(s) + 1] = m
         /\ \A i \in Nat \ {0} : i <= Len(s) => Append(s, m)[i] = s[i]
         /\ \A p \in Positions : p.i <= Len(s) =>
              /\ WordAt(Append(s, m), p) = WordAt(s, p)
              /\ Succ(Append(s, m), p) = Succ(s, p)
<1>1. /\ Append(s, m) \in Seq(Messages) /\ Len(Append(s, m)) = Len(s) + 1
      /\ Append(s, m)[Len(s) + 1] = m
      /\ \A i \in Nat \ {0} : i <= Len(s) => Append(s, m)[i] = s[i]
  OBVIOUS
<1>2. ASSUME NEW p \in Positions, p.i <= Len(s)
      PROVE  Append(s, m)[p.i] = s[p.i]
  BY <1>1, <1>2 DEF Positions
<1> QED
  BY <1>1, <1>2 DEF WordAt, Succ

LEMMA TrackSend ==
  ASSUME NEW s \in Seq(Messages), NEW m \in Messages, NEW w \in Seq(Words), NEW ps,
         Track(s, w, ps)
  PROVE  Track(Append(s, m), w, ps)
<1>1. ASSUME NEW j \in 1 .. Len(w)
      PROVE  /\ ps[j].i <= Len(Append(s, m)) /\ w[j] = WordAt(Append(s, m), ps[j])
             /\ ps[j + 1] = Succ(Append(s, m), ps[j])
  <2>1. /\ ps[j] \in Positions /\ ps[j].i <= Len(s) /\ w[j] = WordAt(s, ps[j])
        /\ ps[j + 1] = Succ(s, ps[j])
    BY DEF Track
  <2>2. ps[j].i \in Nat
    BY <2>1 DEF Positions
  <2> QED
    BY <2>1, <2>2, AppendKeeps
<1> QED
  BY <1>1 DEF Track

\* The word at the writer's position is written.
LEMMA TrackWrite ==
  ASSUME NEW s \in Seq(Messages), NEW w \in Seq(Words), NEW ps, Track(s, w, ps),
         ps[Len(w) + 1].i <= Len(s), NEW x \in Words, x = WordAt(s, ps[Len(w) + 1])
  PROVE  LET qs == Append(ps, Succ(s, ps[Len(w) + 1])) IN
         /\ Track(s, Append(w, x), qs) /\ qs[1] = ps[1]
         /\ Len(Append(w, x)) + 1 = Len(w) + 2
         /\ qs[Len(w) + 2] = Succ(s, ps[Len(w) + 1])
<1> DEFINE n == Len(w)
           y == Succ(s, ps[n + 1])
           qs == Append(ps, y)
           v == Append(w, x)
<1>1. /\ ps \in Seq(Positions) /\ Len(ps) = n + 1 /\ n \in Nat
      /\ \A j \in 1 .. n : /\ ps[j].i <= Len(s) /\ w[j] = WordAt(s, ps[j])
                           /\ ps[j + 1] = Succ(s, ps[j])
  BY DEF Track
<1>2. ps[n + 1] \in Positions
  BY <1>1
<1>3. y \in Positions
  BY <1>2, SuccOK
<1>4. /\ v \in Seq(Words) /\ Len(v) = n + 1 /\ v[n + 1] = x
      /\ \A j \in 1 .. n : v[j] = w[j]
  BY <1>1
<1> HIDE DEF y, v
<1>5. /\ qs \in Seq(Positions) /\ Len(qs) = n + 2 /\ qs[n + 2] = y
      /\ \A j \in 1 .. n + 1 : qs[j] = ps[j]
  BY <1>1, <1>3
<1> HIDE DEF qs
<1>6. ASSUME NEW j \in 1 .. n + 1
      PROVE  qs[j].i <= Len(s) /\ v[j] = WordAt(s, qs[j]) /\ qs[j + 1] = Succ(s, qs[j])
  <2>1. CASE j \in 1 .. n
    <3>1. j + 1 \in 1 .. n + 1
      BY <2>1, <1>1
    <3> QED
      BY <2>1, <3>1, <1>1, <1>4, <1>5
  <2>2. CASE j = n + 1
    <3>1. j \in 1 .. n + 1 /\ j + 1 = n + 2
      BY <2>2, <1>1
    <3> QED
      BY <2>2, <3>1, <1>4, <1>5 DEF y
  <2> QED
    BY <2>1, <2>2, <1>1
<1>7. Track(s, v, qs)
  BY <1>1, <1>4, <1>5, <1>6 DEF Track
<1>8. qs[1] = ps[1]
  BY <1>1, <1>5
<1> QED
  BY <1>1, <1>4, <1>5, <1>7, <1>8 DEF y, v, qs

\* The word at the reader's position is read.
LEMMA TrackRead ==
  ASSUME NEW s \in Seq(Messages), NEW w \in Seq(Words), w # <<>>, NEW ps, Track(s, w, ps)
  PROVE  /\ Head(w) = WordAt(s, ps[1]) /\ ps[1].i <= Len(s) /\ ps[1] \in Positions
         /\ Track(s, Tail(w), Tail(ps)) /\ Tail(ps)[1] = Succ(s, ps[1])
         /\ Tail(ps)[Len(Tail(w)) + 1] = ps[Len(w) + 1]
<1> DEFINE n == Len(w)
<1>1. /\ ps \in Seq(Positions) /\ Len(ps) = n + 1 /\ n \in Nat /\ n > 0
      /\ \A j \in 1 .. n : /\ ps[j].i <= Len(s) /\ w[j] = WordAt(s, ps[j])
                           /\ ps[j + 1] = Succ(s, ps[j])
  BY DEF Track
<1>2. /\ Tail(w) \in Seq(Words) /\ Len(Tail(w)) = n - 1 /\ Head(w) = w[1]
      /\ \A j \in 1 .. n - 1 : Tail(w)[j] = w[j + 1]
  BY <1>1
<1>3. /\ Tail(ps) \in Seq(Positions) /\ Len(Tail(ps)) = n
      /\ \A j \in 1 .. n : Tail(ps)[j] = ps[j + 1]
  BY <1>1
<1>4. 1 \in 1 .. n /\ n \in 1 .. n /\ ps[1] \in Positions /\ ps[1 + 1] = Succ(s, ps[1])
  BY <1>1
<1>5. ASSUME NEW j \in 1 .. n - 1
      PROVE  /\ Tail(ps)[j].i <= Len(s) /\ Tail(w)[j] = WordAt(s, Tail(ps)[j])
             /\ Tail(ps)[j + 1] = Succ(s, Tail(ps)[j])
  <2>1. j \in 1 .. n /\ j + 1 \in 1 .. n
    BY <1>1
  <2>2. /\ Tail(ps)[j] = ps[j + 1] /\ Tail(ps)[j + 1] = ps[j + 1 + 1]
        /\ Tail(w)[j] = w[j + 1]
    BY <2>1, <1>2, <1>3
  <2> QED
    BY <2>1, <2>2, <1>1
<1>6. Track(s, Tail(w), Tail(ps))
  <2>1. Len(Tail(ps)) = Len(Tail(w)) + 1
    BY <1>1, <1>2, <1>3
  <2> QED
    BY <2>1, <1>2, <1>3, <1>5 DEF Track
<1>7. n - 1 + 1 = n /\ Tail(ps)[1] = ps[1 + 1] /\ Tail(ps)[n] = ps[n + 1]
  BY <1>1, <1>3
<1> QED
  BY <1>1, <1>2, <1>4, <1>6, <1>7

-----------------------------------------------------------------------------
(* What the operations of one direction do to its flow.                    *)

LEMMA FlowSend ==
  ASSUME NEW s \in Seq(Messages), NEW m \in Messages, NEW po \in Seq(Messages),
         NEW q \in Seq(Messages), NEW c, c # {} => q # <<>>, NEW so, so # "closed",
         NEW w \in Seq(Words), NEW rp, Flow(s, po, q, c, so, w, rp)
  PROVE  Flow(Append(s, m), Append(po, m), q, c, so, w, rp)
<1> DEFINE t == Append(s, m)
           pom == Append(po, m)
<1>1. PICK ps \in Seq(Positions), k \in Nat :
        /\ Queued(s, po, q, so, k) /\ Track(s, w, ps) /\ ps[1] = rp
        /\ WriterAt(s, c, so, k, ps[Len(w) + 1])
  BY DEF Flow
<1>2. k + Len(q) + Len(po) = Len(s) /\ Len(q) \in Nat /\ Len(po) \in Nat /\ Len(s) \in Nat
      /\ Len(pom) = Len(po) + 1
      /\ (\A j \in 1 .. Len(po) : pom[j] = po[j]) /\ pom[Len(po) + 1] = m
  BY <1>1 DEF Queued
<1>3. /\ Len(t) = Len(s) + 1 /\ t[Len(s) + 1] = m
      /\ \A i \in Nat \ {0} : i <= Len(s) => t[i] = s[i]
      /\ \A p \in Positions : p.i <= Len(s) => Succ(t, p) = Succ(s, p)
  BY AppendKeeps
<1> HIDE DEF t, pom
<1>4. Queued(t, pom, q, so, k)
  <2>1. ASSUME NEW j \in 1 .. Len(q) PROVE q[j] = t[k + j]
    <3>1. k + j \in Nat \ {0} /\ k + j <= Len(s)
      BY <1>2
    <3> QED
      BY <3>1, <1>1, <1>3 DEF Queued
  <2>2. ASSUME NEW j \in 1 .. Len(po) + 1 PROVE pom[j] = t[k + Len(q) + j]
    <3>1. CASE j \in 1 .. Len(po)
      <4>1. k + Len(q) + j \in Nat \ {0} /\ k + Len(q) + j <= Len(s)
        BY <3>1, <1>2
      <4> QED
        BY <4>1, <3>1, <1>1, <1>2, <1>3 DEF Queued
    <3>2. CASE j = Len(po) + 1
      <4>1. k + Len(q) + Len(po) = Len(s) /\ Len(q) \in Nat /\ Len(po) \in Nat
        BY <1>2
      <4>2. k + Len(q) + j = Len(s) + 1
        BY <3>2, <4>1
      <4> QED
        BY <4>2, <3>2, <1>2, <1>3
    <3> QED
      BY <3>1, <3>2, <1>2
  <2>3. k + Len(q) + Len(pom) = Len(t)
    <3>1. Len(pom) = Len(po) + 1 /\ Len(t) = Len(s) + 1
      BY <1>2, <1>3
    <3>2. k + Len(q) + Len(po) = Len(s) /\ Len(q) \in Nat /\ Len(po) \in Nat
      BY <1>2
    <3> QED
      BY <3>1, <3>2
  <2>4. k + Len(q) + Len(pom) <= Len(t)
    BY <2>3, <1>2, <1>3
  <2> QED
    BY <2>1, <2>2, <2>3, <2>4, <1>2 DEF Queued
<1>5. Track(t, w, ps)
  BY <1>1, TrackSend DEF t
<1>6. WriterAt(t, c, so, k, ps[Len(w) + 1])
  <2>1. ASSUME c # {} PROVE Succ(t, Pos(k + 1, "header")) = Succ(s, Pos(k + 1, "header"))
    <3>1. k + 1 \in Nat \ {0} /\ k + 1 <= Len(s)
      <4>1. Len(q) > 0
        BY <2>1
      <4> QED
        BY <4>1, <1>2
    <3> QED
      BY <3>1, PosOK, <1>3
  <2> QED
    BY <1>1, <2>1 DEF WriterAt
<1> QED
  BY <1>1, <1>4, <1>5, <1>6 DEF Flow, t, pom

\* A lambda of Send runs and writes nothing.
LEMMA FlowQueue ==
  ASSUME NEW s \in Seq(Messages), NEW po \in Seq(Messages), po # <<>>,
         NEW q \in Seq(Messages), NEW c, NEW so,
         NEW w, NEW rp, Flow(s, po, q, c, so, w, rp)
  PROVE  Flow(s, Tail(po), Append(q, Head(po)), c, so, w, rp)
<1> DEFINE r == Tail(po)
           qm == Append(q, Head(po))
<1>1. PICK ps \in Seq(Positions), k \in Nat :
        /\ Queued(s, po, q, so, k) /\ Track(s, w, ps) /\ ps[1] = rp
        /\ WriterAt(s, c, so, k, ps[Len(w) + 1])
  BY DEF Flow
<1>2. /\ Len(q) \in Nat /\ Len(po) \in Nat /\ Len(po) > 0 /\ Len(s) \in Nat
      /\ Len(r) = Len(po) - 1 /\ (\A j \in 1 .. Len(po) - 1 : r[j] = po[j + 1])
      /\ Head(po) = po[1] /\ Head(po) \in Messages
  OBVIOUS
<1>3. /\ Len(qm) = Len(q) + 1 /\ (\A j \in 1 .. Len(q) : qm[j] = q[j])
      /\ qm[Len(q) + 1] = po[1]
  BY <1>2
<1> HIDE DEF r, qm
<1>4. Queued(s, r, qm, so, k)
  <2>1. ASSUME NEW j \in 1 .. Len(q) + 1 PROVE qm[j] = s[k + j]
    <3>1. CASE j \in 1 .. Len(q)
      BY <3>1, <1>1, <1>3 DEF Queued
    <3>2. CASE j = Len(q) + 1
      <4>1. 1 \in 1 .. Len(po) /\ k + Len(q) + 1 = k + j
        BY <3>2, <1>2
      <4> QED
        BY <4>1, <3>2, <1>1, <1>3 DEF Queued
    <3> QED
      BY <3>1, <3>2, <1>2
  <2>2. ASSUME NEW j \in 1 .. Len(po) - 1 PROVE r[j] = s[k + Len(qm) + j]
    <3>1. j + 1 \in 1 .. Len(po) /\ k + Len(q) + (j + 1) = k + Len(qm) + j
      BY <1>2, <1>3
    <3> QED
      BY <3>1, <1>1, <1>2 DEF Queued
  <2>3. k + Len(qm) + Len(r) = k + Len(q) + Len(po)
    BY <1>2, <1>3
  <2> QED
    BY <2>1, <2>2, <2>3, <1>1, <1>2, <1>3 DEF Queued
<1> QED
  BY <1>1, <1>4 DEF Flow, r, qm

\* The message at the front is written.
LEMMA FlowPop ==
  ASSUME NEW s \in Seq(Messages), NEW po \in Seq(Messages),
         NEW q \in Seq(Messages), q # <<>>, NEW x \in Ops, ~x.fails, NEW so,
         x.op = "body" \/ (x.op = "header" /\ ~HasBody(Head(q))),
         NEW w, NEW rp, Flow(s, po, q, {x}, so, w, rp)
  PROVE  Flow(s, po, Tail(q), {}, so, w, rp)
<1> DEFINE r == Tail(q)
<1>1. PICK ps \in Seq(Positions), k \in Nat :
        /\ Queued(s, po, q, so, k) /\ Track(s, w, ps) /\ ps[1] = rp
        /\ WriterAt(s, {x}, so, k, ps[Len(w) + 1])
  BY DEF Flow
<1>2. /\ Len(q) \in Nat /\ Len(po) \in Nat /\ Len(q) > 0 /\ Len(s) \in Nat
      /\ Len(r) = Len(q) - 1 /\ (\A j \in 1 .. Len(q) - 1 : r[j] = q[j + 1])
      /\ Head(q) = q[1]
  OBVIOUS
<1> HIDE DEF r
<1>3. Queued(s, po, r, so, k + 1)
  <2>1. ASSUME NEW j \in 1 .. Len(q) - 1 PROVE r[j] = s[k + 1 + j]
    <3>1. j + 1 \in 1 .. Len(q) /\ k + (j + 1) = k + 1 + j
      BY <1>2
    <3> QED
      BY <3>1, <1>1, <1>2 DEF Queued
  <2>2. k + 1 + Len(r) = k + Len(q)
    BY <1>2
  <2> QED
    BY <2>1, <2>2, <1>1, <1>2 DEF Queued
<1>4. ps[Len(w) + 1] = Pos(k + 2, "header")
  <2>1. CASE x.op = "body"
    BY <2>1, <1>1 DEF WriterAt
  <2>2. CASE x.op = "header" /\ ~HasBody(Head(q))
    <3>1. 1 \in 1 .. Len(q)
      BY <1>2
    <3>2. Head(q) = s[k + 1]
      BY <3>1, <1>1, <1>2 DEF Queued
    <3>3. Succ(s, Pos(k + 1, "header")) = Pos(k + 1 + 1, "header")
      BY <3>2, <2>2 DEF Succ, Pos
    <3>4. k + 1 + 1 = k + 2
      OBVIOUS
    <3> QED
      BY <3>3, <3>4, <2>2, <1>1 DEF WriterAt
  <2> QED
    BY <2>1, <2>2
<1>5. WriterAt(s, {}, so, k + 1, ps[Len(w) + 1])
  <2>1. k + 1 + 1 = k + 2
    OBVIOUS
  <2> QED
    BY <2>1, <1>4 DEF WriterAt
<1>6. k + 1 \in Nat
  OBVIOUS
<1> QED
  BY <1>1, <1>3, <1>5, <1>6 DEF Flow, r

\* The header of the message at the front, when nothing is being written.
LEMMA FlowHeader ==
  ASSUME NEW s \in Seq(Messages), NEW po \in Seq(Messages),
         NEW q \in Seq(Messages), q # <<>>, NEW so, so # "closed",
         NEW x \in Ops, x.op = "header",
         NEW w \in Seq(Words), NEW rp, Flow(s, po, q, {}, so, w, rp)
  PROVE  Flow(s, po, q, {x}, so, Append(w, Header(Head(q))), rp)
<1>1. PICK ps \in Seq(Positions), k \in Nat :
        /\ Queued(s, po, q, so, k) /\ Track(s, w, ps) /\ ps[1] = rp
        /\ WriterAt(s, {}, so, k, ps[Len(w) + 1])
  BY DEF Flow
<1>2. Len(q) \in Nat /\ Len(po) \in Nat /\ Len(q) > 0 /\ Len(s) \in Nat /\ Head(q) = q[1]
      /\ Head(q) \in Messages
  OBVIOUS
<1>3. ps[Len(w) + 1] = Pos(k + 1, "header") /\ k + 1 <= Len(s) /\ Head(q) = s[k + 1]
  <2>1. ps[Len(w) + 1] = Pos(k + 1, "header")
    BY <1>1 DEF WriterAt
  <2>2. k + Len(q) + Len(po) <= Len(s) /\ \A j \in 1 .. Len(q) : q[j] = s[k + j]
    BY <1>1 DEF Queued
  <2>3. k + 1 <= Len(s) /\ 1 \in 1 .. Len(q)
    BY <1>2, <2>2
  <2> QED
    BY <1>2, <2>1, <2>2, <2>3
<1>4. /\ ps[Len(w) + 1].i <= Len(s) /\ Header(Head(q)) = WordAt(s, ps[Len(w) + 1])
      /\ Header(Head(q)) \in Words
  BY <1>2, <1>3, WordTypes DEF Pos, WordAt
<1> DEFINE qs == Append(ps, Succ(s, ps[Len(w) + 1]))
           v == Append(w, Header(Head(q)))
<1>5. /\ Track(s, v, qs) /\ qs[1] = ps[1] /\ Len(v) + 1 = Len(w) + 2
      /\ qs[Len(w) + 2] = Succ(s, Pos(k + 1, "header"))
  <2>1. /\ Track(s, v, qs) /\ qs[1] = ps[1] /\ Len(v) + 1 = Len(w) + 2
        /\ qs[Len(w) + 2] = Succ(s, ps[Len(w) + 1])
    <3> DEFINE h == Header(Head(q))
    <3>1. Track(s, w, ps) /\ ps[Len(w) + 1].i <= Len(s) /\ h \in Words
          /\ h = WordAt(s, ps[Len(w) + 1])
      BY <1>1, <1>4
    <3> HIDE DEF h
    <3>2. /\ Track(s, Append(w, h), qs) /\ qs[1] = ps[1] /\ Len(Append(w, h)) + 1 = Len(w) + 2
          /\ qs[Len(w) + 2] = Succ(s, ps[Len(w) + 1])
      BY <3>1, TrackWrite, ZenonT(40)
    <3>3. h = Header(Head(q)) /\ v = Append(w, h)
      BY DEF h
    <3> HIDE DEF qs, v
    <3> QED
      BY <3>2, <3>3
  <2> HIDE DEF qs, v
  <2> QED
    BY <2>1, <1>3
<1> HIDE DEF qs, v
<1>6. WriterAt(s, {x}, so, k, qs[Len(v) + 1])
  BY <1>5 DEF WriterAt
<1>7. qs \in Seq(Positions)
  BY <1>5 DEF Track
<1> QED
  BY <1>1, <1>5, <1>6, <1>7 DEF Flow, v

\* The body after the header.
LEMMA FlowBody ==
  ASSUME NEW s \in Seq(Messages), NEW po \in Seq(Messages),
         NEW q \in Seq(Messages), q # <<>>, HasBody(Head(q)), NEW so,
         NEW x \in Ops, x.op = "header", ~x.fails, NEW y \in Ops, y.op = "body",
         NEW w \in Seq(Words), NEW rp, Flow(s, po, q, {x}, so, w, rp)
  PROVE  Flow(s, po, q, {y}, so, Append(w, Body(Head(q))), rp)
<1>1. PICK ps \in Seq(Positions), k \in Nat :
        /\ Queued(s, po, q, so, k) /\ Track(s, w, ps) /\ ps[1] = rp
        /\ WriterAt(s, {x}, so, k, ps[Len(w) + 1])
  BY DEF Flow
<1>2. Len(q) \in Nat /\ Len(po) \in Nat /\ Len(q) > 0 /\ Len(s) \in Nat /\ Head(q) = q[1]
      /\ Head(q) \in Messages
  OBVIOUS
<1>3. k + 1 <= Len(s) /\ Head(q) = s[k + 1]
  <2>1. 1 \in 1 .. Len(q)
    BY <1>2
  <2>2. k + Len(q) + Len(po) <= Len(s) /\ q[1] = s[k + 1]
    BY <2>1, <1>1 DEF Queued
  <2> QED
    BY <2>2, <1>2
<1>4. ps[Len(w) + 1] = Pos(k + 1, "body")
  <2>1. Succ(s, Pos(k + 1, "header")) = Pos(k + 1, "body")
    BY <1>3 DEF Succ, Pos
  <2> QED
    BY <2>1, <1>1 DEF WriterAt
<1>5. /\ ps[Len(w) + 1].i <= Len(s) /\ Body(Head(q)) = WordAt(s, ps[Len(w) + 1])
      /\ Body(Head(q)) \in Words
  BY <1>2, <1>3, <1>4, WordTypes DEF Pos, WordAt, HasBody
<1>6. Succ(s, ps[Len(w) + 1]) = Pos(k + 2, "header")
  <2>1. Succ(s, ps[Len(w) + 1]) = Pos(k + 1 + 1, "header") /\ k + 1 + 1 = k + 2
    BY <1>4 DEF Succ, Pos
  <2> QED
    BY <2>1
<1> DEFINE qs == Append(ps, Succ(s, ps[Len(w) + 1]))
           v == Append(w, Body(Head(q)))
<1>7. /\ Track(s, v, qs) /\ qs[1] = ps[1] /\ Len(v) + 1 = Len(w) + 2
      /\ qs[Len(w) + 2] = Pos(k + 2, "header")
  <2> DEFINE b == Body(Head(q))
  <2>1. Track(s, w, ps) /\ ps[Len(w) + 1].i <= Len(s) /\ b \in Words
        /\ b = WordAt(s, ps[Len(w) + 1])
    BY <1>1, <1>5
  <2> HIDE DEF b
  <2>2. /\ Track(s, Append(w, b), qs) /\ qs[1] = ps[1] /\ Len(Append(w, b)) + 1 = Len(w) + 2
        /\ qs[Len(w) + 2] = Succ(s, ps[Len(w) + 1])
    BY <2>1, TrackWrite, ZenonT(40)
  <2>3. v = Append(w, b)
    BY DEF b
  <2> HIDE DEF qs, v
  <2> QED
    BY <2>2, <2>3, <1>6
<1> HIDE DEF qs, v
<1>8. WriterAt(s, {y}, so, k, qs[Len(v) + 1])
  BY <1>7 DEF WriterAt
<1>9. qs \in Seq(Positions)
  BY <1>7 DEF Track
<1> QED
  BY <1>1, <1>7, <1>8, <1>9 DEF Flow, v

\* A write that fails ends the direction, and so does a socket that closes.
LEMMA FlowFails ==
  ASSUME NEW s, NEW po, NEW q, NEW c, NEW so, NEW w, NEW rp, Flow(s, po, q, c, so, w, rp),
         NEW x, x.fails
  PROVE  Flow(s, po, q, {x}, so, w, rp)
  BY DEF Flow, WriterAt

LEMMA FlowClose ==
  ASSUME NEW s, NEW po \in Seq(Messages), NEW q, Len(q) \in Nat, NEW c, NEW so, NEW w, NEW rp,
         Flow(s, po, q, c, so, w, rp), NEW d \in SUBSET c
  PROVE  Flow(s, po, q, d, "closed", w, rp)
  BY DEF Flow, WriterAt, Queued

\* Nothing but whether a socket is closed matters.
LEMMA FlowSock ==
  ASSUME NEW s, NEW po, NEW q, NEW c, NEW so, NEW w, NEW rp, Flow(s, po, q, c, so, w, rp),
         NEW to, to # "closed" => so # "closed"
  PROVE  Flow(s, po, q, c, to, w, rp)
  BY DEF Flow, WriterAt, Queued

\* What the io_context had still to run is dropped with it.
LEMMA FlowLeave ==
  ASSUME NEW s \in Seq(Messages), NEW po \in Seq(Messages), NEW q \in Seq(Messages),
         NEW c, NEW so, NEW w, NEW rp, Flow(s, po, q, c, so, w, rp)
  PROVE  Flow(s, <<>>, q, {}, "closed", w, rp)
<1>1. PICK ps \in Seq(Positions), k \in Nat :
        /\ Queued(s, po, q, so, k) /\ Track(s, w, ps) /\ ps[1] = rp
        /\ WriterAt(s, c, so, k, ps[Len(w) + 1])
  BY DEF Flow
<1>2. Len(q) \in Nat /\ Len(po) \in Nat /\ Len(s) \in Nat
  OBVIOUS
<1>3. Queued(s, <<>>, q, "closed", k)
  <2>1. k + Len(q) + 0 <= Len(s)
    BY <1>1, <1>2 DEF Queued
  <2> QED
    BY <2>1, <1>1 DEF Queued
<1>4. WriterAt(s, {}, "closed", k, ps[Len(w) + 1])
  BY DEF WriterAt
<1> QED
  BY <1>1, <1>3, <1>4 DEF Flow

\* The next word is the one at the reader's position, which moves on by one.
LEMMA FlowRead ==
  ASSUME NEW s \in Seq(Messages), NEW po, NEW q, NEW c, NEW so,
         NEW w \in Seq(Words), w # <<>>, NEW rp, Flow(s, po, q, c, so, w, rp)
  PROVE  /\ rp \in Positions /\ rp.i <= Len(s) /\ Head(w) = WordAt(s, rp)
         /\ Flow(s, po, q, c, so, Tail(w), Succ(s, rp))
<1>1. PICK ps \in Seq(Positions), k \in Nat :
        /\ Queued(s, po, q, so, k) /\ Track(s, w, ps) /\ ps[1] = rp
        /\ WriterAt(s, c, so, k, ps[Len(w) + 1])
  BY DEF Flow
<1>2. /\ Head(w) = WordAt(s, ps[1]) /\ ps[1].i <= Len(s) /\ ps[1] \in Positions
      /\ Track(s, Tail(w), Tail(ps)) /\ Tail(ps)[1] = Succ(s, ps[1])
      /\ Tail(ps)[Len(Tail(w)) + 1] = ps[Len(w) + 1]
  BY <1>1, TrackRead
<1>3. Tail(ps) \in Seq(Positions)
  BY <1>2 DEF Track
<1> QED
  BY <1>1, <1>2, <1>3 DEF Flow

-----------------------------------------------------------------------------
(* The invariant.                                                          *)

\* The operations of a chain, of which Single leaves one at most.
ChainOps(w) == {w[j] : j \in ChainOf(w)}
Validations(w) == {j \in 1 .. Len(w) : w[j].op = "validation"}

Answer == scramble(Challenge)
Early == {"connect", "validation"}

\* The next message p is to receive, and whether it has read its header.
Cursor(p) == Pos(Len(received[p]) + 1, IF reading[p] = "body" THEN "body" ELSE "header")

InFlight(e, w) ==
    Flow(sent[e], posted[e], m_qMessagesOut[e], ChainOps(writes[e]), sock[e], w,
         Cursor(Peer(e)))

\* The same of the next state; w is a word sequence of either.
InFlightNext(e, w) ==
    Flow(sent'[e], posted'[e], m_qMessagesOut'[e], ChainOps(writes'[e]), sock'[e], w,
         Cursor(Peer(e))')

\* The server's words, behind its challenge until the client has taken that.
Unread == IF reading["client"] \in Early /\ wire["server"] # <<>>
          THEN Tail(wire["server"]) ELSE wire["server"]
FlowToClient == sock["client"] # "closed" => InFlight("server", Unread)

\* The client's words, behind its answer until the server has checked that.
\* Where something else came first the server will read nothing more.
FlowToServer ==
    sock["server"] # "closed" =>
      /\ handshake = "good" \/ wire["client"] = <<>> => InFlight("client", wire["client"])
      /\ handshake = "pending" /\ wire["client"] # <<>> /\ Head(wire["client"]) = Answer
           => InFlight("client", Tail(wire["client"]))

\* The client answers once: an answer is on the wire or was checked only after
\* it has read the challenge.
Unanswered ==
    reading["client"] \in Early =>
      /\ handshake # "good"
      /\ handshake = "pending" /\ wire["client"] # <<>> => Head(wire["client"]) # Answer
AnsweredOnce ==
    /\ sock["client"] \in {"connecting", "open", "closed"}
    /\ sock["server"] \in {"none", "backlog"} /\ sock["client"] # "closed"
         => reading["client"] \in Early
    /\ reading["client"] # "none" => Validations(writes["client"]) = {}
    /\ \A i, j \in Validations(writes["client"]) : i = j

\* r was received of what was sent, s.
Delivered(r, s, rd, tmp) ==
    /\ Len(r) <= Len(s)
    /\ \A j \in 1 .. Len(r) : Faithful(r[j]) = s[j]
    /\ rd = "body" => /\ Len(r) < Len(s) /\ tmp.id \in Bodied
                      /\ tmp.id = s[Len(r) + 1].id
DeliveredTo(p) ==
    Delivered(received[p], sent[Peer(p)], reading[p], m_msgTemporaryIn[p])

CInv == /\ FlowToClient /\ FlowToServer /\ Unanswered /\ AnsweredOnce
        /\ DeliveredTo("server") /\ DeliveredTo("client")

-----------------------------------------------------------------------------
(* Writes.                                                                 *)

LEMMA PeerOK ==
  /\ Peer("server") = "client" /\ Peer("client") = "server"
  /\ \A e \in Ends : Peer(e) \in Ends /\ Peer(e) # e /\ Peer(Peer(e)) = e
  /\ \A e \in Ends : e = "server" \/ e = "client"
  /\ \A e, d \in Ends : d # e => d = Peer(e)
  BY DEF Peer, Ends

LEMMA ChainOpsAppend ==
  ASSUME NEW w \in Seq(Ops), NEW x \in Ops
  PROVE  /\ ChainOps(Append(w, x)) = ChainOps(w) \cup (IF x.op # "validation" THEN {x} ELSE {})
         /\ x.op # "validation" => Validations(Append(w, x)) = Validations(w)
         /\ x.op = "validation" => Validations(Append(w, x)) = Validations(w) \cup {Len(w) + 1}
<1>1. /\ Append(w, x) \in Seq(Ops)
      /\ Len(Append(w, x)) = Len(w) + 1
      /\ \A j \in 1 .. Len(w) : Append(w, x)[j] = w[j]
      /\ Append(w, x)[Len(w) + 1] = x
      /\ Len(w) \in Nat
  OBVIOUS
<1>2. \A j \in 1 .. Len(w) + 1 : j \in 1 .. Len(w) \/ j = Len(w) + 1
  BY <1>1
<1>3. \A j \in 1 .. Len(w) : j \in 1 .. Len(w) + 1
  BY <1>1
<1>4. Len(w) + 1 \in 1 .. Len(w) + 1
  BY <1>1
<1> DEFINE v == Append(w, x)
<1> HIDE DEF v
<1>5. ChainOps(v) = ChainOps(w) \cup (IF x.op # "validation" THEN {x} ELSE {})
  BY <1>1, <1>2, <1>3, <1>4 DEF ChainOps, ChainOf, v
<1>6. /\ x.op # "validation" => Validations(v) = Validations(w)
      /\ x.op = "validation" => Validations(v) = Validations(w) \cup {Len(w) + 1}
  BY <1>1, <1>2, <1>3, <1>4 DEF Validations, v
<1> QED
  BY <1>5, <1>6 DEF v

LEMMA ChainOpsTail ==
  ASSUME NEW w \in Seq(Ops), w # <<>>, Single(w)
  PROVE  /\ Head(w) \in Ops /\ Tail(w) \in Seq(Ops) /\ ChainOps(Tail(w)) \in SUBSET ChainOps(w)
         /\ Head(w).op # "validation" =>
              ChainOps(w) = {Head(w)} /\ ChainOps(Tail(w)) = {} /\ ChainOf(w) # {}
         /\ Head(w).op = "validation" => ChainOps(Tail(w)) = ChainOps(w)
         /\ Validations(w) = {} => Validations(Tail(w)) = {}
         /\ (\A i, j \in Validations(w) : i = j) =>
              /\ \A i, j \in Validations(Tail(w)) : i = j
              /\ Head(w).op = "validation" => Validations(Tail(w)) = {}
<1>1. /\ Tail(w) \in Seq(Ops) /\ Len(w) \in Nat /\ Len(w) > 0
      /\ Len(Tail(w)) = Len(w) - 1
      /\ \A j \in 1 .. Len(w) - 1 : Tail(w)[j] = w[j + 1]
      /\ Head(w) = w[1] /\ Head(w) \in Ops
  OBVIOUS
<1>2. \A j \in ChainOf(Tail(w)) : j + 1 \in ChainOf(w) /\ Tail(w)[j] = w[j + 1]
  BY <1>1 DEF ChainOf
<1>3. \A j \in ChainOf(w) : j # 1 => j - 1 \in ChainOf(Tail(w)) /\ Tail(w)[j - 1] = w[j]
  BY <1>1 DEF ChainOf
<1>4. ChainOps(Tail(w)) \in SUBSET ChainOps(w)
  BY <1>2 DEF ChainOps
<1>5. ASSUME Head(w).op # "validation"
      PROVE  ChainOps(w) = {Head(w)} /\ ChainOps(Tail(w)) = {} /\ ChainOf(w) # {}
  <2>1. 1 \in ChainOf(w)
    BY <1>1, <1>5 DEF ChainOf
  <2>2. \A j \in ChainOf(w) : j = 1
    BY <2>1 DEF Single
  <2>3. ChainOf(Tail(w)) = {}
    BY <1>5, ChainTail
  <2> QED
    BY <2>1, <2>2, <2>3, <1>1 DEF ChainOps
<1>6. ASSUME Head(w).op = "validation"
      PROVE  ChainOps(Tail(w)) = ChainOps(w)
  <2>1. 1 \notin ChainOf(w)
    BY <1>1, <1>6 DEF ChainOf
  <2>2. \A j \in ChainOf(w) : w[j] \in ChainOps(Tail(w))
    BY <2>1, <1>3 DEF ChainOps
  <2> QED
    BY <2>2, <1>4 DEF ChainOps
<1>7. \A j \in Validations(Tail(w)) : j \in Nat \ {0} /\ j + 1 \in Validations(w)
  BY <1>1 DEF Validations
<1>8. ASSUME \A i, j \in Validations(w) : i = j
      PROVE  /\ \A i, j \in Validations(Tail(w)) : i = j
             /\ Head(w).op = "validation" => Validations(Tail(w)) = {}
  <2>1. ASSUME NEW i \in Validations(Tail(w)), NEW j \in Validations(Tail(w)) PROVE i = j
    <3>1. i + 1 = j + 1
      BY <1>7, <1>8
    <3> QED
      BY <3>1, <1>7
  <2>2. ASSUME Head(w).op = "validation" PROVE Validations(Tail(w)) = {}
    <3>1. 1 \in Validations(w)
      BY <2>2, <1>1 DEF Validations
    <3>2. \A j \in Validations(Tail(w)) : j + 1 = 1
      BY <3>1, <1>7, <1>8
    <3> QED
      BY <3>2, <1>7
  <2> QED
    BY <2>1, <2>2
<1> QED
  BY <1>1, <1>4, <1>5, <1>6, <1>7, <1>8

-----------------------------------------------------------------------------
(* A step that writes one word at most of a direction, and reads none.     *)

Moves(e) ==
    \/ /\ wire'[e] = wire[e]
       /\ \A w \in Seq(Words) : InFlight(e, w) => InFlightNext(e, w)
    \/ \E x \in Words :
         /\ x # Answer /\ wire'[e] = Append(wire[e], x)
         /\ \A w \in Seq(Words) : InFlight(e, w) => InFlightNext(e, Append(w, x))

LEMMA StaysMoves ==
  ASSUME NEW e \in Ends, wire'[e] = wire[e], sent'[e] = sent[e], posted'[e] = posted[e],
         m_qMessagesOut'[e] = m_qMessagesOut[e], ChainOps(writes'[e]) = ChainOps(writes[e]),
         sock'[e] # "closed" => sock[e] # "closed",
         received'[Peer(e)] = received[Peer(e)],
         reading'[Peer(e)] = "body" <=> reading[Peer(e)] = "body"
  PROVE  Moves(e)
<1>1. Cursor(Peer(e))' = Cursor(Peer(e))
  BY DEF Cursor
<1>2. ASSUME NEW w \in Seq(Words), InFlight(e, w) PROVE InFlightNext(e, w)
  BY <1>1, <1>2, FlowSock DEF InFlight, InFlightNext
<1> QED
  BY <1>2 DEF Moves

LEMMA WordsTail ==
  ASSUME NEW w \in Seq(Words), NEW x \in Words
  PROVE  /\ Append(w, x) \in Seq(Words) /\ Append(w, x) # <<>>
         /\ w # <<>> => /\ Tail(w) \in Seq(Words) /\ Head(Append(w, x)) = Head(w)
                        /\ Tail(Append(w, x)) = Append(Tail(w), x)
         /\ w = <<>> => Head(Append(w, x)) = x /\ Tail(Append(w, x)) = <<>>
  OBVIOUS

LEMMA ToClientMoves ==
  ASSUME IInv, FlowToClient, sock'["client"] # "closed" => Moves("server"),
         wire'["server"] # wire["server"] => sock["server"] \notin {"none", "backlog"},
         sock'["client"] # "closed" =>
           /\ sock["client"] # "closed"
           /\ (reading["client"] \in Early <=> reading'["client"] \in Early)
  PROVE  FlowToClient'
<1> SUFFICES ASSUME sock'["client"] # "closed" PROVE InFlight("server", Unread)'
  BY DEF FlowToClient
<1>1. InFlight("server", Unread) /\ wire["server"] \in Seq(Words)
  BY EndsOK DEF FlowToClient, IInv, TypeOK
<1>2. Unread \in Seq(Words)
  BY <1>1 DEF Unread
<1>3. InFlight("server", Unread)' <=> InFlightNext("server", Unread')
  BY DEF InFlight, InFlightNext
<1>4. CASE wire'["server"] = wire["server"]
           /\ \A w \in Seq(Words) : InFlight("server", w) => InFlightNext("server", w)
  <2>1. Unread' = Unread
    BY <1>4 DEF Unread
  <2> QED
    BY <2>1, <1>1, <1>2, <1>3, <1>4
<1>5. ASSUME NEW x \in Words, x # Answer, wire'["server"] = Append(wire["server"], x),
             \A w \in Seq(Words) : InFlight("server", w) => InFlightNext("server", Append(w, x))
      PROVE  InFlight("server", Unread)'
  <2>1. wire'["server"] # wire["server"]
    BY <1>1, <1>5
  <2>2. reading["client"] \in Early => wire["server"] # <<>>
    BY <2>1 DEF IInv, FirstWord, Early
  <2>3. Unread' = Append(Unread, x)
    BY <1>1, <1>5, <2>2, WordsTail DEF Unread
  <2> QED
    BY <2>3, <1>1, <1>2, <1>3, <1>5
<1> QED
  BY <1>4, <1>5 DEF Moves

LEMMA ToServerMoves ==
  ASSUME IInv, FlowToServer, sock'["server"] # "closed" => Moves("client"),
         wire'["client"] = wire["client"] \/ Moves("client"), handshake' = handshake,
         sock'["server"] # "closed" => sock["server"] # "closed"
  PROVE  /\ FlowToServer'
         /\ Unanswered /\ (reading'["client"] \in Early => reading["client"] \in Early)
              => Unanswered'
<1>1. wire["client"] \in Seq(Words)
  BY EndsOK DEF IInv, TypeOK
<1>2. FlowToServer' <=>
        (sock'["server"] # "closed" =>
          /\ handshake' = "good" \/ wire'["client"] = <<>> => InFlightNext("client", wire'["client"])
          /\ handshake' = "pending" /\ wire'["client"] # <<>> /\ Head(wire'["client"]) = Answer
               => InFlightNext("client", Tail(wire'["client"])))
  BY DEF FlowToServer, InFlight, InFlightNext, Answer, scramble, Challenge
<1>3. Unanswered' <=> (reading'["client"] \in Early =>
        /\ handshake' # "good"
        /\ handshake' = "pending" /\ wire'["client"] # <<>> => Head(wire'["client"]) # Answer)
  BY DEF Unanswered, Answer, scramble, Challenge, Early
<1>4. CASE wire'["client"] = wire["client"]
           /\ \A w \in Seq(Words) : InFlight("client", w) => InFlightNext("client", w)
  <2>1. wire["client"] # <<>> => Tail(wire["client"]) \in Seq(Words)
    BY <1>1
  <2> QED
    BY <2>1, <1>1, <1>2, <1>3, <1>4 DEF FlowToServer, Unanswered
<1>5. ASSUME NEW x \in Words, x # Answer, wire'["client"] = Append(wire["client"], x),
             \A w \in Seq(Words) : InFlight("client", w) => InFlightNext("client", Append(w, x))
      PROVE  /\ FlowToServer'
             /\ Unanswered /\ (reading'["client"] \in Early => reading["client"] \in Early)
                  => Unanswered'
  <2>1. CASE wire["client"] = <<>>
    <3>1. wire'["client"] # <<>> /\ Head(wire'["client"]) = x
      BY <2>1, <1>1, <1>5, WordsTail
    <3> QED
      BY <3>1, <2>1, <1>1, <1>2, <1>3, <1>5 DEF FlowToServer, Unanswered
  <2>2. CASE wire["client"] # <<>>
    <3>1. /\ wire'["client"] # <<>> /\ Head(wire'["client"]) = Head(wire["client"])
          /\ Tail(wire'["client"]) = Append(Tail(wire["client"]), x)
          /\ Tail(wire["client"]) \in Seq(Words)
      BY <2>2, <1>1, <1>5, WordsTail
    <3> QED
      BY <3>1, <2>2, <1>1, <1>2, <1>3, <1>5 DEF FlowToServer, Unanswered
  <2> QED
    BY <2>1, <2>2
<1>6. CASE sock'["server"] = "closed" /\ wire'["client"] = wire["client"]
  BY <1>2, <1>3, <1>6 DEF Unanswered
<1> QED
  BY <1>4, <1>5, <1>6 DEF Moves

-----------------------------------------------------------------------------
(* The actions.                                                            *)

LEMMA DirectionOK ==
  ASSUME IInv, NEW e \in Ends
  PROVE  /\ sent[e] \in Seq(Messages) /\ posted[e] \in Seq(Messages)
         /\ m_qMessagesOut[e] \in Seq(Messages) /\ writes[e] \in Seq(Ops)
         /\ wire[e] \in Seq(Words) /\ Len(received[e]) \in Nat /\ received[e] \in Seq(Read)
         /\ Single(writes[e])
         /\ ChainOps(writes[e]) # {} => m_qMessagesOut[e] # <<>>
<1>1. /\ sent[e] \in Seq(Messages) /\ posted[e] \in Seq(Messages)
      /\ m_qMessagesOut[e] \in Seq(Messages) /\ writes[e] \in Seq(Ops)
      /\ wire[e] \in Seq(Words) /\ received[e] \in Seq(Read)
  BY DEF IInv, TypeOK, Ops, Read
<1>2. Len(received[e]) \in Nat
  BY <1>1
<1>3. ChainOps(writes[e]) # {} => ChainOf(writes[e]) # {}
  BY DEF ChainOps
<1> QED
  BY <1>1, <1>2, <1>3 DEF IInv, WriterOK

\* What was received stays what was sent, however much more is.
LEMMA DeliveredKept ==
  ASSUME IInv, NEW p \in Ends, DeliveredTo(p), received'[p] = received[p],
         m_msgTemporaryIn'[p] = m_msgTemporaryIn[p],
         reading'[p] = "body" => reading[p] = "body",
         \/ sent'[Peer(p)] = sent[Peer(p)]
         \/ \E m \in Messages : sent'[Peer(p)] = Append(sent[Peer(p)], m)
  PROVE  DeliveredTo(p)'
<1>1. /\ sent[Peer(p)] \in Seq(Messages) /\ Len(received[p]) \in Nat
      /\ Len(sent[Peer(p)]) \in Nat
  BY PeerOK, DirectionOK
<1>2. DeliveredTo(p)' <=>
        Delivered(received[p], sent'[Peer(p)], reading'[p], m_msgTemporaryIn[p])
  BY DEF DeliveredTo, Delivered, Faithful, Message
<1>3. CASE sent'[Peer(p)] = sent[Peer(p)]
  BY <1>2, <1>3 DEF DeliveredTo, Delivered
<1>4. ASSUME NEW m \in Messages, sent'[Peer(p)] = Append(sent[Peer(p)], m)
      PROVE  DeliveredTo(p)'
  <2>1. /\ Len(sent'[Peer(p)]) = Len(sent[Peer(p)]) + 1
        /\ \A i \in Nat \ {0} : i <= Len(sent[Peer(p)]) => sent'[Peer(p)][i] = sent[Peer(p)][i]
    BY <1>1, <1>4, AppendKeeps
  <2>2. Len(received[p]) <= Len(sent'[Peer(p)])
    BY <2>1, <1>1 DEF DeliveredTo, Delivered
  <2>3. ASSUME NEW j \in 1 .. Len(received[p])
        PROVE  Faithful(received[p][j]) = sent'[Peer(p)][j]
    <3>1. j \in Nat \ {0} /\ j <= Len(sent[Peer(p)])
      BY <1>1 DEF DeliveredTo, Delivered
    <3> QED
      BY <3>1, <2>1 DEF DeliveredTo, Delivered
  <2>4. ASSUME reading'[p] = "body"
        PROVE  /\ Len(received[p]) < Len(sent'[Peer(p)])
               /\ sent'[Peer(p)][Len(received[p]) + 1] = sent[Peer(p)][Len(received[p]) + 1]
    <3>1. Len(received[p]) < Len(sent[Peer(p)])
      BY <2>4 DEF DeliveredTo, Delivered
    <3>2. Len(received[p]) + 1 \in Nat \ {0} /\ Len(received[p]) + 1 <= Len(sent[Peer(p)])
      BY <3>1, <1>1
    <3> QED
      BY <3>1, <3>2, <2>1, <1>1
  <2> QED
    BY <1>2, <2>2, <2>3, <2>4 DEF DeliveredTo, Delivered
<1> QED
  BY <1>3, <1>4

\* A step that writes at most, and leaves what was received alone.
LEMMA WritingCInv ==
  ASSUME IInv, CInv, sock'["client"] # "closed" => Moves("server"),
         sock'["server"] # "closed" => Moves("client"),
         wire'["client"] = wire["client"] \/ Moves("client"), handshake' = handshake,
         wire'["server"] # wire["server"] => sock["server"] \notin {"none", "backlog"},
         \A e \in Ends : sock'[e] # "closed" => sock[e] # "closed",
         sock'["client"] \in {"connecting", "open", "closed"},
         sock'["server"] \in {"none", "backlog"} => sock["server"] \in {"none", "backlog"},
         reading'["server"] = "body" => reading["server"] = "body",
         \/ reading'["client"] = reading["client"]
         \/ /\ reading["client"] \in Early /\ reading'["client"] \in Early
         \/ sock'["client"] = "closed" /\ reading'["client"] = "none"
         \/ reading["client"] = "none" /\ reading'["client"] = "header",
         reading'["client"] # "none" => Validations(writes'["client"]) = {},
         \A i, j \in Validations(writes'["client"]) : i = j,
         received' = received, m_msgTemporaryIn' = m_msgTemporaryIn,
         \A e \in Ends : \/ sent'[e] = sent[e]
                        \/ \E m \in Messages : sent'[e] = Append(sent[e], m)
  PROVE  CInv'
<1> USE DEF CInv
<1>1. \/ (reading["client"] \in Early <=> reading'["client"] \in Early)
      \/ sock'["client"] = "closed" /\ reading'["client"] \notin Early
  BY DEF Early
<1>2. FlowToClient'
  BY <1>1, EndsOK, ToClientMoves
<1>3. FlowToServer' /\ Unanswered'
  BY <1>1, EndsOK, ToServerMoves
<1>4. AnsweredOnce'
  <2>1. sock'["server"] \in {"none", "backlog"} /\ sock'["client"] # "closed"
          => reading["client"] \in Early
    BY EndsOK DEF AnsweredOnce
  <2>2. sock'["server"] \in {"none", "backlog"} /\ sock'["client"] # "closed"
          => reading'["client"] \in Early
    BY <2>1, <1>1
  <2> QED
    BY <2>2 DEF AnsweredOnce, Early
<1>5. ASSUME NEW p \in Ends PROVE DeliveredTo(p)'
  <2>1. DeliveredTo(p) /\ Peer(p) \in Ends
    BY PeerOK
  <2>2. reading'[p] = "body" => reading[p] = "body"
    BY PeerOK DEF Early
  <2> QED
    BY <2>1, <2>2, DeliveredKept
<1> QED
  BY <1>2, <1>3, <1>4, <1>5, EndsOK

LEMMA SendCInv == ASSUME IInv, CInv, NEW e \in Ends, Send(e) PROVE CInv'
<1>1. PICK m \in Messages : Post(e, m)
  BY DEF Send
<1>2. /\ posted' = [posted EXCEPT ![e] = Append(@, m)]
      /\ sent' = [sent EXCEPT ![e] = Append(@, m)]
      /\ UNCHANGED <<sock, m_qMessagesOut, writes, wire, reading, m_msgTemporaryIn,
                     handshake, listed, inbox, received>>
      /\ sock[e] # "closed"
  BY <1>1 DEF Send, Post, IsConnected
<1>3. /\ posted'[e] = Append(posted[e], m) /\ sent'[e] = Append(sent[e], m)
      /\ \A d \in Ends : d # e => posted'[d] = posted[d] /\ sent'[d] = sent[d]
  BY <1>2 DEF IInv, TypeOK
<1>4. Moves(e)
  <2>1. ASSUME NEW w \in Seq(Words), InFlight(e, w) PROVE InFlightNext(e, w)
    <3>1. Flow(Append(sent[e], m), Append(posted[e], m), m_qMessagesOut[e],
               ChainOps(writes[e]), sock[e], w, Cursor(Peer(e)))
      BY <2>1, <1>2, DirectionOK, FlowSend DEF InFlight
    <3>2. Cursor(Peer(e))' = Cursor(Peer(e))
      BY <1>2 DEF Cursor
    <3> QED
      BY <3>1, <3>2, <1>2, <1>3 DEF InFlightNext
  <2> QED
    BY <2>1, <1>2 DEF Moves
<1>5. \A d \in Ends : d # e => Moves(d)
  BY <1>2, <1>3, StaysMoves
<1> QED
  BY <1>2, <1>3, <1>4, <1>5, EndsOK, WritingCInv DEF CInv, AnsweredOnce

LEMMA RunPostedCInv == ASSUME IInv, CInv, NEW e \in Ends, RunPosted(e) PROVE CInv'
<1> DEFINE m == Head(posted[e])
           q == m_qMessagesOut[e]
           qm == Append(q, m)
<1>1. /\ posted[e] # <<>> /\ posted' = [posted EXCEPT ![e] = Tail(@)]
      /\ m_qMessagesOut' = [m_qMessagesOut EXCEPT ![e] = Append(@, m)]
      /\ IF q # <<>> THEN UNCHANGED <<writes, wire>>
                     ELSE Write(e, writes[e], "header", Header(m))
      /\ UNCHANGED <<sock, reading, m_msgTemporaryIn, handshake, listed, inbox, sent, received>>
  BY DEF RunPosted, WriteHeader
<1>2. /\ sent[e] \in Seq(Messages) /\ posted[e] \in Seq(Messages) /\ q \in Seq(Messages)
      /\ writes[e] \in Seq(Ops) /\ wire[e] \in Seq(Words)
      /\ (ChainOps(writes[e]) # {} => q # <<>>)
      /\ m \in Messages /\ Header(m) \in Words /\ Header(m) # Answer
  <2>1. m \in Messages
    BY <1>1, DirectionOK
  <2>2. Header(m) \in Words /\ Header(m).k = "header" /\ Answer.k = "scrambled"
    BY <2>1, WordTypes DEF Header, Answer, scramble
  <2> QED
    BY <2>1, <2>2, DirectionOK
<1>3. /\ posted'[e] = Tail(posted[e]) /\ m_qMessagesOut'[e] = qm
      /\ \A d \in Ends : d # e => /\ posted'[d] = posted[d]
                                 /\ m_qMessagesOut'[d] = m_qMessagesOut[d]
  BY <1>1 DEF IInv, TypeOK
<1>4. Cursor(Peer(e))' = Cursor(Peer(e))
  BY <1>1 DEF Cursor
<1>5. ASSUME NEW w, InFlight(e, w)
      PROVE  Flow(sent[e], Tail(posted[e]), qm, ChainOps(writes[e]), sock[e], w, Cursor(Peer(e)))
  BY <1>1, <1>2, <1>5, FlowQueue DEF InFlight
<1>6. qm \in Seq(Messages) /\ qm # <<>> /\ (q = <<>> => Head(qm) = m)
  <2> HIDE DEF m, q
  <2>1. q \in Seq(Messages) /\ m \in Messages
    BY <1>2
  <2> QED
    BY <2>1, AppendSeq
<1> HIDE DEF m, q, qm
<1>7. /\ Moves(e)
      /\ \A d \in Ends : d # e => writes'[d] = writes[d] /\ wire'[d] = wire[d]
      /\ Validations(writes'[e]) = Validations(writes[e])
  <2>1. CASE q # <<>>
    <3>1. ASSUME NEW w \in Seq(Words), InFlight(e, w) PROVE InFlightNext(e, w)
      BY <3>1, <2>1, <1>1, <1>3, <1>4, <1>5 DEF InFlightNext
    <3> QED
      BY <3>1, <2>1, <1>1 DEF Moves
  <2>2. CASE q = <<>>
    <3>1. PICK fails \in BOOLEAN :
            /\ sock[e] # "open" => fails
            /\ writes' = [writes EXCEPT ![e] = Append(writes[e], [op |-> "header", fails |-> fails])]
            /\ wire' = IF fails THEN wire ELSE [wire EXCEPT ![e] = Append(@, Header(m))]
      BY <2>2, <1>1 DEF Write
    <3> DEFINE x == [op |-> "header", fails |-> fails]
    <3>2. x \in Ops /\ x.op = "header" /\ x.fails = fails
      BY DEF Ops
    <3>3. /\ writes'[e] = Append(writes[e], x)
          /\ wire'[e] = IF fails THEN wire[e] ELSE Append(wire[e], Header(m))
          /\ \A d \in Ends : d # e => writes'[d] = writes[d] /\ wire'[d] = wire[d]
      BY <3>1 DEF IInv, TypeOK
    <3>4. ChainOps(writes[e]) = {}
      BY <2>2, <1>2
    <3> HIDE DEF x
    <3>5. ChainOps(writes'[e]) = {x} /\ Validations(writes'[e]) = Validations(writes[e])
      BY <3>2, <3>3, <3>4, <1>2, ChainOpsAppend
    <3>6. CASE fails
      <4>1. ASSUME NEW w \in Seq(Words), InFlight(e, w) PROVE InFlightNext(e, w)
        <5>1. Flow(sent[e], Tail(posted[e]), qm, {x}, sock[e], w, Cursor(Peer(e)))
          BY <4>1, <3>2, <3>6, <1>5, FlowFails
        <5> QED
          BY <5>1, <3>5, <1>1, <1>3, <1>4 DEF InFlightNext
      <4> QED
        BY <4>1, <3>3, <3>5, <3>6 DEF Moves
    <3>7. CASE ~fails
      <4>1. ASSUME NEW w \in Seq(Words), InFlight(e, w)
            PROVE  InFlightNext(e, Append(w, Header(m)))
        <5>1. Flow(sent[e], Tail(posted[e]), qm, {}, sock[e], w, Cursor(Peer(e)))
          BY <4>1, <3>4, <1>5
        <5>2. Tail(posted[e]) \in Seq(Messages) /\ sock[e] # "closed"
          BY <3>1, <3>7, <1>1, <1>2
        <5>3. Flow(sent[e], Tail(posted[e]), qm, {x}, sock[e], Append(w, Header(m)),
                   Cursor(Peer(e)))
          BY <5>1, <5>2, <3>2, <2>2, <1>2, <1>6, FlowHeader
        <5> QED
          BY <5>3, <3>5, <1>1, <1>3, <1>4 DEF InFlightNext
      <4>2. wire'[e] = Append(wire[e], Header(m)) /\ Header(m) \in Words /\ Header(m) # Answer
        BY <3>3, <3>7, <1>2
      <4>3. Moves(e)
        BY <4>1, <4>2 DEF Moves
      <4> QED
        BY <4>3, <3>3, <3>5
    <3> QED
      BY <3>6, <3>7
  <2> QED
    BY <2>1, <2>2
<1>8. \A d \in Ends : d # e => Moves(d)
  BY <1>1, <1>3, <1>7, StaysMoves
<1>9. sock["server"] \in {"none", "backlog"} => e # "server"
  BY <1>1 DEF IInv, Unaccepted
<1>10. Validations(writes'["client"]) = Validations(writes["client"])
  BY <1>7, EndsOK
<1> QED
  BY <1>1, <1>7, <1>8, <1>9, <1>10, EndsOK, WritingCInv DEF CInv, AnsweredOnce

\* A word of the chain is written behind the operations `done`; c was being
\* written before.
LEMMA WriteMoves ==
  ASSUME IInv, NEW e \in Ends, NEW op \in {"header", "body"}, NEW word \in Words,
         word # Answer, NEW done \in Seq(Ops), ChainOps(done) = {},
         Write(e, done, op, word), sock' = sock, sent' = sent, posted' = posted,
         received' = received, reading' = reading, NEW c,
         \A w \in Seq(Words) : InFlight(e, w) =>
           Flow(sent[e], posted[e], m_qMessagesOut'[e], c, sock[e], w, Cursor(Peer(e))),
         \A w \in Seq(Words), x \in Ops :
           /\ sock[e] = "open" /\ x.op = op /\ ~x.fails
           /\ Flow(sent[e], posted[e], m_qMessagesOut'[e], c, sock[e], w, Cursor(Peer(e)))
           => Flow(sent[e], posted[e], m_qMessagesOut'[e], {x}, sock[e], Append(w, word),
                   Cursor(Peer(e)))
  PROVE  Moves(e) /\ Validations(writes'[e]) = Validations(done)
<1>1. PICK fails \in BOOLEAN :
        /\ sock[e] # "open" => fails
        /\ writes' = [writes EXCEPT ![e] = Append(done, [op |-> op, fails |-> fails])]
        /\ wire' = IF fails THEN wire ELSE [wire EXCEPT ![e] = Append(@, word)]
  BY DEF Write
<1>2. PICK x \in Ops : x.op = op /\ x.fails = fails /\ writes'[e] = Append(done, x)
  <2>1. [op |-> op, fails |-> fails] \in Ops /\ e \in DOMAIN writes
    BY DEF Ops, IInv, TypeOK
  <2> QED
    BY <2>1, <1>1
<1>3. wire'[e] = IF fails THEN wire[e] ELSE Append(wire[e], word)
  BY <1>1 DEF IInv, TypeOK
<1>4. ChainOps(writes'[e]) = {x} /\ Validations(writes'[e]) = Validations(done)
  BY <1>2, ChainOpsAppend
<1>5. Cursor(Peer(e))' = Cursor(Peer(e))
  BY DEF Cursor
<1>6. CASE fails
  <2>1. ASSUME NEW w \in Seq(Words), InFlight(e, w) PROVE InFlightNext(e, w)
    <3>1. Flow(sent[e], posted[e], m_qMessagesOut'[e], {x}, sock[e], w, Cursor(Peer(e)))
      BY <2>1, <1>2, <1>6, FlowFails
    <3> QED
      BY <3>1, <1>4, <1>5 DEF InFlightNext
  <2> QED
    BY <2>1, <1>3, <1>4, <1>6 DEF Moves
<1>7. CASE ~fails
  <2>1. ASSUME NEW w \in Seq(Words), InFlight(e, w) PROVE InFlightNext(e, Append(w, word))
    <3>1. Flow(sent[e], posted[e], m_qMessagesOut'[e], {x}, sock[e], Append(w, word),
               Cursor(Peer(e)))
      BY <2>1, <1>1, <1>2, <1>7
    <3> QED
      BY <3>1, <1>4, <1>5 DEF InFlightNext
  <2> QED
    BY <2>1, <1>3, <1>4, <1>7 DEF Moves
<1> QED
  BY <1>6, <1>7

\* What is done besides: nothing at the other end.
LEMMA WritingAt ==
  ASSUME IInv, CInv, NEW e \in Ends, WriteDone(e), WriteStep(e), Moves(e),
         reading'[e] = "body" <=> reading[e] = "body",
         reading'[e] = reading[e] \/ reading[e] = "none",
         e = "client" =>
           /\ reading'[e] # "none" => Validations(writes'[e]) = {}
           /\ \A i, j \in Validations(writes'[e]) : i = j
  PROVE  CInv'
<1>1. UNCHANGED <<posted, m_msgTemporaryIn, handshake, sent, received>> /\ writes[e] # <<>>
  BY DEF WriteDone
<1>2. /\ sock' = sock \/ sock' = [sock EXCEPT ![e] = "closed"]
      /\ \A d \in Ends : d # e => /\ writes'[d] = writes[d] /\ wire'[d] = wire[d]
                                 /\ m_qMessagesOut'[d] = m_qMessagesOut[d]
                                 /\ reading'[d] = reading[d]
      /\ reading'[e] = reading[e] \/ (e = "client" /\ reading'[e] = "header")
  BY DEF WriteStep
<1>3. /\ sock'[e] = sock[e] \/ sock'[e] = "closed"
      /\ \A d \in Ends : d # e => sock'[d] = sock[d]
  BY <1>2 DEF IInv, TypeOK
<1>4. \A d \in Ends : d # e => Moves(d)
  <2> SUFFICES ASSUME NEW d \in Ends, d # e PROVE Moves(d)
    OBVIOUS
  <2>1. Peer(d) = e
    BY PeerOK
  <2> QED
    BY <2>1, <1>1, <1>2, <1>3, StaysMoves
<1>5. sock["server"] \in {"none", "backlog"} => e # "server"
  BY <1>1 DEF IInv, Unaccepted
<1>6. wire'["server"] # wire["server"] => sock["server"] \notin {"none", "backlog"}
  BY <1>2, <1>5, EndsOK
<1>7. /\ \A d \in Ends : sock'[d] # "closed" => sock[d] # "closed"
      /\ sock'["server"] \in {"none", "backlog"} => sock["server"] \in {"none", "backlog"}
      /\ sock'["client"] \in {"connecting", "open", "closed"}
  BY <1>3, EndsOK DEF CInv, AnsweredOnce
<1>8. reading'["server"] = reading["server"]
  BY <1>2, EndsOK
<1>9. \/ reading'["client"] = reading["client"]
      \/ reading["client"] = "none" /\ reading'["client"] = "header"
  BY <1>2, EndsOK
<1>10. /\ reading'["client"] # "none" => Validations(writes'["client"]) = {}
       /\ \A i, j \in Validations(writes'["client"]) : i = j
  BY <1>2, EndsOK DEF CInv, AnsweredOnce
<1>11. Moves("server") /\ Moves("client")
  BY <1>4, EndsOK
<1> QED
  BY <1>1, <1>6, <1>7, <1>8, <1>9, <1>10, <1>11, WritingCInv

LEMMA WriteDoneCInv == ASSUME IInv, CInv, NEW e \in Ends, WriteDone(e) PROVE CInv'
<1> DEFINE x == Head(writes[e])
           done == Tail(writes[e])
           q == m_qMessagesOut[e]
<1>1. UNCHANGED <<posted, m_msgTemporaryIn, handshake, sent, received>> /\ writes[e] # <<>>
  BY DEF WriteDone
<1>2. /\ sent[e] \in Seq(Messages) /\ posted[e] \in Seq(Messages) /\ q \in Seq(Messages)
      /\ writes[e] \in Seq(Ops) /\ wire[e] \in Seq(Words) /\ Single(writes[e])
      /\ (ChainOps(writes[e]) # {} => q # <<>>)
  BY DirectionOK
<1>3. /\ x \in Ops /\ done \in Seq(Ops) /\ ChainOps(done) \in SUBSET ChainOps(writes[e])
      /\ x.op # "validation" => ChainOps(writes[e]) = {x} /\ ChainOps(done) = {} /\ q # <<>>
      /\ x.op = "validation" => ChainOps(done) = ChainOps(writes[e])
      /\ Validations(writes[e]) = {} => Validations(done) = {}
      /\ (\A i, j \in Validations(writes[e]) : i = j) =>
           /\ \A i, j \in Validations(done) : i = j
           /\ x.op = "validation" => Validations(done) = {}
  <2>1. writes[e] \in Seq(Ops) /\ writes[e] # <<>> /\ Single(writes[e])
    BY <1>1, <1>2
  <2>2. ChainOps(writes[e]) # {} => q # <<>>
    BY <1>2
  <2> HIDE DEF q
  <2>3. x.op # "validation" => ChainOps(writes[e]) = {x} /\ ChainOps(done) = {}
    BY <2>1, ChainOpsTail
  <2> QED
    BY <2>1, <2>2, <2>3, ChainOpsTail
<1>4. x.op = "validation" => Validations(writes[e]) # {}
  <2>1. 1 \in 1 .. Len(writes[e]) /\ writes[e][1] = x
    BY <1>1, <1>2
  <2> QED
    BY <2>1 DEF Validations
<1>5. WriteStep(e)
  BY WriteDoneStep
<1>6. e = "client" =>
        /\ reading[e] # "none" => Validations(writes[e]) = {} /\ Validations(done) = {}
        /\ \A i, j \in Validations(done) : i = j
        /\ x.op = "validation" => Validations(done) = {} /\ reading[e] = "none"
  BY <1>3, <1>4 DEF CInv, AnsweredOnce
<1>7. \/ /\ x.op = "validation" /\ ~x.fails
         /\ writes' = [writes EXCEPT ![e] = done]
         /\ IF ReadsAfterValidation(e) THEN Await(e, "header") ELSE UNCHANGED reading
         /\ UNCHANGED <<sock, m_qMessagesOut, wire>>
      \/ /\ x.op = "header" /\ ~x.fails /\ HasBody(Head(q)) /\ WriteBody(e, done, Head(q))
         /\ UNCHANGED <<sock, m_qMessagesOut, reading>>
      \/ /\ x.op = "body" \/ (x.op = "header" /\ ~HasBody(Head(q)))
         /\ ~x.fails /\ PopFront(e, done) /\ UNCHANGED <<sock, reading>>
      \/ /\ Close(e) /\ writes' = [writes EXCEPT ![e] = done]
         /\ UNCHANGED <<m_qMessagesOut, wire, reading>>
  BY <1>3 DEF WriteDone, Ops
<1> HIDE DEF x, done, q
<1>8. CASE /\ x.op = "validation"
           /\ writes' = [writes EXCEPT ![e] = done]
           /\ IF ReadsAfterValidation(e) THEN Await(e, "header") ELSE UNCHANGED reading
           /\ UNCHANGED <<sock, m_qMessagesOut, wire>>
  <2>1. writes'[e] = done
    BY <1>8 DEF IInv, TypeOK
  <2>2. /\ e # "client" => reading' = reading
        /\ e = "client" => reading'[e] = "header" /\ reading["client"] = "none"
        /\ \A d \in Ends : d # e => reading'[d] = reading[d]
    BY <1>6, <1>8 DEF ReadsAfterValidation, Await, IInv, TypeOK
  <2>3. Cursor(Peer(e))' = Cursor(Peer(e))
    BY <2>2, <1>1, PeerOK DEF Cursor
  <2>4. Moves(e)
    <3>1. \A w \in Seq(Words) : InFlight(e, w) => InFlightNext(e, w)
      BY <2>1, <2>3, <1>1, <1>3, <1>8 DEF InFlight, InFlightNext
    <3> QED
      BY <3>1, <1>8 DEF Moves
  <2> QED
    BY <2>1, <2>2, <2>4, <1>5, <1>6, <1>8, WritingAt
<1>9. CASE /\ x.op = "header" /\ ~x.fails /\ HasBody(Head(q)) /\ WriteBody(e, done, Head(q))
           /\ UNCHANGED <<sock, m_qMessagesOut, reading>>
  <2>1. Head(q) \in Messages /\ Write(e, done, "body", Body(Head(q)))
    BY <1>2, <1>3, <1>9 DEF WriteBody
  <2>2. Body(Head(q)) \in Words /\ Body(Head(q)) # Answer
    <3>1. Body(Head(q)).k = "body" /\ Answer.k = "scrambled"
      BY DEF Body, Answer, scramble
    <3> QED
      BY <3>1, <2>1, <1>9, WordTypes DEF HasBody
  <2>3. ASSUME NEW w \in Seq(Words), NEW y \in Ops, y.op = "body", ~y.fails,
               Flow(sent[e], posted[e], q, {x}, sock[e], w, Cursor(Peer(e)))
        PROVE  Flow(sent[e], posted[e], q, {y}, sock[e], Append(w, Body(Head(q))),
                    Cursor(Peer(e)))
    BY <2>3, <1>2, <1>3, <1>9, FlowBody
  <2>4. m_qMessagesOut'[e] = q
    BY <1>9 DEF q
  <2>5. \A w \in Seq(Words) : InFlight(e, w) =>
          Flow(sent[e], posted[e], q, {x}, sock[e], w, Cursor(Peer(e)))
    BY <1>3, <1>9 DEF InFlight, q
  <2>6. Moves(e) /\ Validations(writes'[e]) = Validations(done)
    BY <2>1, <2>2, <2>3, <2>4, <2>5, <1>1, <1>3, <1>9, WriteMoves
  <2> QED
    BY <2>6, <1>5, <1>6, <1>9, WritingAt
<1>10. CASE /\ x.op = "body" \/ (x.op = "header" /\ ~HasBody(Head(q)))
            /\ ~x.fails /\ PopFront(e, done) /\ UNCHANGED <<sock, reading>>
  <2>1. m_qMessagesOut'[e] = Tail(q) /\ Tail(q) \in Seq(Messages)
    BY <1>2, <1>3, <1>10 DEF PopFront, IInv, TypeOK, q
  <2>2. \A w \in Seq(Words) : InFlight(e, w) =>
          Flow(sent[e], posted[e], Tail(q), {}, sock[e], w, Cursor(Peer(e)))
    <3> SUFFICES ASSUME NEW w \in Seq(Words), InFlight(e, w)
                 PROVE  Flow(sent[e], posted[e], Tail(q), {}, sock[e], w, Cursor(Peer(e)))
      OBVIOUS
    <3>1. Flow(sent[e], posted[e], q, {x}, sock[e], w, Cursor(Peer(e)))
      BY <1>3, <1>10 DEF InFlight, q
    <3> QED
      BY <3>1, <1>2, <1>3, <1>10, FlowPop
  <2>3. CASE Tail(q) = <<>>
    <3>1. writes' = [writes EXCEPT ![e] = done] /\ wire' = wire
      BY <2>3, <1>10 DEF PopFront, q
    <3>2. writes'[e] = done /\ ChainOps(done) = {}
      BY <3>1, <1>3, <1>10 DEF IInv, TypeOK
    <3>3. Cursor(Peer(e))' = Cursor(Peer(e))
      BY <1>1, <1>10 DEF Cursor
    <3>4. Moves(e)
      BY <2>1, <2>2, <3>1, <3>2, <3>3, <1>1, <1>10 DEF Moves, InFlightNext
    <3> QED
      BY <3>2, <3>4, <1>5, <1>6, <1>10, WritingAt
  <2>4. CASE Tail(q) # <<>>
    <3>1. Write(e, done, "header", Header(Head(Tail(q)))) /\ Head(Tail(q)) \in Messages
      BY <2>1, <2>4, <1>10 DEF PopFront, WriteHeader, q
    <3> DEFINE h == Header(Head(Tail(q)))
    <3>2. h \in Words /\ h # Answer
      <4>1. h.k = "header" /\ Answer.k = "scrambled"
        BY DEF Header, Answer, scramble
      <4> QED
        BY <4>1, <3>1, WordTypes
    <3>3. ASSUME NEW w \in Seq(Words), NEW y \in Ops, y.op = "header", sock[e] = "open",
                 Flow(sent[e], posted[e], Tail(q), {}, sock[e], w, Cursor(Peer(e)))
          PROVE  Flow(sent[e], posted[e], Tail(q), {y}, sock[e], Append(w, h),
                      Cursor(Peer(e)))
      BY <3>3, <2>1, <2>4, <1>2, FlowHeader
    <3> HIDE DEF h
    <3>4. Write(e, done, "header", h)
      BY <3>1 DEF h
    <3>5. Moves(e) /\ Validations(writes'[e]) = Validations(done)
      <4>1. ChainOps(done) = {} /\ done \in Seq(Ops)
        BY <1>3, <1>10
      <4>2. \A w \in Seq(Words) : InFlight(e, w) =>
              Flow(sent[e], posted[e], m_qMessagesOut'[e], {}, sock[e], w, Cursor(Peer(e)))
        BY <2>1, <2>2
      <4>3. \A w \in Seq(Words), y \in Ops :
              /\ sock[e] = "open" /\ y.op = "header" /\ ~y.fails
              /\ Flow(sent[e], posted[e], m_qMessagesOut'[e], {}, sock[e], w, Cursor(Peer(e)))
              => Flow(sent[e], posted[e], m_qMessagesOut'[e], {y}, sock[e], Append(w, h),
                      Cursor(Peer(e)))
        BY <2>1, <3>3
      <4>4. UNCHANGED <<sock, sent, posted, received, reading>>
        BY <1>1, <1>10
      <4> QED
        BY <4>1, <4>2, <4>3, <4>4, <3>2, <3>4, WriteMoves
    <3> QED
      BY <3>5, <1>5, <1>6, <1>10, WritingAt
  <2> QED
    BY <2>3, <2>4
<1>11. CASE /\ Close(e) /\ writes' = [writes EXCEPT ![e] = done]
            /\ UNCHANGED <<m_qMessagesOut, wire, reading>>
  <2>1. writes'[e] = done /\ sock'[e] = "closed"
    BY <1>11 DEF Close, IInv, TypeOK
  <2>2. Cursor(Peer(e))' = Cursor(Peer(e))
    BY <1>1, <1>11 DEF Cursor
  <2>3. ASSUME NEW w \in Seq(Words), InFlight(e, w) PROVE InFlightNext(e, w)
    <3>1. Flow(sent[e], posted[e], q, ChainOps(done), "closed", w, Cursor(Peer(e)))
      <4>1. Flow(sent[e], posted[e], q, ChainOps(writes[e]), sock[e], w, Cursor(Peer(e)))
        BY <2>3 DEF InFlight, q
      <4>2. Len(q) \in Nat
        BY <1>2
      <4> QED
        BY <4>1, <4>2, <1>2, <1>3, FlowClose
    <3> QED
      BY <3>1, <2>1, <2>2, <1>1, <1>11 DEF InFlightNext, q
  <2>4. Moves(e)
    BY <2>3, <1>11 DEF Moves
  <2> QED
    BY <2>1, <2>4, <1>5, <1>6, <1>11, WritingAt
<1> QED
  BY <1>7, <1>8, <1>9, <1>10, <1>11

\* A step that writes nothing: sockets, reads, and what the game thread holds.
LEMMA QuietCInv ==
  ASSUME IInv, CInv,
         UNCHANGED <<m_qMessagesOut, wire, m_msgTemporaryIn, handshake, sent, received>>,
         sock'["client"] # "closed" => posted' = posted /\ writes' = writes,
         posted'["server"] = posted["server"] /\ writes'["server"] = writes["server"],
         \A e \in Ends : sock'[e] # "closed" => sock[e] # "closed",
         sock'["client"] \in {"connecting", "open", "closed"},
         sock'["server"] \in {"none", "backlog"} => sock["server"] \in {"none", "backlog"},
         \A e \in Ends : sock'[e] = "closed" \/ (reading'[e] = "body" <=> reading[e] = "body"),
         \A e \in Ends : reading'[e] = "body" => reading[e] = "body",
         sock'["server"] # "closed" => Moves("client"),
         \/ reading'["client"] = reading["client"]
         \/ /\ reading["client"] \in Early /\ reading'["client"] \in Early
         \/ sock'["client"] = "closed" /\ reading'["client"] = "none",
         Validations(writes'["client"]) \in {{}, Validations(writes["client"])}
  PROVE  CInv'
<1>1. sock'["client"] # "closed" => Moves("server")
  BY StaysMoves, PeerOK, EndsOK
<1>2. /\ reading'["client"] # "none" => Validations(writes'["client"]) = {}
      /\ \A i, j \in Validations(writes'["client"]) : i = j
  BY DEF CInv, AnsweredOnce, Early
<1> QED
  BY <1>1, <1>2, EndsOK, WritingCInv

LEMMA EstablishCInv == ASSUME IInv, CInv, Establish PROVE CInv'
<1>1. /\ sock' = [server |-> "backlog", client |-> "open"] /\ sock["server"] = "none"
      /\ sock["client"] = "connecting"
      /\ UNCHANGED <<posted, m_qMessagesOut, writes, wire, reading, m_msgTemporaryIn,
                     handshake, listed, inbox, sent, received>>
  BY DEF Establish, IInv, Unaccepted
<1>2. \A e \in Ends : sock[e] # "closed"
  BY <1>1, PeerOK
<1>3. sock'["server"] = "backlog" /\ sock'["client"] = "open"
  BY <1>1
<1>4. Moves("client")
  BY <1>1, <1>2, EndsOK, StaysMoves
<1> QED
  BY <1>1, <1>2, <1>3, <1>4, EndsOK, QuietCInv

LEMMA ConnectDoneCInv == ASSUME IInv, CInv, ConnectDone PROVE CInv'
<1>1. /\ reading["client"] = "connect" /\ sock["client"] # "connecting"
      /\ reading' = [reading EXCEPT !["client"] =
                       IF sock["client"] = "open" THEN "validation" ELSE "none"]
      /\ UNCHANGED <<sock, posted, m_qMessagesOut, writes, wire, m_msgTemporaryIn,
                     handshake, listed, inbox, sent, received>>
  BY DEF ConnectDone, Await
<1>2. /\ reading'["client"] = IF sock["client"] = "open" THEN "validation" ELSE "none"
      /\ reading'["server"] = reading["server"]
      /\ sock["client"] \in {"open", "closed"}
  BY <1>1, EndsOK DEF IInv, TypeOK, CInv, AnsweredOnce
<1>3. Moves("client")
  BY <1>1, <1>2, PeerOK, EndsOK, StaysMoves
<1>4. \A e \in Ends : reading'[e] = "body" <=> reading[e] = "body"
  BY <1>1, <1>2, PeerOK
<1>5. \/ reading["client"] \in Early /\ reading'["client"] \in Early
      \/ sock'["client"] = "closed" /\ reading'["client"] = "none"
  BY <1>1, <1>2 DEF Early
<1> QED
  BY <1>1, <1>2, <1>3, <1>4, <1>5, EndsOK, QuietCInv

LEMMA ReadFailCInv == ASSUME IInv, CInv, NEW e \in Ends, ReadFail(e) PROVE CInv'
<1>1. /\ sock' = [sock EXCEPT ![e] = "closed"] /\ reading' = [reading EXCEPT ![e] = "none"]
      /\ UNCHANGED <<posted, m_qMessagesOut, writes, wire, m_msgTemporaryIn, handshake,
                     listed, inbox, sent, received>>
  BY DEF ReadFail, Close, Await
<1>2. /\ sock'[e] = "closed" /\ reading'[e] = "none"
      /\ \A d \in Ends : d # e => sock'[d] = sock[d] /\ reading'[d] = reading[d]
  BY <1>1 DEF IInv, TypeOK
<1>3. /\ \A d \in Ends : sock'[d] # "closed" => sock[d] # "closed"
      /\ sock'["client"] \in {"connecting", "open", "closed"}
      /\ sock'["server"] \in {"none", "backlog"} => sock["server"] \in {"none", "backlog"}
  BY <1>2, EndsOK DEF CInv, AnsweredOnce
<1>4. \A d \in Ends : sock'[d] = "closed" \/ reading'[d] = reading[d]
  BY <1>2
<1>5. sock'["server"] # "closed" => Moves("client")
  BY <1>1, <1>3, <1>4, PeerOK, EndsOK, StaysMoves
<1>6. \/ reading'["client"] = reading["client"]
      \/ sock'["client"] = "closed" /\ reading'["client"] = "none"
  BY <1>2, EndsOK
<1>7. \A d \in Ends : reading'[d] = "body" => reading[d] = "body"
  BY <1>2
<1> QED
  BY <1>1, <1>3, <1>4, <1>5, <1>6, <1>7, QuietCInv

LEMMA LeaveCInv == ASSUME IInv, CInv, Leave PROVE CInv'
<1>1. /\ sock' = [sock EXCEPT !["client"] = "closed"]
      /\ posted' = [posted EXCEPT !["client"] = <<>>]
      /\ writes' = [writes EXCEPT !["client"] = <<>>]
      /\ reading' = [reading EXCEPT !["client"] = "none"]
      /\ UNCHANGED <<m_qMessagesOut, wire, m_msgTemporaryIn, handshake, listed, inbox,
                     sent, received>>
  BY DEF Leave, Close, Await
<1>2. /\ sock'["server"] = sock["server"] /\ reading'["server"] = reading["server"]
      /\ posted'["server"] = posted["server"] /\ writes'["server"] = writes["server"]
      /\ sock'["client"] = "closed" /\ reading'["client"] = "none"
      /\ writes'["client"] = <<>> /\ posted'["client"] = <<>>
  BY <1>1, EndsOK DEF IInv, TypeOK
<1>3. ChainOps(writes'["client"]) = {} /\ Validations(writes'["client"]) = {}
  BY <1>2, ChainEmpty DEF ChainOps, Validations
<1>4. Moves("client")
  <2>1. ASSUME NEW w \in Seq(Words), InFlight("client", w)
        PROVE  InFlightNext("client", w)
    <3>1. Flow(sent["client"], <<>>, m_qMessagesOut["client"], {}, "closed", w,
               Cursor(Peer("client")))
      BY <2>1, EndsOK, DirectionOK, FlowLeave DEF InFlight
    <3>2. Cursor(Peer("client"))' = Cursor(Peer("client"))
      BY <1>1, <1>2, PeerOK DEF Cursor
    <3> QED
      BY <3>1, <3>2, <1>1, <1>2, <1>3 DEF InFlightNext
  <2> QED
    BY <2>1, <1>1 DEF Moves
<1>5. \A e \in Ends : sock'[e] = "closed" \/ (sock'[e] = sock[e] /\ reading'[e] = reading[e])
  BY <1>2, PeerOK
<1>6. \A e \in Ends : reading'[e] = "body" => reading[e] = "body"
  BY <1>2, PeerOK
<1> QED
  BY <1>1, <1>2, <1>3, <1>4, <1>5, <1>6, QuietCInv

LEMMA GameLoopCInv == ASSUME IInv, CInv, GameLoop \/ UNCHANGED vars PROVE CInv'
<1>1. UNCHANGED <<sock, posted, m_qMessagesOut, writes, wire, reading, m_msgTemporaryIn,
                  handshake, sent, received>>
  BY DEF GameLoop, Handle, Forget, vars
<1>2. Moves("client")
  BY <1>1, EndsOK, StaysMoves
<1>3. sock'["client"] \in {"connecting", "open", "closed"}
  BY <1>1 DEF CInv, AnsweredOnce
<1> QED
  BY <1>1, <1>2, <1>3, QuietCInv

\* The server's first message waits; only the challenge is on the wire.
LEMMA AcceptCInv == ASSUME IInv, CInv, Accept PROVE CInv'
<1> DEFINE m == Message(ServerAccept)
           x == [op |-> "validation", fails |-> FALSE]
<1>1. /\ sock["server"] = "backlog" /\ sock' = [sock EXCEPT !["server"] = "open"]
      /\ posted' = [posted EXCEPT !["server"] = Append(@, m)]
      /\ sent' = [sent EXCEPT !["server"] = Append(@, m)]
      /\ writes' = [writes EXCEPT !["server"] = <<x>>]
      /\ wire' = [wire EXCEPT !["server"] = <<Challenge>>]
      /\ reading' = [reading EXCEPT !["server"] = "validation"]
      /\ UNCHANGED <<m_qMessagesOut, m_msgTemporaryIn, handshake, inbox, received>>
  BY DEF Accept, Post, Await
<1>2. /\ posted["server"] = <<>> /\ m_qMessagesOut["server"] = <<>>
      /\ writes["server"] = <<>> /\ wire["server"] = <<>> /\ reading["server"] = "none"
  BY <1>1 DEF IInv, Unaccepted
<1>3. m \in Messages
  BY MessageTypes DEF Untold
<1> HIDE DEF m
<1>4. /\ sock'["server"] = "open" /\ sock'["client"] = sock["client"]
      /\ posted'["server"] = Append(posted["server"], m) /\ posted'["client"] = posted["client"]
      /\ sent'["server"] = Append(sent["server"], m) /\ sent'["client"] = sent["client"]
      /\ writes'["server"] = <<x>> /\ writes'["client"] = writes["client"]
      /\ wire'["server"] = <<Challenge>> /\ wire'["client"] = wire["client"]
      /\ reading'["server"] = "validation" /\ reading'["client"] = reading["client"]
  BY <1>1, EndsOK DEF IInv, TypeOK
<1>5. ChainOps(writes'["server"]) = {} /\ ChainOps(writes["server"]) = {}
  <2>1. ChainOf(<<x>>) = {}
    BY DEF ChainOf
  <2> QED
    BY <2>1, <1>2, <1>4, ChainEmpty DEF ChainOps
<1>6. FlowToClient'
  <2> SUFFICES ASSUME sock'["client"] # "closed" PROVE InFlight("server", Unread)'
    BY DEF FlowToClient
  <2>1. reading["client"] \in Early
    BY <1>1, <1>4 DEF CInv, AnsweredOnce
  <2>2. Unread = <<>> /\ Unread' = <<>>
    BY <2>1, <1>2, <1>4 DEF Unread, Early
  <2>3. Flow(sent["server"], posted["server"], m_qMessagesOut["server"], {}, sock["server"],
             <<>>, Cursor("client"))
    BY <2>2, <1>4, <1>5, PeerOK DEF CInv, FlowToClient, InFlight
  <2>4. Flow(sent'["server"], posted'["server"], m_qMessagesOut["server"], {}, sock["server"],
             <<>>, Cursor("client"))
    <3>1. <<>> \in Seq(Words) /\ sock["server"] # "closed"
      BY <1>1
    <3>2. /\ sent["server"] \in Seq(Messages) /\ posted["server"] \in Seq(Messages)
          /\ m_qMessagesOut["server"] \in Seq(Messages)
      BY EndsOK, DirectionOK
    <3>3. Flow(Append(sent["server"], m), Append(posted["server"], m),
               m_qMessagesOut["server"], {}, sock["server"], <<>>, Cursor("client"))
      BY <3>1, <3>2, <2>3, <1>3, FlowSend
    <3> QED
      BY <3>3, <1>4
  <2>5. Flow(sent'["server"], posted'["server"], m_qMessagesOut["server"], {}, "open",
             <<>>, Cursor("client"))
    <3>1. sock["server"] # "closed"
      BY <1>1
    <3> QED
      BY <3>1, <2>4, FlowSock
  <2>6. Cursor("client")' = Cursor("client")
    BY <1>1, <1>4 DEF Cursor
  <2>7. /\ m_qMessagesOut'["server"] = m_qMessagesOut["server"] /\ sock'["server"] = "open"
        /\ Peer("server") = "client" /\ ChainOps(writes'["server"]) = {} /\ Unread' = <<>>
    BY <2>2, <1>1, <1>4, <1>5, PeerOK
  <2> QED
    BY <2>5, <2>6, <2>7 DEF InFlight
<1>7. FlowToServer' /\ Unanswered'
  <2>1. Moves("client")
    <3>1. received'["server"] = received["server"] /\ reading'["server"] # "body"
          /\ reading["server"] # "body" /\ m_qMessagesOut' = m_qMessagesOut
      BY <1>1, <1>2, <1>4
    <3> QED
      BY <3>1, <1>4, PeerOK, EndsOK, StaysMoves
  <2> QED
    BY <2>1, <1>1, <1>4, ToServerMoves DEF CInv
<1>8. AnsweredOnce'
  BY <1>4 DEF CInv, AnsweredOnce, Early, Validations
<1>9. DeliveredTo("server")'
  <2>1. /\ received' = received /\ m_msgTemporaryIn' = m_msgTemporaryIn
        /\ reading'["server"] # "body" /\ sent'["client"] = sent["client"]
    BY <1>1, <1>4
  <2> QED
    BY <2>1, PeerOK, EndsOK, DeliveredKept DEF CInv
<1>10. DeliveredTo("client")'
  <2>1. /\ received' = received /\ m_msgTemporaryIn' = m_msgTemporaryIn
        /\ reading'["client"] = reading["client"]
        /\ sent'["server"] = Append(sent["server"], m)
    BY <1>1, <1>4
  <2> QED
    BY <2>1, <1>3, PeerOK, EndsOK, DeliveredKept DEF CInv
<1> QED
  BY <1>6, <1>7, <1>8, <1>9, <1>10 DEF CInv

\* The answer leaves the wire; what the client wrote behind it comes next.
LEMMA ReadValidationServerCInv == ASSUME IInv, CInv, ReadValidationServer PROVE CInv'
<1>1. /\ wire["client"] # <<>> /\ reading["server"] = "validation" /\ sock["server"] = "open"
      /\ wire' = [wire EXCEPT !["client"] = Tail(@)] /\ Word("server") = Head(wire["client"])
      /\ UNCHANGED <<m_qMessagesOut, writes, m_msgTemporaryIn, received>>
  BY DEF ReadValidationServer, Reads, Taken, Word, Peer
<1>2. handshake = "pending"
  BY <1>1 DEF IInv, ReadsValidated
<1>3. wire'["client"] = Tail(wire["client"]) /\ wire'["server"] = wire["server"]
      /\ wire["client"] \in Seq(Words)
  BY <1>1, EndsOK DEF IInv, TypeOK
<1>4. CASE AcceptsAnswer(Word("server"))
  <2> DEFINE m == Message(ClientAccepted)
  <2>1. /\ handshake' = "good" /\ sock' = sock
        /\ posted' = [posted EXCEPT !["server"] = Append(@, m)]
        /\ sent' = [sent EXCEPT !["server"] = Append(@, m)]
        /\ reading' = [reading EXCEPT !["server"] = "header"]
    BY <1>4 DEF ReadValidationServer, Post, Await
  <2>2. m \in Messages
    BY MessageTypes
  <2> HIDE DEF m
  <2>3. /\ posted'["server"] = Append(posted["server"], m) /\ posted'["client"] = posted["client"]
        /\ sent'["server"] = Append(sent["server"], m) /\ sent'["client"] = sent["client"]
        /\ reading'["server"] = "header" /\ reading'["client"] = reading["client"]
    BY <2>1, EndsOK DEF IInv, TypeOK
  <2>4. Head(wire["client"]) = Answer
    BY <1>1, <1>4 DEF AcceptsAnswer, Answer
  <2>5. reading["client"] \notin Early
    BY <2>4, <1>1, <1>2 DEF CInv, Unanswered
  <2>6. FlowToClient'
    <3>1. Cursor(Peer("server"))' = Cursor(Peer("server"))
      BY <2>3, <1>1, PeerOK DEF Cursor
    <3>2. ASSUME NEW w \in Seq(Words), InFlight("server", w) PROVE InFlightNext("server", w)
      <4>1. Flow(sent'["server"], posted'["server"], m_qMessagesOut["server"],
                 ChainOps(writes["server"]), sock["server"], w, Cursor(Peer("server")))
        <5>1. /\ sent["server"] \in Seq(Messages) /\ posted["server"] \in Seq(Messages)
              /\ m_qMessagesOut["server"] \in Seq(Messages) /\ sock["server"] # "closed"
              /\ ChainOps(writes["server"]) # {} => m_qMessagesOut["server"] # <<>>
          BY <1>1, EndsOK, DirectionOK
        <5>2. Flow(Append(sent["server"], m), Append(posted["server"], m),
                   m_qMessagesOut["server"], ChainOps(writes["server"]), sock["server"], w,
                   Cursor(Peer("server")))
          BY <5>1, <3>2, <2>2, FlowSend DEF InFlight
        <5> QED
          BY <5>2, <2>3
      <4> QED
        BY <4>1, <3>1, <2>1, <1>1 DEF InFlightNext
    <3>3. Moves("server")
      BY <3>2, <1>3 DEF Moves
    <3> QED
      BY <3>3, <2>1, <2>3, <1>3, ToClientMoves DEF CInv
  <2>7. FlowToServer'
    <3>1. InFlight("client", Tail(wire["client"]))
      BY <2>4, <1>1, <1>2 DEF CInv, FlowToServer
    <3>2. Cursor(Peer("client"))' = Cursor(Peer("client"))
      BY <2>3, <1>1, PeerOK DEF Cursor
    <3>3. InFlight("client", wire["client"])'
      BY <3>1, <3>2, <2>1, <2>3, <1>1, <1>3 DEF InFlight
    <3> QED
      BY <3>3, <2>1 DEF FlowToServer
  <2>8. Unanswered' /\ AnsweredOnce'
    BY <2>1, <2>3, <2>5, <1>1 DEF CInv, Unanswered, AnsweredOnce, Early
  <2>9. DeliveredTo("server")' /\ DeliveredTo("client")'
    BY <2>2, <2>3, <1>1, PeerOK, EndsOK, DeliveredKept DEF CInv
  <2> QED
    BY <2>6, <2>7, <2>8, <2>9 DEF CInv
<1>5. CASE ~AcceptsAnswer(Word("server"))
  <2>1. /\ handshake' = "bad" /\ sock' = [sock EXCEPT !["server"] = "closed"]
        /\ reading' = [reading EXCEPT !["server"] = "none"]
        /\ posted' = posted /\ sent' = sent
    BY <1>5 DEF ReadValidationServer, Close, Await
  <2>2. /\ sock'["server"] = "closed" /\ sock'["client"] = sock["client"]
        /\ reading'["server"] = "none" /\ reading'["client"] = reading["client"]
    BY <2>1, EndsOK DEF IInv, TypeOK
  <2>3. FlowToClient'
    <3>1. Moves("server")
      BY <2>1, <2>2, <1>1, <1>3, PeerOK, EndsOK, StaysMoves
    <3> QED
      BY <3>1, <2>2, <1>3, ToClientMoves DEF CInv
  <2>4. FlowToServer' /\ Unanswered' /\ AnsweredOnce'
    BY <2>1, <2>2, <1>1 DEF CInv, FlowToServer, Unanswered, AnsweredOnce, Early
  <2>5. DeliveredTo("server")' /\ DeliveredTo("client")'
    BY <2>1, <2>2, <1>1, PeerOK, EndsOK, DeliveredKept DEF CInv
  <2> QED
    BY <2>3, <2>4, <2>5 DEF CInv
<1> QED
  BY <1>4, <1>5

\* The challenge leaves the wire, and the answer is written if it can be.
LEMMA ReadValidationClientCInv == ASSUME IInv, CInv, ReadValidationClient PROVE CInv'
<1> DEFINE w0 == wire["client"]
<1>1. /\ wire["server"] # <<>> /\ reading["client"] = "validation"
      /\ reading' = [reading EXCEPT !["client"] = "none"]
      /\ Word("client") = Head(wire["server"])
      /\ Taken("client") = [wire EXCEPT !["server"] = Tail(@)]
      /\ UNCHANGED <<sock, posted, m_qMessagesOut, m_msgTemporaryIn, handshake, listed,
                     inbox, sent, received>>
  BY DEF ReadValidationClient, Reads, Taken, Word, Peer, Await
<1>2. sock["server"] \notin {"none", "backlog"} /\ Word("client") = Challenge
  BY <1>1 DEF IInv, Unaccepted, FirstWord
<1>3. PICK fails \in BOOLEAN :
        /\ writes' = [writes EXCEPT !["client"] =
                        Append(@, [op |-> "validation", fails |-> fails])]
        /\ wire' = IF fails THEN Taken("client")
                   ELSE [Taken("client") EXCEPT !["client"] =
                           Append(@, scramble(Word("client")))]
  BY DEF ReadValidationClient
<1> DEFINE x == [op |-> "validation", fails |-> fails]
<1>4. /\ wire'["server"] = Tail(wire["server"])
      /\ wire'["client"] = IF fails THEN w0 ELSE Append(w0, Answer)
      /\ writes'["server"] = writes["server"]
      /\ writes'["client"] = Append(writes["client"], x)
      /\ reading'["client"] = "none" /\ reading'["server"] = reading["server"]
      /\ w0 \in Seq(Words)
  <2>1. /\ wire \in [Ends -> Seq(Words)] /\ DOMAIN writes = Ends /\ DOMAIN reading = Ends
        /\ scramble(Word("client")) = Answer
    BY <1>2 DEF IInv, TypeOK, Answer
  <2>2. wire'["server"] = Tail(wire["server"])
        /\ wire'["client"] = IF fails THEN w0 ELSE Append(w0, Answer)
    BY <2>1, <1>1, <1>3, EndsOK
  <2> QED
    BY <2>1, <2>2, <1>1, <1>3, EndsOK
<1>5. x \in Ops /\ x.op = "validation"
  BY DEF Ops
<1>6. /\ ChainOps(writes'["client"]) = ChainOps(writes["client"])
      /\ Validations(writes'["client"]) = {Len(writes["client"]) + 1}
  <2>1. Validations(writes["client"]) = {}
    BY <1>1 DEF CInv, AnsweredOnce
  <2>2. writes["client"] \in Seq(Ops)
    BY EndsOK, DirectionOK
  <2> HIDE DEF x
  <2> QED
    BY <2>1, <2>2, <1>4, <1>5, ChainOpsAppend
<1> HIDE DEF x
<1>7. \A e \in Ends : Cursor(Peer(e))' = Cursor(Peer(e))
  BY <1>1, <1>4, PeerOK DEF Cursor
<1>8. FlowToClient'
  <2>1. Unread' = Unread
    BY <1>1, <1>4 DEF Unread, Early
  <2> QED
    BY <2>1, <1>1, <1>4, <1>7, EndsOK DEF CInv, FlowToClient, InFlight
<1>9. FlowToServer'
  <2>1. \A w : InFlight("client", w) => InFlightNext("client", w)
    BY <1>1, <1>4, <1>6, <1>7, EndsOK DEF InFlight, InFlightNext
  <2>2. handshake' # "good"
    BY <1>1 DEF CInv, Unanswered, Early
  <2>3. FlowToServer' <=>
          (sock["server"] # "closed" =>
            /\ wire'["client"] = <<>> => InFlightNext("client", wire'["client"])
            /\ handshake = "pending" /\ wire'["client"] # <<>> /\ Head(wire'["client"]) = Answer
                 => InFlightNext("client", Tail(wire'["client"])))
    BY <2>2, <1>1 DEF FlowToServer, InFlight, InFlightNext, Answer, scramble, Challenge
  <2>4. handshake = "pending" /\ w0 # <<>> => Head(w0) # Answer
    BY <1>1 DEF CInv, Unanswered, Early
  <2>5. CASE fails
    BY <2>1, <2>3, <2>4, <2>5, <1>4 DEF CInv, FlowToServer
  <2>6. CASE ~fails
    <3>1. Answer \in Words
      BY WordTypes DEF Answer
    <3>2. wire'["client"] # <<>>
      BY <3>1, <2>6, <1>4, WordsTail
    <3>3. CASE w0 = <<>>
      <4>1. Tail(wire'["client"]) = w0
        BY <3>1, <3>3, <2>6, <1>4, WordsTail
      <4> QED
        BY <4>1, <3>2, <3>3, <2>1, <2>3 DEF CInv, FlowToServer
    <3>4. CASE w0 # <<>>
      <4>1. Head(wire'["client"]) = Head(w0)
        BY <3>1, <3>4, <2>6, <1>4, WordsTail
      <4> QED
        BY <4>1, <3>2, <3>4, <2>3, <2>4
    <3> QED
      BY <3>3, <3>4
  <2> QED
    BY <2>5, <2>6
<1>10. Unanswered' /\ AnsweredOnce'
  BY <1>1, <1>2, <1>4, <1>6 DEF CInv, Unanswered, AnsweredOnce, Early
<1>11. DeliveredTo("server")' /\ DeliveredTo("client")'
  BY <1>1, <1>4, PeerOK, EndsOK, DeliveredKept DEF CInv
<1> QED
  BY <1>8, <1>9, <1>10, <1>11 DEF CInv

-----------------------------------------------------------------------------
(* Reading messages.                                                       *)

\* What is unread of a validated end starts at its cursor.
LEMMA ReaderFlow ==
  ASSUME IInv, CInv, NEW e \in Ends, reading[e] \in {"header", "body"}, sock[e] = "open"
  PROVE  InFlight(Peer(e), wire[Peer(e)])
<1>1. CASE e = "server"
  <2>1. handshake = "good"
    BY <1>1 DEF IInv, ReadsValidated
  <2> QED
    BY <2>1, <1>1, PeerOK DEF CInv, FlowToServer
<1>2. CASE e = "client"
  <2>1. Unread = wire["server"]
    BY <1>2 DEF Unread, Early
  <2> QED
    BY <2>1, <1>2, PeerOK DEF CInv, FlowToClient
<1> QED
  BY <1>1, <1>2, PeerOK

\* Its next word is of the next message, whose header it reads first.
LEMMA NextWord ==
  ASSUME IInv, CInv, NEW e \in Ends, reading[e] \in {"header", "body"}, sock[e] = "open",
         wire[Peer(e)] # <<>>
  PROVE  LET s == sent[Peer(e)]
             n == Len(received[e])
         IN /\ n \in Nat /\ n < Len(s) /\ s[n + 1] \in Messages
            /\ reading[e] = "header" => Word(e) = Header(s[n + 1])
            /\ reading[e] = "body" => Word(e) = Body(s[n + 1])
            /\ Flow(s, posted[Peer(e)], m_qMessagesOut[Peer(e)], ChainOps(writes[Peer(e)]),
                    sock[Peer(e)], Tail(wire[Peer(e)]), Succ(s, Cursor(e)))
<1> DEFINE p == Peer(e)
           s == sent[p]
           n == Len(received[e])
<1>1. p \in Ends /\ Peer(p) = e
  BY PeerOK
<1>2. s \in Seq(Messages) /\ wire[p] \in Seq(Words) /\ n \in Nat /\ Len(s) \in Nat
  <2>1. s \in Seq(Messages) /\ wire[p] \in Seq(Words) /\ n \in Nat
    BY <1>1, DirectionOK
  <2> QED
    BY <2>1
<1>3. Flow(s, posted[p], m_qMessagesOut[p], ChainOps(writes[p]), sock[p], wire[p], Cursor(e))
  BY <1>1, ReaderFlow DEF InFlight
<1> HIDE DEF s
<1>4. /\ Cursor(e) \in Positions /\ Cursor(e).i <= Len(s) /\ Head(wire[p]) = WordAt(s, Cursor(e))
      /\ Flow(s, posted[p], m_qMessagesOut[p], ChainOps(writes[p]), sock[p], Tail(wire[p]),
              Succ(s, Cursor(e)))
  BY <1>2, <1>3, FlowRead
<1>5. Cursor(e).i = n + 1 /\ Cursor(e).k = IF reading[e] = "body" THEN "body" ELSE "header"
  BY DEF Cursor, Pos
<1>6. n + 1 \in 1 .. Len(s) /\ n < Len(s)
  BY <1>2, <1>4, <1>5
<1>7. s[n + 1] \in Messages
  BY <1>2, <1>6
<1> QED
  BY <1>2, <1>4, <1>5, <1>6, <1>7 DEF WordAt, Word, s

\* A read takes one word of one direction.
LEMMA ReadingCInv ==
  ASSUME IInv, CInv, NEW e \in Ends, reading[e] \in {"header", "body"},
         wire' = Taken(e), reading'[e] \in {"header", "body"},
         \A d \in Ends : d # e => reading'[d] = reading[d] /\ received'[d] = received[d]
                                  /\ m_msgTemporaryIn'[d] = m_msgTemporaryIn[d],
         UNCHANGED <<sock, posted, m_qMessagesOut, writes, handshake, listed, sent>>,
         InFlightNext(Peer(e), Tail(wire[Peer(e)])), DeliveredTo(e)'
  PROVE  CInv'
<1>1. wire'[Peer(e)] = Tail(wire[Peer(e)]) /\ wire'[e] = wire[e]
  BY PeerOK DEF Taken, IInv, TypeOK
<1>2. Moves(e)
  BY <1>1, PeerOK, StaysMoves
<1>3. DeliveredTo("server")' /\ DeliveredTo("client")'
  <2>1. ASSUME NEW d \in Ends, d # e, DeliveredTo(d) PROVE DeliveredTo(d)'
    BY <2>1, DeliveredKept
  <2> QED
    BY <2>1, EndsOK DEF CInv
<1>4. AnsweredOnce'
  <2>1. reading["client"] # "none" \/ reading'["client"] = reading["client"]
    BY EndsOK
  <2>2. sock["server"] \in {"none", "backlog"} /\ sock["client"] # "closed" => e # "client"
    BY DEF CInv, AnsweredOnce, Early
  <2> QED
    BY <2>1, <2>2, EndsOK DEF CInv, AnsweredOnce, Early
<1>5. CASE e = "server"
  <2>1. handshake = "good"
    BY <1>5 DEF IInv, ReadsValidated
  <2>2. FlowToServer'
    BY <2>1, <1>1, <1>5, PeerOK DEF FlowToServer, InFlight, InFlightNext
  <2>3. Unanswered'
    BY <2>1, <1>5, EndsOK DEF CInv, Unanswered, Early
  <2>4. FlowToClient'
    BY <1>1, <1>2, <1>5, EndsOK, ToClientMoves DEF CInv
  <2> QED
    BY <2>2, <2>3, <2>4, <1>3, <1>4 DEF CInv
<1>6. CASE e = "client"
  <2>1. reading'["client"] \notin Early
    BY <1>6 DEF Early
  <2>2. Unread' = wire'["server"]
    BY <2>1 DEF Unread, Early
  <2>3. FlowToClient'
    BY <2>2, <1>1, <1>6, PeerOK DEF FlowToClient, InFlight, InFlightNext
  <2>4. FlowToServer' /\ Unanswered'
    BY <2>1, <1>1, <1>2, <1>6, ToServerMoves DEF CInv
  <2> QED
    BY <2>3, <2>4, <1>3, <1>4 DEF CInv
<1> QED
  BY <1>5, <1>6, PeerOK

\* The message at the cursor is pushed whole, tmp.
LEMMA PushDelivers ==
  ASSUME IInv, CInv, NEW e \in Ends, NEW tmp \in Read, received'[e] = Append(received[e], tmp),
         Len(received[e]) < Len(sent[Peer(e)]),
         Faithful(tmp) = sent[Peer(e)][Len(received[e]) + 1],
         sent' = sent, reading'[e] = "header"
  PROVE  /\ DeliveredTo(e)'
         /\ Cursor(e)' = Pos(Len(received[e]) + 2, "header")
<1> DEFINE r == received[e]
           s == sent[Peer(e)]
           v == Append(r, tmp)
<1>1. r \in Seq(Read) /\ Len(r) \in Nat /\ s \in Seq(Messages)
  BY PeerOK, DirectionOK
<1>2. /\ Len(s) \in Nat /\ Len(v) = Len(r) + 1 /\ v[Len(r) + 1] = tmp
      /\ \A j \in 1 .. Len(r) : v[j] = r[j]
  BY <1>1
<1>3. DeliveredTo(e)' <=> Delivered(v, s, "header", m_msgTemporaryIn'[e])
  BY DEF DeliveredTo, Delivered, Faithful, Message
<1>4. \A j \in 1 .. Len(r) : Faithful(r[j]) = s[j]
  BY PeerOK DEF CInv, DeliveredTo, Delivered
<1> HIDE DEF v
<1>5. Len(v) <= Len(s) /\ \A j \in 1 .. Len(v) : Faithful(v[j]) = s[j]
  <2>1. Len(v) <= Len(s)
    BY <1>1, <1>2
  <2>2. ASSUME NEW j \in 1 .. Len(v) PROVE Faithful(v[j]) = s[j]
    <3>1. j \in 1 .. Len(r) \/ j = Len(r) + 1
      BY <1>1, <1>2
    <3> QED
      BY <3>1, <1>2, <1>4
  <2> QED
    BY <2>1, <2>2
<1>6. Cursor(e)' = Pos(Len(r) + 2, "header")
  <2>1. Cursor(e)' = Pos(Len(v) + 1, "header")
    BY DEF Cursor, v
  <2>2. Len(v) + 1 = Len(r) + 2
    BY <1>1, <1>2
  <2> QED
    BY <2>1, <2>2
<1> QED
  BY <1>3, <1>5, <1>6 DEF Delivered

\* m_msgTemporaryIn as the header leaves it, and as the body does.
WithHeader(e) == [m_msgTemporaryIn[e] EXCEPT !.id = Word(e).id]
WithBody(e) == [m_msgTemporaryIn[e] EXCEPT !.body = Word(e).body]

\* A header makes the id of the next message known, a body completes it.
LEMMA NextMessage ==
  ASSUME IInv, CInv, NEW e \in Ends, Reads(e, "header") \/ Reads(e, "body")
  PROVE  LET m == sent[Peer(e)][Len(received[e]) + 1] IN
         /\ m \in Messages /\ (HasBody(m) <=> m.id \in Bodied)
         /\ reading[e] = "header" =>
              /\ WithHeader(e) \in Read /\ WithHeader(e).id = m.id
              /\ ~HasBody(m) => Faithful(WithHeader(e)) = m
         /\ reading[e] = "body" =>
              /\ WithBody(e) \in Read /\ HasBody(m) /\ Faithful(WithBody(e)) = m
<1> DEFINE m == sent[Peer(e)][Len(received[e]) + 1]
           t == m_msgTemporaryIn[e]
<1>1. /\ m \in Messages
      /\ reading[e] = "header" => Word(e) = Header(m)
      /\ reading[e] = "body" => Word(e) = Body(m)
      /\ reading[e] \in {"header", "body"}
  BY NextWord DEF Reads
<1>2. reading[e] = "body" => t.id \in Bodied /\ t.id = m.id
  BY PeerOK DEF CInv, DeliveredTo, Delivered
<1>3. t \in [id : Ids, body : Payloads \cup {NoBody}]
  BY DEF IInv, TypeOK
<1> HIDE DEF m, t
<1>4. /\ (HasBody(m) <=> m.id \in Bodied) /\ m.id \in Ids
      /\ HasBody(m) => m.body \in Payloads /\ m = [id |-> m.id, body |-> m.body]
      /\ ~HasBody(m) => m = Message(m.id)
  BY <1>1, IdAssumption DEF Messages, HasBody, Message
<1>5. ASSUME reading[e] = "header"
      PROVE  /\ WithHeader(e) \in Read /\ WithHeader(e).id = m.id
             /\ ~HasBody(m) => Faithful(WithHeader(e)) = m
  <2>1. Word(e).id = m.id
    BY <1>1, <1>5 DEF Header
  <2>2. WithHeader(e) \in Read /\ WithHeader(e).id = m.id
    BY <2>1, <1>3, <1>4 DEF WithHeader, Read, t
  <2> QED
    BY <2>2, <1>4 DEF Faithful
<1>6. ASSUME reading[e] = "body"
      PROVE  /\ WithBody(e) \in Read /\ HasBody(m) /\ Faithful(WithBody(e)) = m
  <2>1. Word(e).body = m.body /\ HasBody(m)
    BY <1>1, <1>2, <1>4, <1>6 DEF Body
  <2>2. WithBody(e) = [id |-> m.id, body |-> m.body]
    BY <2>1, <1>2, <1>3, <1>6 DEF WithBody, t
  <2> QED
    BY <2>1, <2>2, <1>4 DEF Faithful, Read
<1> QED
  BY <1>1, <1>4, <1>5, <1>6 DEF m

LEMMA ReadHeaderCInv == ASSUME IInv, CInv, NEW e \in Ends, ReadHeader(e) PROVE CInv'
<1> DEFINE s == sent[Peer(e)]
           n == Len(received[e])
           m == s[n + 1]
           tmp == WithHeader(e)
<1>1. /\ Reads(e, "header") /\ wire' = Taken(e) /\ reading[e] = "header"
      /\ sock[e] = "open" /\ wire[Peer(e)] # <<>>
      /\ m_msgTemporaryIn' = [m_msgTemporaryIn EXCEPT ![e] = tmp]
      /\ IF tmp.id \in Bodied THEN Await(e, "body") /\ UNCHANGED <<received, inbox>>
                              ELSE Push(e, tmp)
      /\ UNCHANGED <<sock, posted, m_qMessagesOut, writes, handshake, listed, sent>>
  BY DEF ReadHeader, Reads, WithHeader
<1>2. /\ n \in Nat /\ n < Len(s)
      /\ Flow(s, posted[Peer(e)], m_qMessagesOut[Peer(e)], ChainOps(writes[Peer(e)]),
              sock[Peer(e)], Tail(wire[Peer(e)]), Succ(s, Cursor(e)))
  BY <1>1, NextWord
<1>3. /\ (HasBody(m) <=> m.id \in Bodied) /\ tmp \in Read /\ tmp.id = m.id
      /\ ~HasBody(m) => Faithful(tmp) = m
  BY <1>1, NextMessage
<1>4. m_msgTemporaryIn'[e] = tmp
      /\ \A d \in Ends : d # e => m_msgTemporaryIn'[d] = m_msgTemporaryIn[d]
  BY <1>1 DEF IInv, TypeOK
<1>5. Cursor(e) = Pos(n + 1, "header")
  BY <1>1 DEF Cursor
<1> HIDE DEF tmp
<1>6. CASE tmp.id \in Bodied
  <2>1. /\ reading' = [reading EXCEPT ![e] = "body"] /\ received' = received
    BY <1>1, <1>6 DEF Await
  <2>2. reading'[e] = "body" /\ \A d \in Ends : d # e => reading'[d] = reading[d]
    BY <2>1 DEF IInv, TypeOK
  <2>3. Succ(s, Cursor(e)) = Pos(n + 1, "body")
    BY <1>3, <1>5, <1>6 DEF Succ, Pos
  <2>4. Cursor(e)' = Pos(n + 1, "body")
    BY <2>1, <2>2 DEF Cursor
  <2>5. InFlightNext(Peer(e), Tail(wire[Peer(e)]))
    BY <2>3, <2>4, <1>1, <1>2, PeerOK DEF InFlightNext
  <2>6. DeliveredTo(e)'
    <3>1. DeliveredTo(e)' <=> Delivered(received[e], s, "body", tmp)
      BY <2>1, <2>2, <1>1, <1>4 DEF DeliveredTo, Delivered, Faithful, Message
    <3>2. n <= Len(s) /\ \A j \in 1 .. n : Faithful(received[e][j]) = s[j]
      BY PeerOK DEF CInv, DeliveredTo, Delivered
    <3> QED
      BY <3>1, <3>2, <1>2, <1>3, <1>6 DEF Delivered
  <2> QED
    BY <2>1, <2>2, <2>5, <2>6, <1>1, <1>4, ReadingCInv
<1>7. CASE tmp.id \notin Bodied
  <2>1. /\ reading' = [reading EXCEPT ![e] = "header"]
        /\ received' = [received EXCEPT ![e] = Append(@, tmp)]
    BY <1>1, <1>7 DEF Push, Await
  <2>2. /\ reading'[e] = "header" /\ received'[e] = Append(received[e], tmp)
        /\ \A d \in Ends : d # e => reading'[d] = reading[d] /\ received'[d] = received[d]
    BY <2>1 DEF IInv, TypeOK
  <2>3. Succ(s, Cursor(e)) = Pos(n + 2, "header")
    <3>1. Succ(s, Cursor(e)) = Pos(n + 1 + 1, "header") /\ n + 1 + 1 = n + 2
      BY <1>2, <1>3, <1>5, <1>7 DEF Succ, Pos
    <3> QED
      BY <3>1
  <2>4. DeliveredTo(e)' /\ Cursor(e)' = Pos(n + 2, "header")
    BY <2>2, <1>1, <1>2, <1>3, <1>7, PushDelivers
  <2>5. InFlightNext(Peer(e), Tail(wire[Peer(e)]))
    BY <2>3, <2>4, <1>1, <1>2, PeerOK DEF InFlightNext
  <2> QED
    BY <2>2, <2>4, <2>5, <1>1, <1>4, ReadingCInv
<1> QED
  BY <1>6, <1>7

LEMMA ReadBodyCInv == ASSUME IInv, CInv, NEW e \in Ends, ReadBody(e) PROVE CInv'
<1> DEFINE s == sent[Peer(e)]
           n == Len(received[e])
           m == s[n + 1]
           tmp == WithBody(e)
<1>1. /\ Reads(e, "body") /\ wire' = Taken(e) /\ reading[e] = "body"
      /\ sock[e] = "open" /\ wire[Peer(e)] # <<>>
      /\ m_msgTemporaryIn' = [m_msgTemporaryIn EXCEPT ![e] = tmp]
      /\ reading' = [reading EXCEPT ![e] = "header"]
      /\ received' = [received EXCEPT ![e] = Append(@, tmp)]
      /\ UNCHANGED <<sock, posted, m_qMessagesOut, writes, handshake, listed, sent>>
  BY DEF ReadBody, Reads, WithBody, Push, Await
<1>2. /\ n \in Nat /\ n < Len(s)
      /\ Flow(s, posted[Peer(e)], m_qMessagesOut[Peer(e)], ChainOps(writes[Peer(e)]),
              sock[Peer(e)], Tail(wire[Peer(e)]), Succ(s, Cursor(e)))
  BY <1>1, NextWord
<1>3. tmp \in Read /\ Faithful(tmp) = m
  BY <1>1, NextMessage
<1> HIDE DEF tmp
<1>4. /\ reading'[e] = "header" /\ received'[e] = Append(received[e], tmp)
      /\ \A d \in Ends : d # e => /\ reading'[d] = reading[d] /\ received'[d] = received[d]
                                 /\ m_msgTemporaryIn'[d] = m_msgTemporaryIn[d]
  BY <1>1 DEF IInv, TypeOK
<1>5. Succ(s, Cursor(e)) = Pos(n + 2, "header")
  <2>1. Succ(s, Cursor(e)) = Pos(n + 1 + 1, "header") /\ n + 1 + 1 = n + 2
    BY <1>1, <1>2 DEF Cursor, Succ, Pos
  <2> QED
    BY <2>1
<1>6. DeliveredTo(e)' /\ Cursor(e)' = Pos(n + 2, "header")
  BY <1>1, <1>2, <1>3, <1>4, PushDelivers
<1>7. InFlightNext(Peer(e), Tail(wire[Peer(e)]))
  BY <1>1, <1>2, <1>5, <1>6, PeerOK DEF InFlightNext
<1> QED
  BY <1>1, <1>4, <1>6, <1>7, ReadingCInv

-----------------------------------------------------------------------------
(* The invariant holds.                                                    *)

LEMMA FlowInit ==
  ASSUME NEW so PROVE Flow(<<>>, <<>>, <<>>, {}, so, <<>>, Pos(1, "header"))
<1> DEFINE ps == <<Pos(1, "header")>>
<1>1. Pos(1, "header") \in Positions
  BY DEF Pos, Positions
<1>2. ps \in Seq(Positions) /\ Len(ps) = 1 /\ ps[1] = Pos(1, "header")
  BY <1>1
<1> HIDE DEF ps
<1>3. Len(<<>>) = 0 /\ 0 + 1 = 1 /\ 1 .. 0 = {}
  OBVIOUS
<1>4. Queued(<<>>, <<>>, <<>>, so, 0)
  BY <1>3 DEF Queued
<1>5. Track(<<>>, <<>>, ps)
  BY <1>2, <1>3 DEF Track
<1>6. WriterAt(<<>>, {}, so, 0, ps[Len(<<>>) + 1])
  BY <1>2, <1>3 DEF WriterAt
<1>7. 0 \in Nat
  OBVIOUS
<1> QED
  BY <1>2, <1>4, <1>5, <1>6, <1>7 DEF Flow

LEMMA InitCInv == Init => CInv
<1> SUFFICES ASSUME Init PROVE CInv
  OBVIOUS
<1>1. \A e \in Ends : /\ sent[e] = <<>> /\ posted[e] = <<>> /\ m_qMessagesOut[e] = <<>>
                      /\ writes[e] = <<>> /\ wire[e] = <<>> /\ received[e] = <<>>
                      /\ reading[e] \in {"none", "connect"}
  BY EndsOK DEF Init, Ends
<1>2. ChainOps(<<>>) = {} /\ Validations(<<>>) = {}
  BY ChainEmpty DEF ChainOps, Validations
<1>3. ASSUME NEW e \in Ends PROVE InFlight(e, <<>>)
  <2>1. Peer(e) \in Ends /\ reading[Peer(e)] # "body"
    BY <1>1, PeerOK
  <2>2. Cursor(Peer(e)) = Pos(1, "header")
    <3>1. Len(<<>>) + 1 = 1
      OBVIOUS
    <3> QED
      BY <2>1, <3>1, <1>1 DEF Cursor
  <2> QED
    BY <2>2, <1>1, <1>2, FlowInit DEF InFlight
<1>4. FlowToClient /\ FlowToServer
  BY <1>1, <1>3, EndsOK DEF FlowToClient, FlowToServer, Unread
<1>5. Unanswered /\ AnsweredOnce
  BY <1>1, <1>2, EndsOK DEF Init, Unanswered, AnsweredOnce, Early
<1>6. ASSUME NEW e \in Ends PROVE DeliveredTo(e)
  <2>1. received[e] = <<>> /\ sent[Peer(e)] = <<>> /\ reading[e] # "body"
    BY <1>1, PeerOK
  <2>2. Len(<<>>) = 0 /\ 1 .. 0 = {} /\ 0 <= 0
    OBVIOUS
  <2> QED
    BY <2>1, <2>2 DEF DeliveredTo, Delivered
<1> QED
  BY <1>4, <1>5, <1>6, EndsOK DEF CInv

LEMMA NextCInv == IInv /\ CInv /\ [Next]_vars => CInv'
<1> SUFFICES ASSUME IInv, CInv, [Next]_vars PROVE CInv'
  OBVIOUS
<1>1. CASE Establish
  BY <1>1, EstablishCInv
<1>2. CASE Accept
  BY <1>2, AcceptCInv
<1>3. ASSUME NEW e \in Ends, Send(e) PROVE CInv'
  BY <1>3, SendCInv
<1>4. ASSUME NEW e \in Ends, Asio(e) PROVE CInv'
  BY <1>4, RunPostedCInv, WriteDoneCInv, ReadValidationServerCInv, ConnectDoneCInv,
     ReadValidationClientCInv, ReadHeaderCInv, ReadBodyCInv, ReadFailCInv DEF Asio
<1>5. CASE GameLoop \/ UNCHANGED vars
  BY <1>5, GameLoopCInv
<1>6. CASE Leave
  BY <1>6, LeaveCInv
<1> QED
  BY <1>1, <1>2, <1>3, <1>4, <1>5, <1>6 DEF Next

LEMMA ChannelInvariance == Spec => [](IInv /\ CInv)
<1>1. Init => IInv /\ CInv
  BY InitIInv, InitCInv
<1>2. (IInv /\ CInv) /\ [Next]_vars => (IInv /\ CInv)'
  BY NextIInv, NextCInv
<1> QED
  BY <1>1, <1>2, PTL DEF Spec

-----------------------------------------------------------------------------
(* The theorems.                                                           *)

\* The words fall on the reads that expect them (spiderNet.h:306-440): whatever
\* is written while the handshake is under way, and however many handlers the
\* messages take, neither end ever loses the boundary of a message.
THEOREM StaysInStep == Spec => []InStep
<1>1. IInv /\ CInv => InStep
  <2> SUFFICES ASSUME IInv, CInv, NEW e \in Ends, NEW what \in {"validation", "header", "body"},
                      Reads(e, what), ~(e = "server" /\ what = "validation")
               PROVE  Word(e).k = (IF what = "validation" THEN "challenge" ELSE what)
    BY DEF InStep
  <2>1. CASE what = "validation"
    <3>1. e = "client" /\ reading["client"] = "validation" /\ wire["server"] # <<>>
      BY <2>1, PeerOK DEF Reads
    <3>2. Word(e) = Challenge
      BY <3>1, PeerOK DEF IInv, Unaccepted, FirstWord, Word
    <3> QED
      BY <2>1, <3>2 DEF Challenge
  <2>2. CASE what # "validation"
    <3>1. /\ reading[e] = what /\ what \in {"header", "body"} /\ sock[e] = "open"
          /\ wire[Peer(e)] # <<>>
      BY <2>2 DEF Reads
    <3> DEFINE m == sent[Peer(e)][Len(received[e]) + 1]
    <3>2. what = "header" => Word(e) = Header(m)
      BY <3>1, NextWord
    <3>3. what = "body" => Word(e) = Body(m)
      BY <3>1, NextWord
    <3> QED
      BY <2>2, <3>1, <3>2, <3>3 DEF Header, Body
  <2> QED
    BY <2>1, <2>2
<1> QED
  BY <1>1, ChannelInvariance, PTL

\* A step sends one message, delivers the next one, or does neither.
LEMMA DirectionStep ==
  ASSUME IInv, CInv, [Next]_vars, NEW e \in Ends
  PROVE  \/ sent'[Peer(e)] = sent[Peer(e)] /\ received'[e] = received[e]
         \/ /\ \E m \in Messages : sent'[Peer(e)] = Append(sent[Peer(e)], m)
            /\ received'[e] = received[e]
         \/ /\ \E tmp \in Read :
                 /\ received'[e] = Append(received[e], tmp)
                 /\ Faithful(tmp) = sent[Peer(e)][Len(received[e]) + 1]
            /\ Len(received[e]) < Len(sent[Peer(e)])
            /\ sent'[Peer(e)] = sent[Peer(e)]
<1>1. Peer(e) \in Ends
  BY PeerOK
<1>2. ASSUME NEW d \in Ends, NEW m \in Messages, Post(d, m), received' = received
      PROVE  /\ received'[e] = received[e]
             /\ \/ sent'[Peer(e)] = sent[Peer(e)]
                \/ sent'[Peer(e)] = Append(sent[Peer(e)], m)
  BY <1>1, <1>2 DEF Post, IInv, TypeOK
<1>3. CASE Accept
  <2>1. Message(ServerAccept) \in Messages
    BY MessageTypes DEF Untold
  <2> QED
    BY <2>1, <1>2, <1>3, EndsOK DEF Accept
<1>4. ASSUME NEW d \in Ends, Send(d)
      PROVE  /\ received'[e] = received[e]
             /\ \/ sent'[Peer(e)] = sent[Peer(e)]
                \/ \E m \in Messages : sent'[Peer(e)] = Append(sent[Peer(e)], m)
  BY <1>2, <1>4 DEF Send
<1>5. CASE ReadValidationServer
  BY <1>2, <1>5, MessageTypes, EndsOK DEF ReadValidationServer
<1>6. ASSUME NEW d \in Ends, NEW tmp \in Read, Push(d, tmp), sent' = sent,
             Len(received[d]) < Len(sent[Peer(d)]),
             Faithful(tmp) = sent[Peer(d)][Len(received[d]) + 1]
      PROVE  /\ sent'[Peer(e)] = sent[Peer(e)]
             /\ \/ received'[e] = received[e]
                \/ /\ received'[e] = Append(received[e], tmp) /\ Len(received[e]) < Len(sent[Peer(e)])
                   /\ Faithful(tmp) = sent[Peer(e)][Len(received[e]) + 1]
  BY <1>6 DEF Push, IInv, TypeOK
<1>7. ASSUME NEW d \in Ends, ReadHeader(d)
      PROVE  \/ received' = received /\ sent' = sent
             \/ \E tmp \in Read : /\ Push(d, tmp) /\ sent' = sent
                                  /\ Len(received[d]) < Len(sent[Peer(d)])
                                  /\ Faithful(tmp) = sent[Peer(d)][Len(received[d]) + 1]
  <2>1. /\ Reads(d, "header") /\ reading[d] = "header" /\ sock[d] = "open"
        /\ wire[Peer(d)] # <<>> /\ sent' = sent
        /\ IF WithHeader(d).id \in Bodied THEN received' = received ELSE Push(d, WithHeader(d))
    BY <1>7 DEF ReadHeader, Reads, WithHeader
  <2>2. Len(received[d]) < Len(sent[Peer(d)])
    BY <2>1, NextWord
  <2>3. /\ WithHeader(d) \in Read
        /\ WithHeader(d).id \notin Bodied
             => Faithful(WithHeader(d)) = sent[Peer(d)][Len(received[d]) + 1]
    BY <2>1, NextMessage
  <2> QED
    BY <2>1, <2>2, <2>3
<1>8. ASSUME NEW d \in Ends, ReadBody(d)
      PROVE  \E tmp \in Read : /\ Push(d, tmp) /\ sent' = sent
                               /\ Len(received[d]) < Len(sent[Peer(d)])
                               /\ Faithful(tmp) = sent[Peer(d)][Len(received[d]) + 1]
  <2>1. /\ Reads(d, "body") /\ reading[d] = "body" /\ sock[d] = "open"
        /\ wire[Peer(d)] # <<>> /\ sent' = sent /\ Push(d, WithBody(d))
    BY <1>8 DEF ReadBody, Reads, WithBody
  <2>2. Len(received[d]) < Len(sent[Peer(d)])
    BY <2>1, NextWord
  <2>3. /\ WithBody(d) \in Read
        /\ Faithful(WithBody(d)) = sent[Peer(d)][Len(received[d]) + 1]
    BY <2>1, NextMessage
  <2> QED
    BY <2>1, <2>2, <2>3
<1>9. ASSUME NEW d \in Ends, RunPosted(d) \/ WriteDone(d) \/ ReadFail(d)
      PROVE  sent' = sent /\ received' = received
  BY <1>9 DEF RunPosted, WriteDone, ReadFail
<1>10. CASE Establish \/ ConnectDone \/ ReadValidationClient \/ GameLoop \/ Leave
            \/ UNCHANGED vars
  <2>1. sent' = sent /\ received' = received
    BY <1>10 DEF Establish, ConnectDone, ReadValidationClient, GameLoop, Handle, Forget,
                 Leave, vars
  <2> QED
    BY <2>1
<1> QED
  BY <1>3, <1>4, <1>5, <1>6, <1>7, <1>8, <1>9, <1>10 DEF Next, Asio

\* What was delivered, as the channel has it.
LEMMA GotOK ==
  ASSUME IInv, NEW e \in Ends
  PROVE  /\ Len(Got(e)) = Len(received[e])
         /\ received'[e] = received[e] => Got(e)' = Got(e)
         /\ \A tmp \in Read : received'[e] = Append(received[e], tmp)
              => Got(e)' = Append(Got(e), Faithful(tmp))
<1> DEFINE r == received[e]
           n == Len(r)
           g == [j \in 1 .. n |-> Faithful(r[j])]
<1>1. r \in Seq(Read) /\ n \in Nat /\ DOMAIN r = 1 .. n
  <2>1. r \in Seq(Read)
    BY DirectionOK
  <2> QED
    BY <2>1
<1>2. Got(e) = g
  BY <1>1 DEF Got
<1>3. g \in Seq({Faithful(r[j]) : j \in 1 .. n}) /\ Len(g) = n
  BY <1>1
<1>4. ASSUME received'[e] = received[e] PROVE Got(e)' = Got(e)
  BY <1>4 DEF Got, Faithful, Message
<1>5. ASSUME NEW tmp \in Read, received'[e] = Append(r, tmp)
      PROVE  Got(e)' = Append(Got(e), Faithful(tmp))
  <2> DEFINE v == Append(r, tmp)
  <2>1. /\ v \in Seq(Read) /\ Len(v) = n + 1 /\ DOMAIN v = 1 .. n + 1 /\ v[n + 1] = tmp
        /\ \A j \in 1 .. n : v[j] = r[j]
    BY <1>1
  <2>2. Got(e)' = [j \in DOMAIN v |-> Faithful(v[j])]
    BY <1>5 DEF Got, Faithful, Message
  <2> HIDE DEF v
  <2>3. Got(e)' = [j \in 1 .. n + 1 |-> IF j = n + 1 THEN Faithful(tmp) ELSE Faithful(r[j])]
    <3>1. \A j \in 1 .. n + 1 : j # n + 1 => j \in 1 .. n
      BY <1>1
    <3> QED
      BY <3>1, <2>1, <2>2
  <2>4. Append(g, Faithful(tmp))
          = [j \in 1 .. n + 1 |-> IF j = n + 1 THEN Faithful(tmp) ELSE g[j]]
    BY <1>1, <1>3
  <2>5. \A j \in 1 .. n + 1 : j # n + 1 => g[j] = Faithful(r[j])
    BY <1>1
  <2> QED
    BY <2>3, <2>4, <2>5, <1>2
<1> QED
  BY <1>1, <1>2, <1>3, <1>4, <1>5

\* What an end pushes to its owner's queue is what the other one was given to
\* Send, in order and once each (spiderNet.h:214-390), whatever else the two
\* threads of either end do meanwhile and wherever a socket closes.
THEOREM ServerChannel == Spec => ServerReceivesWhatWasSent
<1>1. Init => ToServer!ChannelInit
  <2> SUFFICES ASSUME Init PROVE sent["client"] = <<>> /\ Got("server") = <<>>
    BY DEF ToServer!ChannelInit
  <2>1. sent["client"] = <<>> /\ received["server"] = <<>>
    BY EndsOK DEF Init
  <2>2. Got("server") = [j \in DOMAIN <<>> |-> Faithful(<<>>[j])]
    BY <2>1 DEF Got
  <2> QED
    BY <2>1, <2>2
<1>2. IInv /\ CInv /\ [Next]_vars =>
        [ToServer!ChannelSend \/ ToServer!ChannelDeliver]_<<sent["client"], Got("server")>>
  <2> SUFFICES ASSUME IInv, CInv, [Next]_vars
               PROVE  [ToServer!ChannelSend \/ ToServer!ChannelDeliver]_<<sent["client"], Got("server")>>
    OBVIOUS
  <2>1. Peer("server") = "client"
    BY PeerOK
  <2>2. CASE sent'["client"] = sent["client"] /\ received'["server"] = received["server"]
    BY <2>2, EndsOK, GotOK
  <2>3. ASSUME NEW m \in Messages, sent'["client"] = Append(sent["client"], m),
               received'["server"] = received["server"]
        PROVE  ToServer!ChannelSend
    BY <2>3, EndsOK, GotOK DEF ToServer!ChannelSend
  <2>4. ASSUME NEW tmp \in Read, received'["server"] = Append(received["server"], tmp),
               Faithful(tmp) = sent["client"][Len(received["server"]) + 1],
               Len(received["server"]) < Len(sent["client"]), sent'["client"] = sent["client"]
        PROVE  ToServer!ChannelDeliver
    BY <2>4, EndsOK, GotOK DEF ToServer!ChannelDeliver
  <2> QED
    BY <2>1, <2>2, <2>3, <2>4, EndsOK, DirectionStep
<1> QED
  BY <1>1, <1>2, ChannelInvariance, PTL DEF Spec, ServerReceivesWhatWasSent, ToServer!ChannelSpec

\* The same of the server's messages, the two it sends by itself among them.
THEOREM ClientChannel == Spec => ClientReceivesWhatWasSent
<1>1. Init => ToClient!ChannelInit
  <2> SUFFICES ASSUME Init PROVE sent["server"] = <<>> /\ Got("client") = <<>>
    BY DEF ToClient!ChannelInit
  <2>1. sent["server"] = <<>> /\ received["client"] = <<>>
    BY EndsOK DEF Init
  <2>2. Got("client") = [j \in DOMAIN <<>> |-> Faithful(<<>>[j])]
    BY <2>1 DEF Got
  <2> QED
    BY <2>1, <2>2
<1>2. IInv /\ CInv /\ [Next]_vars =>
        [ToClient!ChannelSend \/ ToClient!ChannelDeliver]_<<sent["server"], Got("client")>>
  <2> SUFFICES ASSUME IInv, CInv, [Next]_vars
               PROVE  [ToClient!ChannelSend \/ ToClient!ChannelDeliver]_<<sent["server"], Got("client")>>
    OBVIOUS
  <2>1. Peer("client") = "server"
    BY PeerOK
  <2>2. CASE sent'["server"] = sent["server"] /\ received'["client"] = received["client"]
    BY <2>2, EndsOK, GotOK
  <2>3. ASSUME NEW m \in Messages, sent'["server"] = Append(sent["server"], m),
               received'["client"] = received["client"]
        PROVE  ToClient!ChannelSend
    BY <2>3, EndsOK, GotOK DEF ToClient!ChannelSend
  <2>4. ASSUME NEW tmp \in Read, received'["client"] = Append(received["client"], tmp),
               Faithful(tmp) = sent["server"][Len(received["client"]) + 1],
               Len(received["client"]) < Len(sent["server"]), sent'["server"] = sent["server"]
        PROVE  ToClient!ChannelDeliver
    BY <2>4, EndsOK, GotOK DEF ToClient!ChannelDeliver
  <2> QED
    BY <2>1, <2>2, <2>3, <2>4, EndsOK, DirectionStep
<1> QED
  BY <1>1, <1>2, ChannelInvariance, PTL DEF Spec, ClientReceivesWhatWasSent, ToClient!ChannelSpec
=============================================================================
