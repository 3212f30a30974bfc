-------------------------- MODULE GameServerProofs --------------------------
(***************************************************************************)
(* Type correctness of GameServer, and who may spend actions, for any      *)
(* number of clients, any turn length and any stack depth.                 *)
(*                                                                         *)
(* The types of the variables are not inductive by themselves: what a      *)
(* record may be at a label, and where on the stack a label may occur, has *)
(* to be known as well.  StackOK says it; g is the length of GarbageIDs.   *)
(***************************************************************************)
EXTENDS GameServer, SequenceTheorems, WellFoundedInduction, TLAPS

RunLabels == {"run", "wait", "update"}
MessageLabels ==
    {"on_message", "done", "send_world", "send_new", "send_others", "first_turn",
     "acted", "end_turn", "next_turn", "ClientRegisterOnServer", "ClientJustCheck",
     "ServerGamePlayerActionApprove", "MessageAll"}
ClientLabels == {"client", "client_erase", "disconnect", "forget"}

\* What a record holds at its label.
RecordOK(r) ==
    /\ r \in Records
    /\ r.pc \in MessageLabels \cup ClientLabels => r.c \in Clients
    /\ r.pc = "all_reset" => r.i \in Clients
    /\ r.pc = "on_message" => r.m \in ClientMessages /\ r.i > 0

\* Run and Update are at the bottom, one OnMessage at most is above them, and
\* its loop over GarbageIDs ends within the vector.
StackOK(s, g) ==
    /\ s \in Seq({r \in Records : RecordOK(r)}) /\ Len(s) \in 1 .. MaxDepth
    /\ \A k \in 1 .. Len(s) :
         /\ s[k].pc \in RunLabels <=> k = Len(s)
         /\ s[k].pc \in MessageLabels => k = Len(s) - 1
         /\ s[k].pc = "on_message" => s[k].n <= g

IInv == /\ NetTypeOK /\ GameTypeOK /\ ToldTypeOK /\ fault \in Faults
        /\ StackOK(stack, Len(GarbageIDs))

\* f may take the place of r on the stack.
SameLevel(f, r) ==
    /\ f.pc \in RunLabels <=> r.pc \in RunLabels
    /\ f.pc \in MessageLabels => r.pc \in MessageLabels

-----------------------------------------------------------------------------
(* Stacks.                                                                 *)

\* The running record is the first of the stack and is as StackOK says.
LEMMA TopOK ==
    ASSUME NEW s, NEW g, StackOK(s, g)
    PROVE  /\ Head(s) = s[1] /\ Len(s) \in Nat \ {0}
           /\ RecordOK(Head(s)) /\ Head(s).pc \in Labels
           /\ Head(s).pc \in RunLabels <=> Len(s) = 1
           /\ Head(s).pc \in MessageLabels => Len(s) = 2
           /\ Head(s).pc = "on_message" => Head(s).n <= g
<1> DEFINE R == {r \in Records : RecordOK(r)}
<1>1. s \in Seq(R) /\ Len(s) \in Nat \ {0} /\ 1 \in 1 .. Len(s)
  BY DepthAssumption DEF StackOK
<1>2. Head(s) = s[1]
  BY <1>1
<1>3. s[1] \in R
  BY <1>1, ElementOfSeq
<1>4. s[1].pc \in Labels
  BY <1>3 DEF Records
<1>5. /\ s[1].pc \in RunLabels <=> 1 = Len(s)
      /\ s[1].pc \in MessageLabels => 1 = Len(s) - 1
      /\ s[1].pc = "on_message" => s[1].n <= g
  BY <1>1 DEF StackOK
<1> QED BY <1>1, <1>2, <1>3, <1>4, <1>5

\* The records u in the place of the running one.
Over(R, s, u) ==
    /\ u \o Tail(s) \in Seq(R)
    /\ Len(u \o Tail(s)) = Len(u) + Len(s) - 1
    /\ \A k \in 1 .. Len(u) : (u \o Tail(s))[k] = u[k]
    /\ \A k \in 2 .. Len(s) : (u \o Tail(s))[Len(u) + k - 1] = s[k]

LEMMA OverTail ==
    ASSUME NEW R, NEW s \in Seq(R), Len(s) \in Nat \ {0}, NEW u \in Seq(R)
    PROVE  Over(R, s, u)
<1>1. s # <<>> /\ Len(u) \in Nat
  OBVIOUS
<1>2. /\ Tail(s) \in Seq(R) /\ Len(Tail(s)) = Len(s) - 1
      /\ \A k \in 1 .. Len(s) - 1 : Tail(s)[k] = s[k + 1]
  <2>1. /\ Tail(s) \in Seq(R) /\ Len(Tail(s)) = Len(s) - 1
        /\ \A k \in 1 .. Len(Tail(s)) : Tail(s)[k] = s[k + 1]
    BY <1>1, HeadTailProperties
  <2> QED BY <2>1
<1>3. /\ u \o Tail(s) \in Seq(R)
      /\ Len(u \o Tail(s)) = Len(u) + Len(s) - 1
      /\ \A k \in 1 .. Len(u) + Len(s) - 1 :
           (u \o Tail(s))[k] = IF k <= Len(u) THEN u[k] ELSE Tail(s)[k - Len(u)]
  <2>1. /\ u \o Tail(s) \in Seq(R)
        /\ Len(u \o Tail(s)) = Len(u) + Len(Tail(s))
        /\ \A k \in 1 .. Len(u) + Len(Tail(s)) :
             (u \o Tail(s))[k] = IF k <= Len(u) THEN u[k] ELSE Tail(s)[k - Len(u)]
    BY <1>2, ConcatProperties
  <2>2. Len(u) + Len(Tail(s)) = Len(u) + Len(s) - 1
    BY <1>1, <1>2
  <2> QED BY <2>1, <2>2
<1>4. ASSUME NEW k \in 1 .. Len(u) PROVE (u \o Tail(s))[k] = u[k]
  <2>1. k \in 1 .. Len(u) + Len(s) - 1 /\ k <= Len(u)
    BY <1>1
  <2> QED BY <2>1, <1>3
<1>5. ASSUME NEW k \in 2 .. Len(s) PROVE (u \o Tail(s))[Len(u) + k - 1] = s[k]
  <2>1. /\ Len(u) + k - 1 \in 1 .. Len(u) + Len(s) - 1 /\ ~(Len(u) + k - 1 <= Len(u))
        /\ Len(u) + k - 1 - Len(u) = k - 1 /\ k - 1 \in 1 .. Len(s) - 1 /\ k - 1 + 1 = k
    BY <1>1
  <2>2. (u \o Tail(s))[Len(u) + k - 1] = Tail(s)[k - 1]
    BY <2>1, <1>3
  <2> QED BY <2>1, <2>2, <1>2
<1> QED BY <1>3, <1>4, <1>5 DEF Over

\* Replacing the running record.
LEMMA ReplaceOK ==
    ASSUME NEW s, NEW g \in Nat, StackOK(s, g), NEW f, RecordOK(f),
           SameLevel(f, Head(s)), f.pc = "on_message" => f.n <= g
    PROVE  StackOK(<<f>> \o Tail(s), g)
<1> DEFINE R == {r \in Records : RecordOK(r)}
           t == <<f>> \o Tail(s)
<1>1. s \in Seq(R) /\ Len(s) \in Nat \ {0} /\ Len(s) <= MaxDepth
  BY DepthAssumption DEF StackOK
<1>2. f \in R
  BY DEF RecordOK
<1> DEFINE u == <<f>>
<1>3. u \in Seq(R) /\ Len(u) = 1 /\ u[1] = f
  BY <1>2
<1>4. /\ t \in Seq(R) /\ Len(t) = Len(s) /\ t[1] = f
      /\ \A k \in 2 .. Len(s) : t[k] = s[k]
  <2> HIDE DEF u, R
  <2>1. /\ u \o Tail(s) \in Seq(R) /\ Len(u \o Tail(s)) = 1 + Len(s) - 1
        /\ \A k \in 1 .. 1 : (u \o Tail(s))[k] = u[k]
        /\ \A k \in 2 .. Len(s) : (u \o Tail(s))[1 + k - 1] = s[k]
    <3>1. Over(R, s, u)
      BY <1>1, <1>3, OverTail
    <3> QED BY <3>1, <1>3 DEF Over
  <2>2. \A k \in 2 .. Len(s) : 1 + k - 1 = k
    BY <1>1
  <2>3. 1 + Len(s) - 1 = Len(s) /\ 1 \in 1 .. 1
    BY <1>1
  <2>4. (u \o Tail(s)) [1] = f
    BY <2>1, <2>3, <1>3
  <2> QED BY <2>1, <2>2, <2>3, <2>4 DEF u
<1> HIDE DEF t, u, R
<1>5. ASSUME NEW k \in 1 .. Len(t)
      PROVE  /\ t[k].pc \in RunLabels <=> k = Len(t)
             /\ t[k].pc \in MessageLabels => k = Len(t) - 1
             /\ t[k].pc = "on_message" => t[k].n <= g
  <2>1. CASE k = 1
    <3>1. /\ Head(s).pc \in RunLabels <=> Len(s) = 1
          /\ Head(s).pc \in MessageLabels => Len(s) = 2
      BY TopOK
    <3> QED BY <3>1, <2>1, <1>1, <1>4 DEF SameLevel
  <2>2. CASE k # 1
    <3>1. t[k] = s[k] /\ k \in 1 .. Len(s)
      BY <2>2, <1>1, <1>4
    <3> QED BY <3>1, <1>4 DEF StackOK
  <2> QED BY <2>1, <2>2
<1>6. StackOK(t, g)
  BY <1>1, <1>4, <1>5, DepthAssumption DEF StackOK, R
<1> QED BY <1>6 DEF t

\* Calling r, the running record going on as f.
LEMMA PushOK ==
    ASSUME NEW s, NEW g \in Nat, StackOK(s, g), Len(s) < MaxDepth,
           NEW f, RecordOK(f), SameLevel(f, Head(s)), f.pc = "on_message" => f.n <= g,
           NEW r, RecordOK(r), r.pc \notin RunLabels,
           r.pc \in MessageLabels => Head(s).pc \in RunLabels,
           r.pc = "on_message" => r.n <= g
    PROVE  StackOK(<<r, f>> \o Tail(s), g)
<1> DEFINE R == {x \in Records : RecordOK(x)}
           t == <<r, f>> \o Tail(s)
<1>1. s \in Seq(R) /\ Len(s) \in Nat \ {0} /\ Len(s) < MaxDepth
  BY DepthAssumption DEF StackOK
<1>2. f \in R /\ r \in R
  BY DEF RecordOK
<1> DEFINE u == <<r, f>>
<1>3. u \in Seq(R) /\ Len(u) = 2 /\ u[1] = r /\ u[2] = f
  BY <1>2
<1>4. /\ t \in Seq(R) /\ Len(t) = Len(s) + 1 /\ t[1] = r /\ t[2] = f
      /\ \A k \in 3 .. Len(t) : t[k] = s[k - 1]
  <2> HIDE DEF u, R
  <2>1. /\ u \o Tail(s) \in Seq(R) /\ Len(u \o Tail(s)) = 2 + Len(s) - 1
        /\ \A k \in 1 .. 2 : (u \o Tail(s))[k] = u[k]
        /\ \A k \in 2 .. Len(s) : (u \o Tail(s))[2 + k - 1] = s[k]
    <3>1. Over(R, s, u)
      BY <1>1, <1>3, OverTail
    <3> QED BY <3>1, <1>3 DEF Over
  <2>2. 2 + Len(s) - 1 = Len(s) + 1 /\ 1 \in 1 .. 2 /\ 2 \in 1 .. 2
    BY <1>1
  <2>3. (u \o Tail(s))[1] = r /\ (u \o Tail(s))[2] = f
    BY <2>1, <2>2, <1>3
  <2>4. ASSUME NEW k \in 3 .. Len(s) + 1
        PROVE  (u \o Tail(s))[k] = s[k - 1]
    <3>1. k - 1 \in 2 .. Len(s) /\ 2 + (k - 1) - 1 = k
      BY <1>1
    <3> QED BY <3>1, <2>1
  <2> QED BY <2>1, <2>2, <2>3, <2>4 DEF u
<1> HIDE DEF t, u, R
<1>5. ASSUME NEW k \in 1 .. Len(t)
      PROVE  /\ t[k].pc \in RunLabels <=> k = Len(t)
             /\ t[k].pc \in MessageLabels => k = Len(t) - 1
             /\ t[k].pc = "on_message" => t[k].n <= g
  <2>1. CASE k = 1
    BY <2>1, <1>1, <1>4, TopOK
  <2>2. CASE k = 2
    <3>1. /\ Head(s).pc \in RunLabels <=> Len(s) = 1
          /\ Head(s).pc \in MessageLabels => Len(s) = 2
      BY TopOK
    <3>2. Len(s) \in Nat /\ Len(t) = Len(s) + 1 /\ k = 2
      BY <2>2, <1>1, <1>4
    <3>3. k = Len(t) <=> Len(s) = 1
      <4>1. Len(s) + 1 = 2 <=> Len(s) = 1
        BY <3>2
      <4> QED BY <4>1, <3>2
    <3>5. k = Len(t) - 1 <=> Len(s) = 2
      BY <3>2
    <3>4. t[k] = f
      BY <3>2, <1>4
    <3> QED BY <3>1, <3>3, <3>4, <3>5 DEF SameLevel
  <2>3. CASE k \notin {1, 2}
    <3>1. t[k] = s[k - 1] /\ k - 1 \in 1 .. Len(s)
      BY <2>3, <1>1, <1>4
    <3> QED BY <3>1, <1>1, <1>4 DEF StackOK
  <2> QED BY <2>1, <2>2, <2>3
<1>6. StackOK(t, g)
  BY <1>1, <1>4, <1>5, DepthAssumption DEF StackOK, R
<1> QED BY <1>6 DEF t

\* Returning from any record but the bottom one.
LEMMA PopOK ==
    ASSUME NEW s, NEW g \in Nat, StackOK(s, g), Head(s).pc \notin RunLabels
    PROVE  StackOK(Tail(s), g)
<1> DEFINE R == {r \in Records : RecordOK(r)}
           t == Tail(s)
<1>1. s \in Seq(R) /\ Len(s) \in Nat \ {0, 1} /\ Len(s) <= MaxDepth
  <2>1. Len(s) \in Nat \ {0} /\ Len(s) # 1
    BY TopOK
  <2> QED BY <2>1, DepthAssumption DEF StackOK
<1>2. t \in Seq(R) /\ Len(t) = Len(s) - 1 /\ \A k \in 1 .. Len(t) : t[k] = s[k + 1]
  <2>1. s # <<>>
    BY <1>1
  <2> HIDE DEF R
  <2> QED BY <2>1, <1>1, HeadTailProperties
<1>3. ASSUME NEW k \in 1 .. Len(t)
      PROVE  /\ t[k].pc \in RunLabels <=> k = Len(t)
             /\ t[k].pc \in MessageLabels => k = Len(t) - 1
             /\ t[k].pc = "on_message" => t[k].n <= g
  <2>1. t[k] = s[k + 1] /\ k + 1 \in 1 .. Len(s)
    BY <1>1, <1>2
  <2>2. /\ s[k + 1].pc \in RunLabels <=> k + 1 = Len(s)
        /\ s[k + 1].pc \in MessageLabels => k + 1 = Len(s) - 1
        /\ s[k + 1].pc = "on_message" => s[k + 1].n <= g
    BY <2>1 DEF StackOK
  <2>3. /\ k + 1 = Len(s) <=> k = Len(t)
        /\ k + 1 = Len(s) - 1 <=> k = Len(t) - 1
    BY <1>1, <1>2
  <2> HIDE DEF t
  <2> QED BY <2>1, <2>2, <2>3
<1>4. Len(t) \in 1 .. MaxDepth
  BY <1>1, <1>2, DepthAssumption
<1> HIDE DEF t
<1> QED BY <1>2, <1>3, <1>4 DEF StackOK

\* A longer GarbageIDs does no harm.
LEMMA GrowOK ==
    ASSUME NEW s, NEW g \in Nat, NEW h \in Nat, g <= h, StackOK(s, g)
    PROVE  StackOK(s, h)
<1>1. ASSUME NEW k \in 1 .. Len(s), s[k].pc = "on_message" PROVE s[k].n <= h
  <2>1. s[k] \in Records
    BY ElementOfSeq DEF StackOK
  <2>2. s[k].n \in Nat /\ s[k].n <= g
    BY <1>1, <2>1 DEF StackOK, Records
  <2> QED BY <2>2
<1> QED BY <1>1 DEF StackOK
-----------------------------------------------------------------------------
(* The searches of the loops.                                              *)

\* A non-empty set of numbers has a least one.
LEMMA MinOK ==
    ASSUME NEW S \in SUBSET Nat, S # {}
    PROVE  \E x \in S : \A y \in S : x <= y
<1>1. \E x \in S : \A y \in S : ~ (<<y, x>> \in OpToRel(<, Nat))
  BY NatLessThanWellFounded, WFMin
<1>2. PICK x \in S : \A y \in S : ~ (<<y, x>> \in OpToRel(<, Nat))
  BY <1>1
<1>3. ASSUME NEW y \in S PROVE x <= y
  <2>1. x \in Nat /\ y \in Nat /\ <<y, x>> \in Nat \X Nat
    OBVIOUS
  <2>2. <<y, x>> \notin OpToRel(<, Nat)
    BY <1>2
  <2>3. <<y, x>>[1] = y /\ <<y, x>>[2] = x
    OBVIOUS
  <2>4. ~(y < x)
    BY <2>1, <2>2, <2>3 DEF OpToRel
  <2> QED BY <2>1, <2>4
<1> QED BY <1>3

LEMMA LeastOK ==
    ASSUME NEW S \in SUBSET Nat, S # {}
    PROVE  Least(S) \in S /\ \A y \in S : Least(S) <= y
BY MinOK DEF Least

\* PlayersList has a first player, if any.
LEMMA FirstOK ==
    ASSUME order \in [Clients -> Clients], NEW S \in SUBSET Clients, S # {}
    PROVE  First(S) \in S
<1> DEFINE T == {order[p] : p \in S}
<1>1. T \in SUBSET Nat /\ T # {}
  <2>1. Clients \subseteq Nat
    BY SizeAssumption DEF Clients
  <2>2. \A p \in S : order[p] \in Nat
    BY <2>1
  <2> QED BY <2>2
<1>2. PICK x \in T : \A y \in T : x <= y
  BY <1>1, MinOK
<1>3. \E p \in S : \A q \in S : order[p] <= order[q]
  BY <1>2
<1> QED BY <1>3 DEF First

-----------------------------------------------------------------------------
(* Records.                                                                *)

\* The running record under IInv.
LEMMA RunningOK ==
    ASSUME IInv
    PROVE  /\ Top \in Records /\ RecordOK(Top) /\ Top.pc \in Labels
           /\ Len(GarbageIDs) \in Nat /\ StackOK(stack, Len(GarbageIDs))
           /\ Top.pc \in MessageLabels \cup ClientLabels => Top.c \in Clients
           /\ Top.pc = "all_reset" => Top.i \in Clients
           /\ Top.pc = "on_message" => Top.n <= Len(GarbageIDs)
           /\ Top.pc = "on_message" => Top.m \in ClientMessages /\ Top.i > 0
<1>1. Len(GarbageIDs) \in Nat /\ StackOK(stack, Len(GarbageIDs))
  BY DEF IInv, GameTypeOK
<1>2. /\ RecordOK(Top) /\ Top.pc \in Labels
      /\ Top.pc = "on_message" => Top.n <= Len(GarbageIDs)
  BY <1>1, TopOK DEF Top
<1> QED BY <1>1, <1>2 DEF RecordOK

\* What label a record may go on at, without a new client.
MayBecome(pc, from) ==
    /\ pc \in Labels \ {"on_message"}
    /\ pc \in RunLabels <=> from \in RunLabels
    /\ pc \in MessageLabels => from \in MessageLabels
    /\ pc \in ClientLabels => from \in ClientLabels

\* The stack is a sequence of records, and one that is up to date says where on
\* it the running one is.
LEMMA StackSeqOK ==
    ASSUME IInv
    PROVE  stack \in Seq(Records) /\ stack # <<>> /\ Len(stack) \in 1 .. MaxDepth
<1>1. /\ stack \in Seq({r \in Records : RecordOK(r)}) /\ Len(stack) \in 1 .. MaxDepth
      /\ {r \in Records : RecordOK(r)} \subseteq Records
  BY DEF IInv, StackOK
<1>2. stack \in Seq(Records)
  BY <1>1, SeqMonotonic
<1> QED BY <1>1, <1>2, DepthAssumption

LEMMA StackLevelOK ==
    ASSUME NEW s, NEW g, StackOK(s, g), s[1].pc \in MessageLabels
    PROVE  Len(s) = 2
<1>1. Len(s) \in Nat \ {0} /\ 1 \in 1 .. Len(s)
  BY DepthAssumption DEF StackOK
<1>2. 1 = Len(s) - 1
  BY <1>1 DEF StackOK
<1> QED BY <1>1, <1>2

\* The running record at another label.
LEMMA LabelOK ==
    ASSUME IInv, NEW pc, MayBecome(pc, Top.pc), pc # "all_reset"
    PROVE  /\ RecordOK(Label(pc)) /\ SameLevel(Label(pc), Top)
           /\ Label(pc).pc = pc
<1> DEFINE f == Label(pc)
<1>1. Top \in Records /\ pc \in Labels /\ RecordOK(Top)
  BY RunningOK DEF MayBecome
<1>2. f \in Records /\ f.pc = pc /\ f.c = Top.c
  BY <1>1 DEF Records, Label
<1> HIDE DEF f
<1>3. pc \in MessageLabels \cup ClientLabels => f.c \in Clients
  BY <1>1, <1>2 DEF RecordOK, MayBecome
<1>4. RecordOK(f)
  BY <1>2, <1>3 DEF RecordOK, MayBecome
<1>5. SameLevel(f, Top)
  BY <1>2 DEF SameLevel, MayBecome
<1> QED BY <1>2, <1>4, <1>5 DEF f

\* With other loop variables too.
LEMMA LabelLoopOK ==
    ASSUME IInv, NEW pc, MayBecome(pc, Top.pc), NEW i \in Nat, NEW d \in BOOLEAN,
           pc = "all_reset" => i \in Clients
    PROVE  /\ LET f == [Top EXCEPT !.pc = pc, !.i = i, !.dirty = d]
              IN  RecordOK(f) /\ SameLevel(f, Top) /\ f.pc = pc
           /\ LET f == [Top EXCEPT !.pc = pc, !.i = i]
              IN  RecordOK(f) /\ SameLevel(f, Top) /\ f.pc = pc
<1> DEFINE f == [Top EXCEPT !.pc = pc, !.i = i, !.dirty = d]
           h == [Top EXCEPT !.pc = pc, !.i = i]
<1>1. Top \in Records /\ pc \in Labels /\ RecordOK(Top)
  BY RunningOK DEF MayBecome
<1>2. /\ f \in Records /\ f.pc = pc /\ f.c = Top.c /\ f.i = i
      /\ h \in Records /\ h.pc = pc /\ h.c = Top.c /\ h.i = i
  BY <1>1 DEF Records
<1> HIDE DEF f, h
<1>3. pc \in MessageLabels \cup ClientLabels => Top.c \in Clients
  BY <1>1 DEF RecordOK, MayBecome
<1>4. RecordOK(f) /\ RecordOK(h)
  BY <1>2, <1>3 DEF RecordOK, MayBecome
<1>5. SameLevel(f, Top) /\ SameLevel(h, Top)
  BY <1>2 DEF SameLevel, MayBecome
<1> QED BY <1>2, <1>4, <1>5 DEF f, h

\* A loop going on.
LEMMA AdvanceOK ==
    ASSUME IInv, Top.pc # "all_reset", NEW i \in Nat, Top.pc = "on_message" => i > 0
    PROVE  LET f == [Top EXCEPT !.i = i]
           IN  /\ RecordOK(f) /\ SameLevel(f, Top)
               /\ f.pc = "on_message" => f.n <= Len(GarbageIDs)
<1> DEFINE f == [Top EXCEPT !.i = i]
<1>1. /\ Top \in Records /\ RecordOK(Top)
      /\ Top.pc = "on_message" => Top.n <= Len(GarbageIDs)
  BY RunningOK
<1>2. f \in Records /\ f.pc = Top.pc /\ f.c = Top.c /\ f.m = Top.m /\ f.n = Top.n
      /\ f.i = i
  BY <1>1 DEF Records
<1> HIDE DEF f
<1>3. RecordOK(f)
  BY <1>1, <1>2 DEF RecordOK
<1>4. SameLevel(f, Top) /\ (f.pc = "on_message" => f.n <= Len(GarbageIDs))
  BY <1>1, <1>2 DEF SameLevel
<1> QED BY <1>3, <1>4 DEF f

\* The records of calls.
LEMMA NewRecordOK ==
    ASSUME NEW pc \in Labels, NEW c \in 0 .. N, NEW m \in Messages, NEW n \in Nat,
           pc \in MessageLabels \cup ClientLabels => c \in Clients,
           pc = "on_message" => m \in ClientMessages,
           pc # "all_reset"
    PROVE  LET r == Record(pc, c, m, n)
           IN  RecordOK(r) /\ r.pc = pc /\ r.n = n
BY DEF Record, RecordOK, Records

-----------------------------------------------------------------------------
(* What the ways to go on do to the stack.                                 *)

Control == fault \in Faults /\ StackOK(stack, Len(GarbageIDs))

LEMMA CrashOK ==
    ASSUME IInv, UNCHANGED GarbageIDs, NEW how \in Faults, Crash(how)
    PROVE  Control'
BY DEF IInv, Crash, Control

LEMMA ContinueOK ==
    ASSUME IInv, UNCHANGED GarbageIDs, NEW f, RecordOK(f), SameLevel(f, Top),
           f.pc = "on_message" => f.n <= Len(GarbageIDs),
           Continue(f)
    PROVE  Control'
<1>1. StackOK(<<f>> \o Tail(stack), Len(GarbageIDs))
  BY RunningOK, ReplaceOK DEF Top
<1> QED BY <1>1 DEF IInv, Control, Continue, Become

LEMMA CallOK ==
    ASSUME IInv, UNCHANGED GarbageIDs, NEW f, RecordOK(f), SameLevel(f, Top),
           f.pc = "on_message" => f.n <= Len(GarbageIDs),
           NEW r, RecordOK(r), r.pc \notin RunLabels,
           r.pc \in MessageLabels => Top.pc \in RunLabels,
           r.pc = "on_message" => r.n <= Len(GarbageIDs),
           Call(f, r)
    PROVE  Control'
<1>1. CASE Len(stack) < MaxDepth
  <2>1. StackOK(<<r, f>> \o Tail(stack), Len(GarbageIDs))
    BY <1>1, RunningOK, PushOK DEF Top
  <2> QED BY <1>1, <2>1 DEF IInv, Control, Call
<1>2. CASE ~(Len(stack) < MaxDepth)
  BY <1>2, CrashOK DEF Call, Faults
<1> QED BY <1>1, <1>2

LEMMA ReturnOK ==
    ASSUME IInv, UNCHANGED GarbageIDs, Top.pc \notin RunLabels, Return
    PROVE  Control'
<1>1. StackOK(Tail(stack), Len(GarbageIDs))
  BY RunningOK, PopOK DEF Top
<1> QED BY <1>1 DEF IInv, Control, Return

\* The handlers the game thread calls, other than OnMessage.
Callee(r) ==
    RecordOK(r) /\ r.pc \in {"all", "client", "disconnect", "choose", "ai"}

LEMMA CallFromOK ==
    ASSUME IInv, UNCHANGED GarbageIDs, NEW f, RecordOK(f), SameLevel(f, Top),
           f.pc = "on_message" => f.n <= Len(GarbageIDs),
           NEW r, Callee(r), Call(f, r)
    PROVE  Control'
<1>1. RecordOK(r) /\ r.pc \notin RunLabels \cup MessageLabels
  BY DEF Callee, RunLabels, MessageLabels
<1> QED BY <1>1, CallOK DEF MessageLabels

LEMMA CallLabelOK ==
    ASSUME IInv, UNCHANGED GarbageIDs, NEW pc, MayBecome(pc, Top.pc),
           pc # "all_reset", NEW r, Callee(r), Call(Label(pc), r)
    PROVE  Control'
BY LabelOK, CallFromOK DEF MayBecome

LEMMA ContinueLabelOK ==
    ASSUME IInv, UNCHANGED GarbageIDs, NEW pc, MayBecome(pc, Top.pc),
           pc # "all_reset", Continue(Label(pc))
    PROVE  Control'
BY LabelOK, ContinueOK DEF MayBecome

\* The records of calls.
LEMMA CalleesOK ==
    ASSUME IInv, NEW m \in Messages
    PROVE  /\ \A c \in 0 .. N : Callee(MessageAllClientsRecord(m, c))
           /\ \A c \in Clients : Callee(MessageClientRecord(c, m))
           /\ \A c \in Clients : Callee(OnClientDisconnectRecord(c))
           /\ \A c \in 0 .. N : Callee(ChooseNextPlayerRecord(c))
           /\ \A k \in Nat : Callee(MakeAITurnRecord(k))
<1>1. nIDCounter - 1 \in Nat /\ 0 \in 0 .. N /\ 0 \in Nat
      /\ NoMsg \in Messages /\ Clients \subseteq 0 .. N
  BY SizeAssumption DEF IInv, NetTypeOK, NoMsg, Messages, OtherMessages, NULL, Clients
<1>2. {"all", "client", "disconnect", "choose", "ai"} \subseteq Labels
      /\ {"all", "choose", "ai"} \cap (MessageLabels \cup ClientLabels) = {}
  BY DEF Labels, MessageLabels, ClientLabels
<1>3. \A c \in 0 .. N : Callee(MessageAllClientsRecord(m, c))
  BY <1>1, <1>2, NewRecordOK DEF Callee, MessageAllClientsRecord
<1>4. \A c \in Clients : Callee(MessageClientRecord(c, m))
  BY <1>1, <1>2, NewRecordOK DEF Callee, MessageClientRecord
<1>5. \A c \in Clients : Callee(OnClientDisconnectRecord(c))
  BY <1>1, <1>2, NewRecordOK DEF Callee, OnClientDisconnectRecord
<1>6. \A c \in 0 .. N : Callee(ChooseNextPlayerRecord(c))
  BY <1>1, <1>2, NewRecordOK DEF Callee, ChooseNextPlayerRecord
<1>7. \A k \in Nat : Callee(MakeAITurnRecord(k))
  BY <1>1, <1>2, NewRecordOK DEF Callee, MakeAITurnRecord, NULL
<1> QED BY <1>3, <1>4, <1>5, <1>6, <1>7

LEMMA MsgOK ==
    ASSUME NEW p \in 0 .. N
    PROVE  /\ \A t \in {"none", "ServerShyConnectionCheck", "ClientUpdateMap",
                        "GameRemovePlayer", "GamePlayerActionValidated",
                        "GamePlayerActionAborted", "GameAITurnAction",
                        "GamePlayerTurn", "GameEndPlayerTurn", "GameNextPlayerTurn",
                        "ServerMessage"} : Msg(t, p) \in Messages
           /\ p \in Clients => \A t \in {"ClientAddPlayer", "ClientRegisterFromServer"} :
                                 Msg(t, p) \in Messages
BY DEF Msg, Messages, OtherMessages, PlayerMessages

-----------------------------------------------------------------------------
(* The steps of the game thread keep the stack.                            *)

LEMMA RunLoopSteps ==
    ASSUME IInv, Run \/ Wait \/ Update PROVE Control'
<1>1. CASE Run
  <2>1. MayBecome("wait", Top.pc) /\ UNCHANGED GarbageIDs
    BY <1>1 DEF Run, At, game, MayBecome, Labels, RunLabels, MessageLabels, ClientLabels
  <2>2. Callee(MessageAllClientsRecord(Msg("ServerShyConnectionCheck", NULL), NULL))
    BY MsgOK, CalleesOK, SizeAssumption DEF NULL
  <2> QED BY <1>1, <2>1, <2>2, CallLabelOK, ContinueLabelOK DEF Run
<1>2. CASE Wait
  <2>1. MayBecome("update", Top.pc) /\ UNCHANGED GarbageIDs
    BY <1>2 DEF Wait, At, game, MayBecome, Labels, RunLabels, MessageLabels, ClientLabels
  <2> QED BY <1>2, <2>1, ContinueLabelOK DEF Wait
<1>3. CASE Update
  <2>1. Top.pc = "update" /\ UNCHANGED GarbageIDs
    BY <1>3 DEF Update, At, game
  <2>2. CASE m_qMessagesIn = <<>>
    <3>1. MayBecome("run", Top.pc)
      BY <2>1 DEF MayBecome, Labels, RunLabels, MessageLabels, ClientLabels
    <3> QED BY <1>3, <2>1, <2>2, <3>1, ContinueLabelOK DEF Update
  <2>3. CASE m_qMessagesIn # <<>>
    <3> DEFINE om == Head(m_qMessagesIn)
               r == OnMessageRecord(om.remote, om.msg)
    <3>1. om \in [remote : Clients, msg : ClientMessages]
      <4>1. m_qMessagesIn \in Seq([remote : Clients, msg : ClientMessages])
        BY DEF IInv, NetTypeOK
      <4> QED BY <4>1, <2>3, HeadTailProperties
    <3>2. /\ om.remote \in Clients /\ om.remote \in 0 .. N
          /\ om.msg \in ClientMessages /\ om.msg \in Messages
      BY <3>1 DEF Clients, Messages
    <3> HIDE DEF om
    <3>3. RecordOK(r) /\ r.pc = "on_message" /\ r.n = Len(GarbageIDs)
      BY <3>2, NewRecordOK, RunningOK DEF OnMessageRecord, Labels
    <3>4. Len(GarbageIDs) \in Nat /\ RecordOK(Top) /\ SameLevel(Top, Top)
      BY RunningOK DEF SameLevel
    <3>5. Call(Top, r)
      BY <1>3, <2>3 DEF Update, om
    <3> HIDE DEF r
    <3> QED BY <2>1, <3>3, <3>4, <3>5, CallOK DEF RunLabels, MessageLabels
  <2> QED BY <2>2, <2>3
<1> QED BY <1>1, <1>2, <1>3

\* The entries of m_deqConnection are those of clients.
LEMMA ToVisitOK ==
    ASSUME ToVisit # {}
    PROVE  Least(ToVisit) \in Clients
<1>1. ToVisit \subseteq Clients /\ ToVisit \subseteq Nat
  BY SizeAssumption DEF ToVisit, Connections, Nulls, Clients
<1>2. Least(ToVisit) \in ToVisit
  BY <1>1, LeastOK
<1> QED BY <1>1, <1>2

LEMMA EraseOK ==
    ASSUME IInv, UNCHANGED GarbageIDs, NEW gone, Top.pc \notin RunLabels, Erase(gone)
    PROVE  Control'
BY CrashOK, ReturnOK DEF Erase, Faults

LEMMA SendingSteps ==
    ASSUME IInv, Sending PROVE Control'
<1>1. CASE AllStep
  <2> DEFINE client == Least(ToVisit)
  <2>1. Top.pc = "all" /\ UNCHANGED GarbageIDs /\ client \in Clients
    BY <1>1, ToVisitOK DEF AllStep, At, game
  <2>2. client \in Nat /\ client + 1 \in Nat
    BY <2>1, SizeAssumption DEF Clients
  <2>3. \/ Crash("null_deref")
        \/ Continue([Top EXCEPT !.i = client + 1])
        \/ Call([Top EXCEPT !.pc = "all_reset", !.i = client], OnClientDisconnectRecord(client))
    BY <1>1 DEF AllStep, AllLost
  <2> HIDE DEF client
  <2>4. CASE Crash("null_deref")
    BY <2>1, <2>4, CrashOK DEF Faults
  <2>5. CASE Continue([Top EXCEPT !.i = client + 1])
    BY <2>1, <2>2, <2>5, AdvanceOK, ContinueOK
  <2>6. CASE Call([Top EXCEPT !.pc = "all_reset", !.i = client], OnClientDisconnectRecord(client))
    <3> DEFINE f == [Top EXCEPT !.pc = "all_reset", !.i = client]
    <3>1. MayBecome("all_reset", Top.pc)
      BY <2>1 DEF MayBecome, Labels, RunLabels, MessageLabels, ClientLabels
    <3>2. RecordOK(f) /\ SameLevel(f, Top) /\ f.pc = "all_reset"
      BY <2>1, <2>2, <3>1, LabelLoopOK
    <3>3. Callee(OnClientDisconnectRecord(client))
      BY <2>1, MsgOK, CalleesOK, SizeAssumption
    <3> HIDE DEF f
    <3> QED BY <2>1, <2>6, <3>2, <3>3, CallFromOK DEF f
  <2> QED BY <2>3, <2>4, <2>5, <2>6
<1>2. CASE AllReset
  <2> DEFINE f == [Top EXCEPT !.pc = "all", !.i = Top.i + 1, !.dirty = TRUE]
  <2>1. Top.pc = "all_reset" /\ UNCHANGED GarbageIDs /\ Continue(f)
    BY <1>2 DEF AllReset, At, game
  <2>2. Top.i + 1 \in Nat
    BY RunningOK DEF Records
  <2>3. MayBecome("all", Top.pc)
    BY <2>1 DEF MayBecome, Labels, RunLabels, MessageLabels, ClientLabels
  <2>4. RecordOK(f) /\ SameLevel(f, Top) /\ f.pc = "all"
    BY <2>2, <2>3, LabelLoopOK
  <2> HIDE DEF f
  <2> QED BY <2>1, <2>4, ContinueOK
<1>3. CASE AllEnd
  <2>1. Top.pc \notin RunLabels /\ UNCHANGED GarbageIDs
    BY <1>3 DEF AllEnd, At, game, RunLabels
  <2> QED BY <1>3, <2>1, EraseOK, ReturnOK DEF AllEnd
<1>4. CASE MessageClient
  <2>1. Top.pc = "client" /\ UNCHANGED GarbageIDs /\ Top.c \in Clients
    BY <1>4, RunningOK DEF MessageClient, At, game, ClientLabels
  <2>2. MayBecome("client_erase", Top.pc) /\ Top.pc \notin RunLabels
    BY <2>1 DEF MayBecome, Labels, RunLabels, MessageLabels, ClientLabels
  <2>3. Callee(OnClientDisconnectRecord(Top.c))
    BY <2>1, MsgOK, CalleesOK, SizeAssumption
  <2> QED BY <1>4, <2>1, <2>2, <2>3, CallLabelOK, ReturnOK DEF MessageClient
<1>5. CASE ClientErase
  <2>1. Top.pc \notin RunLabels /\ UNCHANGED GarbageIDs
    BY <1>5 DEF ClientErase, At, game, RunLabels
  <2> QED BY <1>5, <2>1, EraseOK DEF ClientErase
<1> QED BY <1>1, <1>2, <1>3, <1>4, <1>5 DEF Sending

LEMMA ForgetOK ==
    ASSUME IInv, Top.c \in Clients, Top.pc \notin RunLabels, Forget(Top.c)
    PROVE  Control'
<1>1. /\ Len(GarbageIDs') = Len(GarbageIDs) + 1
      /\ Len(GarbageIDs) \in Nat /\ Len(GarbageIDs') \in Nat
  BY DEF Forget, IInv, GameTypeOK
<1>2. StackOK(Tail(stack), Len(GarbageIDs))
  BY RunningOK, PopOK DEF Top
<1>3. StackOK(Tail(stack), Len(GarbageIDs'))
  BY <1>1, <1>2, GrowOK
<1> QED BY <1>3 DEF IInv, Control, Forget, Return

LEMMA DisconnectSteps ==
    ASSUME IInv, OnClientDisconnect \/ DisconnectForget PROVE Control'
<1>1. CASE OnClientDisconnect
  <2>1. Top.pc = "disconnect" /\ Top.c \in Clients /\ Top.c \in 0 .. N
    BY <1>1, RunningOK, SizeAssumption DEF OnClientDisconnect, At, ClientLabels, Clients
  <2>2. MayBecome("forget", Top.pc) /\ Top.pc \notin RunLabels
    BY <2>1 DEF MayBecome, Labels, RunLabels, MessageLabels, ClientLabels
  <2>3. Callee(ChooseNextPlayerRecord(Top.c))
    BY <2>1, MsgOK, CalleesOK, SizeAssumption
  <2>4. CASE Top.c \notin PlayersList
    <3>1. Return /\ UNCHANGED GarbageIDs
      BY <1>1, <2>4 DEF OnClientDisconnect, game
    <3> QED BY <2>2, <3>1, ReturnOK
  <2>5. CASE Top.c \in PlayersList /\ HoldsTurn(Top.c)
    <3>1. Call(Label("forget"), ChooseNextPlayerRecord(Top.c)) /\ UNCHANGED GarbageIDs
      BY <1>1, <2>5 DEF OnClientDisconnect, game
    <3> QED BY <2>2, <2>3, <3>1, CallLabelOK
  <2>6. CASE Top.c \in PlayersList /\ ~HoldsTurn(Top.c)
    <3>1. Forget(Top.c)
      BY <1>1, <2>6 DEF OnClientDisconnect
    <3> QED BY <2>1, <2>2, <3>1, ForgetOK
  <2> QED BY <2>4, <2>5, <2>6
<1>2. CASE DisconnectForget
  <2>1. Top.c \in Clients /\ Top.pc \notin RunLabels /\ Forget(Top.c)
    BY <1>2, RunningOK DEF DisconnectForget, At, ClientLabels, RunLabels
  <2> QED BY <2>1, ForgetOK
<1> QED BY <1>1, <1>2

LEMMA TurnSteps ==
    ASSUME IInv, Turns PROVE Control'
<1>1. CASE ChooseNextPlayerForTurn
  <2>1. Top.pc = "choose" /\ Top.pc \notin RunLabels /\ UNCHANGED GarbageIDs
    BY <1>1 DEF ChooseNextPlayerForTurn, At, RunLabels
  <2>2. MayBecome("choose_send", Top.pc) /\ MayBecome("choose_first", Top.pc)
    BY <2>1 DEF MayBecome, Labels, RunLabels, MessageLabels, ClientLabels
  <2>3. \/ Return \/ Crash("bad_iterator") \/ Continue(Label("choose_send"))
        \/ \E k \in AIActions : Call(Label("choose_first"), MakeAITurnRecord(k))
    BY <1>1 DEF ChooseNextPlayerForTurn
  <2>4. CASE Return
    BY <2>1, <2>4, ReturnOK
  <2>5. CASE Crash("bad_iterator")
    BY <2>1, <2>5, CrashOK DEF Faults
  <2>6. CASE Continue(Label("choose_send"))
    BY <2>1, <2>2, <2>6, ContinueLabelOK
  <2>7. ASSUME NEW k \in AIActions, Call(Label("choose_first"), MakeAITurnRecord(k))
        PROVE  Control'
    <3>1. k \in Nat
      BY SizeAssumption DEF AIActions
    <3>2. Callee(MakeAITurnRecord(k))
      BY <3>1, MsgOK, CalleesOK, SizeAssumption
    <3> QED BY <2>1, <2>2, <2>7, <3>2, CallLabelOK
  <2> QED BY <2>3, <2>4, <2>5, <2>6, <2>7
<1>2. CASE ChooseFirst
  <2>1. Top.pc = "choose_first" /\ UNCHANGED GarbageIDs
    BY <1>2 DEF ChooseFirst, At
  <2>2. MayBecome("choose_send", Top.pc)
    BY <2>1 DEF MayBecome, Labels, RunLabels, MessageLabels, ClientLabels
  <2>3. Crash("bad_iterator") \/ Continue(Label("choose_send"))
    BY <1>2 DEF ChooseFirst
  <2> QED BY <2>1, <2>2, <2>3, CrashOK, ContinueLabelOK DEF Faults
<1>3. CASE ChooseSend
  <2> DEFINE r == MessageClientRecord(CurrentPlayerID, Msg("GamePlayerTurn", NULL))
             stops == Nulls \cup (Connections \cap {CurrentPlayerID})
  <2>1. Top.pc = "choose_send" /\ UNCHANGED GarbageIDs
    BY <1>3 DEF ChooseSend, At, game
  <2>2. MayBecome("choose_set", Top.pc)
    BY <2>1 DEF MayBecome, Labels, RunLabels, MessageLabels, ClientLabels
  <2>3. \/ Continue(Label("choose_set")) \/ Crash("null_deref")
        \/ stops # {} /\ Least(stops) \notin Nulls /\ Call(Label("choose_set"), r)
    BY <1>3 DEF ChooseSend
  <2>4. ASSUME stops # {}, Least(stops) \notin Nulls
        PROVE  Callee(r)
    <3>1. stops \in SUBSET Nat
      BY SizeAssumption DEF Nulls, Connections, Clients
    <3>2. Least(stops) \in stops
      BY <2>4, <3>1, LeastOK
    <3>3. CurrentPlayerID \in Clients
      BY <2>4, <3>2 DEF Connections
    <3> QED BY <3>3, MsgOK, CalleesOK, SizeAssumption DEF NULL
  <2> HIDE DEF r, stops
  <2> QED BY <2>1, <2>2, <2>3, <2>4, CrashOK, ContinueLabelOK, CallLabelOK DEF Faults
<1>4. CASE ChooseSet
  <2>1. Top.pc \notin RunLabels /\ UNCHANGED GarbageIDs /\ (Return \/ Crash("out_of_range"))
    BY <1>4 DEF ChooseSet, At, RunLabels
  <2> QED BY <2>1, ReturnOK, CrashOK DEF Faults
<1>5. CASE MakeAITurn
  <2> DEFINE f == [Top EXCEPT !.i = Top.i + 1]
             r == MessageAllClientsRecord(Msg("GameAITurnAction", NULL), NULL)
  <2>1. Top.pc = "ai" /\ Top.pc \notin RunLabels /\ UNCHANGED GarbageIDs
    BY <1>5 DEF MakeAITurn, At, game, RunLabels
  <2>2. Return \/ Call(f, r)
    BY <1>5 DEF MakeAITurn
  <2>3. Top.i + 1 \in Nat
    BY RunningOK DEF Records
  <2>4. RecordOK(f) /\ SameLevel(f, Top) /\ (f.pc = "on_message" => f.n <= Len(GarbageIDs))
    BY <2>1, <2>3, AdvanceOK
  <2>5. Callee(r)
    BY MsgOK, CalleesOK, SizeAssumption DEF NULL
  <2> HIDE DEF f, r
  <2> QED BY <2>1, <2>2, <2>4, <2>5, ReturnOK, CallFromOK
<1> QED BY <1>1, <1>2, <1>3, <1>4, <1>5 DEF Turns

\* Announcing the leavers.
LEMMA GarbageSteps ==
    ASSUME IInv, AnnounceLeaver \/ ClearGarbage PROVE Control'
<1>1. CASE AnnounceLeaver
  <2> DEFINE f == [Top EXCEPT !.i = Top.i + 1]
             r(pid) == MessageAllClientsRecord(Msg("GameRemovePlayer", pid), NULL)
             pids == {GarbageIDs[Top.i]} \cup (IF Len(GarbageIDs) > Top.n THEN {NULL} ELSE {})
  <2>1. /\ Top.pc = "on_message" /\ UNCHANGED GarbageIDs /\ Top.i <= Top.n
        /\ \E pid \in pids : Call(f, r(pid))
    BY <1>1 DEF AnnounceLeaver, At, game
  <2>2. Top.i \in Nat \ {0} /\ Top.i + 1 \in Nat \ {0} /\ Top.n <= Len(GarbageIDs) /\ Top.n \in Nat
    BY <2>1, RunningOK DEF Records
  <2>3. RecordOK(f) /\ SameLevel(f, Top) /\ (f.pc = "on_message" => f.n <= Len(GarbageIDs))
    BY <2>1, <2>2, AdvanceOK
  <2>4. ASSUME NEW pid, pid \in 0 .. N PROVE Callee(r(pid))
    BY <2>4, MsgOK, CalleesOK, SizeAssumption DEF NULL
  <2>5. Top.i \in 1 .. Len(GarbageIDs)
    BY <2>1, <2>2, RunningOK
  <2>6. pids \subseteq 0 .. N
    BY <2>5, SizeAssumption DEF IInv, GameTypeOK, Clients, NULL
  <2>7. PICK pid \in pids : Call(f, r(pid))
    BY <2>1
  <2>8. Callee(r(pid))
    BY <2>4, <2>6
  <2> HIDE DEF f, r
  <2> QED BY <2>1, <2>3, <2>7, <2>8, CallFromOK
<1>2. CASE ClearGarbage
  <2> DEFINE f == Label(Top.m.t)
  <2>1. Top.pc = "on_message" /\ GarbageIDs' = <<>> /\ Continue(f)
    BY <1>2 DEF ClearGarbage, At
  <2>2. Top.m.t \in {"ClientRegisterOnServer", "ClientJustCheck",
                     "ServerGamePlayerActionApprove", "MessageAll"}
    BY <2>1, RunningOK DEF ClientMessages
  <2>3. MayBecome(Top.m.t, Top.pc) /\ Top.m.t # "all_reset"
    BY <2>1, <2>2 DEF MayBecome, Labels, RunLabels, MessageLabels, ClientLabels
  <2>4. RecordOK(f) /\ SameLevel(f, Top) /\ f.pc # "on_message"
    BY <2>3, LabelOK DEF MayBecome
  <2> DEFINE s == <<f>> \o Tail(stack)
  <2> HIDE DEF f
  <2>5. StackOK(s, Len(GarbageIDs))
    BY <2>4, RunningOK, ReplaceOK DEF Top
  <2>6. s[1] = f
    <3>1. Tail(stack) \in Seq(Records) /\ f \in Records
      BY <2>4, StackSeqOK, HeadTailProperties DEF RecordOK
    <3> QED BY <3>1
  <2>7. Len(s) = 2
    <3>1. s[1].pc \in MessageLabels
      BY <2>2, <2>3, <2>6, LabelOK DEF f, MessageLabels
    <3> QED BY <2>5, <3>1, StackLevelOK
  <2> HIDE DEF s
  <2>8. s[2].pc # "on_message"
    BY <2>5, <2>7 DEF StackOK, RunLabels
  <2>9. StackOK(s, 0)
    <3>1. \A k \in 1 .. Len(s) : s[k].pc # "on_message"
      BY <2>4, <2>6, <2>7, <2>8
    <3> QED BY <2>5, <3>1 DEF StackOK
  <2>10. Len(GarbageIDs') = 0 /\ stack' = s /\ UNCHANGED fault
    BY <2>1 DEF s, Continue, Become
  <2> QED BY <2>9, <2>10 DEF Control, IInv
<1> QED BY <1>1, <1>2

LEMMA RegisterSteps ==
    ASSUME IInv, Register \/ SendWorld \/ SendNew \/ SendOthers \/ FirstTurn
    PROVE  Control'
<1>1. CASE Register
  <2>1. Top.pc = "ClientRegisterOnServer" /\ UNCHANGED GarbageIDs
    BY <1>1 DEF Register, At, game
  <2>2. MayBecome("send_world", Top.pc) /\ Top.c \in Clients
    BY <2>1, RunningOK DEF MayBecome, Labels, RunLabels, MessageLabels, ClientLabels
  <2>3. Callee(MessageClientRecord(Top.c, Msg("ClientRegisterFromServer", Top.c)))
    BY <2>2, MsgOK, CalleesOK, SizeAssumption DEF IInv, GameTypeOK, NULL, Clients
  <2> QED BY <1>1, <2>1, <2>2, <2>3, CallLabelOK DEF Register
<1>2. CASE SendWorld
  <2>1. Top.pc = "send_world" /\ UNCHANGED GarbageIDs
    BY <1>2 DEF SendWorld, At, game
  <2>2. MayBecome("send_new", Top.pc) /\ Top.c \in Clients
    BY <2>1, RunningOK DEF MayBecome, Labels, RunLabels, MessageLabels, ClientLabels
  <2>3. Callee(MessageClientRecord(Top.c, Msg("ClientUpdateMap", NULL)))
    BY <2>2, MsgOK, CalleesOK, SizeAssumption DEF IInv, GameTypeOK, NULL, Clients
  <2> QED BY <1>2, <2>1, <2>2, <2>3, CallLabelOK DEF SendWorld
<1>3. CASE SendNew
  <2> DEFINE f == [Label("send_others") EXCEPT !.i = 0]
             r == MessageAllClientsRecord(Msg("ClientAddPlayer", Top.c), Top.c)
  <2>1. Top.pc = "send_new" /\ UNCHANGED GarbageIDs /\ Call(f, r)
    BY <1>3 DEF SendNew, At, game
  <2>2. MayBecome("send_others", Top.pc) /\ Top.c \in Clients
    BY <2>1, RunningOK DEF MayBecome, Labels, RunLabels, MessageLabels, ClientLabels
  <2>3. f = [Top EXCEPT !.pc = "send_others", !.i = 0]
    BY RunningOK DEF Label, Records
  <2>4. RecordOK(f) /\ SameLevel(f, Top) /\ f.pc = "send_others"
    BY <2>2, <2>3, LabelLoopOK
  <2>5. Callee(r)
    BY <2>2, MsgOK, CalleesOK, SizeAssumption DEF Clients
  <2> HIDE DEF f, r
  <2> QED BY <2>1, <2>4, <2>5, CallFromOK
<1>4. CASE SendOthers
  <2> DEFINE next == First(After(Top.i))
             step == [Top EXCEPT !.i = order[next]]
             r == MessageClientRecord(Top.c, Msg("ClientAddPlayer", next))
  <2>1. Top.pc = "send_others" /\ UNCHANGED GarbageIDs
    BY <1>4 DEF SendOthers, At, game
  <2>2. MayBecome("first_turn", Top.pc) /\ Top.c \in Clients
    BY <2>1, RunningOK DEF MayBecome, Labels, RunLabels, MessageLabels, ClientLabels
  <2>3. \/ Crash("bad_iterator") \/ Continue(Label("first_turn"))
        \/ After(Top.i) # {} /\ (Continue(step) \/ Call(step, r))
    BY <1>4 DEF SendOthers
  <2>4. CASE After(Top.i) # {} /\ (Continue(step) \/ Call(step, r))
    <3>1. next \in Clients /\ order[next] \in Nat
      <4>1. order \in [Clients -> Clients] /\ After(Top.i) \subseteq Clients
        BY DEF IInv, NetTypeOK, GameTypeOK, After
      <4>2. next \in Clients
        BY <2>4, <4>1, FirstOK
      <4> QED BY <4>1, <4>2, SizeAssumption DEF Clients
    <3> HIDE DEF next
    <3>2. RecordOK(step) /\ SameLevel(step, Top) /\ (step.pc = "on_message" => step.n <= Len(GarbageIDs))
      BY <2>1, <3>1, AdvanceOK
    <3>3. Callee(r)
      BY <2>2, <3>1, MsgOK, CalleesOK, SizeAssumption DEF Clients
    <3> HIDE DEF step, r
    <3> QED BY <2>1, <2>4, <3>2, <3>3, ContinueOK, CallFromOK
  <2> HIDE DEF next, step, r
  <2> QED BY <2>1, <2>2, <2>3, <2>4, CrashOK, ContinueLabelOK DEF Faults
<1>5. CASE FirstTurn
  <2>1. Top.pc = "first_turn" /\ UNCHANGED GarbageIDs /\ Top.pc \notin RunLabels
    BY <1>5 DEF FirstTurn, At, game, RunLabels
  <2>2. MayBecome("done", Top.pc)
    BY <2>1 DEF MayBecome, Labels, RunLabels, MessageLabels, ClientLabels
  <2>3. Callee(ChooseNextPlayerRecord(NULL))
    BY MsgOK, CalleesOK, SizeAssumption DEF NULL
  <2> QED BY <1>5, <2>1, <2>2, <2>3, CallLabelOK, ReturnOK DEF FirstTurn, Done
<1> QED BY <1>1, <1>2, <1>3, <1>4, <1>5

LEMMA ActionSteps ==
    ASSUME IInv, Approve \/ Abort \/ Acted \/ EndTurn \/ NextTurn \/ MessageAll \/ MessageDone
    PROVE  Control'
<1>1. CASE Approve
  <2>1. Top.pc = "ServerGamePlayerActionApprove" /\ UNCHANGED GarbageIDs
    BY <1>1 DEF Approve, At
  <2>2. MayBecome("acted", Top.pc) /\ Top.c \in Clients
    BY <2>1, RunningOK DEF MayBecome, Labels, RunLabels, MessageLabels, ClientLabels
  <2>3. Callee(MessageAllClientsRecord(Msg("GamePlayerActionValidated", NULL), NULL))
    BY <2>2, MsgOK, CalleesOK, SizeAssumption DEF IInv, GameTypeOK, NULL, Clients
  <2> QED BY <1>1, <2>1, <2>2, <2>3, CallLabelOK, CrashOK DEF Approve, Faults
<1>2. CASE Abort
  <2>1. Top.pc = "ServerGamePlayerActionApprove" /\ UNCHANGED GarbageIDs
    BY <1>2 DEF Abort, At, game
  <2>2. MayBecome("done", Top.pc) /\ Top.c \in Clients
    BY <2>1, RunningOK DEF MayBecome, Labels, RunLabels, MessageLabels, ClientLabels
  <2>3. Callee(MessageClientRecord(Top.c, Msg("GamePlayerActionAborted", NULL)))
    BY <2>2, MsgOK, CalleesOK, SizeAssumption DEF IInv, GameTypeOK, NULL, Clients
  <2> QED BY <1>2, <2>1, <2>2, <2>3, CallLabelOK DEF Abort, Done
<1>3. CASE Acted
  <2>1. Top.pc = "acted" /\ UNCHANGED GarbageIDs
    BY <1>3 DEF Acted, At, game
  <2>2. MayBecome("end_turn", Top.pc) /\ Top.c \in Clients
    BY <2>1, RunningOK DEF MayBecome, Labels, RunLabels, MessageLabels, ClientLabels
  <2>3. Callee(MessageClientRecord(Top.c, Msg("GameEndPlayerTurn", NULL)))
    BY <2>2, MsgOK, CalleesOK, SizeAssumption DEF IInv, GameTypeOK, NULL, Clients
  <2> QED BY <1>3, <2>1, <2>2, <2>3, CallLabelOK, CrashOK, ReturnOK DEF Acted, Faults, RunLabels
<1>4. CASE EndTurn
  <2>1. Top.pc = "end_turn" /\ UNCHANGED GarbageIDs
    BY <1>4 DEF EndTurn, At, game
  <2>2. MayBecome("next_turn", Top.pc) /\ Top.c \in Clients
    BY <2>1, RunningOK DEF MayBecome, Labels, RunLabels, MessageLabels, ClientLabels
  <2>3. Callee(ChooseNextPlayerRecord(Top.c))
    BY <2>2, MsgOK, CalleesOK, SizeAssumption DEF IInv, GameTypeOK, NULL, Clients
  <2> QED BY <1>4, <2>1, <2>2, <2>3, CallLabelOK DEF EndTurn
<1>5. CASE NextTurn
  <2>1. Top.pc = "next_turn" /\ UNCHANGED GarbageIDs
    BY <1>5 DEF NextTurn, At, game
  <2>2. MayBecome("done", Top.pc) /\ Top.c \in Clients
    BY <2>1, RunningOK DEF MayBecome, Labels, RunLabels, MessageLabels, ClientLabels
  <2>3. Callee(MessageAllClientsRecord(Msg("GameNextPlayerTurn", CurrentPlayerID), NULL))
    BY <2>2, MsgOK, CalleesOK, SizeAssumption DEF IInv, GameTypeOK, NULL, Clients
  <2> QED BY <1>5, <2>1, <2>2, <2>3, CallLabelOK DEF NextTurn, Done
<1>6. CASE MessageAll
  <2>1. Top.pc = "MessageAll" /\ UNCHANGED GarbageIDs
    BY <1>6 DEF MessageAll, At, game
  <2>2. MayBecome("done", Top.pc) /\ Top.c \in Clients
    BY <2>1, RunningOK DEF MayBecome, Labels, RunLabels, MessageLabels, ClientLabels
  <2>3. Callee(MessageAllClientsRecord(Msg("ServerMessage", Top.c), Top.c))
    BY <2>2, MsgOK, CalleesOK, SizeAssumption DEF IInv, GameTypeOK, NULL, Clients
  <2> QED BY <1>6, <2>1, <2>2, <2>3, CallLabelOK, CrashOK DEF MessageAll, Done, Faults
<1>7. CASE MessageDone
  <2>1. Top.pc \notin RunLabels /\ UNCHANGED GarbageIDs /\ Return
    BY <1>7 DEF MessageDone, At, game, RunLabels
  <2> QED BY <2>1, ReturnOK
<1> QED BY <1>1, <1>2, <1>3, <1>4, <1>5, <1>6, <1>7

-----------------------------------------------------------------------------
(* The other variables.                                                    *)

\* The asio thread leaves the stack alone.
LEMMA AsioSteps ==
    ASSUME IInv, NEW c \in Clients, Accept(c) \/ Validate(c) \/ Close(c) \/ Receive(c)
    PROVE  IInv'
<1>1. CASE Accept(c)
  <2>1. NetTypeOK'
    <3>1. nIDCounter' \in 1 .. N + 1
      BY <1>1, SizeAssumption DEF Accept, Clients
    <3>2. /\ sock' \in [Clients -> {"none", "open", "valid", "closed"}]
          /\ m_deqConnection' \in [Clients -> {"held", "null", "absent"}]
      BY <1>1 DEF IInv, NetTypeOK, Accept
    <3> QED BY <1>1, <3>1, <3>2 DEF IInv, NetTypeOK, Accept
  <2>2. fault' \in Faults
    BY <1>1 DEF Accept, Faults
  <2> QED BY <1>1, <2>1, <2>2 DEF IInv, GameTypeOK, ToldTypeOK, Accept, game, told
<1>2. CASE Validate(c) \/ Close(c)
  BY <1>2 DEF IInv, NetTypeOK, GameTypeOK, ToldTypeOK, Validate, Close, game, told
<1>3. CASE Receive(c)
  <2>1. PICK m \in MayReceive(c) :
          /\ m_qMessagesIn' = Append(m_qMessagesIn, [remote |-> c, msg |-> m])
          /\ registering' = IF m.t = "ClientRegisterOnServer"
                            THEN registering \cup {c} ELSE registering
    BY <1>3 DEF Receive
  <2>2. m \in ClientMessages
    BY SizeAssumption DEF MayReceive, Msg, ClientMessages, NULL, Clients
  <2>3. NetTypeOK'
    BY <1>3, <2>1, <2>2 DEF IInv, NetTypeOK, Receive
  <2> QED BY <1>3, <2>3 DEF IInv, GameTypeOK, ToldTypeOK, Receive, game, told
<1> QED BY <1>1, <1>2, <1>3

\* A delivered message tells of players.
LEMMA DeliverOK ==
    ASSUME IInv, NEW to \in SUBSET Clients, NEW m \in Messages, Deliver(to, m)
    PROVE  ToldTypeOK'
<1>1. m.t \in {"ClientAddPlayer", "ClientRegisterFromServer"} => m.p \in Clients
  BY DEF Messages, ClientMessages, PlayerMessages, OtherMessages
<1> QED BY <1>1 DEF IInv, ToldTypeOK, Deliver

LEMMA SendingTypes ==
    ASSUME IInv, Sending
    PROVE  NetTypeOK' /\ GameTypeOK' /\ ToldTypeOK'
<1>1. Top.m \in Messages /\ Top.pc \in Labels
  BY RunningOK DEF Records
<1>2. CASE AllStep
  <2>1. Least(ToVisit) \in Clients
    BY <1>2, ToVisitOK DEF AllStep
  <2>2. {Least(ToVisit)} \ {Top.c} \in SUBSET Clients
    BY <2>1
  <2>3. ToldTypeOK'
    BY <1>1, <1>2, <2>2, DeliverOK DEF AllStep, IInv, ToldTypeOK, told
  <2> QED BY <1>2, <2>3 DEF AllStep, AllLost, IInv, NetTypeOK, GameTypeOK, game
<1>3. CASE AllReset
  BY <1>3 DEF AllReset, IInv, NetTypeOK, GameTypeOK, ToldTypeOK, game, told
<1>4. CASE AllEnd
  BY <1>4 DEF AllEnd, Erase, IInv, NetTypeOK, GameTypeOK, ToldTypeOK, game, told
<1>5. CASE MessageClient
  <2>1. {Top.c} \in SUBSET Clients
    BY <1>5, RunningOK DEF MessageClient, At, ClientLabels
  <2>2. ToldTypeOK'
    BY <1>1, <1>5, <2>1, DeliverOK DEF MessageClient, IInv, ToldTypeOK, told
  <2> QED BY <1>5, <2>2 DEF MessageClient, IInv, NetTypeOK, GameTypeOK, net, game
<1>6. CASE ClientErase
  BY <1>6 DEF ClientErase, Erase, IInv, NetTypeOK, GameTypeOK, ToldTypeOK, game, told
<1> QED BY <1>2, <1>3, <1>4, <1>5, <1>6 DEF Sending

\* The turn fits its field, and a player that spends one had one.
LEMMA TurnTypes ==
    ASSUME IInv, Turns
    PROVE  NetTypeOK' /\ GameTypeOK' /\ ToldTypeOK'
<1>1. CASE ChooseNextPlayerForTurn \/ ChooseFirst
  <2>1. PlayersList \subseteq Clients /\ order \in [Clients -> Clients]
    BY DEF IInv, GameTypeOK, NetTypeOK
  <2>2. \A k : After(k) # {} => First(After(k)) \in Clients
    BY <2>1, FirstOK DEF After
  <2>3. PlayersList # {} => First(PlayersList) \in Clients
    BY <2>1, FirstOK
  <2>4. CurrentPlayerID' \in 0 .. N
    <3>1. CurrentPlayerID \in 0 .. N /\ Clients \subseteq 0 .. N
      BY SizeAssumption DEF IInv, GameTypeOK, Clients
    <3>2. CurrentPlayerID' \in {CurrentPlayerID} \cup Clients
      BY <1>1, <2>2, <2>3 DEF ChooseNextPlayerForTurn, ChooseFirst
    <3> QED BY <3>1, <3>2
  <2>5. /\ UNCHANGED <<net, told>>
        /\ UNCHANGED <<PlayersList, CurrentTurns, GarbageIDs, enemies>>
    BY <1>1 DEF ChooseNextPlayerForTurn, ChooseFirst
  <2> QED BY <2>4, <2>5 DEF IInv, NetTypeOK, GameTypeOK, ToldTypeOK, net, told
<1>2. CASE ChooseSend \/ MakeAITurn
  BY <1>2 DEF ChooseSend, MakeAITurn, IInv, NetTypeOK, GameTypeOK, ToldTypeOK, net, game, told
<1>3. CASE ChooseSet
  <2>1. CurrentTurns' \in [Clients -> 0 .. MaxTurns]
    BY <1>3, TurnsAssumption DEF ChooseSet, FullTurn, IInv, GameTypeOK
  <2> QED BY <1>3, <2>1 DEF ChooseSet, IInv, NetTypeOK, GameTypeOK, ToldTypeOK, net, told
<1> QED BY <1>1, <1>2, <1>3 DEF Turns

LEMMA SpendOK ==
    ASSUME IInv, Approve
    PROVE  /\ CurrentTurns' \in [Clients -> 0 .. MaxTurns]
           /\ \A c \in Clients :
                CurrentTurns'[c] < CurrentTurns[c]
                  => c = CurrentPlayerID /\ CurrentTurns'[c] = CurrentTurns[c] - 1
<1>1. CurrentTurns \in [Clients -> 0 .. MaxTurns] /\ MaxTurns \in Nat
  BY TurnsAssumption DEF IInv, GameTypeOK
<1>2. Top.c = CurrentPlayerID /\ Top.c \in Clients /\ CurrentTurns[Top.c] \in 1 .. MaxTurns
  BY <1>1 DEF Approve, MayAct, IInv, GameTypeOK
<1>3. \/ UNCHANGED CurrentTurns
      \/ CurrentTurns' = [CurrentTurns EXCEPT ![Top.c] = CurrentTurns[Top.c] - 1]
  BY DEF Approve
<1>4. CurrentTurns[Top.c] - 1 \in 0 .. MaxTurns
  BY <1>1, <1>2
<1>5. CASE UNCHANGED CurrentTurns
  <2>1. \A c \in Clients : ~(CurrentTurns[c] < CurrentTurns[c])
    BY <1>1
  <2> QED BY <1>1, <1>5, <2>1
<1>6. CASE CurrentTurns' = [CurrentTurns EXCEPT ![Top.c] = CurrentTurns[Top.c] - 1]
  <2>1. CurrentTurns' \in [Clients -> 0 .. MaxTurns]
    BY <1>1, <1>4, <1>6
  <2>2. ASSUME NEW c \in Clients, CurrentTurns'[c] < CurrentTurns[c]
        PROVE  c = CurrentPlayerID /\ CurrentTurns'[c] = CurrentTurns[c] - 1
    BY <1>1, <1>2, <1>6, <2>2
  <2> QED BY <2>1, <2>2
<1> QED BY <1>3, <1>5, <1>6

LEMMA MessageTypes ==
    ASSUME IInv, OnMessage
    PROVE  NetTypeOK' /\ GameTypeOK' /\ ToldTypeOK'
<1>1. CASE ClearGarbage
  <2>1. GarbageIDs' \in Seq(Clients)
    BY <1>1 DEF ClearGarbage
  <2> QED BY <1>1, <2>1 DEF ClearGarbage, IInv, NetTypeOK, GameTypeOK, ToldTypeOK, net, told
<1>2. CASE Register
  <2>1. Top.c \in Clients
    BY <1>2, RunningOK DEF Register, At, MessageLabels
  <2>2. CurrentTurns' \in [Clients -> 0 .. MaxTurns] /\ PlayersList' \subseteq Clients
    BY <1>2, <2>1, TurnsAssumption DEF Register, FullTurn, WithPlayer, IInv, GameTypeOK
  <2> QED BY <1>2, <2>2 DEF Register, IInv, NetTypeOK, GameTypeOK, ToldTypeOK, net, told
<1>3. CASE Approve
  <2>1. CurrentTurns' \in [Clients -> 0 .. MaxTurns]
    BY <1>3, SpendOK
  <2>2. enemies' \in BOOLEAN
    BY <1>3 DEF Approve, IInv, GameTypeOK
  <2> QED BY <1>3, <2>1, <2>2 DEF Approve, IInv, NetTypeOK, GameTypeOK, ToldTypeOK, net, told
<1>4. CASE \/ AnnounceLeaver \/ MessageDone \/ SendWorld \/ SendNew \/ SendOthers
           \/ FirstTurn \/ Abort \/ Acted \/ EndTurn \/ NextTurn \/ MessageAll
  <2>1. UNCHANGED <<net, game, told>>
    BY <1>4 DEF AnnounceLeaver, MessageDone, SendWorld, SendNew, SendOthers, FirstTurn,
                Abort, Acted, EndTurn, NextTurn, MessageAll
  <2> QED BY <2>1 DEF IInv, NetTypeOK, GameTypeOK, ToldTypeOK, net, game, told
<1> QED BY <1>1, <1>2, <1>3, <1>4 DEF OnMessage

LEMMA OtherTypes ==
    ASSUME IInv, Run \/ Wait \/ Update \/ OnClientDisconnect \/ DisconnectForget
    PROVE  NetTypeOK' /\ GameTypeOK' /\ ToldTypeOK'
<1>1. CASE Run \/ Wait
  BY <1>1 DEF Run, Wait, IInv, NetTypeOK, GameTypeOK, ToldTypeOK, net, game, told
<1>2. CASE Update
  <2>1. m_qMessagesIn' \in Seq([remote : Clients, msg : ClientMessages])
    <3>1. m_qMessagesIn \in Seq([remote : Clients, msg : ClientMessages])
      BY DEF IInv, NetTypeOK
    <3> QED BY <1>2, <3>1, HeadTailProperties DEF Update
  <2> QED BY <1>2, <2>1 DEF Update, IInv, NetTypeOK, GameTypeOK, ToldTypeOK, game, told
<1>3. CASE OnClientDisconnect \/ DisconnectForget
  <2>1. Top.c \in Clients
    BY <1>3, RunningOK DEF OnClientDisconnect, DisconnectForget, At, ClientLabels
  <2>2. UNCHANGED <<net, told>> /\ (UNCHANGED game \/ Forget(Top.c))
    BY <1>3 DEF OnClientDisconnect, DisconnectForget
  <2>3. GameTypeOK'
    <3>1. CASE UNCHANGED game
      BY <3>1 DEF IInv, GameTypeOK, game
    <3>2. CASE Forget(Top.c)
      <4>1. GarbageIDs' \in Seq(Clients)
        BY <2>1, <3>2 DEF IInv, GameTypeOK, Forget
      <4> QED BY <3>2, <4>1 DEF IInv, GameTypeOK, Forget
    <3> QED BY <2>2, <3>1, <3>2
  <2> QED BY <2>2, <2>3 DEF IInv, NetTypeOK, ToldTypeOK, net, told
<1> QED BY <1>1, <1>2, <1>3

-----------------------------------------------------------------------------
(* The theorems.                                                           *)

LEMMA InitOK ==
    Init => IInv
<1> SUFFICES ASSUME Init PROVE IInv
  OBVIOUS
<1>1. NetTypeOK /\ GameTypeOK /\ ToldTypeOK /\ fault \in Faults
  <2>1. NetTypeOK
    BY SizeAssumption DEF Init, NetTypeOK
  <2>2. GameTypeOK
    <3>1. CurrentTurns \in [Clients -> 0 .. MaxTurns] /\ CurrentPlayerID \in 0 .. N
      BY SizeAssumption, TurnsAssumption DEF Init, NULL
    <3>2. PlayersList \subseteq Clients /\ enemies \in BOOLEAN
      BY EnvironmentAssumption DEF Init
    <3>3. GarbageIDs \in Seq(Clients)
      BY DEF Init
    <3> QED BY <3>1, <3>2, <3>3 DEF GameTypeOK
  <2>3. ToldTypeOK /\ fault \in Faults
    BY DEF Init, ToldTypeOK, Faults
  <2> QED BY <2>1, <2>2, <2>3
<1>2. RecordOK(RunRecord) /\ RunRecord.pc = "run"
  <2>1. NoMsg \in Messages /\ NULL \in 0 .. N
    BY SizeAssumption DEF NoMsg, Messages, OtherMessages, NULL
  <2>2. /\ "run" \in Labels /\ "run" \notin MessageLabels \cup ClientLabels
        /\ "run" # "on_message" /\ "run" # "all_reset"
    BY DEF Labels, MessageLabels, ClientLabels
  <2> QED BY <2>1, <2>2, NewRecordOK DEF RunRecord
<1>3. StackOK(stack, Len(GarbageIDs))
  <2> HIDE DEF RunRecord
  <2>1. RunRecord \in {r \in Records : RecordOK(r)}
    BY <1>2 DEF RecordOK
  <2>2. stack = <<RunRecord>>
    BY DEF Init
  <2>3. /\ stack \in Seq({r \in Records : RecordOK(r)})
        /\ Len(stack) = 1 /\ stack[1] = RunRecord
    BY <2>1, <2>2
  <2> QED BY <1>2, <2>3, DepthAssumption DEF StackOK, RunLabels, MessageLabels
<1> QED BY <1>1, <1>3 DEF IInv

LEMMA NextOK ==
    IInv /\ [Next]_vars => IInv'
<1> SUFFICES ASSUME IInv, [Next]_vars PROVE IInv'
  OBVIOUS
<1>1. CASE UNCHANGED vars
  BY <1>1 DEF vars, net, game, told, IInv, NetTypeOK, GameTypeOK, ToldTypeOK
<1>2. CASE GameThread
  <2>1. Control'
    BY <1>2, RunLoopSteps, SendingSteps, DisconnectSteps, TurnSteps, GarbageSteps,
       RegisterSteps, ActionSteps DEF GameThread, OnMessage
  <2>2. NetTypeOK' /\ GameTypeOK' /\ ToldTypeOK'
    BY <1>2, SendingTypes, TurnTypes, MessageTypes, OtherTypes DEF GameThread
  <2> QED BY <2>1, <2>2 DEF IInv, Control
<1>3. CASE AsioThread
  BY <1>3, AsioSteps DEF AsioThread
<1>4. CASE Stopped
  BY <1>1, <1>4 DEF Stopped
<1> QED BY <1>1, <1>2, <1>3, <1>4 DEF Next

\* The inductive invariant.
THEOREM Invariance == Spec => []IInv
BY InitOK, NextOK, PTL DEF Spec

\* Type correctness: whatever the clients do and whenever their connections
\* close, the nested handlers of the game thread read clients, players and
\* messages that exist, and return to the loop of Run.
THEOREM TypeCorrect == Spec => []TypeOK
<1>1. IInv => TypeOK
  BY StackSeqOK DEF IInv, TypeOK, ControlTypeOK
<1> QED BY <1>1, Invariance, PTL

\* Only ServerGamePlayerActionApprove spends actions, and only those of the
\* player that holds the turn (GameServer.cpp:467-473).
THEOREM HolderSpends == Spec => OnlyHolderSpends
<1> DEFINE A == \A c \in Clients :
                  CurrentTurns'[c] < CurrentTurns[c]
                    => c = CurrentPlayerID /\ CurrentTurns'[c] = CurrentTurns[c] - 1
<1>1. ASSUME IInv, [Next]_vars PROVE [A]_vars
  <2>1. CurrentTurns \in [Clients -> 0 .. MaxTurns] /\ MaxTurns \in Nat
    BY <1>1, TurnsAssumption DEF IInv, GameTypeOK
  <2>2. CASE UNCHANGED CurrentTurns
    BY <2>1, <2>2
  <2>3. CASE Register \/ ChooseSet
    <3>1. PICK p : CurrentTurns' = FullTurn(p) \/ UNCHANGED CurrentTurns
      BY <2>3 DEF Register, ChooseSet
    <3>2. \A c \in Clients : CurrentTurns'[c] >= CurrentTurns[c]
      BY <2>1, <3>1 DEF FullTurn
    <3>3. \A c \in Clients : ~(CurrentTurns'[c] < CurrentTurns[c])
      <4> TAKE c \in Clients
      <4>1. CurrentTurns[c] \in Nat /\ CurrentTurns'[c] \in Nat
        BY <2>1, <3>1 DEF FullTurn
      <4> QED BY <3>2, <4>1
    <3> QED BY <3>3
  <2>4. CASE Approve
    BY <1>1, <2>4, SpendOK
  <2>5. CASE \/ Stopped \/ UNCHANGED vars \/ AsioThread \/ Run \/ Wait \/ Update
             \/ Sending \/ OnClientDisconnect \/ DisconnectForget
             \/ ChooseNextPlayerForTurn \/ ChooseFirst \/ ChooseSend \/ MakeAITurn
             \/ AnnounceLeaver \/ ClearGarbage \/ MessageDone
             \/ SendWorld \/ SendNew \/ SendOthers \/ FirstTurn
             \/ Abort \/ Acted \/ EndTurn \/ NextTurn \/ MessageAll
    <3>1. UNCHANGED CurrentTurns
      BY <2>5 DEF Stopped, vars, game, AsioThread, Accept, Validate, Close, Receive,
         Run, Wait, Update, Sending, AllStep, AllReset, AllEnd, MessageClient, ClientErase,
         OnClientDisconnect, DisconnectForget, Forget,
         ChooseNextPlayerForTurn, ChooseFirst, ChooseSend, MakeAITurn,
         AnnounceLeaver, ClearGarbage, MessageDone,
         SendWorld, SendNew, SendOthers, FirstTurn,
         Abort, Acted, EndTurn, NextTurn, MessageAll
    <3> QED BY <2>2, <3>1
  <2> QED BY <1>1, <2>3, <2>4, <2>5 DEF Next, GameThread, OnMessage, Turns
<1> QED BY <1>1, Invariance, PTL DEF Spec, OnlyHolderSpends
=============================================================================
