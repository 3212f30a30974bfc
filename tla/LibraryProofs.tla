---------------------------- MODULE LibraryProofs ----------------------------
(***************************************************************************)
(* Of RingBuffer, for every capacity, every ValueT and every               *)
(* sizeof(ValueT): its indices stay inside the block, LookAtIndex finds    *)
(* every element, and the buffer is the deque of AbstractDeque.            *)
(*                                                                         *)
(* Of Handles, for any variables, members and objects: counts are exact, a *)
(* unique handle owns alone, and nothing is used or released after it was  *)
(* released.                                                               *)
(***************************************************************************)
EXTENDS RingBuffer, Handles, SequenceTheorems, FiniteSetTheorems, TLAPS

IInv == RingTypeOK /\ HeadTellsEmpty

LEMMA DivOK ==
    ASSUME NEW h \in Nat
    PROVE  h \div ElementSize \in 0 .. h /\ (ElementSize = 1 => h \div ElementSize = h)
BY ElementAssumption

\* Where the element at the back is.
LEMMA TailOK ==
    ASSUME IInv, head # InvalidIndex
    PROVE  /\ GetTailIndex \in 0 .. capacity - 1
           /\ elementsInside \in 1 .. capacity /\ head \in 0 .. capacity - 1
           /\ Around(GetTailIndex + elementsInside - 1) = head
           /\ Wrapped <=> head < elementsInside - 1
BY DEF IInv, RingTypeOK, HeadTellsEmpty, GetTailIndex, InvalidIndex, Around, Wrapped

\* Each element has a slot of its own.
LEMMA SlotsOK ==
    ASSUME IInv
    PROVE  /\ \A k \in 1 .. elementsInside : SlotOf(k) \in 0 .. capacity - 1
           /\ \A k, l \in 1 .. elementsInside : SlotOf(k) = SlotOf(l) => k = l
<1>1. CASE head = InvalidIndex
  BY <1>1 DEF IInv, RingTypeOK, HeadTellsEmpty
<1>2. CASE head # InvalidIndex
  <2>1. GetTailIndex \in 0 .. capacity - 1 /\ elementsInside \in 1 .. capacity /\ capacity \in Nat
    BY <1>2, TailOK, CapacityAssumption DEF IInv, RingTypeOK
  <2> QED BY <2>1 DEF SlotOf, Around
<1> QED BY <1>1, <1>2

LEMMA InitOK == RingInit => IInv
BY CapacityAssumption DEF RingInit, IInv, RingTypeOK, HeadTellsEmpty, InvalidIndex, Uninitialised

LEMMA AddOK ==
    ASSUME IInv, NEW v \in Values, NEW index \in 0 .. capacity - 1, Add(index, v),
           capacity > elementsInside, head' \in 0 .. capacity - 1
    PROVE  IInv'
<1>1. memory' \in [0 .. capacity - 1 -> Values \cup {Garbage}] /\ capacity' = capacity
      /\ elementsInside' = elementsInside + 1 /\ result' = result
  BY DEF Add, IInv, RingTypeOK
<1>2. elementsInside' \in 0 .. capacity /\ elementsInside' # 0 /\ head' # InvalidIndex
  BY <1>1 DEF IInv, RingTypeOK, InvalidIndex
<1> QED BY <1>1, <1>2 DEF IInv, RingTypeOK, HeadTellsEmpty

\* Where a push puts its element.
LEMMA BackSlotOK ==
    ASSUME IInv, capacity > elementsInside
    PROVE  (IF GetTailIndex = InvalidIndex THEN 0 ELSE GetNextTailIndex) \in 0 .. capacity - 1
<1>1. CASE head = InvalidIndex
  BY <1>1 DEF GetTailIndex, IInv, RingTypeOK
<1>2. CASE head # InvalidIndex
  BY <1>2, TailOK DEF GetNextTailIndex, InvalidIndex, IInv, RingTypeOK
<1> QED BY <1>1, <1>2

LEMMA FrontSlotOK ==
    ASSUME IInv, capacity > elementsInside
    PROVE  (IF head = InvalidIndex THEN 0 ELSE GetNextHeadIndex) \in 0 .. capacity - 1
BY DEF GetNextHeadIndex, InvalidIndex, IInv, RingTypeOK

LEMMA HeadBelowOK ==
    ASSUME IInv, head # InvalidIndex, elementsInside > 1
    PROVE  HeadBelow = IF head = 0 THEN capacity - 1 ELSE head - 1
<1>1. capacity \in Nat /\ capacity > 1 /\ head \in Nat
  BY DEF IInv, RingTypeOK, InvalidIndex
<1>2. 1 % capacity = 1
  BY <1>1
<1> QED BY <1>1, <1>2 DEF HeadBelow

LEMMA WrappedBlockOK ==
    ASSUME IInv, Wrapped, NEW n \in Nat, n >= elementsInside
    PROVE  /\ head # InvalidIndex
           /\ WrappedBlock(n) \in [0 .. n - 1 -> Values \cup {Garbage}]
           /\ \A k \in 1 .. elementsInside : WrappedBlock(n)[k - 1] = memory[SlotOf(k)]
<1>1. head # InvalidIndex
  BY DEF Wrapped, GetTailIndex, InvalidIndex
<1>2. GetTailIndex \in 0 .. capacity - 1 /\ elementsInside \in 1 .. capacity
      /\ capacity \in Nat /\ memory \in [0 .. capacity - 1 -> Values \cup {Garbage}]
  BY <1>1, TailOK DEF IInv, RingTypeOK
<1>3. \A i \in 0 .. elementsInside - 1 : Around(GetTailIndex + i) \in 0 .. capacity - 1
  BY <1>2 DEF Around
<1>4. \A i \in 0 .. n - 1 :
        (IF i < elementsInside THEN memory[Around(GetTailIndex + i)] ELSE Garbage)
            \in Values \cup {Garbage}
  <2> TAKE i \in 0 .. n - 1
  <2>1. CASE i < elementsInside
    <3>1. i \in 0 .. elementsInside - 1
      BY <1>2, <2>1
    <3>2. memory[Around(GetTailIndex + i)] \in Values \cup {Garbage}
      BY <1>2, <1>3, <3>1
    <3> QED BY <2>1, <3>2
  <2>2. CASE ~(i < elementsInside)
    BY <2>2
  <2> QED BY <2>1, <2>2
<1>5. \A k \in 1 .. elementsInside : WrappedBlock(n)[k - 1] = memory[SlotOf(k)]
  <2> TAKE k \in 1 .. elementsInside
  <2>1. k - 1 \in 0 .. n - 1 /\ k - 1 < elementsInside
        /\ GetTailIndex + (k - 1) = GetTailIndex + k - 1
    BY <1>2
  <2> QED BY <2>1 DEF WrappedBlock, SlotOf
<1> QED BY <1>1, <1>4, <1>5 DEF WrappedBlock

LEMMA UnwrappedBlockOK ==
    ASSUME IInv, NEW n \in Nat, n > head
    PROVE  /\ UnwrappedBlock(n) \in [0 .. n - 1 -> Values \cup {Garbage}]
           /\ \A i \in 0 .. n - 1 :
                UnwrappedBlock(n)[i] = IF head # InvalidIndex /\ i < WholeElements
                                       THEN memory[i] ELSE Garbage
<1>1. /\ memory \in [0 .. capacity - 1 -> Values \cup {Garbage}] /\ capacity \in Nat
      /\ head = InvalidIndex \/ head \in 0 .. capacity - 1
  BY CapacityAssumption DEF IInv, RingTypeOK
<1>2. ASSUME head # InvalidIndex, NEW i \in 0 .. n - 1, i < WholeElements
      PROVE  memory[i] \in Values \cup {Garbage}
  <2>1. head \in Nat /\ head < capacity
    BY <1>1, <1>2
  <2>2. WholeElements \in Int /\ WholeElements <= 1 + head
    BY <2>1, DivOK DEF WholeElements
  <2>3. i \in 0 .. capacity - 1
    BY <1>1, <1>2, <2>1, <2>2
  <2> QED BY <1>1, <2>3
<1> QED BY <1>2 DEF UnwrappedBlock

LEMMA ResizeOK ==
    ASSUME IInv, NEW n \in 1 .. MaxCapacity, Resize(n)
    PROVE  IInv'
<1>1. n \in Nat /\ n >= elementsInside /\ capacity' = n
      /\ elementsInside' = elementsInside /\ result' = result /\ (Wrapped \/ n > head)
      /\ memory' = (IF Wrapped THEN WrappedBlock(n) ELSE UnwrappedBlock(n))
      /\ head' = (IF Wrapped THEN elementsInside - 1 ELSE head)
  BY DEF Resize
<1>2. CASE Wrapped
  <2>1. head # InvalidIndex /\ WrappedBlock(n) \in [0 .. n - 1 -> Values \cup {Garbage}]
    BY <1>1, <1>2, WrappedBlockOK
  <2>2. elementsInside \in 1 .. capacity
    BY <2>1, TailOK
  <2>3. head' \in 0 .. n - 1 /\ elementsInside' \in 0 .. n
    BY <1>1, <1>2, <2>2
  <2> QED BY <1>1, <1>2, <2>1, <2>2, <2>3
          DEF IInv, RingTypeOK, HeadTellsEmpty, InvalidIndex
<1>3. CASE ~Wrapped
  <2>1. UnwrappedBlock(n) \in [0 .. n - 1 -> Values \cup {Garbage}]
    BY <1>1, <1>3, UnwrappedBlockOK
  <2>2. elementsInside' \in 0 .. n /\ (head' \in 0 .. n - 1 \/ head' = InvalidIndex)
    BY <1>1, <1>3 DEF IInv, RingTypeOK, InvalidIndex
  <2> QED BY <1>1, <1>3, <2>1, <2>2 DEF IInv, RingTypeOK, HeadTellsEmpty
<1> QED BY <1>2, <1>3

LEMMA PopOK ==
    ASSUME IInv, PopFront \/ PopBack
    PROVE  IInv'
<1>1. head # InvalidIndex
  BY DEF PopFront, PopBack, GetTailIndex
<1>2. /\ head \in 0 .. capacity - 1 /\ elementsInside \in 1 .. capacity /\ capacity \in Nat
      /\ GetTailIndex \in 0 .. capacity - 1
      /\ memory \in [0 .. capacity - 1 -> Values \cup {Garbage}]
  BY <1>1, TailOK, CapacityAssumption DEF IInv, RingTypeOK
<1>3. memory' = memory /\ capacity' = capacity /\ result' \in Values \cup {Garbage}
  <2>1. CASE PopFront
    BY <1>2, <2>1 DEF PopFront
  <2>2. CASE PopBack
    BY <1>2, <2>2 DEF PopBack
  <2> QED BY <2>1, <2>2
<1>4. CASE elementsInside > 1
  <2>1. elementsInside' = elementsInside - 1 /\ head' \in 0 .. capacity - 1
    BY <1>1, <1>2, <1>4, HeadBelowOK DEF PopFront, PopBack
  <2>2. elementsInside' \in 0 .. capacity' /\ elementsInside' # 0 /\ head' # InvalidIndex
    BY <1>2, <1>3, <1>4, <2>1 DEF InvalidIndex
  <2> QED BY <1>3, <2>1, <2>2 DEF IInv, RingTypeOK, HeadTellsEmpty
<1>5. CASE ~(elementsInside > 1)
  <2>1. Emptied
    BY <1>5 DEF PopFront, PopBack
  <2> QED BY <1>2, <1>3, <2>1 DEF Emptied, IInv, RingTypeOK, HeadTellsEmpty
<1> QED BY <1>4, <1>5

LEMMA NextKeeps == IInv /\ [RingNext]_ringVars => IInv'
<1> SUFFICES ASSUME IInv, [RingNext]_ringVars PROVE IInv'
  OBVIOUS
<1>1. ASSUME NEW v \in Values, PushBack(v)
      PROVE  IInv'
  <2>1. capacity > elementsInside
    BY <1>1 DEF PushBack
  <2> DEFINE index == IF GetTailIndex = InvalidIndex THEN 0 ELSE GetNextTailIndex
  <2>2. index \in 0 .. capacity - 1 /\ Add(index, v)
    BY <1>1, <2>1, BackSlotOK DEF PushBack
  <2>3. head' \in 0 .. capacity - 1
    BY <1>1, <2>2 DEF PushBack, IInv, RingTypeOK
  <2> QED BY <2>1, <2>2, <2>3, AddOK
<1>2. ASSUME NEW v \in Values, PushFront(v)
      PROVE  IInv'
  <2>1. capacity > elementsInside
    BY <1>2 DEF PushFront
  <2> DEFINE index == IF head = InvalidIndex THEN 0 ELSE GetNextHeadIndex
  <2>2. index \in 0 .. capacity - 1 /\ Add(index, v) /\ head' = index
    BY <1>2, <2>1, FrontSlotOK DEF PushFront
  <2> QED BY <2>1, <2>2, AddOK
<1>3. CASE PushRefused \/ UNCHANGED ringVars
  BY <1>3 DEF PushRefused, ringVars, IInv, RingTypeOK, HeadTellsEmpty
<1>4. CASE PopFront \/ PopBack
  BY <1>4, PopOK
<1>5. CASE PopNothing
  BY <1>5 DEF PopNothing, IInv, RingTypeOK, HeadTellsEmpty
<1>6. CASE Clear
  BY <1>6, CapacityAssumption DEF Clear, Emptied, IInv, RingTypeOK, HeadTellsEmpty
<1>7. ASSUME NEW n \in 1 .. MaxCapacity, Resize(n)
      PROVE  IInv'
  BY <1>7, ResizeOK
<1> QED BY <1>1, <1>2, <1>3, <1>4, <1>5, <1>6, <1>7 DEF RingNext

\* Every state of a buffer that is used as RingSpec says has sound indices.
THEOREM IndicesSound == RingSpec => []IInv
BY InitOK, NextKeeps, PTL DEF RingSpec

\* No operation, in any order, lets an index leave the block.
THEOREM RingTypeCorrect == RingSpec => []RingTypeOK
BY IndicesSound, PTL DEF IInv

\* head and elementsInside never disagree on whether there is an element.
THEOREM EmptyIsTold == RingSpec => []HeadTellsEmpty
BY IndicesSound, PTL DEF IInv

-----------------------------------------------------------------------------
\* The same for values of the variables, so that it can be said of the next ones.
TailAt(h, e, c) == IF h = -1 THEN -1
                   ELSE IF h < e - 1 THEN c - (e - h - 1) ELSE h - (e - 1)
RoundAt(c, i) == IF i < c THEN i ELSE i - c
IndicesAt(h, e, c) == /\ c \in 1 .. MaxCapacity /\ e \in 0 .. c /\ h \in 0 .. c - 1 \cup {-1}
                      /\ h = -1 <=> e = 0

\* The slot of an element, counted down from head.
SlotAt(h, e, c, k) == IF h - e + k >= 0 THEN h - e + k ELSE h - e + k + c

LEMMA SlotArithmetic ==
    ASSUME NEW h, NEW e, NEW c, IndicesAt(h, e, c), NEW k \in 1 .. e
    PROVE  /\ c \in Nat /\ e \in 1 .. c /\ h \in 0 .. c - 1
           /\ RoundAt(c, TailAt(h, e, c) + k - 1) = SlotAt(h, e, c, k)
           /\ SlotAt(h, e, c, k) \in 0 .. c - 1
<1>1. c \in Nat /\ e \in 1 .. c /\ h \in 0 .. c - 1
  BY CapacityAssumption DEF IndicesAt
<1> QED BY <1>1 DEF RoundAt, TailAt, SlotAt

LEMMA NextIndices ==
    ASSUME IInv'
    PROVE  /\ IndicesAt(head', elementsInside', capacity')
           /\ memory' \in [0 .. capacity' - 1 -> Values \cup {Garbage}]
<1>1. memory' \in [0 .. capacity' - 1 -> Values \cup {Garbage}]
  BY DEF IInv, RingTypeOK
<1>2. head' = -1 <=> elementsInside' = 0
  BY DEF IInv, HeadTellsEmpty, InvalidIndex
<1>3. capacity' \in 1 .. MaxCapacity /\ elementsInside' \in 0 .. capacity'
      /\ head' \in 0 .. capacity' - 1 \cup {-1}
  BY Zenon DEF IInv, RingTypeOK, InvalidIndex
<1> QED BY <1>1, <1>2, <1>3, Zenon DEF IndicesAt

LEMMA SlotForm ==
    ASSUME IInv, NEW k \in 1 .. elementsInside
    PROVE  /\ head \in 0 .. capacity - 1
           /\ SlotOf(k) = SlotAt(head, elementsInside, capacity, k)
           /\ SlotOf(k) \in 0 .. capacity - 1
<1>1. head \in 0 .. capacity - 1 /\ elementsInside \in 1 .. capacity /\ capacity \in Nat
  BY CapacityAssumption DEF IInv, RingTypeOK, HeadTellsEmpty
<1> QED BY <1>1 DEF SlotOf, Around, GetTailIndex, SlotAt, InvalidIndex

LEMMA SlotFormNext ==
    ASSUME IInv', NEW k \in 1 .. elementsInside'
    PROVE  /\ head' \in 0 .. capacity' - 1
           /\ SlotOf(k)' = SlotAt(head', elementsInside', capacity', k)
           /\ SlotOf(k)' \in 0 .. capacity' - 1
<1>1. GetTailIndex' = TailAt(head', elementsInside', capacity')
  BY Zenon DEF GetTailIndex, InvalidIndex, TailAt
<1>2. SlotOf(k)' = RoundAt(capacity', TailAt(head', elementsInside', capacity') + k - 1)
  BY <1>1, Zenon DEF SlotOf, Around, RoundAt
<1>3. ASSUME NEW h, NEW e, NEW c, IndicesAt(h, e, c), k \in 1 .. e
      PROVE  /\ h \in 0 .. c - 1 /\ SlotAt(h, e, c, k) \in 0 .. c - 1
             /\ RoundAt(c, TailAt(h, e, c) + k - 1) = SlotAt(h, e, c, k)
  BY <1>3, SlotArithmetic
<1>4. IndicesAt(head', elementsInside', capacity')
  BY NextIndices
<1>5. /\ head' \in 0 .. capacity' - 1
      /\ SlotAt(head', elementsInside', capacity', k) \in 0 .. capacity' - 1
      /\ RoundAt(capacity', TailAt(head', elementsInside', capacity') + k - 1)
            = SlotAt(head', elementsInside', capacity', k)
  BY <1>3, <1>4, Zenon
<1> QED BY <1>2, <1>5, Zenon

LEMMA LookOK == IInv => LookFindsAll
<1> SUFFICES ASSUME IInv, NEW k \in 1 .. elementsInside
             PROVE  LookAtIndex(SlotOf(k))
  BY DEF LookFindsAll
<1>1. head \in 0 .. capacity - 1 /\ elementsInside \in 1 .. capacity /\ capacity \in Nat
      /\ GetTailIndex \in 0 .. capacity - 1
  BY SlotForm, TailOK, CapacityAssumption DEF IInv, RingTypeOK, InvalidIndex
<1> QED BY <1>1 DEF LookAtIndex, SlotOf, Around, GetTailIndex, InvalidIndex

\* LookAtIndex returns a pointer for every slot in use.
THEOREM LookFindsEverything == RingSpec => []LookFindsAll
BY IndicesSound, LookOK, PTL

-----------------------------------------------------------------------------
Cells == Values \cup {Garbage}

LEMMA ContentsOK ==
    ASSUME IInv
    PROVE  /\ Contents \in Seq(Cells) /\ Len(Contents) = elementsInside
           /\ \A k \in 1 .. elementsInside : Contents[k] = memory[SlotOf(k)]
           /\ elementsInside \in Nat
<1>1. elementsInside \in Nat /\ memory \in [0 .. capacity - 1 -> Cells]
  BY CapacityAssumption DEF IInv, RingTypeOK, Cells
<1>2. \A k \in 1 .. elementsInside : memory[SlotOf(k)] \in Cells
  BY <1>1, SlotForm
<1>3. Contents \in [1 .. elementsInside -> Cells]
  BY <1>2 DEF Contents
<1> QED BY <1>1, <1>3, SeqDef DEF Contents

LEMMA ContentsNextOK ==
    ASSUME IInv'
    PROVE  /\ Contents' \in Seq(Cells) /\ Len(Contents') = elementsInside'
           /\ \A k \in 1 .. elementsInside' : (Contents')[k] = (memory')[SlotOf(k)']
           /\ elementsInside' \in Nat
<1>0. ASSUME NEW c \in 1 .. MaxCapacity, NEW e \in 0 .. c
      PROVE  e \in Nat
  BY CapacityAssumption
<1>1. elementsInside' \in Nat /\ memory' \in [0 .. capacity' - 1 -> Cells]
  BY <1>0, NextIndices, Zenon DEF Cells, IndicesAt
<1>2. ASSUME NEW k \in 1 .. elementsInside'
      PROVE  (memory')[SlotOf(k)'] \in Cells
  BY <1>1, <1>2, SlotFormNext, Zenon
<1>3. Contents' = [k \in 1 .. elementsInside' |-> (memory')[SlotOf(k)']]
  BY DEF Contents
<1>4. Contents' \in [1 .. elementsInside' -> Cells]
  BY <1>2, <1>3
<1> QED BY <1>1, <1>3, <1>4, SeqDef

LEMMA PushBackRefines ==
    ASSUME IInv, IInv', NEW v \in Values, PushBack(v)
    PROVE  Deque!AddBack(v)
<1>1. /\ capacity > elementsInside /\ capacity' = capacity /\ result' = result
      /\ elementsInside' = elementsInside + 1 /\ capacity \in Nat /\ elementsInside \in Nat
  BY CapacityAssumption DEF PushBack, Add, IInv, RingTypeOK
<1> DEFINE index == IF GetTailIndex = InvalidIndex THEN 0 ELSE GetNextTailIndex
<1>2. memory' = [memory EXCEPT ![index] = v] /\ index \in 0 .. capacity - 1
      /\ memory \in [0 .. capacity - 1 -> Cells]
      /\ head' = IF head = InvalidIndex THEN index ELSE head
  BY <1>1, BackSlotOK DEF PushBack, Add, IInv, RingTypeOK, Cells
<1> HIDE DEF index
<1>3. index = SlotOf(1)'
  <2>1. SlotOf(1)' = SlotAt(head', elementsInside', capacity', 1) /\ head' \in 0 .. capacity - 1
    BY <1>1, SlotFormNext
  <2>2. CASE head = InvalidIndex
    <3>1. elementsInside = 0 /\ index = 0 /\ head' = 0
      BY <1>2, <2>2 DEF IInv, HeadTellsEmpty, GetTailIndex, index
    <3> QED BY <1>1, <2>1, <3>1 DEF SlotAt
  <2>3. CASE head # InvalidIndex
    <3>1. head' = head /\ elementsInside \in 1 .. capacity /\ head \in 0 .. capacity - 1
          /\ GetTailIndex \in 0 .. capacity - 1
      BY <1>2, <2>3, TailOK
    <3>2. index = GetNextTailIndex
      BY <3>1 DEF index, InvalidIndex
    <3> QED BY <1>1, <2>1, <2>3, <3>1, <3>2 DEF SlotAt, GetNextTailIndex, GetTailIndex
  <2> QED BY <2>2, <2>3
<1>4. ASSUME NEW k \in 2 .. elementsInside + 1
      PROVE  (memory')[SlotOf(k)'] = memory[SlotOf(k - 1)]
  <2>1. k - 1 \in 1 .. elementsInside /\ k \in 1 .. elementsInside' /\ 1 \in 1 .. elementsInside'
    BY <1>1, <1>4
  <2>2. head' = head /\ head \in 0 .. capacity - 1 /\ SlotOf(k - 1) \in 0 .. capacity - 1
    BY <1>2, <2>1, SlotForm DEF InvalidIndex
  <2>3. SlotOf(k)' = SlotOf(k - 1)
    BY <1>1, <2>1, <2>2, SlotForm, SlotFormNext DEF SlotAt
  <2>4. SlotOf(k)' # SlotOf(1)'
    BY <1>1, <1>4, <2>1, <2>2, SlotFormNext DEF SlotAt
  <2> QED BY <1>2, <1>3, <2>2, <2>3, <2>4
<1>5. Contents' = <<v>> \o Contents
  <2> DEFINE longer == <<v>> \o Contents
  <2>1. <<v>> \in Seq(Cells) /\ Len(<<v>>) = 1 /\ <<v>>[1] = v
    BY DEF Cells
  <2>2. /\ longer \in Seq(Cells) /\ Len(longer) = elementsInside + 1
        /\ \A k \in 1 .. elementsInside + 1 : longer[k] = IF k <= 1 THEN v ELSE Contents[k - 1]
    BY <2>1, ContentsOK, ConcatProperties
  <2>3. ASSUME NEW k \in 1 .. elementsInside'
        PROVE  (Contents')[k] = longer[k]
    <3>1. CASE k = 1
      <4>1. (Contents')[1] = (memory')[SlotOf(1)']
        BY <1>1, ContentsNextOK
      <4> QED BY <1>1, <1>2, <1>3, <2>2, <3>1, <4>1
    <3>2. CASE k # 1
      <4>1. k \in 2 .. elementsInside + 1 /\ k - 1 \in 1 .. elementsInside
        BY <1>1, <2>3, <3>2
      <4>2. (Contents')[k] = memory[SlotOf(k - 1)]
        BY <1>4, <2>3, <4>1, ContentsNextOK
      <4>3. longer[k] = Contents[k - 1]
        BY <1>1, <2>2, <4>1
      <4> QED BY <4>1, <4>2, <4>3, ContentsOK
    <3> QED BY <3>1, <3>2
  <2>4. Contents' \in Seq(Cells) /\ Len(Contents') = elementsInside + 1
    BY <1>1, ContentsNextOK
  <2> HIDE DEF longer
  <2>5. Contents' = longer
    BY <1>1, <2>2, <2>3, <2>4, SeqEqual
  <2> QED BY <2>5 DEF longer
<1> QED BY <1>1, <1>5, ContentsOK DEF Deque!AddBack

LEMMA PushFrontRefines ==
    ASSUME IInv, IInv', NEW v \in Values, PushFront(v)
    PROVE  Deque!AddFront(v)
<1>1. /\ capacity > elementsInside /\ capacity' = capacity /\ result' = result
      /\ elementsInside' = elementsInside + 1 /\ capacity \in Nat /\ elementsInside \in Nat
  BY CapacityAssumption DEF PushFront, Add, IInv, RingTypeOK
<1>2. /\ memory' = [memory EXCEPT ![head'] = v] /\ head' \in 0 .. capacity - 1
      /\ memory \in [0 .. capacity - 1 -> Cells]
      /\ head' = IF head = InvalidIndex THEN 0 ELSE GetNextHeadIndex
  BY <1>1, FrontSlotOK DEF PushFront, Add, IInv, RingTypeOK, Cells
<1>3. ASSUME NEW k \in Nat, k = elementsInside + 1
      PROVE  SlotOf(k)' = head'
  <2>1. k \in 1 .. elementsInside'
    BY <1>1, <1>3
  <2>2. SlotOf(k)' = SlotAt(head', elementsInside + 1, capacity, k)
    BY <1>1, <2>1, SlotFormNext
  <2>3. ASSUME NEW h \in 0 .. capacity - 1
        PROVE  SlotAt(h, elementsInside + 1, capacity, k) = h
    BY <1>1, <1>3 DEF SlotAt
  <2> QED BY <1>2, <2>2, <2>3
<1>4. ASSUME NEW k \in 1 .. elementsInside
      PROVE  (memory')[SlotOf(k)'] = memory[SlotOf(k)]
  <2>1. k \in 1 .. elementsInside'
    BY <1>1, <1>4
  <2>2. /\ SlotOf(k) = SlotAt(head, elementsInside, capacity, k)
        /\ SlotOf(k) \in 0 .. capacity - 1 /\ head \in 0 .. capacity - 1
    BY SlotForm
  <2>3. SlotOf(k)' = SlotAt(head', elementsInside + 1, capacity, k)
    BY <1>1, <2>1, SlotFormNext
  <2>4. head' = IF head = capacity - 1 THEN 0 ELSE head + 1
    BY <1>2, <2>2 DEF GetNextHeadIndex, InvalidIndex
  <2>5. SlotOf(k)' = SlotOf(k) /\ SlotOf(k) # head'
    BY <1>1, <1>4, <2>2, <2>3, <2>4 DEF SlotAt
  <2> QED BY <1>2, <2>2, <2>5
<1>5. Contents' = Append(Contents, v)
  <2> DEFINE longer == Append(Contents, v)
  <2>1. /\ Contents \in Seq(Cells) /\ v \in Cells /\ Len(Contents) = elementsInside
        /\ Contents' \in Seq(Cells) /\ Len(Contents') = elementsInside + 1
    BY <1>1, ContentsOK, ContentsNextOK DEF Cells
  <2>2. /\ longer \in Seq(Cells) /\ Len(longer) = elementsInside + 1
        /\ longer[elementsInside + 1] = v
        /\ \A k \in 1 .. elementsInside : longer[k] = Contents[k]
    BY <1>1, <2>1
  <2> HIDE DEF longer
  <2>3. ASSUME NEW k \in 1 .. elementsInside + 1
        PROVE  (Contents')[k] = longer[k]
    <3>1. (Contents')[k] = (memory')[SlotOf(k)']
      BY <1>1, <2>3, ContentsNextOK
    <3>2. CASE k = elementsInside + 1
      <4>1. SlotOf(k)' = head'
        BY <1>1, <1>3, <3>2
      <4> QED BY <1>2, <2>2, <3>1, <3>2, <4>1
    <3>3. CASE k # elementsInside + 1
      <4>1. k \in 1 .. elementsInside
        BY <1>1, <2>3, <3>3
      <4> QED BY <1>4, <2>2, <3>1, <4>1, ContentsOK
    <3> QED BY <3>2, <3>3
  <2>4. Contents' = longer
    BY <2>1, <2>2, <2>3, SeqEqual
  <2> QED BY <2>4 DEF longer
<1> QED BY <1>1, <1>5, ContentsOK DEF Deque!AddFront

\* Popping the last element leaves an empty deque.
LEMMA EmptiedOK ==
    ASSUME IInv', elementsInside' = 0
    PROVE  Contents' = <<>>
BY ContentsNextOK, EmptySeq

LEMMA PopFrontRefines ==
    ASSUME IInv, IInv', PopFront
    PROVE  Deque!TakeFront
<1>1. /\ head # InvalidIndex /\ capacity' = capacity /\ memory' = memory
      /\ result' = memory[head] /\ capacity \in Nat
      /\ head \in 0 .. capacity - 1 /\ elementsInside \in 1 .. capacity
  BY TailOK, CapacityAssumption DEF PopFront, IInv, RingTypeOK
<1>2. Contents[elementsInside] = memory[head]
  <2>1. SlotOf(elementsInside) = head
    BY <1>1, SlotForm DEF SlotAt
  <2> QED BY <1>1, <2>1, ContentsOK
<1>3. elementsInside' = elementsInside - 1
  BY <1>1 DEF PopFront, Emptied
<1> DEFINE shorter == SubSeq(Contents, 1, elementsInside - 1)
<1>4. /\ shorter \in Seq(Cells) /\ Len(shorter) = elementsInside - 1
      /\ \A k \in 1 .. elementsInside - 1 : shorter[k] = Contents[k]
  BY <1>1, ContentsOK
<1> HIDE DEF shorter
<1>5. ASSUME NEW k \in 1 .. elementsInside - 1
      PROVE  (Contents')[k] = shorter[k]
  <2>1. elementsInside > 1 /\ k \in 1 .. elementsInside /\ k \in 1 .. elementsInside'
    BY <1>1, <1>3, <1>5
  <2>2. head' = IF head = 0 THEN capacity - 1 ELSE head - 1
    BY <1>1, <2>1, HeadBelowOK DEF PopFront
  <2>3. /\ SlotOf(k) = SlotAt(head, elementsInside, capacity, k)
        /\ SlotOf(k)' = SlotAt(head', elementsInside - 1, capacity, k)
    BY <1>1, <1>3, <2>1, SlotForm, SlotFormNext
  <2>4. SlotOf(k)' = SlotOf(k)
    BY <1>1, <2>1, <2>2, <2>3 DEF SlotAt
  <2> QED BY <1>1, <1>4, <2>1, <2>4, ContentsOK, ContentsNextOK
<1>6. Contents' = shorter
  <2>1. Contents' \in Seq(Cells) /\ Len(Contents') = elementsInside - 1
    BY <1>3, ContentsNextOK
  <2> QED BY <1>4, <1>5, <2>1, SeqEqual
<1>7. Len(Contents) = elementsInside /\ Contents # <<>>
  BY <1>1, ContentsOK
<1> QED BY <1>1, <1>2, <1>6, <1>7 DEF Deque!TakeFront, shorter

LEMMA PopBackRefines ==
    ASSUME IInv, IInv', PopBack
    PROVE  Deque!TakeBack
<1>1. /\ head # InvalidIndex /\ capacity' = capacity /\ memory' = memory
      /\ result' = memory[GetTailIndex] /\ capacity \in Nat
      /\ GetTailIndex \in 0 .. capacity - 1
      /\ head \in 0 .. capacity - 1 /\ elementsInside \in 1 .. capacity
  BY TailOK, CapacityAssumption DEF PopBack, IInv, RingTypeOK, GetTailIndex
<1>2. Contents[1] = memory[GetTailIndex]
  <2>1. SlotOf(1) = GetTailIndex
    BY <1>1 DEF SlotOf, Around
  <2> QED BY <1>1, <2>1, ContentsOK
<1>3. elementsInside' = elementsInside - 1
  BY <1>1 DEF PopBack, Emptied
<1>4. Contents # <<>> /\ Head(Contents) = Contents[1]
  BY <1>1, ContentsOK
<1> DEFINE shorter == Tail(Contents)
<1>5. /\ shorter \in Seq(Cells) /\ Len(shorter) = elementsInside - 1
      /\ \A k \in 1 .. elementsInside - 1 : shorter[k] = Contents[k + 1]
  BY <1>4, ContentsOK, HeadTailProperties
<1> HIDE DEF shorter
<1>6. ASSUME NEW k \in 1 .. elementsInside - 1
      PROVE  (Contents')[k] = shorter[k]
  <2>1. elementsInside > 1 /\ k + 1 \in 1 .. elementsInside /\ k \in 1 .. elementsInside'
    BY <1>1, <1>3, <1>6
  <2>2. head' = head
    BY <1>1, <2>1 DEF PopBack
  <2>3. /\ SlotOf(k + 1) = SlotAt(head, elementsInside, capacity, k + 1)
        /\ SlotOf(k)' = SlotAt(head, elementsInside - 1, capacity, k)
    BY <1>1, <1>3, <2>1, <2>2, SlotForm, SlotFormNext
  <2>4. SlotOf(k)' = SlotOf(k + 1)
    BY <1>1, <2>1, <2>3 DEF SlotAt
  <2> QED BY <1>1, <1>5, <2>1, <2>4, ContentsOK, ContentsNextOK
<1>7. Contents' = shorter
  <2>1. Contents' \in Seq(Cells) /\ Len(Contents') = elementsInside - 1
    BY <1>3, ContentsNextOK
  <2> QED BY <1>5, <1>6, <2>1, SeqEqual
<1> QED BY <1>1, <1>2, <1>4, <1>7 DEF Deque!TakeBack, shorter

\* How many elements, from the back, a resize brings into the new block.
Kept == IF Wrapped \/ head = InvalidIndex THEN elementsInside
        ELSE IF WholeElements > GetTailIndex THEN WholeElements - GetTailIndex ELSE 0

LEMMA KeptOK ==
    ASSUME IInv
    PROVE  /\ Kept \in 0 .. MaxCapacity
           /\ ElementSize = 1 \/ Wrapped \/ head <= 0 => Kept = elementsInside
<1>1. CASE Wrapped \/ head = InvalidIndex
  BY <1>1, CapacityAssumption DEF Kept, IInv, RingTypeOK
<1>2. CASE ~Wrapped /\ head # InvalidIndex
  <2>1. /\ GetTailIndex \in 0 .. capacity - 1 /\ head \in 0 .. capacity - 1
        /\ elementsInside \in 1 .. capacity /\ capacity \in 1 .. MaxCapacity
        /\ GetTailIndex = head - (elementsInside - 1)
    BY <1>2, TailOK DEF IInv, RingTypeOK, GetTailIndex
  <2>2. /\ WholeElements \in 1 .. head + 1
        /\ ElementSize = 1 => WholeElements = head + 1
    BY <2>1, DivOK DEF WholeElements
  <2>3. Kept = IF WholeElements > GetTailIndex THEN WholeElements - GetTailIndex ELSE 0
    BY <1>2 DEF Kept
  <2>4. Kept \in 0 .. MaxCapacity
    BY <2>1, <2>2, <2>3, CapacityAssumption
  <2>5. ElementSize = 1 \/ head <= 0 => Kept = elementsInside
    BY <2>1, <2>2, <2>3
  <2> QED BY <1>2, <2>4, <2>5
<1> QED BY <1>1, <1>2

LEMMA ResizeElements ==
    ASSUME IInv, IInv', NEW n \in 1 .. MaxCapacity, Resize(n), NEW k \in 1 .. elementsInside
    PROVE  (Contents')[k] = IF k <= Kept THEN Contents[k] ELSE Garbage
<1>1. /\ n \in Nat /\ n >= elementsInside /\ capacity' = n /\ elementsInside' = elementsInside
      /\ memory' = (IF Wrapped THEN WrappedBlock(n) ELSE UnwrappedBlock(n))
      /\ head' = (IF Wrapped THEN elementsInside - 1 ELSE head) /\ (Wrapped \/ n > head)
  BY DEF Resize
<1>2. /\ capacity \in Nat /\ elementsInside \in 1 .. capacity /\ head \in 0 .. capacity - 1
      /\ SlotOf(k) = SlotAt(head, elementsInside, capacity, k)
      /\ Contents[k] = memory[SlotOf(k)]
  BY SlotForm, ContentsOK, CapacityAssumption DEF IInv, RingTypeOK
<1>3. k \in 1 .. elementsInside' /\ (Contents')[k] = (memory')[SlotOf(k)']
  BY <1>1, ContentsNextOK
<1>4. CASE Wrapped
  <2>1. SlotOf(k)' = SlotAt(elementsInside - 1, elementsInside, n, k)
    BY <1>1, <1>3, <1>4, SlotFormNext
  <2>2. SlotOf(k)' = k - 1
    BY <1>2, <2>1 DEF SlotAt
  <2>3. WrappedBlock(n)[k - 1] = memory[SlotOf(k)]
    BY <1>1, <1>4, WrappedBlockOK
  <2>4. k <= Kept
    BY <1>2, <1>4 DEF Kept
  <2> QED BY <1>1, <1>2, <1>3, <1>4, <2>2, <2>3, <2>4
<1>5. CASE ~Wrapped
  <2>1. SlotOf(k)' = SlotAt(head, elementsInside, n, k)
    BY <1>1, <1>3, <1>5, SlotFormNext
  <2>2. head >= elementsInside - 1 /\ GetTailIndex = head - (elementsInside - 1)
        /\ head # InvalidIndex
    BY <1>2, <1>5, TailOK DEF GetTailIndex, InvalidIndex
  <2>3. SlotOf(k)' = SlotOf(k) /\ SlotOf(k) = GetTailIndex + k - 1 /\ SlotOf(k) \in 0 .. n - 1
    BY <1>1, <1>2, <1>5, <2>1, <2>2 DEF SlotAt
  <2>4. UnwrappedBlock(n)[SlotOf(k)] = IF SlotOf(k) < WholeElements
                                       THEN memory[SlotOf(k)] ELSE Garbage
    BY <1>1, <1>5, <2>2, <2>3, UnwrappedBlockOK
  <2>5. WholeElements \in Int
    BY <1>2, DivOK DEF WholeElements
  <2>6. SlotOf(k) < WholeElements <=> k <= Kept
    <3>1. Kept = IF WholeElements > GetTailIndex THEN WholeElements - GetTailIndex ELSE 0
      BY <1>5, <2>2 DEF Kept
    <3>2. GetTailIndex \in Int /\ k \in 1 .. elementsInside /\ SlotOf(k) = GetTailIndex + k - 1
      BY <1>2, <2>2, <2>3
    <3> QED BY <1>2, <2>5, <3>1, <3>2
  <2> QED BY <1>1, <1>2, <1>3, <1>5, <2>3, <2>4, <2>6
<1> QED BY <1>4, <1>5

LEMMA ResizeRefines ==
    ASSUME IInv, IInv', NEW n \in 1 .. MaxCapacity, Resize(n)
    PROVE  /\ \E kept \in 0 .. MaxCapacity : Deque!Regrow(n, kept)
           /\ ElementSize = 1 \/ Wrapped \/ head <= 0 => Contents' = Contents
<1>1. n >= elementsInside /\ capacity' = n /\ elementsInside' = elementsInside /\ result' = result
  BY DEF Resize
<1>2. /\ Contents \in Seq(Cells) /\ Len(Contents) = elementsInside
      /\ Contents' \in Seq(Cells) /\ Len(Contents') = elementsInside /\ elementsInside \in Nat
  BY <1>1, ContentsOK, ContentsNextOK
<1>3. DOMAIN Contents = 1 .. elementsInside /\ DOMAIN Contents' = 1 .. elementsInside
  BY <1>2, LenProperties
<1>4. Contents' = [k \in 1 .. elementsInside |-> (Contents')[k]]
  BY <1>2, <1>3, LenProperties
<1>5. Contents' = [k \in DOMAIN Contents |-> IF k <= Kept THEN Contents[k] ELSE Garbage]
  BY <1>3, <1>4, ResizeElements
<1>6. Deque!Regrow(n, Kept)
  BY <1>1, <1>2, <1>5 DEF Deque!Regrow
<1>7. ASSUME ElementSize = 1 \/ Wrapped \/ head <= 0
      PROVE  Contents' = Contents
  <2>1. Kept = elementsInside
    BY <1>7, KeptOK
  <2>2. \A k \in 1 .. elementsInside : (Contents')[k] = Contents[k]
    BY <1>2, <2>1, ResizeElements
  <2> QED BY <1>2, <2>2, SeqEqual
<1> QED BY <1>6, <1>7, KeptOK

-----------------------------------------------------------------------------
LEMMA StepRefines == IInv /\ IInv' /\ [RingNext]_ringVars => [Deque!AbsNext]_(Deque!avars)
<1> SUFFICES ASSUME IInv, IInv', [RingNext]_ringVars
             PROVE  [Deque!AbsNext]_(Deque!avars)
  OBVIOUS
<1>1. ASSUME NEW v \in Values, PushBack(v) \/ PushFront(v)
      PROVE  Deque!AbsNext
  BY <1>1, PushBackRefines, PushFrontRefines DEF Deque!AbsNext
<1>2. CASE PopFront \/ PopBack
  BY <1>2, PopFrontRefines, PopBackRefines DEF Deque!AbsNext
<1>3. CASE PopNothing
  <2>1. elementsInside = 0 /\ elementsInside' = 0 /\ capacity' = capacity
        /\ result' \in {Default, Garbage}
    BY <1>3 DEF PopNothing, IInv, HeadTellsEmpty
  <2>2. Contents = <<>> /\ Contents' = <<>>
    BY <2>1, EmptiedOK, ContentsOK, EmptySeq
  <2> QED BY <2>1, <2>2 DEF Deque!TakeNothing, Deque!AbsNext
<1>4. CASE Clear
  <2>1. elementsInside' = 0 /\ capacity' = capacity /\ result' = result
    BY <1>4 DEF Clear, Emptied
  <2>2. Contents' = <<>>
    BY <2>1, EmptiedOK
  <2> QED BY <2>1, <2>2 DEF Deque!Empty, Deque!AbsNext
<1>5. ASSUME NEW n \in 1 .. MaxCapacity, Resize(n)
      PROVE  Deque!AbsNext
  BY <1>5, ResizeRefines DEF Deque!AbsNext
<1>6. CASE PushRefused \/ UNCHANGED ringVars
  <2>1. /\ memory' = memory /\ head' = head /\ elementsInside' = elementsInside
        /\ capacity' = capacity /\ result' = result
    BY <1>6 DEF PushRefused, ringVars
  <2>2. Contents' = Contents
    BY <2>1 DEF Contents, SlotOf, Around, GetTailIndex
  <2> QED BY <2>1, <2>2 DEF Deque!avars
<1> QED BY <1>1, <1>2, <1>3, <1>4, <1>5, <1>6 DEF RingNext

LEMMA InitRefines == RingInit => Deque!AbsInit
<1> SUFFICES ASSUME RingInit PROVE Deque!AbsInit
  OBVIOUS
<1>1. IInv /\ elementsInside = 0
  BY InitOK DEF RingInit
<1>2. Contents = <<>>
  BY <1>1, ContentsOK, EmptySeq
<1> QED BY <1>2 DEF RingInit, Deque!AbsInit

\* Whatever wraps and wherever head has got to, pushes, pops, Clear and Resize
\* are those of a deque.
THEOREM RingRefinement == RingSpec => RingImplements
<1>1. RingInit => Deque!AbsInit
  BY InitRefines
<1>2. IInv /\ IInv' /\ [RingNext]_ringVars => [Deque!AbsNext]_(Deque!avars)
  BY StepRefines
<1> QED BY <1>1, <1>2, IndicesSound, PTL DEF RingSpec, RingImplements, Deque!AbsSpec

\* A resize loses nothing where elements are bytes, where they wrap and where
\* only the first slot counts.
THEOREM ResizeKeepsAll == RingSpec => ResizeKeeps
<1> DEFINE Keeps == \A n \in 1 .. MaxCapacity :
        Resize(n) /\ (ElementSize = 1 \/ Wrapped \/ head <= 0) => Contents' = Contents
<1>1. IInv /\ IInv' => Keeps
  BY ResizeRefines
<1> QED BY <1>1, IndicesSound, PTL DEF ResizeKeeps

-----------------------------------------------------------------------------
(* What is left to do, from the end: the call's return is the first, what  *)
(* is done next the last, and a step changes only the last.                *)
left == Len(todo)
step == [j \in 1 .. Len(todo) |-> todo[Len(todo) + 1 - j]]
Doing == step[left]

Letting == {"drop", "release", "forget"}
Acquiring == {"acquire", "acquireRaw"}
Deleting == Letting \cup {"free"}

\* The variables and members; Temp is not assigned by a call.
Targets == Locals \cup Addresses

Calls == {"make", "copy", "move", "reset", "resetRaw", "release", "makeUnique",
          "resetUnique", "share"}

Steps ==
    [do : Letting, h : Shared, of : {Null}]
    \cup [do : {"free"}, h : Addresses, of : {Null}]
    \cup [do : {"acquire"}, h : Targets, of : Shared]
    \cup [do : {"acquireRaw"}, h : Targets, of : Pointers]
    \cup [do : {"delete"}, h : Uniques, of : {Null}]
    \cup [do : {"take"}, h : Uniques, of : Pointers]
    \cup [do : {"return"}, h : Calls, of : Shared \cup Uniques \cup {Null}]

HandlesTypeOK ==
    /\ Data \in [Shared -> Pointers] /\ alive \subseteq Addresses
    /\ unique \in [Uniques -> Pointers] /\ weak \in [Weaks -> Pointers]
    /\ RefMap \in [DOMAIN RefMap -> Nat \ {0}] /\ DOMAIN RefMap \subseteq Addresses
    /\ todo \in Seq(Steps)
    /\ left > 0 => step[1].do = "return" /\ \A j \in 2 .. left : step[j].do # "return"

-----------------------------------------------------------------------------
(* The order of a call.                                                    *)

\* t is what is done after s.
Follows(s, t) ==
    /\ t.do = "free" => s.do \in Letting /\ s.h = t.h
    /\ t.do = "forget" => s.do = "free" /\ s.h = Data[t.h]
    /\ t.do \in Acquiring => s.do \in Letting /\ s.h = t.h
    /\ t.do = "take" => \/ s.do = "delete" /\ s.h = t.h
                        \/ s.do = "take" /\ s.h = t.h /\ s.of = Null
                        \/ s.do = "free" /\ t.of = Null /\ s.h = unique[t.h]
    /\ t.do = "release" => s.do = "acquire" /\ s.of = t.h /\ s.h # t.h
    /\ t.do = "drop" => s.do = "acquire" /\ t.h = Temp
    /\ t.do # "delete"

\* Objects are deleted before anything is acquired or taken.
OrderOK ==
    /\ \A j \in 1 .. left - 1 : Follows(step[j + 1], step[j])
    /\ \A i, j \in 1 .. left : i > j =>
         /\ step[j].do \in Acquiring \cup {"free", "forget"} => step[i].do \in Deleting
         /\ step[j].do = "take" => step[i].do \in Deleting \cup {"delete", "take"}
         /\ step[j].do = "forget" /\ step[j].h \in Addresses /\ step[i].do \in Letting
              => step[i].h \in Addresses
         /\ step[i].do = "free" /\ step[j].do = "free" => step[i].h # step[j].h

-----------------------------------------------------------------------------
(* Who holds what.                                                         *)
Freed(a) == \E j \in 1 .. left : step[j].do = "free" /\ step[j].h = a
Taken(a) == \E j \in 1 .. left : step[j].do = "take" /\ step[j].of = a
Owned(a) == \E u \in Uniques : unique[u] = a

\* A handle whose object is being deleted, and which will forget it.
Forgets(h) == \E j \in 1 .. left - 1 : step[j].do = "forget" /\ step[j].h = h

\* The handle that has given up its object, and forgets it next.
Forgetting == IF left > 0 /\ Doing.do = "forget" THEN {Doing.h} ELSE {}
Holders(a) == {h \in Shared \ Forgetting : Data[h] = a}

CountOK ==
    /\ \A a \in DOMAIN RefMap : IsFiniteSet(Holders(a)) /\ RefMap[a] = Cardinality(Holders(a))
    /\ \A h \in Shared \ Forgetting : Data[h] # Null => Counted(Data[h]) \/ Forgets(h)
    /\ Data[Temp] # Null => \E j \in 1 .. left : step[j].do \in Letting /\ step[j].h = Temp

AliveOK ==
    /\ \A a \in Addresses : Counted(a) \/ Freed(a) => a \in alive
    /\ \A a \in Addresses : Freed(a) => ~Counted(a)
    /\ \A a \in alive : Counted(a) \/ Freed(a) \/ Owned(a) \/ Taken(a)

UniqueOK ==
    /\ \A u \in Uniques : unique[u] # Null =>
         /\ ~Counted(unique[u])
         /\ unique[u] \in alive \/ (left > 0 /\ Doing.do = "take" /\ Doing.h = u)
         /\ Freed(unique[u]) => \E j \in 1 .. left - 1 :
              step[j].do = "take" /\ step[j].h = u /\ step[j + 1].do = "free"
         /\ \A v \in Uniques : unique[v] = unique[u] => v = u
    /\ \A j \in 1 .. left : step[j].do = "take" /\ step[j].of # Null =>
         /\ step[j].of \in alive /\ ~Counted(step[j].of) /\ ~Freed(step[j].of)
         /\ ~Owned(step[j].of)
    /\ \A j \in 1 .. left : step[j].do = "acquireRaw" => step[j].of = Null \/ ~Owned(step[j].of)

\* What holds when a step is the next.
Anchored(a) == Owned(a) \/ \E l \in Locals \cup {Temp} : Data[l] = a
Spared(h) == \E g \in Shared \ {h} : Data[g] = Data[h]

DoingOK ==
    left > 0 =>
        /\ Doing.do \in Acquiring \cup {"free"} => Data[Doing.h] = Null
        /\ Doing.do = "forget" => ~Freed(Data[Doing.h])
        /\ Doing.do = "take" => unique[Doing.h] \notin alive
        /\ Doing.do \in {"drop", "release"} /\ Doing.h \in Addresses =>
             \/ left > 1 /\ step[left - 1].do = "free" /\ step[left - 1].h = Doing.h
             \/ Anchored(Doing.h) \/ Data[Doing.h] = Null \/ Spared(Doing.h)

\* A member that outlives what it lets go of.
LaterOK ==
    \A j \in 1 .. left - 1 : \A g \in Addresses : step[j].do = "forget" /\ step[j].h = g =>
        \/ j > 1 /\ step[j - 1].do = "free" /\ step[j - 1].h = g
        \/ Anchored(g) /\ ~Freed(g)

\* What is assigned.
SourceOK ==
    \A j \in 1 .. left :
        /\ step[j].do = "acquire" /\ step[j].of \in Addresses =>
             step[1].h \in {"copy", "move"} /\ step[1].of \notin Locals
        /\ step[j].do = "acquireRaw" =>
             /\ step[1].h = "resetRaw"
             /\ step[1].of \in Locals =>
                  /\ Data[step[1].of] = step[j].of
                  /\ \A i \in j .. left : step[i].do \in Letting => step[i].h # step[1].of

HInv ==
    /\ HandlesTypeOK /\ OrderOK /\ CountOK /\ AliveOK /\ UniqueOK /\ DoingOK /\ LaterOK
    /\ SourceOK

-----------------------------------------------------------------------------
(* Steps from the end.                                                     *)

LEMMA StepsOK ==
    ASSUME HandlesTypeOK
    PROVE  /\ left \in Nat /\ (todo # <<>> <=> left > 0)
           /\ \A j \in 1 .. left : step[j] \in Steps
           /\ left > 0 => Head(todo) = Doing /\ Doing \in Steps /\ left \in 1 .. left
BY DEF HandlesTypeOK, left, step, Doing

LEMMA Kinds ==
    ASSUME NEW s \in Steps
    PROVE  /\ s.do \in Letting => s.h \in Shared
           /\ s.do = "free" => s.h \in Addresses
           /\ s.do = "acquire" => s.h \in Targets /\ s.of \in Shared
           /\ s.do = "acquireRaw" => s.h \in Targets /\ s.of \in Pointers
           /\ s.do = "delete" => s.h \in Uniques
           /\ s.do = "take" => s.h \in Uniques /\ s.of \in Pointers
BY DEF Steps, Letting

\* None of the kinds of handles is another.
LEMMA Names ==
    /\ Addresses \subseteq Shared /\ Targets \subseteq Shared /\ Locals \subseteq Shared
    /\ Temp \in Shared /\ Temp \notin Targets /\ Temp \notin Addresses
    /\ Null \notin Addresses /\ Null \in Pointers /\ Addresses \subseteq Pointers
    /\ \A p \in Pointers : p # Null => p \in Addresses
    /\ \A h \in Shared : h \notin Addresses => h \in Locals \cup {Temp}
    /\ \A l \in Locals \cup {Temp} : l \notin Addresses /\ l \in Shared
    /\ Null \notin Shared
BY HandlesAssumption DEF Shared, Targets, Pointers

Same == \A j \in 1 .. left - 1 : step'[j] = step[j]
Pops == left' = left - 1 /\ Same
Puts(s) == left' = left /\ Same /\ step'[left] = s
Deletes(a, s) ==
    /\ left' = left + 2 /\ Same /\ step'[left] = s
    /\ step'[left + 1] = Do("free", a, Null) /\ step'[left + 2] = Drop(a)

LEMMA StepIs ==
    /\ \A j \in 1 .. left : step[j] = todo[left + 1 - j]
    /\ \A j \in 1 .. left' : step'[j] = todo'[left' + 1 - j]
BY DEF left, step

LEMMA ThenPops ==
    ASSUME HandlesTypeOK, left > 0, Then(<<>>)
    PROVE  Pops /\ todo' \in Seq(Steps)
<1>1. todo \in Seq(Steps) /\ todo # <<>> /\ left \in Nat
  BY StepsOK DEF HandlesTypeOK
<1>2. todo' = Tail(todo)
  BY <1>1 DEF Then
<1>3. /\ left' = left - 1 /\ todo' \in Seq(Steps)
      /\ \A k \in 1 .. left - 1 : todo'[k] = todo[k + 1]
  BY <1>1, <1>2 DEF left
<1>4. ASSUME NEW j \in 1 .. left - 1 PROVE step'[j] = step[j]
  <2>1. step[j] = todo[left + 1 - j] /\ step'[j] = todo'[left - j]
    BY <1>1, <1>3, StepIs
  <2>2. left - j \in 1 .. left - 1 /\ left - j + 1 = left + 1 - j
    BY <1>1
  <2> QED BY <2>1, <2>2, <1>3
<1> QED BY <1>3, <1>4 DEF Pops, Same

LEMMA ThenPuts ==
    ASSUME HandlesTypeOK, left > 0, NEW s \in Steps, Then(<<s>>)
    PROVE  Puts(s) /\ todo' \in Seq(Steps)
<1>1. todo \in Seq(Steps) /\ todo # <<>> /\ left \in Nat
  BY StepsOK DEF HandlesTypeOK
<1>2. Tail(todo) \in Seq(Steps) /\ Len(Tail(todo)) = left - 1 /\ left - 1 \in Nat
      /\ \A k \in 1 .. left - 1 : Tail(todo)[k] = todo[k + 1]
  BY <1>1 DEF left
<1>3. <<s>> \in Seq(Steps) /\ Len(<<s>>) = 1 /\ <<s>>[1] = s
  OBVIOUS
<1> DEFINE r == Tail(todo)
           p == <<s>>
<1>4. todo' = p \o r
  BY DEF Then
<1> HIDE DEF r, p
<1>5. /\ left' = left /\ todo' \in Seq(Steps) /\ todo'[1] = p[1]
      /\ \A k \in 2 .. left : todo'[k] = r[k - 1]
  BY <1>1, <1>2, <1>3, <1>4 DEF left, r, p
<1>6. ASSUME NEW j \in 1 .. left - 1 PROVE step'[j] = step[j]
  <2>1. step[j] = todo[left + 1 - j] /\ step'[j] = todo'[left + 1 - j]
    BY <1>1, <1>5, StepIs
  <2>2. left + 1 - j \in 2 .. left /\ left + 1 - j - 1 \in 1 .. left - 1
        /\ left + 1 - j - 1 + 1 = left + 1 - j
    BY <1>1
  <2>3. todo'[left + 1 - j] = r[left + 1 - j - 1]
    BY <2>2, <1>5
  <2>4. r[left + 1 - j - 1] = todo[left + 1 - j - 1 + 1]
    BY <2>2, <1>2 DEF r
  <2> QED BY <2>1, <2>2, <2>3, <2>4
<1>7. step'[left] = s
  <2>1. left' + 1 - left = 1 /\ left \in 1 .. left'
    BY <1>1, <1>5
  <2> QED BY <2>1, <1>3, <1>5, StepIs DEF p
<1> QED BY <1>5, <1>6, <1>7 DEF Puts, Same

LEMMA ThenDeletes ==
    ASSUME HandlesTypeOK, left > 0, NEW a \in Addresses, NEW s \in Steps,
           Then(Destroy(a, s))
    PROVE  Deletes(a, s) /\ todo' \in Seq(Steps)
<1>1. todo \in Seq(Steps) /\ todo # <<>> /\ left \in Nat
  BY StepsOK DEF HandlesTypeOK
<1>2. Tail(todo) \in Seq(Steps) /\ Len(Tail(todo)) = left - 1 /\ left - 1 \in Nat
      /\ \A k \in 1 .. left - 1 : Tail(todo)[k] = todo[k + 1]
  BY <1>1 DEF left
<1> DEFINE r == Tail(todo)
           d == Drop(a)
           f == Do("free", a, Null)
           p == <<d, f, s>>
<1>3. Destroy(a, s) = p
  BY DEF Destroy
<1>4. d \in Steps /\ f \in Steps
  <2>1. a \in Shared /\ "drop" \in Letting
    BY DEF Letting, Shared
  <2>2. d \in [do : Letting, h : Shared, of : {Null}]
    BY <2>1 DEF Drop, Do
  <2>3. f \in [do : {"free"}, h : Addresses, of : {Null}]
    BY DEF Do
  <2> HIDE DEF d, f
  <2> QED BY <2>2, <2>3 DEF Steps
<1> HIDE DEF d, f
<1>5. p \in Seq(Steps) /\ Len(p) = 3 /\ p[1] = d /\ p[2] = f /\ p[3] = s
  BY <1>4
<1>6. todo' = p \o r
  BY <1>3 DEF Then
<1> HIDE DEF r, p
<1>7. /\ left' = left + 2 /\ todo' \in Seq(Steps)
      /\ \A k \in 1 .. 3 : todo'[k] = p[k]
      /\ \A k \in 4 .. left + 2 : todo'[k] = r[k - 3]
  <2>1. r \in Seq(Steps) /\ Len(r) = left - 1
    BY <1>2 DEF r
  <2>2. todo' \in Seq(Steps) /\ Len(todo') = Len(p) + Len(r)
    BY <2>1, <1>1, <1>4, <1>6 DEF p
  <2>4. \A k \in 1 .. 3 : todo'[k] = p[k]
    BY <2>1, <1>1, <1>4, <1>6 DEF p
  <2>5. \A k \in 4 .. left + 2 : todo'[k] = r[k - 3]
    BY <2>1, <1>1, <1>4, <1>6 DEF p
  <2>3. 3 + (left - 1) = left + 2
    BY <1>1
  <2> QED BY <2>1, <2>2, <2>3, <2>4, <2>5, <1>5 DEF left
<1>8. ASSUME NEW j \in 1 .. left - 1 PROVE step'[j] = step[j]
  <2>1. step[j] = todo[left + 1 - j] /\ step'[j] = todo'[left + 2 + 1 - j]
    <3>1. j \in 1 .. left /\ j \in 1 .. left' /\ left' + 1 - j = left + 2 + 1 - j
      BY <1>1, <1>7
    <3> QED BY <3>1, StepIs
  <2>2. left + 2 + 1 - j \in 4 .. left + 2 /\ left + 2 + 1 - j - 3 \in 1 .. left - 1
        /\ left + 2 + 1 - j - 3 + 1 = left + 1 - j
    BY <1>1
  <2>3. todo'[left + 2 + 1 - j] = r[left + 2 + 1 - j - 3]
    BY <2>2, <1>7
  <2>4. r[left + 2 + 1 - j - 3] = todo[left + 2 + 1 - j - 3 + 1]
    BY <2>2, <1>2 DEF r
  <2> QED BY <2>1, <2>2, <2>3, <2>4
<1>9. step'[left] = s /\ step'[left + 1] = f /\ step'[left + 2] = d
  <2>1. /\ left' + 1 - left = 3 /\ left \in 1 .. left' /\ left' + 1 - (left + 1) = 2
        /\ left + 1 \in 1 .. left' /\ left' + 1 - (left + 2) = 1 /\ left + 2 \in 1 .. left'
    BY <1>1, <1>7
  <2>2. todo'[1] = d /\ todo'[2] = f /\ todo'[3] = s
    BY <1>5, <1>7
  <2> QED BY <2>1, <2>2, StepIs
<1> QED BY <1>7, <1>8, <1>9 DEF Deletes, Same, d, f

-----------------------------------------------------------------------------
(* What the invariant says of the step that is next.                       *)

LEMMA StepKinds ==
    ASSUME NEW s \in Steps
    PROVE  s.do \in {"drop", "release", "forget", "free", "acquire", "acquireRaw", "delete",
                     "take", "return"}
BY DEF Steps, Letting

LEMMA NoDeletion ==
    ASSUME HInv, left > 0, Doing.do \notin Deleting
    PROVE  /\ \A j \in 1 .. left : step[j].do \notin {"free", "forget"}
           /\ \A a : ~Freed(a) /\ ~Forgets(a)
           /\ Forgetting = {}
<1>1. left \in Nat /\ left \in 1 .. left /\ Doing = step[left]
  BY StepsOK DEF HInv, Doing
<1>2. ASSUME NEW j \in 1 .. left PROVE step[j].do \notin {"free", "forget"}
  <2>1. CASE j = left
    BY <1>1, <2>1 DEF Deleting, Letting
  <2>2. CASE j # left
    BY <1>1, <2>2 DEF HInv, OrderOK
  <2> QED BY <2>1, <2>2
<1> QED BY <1>1, <1>2 DEF Freed, Forgets, Forgetting

\* A handle lets go for the object it is a member of, or at the call's own
\* level; its object is not being deleted already.
LEMMA LettingIs ==
    ASSUME HInv, left > 0, Doing.do \in {"drop", "release"}
    PROVE  /\ left > 1 /\ Doing.h \in Shared /\ Forgetting = {} /\ ~Forgets(Doing.h)
           /\ \/ step[left - 1].do = "free" /\ step[left - 1].h = Doing.h
              \/ /\ step[left - 1].do \in Acquiring \cup {"return"}
                 /\ \A a : ~Freed(a)
                 /\ \A j \in 1 .. left - 1 : step[j].do \notin {"free", "forget"}
<1>1. left \in Nat /\ left \in 1 .. left /\ Doing = step[left] /\ Doing \in Steps
      /\ Doing.h \in Shared /\ Forgetting = {} /\ Doing.do # "free"
  BY StepsOK, Kinds DEF HInv, Doing, Forgetting, Letting
<1>2. left > 1
  BY <1>1 DEF HInv, HandlesTypeOK
<1> DEFINE t == step[left - 1]
<1>3. t \in Steps /\ left - 1 \in 1 .. left - 1 /\ left - 1 + 1 = left
  BY <1>1, <1>2, StepsOK DEF HInv
<1>4. Follows(Doing, t)
  <2>1. Follows(step[left - 1 + 1], step[left - 1])
    BY <1>3 DEF HInv, OrderOK
  <2> QED BY <2>1, <1>1, <1>3
<1> HIDE DEF t
<1>5. \/ t.do = "free" /\ t.h = Doing.h
      \/ t.do \in Acquiring \cup {"return"}
  BY <1>3, <1>4, <1>1, StepKinds DEF Follows, Acquiring
<1>6. CASE t.do = "free" /\ t.h = Doing.h
  <2>1. ASSUME NEW j \in 1 .. left - 1, step[j].do = "forget", step[j].h = Doing.h
        PROVE  FALSE
    <3>1. Doing.h \in Addresses
      BY <1>3, <1>6, Kinds
    <3>2. j # left - 1
      BY <2>1, <1>6 DEF t
    <3>3. Freed(Doing.h)
      BY <1>1, <1>2, <1>6 DEF Freed, t
    <3>4. j > 1 /\ step[j - 1].do = "free" /\ step[j - 1].h = step[j].h
      BY <2>1, <3>1, <3>3 DEF HInv, LaterOK
    <3>5. left - 1 \in 1 .. left /\ j - 1 \in 1 .. left /\ left - 1 > j - 1
      BY <1>1, <3>2, <3>4
    <3> QED BY <3>4, <3>5, <2>1, <1>6 DEF HInv, OrderOK, t
  <2> QED BY <2>1, <1>1, <1>2, <1>6 DEF Forgets, t
<1>7. CASE t.do \in Acquiring \cup {"return"}
  <2>1. ASSUME NEW j \in 1 .. left - 1 PROVE step[j].do \notin {"free", "forget"}
    <3>1. CASE j = left - 1
      BY <3>1, <1>7 DEF t, Acquiring
    <3>2. CASE j # left - 1
      <4>1. left - 1 \in 1 .. left /\ j \in 1 .. left /\ left - 1 > j
        BY <1>1, <3>2
      <4> QED BY <4>1, <1>7 DEF HInv, OrderOK, t, Acquiring, Deleting, Letting
    <3> QED BY <3>1, <3>2
  <2>2. \A a : ~Freed(a)
    BY <1>1, <2>1 DEF Freed
  <2> QED BY <1>1, <1>2, <1>7, <2>1, <2>2 DEF Forgets, t
<1> QED BY <1>5, <1>6, <1>7

\* Whoever is about to let go of an object counts for it.
LEMMA HeldIsCounted ==
    ASSUME HInv, left > 0, Doing.do \in {"drop", "release"}
    PROVE  Data[Doing.h] # Null => SharedValid(Doing.h)
BY LettingIs DEF HInv, CountOK, SharedValid

LEMMA LastHolder ==
    ASSUME HInv, left > 0, Doing.do = "release", SharedValid(Doing.h),
           RefMap[Data[Doing.h]] <= 1, NEW g \in Shared, Data[g] = Data[Doing.h]
    PROVE  g = Doing.h
<1> DEFINE a == Data[Doing.h]
<1>1. Doing.h \in Shared /\ Forgetting = {} /\ a \in DOMAIN RefMap
  BY LettingIs DEF SharedValid, Counted
<1>2. IsFiniteSet(Holders(a)) /\ RefMap[a] = Cardinality(Holders(a)) /\ RefMap[a] \in Nat \ {0}
  BY <1>1 DEF HInv, CountOK, HandlesTypeOK
<1>3. Cardinality(Holders(a)) = 1
  BY <1>2
<1>4. g \in Holders(a) /\ Doing.h \in Holders(a)
  BY <1>1 DEF Holders
<1>5. PICK x : Holders(a) = {x}
  BY <1>2, <1>3, FS_Singleton
<1> QED BY <1>4, <1>5

-----------------------------------------------------------------------------
(* The sets of the invariant after a step.                                 *)

LEMMA PopSets ==
    ASSUME HandlesTypeOK, left > 0, Pops
    PROVE  /\ left \in Nat /\ left' \in Nat /\ left' = left - 1
           /\ \A j \in 1 .. left' : j \in 1 .. left /\ step'[j] = step[j]
           /\ \A a : Freed(a) <=> Freed(a)' \/ (Doing.do = "free" /\ Doing.h = a)
           /\ \A a : Taken(a) <=> Taken(a)' \/ (Doing.do = "take" /\ Doing.of = a)
           /\ \A h : Forgets(h) <=> Forgets(h)' \/ h \in Forgetting'
<1>1. left \in Nat /\ left' = left - 1 /\ left \in 1 .. left
      /\ \A j \in 1 .. left - 1 : step'[j] = step[j] /\ j \in 1 .. left
  BY StepsOK DEF Pops, Same
<1>2. \A j \in 1 .. left : j = left \/ j \in 1 .. left - 1
  BY <1>1
<1>3. ASSUME NEW a PROVE Freed(a) <=> Freed(a)' \/ (Doing.do = "free" /\ Doing.h = a)
  BY <1>1, <1>2 DEF Freed, Doing
<1>4. ASSUME NEW a PROVE Taken(a) <=> Taken(a)' \/ (Doing.do = "take" /\ Doing.of = a)
  BY <1>1, <1>2 DEF Taken, Doing
<1>5. ASSUME NEW h PROVE Forgets(h) <=> Forgets(h)' \/ h \in Forgetting'
  <2>1. \A j \in 1 .. left - 1 : j = left' \/ j \in 1 .. left' - 1
    BY <1>1
  <2>2. \A j \in 1 .. left' - 1 : j \in 1 .. left - 1
    BY <1>1
  <2>3. left' > 0 => left' \in 1 .. left - 1
    BY <1>1
  <2>4. \A j \in 1 .. left - 1 : left' > 0
    BY <1>1
  <2> QED BY <1>1, <2>1, <2>2, <2>3, <2>4 DEF Forgets, Forgetting, Doing
<1> QED BY <1>1, <1>3, <1>4, <1>5

LEMMA PutSets ==
    ASSUME HandlesTypeOK, left > 0, NEW s \in Steps, Puts(s),
           Doing.do \in {"drop", "release"}, s.do \in Letting
    PROVE  /\ left \in Nat /\ left' = left /\ Doing' = s
           /\ \A j \in 1 .. left - 1 : step'[j] = step[j]
           /\ \A a : Freed(a)' <=> Freed(a)
           /\ \A a : Taken(a)' <=> Taken(a)
           /\ \A h : Forgets(h)' <=> Forgets(h)
<1>1. left \in Nat /\ left' = left /\ left \in 1 .. left /\ step'[left] = s
      /\ \A j \in 1 .. left - 1 : step'[j] = step[j]
  BY StepsOK DEF Puts, Same
<1>2. \A j \in 1 .. left : j = left \/ j \in 1 .. left - 1
  BY <1>1
<1>3. s.do # "free" /\ s.do # "take" /\ Doing.do # "free" /\ Doing.do # "take"
  BY DEF Letting
<1>4. ASSUME NEW a PROVE Freed(a)' <=> Freed(a)
  BY <1>1, <1>2, <1>3 DEF Freed, Doing
<1>5. ASSUME NEW a PROVE Taken(a)' <=> Taken(a)
  BY <1>1, <1>2, <1>3 DEF Taken, Doing
<1>6. ASSUME NEW h PROVE Forgets(h)' <=> Forgets(h)
  BY <1>1 DEF Forgets
<1> QED BY <1>1, <1>4, <1>5, <1>6 DEF Doing

LEMMA DeleteSets ==
    ASSUME HandlesTypeOK, left > 0, NEW a \in Addresses, NEW s \in Steps, Deletes(a, s),
           Doing.do \in {"release", "delete"}, s.do \in {"forget", "take"}
    PROVE  /\ left \in Nat /\ left' = left + 2 /\ Doing' = Drop(a) /\ Forgetting' = {}
           /\ \A j \in 1 .. left - 1 : step'[j] = step[j]
           /\ step'[left] = s /\ step'[left + 1] = Do("free", a, Null)
           /\ step'[left + 2] = Drop(a)
           /\ \A j \in 1 .. left' : j \in 1 .. left - 1 \/ j = left \/ j = left + 1
                                    \/ j = left + 2
           /\ \A b : Freed(b)' <=> Freed(b) \/ b = a
           /\ \A b : Taken(b)' <=> Taken(b) \/ (s.do = "take" /\ s.of = b)
           /\ \A h : Forgets(h)' <=> Forgets(h) \/ (s.do = "forget" /\ s.h = h)
<1>1. left \in Nat /\ left' = left + 2 /\ step'[left] = s
      /\ step'[left + 1] = Do("free", a, Null) /\ step'[left + 2] = Drop(a)
      /\ \A j \in 1 .. left - 1 : step'[j] = step[j]
  BY StepsOK DEF Deletes, Same
<1>2. /\ \A j \in 1 .. left' : j \in 1 .. left - 1 \/ j = left \/ j = left + 1 \/ j = left + 2
      /\ \A j \in 1 .. left - 1 : j \in 1 .. left' /\ j \in 1 .. left' - 1 /\ j \in 1 .. left
      /\ \A j \in 1 .. left : j \in 1 .. left - 1 \/ j = left
      /\ left \in 1 .. left' /\ left + 1 \in 1 .. left' /\ left \in 1 .. left' - 1
      /\ \A j \in 1 .. left' - 1 : j \in 1 .. left - 1 \/ j = left \/ j = left + 1
  BY <1>1
<1>3. /\ Do("free", a, Null).do = "free" /\ Do("free", a, Null).h = a
      /\ Drop(a).do = "drop"
  BY DEF Do, Drop
<1> DEFINE f == Do("free", a, Null)
           d == Drop(a)
<1> HIDE DEF f, d
<1>4. /\ step'[left + 1] = f /\ step'[left + 2] = d
      /\ f.do = "free" /\ f.h = a /\ d.do = "drop"
  BY <1>1, <1>3 DEF f, d
<1>5. ASSUME NEW b PROVE Freed(b)' <=> Freed(b) \/ b = a
  <2>1. Freed(b)' => Freed(b) \/ b = a
    BY <1>1, <1>2, <1>4 DEF Freed
  <2>2. Freed(b) => Freed(b)'
    BY <1>1, <1>2 DEF Freed, Doing
  <2>3. b = a => Freed(b)'
    BY <1>2, <1>4 DEF Freed
  <2> QED BY <2>1, <2>2, <2>3
<1>6. ASSUME NEW b PROVE Taken(b)' <=> Taken(b) \/ (s.do = "take" /\ s.of = b)
  <2>1. Taken(b)' => Taken(b) \/ (s.do = "take" /\ s.of = b)
    BY <1>1, <1>2, <1>4 DEF Taken
  <2>2. Taken(b) => Taken(b)'
    BY <1>1, <1>2 DEF Taken, Doing
  <2>3. s.do = "take" /\ s.of = b => Taken(b)'
    BY <1>1, <1>2 DEF Taken
  <2> QED BY <2>1, <2>2, <2>3
<1>7. ASSUME NEW h PROVE Forgets(h)' <=> Forgets(h) \/ (s.do = "forget" /\ s.h = h)
  <2>1. Forgets(h)' => Forgets(h) \/ (s.do = "forget" /\ s.h = h)
    BY <1>1, <1>2, <1>4 DEF Forgets
  <2>2. Forgets(h) => Forgets(h)'
    BY <1>1, <1>2 DEF Forgets
  <2>3. s.do = "forget" /\ s.h = h => Forgets(h)'
    BY <1>1, <1>2 DEF Forgets
  <2> QED BY <2>1, <2>2, <2>3
<1>8. Doing' = Drop(a) /\ Forgetting' = {}
  <2>1. Doing' = Drop(a)
    BY <1>1 DEF Doing
  <2> QED BY <2>1, <1>3 DEF Forgetting
<1> QED BY <1>1, <1>2, <1>5, <1>6, <1>7, <1>8

-----------------------------------------------------------------------------
(* The order after a step.                                                 *)

LEMMA OrderPops ==
    ASSUME HInv, left > 0, Pops,
           \A j \in 1 .. left - 2 : step[j].do = "forget" =>
             Data'[step[j].h] = Data[step[j].h],
           \A j \in 1 .. left - 2 : step[j].do = "take" /\ step[j + 1].do = "free" =>
             unique'[step[j].h] = unique[step[j].h]
    PROVE  OrderOK'
<1>1. left \in Nat /\ left' = left - 1 /\ \A j \in 1 .. left' : j \in 1 .. left /\ step'[j] = step[j]
  BY PopSets DEF HInv
<1>2. ASSUME NEW j \in 1 .. left' - 1 PROVE Follows(step[j + 1], step[j])'
  <2>1. j \in 1 .. left' /\ j + 1 \in 1 .. left' /\ j \in 1 .. left - 1 /\ j \in 1 .. left - 2
    BY <1>1
  <2>2. step'[j] = step[j] /\ step'[j + 1] = step[j + 1]
    BY <1>1, <2>1
  <2>3. Follows(step[j + 1], step[j])
    BY <2>1 DEF HInv, OrderOK
  <2>4. /\ step[j].do = "forget" => Data'[step[j].h] = Data[step[j].h]
        /\ step[j].do = "take" /\ step[j + 1].do = "free" =>
             unique'[step[j].h] = unique[step[j].h]
    BY <2>1
  <2> QED BY <2>2, <2>3, <2>4 DEF Follows
<1>3. ASSUME NEW i \in 1 .. left', NEW j \in 1 .. left', i > j
      PROVE  /\ step'[j].do \in Acquiring \cup {"free", "forget"} => step'[i].do \in Deleting
             /\ step'[j].do = "take" => step'[i].do \in Deleting \cup {"delete", "take"}
             /\ step'[j].do = "forget" /\ step'[j].h \in Addresses /\ step'[i].do \in Letting
                  => step'[i].h \in Addresses
             /\ step'[i].do = "free" /\ step'[j].do = "free" => step'[i].h # step'[j].h
  <2>1. i \in 1 .. left /\ j \in 1 .. left /\ step'[i] = step[i] /\ step'[j] = step[j]
    BY <1>1
  <2> QED BY <1>3, <2>1 DEF HInv, OrderOK
<1> QED BY <1>2, <1>3 DEF OrderOK

LEMMA OrderPuts ==
    ASSUME HInv, left > 0, NEW s \in Steps, Puts(s), Data' = Data, unique' = unique,
           Doing.do \in {"drop", "release"}, s.do \in {"release", "forget"}, s.h = Doing.h
    PROVE  OrderOK'
<1>1. left \in Nat /\ left' = left /\ step'[left] = s /\ \A j \in 1 .. left - 1 : step'[j] = step[j]
  BY StepsOK DEF Puts, Same, HInv
<1>2. s.do \in Letting /\ Doing.do \in Letting /\ s.do # "free"
  BY DEF Letting
<1>3. ASSUME NEW j \in 1 .. left - 1 PROVE Follows(step[j + 1], step[j])'
  <2>1. j \in 1 .. left - 1 /\ step'[j] = step[j]
    BY <1>1
  <2>2. Follows(step[j + 1], step[j])
    BY <2>1 DEF HInv, OrderOK
  <2>3. CASE j = left - 1
    <3>1. step[j + 1] = Doing /\ step'[j + 1] = s
      BY <1>1, <2>3 DEF Doing
    <3>2. step[j].do \in {"free", "return"} \cup Acquiring
      BY LettingIs, <2>3
    <3>3. Follows(Doing, step[j])
      BY <2>2, <3>1
    <3>4. step[j].do \notin {"forget", "take", "release", "drop", "delete"}
      BY <3>2 DEF Acquiring
    <3>5. step[j].do = "free" \/ step[j].do \in Acquiring => step[j].h = s.h
      BY <3>3 DEF Follows
    <3> QED BY <2>1, <1>2, <3>1, <3>4, <3>5 DEF Follows
  <2>4. CASE j # left - 1
    <3>1. j + 1 \in 1 .. left - 1
      BY <1>1, <2>4
    <3>2. step'[j + 1] = step[j + 1]
      BY <1>1, <3>1
    <3> QED BY <2>1, <2>2, <3>2 DEF Follows
  <2> QED BY <2>3, <2>4
<1>4. ASSUME NEW i \in 1 .. left, NEW j \in 1 .. left, i > j
      PROVE  /\ step'[j].do \in Acquiring \cup {"free", "forget"} => step'[i].do \in Deleting
             /\ step'[j].do = "take" => step'[i].do \in Deleting \cup {"delete", "take"}
             /\ step'[j].do = "forget" /\ step'[j].h \in Addresses /\ step'[i].do \in Letting
                  => step'[i].h \in Addresses
             /\ step'[i].do = "free" /\ step'[j].do = "free" => step'[i].h # step'[j].h
  <2>1. j \in 1 .. left - 1 /\ step'[j] = step[j]
    BY <1>1, <1>4
  <2>2. CASE i = left
    <3>1. step'[i] = s /\ step[i] = Doing
      BY <1>1, <2>2 DEF Doing
    <3>2. step[j].do = "forget" /\ step[j].h \in Addresses => s.h \in Addresses
      BY <1>2, <1>4, <3>1 DEF HInv, OrderOK
    <3>3. s.do \in Deleting
      BY <1>2 DEF Deleting
    <3> QED BY <1>2, <2>1, <3>1, <3>2, <3>3
  <2>3. CASE i # left
    <3>1. i \in 1 .. left - 1
      BY <1>1, <2>3
    <3>2. step'[i] = step[i]
      BY <1>1, <3>1
    <3> QED BY <1>4, <2>1, <3>2 DEF HInv, OrderOK
  <2> QED BY <2>2, <2>3
<1> QED BY <1>1, <1>3, <1>4 DEF OrderOK

\* The last release deletes the object before it forgets it, and the unique
\* handle's before it takes nothing.
LEMMA OrderDeletes ==
    ASSUME HInv, left > 0, NEW a \in Addresses, NEW s \in Steps, Deletes(a, s),
           Data' = Data, unique' = unique, ~Freed(a), s.h = Doing.h,
           \/ Doing.do = "release" /\ s.do = "forget" /\ a = Data[Doing.h]
           \/ Doing.do = "delete" /\ s.do = "take" /\ s.of = Null /\ a = unique[Doing.h]
    PROVE  OrderOK'
<1> DEFINE f == Do("free", a, Null)
           d == Drop(a)
<1>1. /\ f.do = "free" /\ f.h = a /\ f.of = Null
      /\ d.do = "drop" /\ d.h = a /\ d.of = Null
  BY DEF Do, Drop
<1> HIDE DEF f, d
<1>2. /\ left \in Nat /\ left' = left + 2 /\ \A j \in 1 .. left - 1 : step'[j] = step[j]
      /\ step'[left] = s /\ step'[left + 1] = f /\ step'[left + 2] = d
      /\ \A j \in 1 .. left' : j \in 1 .. left - 1 \/ j = left \/ j = left + 1 \/ j = left + 2
  BY DeleteSets DEF HInv, f, d
<1>3. ASSUME NEW j \in 1 .. left' - 1 PROVE Follows(step[j + 1], step[j])'
  <2>1. CASE j = left + 1
    <3>1. step'[j] = f /\ step'[j + 1] = d
      BY <1>2, <2>1
    <3> QED BY <1>1, <3>1 DEF Follows, Letting, Acquiring
  <2>2. CASE j = left
    <3>1. step'[j] = s /\ step'[j + 1] = f
      BY <1>2, <2>2
    <3> QED BY <1>1, <3>1 DEF Follows, Letting, Acquiring
  <2>3. CASE j = left - 1
    <3>1. step'[j] = step[j] /\ step'[j + 1] = s /\ step[j + 1] = Doing /\ j \in 1 .. left - 1
      BY <1>2, <2>3 DEF Doing
    <3>2. Follows(Doing, step[j])
      BY <3>1 DEF HInv, OrderOK
    <3>3. CASE Doing.do = "release"
      <4>1. step[j].do \in {"free", "return"} \cup Acquiring
        BY LettingIs, <2>3, <3>3
      <4>2. step[j].do \notin {"forget", "take", "release", "drop", "delete"}
        BY <4>1 DEF Acquiring
      <4>3. step[j].do = "free" \/ step[j].do \in Acquiring => step[j].h = s.h
        BY <3>2 DEF Follows
      <4>4. s.do \in Letting
        BY <3>3 DEF Letting
      <4> QED BY <3>1, <4>2, <4>3, <4>4 DEF Follows
    <3>4. CASE Doing.do = "delete"
      <4>1. step[j].do \notin {"free", "forget", "release", "drop", "delete"}
            /\ step[j].do \notin Acquiring
        BY <3>2, <3>4 DEF Follows, Letting
      <4>2. step[j].do = "take" => step[j].h = s.h
        BY <3>2, <3>4 DEF Follows
      <4> QED BY <3>1, <3>4, <4>1, <4>2 DEF Follows
    <3> QED BY <3>3, <3>4
  <2>4. CASE j < left - 1
    <3>1. j \in 1 .. left - 1 /\ j + 1 \in 1 .. left - 1
      BY <1>2, <2>4
    <3>2. step'[j] = step[j] /\ step'[j + 1] = step[j + 1]
      BY <1>2, <3>1
    <3>3. Follows(step[j + 1], step[j])
      BY <3>1 DEF HInv, OrderOK
    <3> QED BY <3>2, <3>3 DEF Follows
  <2> QED BY <1>2, <2>1, <2>2, <2>3, <2>4
<1>4. ASSUME NEW i \in 1 .. left', NEW j \in 1 .. left', i > j
      PROVE  /\ step'[j].do \in Acquiring \cup {"free", "forget"} => step'[i].do \in Deleting
             /\ step'[j].do = "take" => step'[i].do \in Deleting \cup {"delete", "take"}
             /\ step'[j].do = "forget" /\ step'[j].h \in Addresses /\ step'[i].do \in Letting
                  => step'[i].h \in Addresses
             /\ step'[i].do = "free" /\ step'[j].do = "free" => step'[i].h # step'[j].h
  <2>1. d.do \in Deleting /\ f.do \in Deleting /\ f.do \notin Letting /\ d.do # "free"
        /\ s.do # "free" /\ s.do \notin Acquiring
    BY <1>1 DEF Deleting, Letting, Acquiring
  <2>2. CASE i = left + 2
    BY <1>1, <1>2, <2>1, <2>2
  <2>3. CASE i = left + 1
    <3>1. j = left \/ j \in 1 .. left - 1
      BY <1>2, <1>4, <2>3
    <3>2. j \in 1 .. left - 1 => step'[j] = step[j] /\ j \in 1 .. left
      BY <1>2
    <3>3. j \in 1 .. left - 1 /\ step[j].do = "free" => step[j].h # a
      BY <3>2 DEF Freed
    <3> QED BY <1>1, <1>2, <2>1, <2>3, <3>1, <3>2, <3>3
  <2>4. CASE i = left
    <3>1. j \in 1 .. left - 1 /\ step'[j] = step[j] /\ step'[i] = s /\ step[i] = Doing
          /\ i \in 1 .. left /\ j \in 1 .. left
      BY <1>2, <1>4, <2>4 DEF Doing
    <3>2. CASE Doing.do = "release"
      <4>1. Doing.do \in Letting /\ s.do \in Deleting
        BY <3>2 DEF Letting, Deleting
      <4>2. step[j].do = "forget" /\ step[j].h \in Addresses => s.h \in Addresses
        BY <1>4, <3>1, <4>1 DEF HInv, OrderOK
      <4> QED BY <2>1, <3>1, <4>1, <4>2
    <3>3. CASE Doing.do = "delete"
      <4>1. Doing.do \notin Deleting
        BY <3>3 DEF Deleting, Letting
      <4>2. step[j].do \notin Acquiring \cup {"free", "forget"}
        BY <1>4, <3>1, <4>1 DEF HInv, OrderOK
      <4> QED BY <2>1, <3>1, <3>3, <4>2
    <3> QED BY <3>2, <3>3
  <2>5. CASE i < left
    <3>1. i \in 1 .. left - 1 /\ j \in 1 .. left - 1 /\ i \in 1 .. left /\ j \in 1 .. left
      BY <1>2, <1>4, <2>5
    <3>2. step'[i] = step[i] /\ step'[j] = step[j]
      BY <1>2, <3>1
    <3> QED BY <1>4, <3>1, <3>2 DEF HInv, OrderOK
  <2> QED BY <1>2, <2>2, <2>3, <2>4, <2>5
<1> QED BY <1>3, <1>4 DEF OrderOK

\* A call returns once, at its end.
Returns == left > 0 => step[1].do = "return" /\ \A j \in 2 .. left : step[j].do # "return"

LEMMA ReturnsPops ==
    ASSUME HandlesTypeOK, left > 0, Pops
    PROVE  Returns' /\ (left' > 0 => left > 1 /\ step'[1] = step[1])
<1>1. left \in Nat /\ left' = left - 1
      /\ \A j \in 1 .. left - 1 : step'[j] = step[j]
  BY PopSets
<1>2. /\ left' > 0 => left > 1 /\ 1 \in 1 .. left - 1
      /\ \A j \in 2 .. left' : j \in 1 .. left - 1 /\ j \in 2 .. left
  BY <1>1
<1> QED BY <1>1, <1>2 DEF HandlesTypeOK, Returns

LEMMA ReturnsPuts ==
    ASSUME HandlesTypeOK, left > 1, NEW s \in Steps, Puts(s), s.do # "return"
    PROVE  Returns' /\ step'[1] = step[1]
<1>1. left \in Nat /\ left' = left /\ step'[left] = s /\ \A j \in 1 .. left - 1 : step'[j] = step[j]
  BY StepsOK DEF Puts, Same
<1>2. 1 \in 1 .. left - 1 /\ \A j \in 2 .. left : j = left \/ j \in 1 .. left - 1
  BY <1>1
<1> QED BY <1>1, <1>2 DEF HandlesTypeOK, Returns

LEMMA ReturnsDeletes ==
    ASSUME HandlesTypeOK, left > 1, NEW a \in Addresses, NEW s \in Steps, Deletes(a, s),
           s.do # "return"
    PROVE  Returns' /\ step'[1] = step[1]
<1>1. /\ left \in Nat /\ left' = left + 2 /\ step'[left] = s
      /\ step'[left + 1].do = "free" /\ step'[left + 2].do = "drop"
      /\ \A j \in 1 .. left - 1 : step'[j] = step[j]
  BY StepsOK DEF Deletes, Same, Do, Drop
<1>2. /\ 1 \in 1 .. left - 1
      /\ \A j \in 2 .. left' : j = left \/ j = left + 1 \/ j = left + 2
                             \/ (j \in 1 .. left - 1 /\ j \in 2 .. left)
  BY <1>1
<1>3. step'[1] = step[1] /\ step[1].do = "return" /\ \A j \in 2 .. left : step[j].do # "return"
  BY <1>1, <1>2 DEF HandlesTypeOK
<1>4. ASSUME NEW j \in 2 .. left' PROVE step'[j].do # "return"
  <2>1. CASE j = left
    BY <1>1, <2>1
  <2>2. CASE j = left + 1 \/ j = left + 2
    BY <1>1, <2>2
  <2>3. CASE j \in 1 .. left - 1 /\ j \in 2 .. left
    <3>1. step'[j] = step[j]
      BY <1>1, <2>3
    <3> QED BY <1>3, <2>3, <3>1
  <2> QED BY <1>2, <2>1, <2>2, <2>3
<1> QED BY <1>3, <1>4 DEF Returns

-----------------------------------------------------------------------------
(* The owners, what outlives and what is assigned, after a step.           *)

LEMMA UniquePops ==
    ASSUME HInv, left > 0, Pops, Doing.do \in Letting,
           RefMap' = RefMap, alive' = alive, unique' = unique
    PROVE  UniqueOK'
<1>1. /\ left \in Nat /\ left' = left - 1 /\ Doing = step[left]
      /\ \A j \in 1 .. left' : j \in 1 .. left /\ step'[j] = step[j]
  BY PopSets DEF HInv, Doing
<1>2. Doing.do # "free" /\ Doing.do # "take"
  BY DEF Letting
<1>3. ASSUME NEW u \in Uniques, unique[u] # Null, Freed(unique[u])
      PROVE  \E j \in 1 .. left' - 1 :
               step'[j].do = "take" /\ step'[j].h = u /\ step'[j + 1].do = "free"
  <2>1. PICK j \in 1 .. left - 1 :
          step[j].do = "take" /\ step[j].h = u /\ step[j + 1].do = "free"
    BY <1>3 DEF HInv, UniqueOK
  <2>2. j + 1 # left
    BY <2>1, <1>1, <1>2
  <2>3. j \in 1 .. left' - 1 /\ j \in 1 .. left' /\ j + 1 \in 1 .. left'
    BY <2>2, <1>1
  <2> QED BY <2>1, <2>3, <1>1
<1>4. \A u \in Uniques : unique[u] # Null => unique[u] \in alive
  BY <1>2 DEF HInv, UniqueOK
<1>5. \A u \in Uniques : unique[u] # Null =>
        ~Counted(unique[u]) /\ \A v \in Uniques : unique[v] = unique[u] => v = u
  BY DEF HInv, UniqueOK
<1>6. \A a : Freed(a)' <=> Freed(a)
  BY <1>2, PopSets DEF HInv
<1>7. \A j \in 1 .. left : step[j].do = "take" /\ step[j].of # Null =>
        /\ step[j].of \in alive /\ ~Counted(step[j].of) /\ ~Freed(step[j].of)
        /\ ~Owned(step[j].of)
  BY DEF HInv, UniqueOK
<1>8. \A j \in 1 .. left : step[j].do = "acquireRaw" => step[j].of = Null \/ ~Owned(step[j].of)
  BY DEF HInv, UniqueOK
<1> QED BY <1>1, <1>3, <1>4, <1>5, <1>6, <1>7, <1>8 DEF UniqueOK, Counted, Owned

LEMMA UniquePuts ==
    ASSUME HInv, left > 0, NEW s \in Steps, Puts(s), Doing.do \in {"drop", "release"},
           s.do \in Letting,
           DOMAIN RefMap' = DOMAIN RefMap, alive' = alive, unique' = unique
    PROVE  UniqueOK'
<1>1. /\ left \in Nat /\ left' = left /\ Doing = step[left] /\ Doing' = s /\ step'[left] = s
      /\ \A j \in 1 .. left - 1 : step'[j] = step[j]
      /\ \A j \in 1 .. left : j = left \/ j \in 1 .. left - 1
  BY PutSets DEF HInv, Doing
<1>2. Doing.do # "free" /\ Doing.do # "take" /\ s.do # "take" /\ s.do # "acquireRaw"
  BY DEF Letting
<1>3. ASSUME NEW u \in Uniques, unique[u] # Null, Freed(unique[u])
      PROVE  \E j \in 1 .. left' - 1 :
               step'[j].do = "take" /\ step'[j].h = u /\ step'[j + 1].do = "free"
  <2>1. PICK j \in 1 .. left - 1 :
          step[j].do = "take" /\ step[j].h = u /\ step[j + 1].do = "free"
    BY <1>3 DEF HInv, UniqueOK
  <2>2. j + 1 # left
    BY <2>1, <1>1, <1>2
  <2>3. j \in 1 .. left' - 1 /\ j \in 1 .. left - 1 /\ j + 1 \in 1 .. left - 1
    BY <2>2, <1>1
  <2> QED BY <2>1, <2>3, <1>1
<1>4. \A u \in Uniques : unique[u] # Null => unique[u] \in alive
  BY <1>2 DEF HInv, UniqueOK
<1>5. \A u \in Uniques : unique[u] # Null =>
        ~Counted(unique[u]) /\ \A v \in Uniques : unique[v] = unique[u] => v = u
  BY DEF HInv, UniqueOK
<1>6. \A a : Freed(a)' <=> Freed(a)
  BY PutSets DEF HInv
<1>7. \A j \in 1 .. left - 1 : step[j].do = "take" /\ step[j].of # Null =>
        /\ step[j].of \in alive /\ ~Counted(step[j].of) /\ ~Freed(step[j].of)
        /\ ~Owned(step[j].of)
  BY <1>1 DEF HInv, UniqueOK
<1>8. \A j \in 1 .. left - 1 : step[j].do = "acquireRaw" =>
        step[j].of = Null \/ ~Owned(step[j].of)
  BY <1>1 DEF HInv, UniqueOK
<1>9. /\ \A j \in 1 .. left : step'[j].do = "take" => j \in 1 .. left - 1 /\ step'[j] = step[j]
      /\ \A j \in 1 .. left : step'[j].do = "acquireRaw" =>
           j \in 1 .. left - 1 /\ step'[j] = step[j]
  BY <1>1, <1>2
<1> QED BY <1>1, <1>3, <1>4, <1>5, <1>6, <1>7, <1>8, <1>9 DEF UniqueOK, Counted, Owned

LEMMA LaterPops ==
    ASSUME HInv, left > 0, Pops,
           \A j \in 1 .. left - 2 : \A g \in Addresses :
             step[j].do = "forget" /\ step[j].h = g /\ Anchored(g) => Anchored(g)'
    PROVE  LaterOK'
<1> SUFFICES ASSUME NEW j \in 1 .. left' - 1, NEW g \in Addresses,
                    step'[j].do = "forget", step'[j].h = g
             PROVE  \/ j > 1 /\ step'[j - 1].do = "free" /\ step'[j - 1].h = g
                    \/ Anchored(g)' /\ ~Freed(g)'
  BY DEF LaterOK
<1>1. /\ left \in Nat /\ left' = left - 1
      /\ \A i \in 1 .. left' : i \in 1 .. left /\ step'[i] = step[i]
      /\ Freed(g)' => Freed(g)
  BY PopSets DEF HInv
<1>2. j \in 1 .. left - 1 /\ step'[j] = step[j] /\ (j > 1 => step'[j - 1] = step[j - 1])
      /\ j \in 1 .. left - 2
  BY <1>1
<1> QED BY <1>1, <1>2 DEF HInv, LaterOK

LEMMA SourcePops ==
    ASSUME HInv, left > 0, Pops,
           \A j \in 1 .. left - 1 : step[j].do = "acquireRaw" /\ step[1].of \in Locals =>
             Data'[step[1].of] = Data[step[1].of]
    PROVE  SourceOK'
<1>1. /\ left \in Nat /\ left' = left - 1
      /\ \A i \in 1 .. left' : i \in 1 .. left /\ i \in 1 .. left - 1 /\ step'[i] = step[i]
      /\ left' > 0 => step'[1] = step[1]
      /\ \A j \in 1 .. left' : left' > 0
  BY PopSets, ReturnsPops DEF HInv
<1>2. \A j \in 1 .. left' : \A i \in j .. left' : i \in j .. left /\ step'[i] = step[i]
  BY <1>1
<1> QED BY <1>1, <1>2 DEF HInv, SourceOK

LEMMA LaterPuts ==
    ASSUME HInv, left > 0, NEW s \in Steps, Puts(s), Doing.do \in {"drop", "release"},
           s.do \in Letting, Data' = Data, unique' = unique
    PROVE  LaterOK'
<1> SUFFICES ASSUME NEW j \in 1 .. left' - 1, NEW g \in Addresses,
                    step'[j].do = "forget", step'[j].h = g
             PROVE  \/ j > 1 /\ step'[j - 1].do = "free" /\ step'[j - 1].h = g
                    \/ Anchored(g)' /\ ~Freed(g)'
  BY DEF LaterOK
<1>1. /\ left \in Nat /\ left' = left
      /\ \A i \in 1 .. left - 1 : step'[i] = step[i]
      /\ Freed(g)' => Freed(g)
  BY PutSets DEF HInv
<1>2. j \in 1 .. left - 1 /\ step'[j] = step[j] /\ (j > 1 => step'[j - 1] = step[j - 1])
  BY <1>1
<1>3. Anchored(g) => Anchored(g)'
  BY DEF Anchored, Owned
<1> QED BY <1>1, <1>2, <1>3 DEF HInv, LaterOK

LEMMA SourcePuts ==
    ASSUME HInv, left > 0, NEW s \in Steps, Puts(s), Doing.do \in {"drop", "release"},
           s.do \in Letting, s.h = Doing.h, Data' = Data
    PROVE  SourceOK'
<1>1. /\ left \in Nat /\ left' = left /\ left > 1 /\ step[left] = Doing /\ step'[left] = s
      /\ \A j \in 1 .. left - 1 : step'[j] = step[j]
      /\ \A j \in 1 .. left : j = left \/ j \in 1 .. left - 1
  BY PutSets, LettingIs DEF HInv, Doing
<1>2. /\ Doing.do \in Letting /\ s.do \notin {"acquire", "acquireRaw"}
      /\ 1 \in 1 .. left - 1
      /\ \A j \in 1 .. left : \A i \in j .. left : i \in 1 .. left
  BY <1>1 DEF Letting
<1>3. step'[1] = step[1]
  BY <1>1, <1>2
<1>4. ASSUME NEW j \in 1 .. left, step'[j].do \in {"acquire", "acquireRaw"}
      PROVE  j \in 1 .. left - 1 /\ step'[j] = step[j] /\ j \in 1 .. left
  BY <1>1, <1>2, <1>4
<1>5. ASSUME NEW j \in 1 .. left, step'[j].do = "acquireRaw", step[1].of \in Locals,
             NEW i \in j .. left, step'[i].do \in Letting
      PROVE  step'[i].h # step[1].of
  <2>1. step[j].do = "acquireRaw"
    BY <1>4, <1>5
  <2>2. \A k \in j .. left : step[k].do \in Letting => step[k].h # step[1].of
    BY <1>5, <2>1 DEF HInv, SourceOK
  <2>3. CASE i = left
    BY <2>2, <2>3, <1>1, <1>2, <1>5
  <2>4. CASE i # left
    BY <2>2, <2>4, <1>1, <1>2, <1>5
  <2> QED BY <2>3, <2>4
<1>6. \A j \in 1 .. left : step[j].do = "acquire" /\ step[j].of \in Addresses =>
        step[1].h \in {"copy", "move"} /\ step[1].of \notin Locals
  BY DEF HInv, SourceOK
<1>7. \A j \in 1 .. left : step[j].do = "acquireRaw" =>
        step[1].h = "resetRaw" /\ (step[1].of \in Locals => Data[step[1].of] = step[j].of)
  BY DEF HInv, SourceOK
<1> QED BY <1>1, <1>3, <1>4, <1>5, <1>6, <1>7 DEF SourceOK

LEMMA TempPuts ==
    ASSUME HInv, left > 0, NEW s \in Steps, Puts(s), Doing.do \in {"drop", "release"},
           s.do \in Letting, s.h = Doing.h, Data[Temp] # Null
    PROVE  \E j \in 1 .. left' : step'[j].do \in Letting /\ step'[j].h = Temp
<1>1. /\ left \in Nat /\ left' = left /\ left \in 1 .. left /\ step[left] = Doing
      /\ step'[left] = s
      /\ \A j \in 1 .. left - 1 : step'[j] = step[j]
      /\ \A j \in 1 .. left : j = left \/ j \in 1 .. left - 1
  BY PutSets DEF HInv, Doing
<1>2. PICK j \in 1 .. left : step[j].do \in Letting /\ step[j].h = Temp
  BY DEF HInv, CountOK
<1>3. CASE j = left
  BY <1>1, <1>2, <1>3
<1>4. CASE j # left
  BY <1>1, <1>2, <1>4
<1> QED BY <1>3, <1>4

-----------------------------------------------------------------------------
(* Every step of a call preserves the invariant.                           *)

\* A handle that holds nothing lets go of nothing.
LEMMA LetsNothing ==
    ASSUME HInv, left > 0, Doing.do \in {"drop", "release"}, Data[Doing.h] = Null,
           Then(<<>>), UNCHANGED <<Data, RefMap, alive, unique, weak>>
    PROVE  HInv'
<1>1. HandlesTypeOK /\ Pops /\ todo' \in Seq(Steps)
  BY ThenPops DEF HInv
<1>2. /\ left \in Nat /\ left' = left - 1 /\ left > 1
      /\ \A j \in 1 .. left' : j \in 1 .. left /\ step'[j] = step[j]
  BY <1>1, PopSets, LettingIs
<1> DEFINE t == step[left - 1]
<1>3. /\ left - 1 \in 1 .. left /\ Doing' = t /\ t \in Steps /\ Follows(Doing, t)
      /\ left' > 0 /\ Doing = step[left]
  <2>1. left - 1 \in 1 .. left - 1 /\ left - 1 + 1 = left /\ left - 1 \in 1 .. left'
    BY <1>2
  <2>2. Follows(step[left - 1 + 1], step[left - 1])
    BY <2>1 DEF HInv, OrderOK
  <2> QED BY <1>1, <1>2, <2>1, <2>2, StepsOK DEF Doing
<1>4. t.do \in {"free", "return"} \cup Acquiring
  BY LettingIs
<1> HIDE DEF t
<1>5. t.do \in Acquiring \cup {"free"} => t.h = Doing.h
  BY <1>3 DEF Follows
<1>6. t.do \notin {"forget", "take", "drop", "release", "delete"} /\ Doing.do \notin {"free", "take"}
      /\ Doing.do # "forget"
  BY <1>4 DEF Acquiring
<1>7. Forgetting = {} /\ Forgetting' = {}
  BY <1>3, <1>6 DEF Forgetting
<1>8. /\ \A a : Freed(a)' <=> Freed(a)
      /\ \A a : Taken(a)' <=> Taken(a)
      /\ \A h : Forgets(h)' <=> Forgets(h)
  BY <1>1, <1>6, <1>7, PopSets
<1>9. HandlesTypeOK'
  BY <1>1, ReturnsPops DEF HandlesTypeOK, Returns
<1>10. OrderOK'
  BY <1>1, OrderPops
<1>11. CountOK'
  <2>1. \A a : Holders(a)' = Holders(a)
    BY <1>7 DEF Holders
  <2>2. Data'[Temp] # Null => \E j \in 1 .. left' : step'[j].do \in Letting /\ step'[j].h = Temp
    <3> SUFFICES ASSUME Data[Temp] # Null
                 PROVE  \E j \in 1 .. left' : step'[j].do \in Letting /\ step'[j].h = Temp
      OBVIOUS
    <3>1. PICK j \in 1 .. left : step[j].do \in Letting /\ step[j].h = Temp
      BY DEF HInv, CountOK
    <3>2. j # left
      BY <3>1, <1>3
    <3>3. j \in 1 .. left'
      BY <3>2, <1>2
    <3> QED BY <3>1, <3>3, <1>2
  <2> QED BY <1>7, <1>8, <2>1, <2>2 DEF HInv, CountOK, Counted
<1>12. AliveOK'
  BY <1>8 DEF HInv, AliveOK, Counted, Owned
<1>13. UniqueOK'
  BY <1>1, UniquePops DEF Letting
<1>14. DoingOK'
  BY <1>3, <1>5, <1>6 DEF DoingOK
<1>15. LaterOK'
  BY <1>1, LaterPops DEF Anchored, Owned
<1>16. SourceOK'
  BY <1>1, SourcePops
<1> QED BY <1>9, <1>10, <1>11, <1>12, <1>13, <1>14, <1>15, <1>16 DEF HInv

\* if (IsValid()) Release();
LEMMA DropReleases ==
    ASSUME HInv, left > 0, Doing.do = "drop", Then(<<Release(Doing.h)>>),
           UNCHANGED <<Data, RefMap, alive, unique, weak>>
    PROVE  HInv'
<1> DEFINE s == Release(Doing.h)
<1>1. s.do = "release" /\ s.h = Doing.h /\ s.of = Null
  BY DEF Release, Do
<1>2. s \in Steps
  <2>1. Doing.h \in Shared
    BY LettingIs
  <2>2. "release" \in Letting
    BY DEF Letting
  <2>3. s \in [do : Letting, h : Shared, of : {Null}]
    BY <2>1, <2>2 DEF Release, Do
  <2> HIDE DEF s
  <2> QED BY <2>3 DEF Steps
<1> HIDE DEF s
<1>3. HandlesTypeOK /\ Puts(s) /\ todo' \in Seq(Steps) /\ left > 1
      /\ s.do \in Letting /\ s.do # "return" /\ s.do # "forget"
  BY <1>1, <1>2, ThenPuts, LettingIs DEF HInv, Letting, s
<1>4. /\ left \in Nat /\ left' = left /\ Doing' = s
      /\ \A j \in 1 .. left - 1 : step'[j] = step[j]
      /\ \A a : Freed(a)' <=> Freed(a)
      /\ \A a : Taken(a)' <=> Taken(a)
      /\ \A h : Forgets(h)' <=> Forgets(h)
  BY <1>2, <1>3, PutSets
<1>5. Forgetting = {} /\ Forgetting' = {}
  BY <1>1, <1>3, <1>4, LettingIs DEF Forgetting
<1>6. HandlesTypeOK'
  BY <1>2, <1>3, ReturnsPuts DEF HandlesTypeOK, Returns
<1>7. OrderOK'
  BY <1>1, <1>2, <1>3, OrderPuts
<1>8. CountOK'
  <2>1. \A a : Holders(a)' = Holders(a)
    BY <1>5 DEF Holders
  <2>2. Data'[Temp] # Null => \E j \in 1 .. left' : step'[j].do \in Letting /\ step'[j].h = Temp
    BY <1>1, <1>2, <1>3, TempPuts
  <2> QED BY <1>4, <1>5, <2>1, <2>2 DEF HInv, CountOK, Counted
<1>9. AliveOK'
  BY <1>4 DEF HInv, AliveOK, Counted, Owned
<1>10. UniqueOK'
  BY <1>2, <1>3, UniquePuts
<1>11. DoingOK'
  <2>1. /\ Doing.h \in Addresses =>
             \/ left > 1 /\ step[left - 1].do = "free" /\ step[left - 1].h = Doing.h
             \/ Anchored(Doing.h) \/ Data[Doing.h] = Null \/ Spared(Doing.h)
    BY DEF HInv, DoingOK
  <2>2. step'[left - 1] = step[left - 1]
    BY <1>3, <1>4
  <2> DEFINE h == Doing.h
  <2>3. Doing'.h = h /\ Doing'.do = "release"
    BY <1>1, <1>4
  <2>4. /\ Anchored(h) => \/ \E u \in Uniques : unique'[u] = h
                          \/ \E l \in Locals \cup {Temp} : Data'[l] = h
        /\ Spared(h) => \E g \in Shared \ {h} : Data'[g] = Data'[h]
    BY DEF Anchored, Owned, Spared
  <2> HIDE DEF h
  <2> QED BY <1>4, <2>1, <2>2, <2>3, <2>4 DEF DoingOK, h, Acquiring, Anchored, Owned, Spared
<1>12. LaterOK'
  BY <1>2, <1>3, LaterPuts
<1>13. SourceOK'
  BY <1>1, <1>2, <1>3, SourcePuts
<1> QED BY <1>6, <1>7, <1>8, <1>9, <1>10, <1>11, <1>12, <1>13 DEF HInv

\* The handle counts for its object no longer, and forgets it next.
LEMMA ReleasesOne ==
    ASSUME HInv, left > 0, Doing.do = "release", SharedValid(Doing.h), RefMap[Data[Doing.h]] > 1,
           RefMap' = WithCount(Data[Doing.h], RefMap[Data[Doing.h]] - 1),
           Then(<<Forget(Doing.h)>>), UNCHANGED <<Data, alive, unique, weak>>
    PROVE  HInv'
<1> DEFINE s == Forget(Doing.h)
           b == Data[Doing.h]
<1>1. s.do = "forget" /\ s.h = Doing.h /\ s.of = Null
  BY DEF Forget, Do
<1>2. s \in Steps
  <2>1. Doing.h \in Shared
    BY LettingIs
  <2>2. "forget" \in Letting
    BY DEF Letting
  <2>3. s \in [do : Letting, h : Shared, of : {Null}]
    BY <2>1, <2>2 DEF Forget, Do
  <2> HIDE DEF s
  <2> QED BY <2>3 DEF Steps
<1>3. HandlesTypeOK /\ Puts(s) /\ todo' \in Seq(Steps) /\ left > 1 /\ Doing.h \in Shared
      /\ s.do \in Letting /\ s.do # "return"
  <2> HIDE DEF s
  <2> QED BY <1>1, <1>2, ThenPuts, LettingIs DEF HInv, Letting, s
<1> HIDE DEF s
<1>4. /\ left \in Nat /\ left' = left /\ Doing' = s
      /\ \A j \in 1 .. left - 1 : step'[j] = step[j]
      /\ \A a : Freed(a)' <=> Freed(a)
      /\ \A a : Taken(a)' <=> Taken(a)
      /\ \A h : Forgets(h)' <=> Forgets(h)
  BY <1>2, <1>3, PutSets
<1>5. Forgetting = {} /\ Forgetting' = {Doing.h}
  BY <1>1, <1>3, <1>4, LettingIs DEF Forgetting
<1>6. /\ b \in DOMAIN RefMap /\ DOMAIN RefMap' = DOMAIN RefMap
      /\ RefMap \in [DOMAIN RefMap -> Nat \ {0}] /\ DOMAIN RefMap \subseteq Addresses
      /\ RefMap' = [a \in DOMAIN RefMap |-> IF a = b THEN RefMap[b] - 1 ELSE RefMap[a]]
  BY DEF SharedValid, Counted, WithCount, HInv, HandlesTypeOK
<1>7. HandlesTypeOK'
  <2>1. RefMap' \in [DOMAIN RefMap' -> Nat \ {0}]
    BY <1>6
  <2> QED BY <2>1, <1>2, <1>3, <1>6, ReturnsPuts DEF HandlesTypeOK, Returns
<1>8. OrderOK'
  BY <1>1, <1>2, <1>3, OrderPuts
<1>9. CountOK'
  <2>1. ASSUME NEW a \in DOMAIN RefMap
        PROVE  IsFiniteSet(Holders(a)') /\ RefMap'[a] = Cardinality(Holders(a)')
    <3>1. Holders(a)' = Holders(a) \ {Doing.h}
      BY <1>5 DEF Holders
    <3>2. IsFiniteSet(Holders(a)) /\ RefMap[a] = Cardinality(Holders(a))
      BY DEF HInv, CountOK
    <3>3. Doing.h \in Holders(a) <=> a = b
      BY <1>3, <1>5 DEF Holders
    <3>4. /\ IsFiniteSet(Holders(a) \ {Doing.h})
          /\ Cardinality(Holders(a) \ {Doing.h}) =
               IF Doing.h \in Holders(a) THEN Cardinality(Holders(a)) - 1
               ELSE Cardinality(Holders(a))
      BY <3>2, FS_RemoveElement
    <3>5. CASE a = b
      BY <3>1, <3>2, <3>3, <3>4, <3>5, <1>6
    <3>6. CASE a # b
      BY <3>1, <3>2, <3>3, <3>4, <3>6, <1>6
    <3> QED BY <3>5, <3>6
  <2>2. Data'[Temp] # Null => \E j \in 1 .. left' : step'[j].do \in Letting /\ step'[j].h = Temp
    BY <1>1, <1>2, <1>3, TempPuts
  <2>3. \A h \in Shared \ {Doing.h} : Data[h] # Null => Counted(Data[h]) \/ Forgets(h)
    BY <1>5 DEF HInv, CountOK
  <2>4. \A h \in Shared \ {Doing.h} : Data'[h] # Null => Counted(Data[h])' \/ Forgets(h)'
    BY <2>3, <1>4, <1>6 DEF Counted
  <2> QED BY <1>4, <1>5, <1>6, <2>1, <2>2, <2>4 DEF CountOK, Counted
<1>10. AliveOK'
  BY <1>4, <1>6 DEF HInv, AliveOK, Counted, Owned
<1>11. UniqueOK'
  BY <1>2, <1>3, <1>6, UniquePuts
<1>12. DoingOK'
  <2>1. PICK c : c = b
    OBVIOUS
  <2>2. ~Freed(c)
    BY <2>1, <1>6 DEF HInv, AliveOK, Counted
  <2>3. ~Freed(c)'
    BY <2>2, <1>4
  <2>4. Doing'.do = "forget" /\ Data'[Doing'.h] = c
    BY <2>1, <1>1, <1>4
  <2> QED BY <2>3, <2>4 DEF DoingOK, Acquiring
<1>13. LaterOK'
  BY <1>2, <1>3, LaterPuts
<1>14. SourceOK'
  BY <1>1, <1>2, <1>3, SourcePuts
<1> QED BY <1>7, <1>8, <1>9, <1>10, <1>11, <1>12, <1>13, <1>14 DEF HInv

\* The last holder deletes the object, and its member lets go first.
LEMMA ReleasesLast ==
    ASSUME HInv, left > 0, Doing.do = "release", SharedValid(Doing.h), RefMap[Data[Doing.h]] <= 1,
           RefMap' = Erased(Data[Doing.h]), Then(LastSteps(Doing.h)),
           UNCHANGED <<Data, alive, unique, weak>>
    PROVE  HInv'
<1>1. PICK a : a = Data[Doing.h]
  OBVIOUS
<1>2. PICK s : s = Forget(Doing.h)
  OBVIOUS
<1>3. s.do = "forget" /\ s.h = Doing.h /\ s.of = Null
  BY <1>2 DEF Forget, Do
<1>4. s \in Steps
  <2>1. Doing.h \in Shared
    BY LettingIs
  <2>2. "forget" \in Letting
    BY DEF Letting
  <2>3. s \in [do : Letting, h : Shared, of : {Null}]
    BY <1>2, <2>1, <2>2 DEF Forget, Do
  <2> QED BY <2>3 DEF Steps
<1>5. /\ a \in DOMAIN RefMap /\ a \in Addresses /\ a # Null
      /\ RefMap \in [DOMAIN RefMap -> Nat \ {0}] /\ DOMAIN RefMap \subseteq Addresses
      /\ RefMap' = [b \in DOMAIN RefMap \ {a} |-> RefMap[b]]
      /\ DOMAIN RefMap' = DOMAIN RefMap \ {a}
  BY <1>1 DEF SharedValid, Counted, Erased, HInv, HandlesTypeOK
<1>6. HandlesTypeOK /\ Deletes(a, s) /\ todo' \in Seq(Steps) /\ left > 1 /\ Doing.h \in Shared
      /\ s.do # "return" /\ Forgetting = {}
  BY <1>1, <1>2, <1>3, <1>4, <1>5, ThenDeletes, LettingIs DEF HInv, LastSteps
<1>7. /\ left \in Nat /\ left' = left + 2 /\ Doing' = Drop(a) /\ Forgetting' = {}
      /\ \A j \in 1 .. left - 1 : step'[j] = step[j]
      /\ step'[left] = s /\ step'[left + 1] = Do("free", a, Null)
      /\ step'[left + 2] = Drop(a)
      /\ \A j \in 1 .. left' : j \in 1 .. left - 1 \/ j = left \/ j = left + 1 \/ j = left + 2
      /\ \A b : Freed(b)' <=> Freed(b) \/ b = a
      /\ \A b : Taken(b)' <=> Taken(b)
      /\ \A h : Forgets(h)' <=> Forgets(h) \/ s.h = h
  BY <1>3, <1>4, <1>5, <1>6, DeleteSets
<1>8. /\ Drop(a).do = "drop" /\ Drop(a).h = a
      /\ Do("free", a, Null).do = "free" /\ Do("free", a, Null).h = a
  BY DEF Drop, Do
<1> DEFINE f == step'[left + 1]
           d == step'[left + 2]
<1>9. f.do = "free" /\ f.h = a /\ d.do = "drop" /\ d.h = a /\ Doing' = d
  BY <1>7, <1>8
<1> HIDE DEF f, d
<1>10. \A g \in Shared : Data[g] = a => g = Doing.h
  BY <1>1, LastHolder
<1>11. ~Freed(a) /\ ~Owned(a)
  <2>1. ~Freed(a)
    BY <1>5 DEF HInv, AliveOK, Counted
  <2>2. \A u \in Uniques : unique[u] # a
    BY <1>5 DEF HInv, UniqueOK, Counted
  <2> QED BY <2>1, <2>2 DEF Owned
\* What holds an object for a pending forget is not the handle that lets go.
<1>12. ASSUME NEW g \in Addresses, Anchored(g), Doing.h \in Addresses PROVE g # a
  <2>1. ASSUME NEW l \in Locals \cup {Temp}, Data[l] = a PROVE FALSE
    BY <1>10, <1>12, <2>1, Names
  <2> QED BY <1>11, <1>12, <2>1 DEF Anchored
<1>13. HandlesTypeOK'
  <2>1. RefMap' \in [DOMAIN RefMap' -> Nat \ {0}] /\ DOMAIN RefMap' \subseteq Addresses
    BY <1>5
  <2> QED BY <2>1, <1>4, <1>5, <1>6, ReturnsDeletes DEF HandlesTypeOK, Returns
<1>14. OrderOK'
  BY <1>1, <1>3, <1>4, <1>5, <1>6, <1>11, OrderDeletes
<1>15. CountOK'
  <2>1. \A b : Holders(b)' = Holders(b)
    BY <1>6, <1>7 DEF Holders
  <2>2. \A b \in DOMAIN RefMap' : IsFiniteSet(Holders(b)') /\ RefMap'[b] = Cardinality(Holders(b)')
    BY <2>1, <1>5 DEF HInv, CountOK
  <2>3. ASSUME NEW h \in Shared, Data[h] # Null PROVE Counted(Data[h])' \/ Forgets(h)'
    <3>1. Counted(Data[h]) \/ Forgets(h)
      BY <2>3, <1>6 DEF HInv, CountOK
    <3>2. CASE Data[h] = a
      BY <3>2, <1>3, <1>7, <1>10
    <3>3. CASE Data[h] # a
      BY <3>1, <3>3, <1>5, <1>7 DEF Counted
    <3> QED BY <3>2, <3>3
  <2>4. Data'[Temp] # Null => \E j \in 1 .. left' : step'[j].do \in Letting /\ step'[j].h = Temp
    <3> SUFFICES ASSUME Data[Temp] # Null
                 PROVE  \E j \in 1 .. left' : step'[j].do \in Letting /\ step'[j].h = Temp
      OBVIOUS
    <3>1. PICK j \in 1 .. left : step[j].do \in Letting /\ step[j].h = Temp
      BY DEF HInv, CountOK
    <3>2. j \in 1 .. left' /\ s.do \in Letting /\ (j # left => j \in 1 .. left - 1)
      BY <1>3, <1>7 DEF Letting
    <3>3. CASE j = left
      BY <3>1, <3>2, <3>3, <1>3, <1>7 DEF Doing
    <3>4. CASE j # left
      BY <3>1, <3>2, <3>4, <1>7
    <3> QED BY <3>3, <3>4
  <2> QED BY <1>7, <2>2, <2>3, <2>4 DEF CountOK
<1>16. AliveOK'
  <2>1. \A b \in Addresses : Counted(b)' <=> Counted(b) /\ b # a
    BY <1>5 DEF Counted
  <2>2. Counted(a)
    BY <1>5 DEF Counted
  <2>3. \A b : Owned(b)' <=> Owned(b)
    BY DEF Owned
  <2>4. alive' = alive /\ alive \subseteq Addresses
    BY <1>6 DEF HandlesTypeOK
  <2> QED BY <1>7, <2>1, <2>2, <2>3, <2>4 DEF HInv, AliveOK
<1>17. UniqueOK'
  <2>1. ASSUME NEW u \in Uniques, NEW b \in Addresses, unique[u] = b
        PROVE  /\ ~Counted(b)' /\ b \in alive
               /\ Freed(b)' => \E j \in 1 .. left' - 1 :
                    step'[j].do = "take" /\ step'[j].h = u /\ step'[j + 1].do = "free"
               /\ \A v \in Uniques : unique[v] = b => v = u
    <3>1. b # Null /\ b # a
      BY <2>1, <1>11, Names DEF Owned
    <3>2. ~Counted(b) /\ b \in alive /\ \A v \in Uniques : unique[v] = b => v = u
      BY <2>1, <3>1 DEF HInv, UniqueOK
    <3>3. ASSUME Freed(b) PROVE \E j \in 1 .. left' - 1 :
                    step'[j].do = "take" /\ step'[j].h = u /\ step'[j + 1].do = "free"
      <4>1. PICK j \in 1 .. left - 1 :
              step[j].do = "take" /\ step[j].h = u /\ step[j + 1].do = "free"
        BY <2>1, <3>1, <3>3 DEF HInv, UniqueOK
      <4>2. j + 1 # left
        BY <4>1 DEF Doing
      <4>3. j \in 1 .. left - 1 /\ j + 1 \in 1 .. left - 1 /\ j \in 1 .. left' - 1
        BY <4>2, <1>7
      <4> QED BY <4>1, <4>3, <1>7
    <3>4. ~Counted(b)'
      BY <3>2, <1>5 DEF Counted
    <3>5. Freed(b)' => Freed(b)
      BY <3>1, <1>7
    <3> QED BY <3>2, <3>3, <3>4, <3>5
  <2>2. ASSUME NEW j \in 1 .. left', step'[j].do \in {"take", "acquireRaw"}
        PROVE  j \in 1 .. left - 1 /\ j \in 1 .. left /\ step'[j] = step[j]
    BY <2>2, <1>3, <1>7, <1>9 DEF f, d
  <2>3. ASSUME NEW j \in 1 .. left', NEW b, step'[j].do = "take", step'[j].of = b, b # Null
        PROVE  b \in alive /\ ~Counted(b)' /\ ~Freed(b)' /\ ~Owned(b)'
    <3>1. b \in alive /\ ~Counted(b) /\ ~Freed(b) /\ ~Owned(b)
      BY <2>2, <2>3 DEF HInv, UniqueOK
    <3>2. b # a
      BY <3>1, <1>5 DEF Counted
    <3> QED BY <3>1, <3>2, <1>5, <1>7 DEF Counted, Owned
  <2>4. ASSUME NEW j \in 1 .. left', step'[j].do = "acquireRaw"
        PROVE  step'[j].of = Null \/ \A u \in Uniques : unique[u] # step'[j].of
    BY <2>2, <2>4 DEF HInv, UniqueOK, Owned
  <2>5. \A u \in Uniques : unique[u] \in Pointers
    BY <1>6 DEF HandlesTypeOK
  <2>6. \A u \in Uniques : unique[u] # Null => unique[u] \in Addresses
    BY <2>5, Names
  <2> QED BY <2>1, <2>3, <2>4, <2>6 DEF UniqueOK, Owned
<1>18. DoingOK'
  <2>1. left' - 1 = left + 1 /\ left' > 1
    BY <1>7
  <2> QED BY <1>9, <2>1 DEF DoingOK, Acquiring, f
<1>19. LaterOK'
  <2> SUFFICES ASSUME NEW j \in 1 .. left' - 1, NEW g \in Addresses,
                      step'[j].do = "forget", step'[j].h = g
               PROVE  \/ j > 1 /\ step'[j - 1].do = "free" /\ step'[j - 1].h = g
                      \/ Anchored(g)' /\ ~Freed(g)'
    BY DEF LaterOK
  <2>1. Anchored(g) => Anchored(g)'
    BY DEF Anchored, Owned
  <2>2. j \in 1 .. left - 1 \/ j = left \/ j = left + 1
    BY <1>7
  <2>3. CASE j \in 1 .. left - 1
    <3>1. step'[j] = step[j] /\ (j > 1 => step'[j - 1] = step[j - 1]) /\ j \in 1 .. left
          /\ left \in 1 .. left /\ left > j
      BY <1>7, <2>3
    <3>2. Doing.h \in Addresses
      <4>1. Doing.do \in Letting /\ Doing = step[left]
        BY DEF Letting, Doing
      <4> QED BY <3>1, <4>1 DEF HInv, OrderOK
    <3>3. \/ j > 1 /\ step[j - 1].do = "free" /\ step[j - 1].h = g
          \/ Anchored(g) /\ ~Freed(g)
      BY <2>3, <3>1 DEF HInv, LaterOK
    <3> QED BY <1>7, <1>12, <2>1, <3>1, <3>2, <3>3
  <2>4. CASE j = left
    <3>1. g = Doing.h /\ left - 1 \in 1 .. left - 1 /\ step'[left - 1] = step[left - 1]
      BY <1>3, <1>6, <1>7, <2>4
    <3>2. CASE step[left - 1].do = "free" /\ step[left - 1].h = Doing.h
      BY <1>6, <2>4, <3>1, <3>2
    <3>3. CASE ~(step[left - 1].do = "free" /\ step[left - 1].h = Doing.h)
      <4>1. ~Freed(g)
        BY <3>3, LettingIs
      <4>2. Anchored(Doing.h) \/ Data[Doing.h] = Null \/ Spared(Doing.h)
        BY <3>1, <3>3 DEF HInv, DoingOK
      <4>3. ~Spared(Doing.h)
        BY <1>1, <1>10 DEF Spared
      <4>4. Anchored(g) /\ g # a
        BY <1>1, <1>5, <1>12, <3>1, <4>2, <4>3
      <4> QED BY <1>7, <2>1, <4>1, <4>4
    <3> QED BY <3>2, <3>3
  <2>5. CASE j = left + 1
    BY <1>9, <2>5 DEF f
  <2> QED BY <2>2, <2>3, <2>4, <2>5
<1>20. SourceOK'
  <2>1. step'[1] = step[1]
    BY <1>4, <1>5, <1>6, <1>3, ReturnsDeletes
  <2>2. ASSUME NEW j \in 1 .. left', step'[j].do \in {"acquire", "acquireRaw"}
        PROVE  j \in 1 .. left - 1 /\ j \in 1 .. left /\ step'[j] = step[j]
    BY <2>2, <1>3, <1>7, <1>9 DEF f, d
  <2>3. ASSUME NEW j \in 1 .. left', step'[j].do = "acquireRaw", step[1].of \in Locals,
               NEW i \in j .. left', step'[i].do \in Letting
        PROVE  step'[i].h # step[1].of
    <3>1. j \in 1 .. left - 1 /\ j \in 1 .. left /\ step[j].do = "acquireRaw"
      BY <2>2, <2>3
    <3>2. \A k \in j .. left : step[k].do \in Letting => step[k].h # step[1].of
      BY <2>3, <3>1 DEF HInv, SourceOK
    <3>3. i \in 1 .. left' /\ left \in j .. left
      BY <1>7, <3>1
    <3>4. CASE i \in 1 .. left - 1
      BY <2>3, <3>1, <3>2, <3>4, <1>7
    <3>5. CASE i = left
      <4>1. Doing.do \in Letting /\ Doing = step[left]
        BY DEF Letting, Doing
      <4> QED BY <3>2, <3>3, <3>5, <4>1, <1>3, <1>7
    <3>6. CASE i \in {left + 1, left + 2}
      <4>1. step[1].of \notin Addresses
        BY <2>3, HandlesAssumption
      <4> QED BY <3>6, <4>1, <1>5, <1>9 DEF f, d
    <3> QED BY <1>7, <3>3, <3>4, <3>5, <3>6
  <2>4. \A j \in 1 .. left : step[j].do = "acquire" /\ step[j].of \in Addresses =>
          step[1].h \in {"copy", "move"} /\ step[1].of \notin Locals
    BY DEF HInv, SourceOK
  <2>5. \A j \in 1 .. left : step[j].do = "acquireRaw" =>
          step[1].h = "resetRaw" /\ (step[1].of \in Locals => Data[step[1].of] = step[j].of)
    BY DEF HInv, SourceOK
  <2> QED BY <2>1, <2>2, <2>3, <2>4, <2>5 DEF SourceOK
<1> QED BY <1>13, <1>14, <1>15, <1>16, <1>17, <1>18, <1>19, <1>20 DEF HInv

\* What comes after a step that is popped.
LEMMA PopsTo ==
    ASSUME HInv, left > 1, Pops
    PROVE  /\ step[left - 1] \in Steps /\ left - 1 \in 1 .. left /\ left - 1 \in 1 .. left - 1
           /\ Doing' = step[left - 1] /\ left' > 0 /\ Follows(Doing, step[left - 1])
<1>0. left \in Nat /\ left > 0
  BY StepsOK DEF HInv
<1>1. left \in Nat /\ left' = left - 1 /\ \A j \in 1 .. left' : step'[j] = step[j]
  BY <1>0, PopSets DEF HInv
<1>2. left - 1 \in 1 .. left - 1 /\ left - 1 + 1 = left /\ left - 1 \in 1 .. left'
      /\ left - 1 \in 1 .. left
  BY <1>1
<1>3. Follows(step[left - 1 + 1], step[left - 1])
  BY <1>2 DEF HInv, OrderOK
<1> QED BY <1>1, <1>2, <1>3, StepsOK DEF Doing, HInv

\* Only the return is alone.
LEMMA NotAlone ==
    ASSUME HInv, left > 0, Doing.do # "return"
    PROVE  left > 1
<1>1. left \in Nat /\ (left = 1 => Doing = step[1])
  BY StepsOK DEF HInv, Doing
<1> QED BY <1>1 DEF HInv, HandlesTypeOK

\* Data = nullptr, the last line.
LEMMA ForgetsIt ==
    ASSUME HInv, left > 0, Doing.do = "forget", Data' = [Data EXCEPT ![Doing.h] = Null],
           Then(<<>>), UNCHANGED <<RefMap, alive, unique, weak>>
    PROVE  HInv'
<1>1. PICK k : k = Doing.h
  OBVIOUS
<1>2. HandlesTypeOK /\ Pops /\ todo' \in Seq(Steps) /\ left > 1
  BY ThenPops, NotAlone DEF HInv
<1>3. /\ left \in Nat /\ left' = left - 1 /\ Doing = step[left] /\ left \in 1 .. left
      /\ \A j \in 1 .. left' : j \in 1 .. left /\ step'[j] = step[j]
  BY <1>2, PopSets DEF Doing
<1>4. k \in Shared /\ Doing.do \in Letting
  BY <1>1, <1>2, StepsOK, Kinds DEF Letting
<1>5. /\ Data \in [Shared -> Pointers] /\ Data' \in [Shared -> Pointers] /\ Data'[k] = Null
      /\ \A h \in Shared : h # k => Data'[h] = Data[h]
  BY <1>1, <1>2, <1>4, Names DEF HandlesTypeOK
<1>6. PICK t : t = step[left - 1]
  OBVIOUS
<1>7. t \in Steps /\ Doing' = t /\ left' > 0 /\ Follows(Doing, t)
  BY <1>2, <1>6, PopsTo
<1>8. t.do \in {"free", "return"} \cup Acquiring
  BY <1>7, StepKinds DEF Follows, Acquiring
<1>9. t.do \in Acquiring \cup {"free"} => t.h = k
  BY <1>1, <1>7 DEF Follows
<1>10. t.do \notin {"forget", "take", "drop", "release", "delete"}
  BY <1>8 DEF Acquiring
<1>11. Forgetting = {k} /\ Forgetting' = {}
  BY <1>1, <1>7, <1>10 DEF Forgetting
<1>12. /\ \A a : Freed(a)' <=> Freed(a)
       /\ \A a : Taken(a)' <=> Taken(a)
       /\ \A h : Forgets(h)' <=> Forgets(h)
  BY <1>2, <1>11, PopSets
\* No call out of this one lets go of the same handle.
<1>13. ASSUME NEW j \in 1 .. left - 1, step[j].do = "forget" PROVE step[j].h # k
  <2>1. Follows(step[j + 1], step[j]) /\ j + 1 \in 1 .. left
    BY <1>3 DEF HInv, OrderOK
  <2>2. step[j + 1].do = "free" /\ step[j + 1].h = Data[step[j].h]
    BY <1>13, <2>1 DEF Follows
  <2>3. Freed(Data[step[j].h])
    BY <2>1, <2>2 DEF Freed
  <2>4. ~Freed(Data[k])
    BY <1>1 DEF HInv, DoingOK
  <2> QED BY <2>3, <2>4
<1>14. ASSUME NEW j \in 1 .. left - 1, step[j].do = "forget"
       PROVE  step[j].h \in Shared /\ Data'[step[j].h] = Data[step[j].h]
  <2>1. step[j] \in Steps
    BY <1>2, <1>3, StepsOK
  <2>2. step[j].h \in Shared
    BY <1>14, <2>1, Kinds DEF Letting
  <2> QED BY <2>2, <1>5, <1>13, <1>14
<1>15. HandlesTypeOK'
  BY <1>2, <1>5, ReturnsPops DEF HandlesTypeOK, Returns
<1>16. OrderOK'
  <2>1. \A j \in 1 .. left - 2 : j \in 1 .. left - 1
    BY <1>3
  <2> QED BY <2>1, <1>2, <1>14, OrderPops
<1>17. CountOK'
  <2>1. ASSUME NEW a, a # Null PROVE Holders(a)' = Holders(a)
    BY <2>1, <1>5, <1>11 DEF Holders
  <2>2. \A a \in DOMAIN RefMap : a # Null
    BY <1>2, Names DEF HandlesTypeOK
  <2>3. \A h \in Shared : Data'[h] # Null => h # k /\ Data'[h] = Data[h]
    BY <1>5
  <2>4. \A h \in Shared : Data'[h] # Null => Counted(Data'[h]) \/ Forgets(h)
    BY <2>3, <1>11 DEF HInv, CountOK
  <2>5. Data'[Temp] # Null => \E j \in 1 .. left' : step'[j].do \in Letting /\ step'[j].h = Temp
    <3> SUFFICES ASSUME Data'[Temp] # Null
                 PROVE  \E j \in 1 .. left' : step'[j].do \in Letting /\ step'[j].h = Temp
      OBVIOUS
    <3>1. Data[Temp] # Null /\ Temp # k
      BY <2>3, Names
    <3>2. PICK j \in 1 .. left : step[j].do \in Letting /\ step[j].h = Temp
      BY <3>1 DEF HInv, CountOK
    <3>3. j # left
      BY <3>1, <3>2, <1>1, <1>3
    <3>4. j \in 1 .. left'
      BY <3>3, <1>3
    <3> QED BY <3>2, <3>4, <1>3
  <2>6. \A a \in DOMAIN RefMap :
          IsFiniteSet(Holders(a)') /\ RefMap[a] = Cardinality(Holders(a)')
    BY <2>1, <2>2 DEF HInv, CountOK
  <2> QED BY <1>11, <1>12, <2>4, <2>5, <2>6 DEF CountOK, Counted
<1>18. AliveOK'
  BY <1>12 DEF HInv, AliveOK, Counted, Owned
<1>19. UniqueOK'
  BY <1>2, <1>4, UniquePops
<1>20. DoingOK'
  BY <1>5, <1>7, <1>9, <1>10 DEF DoingOK
<1>21. LaterOK'
  <2>1. ASSUME NEW j \in 1 .. left - 2, NEW g \in Addresses, step[j].do = "forget",
               step[j].h = g, Anchored(g)
        PROVE  Anchored(g)'
    <3>1. j \in 1 .. left /\ left > j
      BY <1>3
    <3>2. k \in Addresses
      BY <1>1, <1>3, <1>4, <2>1, <3>1 DEF HInv, OrderOK
    <3>3. \A l \in Locals \cup {Temp} : Data'[l] = Data[l]
      BY <1>5, <3>2, Names
    <3> QED BY <2>1, <3>3 DEF Anchored, Owned
  <2> QED BY <2>1, <1>2, LaterPops
<1>22. SourceOK'
  <2>1. ASSUME NEW j \in 1 .. left - 1, step[j].do = "acquireRaw", step[1].of \in Locals
        PROVE  Data'[step[1].of] = Data[step[1].of]
    <3>1. j \in 1 .. left /\ left \in j .. left
      BY <1>3
    <3>2. step[left].h # step[1].of
      BY <1>3, <1>4, <2>1, <3>1 DEF HInv, SourceOK
    <3> QED BY <1>1, <1>3, <1>5, <2>1, <3>2, Names
  <2> QED BY <2>1, <1>2, SourcePops
<1> QED BY <1>15, <1>16, <1>17, <1>18, <1>19, <1>20, <1>21, <1>22 DEF HInv

\* The member of an object in memory has let go, and the object is freed.
LEMMA FreesIt ==
    ASSUME HInv, left > 0, Doing.do = "free", alive' = alive \ {Doing.h},
           Data' = [Data EXCEPT ![Doing.h] = Null], Then(<<>>), UNCHANGED <<RefMap, unique, weak>>
    PROVE  HInv'
<1>1. PICK a : a = Doing.h
  OBVIOUS
<1>2. HandlesTypeOK /\ Pops /\ todo' \in Seq(Steps) /\ left > 1
  BY ThenPops, NotAlone DEF HInv
<1>3. /\ left \in Nat /\ left' = left - 1 /\ Doing = step[left] /\ left \in 1 .. left
      /\ \A j \in 1 .. left' : j \in 1 .. left /\ step'[j] = step[j]
  BY <1>2, PopSets DEF Doing
<1>4. a \in Addresses /\ a # Null /\ Freed(a) /\ ~Counted(a) /\ Data[a] = Null
  <2>1. a \in Addresses
    BY <1>1, <1>2, StepsOK, Kinds
  <2>2. Freed(a)
    BY <1>1, <1>3 DEF Freed
  <2>3. Data[a] = Null
    BY <1>1 DEF HInv, DoingOK
  <2> QED BY <2>1, <2>2, <2>3, Names DEF HInv, AliveOK
<1>5. Data' = Data
  BY <1>1, <1>2, <1>4, Names DEF HandlesTypeOK
<1>6. PICK t : t = step[left - 1]
  OBVIOUS
<1>7. t \in Steps /\ Doing' = t /\ left' > 0 /\ Follows(Doing, t) /\ left - 1 \in 1 .. left - 1
  BY <1>2, <1>6, PopsTo
<1>8. t.do \in {"forget", "take", "return"}
  BY <1>7, StepKinds DEF Follows, Acquiring, Letting
<1>9. /\ t.do = "forget" => Data[t.h] = a
      /\ t.do = "take" => t.of = Null /\ unique[t.h] = a
  BY <1>1, <1>7 DEF Follows
<1>10. Forgetting = {} /\ Forgetting' = IF t.do = "forget" THEN {t.h} ELSE {}
  BY <1>7 DEF Forgetting
<1>11. /\ \A b : Freed(b) <=> Freed(b)' \/ b = a
       /\ \A b : Taken(b)' <=> Taken(b)
       /\ \A h : Forgets(h) <=> Forgets(h)' \/ h \in Forgetting'
  BY <1>1, <1>2, PopSets
\* Only once.
<1>12. ~Freed(a)'
  <2> SUFFICES ASSUME Freed(a)' PROVE FALSE
    OBVIOUS
  <2>1. PICK j \in 1 .. left' : step'[j].do = "free" /\ step'[j].h = a
    BY DEF Freed
  <2>2. j \in 1 .. left /\ left > j /\ step[j].do = "free" /\ step[j].h = a
    BY <1>3, <2>1
  <2> QED BY <1>1, <1>3, <2>2 DEF HInv, OrderOK
<1>13. HandlesTypeOK'
  BY <1>2, <1>5, ReturnsPops DEF HandlesTypeOK, Returns
<1>14. OrderOK'
  BY <1>2, <1>5, OrderPops
<1>15. CountOK'
  <2>1. ASSUME NEW b \in DOMAIN RefMap PROVE Holders(b)' = Holders(b)
    <3>1. b # a
      BY <1>4, <2>1 DEF Counted
    <3> QED BY <1>5, <1>9, <1>10, <3>1 DEF Holders
  <2>2. \A b \in DOMAIN RefMap :
          IsFiniteSet(Holders(b)') /\ RefMap[b] = Cardinality(Holders(b)')
    BY <2>1 DEF HInv, CountOK
  <2>3. \A h \in Shared \ Forgetting' : Data[h] # Null => Counted(Data[h]) \/ Forgets(h)'
    BY <1>10, <1>11 DEF HInv, CountOK
  <2>4. Data'[Temp] # Null => \E j \in 1 .. left' : step'[j].do \in Letting /\ step'[j].h = Temp
    <3> SUFFICES ASSUME Data[Temp] # Null
                 PROVE  \E j \in 1 .. left' : step'[j].do \in Letting /\ step'[j].h = Temp
      BY <1>5
    <3>1. PICK j \in 1 .. left : step[j].do \in Letting /\ step[j].h = Temp
      BY DEF HInv, CountOK
    <3>2. j # left
      BY <3>1, <1>3 DEF Letting
    <3>3. j \in 1 .. left'
      BY <3>2, <1>3
    <3> QED BY <3>1, <3>3, <1>3
  <2> QED BY <1>5, <2>2, <2>3, <2>4 DEF CountOK, Counted
<1>16. AliveOK'
  <2>1. \A b : Owned(b)' <=> Owned(b)
    BY DEF Owned
  <2>2. \A b : Counted(b)' <=> Counted(b)
    BY DEF Counted
  <2> QED BY <1>1, <1>4, <1>11, <1>12, <2>1, <2>2 DEF HInv, AliveOK
<1>17. UniqueOK'
  <2>1. ASSUME NEW u \in Uniques, NEW b \in Addresses, unique[u] = b
        PROVE  /\ ~Counted(b)'
               /\ b \in alive' \/ (t.do = "take" /\ t.h = u)
               /\ Freed(b)' => \E j \in 1 .. left' - 1 :
                    step'[j].do = "take" /\ step'[j].h = u /\ step'[j + 1].do = "free"
               /\ \A v \in Uniques : unique[v] = b => v = u
    <3>1. b # Null
      BY Names
    <3>2. ~Counted(b) /\ b \in alive /\ \A v \in Uniques : unique[v] = b => v = u
      BY <2>1, <3>1 DEF HInv, UniqueOK
    <3>3. ASSUME Freed(b)
          PROVE  \E j \in 1 .. left - 1 :
                   step[j].do = "take" /\ step[j].h = u /\ step[j + 1].do = "free"
      BY <2>1, <3>1, <3>3 DEF HInv, UniqueOK
    <3>4. ASSUME b = a PROVE t.do = "take" /\ t.h = u
      <4>1. PICK j \in 1 .. left - 1 :
              step[j].do = "take" /\ step[j].h = u /\ step[j + 1].do = "free"
        BY <1>4, <3>3, <3>4
      <4>2. Follows(step[j + 1], step[j]) /\ j + 1 \in 1 .. left
        BY <1>3 DEF HInv, OrderOK
      <4>3. step[j + 1].h = a
        BY <2>1, <3>4, <4>1, <4>2 DEF Follows
      <4>4. j + 1 = left
        <5> SUFFICES ASSUME j + 1 # left PROVE FALSE
          OBVIOUS
        <5>1. left > j + 1
          BY <1>3, <4>2
        <5> QED BY <1>1, <1>3, <4>1, <4>2, <4>3, <5>1 DEF HInv, OrderOK
      <4>5. j = left - 1
        BY <1>3, <4>4
      <4> QED BY <1>6, <4>1, <4>5
    <3>5. ASSUME Freed(b)'
          PROVE  \E j \in 1 .. left' - 1 :
                   step'[j].do = "take" /\ step'[j].h = u /\ step'[j + 1].do = "free"
      <4>1. PICK j \in 1 .. left - 1 :
              step[j].do = "take" /\ step[j].h = u /\ step[j + 1].do = "free"
        BY <1>11, <3>3, <3>5
      <4>2. b # a
        BY <1>12, <3>5
      <4>3. j # left - 1
        BY <1>6, <1>9, <2>1, <4>1, <4>2
      <4>4. j \in 1 .. left' - 1 /\ j \in 1 .. left' /\ j + 1 \in 1 .. left'
        BY <1>3, <4>3
      <4> QED BY <1>3, <4>1, <4>4
    <3> QED BY <1>1, <3>2, <3>4, <3>5 DEF Counted
  <2>2. ASSUME NEW j \in 1 .. left', NEW b, step'[j].do = "take", step'[j].of = b, b # Null
        PROVE  b \in alive' /\ ~Counted(b)' /\ ~Freed(b)' /\ ~Owned(b)'
    <3>1. b \in alive /\ ~Counted(b) /\ ~Freed(b) /\ ~Owned(b)
      BY <1>3, <2>2 DEF HInv, UniqueOK
    <3> QED BY <1>1, <1>4, <1>11, <3>1 DEF Counted, Owned
  <2>3. ASSUME NEW j \in 1 .. left', step'[j].do = "acquireRaw"
        PROVE  step'[j].of = Null \/ \A u \in Uniques : unique[u] # step'[j].of
    BY <1>3, <2>3 DEF HInv, UniqueOK, Owned
  <2>4. \A u \in Uniques : unique[u] \in Pointers
    BY <1>2 DEF HandlesTypeOK
  <2>5. \A u \in Uniques : unique[u] # Null => unique[u] \in Addresses
    BY <2>4, Names
  <2> QED BY <1>7, <2>1, <2>2, <2>3, <2>5 DEF UniqueOK, Owned
<1>18. DoingOK'
  <2>1. t.do = "take" => unique'[t.h] \notin alive'
    BY <1>1, <1>9
  <2>2. t.do = "forget" => ~Freed(a)' /\ Data'[t.h] = a
    BY <1>5, <1>9, <1>12
  <2> QED BY <1>7, <1>8, <2>1, <2>2 DEF DoingOK, Acquiring
<1>19. LaterOK'
  BY <1>2, <1>5, LaterPops DEF Anchored, Owned
<1>20. SourceOK'
  BY <1>2, <1>5, SourcePops
<1> QED BY <1>13, <1>14, <1>15, <1>16, <1>17, <1>18, <1>19, <1>20 DEF HInv

\* A call returns to the program.
LEMMA ReturnsAt ==
    ASSUME HInv, left > 0, Doing.do = "return", Then(<<>>),
           UNCHANGED <<Data, RefMap, alive, unique, weak>>
    PROVE  HInv'
<1>1. HandlesTypeOK /\ Pops /\ todo' \in Seq(Steps)
  BY ThenPops DEF HInv
<1>2. left \in Nat /\ left' = left - 1 /\ Doing = step[left]
  BY <1>1, PopSets DEF Doing
<1>3. left = 1 /\ left' = 0
  <2>1. left > 1 => left \in 2 .. left
    BY <1>2
  <2> QED BY <1>2, <2>1 DEF HInv, HandlesTypeOK
<1>4. Doing.do \notin Deleting
  BY DEF Deleting, Letting
<1>5. Forgetting = {} /\ Forgetting' = {}
  BY <1>3, <1>4, NoDeletion DEF Forgetting
<1>6. /\ \A a : ~Freed(a) /\ ~Freed(a)'
      /\ \A a : ~Taken(a) /\ ~Taken(a)'
      /\ \A h : ~Forgets(h) /\ ~Forgets(h)'
  <2>1. \A a : ~Freed(a) /\ ~Forgets(a)
    BY <1>4, NoDeletion
  <2>2. \A a : ~Taken(a)
    BY <1>2, <1>3 DEF Taken
  <2> QED BY <1>1, <2>1, <2>2, PopSets
<1>7. HandlesTypeOK'
  BY <1>1, <1>3 DEF HandlesTypeOK
<1>8. OrderOK'
  BY <1>3 DEF OrderOK
<1>9. CountOK'
  <2>1. \A a : Holders(a)' = Holders(a)
    BY <1>5 DEF Holders
  <2>2. Data[Temp] = Null
    BY <1>2, <1>3 DEF HInv, CountOK, Letting
  <2> QED BY <1>5, <1>6, <2>1, <2>2 DEF HInv, CountOK, Counted
<1>10. AliveOK'
  BY <1>6 DEF HInv, AliveOK, Counted, Owned
<1>11. UniqueOK'
  <2>1. \A u \in Uniques : unique[u] # Null =>
          /\ ~Counted(unique[u]) /\ unique[u] \in alive /\ ~Freed(unique[u])'
          /\ \A v \in Uniques : unique[v] = unique[u] => v = u
    BY <1>6 DEF HInv, UniqueOK
  <2> QED BY <1>3, <2>1 DEF UniqueOK, Counted
<1>12. DoingOK' /\ LaterOK' /\ SourceOK'
  BY <1>3 DEF DoingOK, LaterOK, SourceOK
<1> QED BY <1>7, <1>8, <1>9, <1>10, <1>11, <1>12 DEF HInv

\* Data = a, counted already by a handle, or by the one that is assigned from.
LEMMA HoldsIt ==
    ASSUME HInv, left > 0, Doing.do \in Acquiring, NEW a \in Pointers,
           a # Null => Counted(a), Doing.do = "acquire" => a = Data[Doing.of],
           Hold(Doing.h, a)
    PROVE  HInv'
<1>1. PICK k : k = Doing.h
  OBVIOUS
<1>2. Then(<<>>) /\ alive' = alive /\ unique' = unique /\ weak' = weak
  BY DEF Hold
<1>3. Doing.do \notin Deleting /\ Doing.do \notin {"return", "take", "free"}
      /\ Doing.do \notin Letting
  BY DEF Acquiring, Deleting, Letting
<1>4. HandlesTypeOK /\ Pops /\ todo' \in Seq(Steps) /\ left > 1
  BY <1>2, <1>3, ThenPops, NotAlone DEF HInv
<1>5. /\ left \in Nat /\ left' = left - 1 /\ Doing = step[left] /\ left \in 1 .. left
      /\ \A j \in 1 .. left' : j \in 1 .. left /\ step'[j] = step[j]
  BY <1>4, PopSets DEF Doing
<1>6. k \in Targets /\ k \in Shared /\ k # Temp
  BY <1>1, <1>4, StepsOK, Kinds, Names DEF Acquiring
<1>7. Data[k] = Null
  BY <1>1 DEF HInv, DoingOK
<1>8. PICK t : t = step[left - 1]
  OBVIOUS
<1>9. t \in Steps /\ Doing' = t /\ left' > 0 /\ Follows(Doing, t) /\ left - 1 \in 1 .. left - 1
  BY <1>4, <1>8, PopsTo
<1>10. t.do \in {"release", "drop", "return"}
  BY <1>3, <1>9, StepKinds DEF Follows, Acquiring, Letting
<1>11. /\ \A j \in 1 .. left : step[j].do \notin {"free", "forget"}
       /\ \A b : ~Freed(b) /\ ~Forgets(b)
       /\ Forgetting = {} /\ Forgetting' = {}
  BY <1>3, <1>9, <1>10, NoDeletion DEF Forgetting
<1>12. /\ \A b : ~Freed(b)'
       /\ \A b : Taken(b)' <=> Taken(b)
       /\ \A h : ~Forgets(h)'
  BY <1>3, <1>4, <1>11, PopSets
\* Nothing else is left to acquire.
<1>13. ASSUME NEW j \in 1 .. left' PROVE step'[j].do \notin {"acquire", "acquireRaw", "forget"}
  <2>1. j \in 1 .. left /\ left > j /\ step'[j] = step[j]
    BY <1>5
  <2>2. step[j].do \notin Acquiring \cup {"forget"}
    BY <1>3, <1>5, <2>1 DEF HInv, OrderOK
  <2> QED BY <2>1, <2>2 DEF Acquiring
<1>14. /\ Data \in [Shared -> Pointers] /\ Data' \in [Shared -> Pointers] /\ Data'[k] = a
       /\ \A h \in Shared : h # k => Data'[h] = Data[h]
  <2>1. Data \in [Shared -> Pointers]
    BY <1>4 DEF HandlesTypeOK
  <2>2. CASE a = Null
    BY <1>1, <1>6, <1>7, <2>1, <2>2 DEF Hold
  <2>3. CASE a # Null
    <3>1. Data' = [Data EXCEPT ![k] = a]
      BY <1>1, <1>7, <2>3 DEF Hold
    <3> QED BY <1>6, <2>1, <3>1
  <2> QED BY <2>2, <2>3
<1>15. /\ RefMap \in [DOMAIN RefMap -> Nat \ {0}] /\ DOMAIN RefMap \subseteq Addresses
       /\ RefMap' = [b \in DOMAIN RefMap |-> IF b = a THEN RefMap[b] + 1 ELSE RefMap[b]]
       /\ DOMAIN RefMap' = DOMAIN RefMap /\ RefMap' \in [DOMAIN RefMap' -> Nat \ {0}]
  <2>1. RefMap \in [DOMAIN RefMap -> Nat \ {0}] /\ DOMAIN RefMap \subseteq Addresses
    BY <1>4 DEF HandlesTypeOK
  <2>2. RefMap' = [b \in DOMAIN RefMap |-> IF b = a THEN RefMap[b] + 1 ELSE RefMap[b]]
    <3>1. CASE a = Null
      <4>1. RefMap' = RefMap /\ a \notin DOMAIN RefMap
        BY <3>1, <2>1, Names DEF Hold
      <4> QED BY <2>1, <4>1
    <3>2. CASE a # Null
      <4>1. RefMap' = CountUp(a) /\ a \in DOMAIN RefMap
        BY <1>1, <1>7, <3>2 DEF Hold, Counted
      <4> QED BY <2>1, <4>1 DEF CountUp, WithCount, Counted
    <3> QED BY <3>1, <3>2
  <2>3. RefMap' \in [DOMAIN RefMap' -> Nat \ {0}]
    BY <2>1, <2>2
  <2> QED BY <2>1, <2>2, <2>3
<1>16. HandlesTypeOK'
  BY <1>2, <1>4, <1>14, <1>15, ReturnsPops DEF HandlesTypeOK, Returns
<1>17. OrderOK'
  <2>1. \A j \in 1 .. left - 2 : j \in 1 .. left
    BY <1>5
  <2> QED BY <1>2, <1>4, <1>11, <2>1, OrderPops
<1>18. CountOK'
  <2>1. ASSUME NEW b \in DOMAIN RefMap
        PROVE  IsFiniteSet(Holders(b)') /\ RefMap'[b] = Cardinality(Holders(b)')
    <3>1. b # Null /\ IsFiniteSet(Holders(b)) /\ RefMap[b] = Cardinality(Holders(b))
      BY <1>15, Names DEF HInv, CountOK
    <3>2. k \notin Holders(b)
      BY <1>7, <3>1 DEF Holders
    <3>3. CASE b = a
      <4>1. Holders(b)' = Holders(b) \cup {k}
        BY <1>6, <1>11, <1>14, <3>3 DEF Holders
      <4>2. /\ IsFiniteSet(Holders(b) \cup {k})
            /\ Cardinality(Holders(b) \cup {k}) = Cardinality(Holders(b)) + 1
        BY <3>1, <3>2, FS_AddElement
      <4> QED BY <1>15, <3>1, <3>3, <4>1, <4>2
    <3>4. CASE b # a
      <4>1. Holders(b)' = Holders(b)
        BY <1>7, <1>11, <1>14, <3>1, <3>4 DEF Holders
      <4> QED BY <1>15, <3>1, <3>4, <4>1
    <3> QED BY <3>3, <3>4
  <2>2. \A h \in Shared : Data'[h] # Null => Data'[h] \in DOMAIN RefMap
    <3>1. \A h \in Shared : Data[h] # Null => Data[h] \in DOMAIN RefMap
      BY <1>11 DEF HInv, CountOK, Counted
    <3> QED BY <1>14, <3>1 DEF Counted
  <2>3. Data'[Temp] # Null => \E j \in 1 .. left' : step'[j].do \in Letting /\ step'[j].h = Temp
    <3> SUFFICES ASSUME Data'[Temp] # Null
                 PROVE  \E j \in 1 .. left' : step'[j].do \in Letting /\ step'[j].h = Temp
      OBVIOUS
    <3>1. Data[Temp] # Null
      BY <1>6, <1>14, Names
    <3>2. PICK j \in 1 .. left : step[j].do \in Letting /\ step[j].h = Temp
      BY <3>1 DEF HInv, CountOK
    <3>3. j # left
      BY <3>2, <1>3, <1>5
    <3>4. j \in 1 .. left'
      BY <3>3, <1>5
    <3> QED BY <3>2, <3>4, <1>5
  <2> QED BY <1>11, <1>15, <2>1, <2>2, <2>3 DEF CountOK, Counted
<1>19. AliveOK'
  BY <1>2, <1>11, <1>12, <1>15 DEF HInv, AliveOK, Counted, Owned
<1>20. UniqueOK'
  <2>1. \A u \in Uniques : unique[u] # Null =>
          /\ unique[u] \notin DOMAIN RefMap /\ unique[u] \in alive /\ ~Freed(unique[u])'
          /\ \A v \in Uniques : unique[v] = unique[u] => v = u
    BY <1>2, <1>3, <1>12 DEF HInv, UniqueOK, Counted
  <2>2. ASSUME NEW j \in 1 .. left', NEW b, step'[j].do = "take", step'[j].of = b, b # Null
        PROVE  b \in alive /\ b \notin DOMAIN RefMap /\ ~Freed(b)' /\ ~Owned(b)'
    <3>1. b \in alive /\ ~Counted(b) /\ ~Owned(b)
      BY <1>5, <2>2 DEF HInv, UniqueOK
    <3> QED BY <1>2, <1>12, <3>1 DEF Counted, Owned
  <2> QED BY <1>2, <1>13, <1>15, <2>1, <2>2 DEF UniqueOK, Counted
<1>21. DoingOK'
  <2>1. ASSUME t.do = "release" PROVE Spared(t.h)' \/ Data'[t.h] = Null
    <3>1. Doing.do = "acquire" /\ Doing.of = t.h /\ t.h # k
      BY <1>1, <1>9, <2>1 DEF Follows
    <3>2. t.h \in Shared
      BY <1>9, <2>1, Kinds DEF Letting
    <3>3. Data'[t.h] = a /\ Data'[k] = a
      BY <1>14, <3>1, <3>2
    <3>4. \E g \in Shared \ {t.h} : Data'[g] = Data'[t.h]
      BY <1>6, <3>1, <3>3
    <3> QED BY <3>4, <1>9 DEF Spared
  <2>2. t.do = "drop" => t.h \notin Addresses
    BY <1>9, Names DEF Follows
  <2>3. \/ t.do = "release" /\ ((\E g \in Shared \ {t.h} : Data'[g] = Data'[t.h]) \/ Data'[t.h] = Null)
        \/ t.do = "drop" /\ t.h \notin Addresses
        \/ t.do = "return"
    BY <1>10, <2>1, <2>2 DEF Spared
  <2> QED BY <1>9, <2>3 DEF DoingOK, Acquiring, Spared
<1>22. LaterOK'
  <2>1. \A j \in 1 .. left' - 1 : j \in 1 .. left'
    BY <1>5
  <2> QED BY <1>13, <2>1 DEF LaterOK
<1>23. SourceOK'
  BY <1>13 DEF SourceOK
<1> QED BY <1>16, <1>17, <1>18, <1>19, <1>20, <1>21, <1>22, <1>23 DEF HInv

\* Unique's ReleaseResourseChecked, of nothing and of an object.
LEMMA DeletesNothing ==
    ASSUME HInv, left > 0, Doing.do = "delete", unique[Doing.h] = Null, Then(<<>>),
           UNCHANGED <<Data, RefMap, alive, unique, weak>>
    PROVE  HInv'
<1>1. Doing.do \notin Deleting /\ Doing.do \notin {"return", "take", "free"} /\ Doing.do \notin Letting
  BY DEF Deleting, Letting
<1>2. HandlesTypeOK /\ Pops /\ todo' \in Seq(Steps) /\ left > 1
  BY <1>1, ThenPops, NotAlone DEF HInv
<1>3. /\ left \in Nat /\ left' = left - 1 /\ Doing = step[left] /\ left \in 1 .. left
      /\ \A j \in 1 .. left' : j \in 1 .. left /\ step'[j] = step[j]
  BY <1>2, PopSets DEF Doing
<1>4. PICK t : t = step[left - 1]
  OBVIOUS
<1>5. t \in Steps /\ Doing' = t /\ left' > 0 /\ Follows(Doing, t)
  BY <1>2, <1>4, PopsTo
<1>6. t.do \in {"take", "return"} /\ (t.do = "take" => t.h = Doing.h)
  BY <1>5, StepKinds DEF Follows, Acquiring, Letting
<1>7. /\ \A j \in 1 .. left : step[j].do \notin {"free", "forget"}
      /\ \A b : ~Freed(b) /\ ~Forgets(b)
      /\ Forgetting = {} /\ Forgetting' = {}
  BY <1>1, <1>5, <1>6, NoDeletion DEF Forgetting
<1>8. /\ \A b : ~Freed(b)'
      /\ \A b : Taken(b)' <=> Taken(b)
      /\ \A h : ~Forgets(h)'
  BY <1>1, <1>2, <1>7, PopSets
<1>9. HandlesTypeOK'
  BY <1>2, ReturnsPops DEF HandlesTypeOK, Returns
<1>10. OrderOK'
  BY <1>2, OrderPops
<1>11. CountOK'
  <2>1. \A a : Holders(a)' = Holders(a)
    BY <1>7 DEF Holders
  <2>2. Data'[Temp] # Null => \E j \in 1 .. left' : step'[j].do \in Letting /\ step'[j].h = Temp
    <3> SUFFICES ASSUME Data[Temp] # Null
                 PROVE  \E j \in 1 .. left' : step'[j].do \in Letting /\ step'[j].h = Temp
      OBVIOUS
    <3>1. PICK j \in 1 .. left : step[j].do \in Letting /\ step[j].h = Temp
      BY DEF HInv, CountOK
    <3>2. j # left
      BY <3>1, <1>1, <1>3
    <3>3. j \in 1 .. left'
      BY <3>2, <1>3
    <3> QED BY <3>1, <3>3, <1>3
  <2> QED BY <1>7, <1>8, <2>1, <2>2 DEF HInv, CountOK, Counted
<1>12. AliveOK'
  BY <1>7, <1>8 DEF HInv, AliveOK, Counted, Owned
<1>13. UniqueOK'
  <2>1. \A u \in Uniques : unique[u] # Null =>
          /\ ~Counted(unique[u]) /\ unique[u] \in alive /\ ~Freed(unique[u])'
          /\ \A v \in Uniques : unique[v] = unique[u] => v = u
    BY <1>1, <1>8 DEF HInv, UniqueOK
  <2>2. ASSUME NEW j \in 1 .. left', NEW b, step'[j].do = "take", step'[j].of = b, b # Null
        PROVE  b \in alive /\ ~Counted(b) /\ ~Freed(b)' /\ ~Owned(b)
    BY <1>3, <1>8, <2>2 DEF HInv, UniqueOK
  <2>3. ASSUME NEW j \in 1 .. left', step'[j].do = "acquireRaw"
        PROVE  step'[j].of = Null \/ \A u \in Uniques : unique[u] # step'[j].of
    BY <1>3, <2>3 DEF HInv, UniqueOK, Owned
  <2> QED BY <2>1, <2>2, <2>3 DEF UniqueOK, Counted, Owned
<1>14. DoingOK'
  <2>1. Null \notin alive
    BY <1>2, Names DEF HandlesTypeOK
  <2> QED BY <1>5, <1>6, <2>1 DEF DoingOK, Acquiring
<1>15. LaterOK'
  BY <1>2, LaterPops DEF Anchored, Owned
<1>16. SourceOK'
  BY <1>2, SourcePops
<1> QED BY <1>9, <1>10, <1>11, <1>12, <1>13, <1>14, <1>15, <1>16 DEF HInv

LEMMA DeletesUnique ==
    ASSUME HInv, left > 0, Doing.do = "delete", unique[Doing.h] # Null,
           Then(Destroy(unique[Doing.h], Take(Doing.h, Null))),
           UNCHANGED <<Data, RefMap, alive, unique, weak>>
    PROVE  HInv'
<1>1. PICK a : a = unique[Doing.h]
  OBVIOUS
<1>2. PICK s : s = Take(Doing.h, Null)
  OBVIOUS
<1>3. s.do = "take" /\ s.h = Doing.h /\ s.of = Null
  BY <1>2 DEF Take, Do
<1>4. Doing.do \notin Deleting /\ Doing.do \notin {"return", "take", "free"} /\ Doing.do \notin Letting
  BY DEF Deleting, Letting
<1>5. HandlesTypeOK /\ left \in Nat /\ left > 1 /\ Doing.h \in Uniques /\ Doing = step[left]
      /\ left \in 1 .. left
  BY <1>4, StepsOK, Kinds, NotAlone DEF HInv, Doing
<1>6. s \in Steps
  <2>1. s \in [do : {"take"}, h : Uniques, of : Pointers]
    BY <1>2, <1>5, Names DEF Take, Do
  <2> QED BY <2>1 DEF Steps
<1>7. /\ a \in Addresses /\ a # Null /\ ~Counted(a) /\ a \in alive
      /\ \A v \in Uniques : unique[v] = a => v = Doing.h
  <2>1. a \in Pointers /\ a # Null
    BY <1>1, <1>5 DEF HandlesTypeOK
  <2> QED BY <1>1, <1>4, <1>5, <2>1, Names DEF HInv, UniqueOK
<1>8. Deletes(a, s) /\ todo' \in Seq(Steps) /\ s.do # "return"
  BY <1>1, <1>2, <1>3, <1>5, <1>6, <1>7, ThenDeletes
<1>9. /\ \A j \in 1 .. left : step[j].do \notin {"free", "forget"}
      /\ \A b : ~Freed(b) /\ ~Forgets(b)
      /\ Forgetting = {}
  BY <1>4, NoDeletion
<1>10. /\ left' = left + 2 /\ Doing' = Drop(a) /\ Forgetting' = {}
       /\ \A j \in 1 .. left - 1 : step'[j] = step[j]
       /\ step'[left] = s /\ step'[left + 1] = Do("free", a, Null)
       /\ step'[left + 2] = Drop(a)
       /\ \A j \in 1 .. left' : j \in 1 .. left - 1 \/ j = left \/ j = left + 1 \/ j = left + 2
       /\ \A b : Freed(b)' <=> b = a
       /\ \A b : Taken(b)' <=> Taken(b) \/ b = Null
       /\ \A h : ~Forgets(h)'
  BY <1>3, <1>5, <1>6, <1>7, <1>8, <1>9, DeleteSets
<1>11. /\ Drop(a).do = "drop" /\ Drop(a).h = a
       /\ Do("free", a, Null).do = "free" /\ Do("free", a, Null).h = a
  BY DEF Drop, Do
<1> DEFINE f == step'[left + 1]
           d == step'[left + 2]
<1>12. f.do = "free" /\ f.h = a /\ d.do = "drop" /\ d.h = a /\ Doing' = d
  BY <1>10, <1>11
<1> HIDE DEF f, d
\* Nothing else is left to acquire.
<1>13. ASSUME NEW j \in 1 .. left' PROVE step'[j].do \notin {"acquire", "acquireRaw", "forget"}
  <2>1. CASE j \in 1 .. left - 1
    <3>1. j \in 1 .. left /\ left > j
      BY <1>5, <2>1
    <3>2. step[j].do \notin Acquiring \cup {"forget"}
      BY <1>4, <1>5, <3>1 DEF HInv, OrderOK
    <3> QED BY <1>10, <2>1, <3>2 DEF Acquiring
  <2> QED BY <1>3, <1>10, <1>12, <2>1 DEF f, d
<1>14. HandlesTypeOK'
  BY <1>5, <1>6, <1>7, <1>8, ReturnsDeletes DEF HandlesTypeOK, Returns
<1>15. OrderOK'
  BY <1>1, <1>3, <1>6, <1>7, <1>8, <1>9, OrderDeletes
<1>16. CountOK'
  <2>1. \A b : Holders(b)' = Holders(b)
    BY <1>9, <1>10 DEF Holders
  <2>2. Data'[Temp] # Null => \E j \in 1 .. left' : step'[j].do \in Letting /\ step'[j].h = Temp
    <3> SUFFICES ASSUME Data[Temp] # Null
                 PROVE  \E j \in 1 .. left' : step'[j].do \in Letting /\ step'[j].h = Temp
      OBVIOUS
    <3>1. PICK j \in 1 .. left : step[j].do \in Letting /\ step[j].h = Temp
      BY DEF HInv, CountOK
    <3>2. j # left
      BY <3>1, <1>4, <1>5
    <3>3. j \in 1 .. left' /\ j \in 1 .. left - 1
      BY <3>2, <1>5, <1>10
    <3> QED BY <3>1, <3>3, <1>10
  <2> QED BY <1>9, <1>10, <2>1, <2>2 DEF HInv, CountOK, Counted
<1>17. AliveOK'
  <2>1. \A b : Owned(b)' <=> Owned(b)
    BY DEF Owned
  <2>2. \A b : Counted(b)' <=> Counted(b)
    BY DEF Counted
  <2> QED BY <1>7, <1>9, <1>10, <2>1, <2>2 DEF HInv, AliveOK
<1>18. UniqueOK'
  <2>1. ASSUME NEW u \in Uniques, NEW b \in Addresses, unique[u] = b
        PROVE  /\ ~Counted(b) /\ b \in alive
               /\ Freed(b)' => \E j \in 1 .. left' - 1 :
                    step'[j].do = "take" /\ step'[j].h = u /\ step'[j + 1].do = "free"
               /\ \A v \in Uniques : unique[v] = b => v = u
    <3>1. b # Null
      BY Names
    <3>2. ~Counted(b) /\ b \in alive /\ \A v \in Uniques : unique[v] = b => v = u
      BY <1>4, <2>1, <3>1 DEF HInv, UniqueOK
    <3>3. ASSUME Freed(b)'
          PROVE  \E j \in 1 .. left' - 1 :
                   step'[j].do = "take" /\ step'[j].h = u /\ step'[j + 1].do = "free"
      <4>1. u = Doing.h
        BY <1>7, <1>10, <2>1, <3>3
      <4>2. left \in 1 .. left' - 1
        BY <1>5, <1>10
      <4> QED BY <1>3, <1>10, <1>12, <4>1, <4>2 DEF f
    <3> QED BY <3>2, <3>3
  <2>2. ASSUME NEW j \in 1 .. left', NEW b, step'[j].do = "take", step'[j].of = b, b # Null
        PROVE  b \in alive /\ ~Counted(b) /\ ~Freed(b)' /\ ~Owned(b)
    <3>1. j \in 1 .. left - 1 /\ j \in 1 .. left /\ step'[j] = step[j]
      BY <1>3, <1>5, <1>10, <1>12, <2>2 DEF f, d
    <3>2. b \in alive /\ ~Counted(b) /\ ~Owned(b)
      BY <2>2, <3>1 DEF HInv, UniqueOK
    <3>3. b # a
      BY <1>1, <1>5, <3>2 DEF Owned
    <3> QED BY <1>10, <3>2, <3>3
  <2>3. \A u \in Uniques : unique[u] # Null => unique[u] \in Addresses
    <3>1. \A u \in Uniques : unique[u] \in Pointers
      BY <1>5 DEF HandlesTypeOK
    <3> QED BY <3>1, Names
  <2> QED BY <1>13, <2>1, <2>2, <2>3 DEF UniqueOK, Counted, Owned
<1>19. DoingOK'
  <2>1. left' - 1 = left + 1 /\ left' > 1
    BY <1>5, <1>10
  <2> QED BY <1>12, <2>1 DEF DoingOK, Acquiring, f
<1>20. LaterOK'
  <2>1. \A j \in 1 .. left' - 1 : j \in 1 .. left'
    BY <1>5, <1>10
  <2> QED BY <1>13, <2>1 DEF LaterOK
<1>21. SourceOK'
  BY <1>13 DEF SourceOK
<1> QED BY <1>14, <1>15, <1>16, <1>17, <1>18, <1>19, <1>20, <1>21 DEF HInv

\* Unique's Data = a.
LEMMA TakesIt ==
    ASSUME HInv, left > 0, Doing.do = "take", unique' = [unique EXCEPT ![Doing.h] = Doing.of],
           Then(<<>>), UNCHANGED <<Data, RefMap, alive, weak>>
    PROVE  HInv'
<1>1. PICK a : a = Doing.of
  OBVIOUS
<1>2. PICK k : k = Doing.h
  OBVIOUS
<1>3. Doing.do \notin Deleting /\ Doing.do \notin {"return", "delete", "free"} /\ Doing.do \notin Letting
  BY DEF Deleting, Letting
<1>4. HandlesTypeOK /\ Pops /\ todo' \in Seq(Steps) /\ left > 1
  BY <1>3, ThenPops, NotAlone DEF HInv
<1>5. /\ left \in Nat /\ left' = left - 1 /\ Doing = step[left] /\ left \in 1 .. left
      /\ \A j \in 1 .. left' : j \in 1 .. left /\ step'[j] = step[j]
  BY <1>4, PopSets DEF Doing
<1>6. k \in Uniques /\ a \in Pointers
  BY <1>1, <1>2, <1>4, StepsOK, Kinds
<1>7. /\ unique \in [Uniques -> Pointers] /\ unique' \in [Uniques -> Pointers]
      /\ unique'[k] = a /\ \A u \in Uniques : u # k => unique'[u] = unique[u]
      /\ unique[k] \notin alive
  BY <1>1, <1>2, <1>4, <1>6 DEF HandlesTypeOK, HInv, DoingOK
<1>8. PICK t : t = step[left - 1]
  OBVIOUS
<1>9. t \in Steps /\ Doing' = t /\ left' > 0 /\ Follows(Doing, t)
  BY <1>4, <1>8, PopsTo
<1>10. t.do \in {"take", "return"} /\ (t.do = "take" => t.h = k /\ a = Null)
  BY <1>1, <1>2, <1>9, StepKinds DEF Follows, Acquiring, Letting
<1>11. /\ \A j \in 1 .. left : step[j].do \notin {"free", "forget"}
       /\ \A b : ~Freed(b) /\ ~Forgets(b)
       /\ Forgetting = {} /\ Forgetting' = {}
  BY <1>3, <1>9, <1>10, NoDeletion DEF Forgetting
<1>12. /\ \A b : ~Freed(b)'
       /\ \A b : Taken(b) <=> Taken(b)' \/ b = a
       /\ \A h : ~Forgets(h)'
  BY <1>1, <1>4, <1>11, PopSets
\* One that takes an object is the last.
<1>13. ASSUME NEW j \in 1 .. left', step'[j].do = "take" PROVE a = Null
  <2>1. CASE t.do = "take"
    BY <1>10, <2>1
  <2>2. CASE t.do = "return"
    <3>1. left' = 1
      <4>1. left' > 1 => left - 1 \in 2 .. left
        BY <1>5
      <4> QED BY <1>5, <1>8, <1>9, <2>2, <4>1 DEF HInv, HandlesTypeOK
    <3>2. step'[j] = t
      BY <1>5, <1>8, <3>1
    <3> QED BY <1>13, <2>2, <3>2
  <2> QED BY <1>10, <2>1, <2>2
<1>14. a # Null => a \in alive /\ ~Counted(a) /\ ~Owned(a)
  BY <1>1, <1>5 DEF HInv, UniqueOK
<1>15. ASSUME NEW j \in 1 .. left' PROVE step'[j].do \notin {"acquire", "acquireRaw"}
  <2>1. j \in 1 .. left /\ left > j
    BY <1>5
  <2>2. step[j].do \notin Acquiring
    BY <1>3, <1>5, <2>1 DEF HInv, OrderOK
  <2> QED BY <1>5, <2>2 DEF Acquiring
<1>16. HandlesTypeOK'
  BY <1>4, <1>7, ReturnsPops DEF HandlesTypeOK, Returns
<1>17. OrderOK'
  <2>1. \A j \in 1 .. left - 2 : j \in 1 .. left /\ j + 1 \in 1 .. left
    BY <1>5
  <2> QED BY <1>4, <1>11, <2>1, OrderPops
<1>18. CountOK'
  <2>1. \A b : Holders(b)' = Holders(b)
    BY <1>11 DEF Holders
  <2>2. Data'[Temp] # Null => \E j \in 1 .. left' : step'[j].do \in Letting /\ step'[j].h = Temp
    <3> SUFFICES ASSUME Data[Temp] # Null
                 PROVE  \E j \in 1 .. left' : step'[j].do \in Letting /\ step'[j].h = Temp
      OBVIOUS
    <3>1. PICK j \in 1 .. left : step[j].do \in Letting /\ step[j].h = Temp
      BY DEF HInv, CountOK
    <3>2. j # left
      BY <3>1, <1>3, <1>5
    <3>3. j \in 1 .. left'
      BY <3>2, <1>5
    <3> QED BY <3>1, <3>3, <1>5
  <2> QED BY <1>11, <1>12, <2>1, <2>2 DEF HInv, CountOK, Counted
<1>19. AliveOK'
  <2>1. ASSUME NEW b \in alive PROVE Counted(b)' \/ Owned(b)' \/ Taken(b)'
    <3>1. Counted(b) \/ Owned(b) \/ Taken(b)
      BY <1>11 DEF HInv, AliveOK
    <3>2. Counted(b) => Counted(b)'
      BY DEF Counted
    <3>3. ASSUME Owned(b) PROVE Owned(b)'
      <4>1. PICK u \in Uniques : unique[u] = b
        BY <3>3 DEF Owned
      <4>2. u # k
        BY <1>7, <2>1, <4>1
      <4> QED BY <1>7, <4>1, <4>2 DEF Owned
    <3>4. b = a => Owned(b)'
      BY <1>6, <1>7 DEF Owned
    <3> QED BY <1>12, <3>1, <3>2, <3>3, <3>4
  <2>2. \A b \in Addresses : Counted(b)' => b \in alive
    BY DEF HInv, AliveOK, Counted
  <2> QED BY <1>12, <2>1, <2>2 DEF AliveOK
<1>20. UniqueOK'
  <2>1. ASSUME NEW u \in Uniques, unique'[u] # Null
        PROVE  ~Counted(unique'[u]) /\ unique'[u] \in alive
               /\ \A v \in Uniques : unique'[v] = unique'[u] => v = u
    <3>1. CASE u = k
      <4>1. a # Null /\ unique'[u] = a
        BY <1>7, <2>1, <3>1
      <4>2. ASSUME NEW v \in Uniques, unique'[v] = a PROVE v = k
        BY <1>7, <1>14, <4>1, <4>2 DEF Owned
      <4> QED BY <1>14, <3>1, <4>1, <4>2
    <3>2. CASE u # k
      <4>1. unique'[u] = unique[u]
        BY <1>7, <3>2
      <4>2. ~Counted(unique[u]) /\ unique[u] \in alive
            /\ \A v \in Uniques : unique[v] = unique[u] => v = u
        BY <1>2, <2>1, <3>2, <4>1 DEF HInv, UniqueOK
      <4>3. a # unique[u]
        BY <1>14, <2>1, <4>1 DEF Owned
      <4> QED BY <1>7, <4>1, <4>2, <4>3
    <3> QED BY <3>1, <3>2
  <2>2. ASSUME NEW j \in 1 .. left', NEW b, step'[j].do = "take", step'[j].of = b, b # Null
        PROVE  b \in alive /\ ~Counted(b) /\ ~Owned(b)'
    <3>1. b \in alive /\ ~Counted(b) /\ ~Owned(b)
      BY <1>5, <2>2 DEF HInv, UniqueOK
    <3>2. a = Null
      BY <1>13, <2>2
    <3> QED BY <1>7, <2>2, <3>1, <3>2 DEF Owned
  <2> QED BY <1>12, <1>15, <2>1, <2>2 DEF UniqueOK, Counted
<1>21. DoingOK'
  <2>1. Null \notin alive
    BY <1>4, Names DEF HandlesTypeOK
  <2> QED BY <1>7, <1>9, <1>10, <2>1 DEF DoingOK, Acquiring
<1>22. LaterOK'
  <2>1. \A j \in 1 .. left - 2 : j \in 1 .. left
    BY <1>5
  <2> QED BY <1>4, <1>11, <2>1, LaterPops
<1>23. SourceOK'
  BY <1>15 DEF SourceOK
<1> QED BY <1>16, <1>17, <1>18, <1>19, <1>20, <1>21, <1>22, <1>23 DEF HInv

LEMMA KeepsAll ==
    ASSUME HInv, UNCHANGED <<Data, RefMap, alive, unique, todo>>, weak' \in [Weaks -> Pointers]
    PROVE  HInv'
<1>1. left' = left /\ step' = step /\ Doing' = Doing /\ Forgetting' = Forgetting
  BY DEF left, step, Doing, Forgetting
<1>2. /\ \A a : Freed(a)' <=> Freed(a)
      /\ \A a : Taken(a)' <=> Taken(a)
      /\ \A a : Forgets(a)' <=> Forgets(a)
      /\ \A a : Owned(a)' <=> Owned(a)
      /\ \A a : Counted(a)' <=> Counted(a)
      /\ \A a : Holders(a)' = Holders(a)
      /\ \A a : Anchored(a)' <=> Anchored(a)
      /\ \A a : Spared(a)' <=> Spared(a)
  BY <1>1 DEF Freed, Taken, Forgets, Owned, Counted, Holders, Anchored, Spared
<1>3. HandlesTypeOK'
  BY <1>1 DEF HInv, HandlesTypeOK
<1>4. OrderOK'
  BY <1>1 DEF HInv, OrderOK, Follows
<1>5. CountOK'
  BY <1>1, <1>2 DEF HInv, CountOK
<1>6. AliveOK'
  BY <1>2 DEF HInv, AliveOK
<1>7. UniqueOK'
  BY <1>1, <1>2 DEF HInv, UniqueOK
<1>8. DoingOK'
  BY <1>1, <1>2 DEF HInv, DoingOK
<1>9. LaterOK'
  BY <1>1, <1>2 DEF HInv, LaterOK
<1>10. SourceOK'
  BY <1>1 DEF HInv, SourceOK
<1> QED BY <1>3, <1>4, <1>5, <1>6, <1>7, <1>8, <1>9, <1>10 DEF HInv

\* What the next step is, by its name.
LEMMA NowIs ==
    ASSUME HInv, NEW what, Now(what)
    PROVE  left > 0 /\ Doing.do = what /\ H = Doing.h /\ Head(todo) = Doing
           /\ HandlesTypeOK /\ Doing \in Steps
BY StepsOK DEF Now, H, HInv

\* An object that is in memory while raw pointers are assigned is counted.
LEMMA RawIsCounted ==
    ASSUME HInv, left > 0, Doing.do = "acquireRaw", Doing.of \in alive
    PROVE  Counted(Doing.of)
<1>1. Doing.do \notin Deleting
  BY DEF Deleting, Letting
<1>2. HandlesTypeOK /\ Doing = step[left] /\ left \in 1 .. left /\ left \in Nat
  BY StepsOK DEF HInv, Doing
<1>3. Doing.of \in Addresses /\ Doing.of # Null
  BY <1>2, Names DEF HandlesTypeOK
<1>4. ~Freed(Doing.of)
  BY <1>1, NoDeletion
<1>5. ~Owned(Doing.of)
  BY <1>2, <1>3 DEF HInv, UniqueOK
<1>6. ~Taken(Doing.of)
  <2> SUFFICES ASSUME NEW j \in 1 .. left, step[j].do = "take" PROVE FALSE
    BY DEF Taken
  <2>1. j # left
    BY <1>2
  <2>2. left > j
    BY <1>2, <2>1
  <2>3. step[left].do \in Deleting \cup {"delete", "take"}
    BY <1>2, <2>2 DEF HInv, OrderOK
  <2> QED BY <1>1, <1>2, <2>3
<1> QED BY <1>4, <1>5, <1>6 DEF HInv, AliveOK

LEMMA ProceedsOK ==
    ASSUME HInv, Proceed
    PROVE  HInv'
<1>1. CASE DoDrop
  <2>1. left > 0 /\ Doing.do = "drop" /\ H = Doing.h
    BY <1>1, NowIs DEF DoDrop
  <2>2. CASE SharedValid(H)
    BY <1>1, <2>1, <2>2, DropReleases DEF DoDrop
  <2>3. CASE ~SharedValid(H)
    <3>1. Data[Doing.h] = Null
      BY <2>1, <2>3, HeldIsCounted
    <3> QED BY <1>1, <2>1, <2>3, <3>1, LetsNothing DEF DoDrop
  <2> QED BY <2>2, <2>3
<1>2. CASE DoReleaseOther
  <2>1. left > 0 /\ Doing.do = "release" /\ H = Doing.h
    BY <1>2, NowIs DEF DoReleaseOther
  <2> QED BY <1>2, <2>1, ReleasesOne DEF DoReleaseOther
<1>3. CASE DoReleaseLast
  <2>1. left > 0 /\ Doing.do = "release" /\ H = Doing.h
    BY <1>3, NowIs DEF DoReleaseLast
  <2> QED BY <1>3, <2>1, ReleasesLast DEF DoReleaseLast
<1>4. CASE DoReleaseNothing
  <2>1. left > 0 /\ Doing.do = "release" /\ H = Doing.h
    BY <1>4, NowIs DEF DoReleaseNothing
  <2>2. Data[Doing.h] = Null
    BY <1>4, <2>1, HeldIsCounted DEF DoReleaseNothing
  <2> QED BY <1>4, <2>1, <2>2, LetsNothing DEF DoReleaseNothing
<1>5. CASE DoForget
  <2>1. left > 0 /\ Doing.do = "forget" /\ H = Doing.h
    BY <1>5, NowIs DEF DoForget
  <2> QED BY <1>5, <2>1, ForgetsIt DEF DoForget
<1>6. CASE DoFree
  <2>1. left > 0 /\ Doing.do = "free" /\ H = Doing.h
    BY <1>6, NowIs DEF DoFree
  <2>2. CASE H \in alive
    BY <1>6, <2>1, <2>2, FreesIt DEF DoFree
  <2>3. CASE H \notin alive
    BY <1>6, <2>3, KeepsAll DEF DoFree, Fault, HInv, HandlesTypeOK
  <2> QED BY <2>2, <2>3
<1>7. CASE DoAcquire
  <2>1. left > 0 /\ Doing.do = "acquire" /\ H = Doing.h /\ Head(todo) = Doing
        /\ HandlesTypeOK /\ Doing \in Steps
    BY <1>7, NowIs DEF DoAcquire
  <2>2. CASE Doing.of \in Addresses \ alive
    BY <1>7, <2>1, <2>2, KeepsAll DEF DoAcquire, Fault, HandlesTypeOK
  <2>3. CASE Doing.of \notin Addresses \ alive
    <3>1. Hold(Doing.h, Data[Doing.of])
      BY <1>7, <2>1, <2>3 DEF DoAcquire
    <3>2. Doing.do \notin Deleting /\ Doing.do \in Acquiring
      BY <2>1 DEF Deleting, Letting, Acquiring
    <3>3. Doing.of \in Shared
      BY <2>1, Kinds
    <3>4. Data[Doing.of] \in Pointers
      BY <2>1, <3>3 DEF HandlesTypeOK
    <3>5. Data[Doing.of] # Null => Counted(Data[Doing.of])
      BY <2>1, <3>2, <3>3, NoDeletion DEF HInv, CountOK
    <3> QED BY <2>1, <3>1, <3>2, <3>4, <3>5, HoldsIt
  <2> QED BY <2>2, <2>3
<1>8. CASE DoAcquireRaw
  <2>1. left > 0 /\ Doing.do = "acquireRaw" /\ H = Doing.h /\ Head(todo) = Doing
        /\ HandlesTypeOK /\ Doing \in Steps
    BY <1>8, NowIs DEF DoAcquireRaw
  <2>2. CASE Doing.of \in Addresses \ alive
    BY <1>8, <2>1, <2>2, KeepsAll DEF DoAcquireRaw, Fault, HandlesTypeOK
  <2>3. CASE Doing.of \notin Addresses \ alive
    <3>1. Hold(Doing.h, Doing.of)
      BY <1>8, <2>1, <2>3 DEF DoAcquireRaw
    <3>2. Doing.do # "acquire" /\ Doing.do \in Acquiring
      BY <2>1 DEF Acquiring
    <3>3. Doing.of \in Pointers
      BY <2>1, Kinds
    <3>4. Doing.of # Null => Doing.of \in alive
      BY <2>3, <3>3, Names
    <3>5. Doing.of # Null => Counted(Doing.of)
      BY <2>1, <3>4, RawIsCounted
    <3> QED BY <2>1, <3>1, <3>2, <3>3, <3>5, HoldsIt
  <2> QED BY <2>2, <2>3
<1>9. CASE DoDelete
  <2>1. left > 0 /\ Doing.do = "delete" /\ H = Doing.h
    BY <1>9, NowIs DEF DoDelete
  <2>2. CASE unique[H] = Null
    BY <1>9, <2>1, <2>2, DeletesNothing DEF DoDelete
  <2>3. CASE unique[H] # Null
    BY <1>9, <2>1, <2>3, DeletesUnique DEF DoDelete
  <2> QED BY <2>2, <2>3
<1>10. CASE DoTake
  <2>1. left > 0 /\ Doing.do = "take" /\ H = Doing.h /\ Head(todo) = Doing
    BY <1>10, NowIs DEF DoTake
  <2> QED BY <1>10, <2>1, TakesIt DEF DoTake
<1>11. CASE DoReturn
  <2>1. left > 0 /\ Doing.do = "return"
    BY <1>11, NowIs DEF DoReturn
  <2> QED BY <1>11, <2>1, ReturnsAt DEF DoReturn
<1> QED BY <1>1, <1>2, <1>3, <1>4, <1>5, <1>6, <1>7, <1>8, <1>9, <1>10, <1>11 DEF Proceed

-----------------------------------------------------------------------------
(* Every call begins with the invariant.                                   *)

\* What is so between calls, and still when the first step is next.
Balanced ==
    /\ Data \in [Shared -> Pointers] /\ alive \subseteq Addresses
    /\ unique \in [Uniques -> Pointers] /\ weak \in [Weaks -> Pointers]
    /\ RefMap \in [DOMAIN RefMap -> Nat \ {0}] /\ DOMAIN RefMap \subseteq alive
    /\ \A a \in DOMAIN RefMap :
         LET hs == {h \in Shared : Data[h] = a}
         IN  IsFiniteSet(hs) /\ RefMap[a] = Cardinality(hs)
    /\ \A h \in Shared : Data[h] # Null => Counted(Data[h])
    /\ \A u \in Uniques : unique[u] # Null =>
         /\ ~Counted(unique[u]) /\ unique[u] \in alive
         /\ \A v \in Uniques : unique[v] = unique[u] => v = u

LEMMA RestIs ==
    ASSUME HInv, AtRest
    PROVE  /\ Balanced /\ left = 0 /\ Data[Temp] = Null /\ Null \notin alive
           /\ \A a \in alive : Counted(a) \/ Owned(a)
<1>1. left = 0 /\ HandlesTypeOK
  BY DEF HInv, AtRest, left
<1>2. /\ \A a : ~Freed(a) /\ ~Taken(a) /\ ~Forgets(a)
      /\ Forgetting = {}
  BY <1>1 DEF Freed, Taken, Forgets, Forgetting
<1>3. \A a : Holders(a) = {h \in Shared : Data[h] = a}
  BY <1>2 DEF Holders
<1>4. \A a \in DOMAIN RefMap : /\ IsFiniteSet({h \in Shared : Data[h] = a})
                               /\ RefMap[a] = Cardinality({h \in Shared : Data[h] = a})
  BY <1>3 DEF HInv, CountOK
<1>5. \A h \in Shared : Data[h] # Null => Counted(Data[h])
  BY <1>2 DEF HInv, CountOK
<1>6. Data[Temp] = Null
  BY <1>1 DEF HInv, CountOK
<1>7. DOMAIN RefMap \subseteq alive
  BY <1>1 DEF HInv, AliveOK, HandlesTypeOK, Counted
<1>8. \A a \in alive : Counted(a) \/ Owned(a)
  BY <1>2 DEF HInv, AliveOK
<1>9. \A u \in Uniques : unique[u] # Null =>
        /\ ~Counted(unique[u]) /\ unique[u] \in alive
        /\ \A v \in Uniques : unique[v] = unique[u] => v = u
  BY <1>1 DEF HInv, UniqueOK
<1>10. Null \notin alive
  BY <1>1, Names DEF HandlesTypeOK
<1> QED BY <1>1, <1>4, <1>5, <1>6, <1>7, <1>8, <1>9, <1>10 DEF Balanced, HandlesTypeOK

LEMMA Earlier ==
    \A n \in Nat : \A j \in 1 .. n - 1 : j \in 1 .. n
OBVIOUS

LEMMA BeginsOK ==
    ASSUME Balanced', todo' \in Seq(Steps), Returns', OrderOK', SourceOK', left' \in Nat, left' > 0,
           \A j \in 1 .. left' : step'[j].do \notin {"free", "forget"},
           Doing'.do \in {"drop", "release", "delete", "return"},
           Doing'.do \in {"drop", "release"} /\ Doing'.h \in Addresses =>
             (Owned(Doing.h) \/ \E l \in Locals \cup {Temp} : Data[l] = Doing.h)',
           Data'[Temp] # Null =>
             \E j \in 1 .. left' : step'[j].do \in {"drop", "release"} /\ step'[j].h = Temp,
           \A a \in alive' : (Counted(a) \/ Owned(a) \/ Taken(a))',
           \A j \in 1 .. left' : \A a \in Addresses : step'[j].do = "take" /\ step'[j].of = a =>
             a \in alive' /\ ~Counted(a)' /\ ~Owned(a)',
           \A j \in 1 .. left' : \A a \in Addresses : step'[j].do = "acquireRaw" /\ step'[j].of = a =>
             ~Owned(a)'
    PROVE  HInv'
<1>1. /\ \A a : ~Freed(a)'
      /\ Forgetting' = {}
  BY DEF Freed, Forgetting
<1>2. Doing'.do \notin Acquiring \cup {"free", "forget", "take"}
  BY DEF Acquiring
<1>3. HandlesTypeOK'
  BY DEF Balanced, HandlesTypeOK, Returns
<1>4. CountOK'
  <2>1. \A a : Holders(a)' = {h \in Shared : Data'[h] = a}
    BY <1>1 DEF Holders
  <2>2. \A a \in DOMAIN RefMap' : IsFiniteSet(Holders(a)') /\ RefMap'[a] = Cardinality(Holders(a)')
    BY <2>1 DEF Balanced
  <2>3. \A h \in Shared \ Forgetting' : Data'[h] # Null => Counted(Data[h])'
    BY DEF Balanced
  <2>4. {"drop", "release"} \subseteq Letting
    BY DEF Letting
  <2> QED BY <2>2, <2>3, <2>4 DEF CountOK
<1>5. AliveOK'
  <2>1. \A a \in Addresses : Counted(a)' => a \in alive'
    BY DEF Balanced, Counted
  <2> QED BY <1>1, <2>1 DEF AliveOK
<1>6. UniqueOK'
  <2>1. \A u \in Uniques : unique'[u] # Null =>
          /\ ~Counted(unique[u])' /\ unique'[u] \in alive' /\ ~Freed(unique[u])'
          /\ \A v \in Uniques : unique'[v] = unique'[u] => v = u
    BY <1>1 DEF Balanced
  <2>2. ASSUME NEW j \in 1 .. left', step'[j].do \in {"take", "acquireRaw"}, step'[j].of # Null
        PROVE  step'[j].of \in Addresses
    <3>1. step'[j] \in Steps
      BY DEF step, left
    <3> QED BY <2>2, <3>1, Kinds, Names
  <2>3. ASSUME NEW j \in 1 .. left', NEW a, step'[j].do = "take", step'[j].of = a, a # Null
        PROVE  a \in alive' /\ ~Counted(a)' /\ ~Freed(a)' /\ ~Owned(a)'
    BY <1>1, <2>2, <2>3
  <2>4. ASSUME NEW j \in 1 .. left', NEW a, step'[j].do = "acquireRaw", step'[j].of = a, a # Null
        PROVE  ~Owned(a)'
    BY <2>2, <2>4
  <2>5. \A j \in 1 .. left' : step'[j].do = "acquireRaw" =>
          step'[j].of = Null \/ ~(\E u \in Uniques : unique'[u] = step'[j].of)
    BY <2>4 DEF Owned
  <2>6. \A j \in 1 .. left' : step'[j].do = "take" /\ step'[j].of # Null =>
          /\ step'[j].of \in alive' /\ step'[j].of \notin DOMAIN RefMap'
          /\ ~(\E i \in 1 .. left' : step'[i].do = "free" /\ step'[i].h = step'[j].of)
          /\ ~(\E u \in Uniques : unique'[u] = step'[j].of)
    BY <2>3 DEF Owned, Counted, Freed
  <2> QED BY <2>1, <2>5, <2>6 DEF UniqueOK, Owned, Counted, Freed
<1>7. DoingOK'
  BY <1>2 DEF DoingOK, Anchored, Owned
<1>8. LaterOK'
  <2>1. \A j \in 1 .. left' - 1 : j \in 1 .. left'
    BY Earlier, ZenonT(40)
  <2> QED BY <2>1 DEF LaterOK
<1> QED BY <1>3, <1>4, <1>5, <1>6, <1>7, <1>8 DEF HInv

\* The steps of a call.
LEMMA BeginsNone ==
    ASSUME NEW r \in Steps, todo' = Append(<<>>, r), r.do = "return"
    PROVE  todo' \in Seq(Steps) /\ left' = 1 /\ step'[1] = r /\ Doing' = r /\ Returns'
<1>1. todo' = <<r>>
  OBVIOUS
<1>2. todo' \in Seq(Steps) /\ Len(todo') = 1 /\ todo'[1] = r
  BY <1>1
<1>3. left' = 1 /\ step'[1] = r
  BY <1>2 DEF left, step
<1> QED BY <1>2, <1>3 DEF Doing, Returns

LEMMA BeginsOne ==
    ASSUME NEW r \in Steps, NEW s \in Steps, todo' = Append(<<s>>, r), r.do = "return",
           s.do # "return"
    PROVE  /\ todo' \in Seq(Steps) /\ left' = 2 /\ step'[1] = r /\ step'[2] = s /\ Doing' = s
           /\ Returns'
<1>1. todo' \in Seq(Steps) /\ Len(todo') = 2 /\ todo'[1] = s /\ todo'[2] = r
  OBVIOUS
<1>2. left' = 2 /\ step'[1] = r /\ step'[2] = s
  BY <1>1 DEF left, step
<1> QED BY <1>1, <1>2 DEF Doing, Returns

LEMMA BeginsTwo ==
    ASSUME NEW r \in Steps, NEW s \in Steps, NEW t \in Steps,
           todo' = Append(<<s, t>>, r), r.do = "return", s.do # "return", t.do # "return"
    PROVE  /\ todo' \in Seq(Steps) /\ left' = 3 /\ step'[1] = r /\ step'[2] = t /\ step'[3] = s
           /\ Doing' = s /\ Returns'
<1>1. todo' \in Seq(Steps) /\ Len(todo') = 3 /\ todo'[1] = s /\ todo'[2] = t /\ todo'[3] = r
  OBVIOUS
<1>2. left' = 3 /\ step'[1] = r /\ step'[2] = t /\ step'[3] = s
  BY <1>1 DEF left, step
<1> QED BY <1>1, <1>2 DEF Doing, Returns

LEMMA BeginsThree ==
    ASSUME NEW r \in Steps, NEW s \in Steps, NEW t \in Steps, NEW u \in Steps,
           todo' = Append(<<s, t, u>>, r), r.do = "return", s.do # "return", t.do # "return",
           u.do # "return"
    PROVE  /\ todo' \in Seq(Steps) /\ left' = 4 /\ step'[1] = r /\ step'[2] = u /\ step'[3] = t
           /\ step'[4] = s /\ Doing' = s /\ Returns'
<1>1. /\ todo' \in Seq(Steps) /\ Len(todo') = 4
      /\ todo'[1] = s /\ todo'[2] = t /\ todo'[3] = u /\ todo'[4] = r
  OBVIOUS
<1>2. left' = 4 /\ step'[1] = r /\ step'[2] = u /\ step'[3] = t /\ step'[4] = s
  BY <1>1 DEF left, step
<1> QED BY <1>1, <1>2 DEF Doing, Returns

LEMMA StepsAre ==
    /\ \A h \in Shared : /\ Drop(h) \in Steps /\ Release(h) \in Steps
    /\ \A h \in Targets, f \in Shared : Acquire(h, f) \in Steps
    /\ \A h \in Targets, p \in Pointers : AcquireRaw(h, p) \in Steps
    /\ \A u \in Uniques : Delete(u) \in Steps
    /\ \A u \in Uniques, p \in Pointers : Take(u, p) \in Steps
    /\ \A name \in Calls, of \in Shared \cup Uniques \cup {Null} : Return(name, of) \in Steps
<1>1. ASSUME NEW h \in Shared PROVE Drop(h) \in Steps /\ Release(h) \in Steps
  <2>1. Drop(h) \in [do : Letting, h : Shared, of : {Null}]
        /\ Release(h) \in [do : Letting, h : Shared, of : {Null}]
    BY DEF Drop, Release, Do, Letting
  <2> QED BY <2>1 DEF Steps
<1>2. ASSUME NEW h \in Targets, NEW f \in Shared PROVE Acquire(h, f) \in Steps
  <2>1. Acquire(h, f) \in [do : {"acquire"}, h : Targets, of : Shared]
    BY DEF Acquire, Do
  <2> QED BY <2>1 DEF Steps
<1>3. ASSUME NEW h \in Targets, NEW p \in Pointers PROVE AcquireRaw(h, p) \in Steps
  <2>1. AcquireRaw(h, p) \in [do : {"acquireRaw"}, h : Targets, of : Pointers]
    BY DEF AcquireRaw, Do
  <2> QED BY <2>1 DEF Steps
<1>4. ASSUME NEW u \in Uniques PROVE Delete(u) \in Steps
  <2>1. Delete(u) \in [do : {"delete"}, h : Uniques, of : {Null}]
    BY DEF Delete, Do
  <2> QED BY <2>1 DEF Steps
<1>5. ASSUME NEW u \in Uniques, NEW p \in Pointers PROVE Take(u, p) \in Steps
  <2>1. Take(u, p) \in [do : {"take"}, h : Uniques, of : Pointers]
    BY DEF Take, Do
  <2> QED BY <2>1 DEF Steps
<1>6. ASSUME NEW name \in Calls, NEW of \in Shared \cup Uniques \cup {Null}
      PROVE  Return(name, of) \in Steps
  <2>1. Return(name, of) \in [do : {"return"}, h : Calls, of : Shared \cup Uniques \cup {Null}]
    BY DEF Return, Do
  <2> QED BY <2>1 DEF Steps
<1> QED BY <1>1, <1>2, <1>3, <1>4, <1>5, <1>6

LEMMA StepsSay ==
    /\ \A h : /\ Drop(h).do = "drop" /\ Drop(h).h = h
              /\ Release(h).do = "release" /\ Release(h).h = h
    /\ \A h, f : /\ Acquire(h, f).do = "acquire" /\ Acquire(h, f).h = h /\ Acquire(h, f).of = f
                 /\ AcquireRaw(h, f).do = "acquireRaw" /\ AcquireRaw(h, f).h = h
                 /\ AcquireRaw(h, f).of = f
                 /\ Take(h, f).do = "take" /\ Take(h, f).h = h /\ Take(h, f).of = f
                 /\ Return(h, f).do = "return" /\ Return(h, f).h = h /\ Return(h, f).of = f
    /\ \A u : Delete(u).do = "delete" /\ Delete(u).h = u
BY DEF Drop, Release, Acquire, AcquireRaw, Take, Return, Delete, Do

\* A variable or a member the program uses.
LEMMA UsableIs ==
    ASSUME HInv, AtRest, NEW h \in Usable
    PROVE  h \in Targets /\ (h \in Addresses => Anchored(h)) /\ h # Temp /\ h \in Shared
<1>1. /\ Data \in [Shared -> Pointers] /\ unique \in [Uniques -> Pointers]
  BY RestIs DEF Balanced
<1>2. CASE h \in Locals
  BY <1>2, Names DEF Targets
<1>3. CASE h \notin Locals
  <2>1. h # Null /\ ((\E l \in Locals : h = Data[l]) \/ (\E u \in Uniques : h = unique[u]))
    BY <1>3 DEF Usable
  <2>2. h \in Pointers
    BY <1>1, <2>1, Names
  <2>3. h \in Addresses
    BY <2>1, <2>2, Names
  <2>4. Anchored(h)
    BY <2>1 DEF Anchored, Owned
  <2> QED BY <2>3, <2>4, Names DEF Targets
<1> QED BY <1>2, <1>3

\* One handle lets go.
LEMMA LetsGo ==
    ASSUME Balanced', \A a \in alive' : (Counted(a) \/ Owned(a))',
           NEW h \in Shared, NEW s \in Steps, s.do \in {"drop", "release"}, s.h = h,
           h \in Addresses => (Owned(h) \/ \E l \in Locals \cup {Temp} : Data[l] = h)',
           Data'[Temp] # Null => h = Temp,
           NEW r \in Steps, r.do = "return", todo' = Append(<<s>>, r)
    PROVE  HInv'
<1>1. /\ todo' \in Seq(Steps) /\ left' = 2 /\ step'[1] = r /\ step'[2] = s /\ Doing' = s
      /\ Returns'
  BY BeginsOne
<1>2. 1 .. left' = {1, 2} /\ 1 .. left' - 1 = {1} /\ left' \in Nat /\ left' > 0
  BY <1>1
<1>3. OrderOK'
  BY <1>1, <1>2 DEF OrderOK, Follows, Acquiring, Deleting, Letting
<1>4. SourceOK'
  BY <1>1, <1>2 DEF SourceOK
<1>5. /\ \A j \in 1 .. left' : step'[j].do \notin {"free", "forget", "take", "acquireRaw"}
      /\ Doing'.do \in {"drop", "release", "delete", "return"}
  BY <1>1, <1>2
<1>6. Data'[Temp] # Null =>
        \E j \in 1 .. left' : step'[j].do \in {"drop", "release"} /\ step'[j].h = Temp
  BY <1>1, <1>2
<1>7. Doing'.do \in {"drop", "release"} /\ Doing'.h \in Addresses =>
        (Owned(Doing.h) \/ \E l \in Locals \cup {Temp} : Data[l] = Doing.h)'
  BY <1>1 DEF Owned
<1> QED BY <1>1, <1>2, <1>3, <1>4, <1>5, <1>6, <1>7, BeginsOK

\* Nothing to be done.
LEMMA NothingToDo ==
    ASSUME Balanced', \A a \in alive' : (Counted(a) \/ Owned(a))', Data'[Temp] = Null,
           NEW r \in Steps, r.do = "return", todo' = Append(<<>>, r)
    PROVE  HInv'
<1>1. todo' \in Seq(Steps) /\ left' = 1 /\ step'[1] = r /\ Doing' = r /\ Returns'
  BY BeginsNone
<1>2. 1 .. left' = {1} /\ 1 .. left' - 1 = {} /\ left' \in Nat /\ left' > 0
  BY <1>1
<1>3. OrderOK'
  BY <1>1, <1>2 DEF OrderOK
<1>4. SourceOK'
  BY <1>1, <1>2 DEF SourceOK
<1>5. /\ \A j \in 1 .. left' : step'[j].do \notin {"free", "forget", "take", "acquireRaw"}
      /\ Doing'.do \in {"drop", "release", "delete", "return"}
      /\ Doing'.do \notin {"drop", "release"}
  BY <1>1, <1>2
<1> QED BY <1>1, <1>2, <1>3, <1>4, <1>5, BeginsOK

\* A handle lets go and holds another object, then one may let go of that.
LEMMA Assigns ==
    ASSUME Balanced', \A a \in alive' : (Counted(a) \/ Owned(a))',
           NEW h \in Targets,
           h \in Addresses => (Owned(h) \/ \E l \in Locals \cup {Temp} : Data[l] = h)',
           NEW t \in Steps, t.do \in Acquiring, t.h = h,
           t.do = "acquireRaw" => Data'[Temp] = Null /\ \A a \in Addresses : t.of = a => ~Owned(a)',
           NEW r \in Steps, r.do = "return",
           t.do = "acquire" /\ t.of \in Addresses => r.h \in {"copy", "move"} /\ r.of \notin Locals,
           t.do = "acquireRaw" =>
             r.h = "resetRaw" /\ (r.of \in Locals => Data'[r.of] = t.of /\ h # r.of),
           \/ todo' = Append(<<Drop(h), t>>, r) /\ Data'[Temp] = Null
           \/ \E u \in Steps : /\ todo' = Append(<<Drop(h), t, u>>, r) /\ t.do = "acquire"
                               /\ \/ u.do = "release" /\ u.h = t.of /\ u.h # h
                                  \/ u.do = "drop" /\ u.h = Temp
                               /\ Data'[Temp] # Null => u.h = Temp
    PROVE  HInv'
<1>1. PICK s : s = Drop(h)
  OBVIOUS
<1>2. s \in Steps /\ s.do = "drop" /\ s.h = h /\ t.do \in {"acquire", "acquireRaw"}
  BY <1>1, StepsAre, StepsSay, Names DEF Acquiring
<1>3. CASE todo' = Append(<<Drop(h), t>>, r) /\ Data'[Temp] = Null
  <2>1. /\ todo' \in Seq(Steps) /\ left' = 3 /\ step'[1] = r /\ step'[2] = t /\ step'[3] = s
        /\ Doing' = s /\ Returns'
    BY <1>1, <1>2, <1>3, BeginsTwo
  <2>2. 1 .. left' = {1, 2, 3} /\ 1 .. left' - 1 = {1, 2} /\ left' \in Nat /\ left' > 0
        /\ 2 .. left' = {2, 3}
    BY <2>1
  <2>3. OrderOK'
    <3>1. \A j \in 1 .. left' - 1 : Follows(step[j + 1], step[j])'
      BY <1>2, <2>1, <2>2 DEF Follows, Acquiring, Letting
    <3>2. \A i, j \in 1 .. left' : i > j => i = 3 \/ (i = 2 /\ j = 1)
      BY <2>2
    <3> QED BY <1>2, <2>1, <2>2, <3>1, <3>2 DEF OrderOK, Acquiring, Deleting, Letting
  <2>4. SourceOK'
    BY <1>2, <2>1, <2>2 DEF SourceOK, Letting
  <2>5. /\ \A j \in 1 .. left' : step'[j].do \notin {"free", "forget", "take"}
        /\ Doing'.do \in {"drop", "release", "delete", "return"}
        /\ \A j \in 1 .. left' : step'[j].do = "acquireRaw" => step'[j] = t
    BY <1>2, <2>1, <2>2
  <2>6. Doing'.do \in {"drop", "release"} /\ Doing'.h \in Addresses =>
          (Owned(Doing.h) \/ \E l \in Locals \cup {Temp} : Data[l] = Doing.h)'
    BY <1>2, <2>1 DEF Owned
  <2>7. \A j \in 1 .. left' : \A a \in Addresses : step'[j].do = "acquireRaw" /\ step'[j].of = a =>
          ~Owned(a)'
    BY <2>5
  <2> QED BY <1>3, <2>1, <2>2, <2>3, <2>4, <2>5, <2>6, <2>7, BeginsOK
<1>4. ASSUME NEW u \in Steps, todo' = Append(<<Drop(h), t, u>>, r), t.do = "acquire",
             \/ u.do = "release" /\ u.h = t.of /\ u.h # h
             \/ u.do = "drop" /\ u.h = Temp,
             Data'[Temp] # Null => u.h = Temp
      PROVE  HInv'
  <2>1. /\ todo' \in Seq(Steps) /\ left' = 4 /\ step'[1] = r /\ step'[2] = u /\ step'[3] = t
        /\ step'[4] = s /\ Doing' = s /\ Returns'
    BY <1>1, <1>2, <1>4, BeginsThree
  <2>2. 1 .. left' = {1, 2, 3, 4} /\ 1 .. left' - 1 = {1, 2, 3} /\ left' \in Nat /\ left' > 0
    BY <2>1
  <2>3. OrderOK'
    <3>1. \A j \in 1 .. left' - 1 : Follows(step[j + 1], step[j])'
      <4>1. Follows(step[2], step[1])'
        BY <1>4, <2>1 DEF Follows, Acquiring
      <4>2. Follows(step[3], step[2])'
        BY <1>2, <1>4, <2>1 DEF Follows, Acquiring
      <4>3. Follows(step[4], step[3])'
        BY <1>2, <1>4, <2>1 DEF Follows, Acquiring, Letting
      <4> QED BY <2>1, <2>2, <4>1, <4>2, <4>3 DEF Follows
    <3>2. \A i, j \in 1 .. left' : i > j => i = 4 \/ (i = 3 /\ j \in {1, 2}) \/ (i = 2 /\ j = 1)
      BY <2>2
    <3> QED BY <1>2, <1>4, <2>1, <2>2, <3>1, <3>2 DEF OrderOK, Acquiring, Deleting, Letting
  <2>4. SourceOK'
    BY <1>2, <1>4, <2>1, <2>2 DEF SourceOK
  <2>5. /\ \A j \in 1 .. left' : step'[j].do \notin {"free", "forget", "take", "acquireRaw"}
        /\ Doing'.do \in {"drop", "release", "delete", "return"}
    BY <1>2, <1>4, <2>1, <2>2
  <2>6. Data'[Temp] # Null =>
          \E j \in 1 .. left' : step'[j].do \in {"drop", "release"} /\ step'[j].h = Temp
    <3>1. 2 \in 1 .. left' /\ u.do \in {"drop", "release"}
      BY <1>4, <2>2
    <3> QED BY <1>4, <2>1, <3>1
  <2>7. Doing'.do \in {"drop", "release"} /\ Doing'.h \in Addresses =>
          (Owned(Doing.h) \/ \E l \in Locals \cup {Temp} : Data[l] = Doing.h)'
    BY <1>2, <2>1 DEF Owned
  <2> QED BY <2>1, <2>2, <2>3, <2>4, <2>5, <2>6, <2>7, BeginsOK
<1> QED BY <1>3, <1>4

\* A unique handle deletes its object and takes another.
LEMMA TakesOther ==
    ASSUME Balanced', NEW k \in Uniques, NEW a \in Pointers, Data'[Temp] = Null,
           \A b \in alive' : (Counted(b) \/ Owned(b))' \/ b = a,
           \A b \in Addresses : b = a => b \in alive' /\ ~Counted(b)' /\ ~Owned(b)',
           NEW r \in Steps, r.do = "return", todo' = Append(<<Delete(k), Take(k, a)>>, r)
    PROVE  HInv'
<1>1. PICK s : s = Delete(k)
  OBVIOUS
<1>2. PICK t : t = Take(k, a)
  OBVIOUS
<1>3. s \in Steps /\ t \in Steps /\ s.do = "delete" /\ s.h = k /\ t.do = "take" /\ t.h = k
      /\ t.of = a
  BY <1>1, <1>2, StepsAre, StepsSay
<1>4. /\ todo' \in Seq(Steps) /\ left' = 3 /\ step'[1] = r /\ step'[2] = t /\ step'[3] = s
      /\ Doing' = s /\ Returns'
  BY <1>1, <1>2, <1>3, BeginsTwo
<1>5. 1 .. left' = {1, 2, 3} /\ 1 .. left' - 1 = {1, 2} /\ left' \in Nat /\ left' > 0
  BY <1>4
<1>6. OrderOK'
  <2>1. \A j \in 1 .. left' - 1 : Follows(step[j + 1], step[j])'
    BY <1>3, <1>4, <1>5 DEF Follows, Acquiring
  <2>2. \A i, j \in 1 .. left' : i > j => i = 3 \/ (i = 2 /\ j = 1)
    BY <1>5
  <2> QED BY <1>3, <1>4, <1>5, <2>1, <2>2 DEF OrderOK, Acquiring, Deleting, Letting
<1>7. SourceOK'
  BY <1>3, <1>4, <1>5 DEF SourceOK
<1>8. /\ \A j \in 1 .. left' : step'[j].do \notin {"free", "forget", "acquireRaw"}
      /\ Doing'.do \in {"drop", "release", "delete", "return"}
      /\ Doing'.do \notin {"drop", "release"}
      /\ \A j \in 1 .. left' : step'[j].do = "take" => step'[j] = t
  BY <1>3, <1>4, <1>5
<1>9. Taken(a)'
  BY <1>3, <1>4, <1>5 DEF Taken
<1>10. \A b \in alive' : (Counted(b) \/ Owned(b) \/ Taken(b))'
  BY <1>9
<1>11. \A j \in 1 .. left' : \A b \in Addresses : step'[j].do = "take" /\ step'[j].of = b =>
         b \in alive' /\ ~Counted(b)' /\ ~Owned(b)'
  BY <1>3, <1>8
<1> QED BY <1>4, <1>5, <1>6, <1>7, <1>8, <1>10, <1>11, BeginsOK

\* The temporary counts for the object it holds.
LEMMA TempCounts ==
    ASSUME HInv, AtRest, NEW a \in Addresses, Data' = [Data EXCEPT ![Temp] = a],
           RefMap' = CountUp(a), alive \subseteq alive', alive' \subseteq Addresses, a \in alive',
           unique' \in [Uniques -> Pointers], weak' = weak,
           \A u \in Uniques : unique'[u] # Null => unique'[u] = unique[u] /\ unique'[u] # a
    PROVE  /\ Balanced' /\ Data'[Temp] = a /\ \A l \in Locals : Data'[l] = Data[l]
           /\ \A b : Counted(b)' <=> Counted(b) \/ b = a
<1>1. Balanced /\ Data[Temp] = Null /\ Data \in [Shared -> Pointers]
  BY RestIs DEF Balanced
<1>2. /\ Data' \in [Shared -> Pointers] /\ Data'[Temp] = a
      /\ \A h \in Shared : h # Temp => Data'[h] = Data[h]
  BY <1>1, Names
<1>3. /\ DOMAIN RefMap' = DOMAIN RefMap \cup {a}
      /\ RefMap' = [b \in DOMAIN RefMap \cup {a} |->
           IF b = a THEN IF a \in DOMAIN RefMap THEN RefMap[a] + 1 ELSE 1 ELSE RefMap[b]]
  BY DEF CountUp, WithCount, Counted
<1>4. RefMap \in [DOMAIN RefMap -> Nat \ {0}] /\ DOMAIN RefMap \subseteq alive
  BY <1>1 DEF Balanced
<1>5. RefMap' \in [DOMAIN RefMap' -> Nat \ {0}] /\ DOMAIN RefMap' \subseteq alive'
  <2>1. \A b \in DOMAIN RefMap : RefMap[b] \in Nat \ {0}
    BY <1>4
  <2>2. a \in DOMAIN RefMap => RefMap[a] + 1 \in Nat \ {0}
    BY <2>1
  <2>3. \A b \in DOMAIN RefMap' : RefMap'[b] \in Nat \ {0}
    BY <1>3, <2>1, <2>2
  <2> QED BY <1>3, <1>4, <2>3
<1>6. ASSUME NEW b \in DOMAIN RefMap'
      PROVE  /\ IsFiniteSet({h \in Shared : Data'[h] = b})
             /\ RefMap'[b] = Cardinality({h \in Shared : Data'[h] = b})
  <2> DEFINE hs == {h \in Shared : Data[h] = b}
             hs1 == {h \in Shared : Data'[h] = b}
  <2>1. b # Null /\ Temp \notin hs
    BY <1>1, <1>3, <1>4, <1>6, Names DEF Balanced
  <2>2. CASE b \in DOMAIN RefMap
    <3>1. IsFiniteSet(hs) /\ RefMap[b] = Cardinality(hs)
      BY <1>1, <2>2 DEF Balanced
    <3>2. CASE b = a
      <4>1. hs1 = hs \cup {Temp}
        BY <1>2, <3>2, Names
      <4> HIDE DEF hs, hs1
      <4>2. IsFiniteSet(hs \cup {Temp}) /\ Cardinality(hs \cup {Temp}) = Cardinality(hs) + 1
        BY <2>1, <3>1, FS_AddElement
      <4>3. IsFiniteSet(hs1) /\ RefMap'[b] = Cardinality(hs1)
        BY <1>3, <1>6, <2>2, <3>1, <3>2, <4>1, <4>2
      <4> QED BY <4>3 DEF hs1
    <3>3. CASE b # a
      <4>1. hs1 = hs
        BY <1>1, <1>2, <2>1, <3>3, Names
      <4>2. RefMap'[b] = RefMap[b]
        BY <1>3, <1>6, <3>3
      <4> QED BY <3>1, <4>1, <4>2
    <3> QED BY <3>2, <3>3
  <2>3. CASE b \notin DOMAIN RefMap
    <3>1. b = a /\ RefMap'[b] = 1
      BY <1>3, <1>6, <2>3
    <3>2. \A h \in Shared : Data[h] # b
      BY <1>1, <2>1, <2>3 DEF Balanced, Counted
    <3>3. hs1 = {Temp}
      BY <1>2, <3>1, <3>2, Names
    <3>4. IsFiniteSet({Temp}) /\ Cardinality({Temp}) = 1
      BY FS_Singleton
    <3> QED BY <3>1, <3>3, <3>4
  <2> QED BY <2>2, <2>3
<1>7. \A h \in Shared : Data'[h] # Null => Data'[h] \in DOMAIN RefMap'
  <2>1. \A h \in Shared : Data[h] # Null => Data[h] \in DOMAIN RefMap
    BY <1>1 DEF Balanced, Counted
  <2> QED BY <1>2, <1>3, <2>1
<1>8. \A u \in Uniques : unique'[u] # Null =>
        /\ unique'[u] \notin DOMAIN RefMap' /\ unique'[u] \in alive'
        /\ \A v \in Uniques : unique'[v] = unique'[u] => v = u
  <2>1. \A u \in Uniques : unique[u] # Null =>
          /\ unique[u] \notin DOMAIN RefMap /\ unique[u] \in alive
          /\ \A v \in Uniques : unique[v] = unique[u] => v = u
    BY <1>1 DEF Balanced, Counted
  <2> QED BY <1>3, <2>1
<1>9. weak' \in [Weaks -> Pointers]
  BY <1>1 DEF Balanced
<1>10. \A l \in Locals : Data'[l] = Data[l]
  BY <1>2, Names DEF Targets
<1>11. \A b : Counted(b)' <=> Counted(b) \/ b = a
  BY <1>3 DEF Counted
<1>12. \A b \in DOMAIN RefMap' :
         LET hs == {h \in Shared : Data'[h] = b}
         IN  IsFiniteSet(hs) /\ RefMap'[b] = Cardinality(hs)
  BY <1>6
<1>13. Balanced'
  BY <1>2, <1>5, <1>7, <1>8, <1>9, <1>12 DEF Balanced, Counted
<1> QED BY <1>2, <1>10, <1>11, <1>13

LEMMA StaysBalanced ==
    ASSUME HInv, AtRest, UNCHANGED <<Data, RefMap, alive, unique, weak>>
    PROVE  /\ Balanced' /\ \A a \in alive' : (Counted(a) \/ Owned(a))'
           /\ Data'[Temp] = Null
           /\ \A h : Anchored(h) => (Owned(h) \/ \E l \in Locals \cup {Temp} : Data[l] = h)'
<1>1. Balanced /\ Data[Temp] = Null /\ \A a \in alive : Counted(a) \/ Owned(a)
  BY RestIs
<1>2. Balanced'
  BY <1>1 DEF Balanced, Counted
<1>3. \A a : Counted(a)' <=> Counted(a)
  BY DEF Counted
<1>4. \A a : Owned(a)' <=> Owned(a)
  BY DEF Owned
<1>5. \A h : Anchored(h) => (Owned(h) \/ \E l \in Locals \cup {Temp} : Data[l] = h)'
  BY <1>4 DEF Anchored
<1> QED BY <1>1, <1>2, <1>3, <1>4, <1>5

LEMMA MakeSharedOK ==
    ASSUME HInv, NEW h \in Usable, NEW a \in Addresses, MakeShared(h, a)
    PROVE  HInv'
<1>1. AtRest /\ Balanced /\ a \notin alive /\ \A b \in alive : Counted(b) \/ Owned(b)
  BY RestIs DEF MakeShared, Call
<1>2. /\ Balanced' /\ Data'[Temp] = a /\ \A l \in Locals : Data'[l] = Data[l]
      /\ \A b : Counted(b)' <=> Counted(b) \/ b = a
  <2>1. /\ Data' = [Data EXCEPT ![Temp] = a] /\ RefMap' = CountUp(a)
        /\ alive' = alive \cup {a} /\ unique' = unique /\ weak' = weak
    BY DEF MakeShared
  <2>2. alive \subseteq Addresses /\ unique \in [Uniques -> Pointers]
    BY <1>1 DEF Balanced
  <2>3. \A u \in Uniques : unique[u] # Null => unique[u] # a
    BY <1>1 DEF Balanced
  <2> QED BY <1>1, <2>1, <2>2, <2>3, TempCounts
<1>3. \A b \in alive' : (Counted(b) \/ Owned(b))'
  BY <1>1, <1>2 DEF MakeShared, Owned
<1>4. h \in Targets /\ h # Temp /\ (h \in Addresses => Anchored(h))
  BY <1>1, UsableIs
<1>5. h \in Addresses => (Owned(h) \/ \E l \in Locals \cup {Temp} : Data[l] = h)'
  <2>1. Data[Temp] = Null
    BY <1>1, RestIs
  <2> QED BY <1>2, <1>4, <2>1, Names DEF MakeShared, Anchored, Owned
<1>6. PICK t, u, r : t = Acquire(h, Temp) /\ u = Release(Temp) /\ r = Return("make", Temp)
  OBVIOUS
<1>7. t \in Steps /\ u \in Steps /\ r \in Steps
  BY <1>4, <1>6, StepsAre, Names DEF Calls
<1>8. /\ t.do = "acquire" /\ t.h = h /\ t.of = Temp /\ u.do = "release" /\ u.h = Temp
      /\ r.do = "return"
  BY <1>6, StepsSay
<1>9. t.do \in Acquiring /\ t.of \notin Addresses
  BY <1>8, Names DEF Acquiring
<1>10. todo' = Append(<<Drop(h), t, u>>, r)
  BY <1>6 DEF MakeShared, Call, MoveSteps
<1> QED BY <1>2, <1>3, <1>4, <1>5, <1>7, <1>8, <1>9, <1>10, Assigns

\* Copies and moves from a variable or a member.
LEMMA CopyMoveOK ==
    ASSUME HInv, NEW h \in Usable, NEW from \in Usable, CopyAssign(h, from) \/ MoveAssign(h, from)
    PROVE  HInv'
<1>1. AtRest /\ h # from /\ UNCHANGED <<Data, RefMap, alive, unique, weak>>
  BY DEF CopyAssign, MoveAssign, Call
<1>2. /\ Balanced' /\ \A a \in alive' : (Counted(a) \/ Owned(a))'
      /\ Data'[Temp] = Null
      /\ \A k : Anchored(k) => (Owned(k) \/ \E l \in Locals \cup {Temp} : Data[l] = k)'
  BY <1>1, StaysBalanced
<1>3. h \in Targets /\ (h \in Addresses => Anchored(h)) /\ from \in Shared
  BY <1>1, UsableIs
<1>4. PICK name \in {"copy", "move"} :
        \/ name = "copy" /\ Call(name, from, <<Drop(h), Acquire(h, from)>>)
        \/ name = "move" /\ Call(name, from, MoveSteps(h, from))
  BY DEF CopyAssign, MoveAssign
<1>5. PICK t, u, r : t = Acquire(h, from) /\ u = Release(from) /\ r = Return(name, from)
  OBVIOUS
<1>6. t \in Steps /\ u \in Steps /\ r \in Steps
  <2>1. name \in Calls
    BY <1>4 DEF Calls
  <2> QED BY <1>3, <1>5, <2>1, StepsAre
<1>7. /\ t.do = "acquire" /\ t.h = h /\ t.of = from /\ u.do = "release" /\ u.h = from
      /\ r.do = "return" /\ r.h = name /\ r.of = from
  BY <1>5, StepsSay
<1>8. t.do \in Acquiring /\ t.do # "acquireRaw" /\ \A a \in Addresses : a \notin Locals
  BY <1>7, HandlesAssumption DEF Acquiring
<1>9. \/ todo' = Append(<<Drop(h), t>>, r)
      \/ todo' = Append(<<Drop(h), t, u>>, r)
  BY <1>4, <1>5 DEF Call, MoveSteps
<1>10. CASE todo' = Append(<<Drop(h), t>>, r)
  BY <1>2, <1>3, <1>4, <1>6, <1>7, <1>8, <1>10, Assigns
<1>11. CASE todo' = Append(<<Drop(h), t, u>>, r)
  <2>1. u.do = "release" /\ u.h = t.of /\ u.h # h
    BY <1>1, <1>7
  <2>2. r.h \in {"copy", "move"} /\ (t.of \in Addresses => r.of \notin Locals)
    BY <1>4, <1>7, <1>8
  <2> QED BY <1>2, <1>3, <1>6, <1>7, <1>8, <1>11, <2>1, <2>2, Assigns
<1> QED BY <1>9, <1>10, <1>11

\* The argument is a copy, and is dropped at the end.
LEMMA ResetSharedOK ==
    ASSUME HInv, NEW h \in Usable, NEW from \in Usable, ResetShared(h, from)
    PROVE  HInv'
<1>1. PICK a : a = Data[from]
  OBVIOUS
<1>2. /\ AtRest /\ Balanced /\ Data[Temp] = Null /\ \A b \in alive : Counted(b) \/ Owned(b)
  BY RestIs DEF ResetShared, Call
<1>3. h \in Targets /\ h \in Shared /\ from \in Shared /\ (h \in Addresses => Anchored(h))
  BY <1>2, UsableIs
<1>4. Data \in [Shared -> Pointers] /\ a \in Pointers /\ (a # Null => a \in Addresses)
  BY <1>1, <1>2, <1>3, Names DEF Balanced
<1>5. /\ Balanced' /\ \A b \in alive' : (Counted(b) \/ Owned(b))'
      /\ Anchored(h) => (Owned(h) \/ \E l \in Locals \cup {Temp} : Data[l] = h)'
  <2>1. CASE a = Null
    <3>1. Data' = Data
      BY <1>1, <1>2, <1>4, <2>1, Names DEF ResetShared
    <3>2. UNCHANGED <<Data, RefMap, alive, unique, weak>>
      BY <1>1, <2>1, <3>1 DEF ResetShared
    <3> QED BY <1>2, <3>2, StaysBalanced
  <2>2. CASE a # Null
    <3>1. a \in DOMAIN RefMap /\ a \in alive /\ \A u \in Uniques : unique[u] # a
      BY <1>1, <1>2, <1>3, <2>2 DEF Balanced, Counted
    <3>2. /\ Balanced' /\ Data'[Temp] = a /\ \A l \in Locals : Data'[l] = Data[l]
          /\ \A b : Counted(b)' <=> Counted(b) \/ b = a
      <4>1. Data' = [Data EXCEPT ![Temp] = a] /\ RefMap' = CountUp(a)
            /\ alive' = alive /\ unique' = unique /\ weak' = weak
        BY <1>1, <2>2 DEF ResetShared
      <4>2. alive \subseteq Addresses /\ unique \in [Uniques -> Pointers]
        BY <1>2 DEF Balanced
      <4> QED BY <1>2, <1>4, <2>2, <3>1, <4>1, <4>2, TempCounts
    <3>3. \A b \in alive' : (Counted(b) \/ Owned(b))'
      BY <1>2, <3>2 DEF ResetShared, Owned
    <3>4. h \in Addresses /\ Anchored(h) => (Owned(h) \/ \E l \in Locals \cup {Temp} : Data[l] = h)'
      BY <1>2, <3>2, Names DEF ResetShared, Anchored, Owned
    <3>5. Anchored(h) => h \in Addresses \/ h = Null
      <4>1. \A l \in Locals \cup {Temp} : Data[l] \in Pointers
        BY <1>4, Names
      <4>2. \A u \in Uniques : unique[u] \in Pointers
        BY <1>2 DEF Balanced
      <4> QED BY <4>1, <4>2, Names DEF Anchored, Owned
    <3> QED BY <1>3, <3>2, <3>3, <3>4, <3>5, Names
  <2> QED BY <2>1, <2>2
<1>6. PICK d, t, r : d = Drop(Temp) /\ t = Acquire(h, Temp) /\ r = Return("reset", from)
  OBVIOUS
<1>7. d \in Steps /\ t \in Steps /\ r \in Steps
  BY <1>3, <1>6, StepsAre, Names DEF Calls
<1>8. /\ d.do = "drop" /\ d.h = Temp /\ t.do = "acquire" /\ t.h = h /\ t.of = Temp
      /\ r.do = "return"
  BY <1>6, StepsSay
<1>9. t.do \in Acquiring /\ t.of \notin Addresses /\ Temp \notin Addresses /\ Temp \in Shared
  BY <1>8, Names DEF Acquiring
<1>10. CASE Data[h] = Data[from]
  <2>1. todo' = Append(<<d>>, r)
    BY <1>6, <1>10 DEF ResetShared, Call
  <2> QED BY <1>5, <1>7, <1>8, <1>9, <2>1, LetsGo
<1>11. CASE Data[h] # Data[from]
  <2>1. todo' = Append(<<Drop(h), t, d>>, r)
    BY <1>6, <1>11 DEF ResetShared, Call
  <2> QED BY <1>3, <1>5, <1>7, <1>8, <1>9, <2>1, Assigns
<1> QED BY <1>10, <1>11

\* A raw pointer comes from Get() of a handle, or of a weak one that is valid.
LEMMA ResetRawOK ==
    ASSUME HInv, NEW h \in Usable, NEW a, NEW from \in Shared \cup {Null}, ResetRaw(h, a, from),
           \/ from \in Shared /\ a = Data[from]
           \/ from = Null /\ \E w \in Weaks : a = weak[w] /\ WeakValid(w)
    PROVE  HInv'
<1>1. AtRest /\ UNCHANGED <<Data, RefMap, alive, unique, weak>> /\ Balanced
  BY RestIs DEF ResetRaw, Call
<1>2. /\ Balanced' /\ \A b \in alive' : (Counted(b) \/ Owned(b))'
      /\ Data'[Temp] = Null
      /\ \A k : Anchored(k) => (Owned(k) \/ \E l \in Locals \cup {Temp} : Data[l] = k)'
  BY <1>1, StaysBalanced
<1>3. h \in Targets /\ (h \in Addresses => Anchored(h))
  BY <1>1, UsableIs
<1>4. a \in Pointers /\ (a # Null => Counted(a))
  BY <1>1 DEF Balanced, WeakValid
<1>5. \A b \in Addresses : a = b => ~Owned(b)'
  <2> SUFFICES ASSUME NEW b \in Addresses, a = b PROVE ~Owned(b)
    BY <1>1 DEF Owned
  <2>1. b # Null
    BY Names
  <2> QED BY <1>1, <1>4, <2>1 DEF Balanced, Owned
<1>6. PICK t, r : t = AcquireRaw(h, a) /\ r = Return("resetRaw", from)
  OBVIOUS
<1>7. t \in Steps /\ r \in Steps
  BY <1>3, <1>4, <1>6, StepsAre DEF Calls
<1>8. /\ t.do = "acquireRaw" /\ t.h = h /\ t.of = a
      /\ r.do = "return" /\ r.h = "resetRaw" /\ r.of = from
  BY <1>6, StepsSay
<1>9. CASE Data[h] = a
  <2>1. todo' = Append(<<>>, r)
    BY <1>6, <1>9 DEF ResetRaw, Call
  <2> QED BY <1>2, <1>7, <1>8, <2>1, NothingToDo
<1>10. CASE Data[h] # a
  <2>1. todo' = Append(<<Drop(h), t>>, r)
    BY <1>6, <1>10 DEF ResetRaw, Call
  <2>2. r.of \in Locals => Data'[r.of] = t.of /\ h # r.of
    BY <1>1, <1>8, <1>10, Names
  <2>3. t.do \in Acquiring /\ t.do # "acquire"
    BY <1>8 DEF Acquiring
  <2> QED BY <1>2, <1>3, <1>5, <1>7, <1>8, <2>1, <2>2, <2>3, Assigns
<1> QED BY <1>9, <1>10

LEMMA ReleaseSharedOK ==
    ASSUME HInv, NEW h \in Usable, ReleaseShared(h)
    PROVE  HInv'
<1>1. AtRest /\ UNCHANGED <<Data, RefMap, alive, unique, weak>>
  BY DEF ReleaseShared, Call
<1>2. /\ Balanced' /\ \A b \in alive' : (Counted(b) \/ Owned(b))'
      /\ Data'[Temp] = Null
      /\ \A k : Anchored(k) => (Owned(k) \/ \E l \in Locals \cup {Temp} : Data[l] = k)'
  BY <1>1, StaysBalanced
<1>3. h \in Shared /\ (h \in Addresses => Anchored(h))
  BY <1>1, UsableIs
<1>4. PICK s, r : s = Release(h) /\ r = Return("release", h)
  OBVIOUS
<1>5. s \in Steps /\ r \in Steps
  BY <1>3, <1>4, StepsAre DEF Calls
<1>6. s.do = "release" /\ s.h = h /\ r.do = "return"
  BY <1>4, StepsSay
<1>7. todo' = Append(<<s>>, r)
  BY <1>4 DEF ReleaseShared, Call
<1> QED BY <1>2, <1>3, <1>5, <1>6, <1>7, LetsGo

LEMMA GetWeakOK ==
    ASSUME HInv, NEW h \in Usable, NEW w \in Weaks, GetWeak(w, h)
    PROVE  HInv'
<1>1. AtRest /\ Balanced
  BY RestIs DEF GetWeak
<1>2. h \in Shared
  BY <1>1, UsableIs
<1>3. weak' \in [Weaks -> Pointers]
  BY <1>1, <1>2 DEF GetWeak, Balanced
<1> QED BY <1>3, KeepsAll DEF GetWeak

LEMMA MakeUniqueOK ==
    ASSUME HInv, NEW u \in Uniques, NEW a \in Addresses, MakeUnique(u, a)
    PROVE  HInv'
<1>1. /\ AtRest /\ Balanced /\ Data[Temp] = Null /\ a \notin alive
      /\ \A b \in alive : Counted(b) \/ Owned(b)
  BY RestIs DEF MakeUnique, Call
<1>2. alive' = alive \cup {a} /\ UNCHANGED <<Data, RefMap, unique, weak>>
  BY DEF MakeUnique
<1>3. Balanced'
  <2>1. alive' \subseteq Addresses /\ DOMAIN RefMap' \subseteq alive'
    BY <1>1, <1>2 DEF Balanced
  <2>2. \A b : Counted(b)' <=> Counted(b)
    BY <1>2 DEF Counted
  <2> QED BY <1>1, <1>2, <2>1, <2>2 DEF Balanced
<1>4. /\ \A b : Counted(b)' <=> Counted(b)
      /\ \A b : Owned(b)' <=> Owned(b)
  BY <1>2 DEF Counted, Owned
<1>5. ~Counted(a) /\ ~Owned(a)
  <2>1. a # Null
    BY Names
  <2> QED BY <1>1, <2>1 DEF Balanced, Counted, Owned
<1>6. PICK r : r = Return("makeUnique", u)
  OBVIOUS
<1>7. r \in Steps /\ r.do = "return" /\ a \in Pointers
  BY <1>6, StepsAre, StepsSay, Names DEF Calls
<1>8. todo' = Append(<<Delete(u), Take(u, a)>>, r)
  BY <1>6 DEF MakeUnique, Call
<1>9. \A b \in alive' : (Counted(b) \/ Owned(b))' \/ b = a
  BY <1>1, <1>2, <1>4
<1>10. \A b \in Addresses : b = a => b \in alive' /\ ~Counted(b)' /\ ~Owned(b)'
  BY <1>2, <1>4, <1>5
<1>11. Data'[Temp] = Null
  BY <1>1, <1>2
<1> QED BY <1>3, <1>7, <1>8, <1>9, <1>10, <1>11, TakesOther

\* The argument has taken what the other handle owned.
LEMMA ResetUniqueOK ==
    ASSUME HInv, NEW u \in Uniques, NEW from \in Uniques, ResetUnique(u, from)
    PROVE  HInv'
<1>1. /\ AtRest /\ Balanced /\ Data[Temp] = Null
      /\ \A b \in alive : Counted(b) \/ Owned(b)
  BY RestIs DEF ResetUnique, Call
<1>2. PICK a : a = unique[from]
  OBVIOUS
<1>3. /\ unique \in [Uniques -> Pointers] /\ unique' = [unique EXCEPT ![from] = Null]
      /\ UNCHANGED <<Data, RefMap, alive, weak>>
  BY <1>1 DEF ResetUnique, Balanced
<1>4. /\ unique' \in [Uniques -> Pointers] /\ unique'[from] = Null
      /\ \A v \in Uniques : v # from => unique'[v] = unique[v]
      /\ a \in Pointers
  BY <1>2, <1>3, Names
<1>5. \A v \in Uniques : unique[v] # Null =>
        /\ ~Counted(unique[v]) /\ unique[v] \in alive
        /\ \A x \in Uniques : unique[x] = unique[v] => x = v
  BY <1>1 DEF Balanced
<1>6. Balanced'
  <2>1. \A v \in Uniques : unique'[v] # Null =>
          /\ unique'[v] \notin DOMAIN RefMap' /\ unique'[v] \in alive'
          /\ \A x \in Uniques : unique'[x] = unique'[v] => x = v
    BY <1>3, <1>4, <1>5 DEF Counted
  <2> QED BY <1>1, <1>3, <1>4, <2>1 DEF Balanced, Counted
<1>7. \A b \in alive' : (Counted(b) \/ Owned(b))' \/ b = a
  <2> SUFFICES ASSUME NEW b \in alive, b # a, Owned(b) PROVE Owned(b)'
    BY <1>1, <1>3 DEF Counted
  <2> QED BY <1>2, <1>4 DEF Owned
<1>8. \A b \in Addresses : b = a => b \in alive' /\ ~Counted(b)' /\ ~Owned(b)'
  <2> SUFFICES ASSUME NEW b \in Addresses, b = a PROVE b \in alive' /\ ~Counted(b)' /\ ~Owned(b)'
    OBVIOUS
  <2>1. b # Null
    BY Names
  <2>2. ~Counted(b) /\ b \in alive
    BY <1>2, <1>5, <2>1
  <2>3. \A v \in Uniques : unique'[v] # b
    BY <1>2, <1>4, <1>5, <2>1
  <2> QED BY <1>3, <2>2, <2>3 DEF Counted, Owned
<1>9. PICK r : r = Return("resetUnique", from)
  OBVIOUS
<1>10. r \in Steps /\ r.do = "return"
  BY <1>9, StepsAre, StepsSay DEF Calls
<1>11. todo' = Append(<<Delete(u), Take(u, a)>>, r) /\ Data'[Temp] = Null
  BY <1>1, <1>2, <1>3, <1>9 DEF ResetUnique, Call
<1> QED BY <1>4, <1>6, <1>7, <1>8, <1>10, <1>11, TakesOther

\* A unique handle gives its object to a shared one.
LEMMA ShareUniqueOK ==
    ASSUME HInv, NEW h \in Usable, NEW u \in Uniques, ShareUnique(h, u)
    PROVE  HInv'
<1>1. /\ AtRest /\ Balanced /\ Data[Temp] = Null /\ Null \notin alive
      /\ \A b \in alive : Counted(b) \/ Owned(b)
  BY RestIs DEF ShareUnique, Call
<1>2. PICK a : a = unique[u]
  OBVIOUS
<1>3. /\ unique \in [Uniques -> Pointers] /\ unique' = [unique EXCEPT ![u] = Null]
      /\ alive' = alive /\ weak' = weak /\ alive \subseteq Addresses
      /\ Data \in [Shared -> Pointers] /\ Data' = [Data EXCEPT ![Temp] = a]
      /\ RefMap' = IF a = Null THEN RefMap ELSE CountUp(a)
  BY <1>1, <1>2 DEF ShareUnique, Balanced
<1>4. /\ unique' \in [Uniques -> Pointers] /\ unique'[u] = Null
      /\ \A v \in Uniques : v # u => unique'[v] = unique[v]
      /\ a \in Pointers
  BY <1>2, <1>3, Names
<1>5. \A v \in Uniques : unique[v] # Null =>
        /\ ~Counted(unique[v]) /\ unique[v] \in alive
        /\ \A x \in Uniques : unique[x] = unique[v] => x = v
  BY <1>1 DEF Balanced
<1>6. /\ Balanced' /\ Data'[Temp] = a /\ \A l \in Locals : Data'[l] = Data[l]
      /\ \A b : Counted(b)' <=> Counted(b) \/ (b = a /\ a # Null)
  <2>1. CASE a = Null
    <3>1. Data' = Data
      BY <1>1, <1>3, <2>1, Names
    <3>2. unique' = unique
      BY <1>2, <1>3, <2>1
    <3>3. RefMap' = RefMap
      BY <1>3, <2>1
    <3>4. UNCHANGED <<Data, RefMap, alive, unique, weak>>
      BY <1>3, <3>1, <3>2, <3>3
    <3>5. Balanced'
      BY <1>1, <3>4, StaysBalanced
    <3> QED BY <1>1, <2>1, <3>1, <3>3, <3>5 DEF Counted
  <2>2. CASE a # Null
    <3>1. a \in Addresses /\ a \in alive
      BY <1>2, <1>3, <1>5, <2>2
    <3>2. \A v \in Uniques : unique'[v] # Null => unique'[v] = unique[v] /\ unique'[v] # a
      BY <1>2, <1>4, <1>5
    <3>3. RefMap' = CountUp(a)
      BY <1>3, <2>2
    <3> QED BY <1>1, <1>3, <1>4, <2>2, <3>1, <3>2, <3>3, TempCounts
  <2> QED BY <2>1, <2>2
<1>7. \A b \in alive' : (Counted(b) \/ Owned(b))'
  <2> SUFFICES ASSUME NEW b \in alive, ~Counted(b)' PROVE Owned(b)'
    BY <1>3
  <2>1. ~Counted(b) /\ b # a
    BY <1>1, <1>6
  <2>2. PICK v \in Uniques : unique[v] = b
    BY <1>1, <2>1 DEF Owned
  <2>3. v # u
    BY <1>2, <2>1, <2>2
  <2> QED BY <1>4, <2>2, <2>3 DEF Owned
<1>8. h \in Targets /\ h # Temp /\ (h \in Addresses => Anchored(h))
  BY <1>1, UsableIs
<1>9. h \in Addresses => (Owned(h) \/ \E l \in Locals \cup {Temp} : Data[l] = h)'
  <2> SUFFICES ASSUME h \in Addresses
               PROVE  (\E v \in Uniques : unique'[v] = h) \/ \E l \in Locals \cup {Temp} : Data'[l] = h
    BY DEF Owned
  <2>1. h # Null
    BY Names
  <2>2. CASE \E v \in Uniques : unique[v] = h
    BY <1>2, <1>4, <1>6, <2>2
  <2>3. CASE \E l \in Locals \cup {Temp} : Data[l] = h
    BY <1>1, <1>6, <2>1, <2>3
  <2> QED BY <1>8, <2>2, <2>3 DEF Anchored, Owned
<1>10. PICK t, s, r : t = Acquire(h, Temp) /\ s = Release(Temp) /\ r = Return("share", Temp)
  OBVIOUS
<1>11. t \in Steps /\ s \in Steps /\ r \in Steps
  BY <1>8, <1>10, StepsAre, Names DEF Calls
<1>12. /\ t.do = "acquire" /\ t.h = h /\ t.of = Temp /\ s.do = "release" /\ s.h = Temp
       /\ r.do = "return"
  BY <1>10, StepsSay
<1>13. t.do \in Acquiring /\ t.of \notin Addresses
  BY <1>12, Names DEF Acquiring
<1>14. todo' = Append(<<Drop(h), t, s>>, r)
  BY <1>10 DEF ShareUnique, Call, MoveSteps
<1> QED BY <1>6, <1>7, <1>8, <1>9, <1>11, <1>12, <1>13, <1>14, Assigns

-----------------------------------------------------------------------------
(* The invariant is inductive.                                             *)

LEMMA HandlesStart ==
    ASSUME HandlesInit
    PROVE  HInv
<1>1. left = 0 /\ todo \in Seq(Steps)
  BY DEF HandlesInit, left
<1>2. /\ \A a : ~Freed(a) /\ ~Taken(a) /\ ~Forgets(a)
      /\ Forgetting = {}
  BY <1>1 DEF Freed, Taken, Forgets, Forgetting
<1>3. HandlesTypeOK
  BY <1>1, Names DEF HandlesInit, HandlesTypeOK
<1>4. OrderOK /\ DoingOK /\ LaterOK /\ SourceOK
  BY <1>1 DEF OrderOK, DoingOK, LaterOK, SourceOK
<1>5. CountOK /\ AliveOK /\ UniqueOK
  BY <1>1, <1>2, Names DEF HandlesInit, CountOK, AliveOK, UniqueOK, Counted
<1> QED BY <1>3, <1>4, <1>5 DEF HInv

LEMMA HandlesStep ==
    ASSUME HInv, [HandlesNext]_handleVars
    PROVE  HInv'
<1>1. CASE Proceed
  BY <1>1, ProceedsOK
<1>2. ASSUME NEW h \in Usable, NEW a \in Addresses, MakeShared(h, a) PROVE HInv'
  BY <1>2, MakeSharedOK
<1>3. ASSUME NEW h \in Usable, NEW from \in Usable,
             \/ CopyAssign(h, from) \/ MoveAssign(h, from) \/ ResetShared(h, from)
             \/ ResetRaw(h, Data[from], from)
      PROVE  HInv'
  <2>1. CASE CopyAssign(h, from) \/ MoveAssign(h, from)
    BY <2>1, CopyMoveOK
  <2>2. CASE ResetShared(h, from)
    BY <2>2, ResetSharedOK
  <2>3. CASE ResetRaw(h, Data[from], from)
    <3>1. from \in Shared
      BY <2>3, UsableIs DEF ResetRaw, Call
    <3> QED BY <2>3, <3>1, ResetRawOK
  <2> QED BY <1>3, <2>1, <2>2, <2>3
<1>4. ASSUME NEW h \in Usable, NEW w \in Weaks, WeakValid(w), ResetRaw(h, weak[w], Null)
      PROVE  HInv'
  BY <1>4, ResetRawOK
<1>5. ASSUME NEW h \in Usable, ReleaseShared(h) PROVE HInv'
  BY <1>5, ReleaseSharedOK
<1>6. ASSUME NEW h \in Usable, NEW w \in Weaks, GetWeak(w, h) PROVE HInv'
  BY <1>6, GetWeakOK
<1>7. ASSUME NEW h \in Usable, NEW u \in Uniques, ShareUnique(h, u) PROVE HInv'
  BY <1>7, ShareUniqueOK
<1>8. ASSUME NEW u \in Uniques, NEW a \in Addresses, MakeUnique(u, a) PROVE HInv'
  BY <1>8, MakeUniqueOK
<1>9. ASSUME NEW u \in Uniques, NEW from \in Uniques,
             ResetUnique(u, from) \/ ResetUniqueEmpty(u, from)
      PROVE  HInv'
  <2>1. CASE ResetUnique(u, from)
    BY <2>1, ResetUniqueOK
  <2>2. CASE ResetUniqueEmpty(u, from)
    BY <2>2, KeepsAll DEF ResetUniqueEmpty, Fault, HInv, HandlesTypeOK
  <2> QED BY <1>9, <2>1, <2>2
<1>10. CASE UNCHANGED handleVars
  BY <1>10, KeepsAll DEF handleVars, HInv, HandlesTypeOK
<1> QED BY <1>1, <1>2, <1>3, <1>4, <1>5, <1>6, <1>7, <1>8, <1>9, <1>10 DEF HandlesNext

\* A fault ends the run.
LEMMA FaultStays ==
    ASSUME HandlesNext, fault # "none"
    PROVE  UNCHANGED handleVars
<1>1. ~Proceed
  BY DEF Proceed, DoDrop, DoReleaseOther, DoReleaseLast, DoReleaseNothing, DoForget, DoFree,
         DoAcquire, DoAcquireRaw, DoDelete, DoTake, DoReturn, Now
<1>2. ~AtRest
  BY DEF AtRest
<1>3. \A h, from, a, u, w :
        /\ ~MakeShared(h, a) /\ ~CopyAssign(h, from) /\ ~MoveAssign(h, from)
        /\ ~ResetShared(h, from) /\ ~ResetRaw(h, a, from) /\ ~ReleaseShared(h) /\ ~GetWeak(w, h)
        /\ ~ShareUnique(h, u) /\ ~MakeUnique(u, a) /\ ~ResetUnique(u, from)
        /\ ~ResetUniqueEmpty(u, from)
  BY <1>2 DEF MakeShared, CopyAssign, MoveAssign, ResetShared, ResetRaw, ReleaseShared, GetWeak,
              ShareUnique, MakeUnique, ResetUnique, ResetUniqueEmpty, Call
<1> QED BY <1>1, <1>3 DEF HandlesNext

\* The only faults: what is assigned is in an object that is gone, and the
\* unique handle's own check.
LEMMA FaultsAre ==
    ASSUME HInv, HandlesNext, fault = "none", fault' # "none"
    PROVE  \/ fault' = "ownership"
           \/ /\ left > 0 /\ todo' = todo /\ Data' = Data /\ Doing.of \in Addresses \ alive
              /\ \/ fault' = "dead source" /\ Doing.do = "acquire"
                 \/ fault' = "dead object" /\ Doing.do = "acquireRaw"
<1>1. CASE Proceed
  <2>1. ~(DoDrop \/ DoReleaseOther \/ DoReleaseLast \/ DoForget \/ DoDelete \/ DoTake \/ DoReturn)
    BY DEF DoDrop, DoReleaseOther, DoReleaseLast, DoForget, DoDelete, DoTake, DoReturn
  <2>2. CASE DoReleaseNothing
    <3>1. left > 0 /\ Doing.do = "release" /\ H = Doing.h
      BY <2>2, NowIs DEF DoReleaseNothing
    <3>2. Data[H] = Null
      BY <2>2, <3>1, HeldIsCounted DEF DoReleaseNothing
    <3> QED BY <2>2, <3>2 DEF DoReleaseNothing
  <2>3. CASE DoFree
    <3>1. left > 0 /\ Doing.do = "free" /\ H = Doing.h /\ HandlesTypeOK /\ Doing \in Steps
      BY <2>3, NowIs DEF DoFree
    <3>2. Freed(H) /\ H \in Addresses
      BY <3>1, StepsOK, Kinds DEF Freed, Doing
    <3>3. H \in alive
      BY <3>2 DEF HInv, AliveOK
    <3> QED BY <2>3, <3>3 DEF DoFree
  <2>4. CASE DoAcquire
    <3>1. left > 0 /\ Doing.do = "acquire" /\ Head(todo) = Doing
      BY <2>4, NowIs DEF DoAcquire
    <3> QED BY <2>4, <3>1 DEF DoAcquire, Hold, Fault
  <2>5. CASE DoAcquireRaw
    <3>1. left > 0 /\ Doing.do = "acquireRaw" /\ Head(todo) = Doing
      BY <2>5, NowIs DEF DoAcquireRaw
    <3> QED BY <2>5, <3>1 DEF DoAcquireRaw, Hold, Fault
  <2> QED BY <1>1, <2>1, <2>2, <2>3, <2>4, <2>5 DEF Proceed
<1>2. \A h, from, a, u, w :
        /\ ~MakeShared(h, a) /\ ~CopyAssign(h, from) /\ ~MoveAssign(h, from)
        /\ ~ResetShared(h, from) /\ ~ResetRaw(h, a, from) /\ ~ReleaseShared(h) /\ ~GetWeak(w, h)
        /\ ~ShareUnique(h, u) /\ ~MakeUnique(u, a) /\ ~ResetUnique(u, from)
  BY DEF MakeShared, CopyAssign, MoveAssign, ResetShared, ResetRaw, ReleaseShared, GetWeak,
         ShareUnique, MakeUnique, ResetUnique, Call
<1>3. ASSUME NEW u, NEW from, ResetUniqueEmpty(u, from) PROVE fault' = "ownership"
  BY <1>3 DEF ResetUniqueEmpty, Fault
<1> QED BY <1>1, <1>2, <1>3 DEF HandlesNext

\* What is assigned from an object that is gone was not reached by a variable.
LEMMA SourcesAre ==
    ASSUME HInv, left > 0, Doing.of \in Addresses \ alive,
           Doing.do \in {"acquire", "acquireRaw"}
    PROVE  step[1].h \in {"copy", "move", "resetRaw"} /\ step[1].of \notin Locals
<1>1. HandlesTypeOK /\ left \in Nat /\ left \in 1 .. left /\ Doing = step[left]
  BY StepsOK DEF HInv, Doing
<1>2. CASE Doing.do = "acquire"
  BY <1>1, <1>2 DEF HInv, SourceOK
<1>3. CASE Doing.do = "acquireRaw"
  <2>1. step[1].h = "resetRaw" /\ (step[1].of \in Locals => Data[step[1].of] = Doing.of)
    BY <1>1, <1>3 DEF HInv, SourceOK
  <2>2. ASSUME step[1].of \in Locals PROVE FALSE
    <3>1. Doing.do \notin Deleting
      BY <1>3 DEF Deleting, Letting
    <3>2. step[1].of \in Shared /\ Data[step[1].of] # Null
      BY <2>1, <2>2, Names
    <3>3. Counted(Doing.of)
      BY <2>1, <2>2, <3>1, <3>2, NoDeletion DEF HInv, CountOK
    <3> QED BY <3>3 DEF HInv, AliveOK
  <2> QED BY <2>1, <2>2
<1> QED BY <1>2, <1>3

LEMMA InvCounts ==
    ASSUME HInv
    PROVE  CountsExact /\ OwnedOnce
<1> SUFFICES ASSUME AtRest PROVE CountsExact /\ OwnedOnce
  BY DEF CountsExact, OwnedOnce
<1>1. /\ Balanced /\ Null \notin alive /\ \A a \in alive : Counted(a) \/ Owned(a)
  BY RestIs
<1>2. CountsExact
  BY <1>1 DEF CountsExact, Balanced
<1>3. alive = DOMAIN RefMap \cup ({unique[u] : u \in Uniques} \ {Null})
  <2>1. DOMAIN RefMap \subseteq alive /\ \A u \in Uniques : unique[u] # Null => unique[u] \in alive
    BY <1>1 DEF Balanced
  <2>2. \A a \in alive : a \in DOMAIN RefMap \/ (a # Null /\ \E u \in Uniques : unique[u] = a)
    BY <1>1 DEF Counted, Owned
  <2> QED BY <2>1, <2>2
<1>4. \A u \in Uniques : ~Counted(unique[u])
  BY <1>1 DEF Balanced, Counted
<1>5. \A u, v \in Uniques : u # v /\ unique[u] = unique[v] => unique[u] = Null
  BY <1>1 DEF Balanced
<1> QED BY <1>2, <1>3, <1>4, <1>5 DEF OwnedOnce

LEMMA InvWeak ==
    ASSUME HInv
    PROVE  WeakIsSafe
<1> SUFFICES ASSUME NEW w \in Weaks, WeakValid(w) PROVE weak[w] \in alive /\ weak[w] \notin Dying
  BY DEF WeakIsSafe
<1>1. weak[w] \in Addresses /\ Counted(weak[w])
  BY Names DEF WeakValid, HInv, HandlesTypeOK
<1>2. weak[w] \in alive /\ ~Freed(weak[w])
  BY <1>1 DEF HInv, AliveOK
<1>3. ASSUME NEW k \in DOMAIN todo, todo[k].do = "free", todo[k].h = weak[w] PROVE FALSE
  <2>1. todo \in Seq(Steps) /\ left \in Nat
    BY StepsOK DEF HInv, HandlesTypeOK
  <2>2. k \in 1 .. left /\ left + 1 - k \in 1 .. left /\ left + 1 - (left + 1 - k) = k
    BY <2>1 DEF left
  <2>3. step[left + 1 - k] = todo[k]
    BY <2>2, StepIs
  <2> QED BY <1>2, <1>3, <2>2, <2>3 DEF Freed
<1> QED BY <1>2, <1>3 DEF Dying

\* Between calls every count is the number of handles that hold the object, and
\* what a handle holds is counted: the increments of AcquireDataToHandle and
\* the decrements of ReleaseResourseChecked balance for any nesting of
\* destructors.
THEOREM CountsAreExact == HandlesSpec => []CountsExact
<1>1. HandlesInit => HInv
  BY HandlesStart
<1>2. HInv /\ [HandlesNext]_handleVars => HInv'
  BY HandlesStep
<1>3. HInv => CountsExact
  BY InvCounts
<1> QED BY <1>1, <1>2, <1>3, PTL DEF HandlesSpec

\* Between calls an object in memory is counted or has one unique owner, never
\* both, and nothing owned is gone: no leak, whatever was assigned.
THEOREM OneOwner == HandlesSpec => []OwnedOnce
<1>1. HandlesInit => HInv
  BY HandlesStart
<1>2. HInv /\ [HandlesNext]_handleVars => HInv'
  BY HandlesStep
<1>3. HInv => OwnedOnce
  BY InvCounts
<1> QED BY <1>1, <1>2, <1>3, PTL DEF HandlesSpec

\* IsValid of a weak handle is false as soon as the destructor of its object
\* begins, for the address has left the map.
THEOREM WeakHandlesAreSafe == HandlesSpec => []WeakIsSafe
<1>1. HandlesInit => HInv
  BY HandlesStart
<1>2. HInv /\ [HandlesNext]_handleVars => HInv'
  BY HandlesStep
<1>3. HInv => WeakIsSafe
  BY InvWeak
<1> QED BY <1>1, <1>2, <1>3, PTL DEF HandlesSpec

\* No object is freed twice, and the assertion of ReleaseResourseChecked that
\* what it releases is counted never fails.
THEOREM NothingReleasedTwice == HandlesSpec => []ReleasedOnce
<1>1. HandlesInit => HInv /\ ReleasedOnce
  BY HandlesStart DEF HandlesInit, ReleasedOnce
<1>2. HInv /\ ReleasedOnce /\ [HandlesNext]_handleVars => HInv' /\ ReleasedOnce'
  <2> SUFFICES ASSUME HInv, ReleasedOnce, [HandlesNext]_handleVars
               PROVE  HInv' /\ ReleasedOnce'
    OBVIOUS
  <2>1. HInv'
    BY HandlesStep
  <2>2. CASE UNCHANGED handleVars
    BY <2>1, <2>2 DEF ReleasedOnce, handleVars
  <2>3. CASE HandlesNext /\ fault # "none"
    BY <2>1, <2>3, FaultStays DEF ReleasedOnce, handleVars
  <2>4. CASE HandlesNext /\ fault = "none" /\ fault' # "none"
    BY <2>1, <2>4, FaultsAre DEF ReleasedOnce
  <2>5. CASE fault' = "none"
    BY <2>1, <2>5 DEF ReleasedOnce
  <2> QED BY <2>2, <2>3, <2>4, <2>5
<1> QED BY <1>1, <1>2, PTL DEF HandlesSpec

\* A handle read after its object is gone, or a raw pointer to one, is met only
\* where a member, not a variable, is copied, moved or reset from.
THEOREM SourcesAreSafe == HandlesSpec => []SafeSources
<1>1. HandlesInit => HInv /\ SafeSources
  BY HandlesStart DEF HandlesInit, SafeSources
<1>2. HInv /\ SafeSources /\ [HandlesNext]_handleVars => HInv' /\ SafeSources'
  <2> SUFFICES ASSUME HInv, SafeSources, [HandlesNext]_handleVars
               PROVE  HInv' /\ SafeSources'
    OBVIOUS
  <2>1. HInv'
    BY HandlesStep
  <2>2. CASE UNCHANGED handleVars
    BY <2>1, <2>2 DEF SafeSources, handleVars
  <2>3. CASE HandlesNext /\ fault # "none"
    BY <2>1, <2>3, FaultStays DEF SafeSources, handleVars
  <2>4. CASE HandlesNext /\ fault = "none" /\ fault' \in {"dead source", "dead object"}
    <3>1. left > 0 /\ todo' = todo /\ Doing.of \in Addresses \ alive
          /\ Doing.do \in {"acquire", "acquireRaw"}
      BY <2>4, FaultsAre
    <3>2. step[1].h \in {"copy", "move", "resetRaw"} /\ step[1].of \notin Locals
      BY <3>1, SourcesAre
    <3>3. step[1] = todo[Len(todo)]
      <4>1. left \in Nat /\ 1 \in 1 .. left /\ left + 1 - 1 = left
        BY <3>1, StepsOK DEF HInv
      <4> QED BY <4>1, StepIs DEF left
    <3> QED BY <2>1, <3>1, <3>2, <3>3 DEF SafeSources
  <2>5. CASE fault' \notin {"dead source", "dead object"}
    BY <2>1, <2>5 DEF SafeSources
  <2> QED BY <2>2, <2>3, <2>4, <2>5
<1> QED BY <1>1, <1>2, PTL DEF HandlesSpec
=============================================================================
