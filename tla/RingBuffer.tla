------------------------------ MODULE RingBuffer ------------------------------
(***************************************************************************)
(* spnet::Containers::RingBuffer (DynamirArray.h), which is DynamicArray:  *)
(* a block of memory, the index of the front element and a number of       *)
(* elements.  They lie at the indices up to head, the one at the back      *)
(* lowest, going on at the end of the block when there are not enough.     *)
(*                                                                         *)
(* A buffer made by RingBuffer(capacity).  The default constructor and the *)
(* two copies work on an uninitialised MemoryBlock, and a moved-from       *)
(* buffer frees the block its new owner has: what they do is undefined.    *)
(* So is a Resize to no more than head where the elements do not wrap: it  *)
(* writes past the new block, or leaves head outside of it.                *)
(***************************************************************************)
EXTENDS Integers, Sequences

CONSTANTS
    Values,        \* of ValueT
    Default,       \* ValueT{}
    Garbage,       \* what uninitialised memory holds
    ElementSize,   \* sizeof(ValueT)
    MaxCapacity    \* bound: of the capacities asked for

ASSUME CapacityAssumption == MaxCapacity \in Nat
ASSUME ElementAssumption == ElementSize \in Nat \ {0}

VARIABLES memory, capacity, head, elementsInside,
          result    \* what the last pop returned

ringVars == <<memory, capacity, head, elementsInside, result>>

InvalidIndex == -1    \* size_t(-1)

Uninitialised(n) == [i \in 0 .. n - 1 |-> Garbage]

RingInit ==
    /\ capacity \in 1 .. MaxCapacity /\ memory = Uninitialised(capacity)
    /\ head = InvalidIndex /\ elementsInside = 0
    /\ result = Default

-----------------------------------------------------------------------------
GetTailIndex ==
    IF head = InvalidIndex THEN InvalidIndex
    ELSE IF head < elementsInside - 1 THEN capacity - (elementsInside - head - 1)
    ELSE head - (elementsInside - 1)

GetNextHeadIndexUnbounded == head + 1
GetNextHeadIndex == IF head = capacity - 1 THEN 0 ELSE head + 1
GetNextTailIndexNoWrap == IF GetTailIndex = 0 THEN 0 ELSE GetTailIndex - 1
GetNextTailIndex == IF GetTailIndex = 0 THEN capacity - 1 ELSE GetTailIndex - 1

Add(index, v) ==
    /\ memory' = [memory EXCEPT ![index] = v]
    /\ elementsInside' = elementsInside + 1
    /\ UNCHANGED <<capacity, result>>

\* PushBack and EmplaceBack.
PushBack(v) ==
    /\ capacity > elementsInside
    /\ LET index == IF GetTailIndex = InvalidIndex THEN 0 ELSE GetNextTailIndex IN
        /\ Add(index, v)
        /\ head' = IF head = InvalidIndex THEN index ELSE head

\* PushFront and EmplaceFront.
PushFront(v) ==
    /\ capacity > elementsInside
    /\ LET index == IF head = InvalidIndex THEN 0 ELSE GetNextHeadIndex IN
        /\ Add(index, v)
        /\ head' = index

\* A full buffer takes nothing: InvalidIndex is returned.
PushRefused == capacity = elementsInside /\ UNCHANGED ringVars

-----------------------------------------------------------------------------
Emptied == head' = InvalidIndex /\ elementsInside' = 0

HeadBelow == IF head = 0 THEN capacity - 1 ELSE head - (1 % capacity)

PopFront ==
    /\ head # InvalidIndex
    /\ result' = memory[head]
    /\ IF elementsInside > 1 THEN elementsInside' = elementsInside - 1 /\ head' = HeadBelow
                             ELSE Emptied
    /\ UNCHANGED <<memory, capacity>>

PopBack ==
    /\ GetTailIndex # InvalidIndex
    /\ result' = memory[GetTailIndex]
    /\ IF elementsInside > 1 THEN elementsInside' = elementsInside - 1 /\ UNCHANGED head
                             ELSE Emptied
    /\ UNCHANGED <<memory, capacity>>

\* Either of them.  A ValueT{} is returned by reference, and gone before the
\* caller reads it.
PopNothing ==
    /\ head = InvalidIndex
    /\ result' \in {Default, Garbage}
    /\ UNCHANGED <<memory, capacity, head, elementsInside>>

Clear == Emptied /\ UNCHANGED <<memory, capacity, result>>

-----------------------------------------------------------------------------
\* Elements that wrap are copied one by one to the beginning of the new
\* block, the tail first.  Otherwise the block's first head + 1 * ElementSize
\* bytes are copied, where (head + 1) * ElementSize would be all of them.
Wrapped == GetTailIndex > head
Around(i) == IF i < capacity THEN i ELSE i - capacity
WholeElements == 1 + head \div ElementSize

UnwrappedBlock(n) ==
    [i \in 0 .. n - 1 |-> IF head # InvalidIndex /\ i < WholeElements THEN memory[i]
                                                                      ELSE Garbage]
WrappedBlockHeadFirst(n) ==
    [i \in 0 .. n - 1 |-> IF i < elementsInside THEN memory[i] ELSE Garbage]
WrappedBlock(n) ==
    [i \in 0 .. n - 1 |-> IF i < elementsInside THEN memory[Around(GetTailIndex + i)]
                                                ELSE Garbage]

Resize(n) ==
    /\ n >= elementsInside
    /\ Wrapped \/ n > head
    /\ capacity' = n
    /\ memory' = IF Wrapped THEN WrappedBlock(n) ELSE UnwrappedBlock(n)
    /\ head' = IF Wrapped THEN elementsInside - 1 ELSE head
    /\ UNCHANGED <<elementsInside, result>>

RingNext ==
    \/ \E v \in Values : PushBack(v) \/ PushFront(v)
    \/ PushRefused
    \/ PopFront \/ PopBack \/ PopNothing
    \/ Clear
    \/ \E n \in 1 .. MaxCapacity : Resize(n)

RingSpec == RingInit /\ [][RingNext]_ringVars

\* LookAtIndex: does it return a pointer, rather than nullptr?
LookAtIndexStrict(index) ==
    /\ index < capacity /\ elementsInside > 0
    /\ ~(index < GetTailIndex /\ index > head)
    /\ ~(index > GetTailIndex /\ index > head)
LookAtIndex(index) ==
    /\ index < capacity /\ elementsInside > 0
    /\ ~(index < GetTailIndex /\ index > head)
    /\ ~(index > GetTailIndex /\ index > head /\ GetTailIndex <= head)

-----------------------------------------------------------------------------
\* The indices are of the block, and no element is counted that has no slot.
RingTypeOK ==
    /\ capacity \in 1 .. MaxCapacity
    /\ memory \in [0 .. capacity - 1 -> Values \cup {Garbage}]
    /\ elementsInside \in 0 .. capacity
    /\ head \in 0 .. capacity - 1 \cup {InvalidIndex}
    /\ result \in Values \cup {Default, Garbage}

\* head and elementsInside, which every operation updates apart, agree on
\* whether there is anything inside.
HeadTellsEmpty == head = InvalidIndex <=> elementsInside = 0

\* The slots in use, from the back to the front.
SlotOf(k) == Around(GetTailIndex + k - 1)
Contents == [k \in 1 .. elementsInside |-> memory[SlotOf(k)]]

\* Whatever wraps and wherever head has got to, the buffer is a deque: in
\* both directions elements come out as they went in.
Deque == INSTANCE AbstractDeque WITH items <- Contents, room <- capacity, popped <- result
RingImplements == Deque!AbsSpec

\* A resize loses nothing where elements are bytes, where they wrap and where
\* only the first slot counts: that is where the bytes copied are enough.
ResizeKeeps ==
    [][\A n \in 1 .. MaxCapacity :
        Resize(n) /\ (ElementSize = 1 \/ Wrapped \/ head <= 0) => Contents' = Contents]_ringVars

\* LookAtIndex finds every element.  (It finds more: slots below the tail.)
LookFindsAll == \A k \in 1 .. elementsInside : LookAtIndex(SlotOf(k))
=============================================================================
