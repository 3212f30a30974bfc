--------------------------- MODULE THSQueueProofs ---------------------------
(***************************************************************************)
(* For any number of pushing threads and any elements: THSQueue keeps its  *)
(* lock discipline, never pops an empty deque, and implements the atomic   *)
(* deque of AbstractQueue.  IInv is inductive; everything follows from it. *)
(***************************************************************************)
EXTENDS THSQueue, SequenceTheorems, TLAPS

USE ThreadAssumption, ItemAssumption, EndAssumption DEF Threads

\* What push_back and push_front store is again a sequence of elements.
LEMMA PushKeepsType ==
    ASSUME NEW s \in Seq(Items), NEW x \in Items
    PROVE  Append(s, x) \in Seq(Items) /\ <<x>> \o s \in Seq(Items)
  OBVIOUS

\* A pop of a non-empty deque returns one of its elements and leaves the rest.
LEMMA PopKeepsType ==
    ASSUME NEW s \in Seq(Items), s # <<>>
    PROVE  /\ Head(s) \in Items /\ Tail(s) \in Seq(Items)
           /\ s[Len(s)] \in Items /\ SubSeq(s, 1, Len(s) - 1) \in Seq(Items)
<1>1. Len(s) \in Nat \ {0}
  BY EmptySeq
<1>2. Head(s) \in Items /\ Tail(s) \in Seq(Items)
  OBVIOUS
<1>3. s[Len(s)] \in Items
  BY <1>1, ElementOfSeq
<1>4. SubSeq(s, 1, Len(s) - 1) \in Seq(Items)
  <2>1. \A i \in 1 .. Len(s) - 1 : s[i] \in Items
    BY <1>1, ElementOfSeq
  <2> QED BY <1>1, <2>1
<1> QED BY <1>2, <1>3, <1>4

\* A push leaves no empty deque behind.
LEMMA PushNonEmpty ==
    ASSUME NEW s \in Seq(Items), NEW x \in Items
    PROVE  Append(s, x) # <<>> /\ <<x>> \o s # <<>>
  OBVIOUS

\* The initial state satisfies the inductive invariant.
LEMMA InitIInv == Init => IInv
<1> SUFFICES ASSUME Init PROVE IInv
  OBVIOUS
<1>1. TypeOK
  BY DEF Init, TypeOK, ProducerLabels, ConsumerLabels
<1>2. MutualExclusion
  BY DEF Init, MutualExclusion, HoldsQueue, HoldsBlocking
<1>3. LoadIsCurrent /\ PopHasElement
  BY DEF Init, LoadIsCurrent, PopHasElement
<1> QED BY <1>1, <1>2, <1>3 DEF IInv

\* Taking muxQueue preserves the invariant.
LEMMA LockQueueIInv ==
    ASSUME IInv, NEW t \in Threads, LockQueue(t)
    PROVE  IInv'
<1> USE DEF IInv, LockQueue, At, Goto, LockTarget
<1>1. TypeOK'
  <2>1. CASE pc[t] = "push"
    BY <2>1 DEF TypeOK, ProducerLabels, ConsumerLabels
  <2>2. CASE pc[t] # "push"
    <3>1. t = Consumer
      BY <2>2 DEF TypeOK, ProducerLabels
    <3>2. LockTarget[pc[t]] \in {"test", "update_test", "pop_load"}
      BY <2>2
    <3> QED BY <3>1, <3>2 DEF TypeOK, ProducerLabels, ConsumerLabels
  <2> QED BY <2>1, <2>2
<1>2. MutualExclusion'
  BY DEF TypeOK, MutualExclusion, HoldsQueue, HoldsBlocking
<1>3. LoadIsCurrent'
  BY DEF TypeOK, MutualExclusion, HoldsQueue, LoadIsCurrent
<1>4. PopHasElement'
  BY DEF TypeOK, MutualExclusion, HoldsQueue, LoadIsCurrent, PopHasElement
<1> QED BY <1>1, <1>2, <1>3, <1>4

\* Calling push preserves the invariant.
LEMMA StartPushIInv ==
    ASSUME IInv, NEW p \in Producers, NEW item \in Items, NEW end \in PushEnds,
           StartPush(p, item, end)
    PROVE  IInv'
<1> USE DEF IInv, StartPush, At, Goto
<1>1. TypeOK'
  BY DEF TypeOK, ProducerLabels, ConsumerLabels
<1>2. MutualExclusion'
  BY DEF TypeOK, MutualExclusion, HoldsQueue, HoldsBlocking
<1>3. LoadIsCurrent'
  BY DEF TypeOK, MutualExclusion, HoldsQueue, LoadIsCurrent
<1>4. PopHasElement'
  BY DEF TypeOK, MutualExclusion, HoldsQueue, LoadIsCurrent, PopHasElement
<1> QED BY <1>1, <1>2, <1>3, <1>4

\* Reading the deque preserves the invariant.
LEMMA EmplaceLoadIInv ==
    ASSUME IInv, NEW p \in Producers, EmplaceLoad(p)
    PROVE  IInv'
<1> USE DEF IInv, EmplaceLoad, At, Goto
<1>1. TypeOK'
  BY DEF TypeOK, ProducerLabels, ConsumerLabels
<1>2. MutualExclusion'
  BY DEF TypeOK, MutualExclusion, HoldsQueue, HoldsBlocking
<1>3. LoadIsCurrent'
  BY DEF TypeOK, MutualExclusion, HoldsQueue, LoadIsCurrent
<1>4. PopHasElement'
  BY DEF TypeOK, MutualExclusion, HoldsQueue, LoadIsCurrent, PopHasElement
<1> QED BY <1>1, <1>2, <1>3, <1>4

\* Storing the pushed element preserves the invariant.
LEMMA EmplaceStoreIInv ==
    ASSUME IInv, NEW p \in Producers, EmplaceStore(p)
    PROVE  IInv'
<1> USE DEF IInv, EmplaceStore, At, Goto
<1>1. TypeOK'
  BY PushKeepsType DEF TypeOK, ProducerLabels, ConsumerLabels
<1>2. MutualExclusion'
  BY DEF TypeOK, MutualExclusion, HoldsQueue, HoldsBlocking
<1>3. LoadIsCurrent'
  BY DEF TypeOK, MutualExclusion, HoldsQueue, LoadIsCurrent
<1>4. PopHasElement'
  BY PushKeepsType, PushNonEmpty DEF TypeOK, MutualExclusion, HoldsQueue, LoadIsCurrent, PopHasElement
<1> QED BY <1>1, <1>2, <1>3, <1>4

\* Taking muxBlocking preserves the invariant.
LEMMA LockBlockingIInv ==
    ASSUME IInv, NEW p \in Producers, LockBlocking(p)
    PROVE  IInv'
<1> USE DEF IInv, LockBlocking, At, Goto
<1>1. TypeOK'
  BY DEF TypeOK, ProducerLabels, ConsumerLabels
<1>2. MutualExclusion'
  BY DEF TypeOK, MutualExclusion, HoldsQueue, HoldsBlocking
<1>3. LoadIsCurrent'
  BY DEF TypeOK, MutualExclusion, HoldsQueue, LoadIsCurrent
<1>4. PopHasElement'
  BY DEF TypeOK, MutualExclusion, HoldsQueue, LoadIsCurrent, PopHasElement
<1> QED BY <1>1, <1>2, <1>3, <1>4

\* notify_one preserves the invariant.
LEMMA NotifyIInv ==
    ASSUME IInv, NEW p \in Producers, Notify(p)
    PROVE  IInv'
<1> USE DEF IInv, Notify, At, Goto
<1>1. TypeOK'
  BY DEF TypeOK, ProducerLabels, ConsumerLabels
<1>2. MutualExclusion'
  BY DEF TypeOK, MutualExclusion, HoldsQueue, HoldsBlocking
<1>3. LoadIsCurrent'
  BY DEF TypeOK, MutualExclusion, HoldsQueue, LoadIsCurrent
<1>4. PopHasElement'
  BY DEF TypeOK, MutualExclusion, HoldsQueue, LoadIsCurrent, PopHasElement
<1> QED BY <1>1, <1>2, <1>3, <1>4

\* Releasing muxBlocking preserves the invariant.
LEMMA UnlockBlockingIInv ==
    ASSUME IInv, NEW p \in Producers, UnlockBlocking(p)
    PROVE  IInv'
<1> USE DEF IInv, UnlockBlocking, At, Goto
<1>1. TypeOK'
  BY DEF TypeOK, ProducerLabels, ConsumerLabels
<1>2. MutualExclusion'
  BY DEF TypeOK, MutualExclusion, HoldsQueue, HoldsBlocking
<1>3. LoadIsCurrent'
  BY DEF TypeOK, MutualExclusion, HoldsQueue, LoadIsCurrent
<1>4. PopHasElement'
  BY DEF TypeOK, MutualExclusion, HoldsQueue, LoadIsCurrent, PopHasElement
<1> QED BY <1>1, <1>2, <1>3, <1>4

\* Releasing muxQueue preserves the invariant.
LEMMA UnlockQueueIInv ==
    ASSUME IInv, NEW p \in Producers, UnlockQueue(p)
    PROVE  IInv'
<1> USE DEF IInv, UnlockQueue, At, Goto
<1>1. TypeOK'
  BY DEF TypeOK, ProducerLabels, ConsumerLabels
<1>2. MutualExclusion'
  BY DEF TypeOK, MutualExclusion, HoldsQueue, HoldsBlocking
<1>3. LoadIsCurrent'
  BY DEF TypeOK, MutualExclusion, HoldsQueue, LoadIsCurrent
<1>4. PopHasElement'
  BY DEF TypeOK, MutualExclusion, HoldsQueue, LoadIsCurrent, PopHasElement
<1> QED BY <1>1, <1>2, <1>3, <1>4

\* The emptiness test of wait() preserves the invariant.
LEMMA WaitTestIInv ==
    ASSUME IInv, WaitTest
    PROVE  IInv'
<1> USE DEF IInv, WaitTest, At, Goto
<1>1. TypeOK'
  BY DEF TypeOK, ProducerLabels, ConsumerLabels
<1>2. MutualExclusion'
  BY DEF TypeOK, MutualExclusion, HoldsQueue, HoldsBlocking
<1>3. LoadIsCurrent'
  BY DEF TypeOK, MutualExclusion, HoldsQueue, LoadIsCurrent
<1>4. PopHasElement'
  BY DEF TypeOK, MutualExclusion, HoldsQueue, LoadIsCurrent, PopHasElement
<1> QED BY <1>1, <1>2, <1>3, <1>4

\* Locking before the sleep preserves the invariant.
LEMMA WaitLockIInv ==
    ASSUME IInv, WaitLock
    PROVE  IInv'
<1> USE DEF IInv, WaitLock, At, Goto
<1>1. TypeOK'
  BY DEF TypeOK, ProducerLabels, ConsumerLabels
<1>2. MutualExclusion'
  BY DEF TypeOK, MutualExclusion, HoldsQueue, HoldsBlocking
<1>3. LoadIsCurrent'
  BY DEF TypeOK, MutualExclusion, HoldsQueue, LoadIsCurrent
<1>4. PopHasElement'
  BY DEF TypeOK, MutualExclusion, HoldsQueue, LoadIsCurrent, PopHasElement
<1> QED BY <1>1, <1>2, <1>3, <1>4

\* Falling asleep preserves the invariant.
LEMMA BlockIInv ==
    ASSUME IInv, Block
    PROVE  IInv'
<1> USE DEF IInv, Block, At, Goto
<1>1. TypeOK'
  BY DEF TypeOK, ProducerLabels, ConsumerLabels
<1>2. MutualExclusion'
  BY DEF TypeOK, MutualExclusion, HoldsQueue, HoldsBlocking
<1>3. LoadIsCurrent'
  BY DEF TypeOK, MutualExclusion, HoldsQueue, LoadIsCurrent
<1>4. PopHasElement'
  BY DEF TypeOK, MutualExclusion, HoldsQueue, LoadIsCurrent, PopHasElement
<1> QED BY <1>1, <1>2, <1>3, <1>4

\* A spurious wake-up preserves the invariant.
LEMMA SpuriousWakeUpIInv ==
    ASSUME IInv, SpuriousWakeUp
    PROVE  IInv'
<1> USE DEF IInv, SpuriousWakeUp, At, Goto
<1>1. TypeOK'
  BY DEF TypeOK, ProducerLabels, ConsumerLabels
<1>2. MutualExclusion'
  BY DEF TypeOK, MutualExclusion, HoldsQueue, HoldsBlocking
<1>3. LoadIsCurrent'
  BY DEF TypeOK, MutualExclusion, HoldsQueue, LoadIsCurrent
<1>4. PopHasElement'
  BY DEF TypeOK, MutualExclusion, HoldsQueue, LoadIsCurrent, PopHasElement
<1> QED BY <1>1, <1>2, <1>3, <1>4

\* Waking up preserves the invariant.
LEMMA RelockIInv ==
    ASSUME IInv, Relock
    PROVE  IInv'
<1> USE DEF IInv, Relock, At, Goto
<1>1. TypeOK'
  BY DEF TypeOK, ProducerLabels, ConsumerLabels
<1>2. MutualExclusion'
  BY DEF TypeOK, MutualExclusion, HoldsQueue, HoldsBlocking
<1>3. LoadIsCurrent'
  BY DEF TypeOK, MutualExclusion, HoldsQueue, LoadIsCurrent
<1>4. PopHasElement'
  BY DEF TypeOK, MutualExclusion, HoldsQueue, LoadIsCurrent, PopHasElement
<1> QED BY <1>1, <1>2, <1>3, <1>4

\* Leaving the loop body of wait() preserves the invariant.
LEMMA LeaveWaitIInv ==
    ASSUME IInv, LeaveWait
    PROVE  IInv'
<1> USE DEF IInv, LeaveWait, At, Goto
<1>1. TypeOK'
  BY DEF TypeOK, ProducerLabels, ConsumerLabels
<1>2. MutualExclusion'
  BY DEF TypeOK, MutualExclusion, HoldsQueue, HoldsBlocking
<1>3. LoadIsCurrent'
  BY DEF TypeOK, MutualExclusion, HoldsQueue, LoadIsCurrent
<1>4. PopHasElement'
  BY DEF TypeOK, MutualExclusion, HoldsQueue, LoadIsCurrent, PopHasElement
<1> QED BY <1>1, <1>2, <1>3, <1>4

\* The emptiness test of Update preserves the invariant.
LEMMA UpdateTestIInv ==
    ASSUME IInv, UpdateTest
    PROVE  IInv'
<1> USE DEF IInv, UpdateTest, At, Goto
<1>1. TypeOK'
  BY DEF TypeOK, ProducerLabels, ConsumerLabels
<1>2. MutualExclusion'
  BY DEF TypeOK, MutualExclusion, HoldsQueue, HoldsBlocking
<1>3. LoadIsCurrent'
  BY DEF TypeOK, MutualExclusion, HoldsQueue, LoadIsCurrent
<1>4. PopHasElement'
  BY DEF TypeOK, MutualExclusion, HoldsQueue, LoadIsCurrent, PopHasElement
<1> QED BY <1>1, <1>2, <1>3, <1>4

\* Reading the deque to pop preserves the invariant.
LEMMA PopLoadIInv ==
    ASSUME IInv, PopLoad
    PROVE  IInv'
<1> USE DEF IInv, PopLoad, At, Goto
<1>1. TypeOK'
  BY DEF TypeOK, ProducerLabels, ConsumerLabels
<1>2. MutualExclusion'
  BY DEF TypeOK, MutualExclusion, HoldsQueue, HoldsBlocking
<1>3. LoadIsCurrent'
  BY DEF TypeOK, MutualExclusion, HoldsQueue, LoadIsCurrent
<1>4. PopHasElement'
  BY DEF TypeOK, MutualExclusion, HoldsQueue, LoadIsCurrent, PopHasElement
<1> QED BY <1>1, <1>2, <1>3, <1>4

\* Storing what the pop leaves preserves the invariant.
LEMMA PopStoreIInv ==
    ASSUME IInv, NEW end \in PopEnds, PopStore(end)
    PROVE  IInv'
<1> USE DEF IInv, PopStore, At, Goto
<1>0. load[Consumer] \in Seq(Items) /\ load[Consumer] # <<>>
  BY DEF TypeOK, LoadIsCurrent, PopHasElement
<1>1. TypeOK'
  <2>1. /\ Head(load[Consumer]) \in Items /\ Tail(load[Consumer]) \in Seq(Items)
        /\ load[Consumer][Len(load[Consumer])] \in Items
        /\ SubSeq(load[Consumer], 1, Len(load[Consumer]) - 1) \in Seq(Items)
    BY <1>0, PopKeepsType
  <2>2. deq' \in Seq(Items) /\ got' \in Items
    <3>1. CASE end = "front"
      BY <2>1, <3>1
    <3>2. CASE end # "front"
      BY <2>1, <3>2
    <3> QED BY <3>1, <3>2
  <2> QED BY <2>2 DEF TypeOK, ProducerLabels, ConsumerLabels
<1>2. MutualExclusion'
  BY DEF TypeOK, MutualExclusion, HoldsQueue, HoldsBlocking
<1>3. LoadIsCurrent'
  BY DEF TypeOK, MutualExclusion, HoldsQueue, LoadIsCurrent
<1>4. PopHasElement'
  BY DEF TypeOK, MutualExclusion, HoldsQueue, LoadIsCurrent, PopHasElement
<1> QED BY <1>1, <1>2, <1>3, <1>4

\* Releasing muxQueue after the pop preserves the invariant.
LEMMA PopUnlockIInv ==
    ASSUME IInv, PopUnlock
    PROVE  IInv'
<1> USE DEF IInv, PopUnlock, At, Goto
<1>1. TypeOK'
  BY DEF TypeOK, ProducerLabels, ConsumerLabels
<1>2. MutualExclusion'
  BY DEF TypeOK, MutualExclusion, HoldsQueue, HoldsBlocking
<1>3. LoadIsCurrent'
  BY DEF TypeOK, MutualExclusion, HoldsQueue, LoadIsCurrent
<1>4. PopHasElement'
  BY DEF TypeOK, MutualExclusion, HoldsQueue, LoadIsCurrent, PopHasElement
<1> QED BY <1>1, <1>2, <1>3, <1>4

\* Every step preserves the inductive invariant.
LEMMA NextIInv == IInv /\ [Next]_vars => IInv'
<1> SUFFICES ASSUME IInv, [Next]_vars PROVE IInv'
  OBVIOUS
<1>1. CASE UNCHANGED vars
  BY <1>1 DEF vars, IInv, TypeOK, MutualExclusion, LoadIsCurrent, PopHasElement
<1>2. ASSUME NEW p \in Producers, CallPush(p) PROVE IInv'
  BY <1>2, StartPushIInv DEF CallPush
<1>3. ASSUME NEW p \in Producers, PushStep(p) PROVE IInv'
  BY <1>3, LockQueueIInv, EmplaceLoadIInv, EmplaceStoreIInv, LockBlockingIInv,
     NotifyIInv, UnlockBlockingIInv, UnlockQueueIInv DEF PushStep
<1>4. CASE ConsumerStep
  BY <1>4, LockQueueIInv, WaitTestIInv, WaitLockIInv, BlockIInv, RelockIInv,
     LeaveWaitIInv, UpdateTestIInv, PopLoadIInv, PopStoreIInv, PopUnlockIInv
     DEF ConsumerStep
<1>5. CASE SpuriousWakeUp
  BY <1>5, SpuriousWakeUpIInv
<1> QED BY <1>1, <1>2, <1>3, <1>4, <1>5 DEF Next

\* IInv holds in every reachable state.
THEOREM Invariance == Spec => []IInv
  BY InitIInv, NextIInv, PTL DEF Spec

\* Every variable keeps its type (spThreadSafeQueue.h:98-102).
THEOREM TypeCorrect == Spec => []TypeOK
<1>1. IInv => TypeOK
  BY DEF IInv
<1> QED BY Invariance, <1>1, PTL

\* At most one thread is inside an operation on the deque: the scoped_lock of
\* every operation (spThreadSafeQueue.h:19-85) excludes all others, and the
\* unique_lock on muxBlocking excludes notifying while the consumer goes to
\* sleep.
THEOREM LocksExclude == Spec => []MutualExclusion
<1>1. IInv => MutualExclusion
  BY DEF IInv
<1> QED BY Invariance, <1>1, PTL

\* The deque an operation read is the deque it writes back.
THEOREM LoadsStayCurrent == Spec => []LoadIsCurrent
<1>1. IInv => LoadIsCurrent
  BY DEF IInv
<1> QED BY Invariance, <1>1, PTL

\* Update never pops an empty deque, although it tests and pops under two
\* separate locks (spiderNet.h:651-654): with one consumer nobody else pops.
THEOREM PopsFindElement == Spec => []PopHasElement
<1>1. IInv => PopHasElement
  BY DEF IInv
<1> QED BY Invariance, <1>1, PTL

-----------------------------------------------------------------------------
(* Refinement: only EmplaceStore and PopStore are visible to the user of   *)
(* the queue.                                                              *)

\* A store of a pushed element is the abstract push.
LEMMA EmplaceStoreIsPush ==
    ASSUME IInv, NEW p \in Producers, EmplaceStore(p)
    PROVE  Abs!AbsPush(arg[p][1], arg[p][2])
<1>1. load[p] = deq
  BY DEF IInv, LoadIsCurrent, EmplaceStore, At
<1> QED BY <1>1 DEF EmplaceStore, Abs!AbsPush

\* A store of a popped deque is the abstract pop.
LEMMA PopStoreIsPop ==
    ASSUME IInv, NEW end \in PopEnds, PopStore(end)
    PROVE  Abs!AbsPop(end)
<1>1. load[Consumer] = deq /\ deq # <<>>
  BY DEF IInv, LoadIsCurrent, PopHasElement, PopStore, At
<1> QED BY <1>1 DEF PopStore, Abs!AbsPop

\* Every step is an abstract push, an abstract pop or invisible.
LEMMA StepRefines == IInv /\ [Next]_vars => [Abs!AbsNext]_(Abs!avars)
<1> SUFFICES ASSUME IInv, [Next]_vars PROVE [Abs!AbsNext]_(Abs!avars)
  OBVIOUS
<1> USE DEF Abs!avars
<1>1. CASE UNCHANGED vars
  BY <1>1 DEF vars
<1>2. ASSUME NEW p \in Producers, CallPush(p) PROVE UNCHANGED <<deq, got>>
  BY <1>2 DEF CallPush, StartPush
<1>3. ASSUME NEW p \in Producers, PushStep(p) PROVE [Abs!AbsNext]_(Abs!avars)
  <2>1. CASE EmplaceStore(p)
    <3>1. arg[p][1] \in Items /\ arg[p][2] \in PushEnds
      BY DEF IInv, TypeOK
    <3> QED BY <2>1, <3>1, EmplaceStoreIsPush DEF Abs!AbsNext
  <2>2. CASE ~EmplaceStore(p)
    BY <1>3, <2>2 DEF PushStep, LockQueue, EmplaceLoad, LockBlocking, Notify,
                      UnlockBlocking, UnlockQueue
  <2> QED BY <2>1, <2>2
<1>4. CASE ConsumerStep
  <2>1. ASSUME NEW end \in PopEnds, PopStore(end) PROVE [Abs!AbsNext]_(Abs!avars)
    BY <2>1, PopStoreIsPop DEF Abs!AbsNext
  <2>2. CASE ~ \E end \in PopEnds : PopStore(end)
    BY <1>4, <2>2 DEF ConsumerStep, LockQueue, WaitTest, WaitLock, Block, Relock,
                      LeaveWait, UpdateTest, PopLoad, PopUnlock
  <2> QED BY <2>1, <2>2
<1>5. CASE SpuriousWakeUp
  BY <1>5 DEF SpuriousWakeUp
<1> QED BY <1>1, <1>2, <1>3, <1>4, <1>5 DEF Next

\* THSQueue implements the atomic double-ended queue.
THEOREM QueueRefinement == Spec => Implements
<1>1. Init => Abs!AbsInit
  BY DEF Init, Abs!AbsInit
<1> QED BY <1>1, StepRefines, Invariance, PTL DEF Spec, Implements, Abs!AbsSpec
=============================================================================
