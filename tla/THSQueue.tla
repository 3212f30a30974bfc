------------------------------ MODULE THSQueue ------------------------------
(***************************************************************************)
(* spnet::THSQueue (SpNetCommon/src/spThreadSafeQueue.h), lock by lock:    *)
(* the queue between the asio thread, which pushes incoming messages, and  *)
(* the game thread, which runs server_interface::Update(-1, true) in a     *)
(* loop (spiderNet.h:644, GameServer.cpp:338).                             *)
(*                                                                         *)
(* std::deque is not atomic: an operation on it is a load of the container *)
(* followed by a store, so that only muxQueue makes it indivisible.  cv    *)
(* waiting is modelled as the C++ standard has it, spurious wake-ups       *)
(* included.                                                               *)
(***************************************************************************)
EXTENDS Integers, Sequences

CONSTANTS Producers,  \* threads that push
          Consumer,   \* the thread that runs Update
          NoThread,   \* owner of a free mutex
          Items, NoItem,
          PushEnds, PopEnds,
          Cap         \* bound: no push starts on a queue of this length

ASSUME ThreadAssumption ==
    Consumer \notin Producers /\ NoThread \notin Producers \cup {Consumer}
ASSUME ItemAssumption == NoItem \notin Items
ASSUME EndAssumption ==
    PushEnds \subseteq {"front", "back"} /\ PopEnds \subseteq {"front", "back"}
ASSUME CapAssumption == Cap \in Nat \ {0}

VARIABLES
    deq,           \* deqQueue
    muxQueue,      \* owner of muxQueue
    muxBlocking,   \* owner of muxBlocking
    cvBlocking,    \* threads blocked in cvBlocking.wait
    pc,            \* program counter of each thread
    load,          \* the container as the thread's running operation read it
    arg,           \* a producer's pending push: element and end
    got            \* what the consumer's last pop returned

vars == <<deq, muxQueue, muxBlocking, cvBlocking, pc, load, arg, got>>

Threads == Producers \cup {Consumer}

At(t, l) == pc[t] = l
Goto(t, l) == pc' = [pc EXCEPT ![t] = l]

Init ==
    /\ deq = <<>>
    /\ muxQueue = NoThread /\ muxBlocking = NoThread
    /\ cvBlocking = {}
    /\ pc = [t \in Threads |-> IF t = Consumer THEN "wait" ELSE "idle"]
    /\ load = [t \in Threads |-> <<>>]
    /\ arg \in [Producers -> Items \X PushEnds]
    /\ got = NoItem

-----------------------------------------------------------------------------
(* scoped_lock lock(muxQueue): the first line of every operation.          *)
LockTarget == [push |-> "load", wait |-> "test",
               update |-> "update_test", pop |-> "pop_load"]

NoLockQueue(t) ==
    /\ pc[t] \in DOMAIN LockTarget
    /\ muxQueue' = t
    /\ Goto(t, LockTarget[pc[t]])
    /\ UNCHANGED <<deq, muxBlocking, cvBlocking, load, arg, got>>

LockQueue(t) ==
    /\ pc[t] \in DOMAIN LockTarget
    /\ muxQueue = NoThread
    /\ muxQueue' = t
    /\ Goto(t, LockTarget[pc[t]])
    /\ UNCHANGED <<deq, muxBlocking, cvBlocking, load, arg, got>>

(* push_back / push_front *)
\* The bound.  Pushes are far slower than the consumer (a client sends every
\* 100 ms), so few of them fall between its emptiness test and its sleep.  A
\* push to a sleeping consumer is not held back: with two producers the
\* queue it sleeps on is at most Cap + 1 long.
MayPush ==
    \/ Len(deq) < Cap
    \/ /\ Consumer \in cvBlocking /\ \A p \in Producers : At(p, "idle")
       /\ Len(deq) < Cap + 2

StartPush(p, item, end) ==
    /\ At(p, "idle") /\ MayPush
    /\ arg' = [arg EXCEPT ![p] = <<item, end>>]
    /\ Goto(p, "push")
    /\ UNCHANGED <<deq, muxQueue, muxBlocking, cvBlocking, load, got>>

EmplaceLoad(p) ==
    /\ At(p, "load")
    /\ load' = [load EXCEPT ![p] = deq]
    /\ Goto(p, "store")
    /\ UNCHANGED <<deq, muxQueue, muxBlocking, cvBlocking, arg, got>>

EmplaceStore(p) ==
    /\ At(p, "store")
    /\ deq' = IF arg[p][2] = "back" THEN Append(load[p], arg[p][1])
                                    ELSE <<arg[p][1]>> \o load[p]
    /\ Goto(p, "lock_blocking")
    /\ UNCHANGED <<muxQueue, muxBlocking, cvBlocking, load, arg, got>>

LockBlocking(p) ==
    /\ At(p, "lock_blocking")
    /\ muxBlocking = NoThread
    /\ muxBlocking' = p
    /\ Goto(p, "notify")
    /\ UNCHANGED <<deq, muxQueue, cvBlocking, load, arg, got>>

NotifyNobody(p) ==
    /\ At(p, "notify")
    /\ Goto(p, "unlock_blocking")
    /\ UNCHANGED <<deq, muxQueue, muxBlocking, cvBlocking, load, arg, got>>

\* notify_one: wakes a blocked thread, is lost when there is none.
Notify(p) ==
    /\ At(p, "notify")
    /\ IF cvBlocking = {} THEN UNCHANGED cvBlocking
       ELSE \E t \in cvBlocking : cvBlocking' = cvBlocking \ {t}
    /\ Goto(p, "unlock_blocking")
    /\ UNCHANGED <<deq, muxQueue, muxBlocking, load, arg, got>>

\* Destructors, in the reverse order of declaration: ul, then lock.
UnlockBlocking(p) ==
    /\ At(p, "unlock_blocking")
    /\ muxBlocking' = NoThread
    /\ Goto(p, "unlock_queue")
    /\ UNCHANGED <<deq, muxQueue, cvBlocking, load, arg, got>>

UnlockQueue(p) ==
    /\ At(p, "unlock_queue")
    /\ muxQueue' = NoThread
    /\ Goto(p, "idle")
    /\ UNCHANGED <<deq, muxBlocking, cvBlocking, load, arg, got>>

-----------------------------------------------------------------------------
(* wait(): while (empty()) { unique_lock ul(muxBlocking); cv.wait(ul); }   *)

\* empty() reads under the lock and gives it up before its answer is used.
WaitTest ==
    /\ At(Consumer, "test")
    /\ muxQueue' = NoThread
    /\ Goto(Consumer, IF deq = <<>> THEN "wait_lock" ELSE "update")
    /\ UNCHANGED <<deq, muxBlocking, cvBlocking, load, arg, got>>

WaitLock ==
    /\ At(Consumer, "wait_lock")
    /\ muxBlocking = NoThread
    /\ muxBlocking' = Consumer
    /\ Goto(Consumer, "block")
    /\ UNCHANGED <<deq, muxQueue, cvBlocking, load, arg, got>>

\* cvBlocking.wait releases ul and blocks in one step.
Block ==
    /\ At(Consumer, "block")
    /\ muxBlocking' = NoThread
    /\ cvBlocking' = cvBlocking \cup {Consumer}
    /\ Goto(Consumer, "asleep")
    /\ UNCHANGED <<deq, muxQueue, load, arg, got>>

SpuriousWakeUp ==
    /\ At(Consumer, "asleep") /\ Consumer \in cvBlocking
    /\ cvBlocking' = cvBlocking \ {Consumer}
    /\ UNCHANGED <<deq, muxQueue, muxBlocking, pc, load, arg, got>>

Relock ==
    /\ At(Consumer, "asleep") /\ Consumer \notin cvBlocking
    /\ muxBlocking = NoThread
    /\ muxBlocking' = Consumer
    /\ Goto(Consumer, "awake")
    /\ UNCHANGED <<deq, muxQueue, cvBlocking, load, arg, got>>

LeaveWait ==
    /\ At(Consumer, "awake")
    /\ muxBlocking' = NoThread
    /\ Goto(Consumer, "wait")
    /\ UNCHANGED <<deq, muxQueue, cvBlocking, load, arg, got>>

-----------------------------------------------------------------------------
(* Update's loop: while (!empty()) { pop_front(); OnMessage(...); }        *)

UpdateNoTest ==
    /\ At(Consumer, "update_test")
    /\ muxQueue' = NoThread
    /\ Goto(Consumer, "pop")
    /\ UNCHANGED <<deq, muxBlocking, cvBlocking, load, arg, got>>

UpdateTest ==
    /\ At(Consumer, "update_test")
    /\ muxQueue' = NoThread
    /\ Goto(Consumer, IF deq = <<>> THEN "wait" ELSE "pop")
    /\ UNCHANGED <<deq, muxBlocking, cvBlocking, load, arg, got>>

PopLoad ==
    /\ At(Consumer, "pop_load")
    /\ load' = [load EXCEPT ![Consumer] = deq]
    /\ Goto(Consumer, "pop_store")
    /\ UNCHANGED <<deq, muxQueue, muxBlocking, cvBlocking, arg, got>>

PopStoreCount(end) ==
    /\ At(Consumer, "pop_store")
    /\ got' = Len(load[Consumer]) /\ deq' = Tail(load[Consumer])
    /\ Goto(Consumer, "pop_unlock")
    /\ UNCHANGED <<muxQueue, muxBlocking, cvBlocking, load, arg>>

PopStore(end) ==
    /\ At(Consumer, "pop_store")
    /\ LET old == load[Consumer] IN
       IF end = "front"
       THEN got' = Head(old) /\ deq' = Tail(old)
       ELSE got' = old[Len(old)] /\ deq' = SubSeq(old, 1, Len(old) - 1)
    /\ Goto(Consumer, "pop_unlock")
    /\ UNCHANGED <<muxQueue, muxBlocking, cvBlocking, load, arg>>

PopUnlock ==
    /\ At(Consumer, "pop_unlock")
    /\ muxQueue' = NoThread
    /\ Goto(Consumer, "update")
    /\ UNCHANGED <<deq, muxBlocking, cvBlocking, load, arg, got>>

-----------------------------------------------------------------------------
\* A push once it has been called.
PushStep(p) ==
    \/ LockQueue(p) \/ EmplaceLoad(p) \/ EmplaceStore(p)
    \/ LockBlocking(p) \/ Notify(p) \/ UnlockBlocking(p) \/ UnlockQueue(p)

CallPush(p) == \E item \in Items, end \in PushEnds : StartPush(p, item, end)

ConsumerStep ==
    \/ LockQueue(Consumer)
    \/ WaitTest \/ WaitLock \/ Block \/ Relock \/ LeaveWait
    \/ UpdateTest \/ PopLoad \/ (\E end \in PopEnds : PopStore(end)) \/ PopUnlock

Next ==
    \/ \E p \in Producers : CallPush(p) \/ PushStep(p)
    \/ ConsumerStep
    \/ SpuriousWakeUp

Spec == Init /\ [][Next]_vars

\* Threads inside a call go on; nobody need call push again.
Fairness == WF_vars(ConsumerStep) /\ \A p \in Producers : WF_vars(PushStep(p))
FairSpec == Spec /\ Fairness

\* A connected client sends ClientJustCheck every 100 ms for as long as it
\* runs (GameClient.cpp:361-365), so some thread always pushes again.
HeartbeatSpec == FairSpec /\ \A p \in Producers : WF_vars(CallPush(p))

-----------------------------------------------------------------------------
HoldsQueue == {"load", "store", "lock_blocking", "notify", "unlock_blocking",
               "unlock_queue", "test", "update_test", "pop_load", "pop_store",
               "pop_unlock"}
HoldsBlocking == {"notify", "unlock_blocking", "block", "awake"}

ProducerLabels == {"idle", "push", "load", "store", "lock_blocking", "notify",
                   "unlock_blocking", "unlock_queue"}
ConsumerLabels == {"wait", "test", "wait_lock", "block", "asleep", "awake",
                   "update", "update_test", "pop", "pop_load", "pop_store",
                   "pop_unlock"}

\* Every variable has its type; in particular only the consumer ever sleeps
\* on cvBlocking and a pop returns an element that was pushed.
TypeOK ==
    /\ deq \in Seq(Items)
    /\ muxQueue \in Threads \cup {NoThread}
    /\ muxBlocking \in Threads \cup {NoThread}
    /\ cvBlocking \subseteq {Consumer}
    /\ pc \in [Threads -> ProducerLabels \cup ConsumerLabels]
    /\ \A p \in Producers : pc[p] \in ProducerLabels
    /\ pc[Consumer] \in ConsumerLabels
    /\ load \in [Threads -> Seq(Items)]
    /\ arg \in [Producers -> Items \X PushEnds]
    /\ got \in Items \cup {NoItem}

\* A mutex has one owner and it is the thread inside the code it protects.
MutualExclusion ==
    \A t \in Threads : /\ pc[t] \in HoldsQueue <=> muxQueue = t
                       /\ pc[t] \in HoldsBlocking <=> muxBlocking = t

\* What a running operation read of the deque is still what the deque holds:
\* no other thread gets between the load and the store.
LoadIsCurrent ==
    \A t \in Threads : pc[t] \in {"store", "pop_store"} => load[t] = deq

\* Update tests empty() and pops under two separate locks; the deque still
\* has an element when it gets to the pop (pop_front of an empty std::deque
\* is undefined).
PopHasElement ==
    pc[Consumer] \in {"pop", "pop_load", "pop_store"} => deq # <<>>

IInv == TypeOK /\ MutualExclusion /\ LoadIsCurrent /\ PopHasElement

\* The queue implements the atomic deque of AbstractQueue.
Abs == INSTANCE AbstractQueue
Implements == Abs!AbsSpec

\* "Force server to respond to incoming messages" (spiderNet.h:643): a message
\* in the queue is taken out of it, whatever happens afterwards.
MessagesHandled == (deq # <<>>) ~> (At(Consumer, "pop_unlock"))
=============================================================================
