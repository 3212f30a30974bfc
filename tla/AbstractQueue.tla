--------------------------- MODULE AbstractQueue ---------------------------
(***************************************************************************)
(* What a user of spnet::THSQueue is promised: a double-ended queue whose  *)
(* operations are atomic.  `deq` is the content, `got` the element the     *)
(* last pop returned.  A pop is only possible when there is an element to  *)
(* return, so an implementation of this specification never pops an empty  *)
(* std::deque, loses no element, invents none and reorders none.           *)
(***************************************************************************)
EXTENDS Integers, Sequences

CONSTANTS Items,      \* the elements that may be queued
          NoItem,     \* `got` before the first pop
          PushEnds,   \* which of push_back ("back") and push_front ("front")
          PopEnds     \* which of pop_front ("front") and pop_back ("back")

VARIABLES deq, got

avars == <<deq, got>>

AbsInit == deq = <<>> /\ got = NoItem

AbsPush(item, end) ==
    /\ deq' = IF end = "back" THEN Append(deq, item) ELSE <<item>> \o deq
    /\ UNCHANGED got

AbsPop(end) ==
    /\ deq # <<>>
    /\ IF end = "front"
       THEN got' = Head(deq) /\ deq' = Tail(deq)
       ELSE got' = deq[Len(deq)] /\ deq' = SubSeq(deq, 1, Len(deq) - 1)

AbsNext ==
    \/ \E item \in Items, end \in PushEnds : AbsPush(item, end)
    \/ \E end \in PopEnds : AbsPop(end)

AbsSpec == AbsInit /\ [][AbsNext]_avars
=============================================================================
