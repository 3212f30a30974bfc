---------------------------- MODULE AbstractDeque ----------------------------
(***************************************************************************)
(* What a user of spnet::Containers::RingBuffer gets: a double-ended queue *)
(* with room for so many elements.  A push into a full one is refused, a   *)
(* pop of an empty one returns a default value, if its caller is lucky.    *)
(*                                                                         *)
(* A resize keeps the number of elements, but it may lose what some of     *)
(* those at the front were.                                                *)
(***************************************************************************)
EXTENDS Integers, Sequences

CONSTANTS Values, Garbage, Default, MaxCapacity

VARIABLES items,   \* the one at the back first
          room, popped

avars == <<items, room, popped>>

AbsInit == items = <<>> /\ room \in 1 .. MaxCapacity /\ popped = Default

AddBack(v) ==
    /\ Len(items) < room
    /\ items' = <<v>> \o items /\ UNCHANGED <<room, popped>>

AddFront(v) ==
    /\ Len(items) < room
    /\ items' = Append(items, v) /\ UNCHANGED <<room, popped>>

TakeFront ==
    /\ items # <<>>
    /\ popped' = items[Len(items)] /\ items' = SubSeq(items, 1, Len(items) - 1)
    /\ UNCHANGED room

TakeBack ==
    /\ items # <<>>
    /\ popped' = Head(items) /\ items' = Tail(items)
    /\ UNCHANGED room

TakeNothing ==
    /\ items = <<>>
    /\ popped' \in {Default, Garbage} /\ UNCHANGED <<items, room>>

Empty == items' = <<>> /\ UNCHANGED <<room, popped>>

Regrow(n, kept) ==
    /\ n >= Len(items) /\ room' = n
    /\ items' = [k \in DOMAIN items |-> IF k <= kept THEN items[k] ELSE Garbage]
    /\ UNCHANGED popped

AbsNext ==
    \/ \E v \in Values : AddBack(v) \/ AddFront(v)
    \/ TakeFront \/ TakeBack \/ TakeNothing \/ Empty
    \/ \E n \in 1 .. MaxCapacity, kept \in 0 .. MaxCapacity : Regrow(n, kept)

AbsSpec == AbsInit /\ [][AbsNext]_avars
=============================================================================
