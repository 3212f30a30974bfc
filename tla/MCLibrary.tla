------------------------------ MODULE MCLibrary ------------------------------
(* The library's ring buffer and its memory handles know nothing of each   *)
(* other: a behaviour uses the one or the others.                          *)
EXTENDS RingBuffer, Handles

VARIABLE used
libraryVars == <<ringVars, handleVars, used>>

Parts == {"RingBuffer", "Handles"}

Init ==
    /\ RingInit /\ HandlesInit
    /\ used \in Parts /\ (used = "Handles" => capacity = 1)
UseRingBuffer == used = "RingBuffer" /\ RingNext /\ UNCHANGED <<handleVars, used>>
UseHandles == used = "Handles" /\ HandlesNext /\ UNCHANGED <<ringVars, used>>
Next == UseRingBuffer \/ UseHandles

Spec == Init /\ [][Next]_libraryVars

\* Of two bytes each (ElementSize).
Elements == {1, 2}
=============================================================================
