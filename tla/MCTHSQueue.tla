----------------------------- MODULE MCTHSQueue -----------------------------
(***************************************************************************)
(* THSQueue for TLC: two pushing threads, two distinguishable elements.    *)
(***************************************************************************)
EXTENDS THSQueue

CONSTANTS p1, p2, a, b

Pushers == {p1, p2}
\* The game's queues have one pushing thread, the one that runs the io_context.
AsioThread == {p1}
Elements == {a, b}
BothEnds == {"front", "back"}
BackOnly == {"back"}
FrontOnly == {"front"}
=============================================================================
