------------------------------ MODULE MCHeap ------------------------------
(* An instance of Heap for TLC: pages of eight units, a granule of two pages. *)
EXTENDS Heap

\* Memory with a reserved page in it, page 0 being reserved too.
Memory == (1..8) \ {5}
=============================================================================
