-------------------------- MODULE MCPageAllocator --------------------------
(* Instances of PageAllocator for TLC. *)
EXTENDS PageAllocator

\* Seventeen pages are two blocks of order 3 and a single page, whose buddies lie
\* past the end.  Pages 4 and 5 are a hole in the memory map.
MapWithHole == Page \ 4..5
KernelLow == {3}
============================================================================
