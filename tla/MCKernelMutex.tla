--------------------------- MODULE MCKernelMutex ---------------------------
(* Instances of KernelMutex for TLC. *)
EXTENDS KernelMutex

System(threads, algorithm, handlers, stoppable) ==
    [threads |-> threads, algorithm |-> algorithm, handlers |-> handlers, stoppable |-> stoppable]

Assorted == {System(3, "rr", TRUE, {1}), System(2, "cfs", TRUE, {1}), System(3, "rr", FALSE, {})}
=============================================================================
