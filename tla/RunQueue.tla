------------------------------ MODULE RunQueue ------------------------------
(***************************************************************************)
(* The three scheduling algorithms the kernel can be booted with, as        *)
(* operators on a run queue:                                                *)
(*   "rr"   RoundRobinScheduler       coursework/sched-rr.cpp               *)
(*   "fifo" FIFOScheduler             coursework/sched-fifo.cpp             *)
(*   "cfs"  CompletelyFairScheduler   infos/kernel/sched-cfs.cpp            *)
(* A run queue is the sequence of its entities, front first.  The circular  *)
(* Commons list of the first two starts at its root; the singly linked list *)
(* of the third starts at its head.  Every operation runs under             *)
(* UniqueIRQLock, so each is one atomic step of the modules that use it, as *)
(* long as the heap mutex is free; KernelMutex models what else happens.    *)
(***************************************************************************)
EXTENDS Positions

CONSTANTS
    Algorithm,      \* the value of the boot argument sched.algorithm
    NoEntity        \* the NULL of pick_next_entity

ASSUME AlgorithmAssumption == Algorithm \in {"rr", "fifo", "cfs"}

----------------------------------------------------------------------------
\* add_to_runqueue: every algorithm appends at the tail and none looks for an
\* entry of the same entity.
AddToRunqueue(q, e) == Append(q, e)

\* Variant: the entity is never unlinked.
RemoveNothing(q, e) == q

\* remove_from_runqueue: Commons::List::Remove unlinks every node that holds
\* the entity, util::List::remove only the first.
RemoveFromRunqueue(q, e) ==
    LET at == PositionsOf(q, e)
    IN  Drop(q, IF Algorithm = "cfs" THEN {i \in at : \A k \in at : i <= k} ELSE at)

\* The entities pick_next_entity may return.  CFS takes one with the least
\* cpu_runtime; the runtimes are not part of this module, so any entity of the
\* queue may be the one.
PickNextEntity(q) ==
    IF q = <<>> THEN {NoEntity}
    ELSE IF Algorithm = "cfs" THEN {q[i] : i \in DOMAIN q} ELSE {Head(q)}

\* Variant: round robin that returns the front and leaves it there.
PickWithoutSkew(q) == q

\* What pick_next_entity leaves in the queue: List::Skew makes the front the
\* new tail, List::Get(0) and the CFS scan change nothing.
AfterPick(q) ==
    IF Algorithm = "rr" /\ q # <<>> THEN Append(Tail(q), Head(q)) ELSE q
=============================================================================
