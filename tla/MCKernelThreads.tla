-------------------------- MODULE MCKernelThreads --------------------------
(***************************************************************************)
(* Instances of KernelThreads: one process with a main thread and workers,  *)
(* or a parent process that launches a child.                               *)
(***************************************************************************)
EXTENDS KernelThreads

CONSTANTS p, q, main, w1, w2, child

OneProcess == {p}
TwoProcesses == {p, q}
Trio == {main, w1, w2}
Family == {main, child, w1}

OwnerAlone == [t \in Thread |-> p]
MainAlone == [x \in OneProcess |-> main]
OwnerFamily == [t \in Family |-> IF t = main THEN p ELSE q]
MainFamily == [x \in TwoProcesses |-> IF x = p THEN main ELSE child]

\* sched-test1: the main thread creates and joins workers that stop themselves,
\* then exits.
SchedTest == [t \in Thread |-> IF t = main THEN {"create_thread", "join_thread", "exit"}
                               ELSE {"stop_thread"}]

\* The shell and a program: a process launches another and waits for its end; the
\* two threads of that one join and stop each other or themselves.
Session == [t \in Thread |-> CASE t = main -> {"exec", "wait_proc", "exit"}
                               [] t = child -> {"create_thread", "stop_thread", "join_thread", "exit"}
                               [] OTHER -> {"stop_thread", "join_thread", "exit"}]

\* Preemption everywhere, as the code has it, and everywhere but between the
\* test and the assignment of an entity's state.
Everywhere == Locations
OutsideStateChange == Locations \ {"runq", "write"}
=============================================================================
