--------------------------- MODULE KernelThreads ---------------------------
(***************************************************************************)
(* The scheduler, threads, processes, wake queues and events of the InfOS   *)
(* kernel (infos/kernel/{sched,thread,process,syscall}.cpp and              *)
(* infos/util/{wakequeue,event}.cpp) on its single processor.               *)
(*                                                                         *)
(* A thread that is inside the kernel has a call stack, innermost call      *)
(* first.  Each frame stands at the statement its call executes next, and   *)
(* one action executes one statement that reads or writes shared state.     *)
(* Interrupts are enabled during a system call (user_syscall_handler), so   *)
(* the timer may preempt a thread between any two of them; interrupt        *)
(* handlers, the yield trap and the sections under UniqueIRQLock are atomic.*)
(*                                                                         *)
(* The frames and their statements:                                         *)
(*   check, runq, write   Scheduler::set_entity_state(obj, st)              *)
(*   wake, clear          WakeQueue::wake() of the event of obj             *)
(*   yield                the tail of Thread::stop / sleep on obj           *)
(*   append               WakeQueue::sleep(current) on the event of obj     *)
(*   join, wait           the loops of sys_join_thread and sys_wait_proc    *)
(*   term                 Process::terminate of obj                         *)
(***************************************************************************)
EXTENDS RunQueue, Functions

CONSTANTS
    Process, Thread,    \* the process and thread objects that may be created
    Owner,              \* Thread::_owner
    Main,               \* Process::_main_thread
    Boot,               \* the process Kernel::start launches
    Idle,               \* the thread of the idle process, Scheduler::_idle_entity
    Program,            \* the system calls that the code of each thread contains
    MaxWaiters,         \* bound of the model: entries of a wait list
    Preemptible         \* where the timer interrupt may preempt a thread

PC == {"check", "runq", "write", "wake", "clear", "yield", "append",
       "join", "wait", "term"}
SchedState == {"STOPPED", "SLEEPING", "RUNNABLE"}
Locations == PC \cup {"user"}
Syscalls == {"create_thread", "exec", "stop_thread", "join_thread", "wait_proc", "exit"}

ASSUME ThreadsAssumption ==
    /\ Owner \in [Thread -> Process]
    /\ Main \in [Process -> Thread]
    /\ \A p \in Process : Owner[Main[p]] = p
    /\ Boot \in Process
    /\ Idle \notin Thread
    /\ NoEntity \notin Thread \cup {Idle}
    /\ Program \in [Thread -> SUBSET Syscalls]
    /\ MaxWaiters \in Nat
    /\ Preemptible \subseteq Locations

Object == Thread \cup Process       \* what has a state_changed event

VARIABLES
    state,          \* SchedulingEntity::_state of each thread
    runq,           \* the run queue of the scheduling algorithm
    current,        \* Scheduler::_current
    threads,        \* Process::_threads; <<>> before the process exists
    terminated,     \* Process::_terminated
    parent,         \* the process that holds the handle of a process
    waiters,        \* WakeQueue::_waiters of each state_changed event
    stack,          \* the kernel calls each thread is in, innermost first
    fault           \* how the kernel died, if it did

vars == <<state, runq, current, threads, terminated, parent, waiters, stack, fault>>

\* A call of the kernel: what it does next, on which object, with which state
\* argument and at which position of the list it iterates over.
Frame ==
    [pc : {"check", "runq", "write", "yield", "join"}, obj : Thread, st : SchedState, i : Nat]
    \cup [pc : {"wake", "clear", "append"}, obj : Object, st : SchedState, i : Nat]
    \cup [pc : {"wait", "term"}, obj : Process, st : SchedState, i : Nat]

\* Variant: callers ask for RUNNING where they mean RUNNABLE.
SetEntityRunning(e, s) ==
    [pc |-> "check", obj |-> e, st |-> IF s = "RUNNABLE" THEN "RUNNING" ELSE s, i |-> 0]

\* Calls, as the frames they push.
SetEntityState(e, s) == [pc |-> "check", obj |-> e, st |-> s, i |-> 0]
Trigger(o)     == [pc |-> "wake", obj |-> o, st |-> "RUNNABLE", i |-> 1]
YieldIfSelf(t) == [pc |-> "yield", obj |-> t, st |-> "RUNNABLE", i |-> 0]
WaitOn(o)      == [pc |-> "append", obj |-> o, st |-> "RUNNABLE", i |-> 0]
JoinLoop(t)    == [pc |-> "join", obj |-> t, st |-> "RUNNABLE", i |-> 0]
WaitLoop(p)    == [pc |-> "wait", obj |-> p, st |-> "RUNNABLE", i |-> 0]
Terminate(p)   == [pc |-> "term", obj |-> p, st |-> "RUNNABLE", i |-> 0]
Stop(t)        == <<SetEntityState(t, "STOPPED"), YieldIfSelf(t)>>
Sleep(t)       == <<SetEntityState(t, "SLEEPING"), YieldIfSelf(t)>>

Created(p) == Range(threads[p])

TypeOK ==
    /\ state \in [Thread -> SchedState]
    /\ runq \in Seq(Thread)
    /\ current \in Thread \cup {Idle, NoEntity}
    /\ threads \in [Process -> Seq(Thread)]
    /\ terminated \in [Process -> BOOLEAN]
    /\ parent \in [Process -> Process]
    /\ waiters \in [Object -> Seq(Thread)]
    /\ stack \in [Thread -> Seq(Frame)]
    /\ fault \in {"none", "activate", "dangling"}

----------------------------------------------------------------------------
\* Scheduler::init and Kernel::start: the idle thread is RUNNABLE but off the
\* run queue, the main thread of the first process is queued, and _current is
\* NULL until the first timer interrupt after Scheduler::run.
Init ==
    /\ state = [t \in Thread |-> IF t = Main[Boot] THEN "RUNNABLE" ELSE "STOPPED"]
    /\ runq = <<Main[Boot]>>
    /\ current = NoEntity
    /\ threads = [p \in Process |-> IF p = Boot THEN <<Main[Boot]>> ELSE <<>>]
    /\ terminated = [p \in Process |-> FALSE]
    /\ parent = [p \in Process |-> p]
    /\ waiters = [o \in Object |-> <<>>]
    /\ stack = [t \in Thread |-> <<>>]
    /\ fault = "none"

----------------------------------------------------------------------------
(* Scheduling: Scheduler::schedule, Thread::activate and their two callers. *)

\* Thread::activate asserts that the thread is RUNNABLE (idle always is).
Activate(next) ==
    IF next = Idle \/ state[next] = "RUNNABLE"
    THEN current' = next /\ UNCHANGED fault
    ELSE fault' = "activate" /\ UNCHANGED current

\* schedule(): ask the algorithm, fall back to idle, activate on a change.
Schedule ==
    /\ runq' = AfterPick(runq)
    /\ \E pick \in PickNextEntity(runq) :
          LET next == IF pick = NoEntity THEN Idle ELSE pick
          IN  IF next = current THEN UNCHANGED <<current, fault>> ELSE Activate(next)

\* Where a thread stands: in user code or at a statement of the kernel.
Location(t) == IF stack[t] = <<>> THEN "user" ELSE Head(stack[t]).pc

\* lapic_timer_irq_handler: the interrupt arrives while the current thread is
\* at a preemptible location, in the idle loop, or in the boot loop.
Tick ==
    /\ fault = "none"
    /\ current \in Thread => Location(current) \in Preemptible
    /\ Schedule
    /\ UNCHANGED <<state, threads, terminated, parent, waiters, stack>>

----------------------------------------------------------------------------
(* Kernel code of the current thread. *)

\* The thread executes on the processor, its innermost call at statement pc.
At(self, pc) ==
    /\ fault = "none"
    /\ current = self
    /\ stack[self] # <<>>
    /\ Head(stack[self]).pc = pc

Top(self) == Head(stack[self])

\* Replace the innermost call by the given calls; <<>> returns from it.
Goto(self, frames) ==
    stack' = [stack EXCEPT ![self] = frames \o Tail(stack[self])]

\* Variant: set_entity_state without the early return.
CheckAlwaysQueues(self) ==
    /\ At(self, "check")
    /\ Goto(self, <<[Top(self) EXCEPT !.pc = "runq"]>>)
    /\ UNCHANGED <<state, runq, current, threads, terminated, parent, waiters, fault>>

\* set_entity_state, first half: return early when nothing changes, else find
\* out whether the run queue is concerned.  RUNNING is never assigned.
Check(self) ==
    /\ At(self, "check")
    /\ LET f == Top(self)
           queued == f.st = "RUNNABLE" \/ state[f.obj] = "RUNNABLE"
       IN  IF state[f.obj] = f.st
           THEN Goto(self, <<>>)
           ELSE Goto(self, <<[f EXCEPT !.pc = IF queued THEN "runq" ELSE "write"]>>)
    /\ UNCHANGED <<state, runq, current, threads, terminated, parent, waiters, fault>>

\* The call of the algorithm, atomic under its UniqueIRQLock.
UpdateRunqueue(self) ==
    /\ At(self, "runq")
    /\ LET f == Top(self)
       IN  /\ runq' = IF f.st = "RUNNABLE" THEN AddToRunqueue(runq, f.obj)
                      ELSE RemoveFromRunqueue(runq, f.obj)
           /\ Goto(self, <<[f EXCEPT !.pc = "write"]>>)
    /\ UNCHANGED <<state, current, threads, terminated, parent, waiters, fault>>

\* entity._state = state, then the state_changed event of the entity.
WriteState(self) ==
    /\ At(self, "write")
    /\ state' = [state EXCEPT ![Top(self).obj] = Top(self).st]
    /\ Goto(self, <<Trigger(Top(self).obj)>>)
    /\ UNCHANGED <<runq, current, threads, terminated, parent, waiters, fault>>

\* The loop of WakeQueue::wake: wake_up the waiter at the iterator, then move
\* on.  i = 0 marks an iterator whose node was deleted under it.
Wake(self) ==
    /\ At(self, "wake")
    /\ LET f == Top(self)
       IN  \/ /\ f.i = 0
              /\ fault' = "dangling"
              /\ UNCHANGED stack
           \/ /\ f.i \in DOMAIN waiters[f.obj]
              /\ Goto(self, <<SetEntityState(waiters[f.obj][f.i], "RUNNABLE"),
                              [f EXCEPT !.i = f.i + 1]>>)
              /\ UNCHANGED fault
           \/ /\ f.i > Len(waiters[f.obj])
              /\ Goto(self, <<[f EXCEPT !.pc = "clear"]>>)
              /\ UNCHANGED fault
    /\ UNCHANGED <<state, runq, current, threads, terminated, parent, waiters>>

\* A call stack after the nodes of the wait list of o were deleted: an iterator
\* that stands on one of them dangles.
Dangle(s, o) ==
    [k \in DOMAIN s |-> IF s[k].pc = "wake" /\ s[k].obj = o /\ s[k].i > 1
                        THEN [s[k] EXCEPT !.i = 0] ELSE s[k]]

\* _waiters.clear() deletes whatever is in the list by now.
Clear(self) ==
    /\ At(self, "clear")
    /\ LET o == Top(self).obj
       IN  /\ waiters' = [waiters EXCEPT ![o] = <<>>]
           /\ stack' = [t \in Thread |->
                          Dangle(IF t = self THEN Tail(stack[t]) ELSE stack[t], o)]
    /\ UNCHANGED <<state, runq, current, threads, terminated, parent, fault>>

\* Variant: stop and sleep return to their caller without the trap.
ReturnWithoutYield(self) ==
    /\ At(self, "yield")
    /\ Goto(self, <<>>)
    /\ UNCHANGED <<state, runq, current, threads, terminated, parent, waiters, fault>>

\* The tail of Thread::stop and Thread::sleep: a thread that did it to itself
\* traps into kernel_syscall_handler, which calls schedule().
Yield(self) ==
    /\ At(self, "yield")
    /\ Goto(self, <<>>)
    /\ IF Top(self).obj = self THEN Schedule ELSE UNCHANGED <<runq, current, fault>>
    /\ UNCHANGED <<state, threads, terminated, parent, waiters>>

\* Event::wait = WakeQueue::sleep(Thread::current()).  A list can grow without
\* bound: a waiter that runs before the waker has moved on waits again behind
\* the waker's iterator.  MaxWaiters bounds it here.
AppendWaiter(self) ==
    /\ At(self, "append")
    /\ LET o == Top(self).obj
       IN  /\ Len(waiters[o]) < MaxWaiters
           /\ waiters' = [waiters EXCEPT ![o] = Append(@, self)]
    /\ Goto(self, Sleep(self))
    /\ UNCHANGED <<state, runq, current, threads, terminated, parent, fault>>

\* while (!t->stopped()) t->state_changed().wait()
Join(self) ==
    /\ At(self, "join")
    /\ LET f == Top(self)
       IN  IF state[f.obj] = "STOPPED" THEN Goto(self, <<>>)
           ELSE Goto(self, <<WaitOn(f.obj), f>>)
    /\ UNCHANGED <<state, runq, current, threads, terminated, parent, waiters, fault>>

\* while (!p->terminated()) p->state_changed().wait()
WaitProc(self) ==
    /\ At(self, "wait")
    /\ LET f == Top(self)
       IN  IF terminated[f.obj] THEN Goto(self, <<>>)
           ELSE Goto(self, <<WaitOn(f.obj), f>>)
    /\ UNCHANGED <<state, runq, current, threads, terminated, parent, waiters, fault>>

\* Process::terminate: the flag and the event first (i = 0), then stop() on
\* every thread in the order of their creation.
TerminateStep(self) ==
    /\ At(self, "term")
    /\ LET f == Top(self)
       IN  \/ /\ f.i = 0
              /\ terminated' = [terminated EXCEPT ![f.obj] = TRUE]
              /\ Goto(self, <<Trigger(f.obj), [f EXCEPT !.i = 1]>>)
           \/ /\ f.i \in DOMAIN threads[f.obj]
              /\ LET t == threads[f.obj][f.i]
                 IN  Goto(self, <<SetEntityState(t, "STOPPED"), YieldIfSelf(t),
                                  [f EXCEPT !.i = f.i + 1]>>)
              /\ UNCHANGED terminated
           \/ /\ f.i > Len(threads[f.obj])
              /\ Goto(self, <<>>)
              /\ UNCHANGED terminated
    /\ UNCHANGED <<state, runq, current, threads, parent, waiters, fault>>

KernelStep(self) ==
    \/ Check(self) \/ UpdateRunqueue(self) \/ WriteState(self)
    \/ Wake(self) \/ Clear(self) \/ Yield(self) \/ AppendWaiter(self)
    \/ Join(self) \/ WaitProc(self) \/ TerminateStep(self)

----------------------------------------------------------------------------
(* System calls: the current thread enters the kernel from user code. *)

Calls(self, name) ==
    /\ fault = "none"
    /\ current = self
    /\ stack[self] = <<>>
    /\ name \in Program[self]

Enter(self, frames) == stack' = [stack EXCEPT ![self] = frames]

\* sys_create_thread: Process::create_thread appends, then Thread::start.
SysCreateThread(self) ==
    /\ Calls(self, "create_thread")
    /\ \E u \in Thread \ {Main[Owner[self]]} :
          /\ Owner[u] = Owner[self]
          /\ u \notin Created(Owner[self])
          /\ threads' = [threads EXCEPT ![Owner[self]] = Append(@, u)]
          /\ Enter(self, <<SetEntityState(u, "RUNNABLE")>>)
    /\ UNCHANGED <<state, runq, current, terminated, parent, waiters, fault>>

\* sys_exec: launch_process creates a process with its main thread and starts it;
\* the caller gets the handle.
SysExec(self) ==
    /\ Calls(self, "exec")
    /\ \E q \in Process :
          /\ threads[q] = <<>>
          /\ threads' = [threads EXCEPT ![q] = <<Main[q]>>]
          /\ parent' = [parent EXCEPT ![q] = Owner[self]]
          /\ Enter(self, <<SetEntityState(Main[q], "RUNNABLE")>>)
    /\ UNCHANGED <<state, runq, current, terminated, waiters, fault>>

\* The threads a thread has handles of: those its process created.
Handles(self) == Created(Owner[self]) \ {Main[Owner[self]]}

\* sys_stop_thread on HTHREAD_SELF or on a handle.
SysStopThread(self) ==
    /\ Calls(self, "stop_thread")
    /\ \E u \in Handles(self) \cup {self} : Enter(self, Stop(u))
    /\ UNCHANGED <<state, runq, current, threads, terminated, parent, waiters, fault>>

\* sys_join_thread on the handle of another thread.
SysJoinThread(self) ==
    /\ Calls(self, "join_thread")
    /\ \E u \in Handles(self) \ {self} : Enter(self, <<JoinLoop(u)>>)
    /\ UNCHANGED <<state, runq, current, threads, terminated, parent, waiters, fault>>

\* sys_wait_proc on the handle of a process launched with sys_exec.
SysWaitProc(self) ==
    /\ Calls(self, "wait_proc")
    /\ \E q \in Process \ {Boot} :
          /\ threads[q] # <<>> /\ parent[q] = Owner[self]
          /\ Enter(self, <<WaitLoop(q)>>)
    /\ UNCHANGED <<state, runq, current, threads, terminated, parent, waiters, fault>>

\* sys_exit, and the end of the kernel process's own thread procedure.
SysExit(self) ==
    /\ Calls(self, "exit")
    /\ Enter(self, <<Terminate(Owner[self])>>)
    /\ UNCHANGED <<state, runq, current, threads, terminated, parent, waiters, fault>>

SystemCall(self) ==
    \/ SysCreateThread(self) \/ SysExec(self) \/ SysStopThread(self)
    \/ SysJoinThread(self) \/ SysWaitProc(self) \/ SysExit(self)

----------------------------------------------------------------------------
\* __assertion_failure and a wild pointer end in arch_abort, a loop.
Aborted == fault # "none" /\ UNCHANGED vars

Next ==
    \/ Tick
    \/ \E self \in Thread : KernelStep(self) \/ SystemCall(self)
    \/ Aborted

Spec == Init /\ [][Next]_vars

\* Code that is executing goes on executing, and the timer keeps firing.  An
\* interrupt that arrives at a location where it is masked stays pending in the
\* local APIC until one where it is not: hence strong fairness of Tick.
Fairness ==
    /\ \A self \in Thread : WF_vars(KernelStep(self))
    /\ SF_vars(Tick)

FairSpec == Spec /\ Fairness

----------------------------------------------------------------------------
(* Properties. *)

\* Between the early return of set_entity_state and the assignment of _state
\* the run queue and the state of the entity disagree.  The timer stays out of
\* that window.
StateChangeIsAtomic == Preemptible \cap {"runq", "write"} = {}

\* Thread t has taken entity e on or off the run queue but not yet written its
\* new state.
InFlight(t, e) == Location(t) = "write" /\ Top(t).obj = e

\* The run queue holds exactly the RUNNABLE threads, each of them once, except
\* for the one entity whose state is being changed: what set_entity_state
\* maintains by queueing on the transitions into and out of RUNNABLE.
RunqueueMatchesState ==
    /\ IsInjective(runq)
    /\ \A e \in Thread :
          \/ e \in Range(runq) <=> state[e] = "RUNNABLE"
          \/ \E t \in Thread : InFlight(t, e)

\* The assertion of Thread::activate never fails: "This thread can only be
\* activated if it is runnable."
ActivateAssertion == fault # "activate"

\* A thread that stopped itself or went to sleep does not get back to its user
\* code before somebody made it RUNNABLE again, whatever wakes, joins and exits
\* happened between its state change and its yield.
UserCodeIsRunnable ==
    \A t \in Thread : current = t /\ stack[t] = <<>> => state[t] = "RUNNABLE"

\* The inductive strengthening of the three properties above.
\* A call of set_entity_state is always the innermost one, and when it takes the
\* entity out of RUNNABLE the call below it is the yield of stop or sleep.
WellNested(s) ==
    \A k \in DOMAIN s : s[k].pc \in {"check", "runq", "write"} =>
        /\ k = 1
        /\ s[1].st # "RUNNABLE" =>
              /\ 2 \in DOMAIN s
              /\ s[2].pc = "yield"
              /\ s[2].obj = s[1].obj

StackShape == \A t \in Thread : WellNested(stack[t])

\* Only the thread on the processor is between the test and the assignment of
\* a state, and what it found there still holds.
StateChangeOfCurrent ==
    \A t \in Thread : Location(t) \in {"runq", "write"} =>
        LET f == Top(t)
        IN  /\ current = t
            /\ state[f.obj] # f.st
            /\ f.pc = "runq" /\ f.st # "RUNNABLE" => state[f.obj] = "RUNNABLE"
            /\ f.pc = "write" => (f.obj \in Range(runq) <=> f.st = "RUNNABLE")

\* A thread that executes although it is not RUNNABLE has its yield ahead.
WillYield(s, t) == \E k \in DOMAIN s : s[k].pc = "yield" /\ s[k].obj = t

StoppedThreadYields ==
    \A t \in Thread : current = t /\ state[t] # "RUNNABLE" => WillYield(stack[t], t)

SchedInv ==
    /\ StackShape
    /\ StateChangeOfCurrent
    /\ RunqueueMatchesState
    /\ StoppedThreadYields
    /\ ActivateAssertion

\* Thread t is somewhere inside a wait for the event of o.
WaitsOn(t, o) == \E k \in DOMAIN stack[t] :
    stack[t][k].pc \in {"join", "wait"} /\ stack[t][k].obj = o

\* Round robin starves nobody: a thread that stays RUNNABLE gets the processor,
\* whatever the others do (sched-rr.cpp pick_next_entity, List::Skew).
NoStarvation ==
    \A t \in Thread :
        state[t] = "RUNNABLE" ~> \/ current = t
                                 \/ state[t] # "RUNNABLE"
                                 \/ fault # "none"

\* Process::terminate stops the threads of the process: "All threads /should/
\* be stopped by this point."
TerminatedThreadsStop ==
    \A p \in Process :
        terminated[p] ~> \/ \A t \in Created(p) : state[t] = "STOPPED"
                         \/ fault # "none"

\* Execution does not return into a thread that was stopped: only
\* sys_create_thread and sys_exec take a thread out of STOPPED.
StoppedStaysStopped ==
    [][\A t \in Thread :
          state[t] = "STOPPED" /\ state'[t] # "STOPPED" =>
             \A o \in Object : t \notin Range(waiters[o])]_vars

\* join_thread on a thread that has stopped returns, unless the joining thread
\* is stopped itself.
JoinReturns ==
    \A t, u \in Thread :
        (WaitsOn(t, u) /\ state[u] = "STOPPED") ~>
            (~WaitsOn(t, u) \/ state[u] # "STOPPED" \/ state[t] = "STOPPED" \/ fault # "none")
=============================================================================
