----------------------------- MODULE Accounting -----------------------------
(***************************************************************************)
(* Who gets the processor under the CFS algorithm: the run time that the    *)
(* timer charges to the current entity (Scheduler::update_accounting) and   *)
(* the choice of the entity with the least (sched-cfs.cpp).  KernelThreads  *)
(* has every state change in detail and lets CFS pick any entity; here a    *)
(* state change is one step and the times are exact.                        *)
(*                                                                         *)
(* A thread that waits for the heap mutex inside a run queue update yields  *)
(* with interrupts disabled, so no time is charged to it (util/lock.cpp).   *)
(***************************************************************************)
EXTENDS Integers, Sequences, FiniteSets, FiniteSetsExt

CONSTANTS
    Entity,         \* the threads but the idle one
    IdleEntity,     \* _idle_entity
    MaxRuntime      \* bound of the model: the timer interrupts

VARIABLES
    runtime,        \* Kernel::_runtime, in ticks of 10ms
    cpu_runtime,    \* entity -> SchedulingEntity::_cpu_runtime
    exec_start,     \* _exec_start_time of the current entity: that of another is not read
                    \* before schedule() has set it
    runqueue,       \* the entities of CompletelyFairScheduler::runqueue, first one first
    running,        \* Scheduler::_current
    holder,         \* the entity that has the heap mutex, if any
    masked,         \* the entities that wait for it with interrupts disabled
    since           \* history: waiting entity -> what every cpu_runtime was when its wait began

accountVars == <<runtime, cpu_runtime, exec_start, runqueue, running, holder, masked, since>>

Zero == [e \in Entity \cup {IdleEntity} |-> 0]
Queued == {runqueue[i] : i \in DOMAIN runqueue}

\* Variant: the first entity is taken whatever it has used.
PickFirst == IF runqueue = <<>> THEN IdleEntity ELSE runqueue[1]

\* pick_next_entity, and the idle entity instead of none: the first of those with the
\* least run time.
Pick ==
    IF runqueue = <<>> THEN IdleEntity
    ELSE LET least == {i \in DOMAIN runqueue :
                         \A j \in DOMAIN runqueue : cpu_runtime'[runqueue[i]] <= cpu_runtime'[runqueue[j]]}
         IN runqueue[Min(least)]

\* schedule(): the entity chosen begins to run now.
ScheduleNext(next) ==
    /\ running' = next
    /\ exec_start' = runtime'
    /\ since' = [e \in Entity |-> IF e = next THEN Zero
                                  ELSE IF e = running /\ e \in Queued THEN cpu_runtime' ELSE since[e]]

\* update_accounting: the time since the last schedule() or charge.
UpdateAccounting ==
    cpu_runtime' = [cpu_runtime EXCEPT ![running] = @ + runtime' - exec_start]

\* lapic_timer_irq_handler.
TimerInterrupt ==
    /\ running \notin masked /\ runtime < MaxRuntime
    /\ runtime' = runtime + 1
    /\ UpdateAccounting
    /\ ScheduleNext(Pick)
    /\ UNCHANGED <<runqueue, holder, masked>>

\* The yield trap.
YieldTrap ==
    /\ running # IdleEntity
    /\ running \in masked => holder # IdleEntity
    /\ UNCHANGED <<runtime, cpu_runtime>>
    /\ ScheduleNext(Pick)
    /\ UNCHANGED <<runqueue, holder, masked>>

\* add_to_runqueue by the current thread or by a handler that interrupts it, and
\* remove_from_runqueue by the current thread, of itself.  Both allocate or free a node, so
\* the mutex must be free; nothing interrupts them once it is.
WakeEntity(e) ==
    /\ e \notin Queued /\ holder = IdleEntity
    /\ runqueue' = Append(runqueue, e)
    /\ masked' = masked \ {running}
    /\ since' = [since EXCEPT ![e] = IF e = running THEN Zero ELSE cpu_runtime]
    /\ UNCHANGED <<runtime, cpu_runtime, exec_start, running, holder>>
BlockSelf ==
    /\ running \in Queued /\ holder = IdleEntity
    /\ runqueue' = SelectSeq(runqueue, LAMBDA e : e # running)
    /\ masked' = masked \ {running}
    /\ UNCHANGED <<runtime, cpu_runtime, exec_start, running, holder, since>>

\* The same with the mutex taken: Mutex::lock yields until it is free, inside the interrupt lock.
WaitMasked ==
    /\ running \in Queued \ masked /\ holder \notin {running, IdleEntity}
    /\ masked' = masked \cup {running}
    /\ UNCHANGED <<runtime, cpu_runtime, exec_start, runqueue, running, holder, since>>

\* Mutex::lock and unlock in a heap call with interrupts enabled.
TakeMutex ==
    /\ running \in Queued \ masked /\ holder = IdleEntity
    /\ holder' = running
    /\ UNCHANGED <<runtime, cpu_runtime, exec_start, runqueue, running, masked, since>>
ReleaseMutex ==
    /\ holder = running /\ running # IdleEntity
    /\ holder' = IdleEntity
    /\ UNCHANGED <<runtime, cpu_runtime, exec_start, runqueue, running, masked, since>>

AccountInit ==
    /\ runtime = 0 /\ runqueue = <<>> /\ running = IdleEntity
    /\ cpu_runtime = Zero /\ exec_start = 0
    /\ holder = IdleEntity /\ masked = {}
    /\ since = [e \in Entity |-> Zero]

AccountNext ==
    \/ TimerInterrupt \/ YieldTrap \/ BlockSelf \/ TakeMutex \/ WaitMasked \/ ReleaseMutex
    \/ \E e \in Entity : WakeEntity(e)

----------------------------------------------------------------------------
(* Properties. *)

\* What others have been charged while e waited.
Waited(e) == MapThenSumSet(LAMBDA o : cpu_runtime[o] - since[e][o], DOMAIN cpu_runtime)

\* Every tick is charged once, to who had the processor.
TimeIsCharged ==
    /\ MapThenSumSet(LAMBDA e : cpu_runtime[e], DOMAIN cpu_runtime) = runtime
    /\ exec_start = runtime

\* A thread that stays in the run queue waits no longer than it takes the others to use what
\* it has used itself, a tick more for each, and the tick of whoever ran when it came,
\* though others are woken, block and yield meanwhile.
WaitIsBounded ==
    \A e \in Queued \ {running} :
        Waited(e) <= 1 + MapThenSumSet(LAMBDA o : Max({0, cpu_runtime[e] + 1 - since[e][o]}), Entity \ {e})

\* CFS shares the processor as its accounting says.
CfsIsFair == TimeIsCharged /\ WaitIsBounded

\* Code that has the processor goes on, and the timer fires when it is not held off.
AccountFairness ==
    /\ WF_accountVars(TimerInterrupt) /\ WF_accountVars(YieldTrap)
    /\ SF_accountVars(TakeMutex) /\ SF_accountVars(ReleaseMutex)

\* A thread that waits for the mutex by yielding gets it, if AccountFairness.  The code does
\* not keep it: the thread with the least run time is picked again at each yield and is
\* charged nothing.
SpinEnds == \A e \in Entity : e \in masked ~> e \notin masked
=============================================================================
