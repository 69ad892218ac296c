---------------------------- MODULE KernelMutex ----------------------------
(***************************************************************************)
(* The two kinds of lock of the kernel (infos/util/lock.cpp) and how they   *)
(* nest.  Run queue updates (sched-rr.cpp, sched-fifo.cpp, sched-cfs.cpp)   *)
(* disable interrupts with a UniqueIRQLock and allocate and free list nodes *)
(* there; the object allocator guards the heap with a Mutex, and a thread   *)
(* that finds it taken waits by yielding.  So a run queue update can lose   *)
(* the processor in the middle, with interrupts disabled.                   *)
(*                                                                         *)
(* One processor: only the current thread takes steps.  Each thread has its *)
(* own interrupt flag, restored with its context.  A device interrupt runs  *)
(* its handler on the stack of the thread it interrupts, and no other       *)
(* interrupt is delivered before the handler has sent its end of interrupt, *)
(* even if the handler yields.  Thread 0 is the idle thread.                *)
(***************************************************************************)
EXTENDS Integers, FiniteSetsExt, Positions

CONSTANT Systems        \* the systems that may be booted

\* threads: the threads are 1..threads.  algorithm: FIFO uses the list of "rr".
\* handlers: whether device interrupts wake threads as well.  stoppable: the threads
\* that others may stop at any time.
ASSUME SystemsAssumption ==
    \A s \in Systems :
        /\ s.threads \in Nat \ {0}
        /\ s.algorithm \in {"rr", "cfs"}
        /\ s.handlers \in BOOLEAN
        /\ s.stoppable \subseteq 1..s.threads

Op == {"none", "heap", "add", "remove"}
Freed == -1         \* a slot in a node that has been freed

VARIABLES
    system,             \* the one that was booted
    locked, owner,      \* Mutex::_locked and _owner of the object allocator
    queue, count,       \* the entities reachable in the run queue, and its _count
    runnable,           \* the threads whose _state is RUNNABLE
    current,            \* the thread on the processor
    flag,               \* the interrupt flag of each thread
    saved,              \* IRQLock::_were_interrupts_enabled
    op, pc, entity,     \* each thread's operation, the step it is at, its subject
    slot,               \* the node List::append will link to, 0 for the head
    handler, frame      \* the thread a device handler runs on, or -1, and what it
                        \* interrupted there

Thread == 1..system.threads
Actor == 0..system.threads

mutex == <<locked, owner>>
list == <<queue, count>>
thread == <<op, pc, entity>>
irq == <<handler, frame>>
vars == <<system, mutex, list, runnable, current, flag, saved, thread, slot, irq>>

\* What an operation executes.  The Commons list allocates before it looks at its
\* links and frees after it has changed them; util::List finds the slot of the new
\* node before it allocates the node, and counts a removal after it has freed one.
\* One allocation stands for the several that MakeShared makes in a row.
Heap == <<"lock", "own", "unlock">>
Program(algorithm, o) ==
    CASE o = "none" -> <<>>
      [] o = "heap" -> Heap
      [] o = "add" -> <<"irqlock">> \o (IF algorithm = "cfs" THEN <<"walk">> ELSE <<>>)
                      \o Heap \o <<"link", "irqunlock", "state">>
      [] o = "remove" -> <<"irqlock">>
                      \o (IF algorithm = "cfs" THEN <<"unlink">> \o Heap \o <<"uncount">>
                          ELSE Heap \o <<"unlink">> \o Heap)
                      \o <<"irqunlock", "state", "yield">>

Working(o) == o # "none"
StepOf(algorithm, o, p) == IF Working(o) THEN Program(algorithm, o)[p] ELSE "user"
Step(o, p) == StepOf(system.algorithm, o, p)
Length(o) == IF Working(o) THEN Len(Program(system.algorithm, o)) ELSE 1
At(t, s) == current = t /\ Step(op[t], pc[t]) = s

TypeOK ==
    /\ system \in Systems
    /\ locked \in BOOLEAN /\ owner \in -1..system.threads
    /\ queue \in Seq(Thread) /\ count \in 0..system.threads
    /\ runnable \subseteq Thread /\ current \in Actor
    /\ flag \in [Actor -> BOOLEAN] /\ saved \in [Actor -> BOOLEAN]
    /\ op \in [Actor -> Op] /\ entity \in [Actor -> Actor]
    /\ \A t \in Actor : pc[t] \in 1..Length(op[t])
    /\ slot \in [Actor -> {Freed} \cup Actor]
    /\ handler \in -1..system.threads

Init ==
    /\ system \in Systems
    /\ locked = FALSE /\ owner = -1
    /\ queue = [i \in Thread |-> i] /\ count = system.threads
    /\ runnable = Thread /\ current = 1
    /\ flag = [t \in Actor |-> TRUE] /\ saved = [t \in Actor |-> FALSE]
    /\ op = [t \in Actor |-> "none"] /\ pc = [t \in Actor |-> 1] /\ entity = [t \in Actor |-> 0]
    /\ slot = [t \in Actor |-> 0]
    /\ handler = -1 /\ frame = <<"none", 1, 0>>

----------------------------------------------------------------------------
(* Moving on *)

\* What a thread does once its operation is over: a handler sends its end of
\* interrupt and returns to what it interrupted.
Resume(t) ==
    IF handler = t
    THEN /\ op' = [op EXCEPT ![t] = frame[1]]
         /\ pc' = [pc EXCEPT ![t] = frame[2]]
         /\ entity' = [entity EXCEPT ![t] = frame[3]]
         /\ handler' = -1 /\ frame' = <<"none", 1, 0>>
    ELSE /\ op' = [op EXCEPT ![t] = "none"]
         /\ pc' = [pc EXCEPT ![t] = 1]
         /\ entity' = [entity EXCEPT ![t] = 0]
         /\ UNCHANGED irq

Advance(t) ==
    IF pc[t] < Length(op[t])
    THEN pc' = [pc EXCEPT ![t] = @ + 1] /\ UNCHANGED <<op, entity, irq>>
    ELSE Resume(t)

\* schedule(): round robin takes the front, CFS any entity of its queue.
Switch ==
    IF queue = <<>>
    THEN current' = 0 /\ UNCHANGED queue
    ELSE IF system.algorithm = "rr"
    THEN current' = queue[1] /\ queue' = Append(Tail(queue), queue[1])
    ELSE (\E i \in DOMAIN queue : current' = queue[i]) /\ UNCHANGED queue

----------------------------------------------------------------------------
(* Mutex *)

\* Variant: the lock is taken without a test.
TakeAlways(t) ==
    /\ At(t, "lock")
    /\ locked' = TRUE /\ Advance(t)
    /\ UNCHANGED <<owner, list, runnable, current, flag, saved, slot>>

\* Mutex::lock: test and set, or the yield trap and again.
TestAndSet(t) ==
    /\ At(t, "lock")
    /\ \/ locked /\ Switch /\ UNCHANGED <<locked, thread, irq>>
       \/ ~locked /\ locked' = TRUE /\ Advance(t) /\ UNCHANGED <<queue, current>>
    /\ UNCHANGED <<owner, count, runnable, flag, saved, slot>>

SetOwner(t) ==
    /\ At(t, "own")
    /\ owner' = t
    /\ Advance(t)
    /\ UNCHANGED <<locked, list, runnable, current, flag, saved, slot>>

\* Variant: the mutex is left locked.
LeaveLocked(t) ==
    /\ At(t, "unlock")
    /\ Advance(t)
    /\ UNCHANGED <<mutex, list, runnable, current, flag, saved, slot>>

\* Mutex::unlock; the owner stays.
Unlock(t) ==
    /\ At(t, "unlock")
    /\ locked' = FALSE
    /\ Advance(t)
    /\ UNCHANGED <<owner, list, runnable, current, flag, saved, slot>>

----------------------------------------------------------------------------
(* Run queue updates *)

\* IRQLock::lock.
IrqLock(t) ==
    /\ At(t, "irqlock")
    /\ saved' = [saved EXCEPT ![t] = flag[t]]
    /\ flag' = [flag EXCEPT ![t] = FALSE]
    /\ Advance(t)
    /\ UNCHANGED <<mutex, list, runnable, current, slot>>

\* List::append, up to the allocation of the node: the slot at the end of the list.
Walk(t) ==
    /\ At(t, "walk")
    /\ slot' = [slot EXCEPT ![t] = IF queue = <<>> THEN 0 ELSE queue[Len(queue)]]
    /\ Advance(t)
    /\ UNCHANGED <<mutex, list, runnable, current, flag, saved>>

\* The list after a new node for e is stored in the slot s: what was linked there
\* is no longer reachable, and a node stored in freed memory never is.
Stored(q, s, e) ==
    IF s = 0 THEN <<e>>
    ELSE IF s = Freed THEN q
    ELSE LET i == CHOOSE i \in DOMAIN q : q[i] = s
         IN  IF \E j \in DOMAIN q : q[j] = s THEN Append(SubSeq(q, 1, i), e) ELSE q

\* Variant: the new entity takes the place of the tail.
LinkOverTail(t) ==
    /\ At(t, "link")
    /\ queue' = Append(IF queue = <<>> THEN queue ELSE SubSeq(queue, 1, Len(queue) - 1), entity[t])
    /\ count' = count + 1
    /\ Advance(t)
    /\ UNCHANGED <<mutex, runnable, current, flag, saved, slot>>

\* The rest of List::append, and List::AddToTail.
Link(t) ==
    /\ At(t, "link")
    /\ queue' = IF system.algorithm = "cfs" THEN Stored(queue, slot[t], entity[t])
                ELSE Append(queue, entity[t])
    /\ count' = count + 1
    /\ Advance(t)
    /\ UNCHANGED <<mutex, runnable, current, flag, saved, slot>>

\* List::remove up to the delete, and List::RemoveNode.  The slot in the node is
\* freed with it.
Unlink(t) ==
    /\ At(t, "unlink")
    /\ queue' = Drop(queue, PositionsOf(queue, entity[t]))
    /\ count' = IF system.algorithm = "cfs" THEN count ELSE count - 1
    /\ slot' = [u \in Actor |-> IF slot[u] = entity[t] THEN Freed ELSE slot[u]]
    /\ Advance(t)
    /\ UNCHANGED <<mutex, runnable, current, flag, saved>>

Uncount(t) ==
    /\ At(t, "uncount")
    /\ count' = count - 1
    /\ Advance(t)
    /\ UNCHANGED <<mutex, queue, runnable, current, flag, saved, slot>>

\* IRQLock::unlock.
IrqUnlock(t) ==
    /\ At(t, "irqunlock")
    /\ flag' = [flag EXCEPT ![t] = saved[t]]
    /\ Advance(t)
    /\ UNCHANGED <<mutex, list, runnable, current, saved, slot>>

\* The end of set_entity_state.  The return from an interrupt restores the flag.
WriteState(t) ==
    /\ At(t, "state")
    /\ runnable' = IF op[t] = "add" THEN runnable \cup {entity[t]} ELSE runnable \ {entity[t]}
    /\ flag' = [flag EXCEPT ![t] = @ \/ handler = t]
    /\ Advance(t)
    /\ UNCHANGED <<mutex, list, current, saved, slot>>

\* Thread::stop and Thread::sleep yield if the thread is the calling one.
Yield(t) ==
    /\ At(t, "yield")
    /\ IF entity[t] = t THEN Switch ELSE UNCHANGED <<queue, current>>
    /\ Advance(t)
    /\ UNCHANGED <<mutex, count, runnable, flag, saved, slot>>

----------------------------------------------------------------------------
(* What makes threads do so *)

\* The entities no state change is under way for.
Settled == {e \in Thread : \A t \in Actor : entity[t] # e /\ frame[3] # e}

\* A system call that allocates or frees memory, starts or wakes a thread, stops
\* another one, or stops or puts to sleep the calling one.
Call(t) ==
    /\ At(t, "user") /\ t # 0
    /\ \E o \in {"heap", "add", "remove"}, e \in Actor :
          /\ CASE o = "heap" -> e = 0
               [] o = "add" -> e \in Settled \ runnable
               [] o = "remove" -> e \in Settled \cap runnable \cap (system.stoppable \cup {t})
          /\ op' = [op EXCEPT ![t] = o] /\ entity' = [entity EXCEPT ![t] = e]
    /\ UNCHANGED <<system, mutex, list, runnable, current, flag, saved, pc, slot, irq>>

\* A device interrupt whose handler wakes a thread.
DeviceInterrupt(t) ==
    /\ system.handlers
    /\ handler = -1
    /\ current = t /\ flag[t]
    /\ \E e \in Settled \ runnable :
          /\ op' = [op EXCEPT ![t] = "add"]
          /\ pc' = [pc EXCEPT ![t] = 1]
          /\ entity' = [entity EXCEPT ![t] = e]
    /\ handler' = t /\ frame' = <<op[t], pc[t], entity[t]>>
    /\ flag' = [flag EXCEPT ![t] = FALSE]
    /\ UNCHANGED <<system, mutex, list, runnable, current, saved, slot>>

\* The timer interrupt.
Tick ==
    /\ handler = -1
    /\ flag[current]
    /\ Switch
    /\ UNCHANGED <<system, mutex, count, runnable, flag, saved, thread, slot, irq>>

KernelStep(t) ==
    /\ \/ TestAndSet(t) \/ SetOwner(t) \/ Unlock(t)
       \/ IrqLock(t) \/ Walk(t) \/ Link(t) \/ Unlink(t) \/ Uncount(t) \/ IrqUnlock(t)
       \/ WriteState(t) \/ Yield(t)
    /\ UNCHANGED system

Next ==
    \/ Tick
    \/ \E t \in Actor : KernelStep(t) \/ Call(t) \/ DeviceInterrupt(t)

Spec == Init /\ [][Next]_vars

\* A thread in the kernel that gets the processor again and again executes its next
\* statement (a time slice is longer than a statement), and a timer interrupt held
\* off while interrupts are disabled is delivered later.  User code may compute
\* forever.
FairSpec ==
    /\ Spec
    /\ \A t \in 0..Max({s.threads : s \in Systems}) : SF_vars(KernelStep(t))
    /\ SF_vars(Tick)

----------------------------------------------------------------------------
(* Properties. *)

\* Whether the thread, or what a handler interrupted on it, is in Heap after the lock.
Holds(t) ==
    \/ Step(op[t], pc[t]) \in {"own", "unlock"}
    \/ handler = t /\ Step(frame[1], frame[2]) \in {"own", "unlock"}

\* At most one thread is between lock() and unlock(), and the mutex is locked
\* exactly as long as one is, though threads wait for it with interrupts disabled
\* and handlers wait for it on the stack of its holder.
MutualExclusion ==
    /\ \A t, u \in Actor : Holds(t) /\ Holds(u) => t = u
    /\ locked <=> \E t \in Actor : Holds(t)

\* Once a thread has returned from lock(), _owner names it until it unlocks.
OwnerIsHolder == \A t \in Actor : Step(op[t], pc[t]) = "unlock" => owner = t

\* Run queue updates that give up the processor in the middle leave a run queue
\* that holds every RUNNABLE thread once and no other, threads whose state is just
\* being changed excepted, and that counts its entries.  Under CFS they do not: its
\* list allocates a node after it has looked for the place to link it to.
UpdatesAreIsolated == system.algorithm = "rr" =>
    /\ \A e \in Settled :
          Cardinality({i \in DOMAIN queue : queue[i] = e}) = (IF e \in runnable THEN 1 ELSE 0)
    /\ Settled = Thread => count = Len(queue)

\* Interrupts are enabled again whenever a thread is back from the kernel, however
\* its sections were interleaved with those of others.
InterruptsRestored == \A t \in Actor : Step(op[t], pc[t]) = "user" => flag[t]

\* Mutex::lock and unlock and IRQLock, nested and preempted anywhere: one holder at a time, which
\* is the recorded owner, and interrupts enabled again behind the outermost lock.
LockIsSound == TypeOK /\ MutualExclusion /\ OwnerIsHolder /\ InterruptsRestored

\* Whoever has the mutex releases it, however many threads wait for it and some of
\* them with interrupts disabled, if no holder is stopped and no device handler waits
\* for it.
MutexIsReleased == (locked /\ ~system.handlers /\ system.stoppable = {}) ~> ~locked

\* A thread that begins to change the state of another or its own gets to record the
\* new state.
StateChangeEnds ==
    \A t \in 1..Max({s.threads : s \in Systems}) :
        (t \in Thread /\ op[t] \in {"add", "remove"}) ~> op[t] = "none"
=============================================================================
