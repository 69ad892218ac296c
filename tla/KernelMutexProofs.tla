------------------------- MODULE KernelMutexProofs -------------------------
(***************************************************************************)
(* Proofs about KernelMutex for any number of threads, both kinds of run    *)
(* queue, with and without device handlers.                                 *)
(***************************************************************************)
EXTENDS KernelMutex, PositionsProofs

----------------------------------------------------------------------------
(* The inductive invariant. *)

alg == system.algorithm

\* Whether an operation o at step p has changed what _count counts.
PastLink(a, o, p) == o = "add" /\ StepOf(a, o, p) \in {"irqunlock", "state"}
PastUncount(a, o, p) ==
    o = "remove" /\ \/ StepOf(a, o, p) \in {"irqunlock", "state", "yield"}
                    \/ a # "cfs" /\ p > 5

\* Between Mutex::lock and unlock, and between IRQLock::lock and unlock.
InHeap(a, o, p) == StepOf(a, o, p) \in {"own", "unlock"}
InSection(a, o, p) ==
    o \in {"add", "remove"} /\ StepOf(a, o, p) \notin {"irqlock", "state", "yield"}

\* What is interrupted, if anything is, and what its handler does.
FrameInv ==
    /\ frame \in Op \X Nat \X Actor
    /\ frame[2] \in 1..Length(frame[1])
    /\ handler = -1 => frame = <<"none", 1, 0>>
    /\ handler # -1 => op[handler] = "add"

\* An entity has its old state until the operation on it has written the new one.
Subject(r, n, a, o, p, e) ==
    /\ o \in {"none", "heap"} => e = 0
    /\ o \in {"add", "remove"} =>
          e \in 1..n /\ (e \in r <=> o = "remove" /\ StepOf(a, o, p) # "yield")

\* No two operations are about the same entity.
EntityInv ==
    /\ \A t \in Actor : Subject(runnable, system.threads, alg, op[t], pc[t], entity[t])
    /\ Subject(runnable, system.threads, alg, frame[1], frame[2], frame[3])
    /\ \A t, u \in Actor : t # u /\ entity[t] = entity[u] => entity[t] = 0
    /\ \A t \in Actor : entity[t] = frame[3] => frame[3] = 0

\* One context at most is in the heap: a handler and what it interrupted are two.
HeapInv ==
    /\ MutualExclusion
    /\ handler # -1 => ~(InHeap(alg, op[handler], pc[handler]) /\ InHeap(alg, frame[1], frame[2]))
    /\ OwnerIsHolder
    /\ handler # -1 /\ Step(frame[1], frame[2]) = "unlock" => owner = handler

\* The interrupt flag of a thread is clear in its sections and in its handlers.
FlagInv ==
    \A t \in Actor :
        /\ handler # t => /\ flag[t] <=> ~InSection(alg, op[t], pc[t])
                          /\ InSection(alg, op[t], pc[t]) => saved[t]
        /\ handler = t => /\ ~flag[t] /\ ~InSection(alg, frame[1], frame[2])
                          /\ InSection(alg, op[t], pc[t]) => ~saved[t]

\* The entities that _count counts: those that are RUNNABLE, the ones that are being
\* added once they are linked, and not the ones that are being removed once they are
\* not linked any more.
Counts(e) ==
    \/ /\ e \in runnable
       /\ \A t \in Actor : entity[t] = e => ~PastUncount(alg, op[t], pc[t])
       /\ frame[3] = e => ~PastUncount(alg, frame[1], frame[2])
    \/ \E t \in Actor : entity[t] = e /\ PastLink(alg, op[t], pc[t])
    \/ frame[3] = e /\ PastLink(alg, frame[1], frame[2])
Counted == {e \in Thread : Counts(e)}

\* The Commons list holds the entities that are counted, once each.
QueueInv ==
    /\ count = Cardinality(Counted)
    /\ alg = "rr" => IsInjective(queue) /\ Range(queue) = Counted

IInv ==
    /\ TypeOK /\ pc \in [Actor -> Nat]
    /\ FrameInv /\ EntityInv /\ HeapInv /\ FlagInv /\ QueueInv

----------------------------------------------------------------------------
(* The programs of the operations. *)

\* A heap call, step by step.
LEMMA HeapProgram ==
    ASSUME NEW a
    PROVE  LET P == Program(a, "heap") IN
           /\ Len(P) = 3 /\ P[1] = "lock" /\ P[2] = "own" /\ P[3] = "unlock"
  BY DEF Program, Heap

\* add_to_runqueue and the state change on the Commons list, step by step.
LEMMA AddProgramOfList ==
    ASSUME NEW a, a # "cfs"
    PROVE  LET P == Program(a, "add") IN
           /\ Len(P) = 7 /\ P[1] = "irqlock" /\ P[2] = "lock" /\ P[3] = "own"
           /\ P[4] = "unlock" /\ P[5] = "link" /\ P[6] = "irqunlock"
           /\ P[7] = "state"
  BY DEF Program, Heap

\* add_to_runqueue and the state change on util::List, step by step.
LEMMA AddProgramOfCFS ==
    ASSUME NEW a, a = "cfs"
    PROVE  LET P == Program(a, "add") IN
           /\ Len(P) = 8 /\ P[1] = "irqlock" /\ P[2] = "walk" /\ P[3] = "lock"
           /\ P[4] = "own" /\ P[5] = "unlock" /\ P[6] = "link" /\ P[7] = "irqunlock"
           /\ P[8] = "state"
  BY DEF Program, Heap

\* remove_from_runqueue, the state change and the yield on the Commons list, step by step.
LEMMA RemoveProgramOfList ==
    ASSUME NEW a, a # "cfs"
    PROVE  LET P == Program(a, "remove") IN
           /\ Len(P) = 11 /\ P[1] = "irqlock" /\ P[2] = "lock" /\ P[3] = "own"
           /\ P[4] = "unlock" /\ P[5] = "unlink" /\ P[6] = "lock" /\ P[7] = "own"
           /\ P[8] = "unlock" /\ P[9] = "irqunlock" /\ P[10] = "state"
           /\ P[11] = "yield"
  BY DEF Program, Heap

\* remove_from_runqueue, the state change and the yield on util::List, step by step.
LEMMA RemoveProgramOfCFS ==
    ASSUME NEW a, a = "cfs"
    PROVE  LET P == Program(a, "remove") IN
           /\ Len(P) = 9 /\ P[1] = "irqlock" /\ P[2] = "unlink" /\ P[3] = "lock"
           /\ P[4] = "own" /\ P[5] = "unlock" /\ P[6] = "uncount"
           /\ P[7] = "irqunlock" /\ P[8] = "state" /\ P[9] = "yield"
  BY DEF Program, Heap

Steps == {"irqlock", "walk", "lock", "own", "unlock", "link", "unlink", "uncount", "irqunlock",
          "state", "yield"}

\* Where each statement leads, and in which operations it occurs.
Leads(o, s, n, last) ==
    /\ s \in Steps
    /\ s = "irqlock" => o \in {"add", "remove"} /\ ~last /\ n \in {"walk", "lock", "unlink"}
    /\ s = "walk" => o = "add" /\ ~last /\ n = "lock"
    /\ s = "lock" => ~last /\ n = "own"
    /\ s = "own" => ~last /\ n = "unlock"
    /\ s = "unlock" => \/ o = "heap" /\ last
                       \/ o = "add" /\ ~last /\ n = "link"
                       \/ o = "remove" /\ ~last /\ n \in {"unlink", "uncount", "irqunlock"}
    /\ s = "link" => o = "add" /\ ~last /\ n = "irqunlock"
    /\ s = "unlink" => o = "remove" /\ ~last /\ n = "lock"
    /\ s = "uncount" => o = "remove" /\ ~last /\ n = "irqunlock"
    /\ s = "irqunlock" => o \in {"add", "remove"} /\ ~last /\ n = "state"
    /\ s = "state" => (o = "add" /\ last) \/ (o = "remove" /\ ~last /\ n = "yield")
    /\ s = "yield" => o = "remove" /\ last
    /\ o = "heap" => s \in {"lock", "own", "unlock"}

\* Every step of every program is followed by the one that Leads says.
LEMMA ProgramFlow ==
    ASSUME NEW a, NEW o \in {"heap", "add", "remove"}, NEW p \in 1..Len(Program(a, o))
    PROVE  /\ Len(Program(a, o)) \in Nat \ {0}
           /\ Leads(o, StepOf(a, o, p), StepOf(a, o, p + 1), p = Len(Program(a, o)))
           /\ o # "heap" => StepOf(a, o, 1) = "irqlock"
           /\ o = "heap" => StepOf(a, o, 1) = "lock"
<1> DEFINE s == StepOf(a, o, p)
           n == StepOf(a, o, p + 1)
           last == p = Len(Program(a, o))
<1>1. CASE o = "heap"
  <2>0. Len(Program(a, o)) = 3
    BY <1>1, HeapProgram
  <2>1. p \in {1, 2, 3}
    BY <2>0
  <2>2. /\ StepOf(a, o, 1) = "lock" /\ StepOf(a, o, 2) = "own" /\ StepOf(a, o, 3) = "unlock"
    BY <1>1, HeapProgram DEF StepOf, Working
  <2>3. \/ s = "lock" /\ ~last /\ n = "own"
        \/ s = "own" /\ ~last /\ n = "unlock"
        \/ s = "unlock" /\ last
    BY <2>0, <2>1, <2>2
  <2> QED
    BY <1>1, <2>0, <2>1, <2>2, <2>3 DEF Leads, Steps
<1>2. CASE o = "add" /\ a # "cfs"
  <2>0. Len(Program(a, o)) = 7
    BY <1>2, AddProgramOfList
  <2>1. p \in {1, 2, 3, 4, 5, 6, 7}
    BY <2>0
  <2>2. /\ StepOf(a, o, 1) = "irqlock" /\ StepOf(a, o, 2) = "lock" /\ StepOf(a, o, 3) = "own"
        /\ StepOf(a, o, 4) = "unlock" /\ StepOf(a, o, 5) = "link" /\ StepOf(a, o, 6) = "irqunlock"
        /\ StepOf(a, o, 7) = "state"
    BY <1>2, AddProgramOfList DEF StepOf, Working
  <2>3. \/ s = "irqlock" /\ ~last /\ n = "lock"
        \/ s = "lock" /\ ~last /\ n = "own"
        \/ s = "own" /\ ~last /\ n = "unlock"
        \/ s = "unlock" /\ ~last /\ n = "link"
        \/ s = "link" /\ ~last /\ n = "irqunlock"
        \/ s = "irqunlock" /\ ~last /\ n = "state"
        \/ s = "state" /\ last
    BY <2>0, <2>1, <2>2
  <2> QED
    BY <1>2, <2>0, <2>1, <2>2, <2>3 DEF Leads, Steps
<1>3. CASE o = "add" /\ a = "cfs"
  <2>0. Len(Program(a, o)) = 8
    BY <1>3, AddProgramOfCFS
  <2>1. p \in {1, 2, 3, 4, 5, 6, 7, 8}
    BY <2>0
  <2>2. /\ StepOf(a, o, 1) = "irqlock" /\ StepOf(a, o, 2) = "walk" /\ StepOf(a, o, 3) = "lock"
        /\ StepOf(a, o, 4) = "own" /\ StepOf(a, o, 5) = "unlock" /\ StepOf(a, o, 6) = "link"
        /\ StepOf(a, o, 7) = "irqunlock" /\ StepOf(a, o, 8) = "state"
    BY <1>3, AddProgramOfCFS DEF StepOf, Working
  <2>3. \/ s = "irqlock" /\ ~last /\ n = "walk"
        \/ s = "walk" /\ ~last /\ n = "lock"
        \/ s = "lock" /\ ~last /\ n = "own"
        \/ s = "own" /\ ~last /\ n = "unlock"
        \/ s = "unlock" /\ ~last /\ n = "link"
        \/ s = "link" /\ ~last /\ n = "irqunlock"
        \/ s = "irqunlock" /\ ~last /\ n = "state"
        \/ s = "state" /\ last
    BY <2>0, <2>1, <2>2
  <2> QED
    BY <1>3, <2>0, <2>1, <2>2, <2>3 DEF Leads, Steps
<1>4. CASE o = "remove" /\ a # "cfs"
  <2>0. Len(Program(a, o)) = 11
    BY <1>4, RemoveProgramOfList
  <2>1. p \in {1, 2, 3, 4, 5, 6, 7, 8, 9, 10, 11}
    BY <2>0
  <2>2. /\ StepOf(a, o, 1) = "irqlock" /\ StepOf(a, o, 2) = "lock" /\ StepOf(a, o, 3) = "own"
        /\ StepOf(a, o, 4) = "unlock" /\ StepOf(a, o, 5) = "unlink" /\ StepOf(a, o, 6) = "lock"
        /\ StepOf(a, o, 7) = "own" /\ StepOf(a, o, 8) = "unlock" /\ StepOf(a, o, 9) = "irqunlock"
        /\ StepOf(a, o, 10) = "state" /\ StepOf(a, o, 11) = "yield"
    BY <1>4, RemoveProgramOfList DEF StepOf, Working
  <2>3. \/ s = "irqlock" /\ ~last /\ n = "lock"
        \/ s = "lock" /\ ~last /\ n = "own"
        \/ s = "own" /\ ~last /\ n = "unlock"
        \/ s = "unlock" /\ ~last /\ n = "unlink"
        \/ s = "unlink" /\ ~last /\ n = "lock"
        \/ s = "unlock" /\ ~last /\ n = "irqunlock"
        \/ s = "irqunlock" /\ ~last /\ n = "state"
        \/ s = "state" /\ ~last /\ n = "yield"
        \/ s = "yield" /\ last
    BY <2>0, <2>1, <2>2
  <2> QED
    BY <1>4, <2>0, <2>1, <2>2, <2>3 DEF Leads, Steps
<1>5. CASE o = "remove" /\ a = "cfs"
  <2>0. Len(Program(a, o)) = 9
    BY <1>5, RemoveProgramOfCFS
  <2>1. p \in {1, 2, 3, 4, 5, 6, 7, 8, 9}
    BY <2>0
  <2>2. /\ StepOf(a, o, 1) = "irqlock" /\ StepOf(a, o, 2) = "unlink" /\ StepOf(a, o, 3) = "lock"
        /\ StepOf(a, o, 4) = "own" /\ StepOf(a, o, 5) = "unlock" /\ StepOf(a, o, 6) = "uncount"
        /\ StepOf(a, o, 7) = "irqunlock" /\ StepOf(a, o, 8) = "state" /\ StepOf(a, o, 9) = "yield"
    BY <1>5, RemoveProgramOfCFS DEF StepOf, Working
  <2>3. \/ s = "irqlock" /\ ~last /\ n = "unlink"
        \/ s = "unlink" /\ ~last /\ n = "lock"
        \/ s = "lock" /\ ~last /\ n = "own"
        \/ s = "own" /\ ~last /\ n = "unlock"
        \/ s = "unlock" /\ ~last /\ n = "uncount"
        \/ s = "uncount" /\ ~last /\ n = "irqunlock"
        \/ s = "irqunlock" /\ ~last /\ n = "state"
        \/ s = "state" /\ ~last /\ n = "yield"
        \/ s = "yield" /\ last
    BY <2>0, <2>1, <2>2
  <2> QED
    BY <1>5, <2>0, <2>1, <2>2, <2>3 DEF Leads, Steps
<1> QED
  BY <1>1, <1>2, <1>3, <1>4, <1>5

\* An entity is counted, and no longer counted, by one statement each.
LEMMA CountFlow ==
    ASSUME NEW a, NEW o \in {"heap", "add", "remove"}, NEW p \in 1..Len(Program(a, o)),
           p < Len(Program(a, o))
    PROVE  LET s == StepOf(a, o, p) IN
           /\ PastLink(a, o, p + 1) <=> PastLink(a, o, p) \/ s = "link"
           /\ PastUncount(a, o, p + 1) <=>
                \/ PastUncount(a, o, p)
                \/ s = (IF a = "cfs" THEN "uncount" ELSE "unlink")
           /\ s = "link" => ~PastLink(a, o, p)
           /\ s = (IF a = "cfs" THEN "uncount" ELSE "unlink") => ~PastUncount(a, o, p)
           /\ s = "uncount" => a = "cfs"
<1>1. CASE o \in {"heap", "add"}
  BY <1>1, ProgramFlow DEF PastLink, PastUncount, Leads
<1>2. CASE o = "remove" /\ a # "cfs"
  <2>1. Len(Program(a, o)) = 11
    BY <1>2, RemoveProgramOfList
  <2>2. p \in {1, 2, 3, 4, 5, 6, 7, 8, 9, 10}
    BY <2>1
  <2>3. /\ StepOf(a, o, 1) = "irqlock" /\ StepOf(a, o, 2) = "lock" /\ StepOf(a, o, 3) = "own"
        /\ StepOf(a, o, 4) = "unlock" /\ StepOf(a, o, 5) = "unlink" /\ StepOf(a, o, 6) = "lock"
        /\ StepOf(a, o, 7) = "own" /\ StepOf(a, o, 8) = "unlock" /\ StepOf(a, o, 9) = "irqunlock"
        /\ StepOf(a, o, 10) = "state" /\ StepOf(a, o, 11) = "yield"
    BY <1>2, RemoveProgramOfList DEF StepOf, Working
  <2> QED
    BY <1>2, <2>2, <2>3 DEF PastLink, PastUncount
<1>3. CASE o = "remove" /\ a = "cfs"
  <2>1. Len(Program(a, o)) = 9
    BY <1>3, RemoveProgramOfCFS
  <2>2. p \in {1, 2, 3, 4, 5, 6, 7, 8}
    BY <2>1
  <2>3. /\ StepOf(a, o, 1) = "irqlock" /\ StepOf(a, o, 2) = "unlink" /\ StepOf(a, o, 3) = "lock"
        /\ StepOf(a, o, 4) = "own" /\ StepOf(a, o, 5) = "unlock" /\ StepOf(a, o, 6) = "uncount"
        /\ StepOf(a, o, 7) = "irqunlock" /\ StepOf(a, o, 8) = "state" /\ StepOf(a, o, 9) = "yield"
    BY <1>3, RemoveProgramOfCFS DEF StepOf, Working
  <2> QED
    BY <1>3, <2>2, <2>3 DEF PastLink, PastUncount
<1> QED
  BY <1>1, <1>2, <1>3

----------------------------------------------------------------------------
(* What a statement does to the contexts. *)

\* The thread goes on to the next statement of its operation.
Moved(t) ==
    /\ pc[t] < Length(op[t])
    /\ pc' = [pc EXCEPT ![t] = @ + 1]
    /\ op' = op /\ entity' = entity /\ handler' = handler /\ frame' = frame

\* The kinds of system there are.
LEMMA SystemFacts ==
    ASSUME TypeOK
    PROVE  /\ system.threads \in Nat \ {0} /\ alg \in {"rr", "cfs"}
           /\ Thread = 1..system.threads /\ Actor = 0..system.threads
           /\ Thread \subseteq Actor /\ 0 \in Actor /\ 0 \notin Thread /\ -1 \notin Actor
           /\ \A o \in Op : Working(o) <=> o \in {"heap", "add", "remove"}
  BY SystemsAssumption DEF TypeOK, alg, Thread, Actor, Working, Op

\* A thread at a statement is in an operation that leads on as its program says.
LEMMA AtStatement ==
    ASSUME IInv, NEW t \in Actor, NEW s \in Steps, At(t, s)
    PROVE  /\ op[t] \in {"heap", "add", "remove"} /\ Working(op[t])
           /\ s = StepOf(alg, op[t], pc[t])
           /\ Length(op[t]) = Len(Program(alg, op[t])) /\ Length(op[t]) \in Nat \ {0}
           /\ pc[t] \in 1..Length(op[t])
           /\ Leads(op[t], s, StepOf(alg, op[t], pc[t] + 1), pc[t] = Length(op[t]))
           /\ current = t
<1>1. op[t] \in Op /\ pc[t] \in 1..Length(op[t]) /\ s = StepOf(alg, op[t], pc[t]) /\ current = t
  BY DEF IInv, TypeOK, At, Step, alg
<1>2. op[t] # "none"
  BY <1>1 DEF StepOf, Working, Steps
<1>3. op[t] \in {"heap", "add", "remove"} /\ Working(op[t])
  BY <1>1, <1>2 DEF Op, Working
<1>4. Length(op[t]) = Len(Program(alg, op[t]))
  BY <1>3 DEF Length, alg
<1> QED
  BY <1>1, <1>3, <1>4, ProgramFlow

\* Advance moves on, but for the last statements of the three operations.
LEMMA AdvanceMoves ==
    ASSUME IInv, NEW t \in Actor, NEW s \in Steps, At(t, s), Advance(t),
           s \notin {"unlock", "state", "yield"} \/ (s = "unlock" /\ op[t] # "heap")
             \/ (s = "state" /\ op[t] = "remove")
    PROVE  Moved(t)
<1>1. pc[t] \in 1..Length(op[t]) /\ pc[t] # Length(op[t]) /\ Length(op[t]) \in Nat
  BY AtStatement DEF Leads, Steps
<1>2. pc[t] < Length(op[t])
  BY <1>1
<1> QED
  BY <1>2 DEF Advance, Moved, irq

\* The last statements return.
LEMMA AdvanceReturns ==
    ASSUME IInv, NEW t \in Actor, NEW s \in Steps, At(t, s), Advance(t),
           (s = "unlock" /\ op[t] = "heap") \/ (s = "state" /\ op[t] = "add") \/ s = "yield"
    PROVE  Resume(t)
<1>1. pc[t] = Length(op[t]) /\ Length(op[t]) \in Nat
  BY AtStatement DEF Leads, Steps
<1>2. ~(pc[t] < Length(op[t]))
  BY <1>1
<1> QED
  BY <1>2 DEF Advance

ContextTypes ==
    /\ op \in [Actor -> Op] /\ entity \in [Actor -> Actor] /\ pc \in [Actor -> Nat]
    /\ \A t \in Actor : pc[t] \in 1..Length(op[t])
    /\ handler \in -1..system.threads

LEMMA MovedTypes ==
    ASSUME IInv, NEW t \in Actor, Moved(t), system' = system
    PROVE  ContextTypes' /\ FrameInv'
<1>1. Actor' = Actor /\ \A o : Length(o)' = Length(o)
  BY DEF Actor, Length
<1>2. pc[t] \in Nat /\ pc[t] + 1 \in 1..Length(op[t]) /\ pc[t] + 1 \in Nat
  <2>1. Length(op[t]) \in Nat
    <3>1. CASE op[t] = "none"
      BY <3>1 DEF Length, Working
    <3>2. CASE op[t] # "none"
      <4>1. op[t] \in {"heap", "add", "remove"}
        BY <3>2 DEF IInv, TypeOK, Op
      <4>2. pc[t] \in 1..Len(Program(alg, op[t])) /\ Length(op[t]) = Len(Program(alg, op[t]))
        BY <3>2 DEF IInv, TypeOK, Length, Working, alg
      <4> QED
        BY <4>1, <4>2, ProgramFlow
    <3> QED
      BY <3>1, <3>2
  <2> QED
    BY <2>1 DEF IInv, TypeOK, Moved
<1>3. ContextTypes'
  <2>1. op' \in [Actor -> Op] /\ entity' \in [Actor -> Actor] /\ handler' \in -1..system.threads
    BY DEF IInv, TypeOK, Moved
  <2>2. pc' \in [Actor -> Nat]
    BY <1>2 DEF IInv, Moved
  <2>3. ASSUME NEW u \in Actor PROVE pc'[u] \in 1..(IF Working(op[u]) THEN Len(Program(alg, op[u])) ELSE 1)
    BY <1>2 DEF IInv, TypeOK, Moved, Length, alg
  <2> QED
    BY <2>1, <2>2, <2>3, <1>1 DEF ContextTypes, Moved, Actor, Length, alg
<1>4. FrameInv'
  BY DEF IInv, FrameInv, Moved, Actor, Length
<1> QED
  BY <1>3, <1>4

\* Only the write of the state moves past what Subject says.
LEMMA MovedEntities ==
    ASSUME IInv, NEW t \in Actor, NEW s \in Steps \ {"state"}, At(t, s), Moved(t),
           system' = system, runnable' = runnable
    PROVE  EntityInv'
<1>1. /\ op[t] \in {"heap", "add", "remove"} /\ s = StepOf(alg, op[t], pc[t])
      /\ Leads(op[t], s, StepOf(alg, op[t], pc[t] + 1), pc[t] = Length(op[t]))
  BY AtStatement
<1>2. pc[t] # Length(op[t]) /\ s # "yield"
  <2>1. pc[t] < Length(op[t]) /\ pc[t] \in 1..Length(op[t])
    BY AtStatement DEF Moved
  <2>2. pc[t] # Length(op[t])
    BY <2>1
  <2> QED
    BY <1>1, <2>2 DEF Leads
<1>3. StepOf(alg, op[t], pc[t] + 1) # "yield"
  BY <1>1, <1>2 DEF Leads, Steps
<1>4. \A u \in Actor : pc'[u] = IF u = t THEN pc[t] + 1 ELSE pc[u]
  BY DEF IInv, Moved
<1>5. ASSUME NEW u \in Actor
      PROVE  Subject(runnable, system.threads, alg, op[u], pc'[u], entity[u])
  <2>1. Subject(runnable, system.threads, alg, op[u], pc[u], entity[u])
    BY DEF IInv, EntityInv
  <2> QED
    BY <2>1, <1>1, <1>2, <1>3, <1>4 DEF Subject
<1> QED
  BY <1>5 DEF IInv, EntityInv, Moved, Actor, alg

\* Sections begin and end with the interrupt lock.
LEMMA MovedFlags ==
    ASSUME IInv, NEW t \in Actor, NEW s \in Steps \ {"irqlock", "irqunlock", "state"},
           At(t, s), Moved(t), system' = system, flag' = flag, saved' = saved
    PROVE  FlagInv'
<1>1. /\ op[t] \in {"heap", "add", "remove"} /\ s = StepOf(alg, op[t], pc[t])
      /\ Leads(op[t], s, StepOf(alg, op[t], pc[t] + 1), pc[t] = Length(op[t]))
  BY AtStatement
<1>2. pc[t] # Length(op[t])
  <2>1. pc[t] < Length(op[t]) /\ pc[t] \in 1..Length(op[t])
    BY AtStatement DEF Moved
  <2> QED
    BY <2>1
<1>3. StepOf(alg, op[t], pc[t] + 1) \notin {"irqlock", "state", "yield"} /\ s # "yield"
  BY <1>1, <1>2 DEF Leads, Steps
<1>4. \A u \in Actor : pc'[u] = IF u = t THEN pc[t] + 1 ELSE pc[u]
  BY DEF IInv, Moved
<1>5. ASSUME NEW u \in Actor
      PROVE  InSection(alg, op[u], pc'[u]) <=> InSection(alg, op[u], pc[u])
  BY <1>1, <1>3, <1>4 DEF InSection
<1> QED
  BY <1>5 DEF IInv, FlagInv, Moved, Actor, alg

\* Statements outside of the heap stay outside.
LEMMA MovedHeap ==
    ASSUME IInv, NEW t \in Actor, NEW s \in Steps \ {"lock", "own", "unlock"},
           At(t, s), Moved(t), system' = system, locked' = locked, owner' = owner
    PROVE  HeapInv'
<1>1. /\ op[t] \in {"heap", "add", "remove"} /\ s = StepOf(alg, op[t], pc[t])
      /\ Leads(op[t], s, StepOf(alg, op[t], pc[t] + 1), pc[t] = Length(op[t]))
  BY AtStatement
<1>2. pc[t] # Length(op[t])
  <2>1. pc[t] < Length(op[t]) /\ pc[t] \in 1..Length(op[t])
    BY AtStatement DEF Moved
  <2> QED
    BY <2>1
<1>3. StepOf(alg, op[t], pc[t] + 1) \notin {"own", "unlock"}
  BY <1>1, <1>2 DEF Leads, Steps
<1>4. \A u \in Actor : pc'[u] = IF u = t THEN pc[t] + 1 ELSE pc[u]
  BY DEF IInv, Moved
<1>5. ASSUME NEW u \in Actor
      PROVE  /\ StepOf(alg, op[u], pc'[u]) = "own" <=> StepOf(alg, op[u], pc[u]) = "own"
             /\ StepOf(alg, op[u], pc'[u]) = "unlock" <=> StepOf(alg, op[u], pc[u]) = "unlock"
  BY <1>1, <1>3, <1>4
<1>6. op' = op /\ handler' = handler /\ frame' = frame /\ Actor' = Actor /\ alg' = alg
      /\ handler \in Actor \cup {-1}
  BY DEF Moved, Actor, alg, IInv, TypeOK
<1>7. MutualExclusion'
  BY <1>5, <1>6 DEF IInv, HeapInv, MutualExclusion, Holds, Step, alg
<1>8. (handler # -1 => ~(InHeap(alg, op[handler], pc[handler]) /\ InHeap(alg, frame[1], frame[2])))'
  BY <1>5, <1>6 DEF IInv, HeapInv, InHeap
<1>9. OwnerIsHolder' /\ (handler # -1 /\ Step(frame[1], frame[2]) = "unlock" => owner = handler)'
  BY <1>5, <1>6 DEF IInv, HeapInv, OwnerIsHolder, Step, alg
<1> QED
  BY <1>7, <1>8, <1>9 DEF HeapInv

\* Few statements change what is counted.
LEMMA MovedCounted ==
    ASSUME IInv, NEW t \in Actor, NEW s \in Steps, At(t, s), Moved(t),
           s \notin {"link", "uncount", "state"}, s = "unlink" => alg = "cfs",
           system' = system, runnable' = runnable
    PROVE  Counted' = Counted
<1>1. /\ op[t] \in {"heap", "add", "remove"} /\ s = StepOf(alg, op[t], pc[t])
      /\ pc[t] \in 1..Len(Program(alg, op[t])) /\ pc[t] < Len(Program(alg, op[t]))
  BY AtStatement DEF Moved
<1>2. /\ PastLink(alg, op[t], pc[t] + 1) <=> PastLink(alg, op[t], pc[t])
      /\ PastUncount(alg, op[t], pc[t] + 1) <=> PastUncount(alg, op[t], pc[t])
  BY <1>1, CountFlow
<1>3. \A u \in Actor : pc'[u] = IF u = t THEN pc[t] + 1 ELSE pc[u]
  BY DEF IInv, Moved
<1>4. \A u \in Actor : /\ PastLink(alg, op[u], pc'[u]) <=> PastLink(alg, op[u], pc[u])
                       /\ PastUncount(alg, op[u], pc'[u]) <=> PastUncount(alg, op[u], pc[u])
  BY <1>2, <1>3
<1>5. ASSUME NEW e \in Thread
      PROVE  Counts(e)' <=> Counts(e)
  BY <1>4 DEF Counts, Moved, Actor, alg
<1> QED
  BY <1>5 DEF Counted, Thread

\* What a thread is in after Resume, case by case.
LEMMA ResumeFacts ==
    ASSUME IInv, NEW t \in Actor, Resume(t)
    PROVE  /\ handler = t =>
                /\ \A u \in Actor : /\ op'[u] = IF u = t THEN frame[1] ELSE op[u]
                                    /\ pc'[u] = IF u = t THEN frame[2] ELSE pc[u]
                                    /\ entity'[u] = IF u = t THEN frame[3] ELSE entity[u]
                /\ handler' = -1 /\ frame' = <<"none", 1, 0>>
           /\ handler # t =>
                /\ \A u \in Actor : /\ op'[u] = IF u = t THEN "none" ELSE op[u]
                                    /\ pc'[u] = IF u = t THEN 1 ELSE pc[u]
                                    /\ entity'[u] = IF u = t THEN 0 ELSE entity[u]
                /\ handler' = handler /\ frame' = frame
           /\ op' \in [Actor -> Op] /\ pc' \in [Actor -> Nat] /\ entity' \in [Actor -> Actor]
<1>1. op \in [Actor -> Op] /\ pc \in [Actor -> Nat] /\ entity \in [Actor -> Actor]
      /\ frame[1] \in Op /\ frame[2] \in Nat /\ frame[3] \in Actor
      /\ 0 \in Actor /\ "none" \in Op /\ 1 \in Nat
  BY SystemFacts DEF IInv, TypeOK, FrameInv, Op
<1> QED
  BY <1>1 DEF Resume, irq

LEMMA ResumedTypes ==
    ASSUME IInv, NEW t \in Actor, Resume(t), system' = system
    PROVE  ContextTypes' /\ FrameInv'
<1>1. Length("none") = 1 /\ frame[2] \in 1..Length(frame[1]) /\ handler \in -1..system.threads
      /\ \A u \in Actor : pc[u] \in 1..Length(op[u])
  BY DEF IInv, FrameInv, Length, Working, TypeOK
<1>2. ASSUME NEW u \in Actor
      PROVE  pc'[u] \in 1..(IF Working(op'[u]) THEN Len(Program(alg, op'[u])) ELSE 1)
  <2>1. \/ op'[u] = frame[1] /\ pc'[u] = frame[2]
        \/ op'[u] = "none" /\ pc'[u] = 1
        \/ op'[u] = op[u] /\ pc'[u] = pc[u]
    BY ResumeFacts
  <2>2. pc'[u] \in 1..Length(op'[u])
    BY <2>1, <1>1
  <2> QED
    BY <2>2 DEF Length, alg
<1>3. ContextTypes'
  <2>1. (\A u \in Actor : pc[u] \in 1..Length(op[u]))'
    BY <1>2 DEF Actor, Length, alg
  <2>2. handler' \in -1..system.threads
    BY <1>1, ResumeFacts, SystemFacts DEF IInv
  <2> QED
    BY <2>1, <2>2, ResumeFacts DEF ContextTypes, Actor
<1>4. FrameInv'
  <2>1. CASE handler = t
    <3>1. handler' = -1 /\ frame' = <<"none", 1, 0>> /\ 0 \in Actor
      BY <2>1, ResumeFacts, SystemFacts DEF IInv
    <3> QED
      BY <3>1 DEF FrameInv, Op, Length, Working, Actor
  <2>2. CASE handler # t
    <3>1. handler' = handler /\ frame' = frame /\ (handler # -1 => op'[handler] = op[handler])
      BY <2>2, <1>1, ResumeFacts, SystemFacts DEF IInv
    <3> QED
      BY <3>1 DEF FrameInv, Length, Actor, IInv
  <2> QED
    BY <2>1, <2>2
<1> QED
  BY <1>3, <1>4

\* The write of a state changes only the subject of the operation that ends with it.
LEMMA ResumedEntities ==
    ASSUME IInv, NEW t \in Actor, Resume(t), system' = system,
           \A e \in Thread \ {entity[t]} : e \in runnable' <=> e \in runnable
    PROVE  EntityInv'
<1> DEFINE N == system.threads
<1>1. /\ Thread = 1..N /\ 0 \notin Thread /\ 0 \in Actor
      /\ \A u \in Actor : Subject(runnable, N, alg, op[u], pc[u], entity[u])
      /\ Subject(runnable, N, alg, frame[1], frame[2], frame[3])
      /\ \A v, u \in Actor : v # u /\ entity[v] = entity[u] => entity[v] = 0
      /\ \A u \in Actor : entity[u] = frame[3] => frame[3] = 0
      /\ \A u \in Actor : op[u] \in Op /\ frame[1] \in Op
  BY SystemFacts DEF IInv, EntityInv, TypeOK, FrameInv
<1>2. ASSUME NEW u \in Actor \ {t}
      PROVE  Subject(runnable', N, alg, op[u], pc[u], entity[u])
  BY <1>1 DEF Subject
<1>3. Subject(runnable', N, alg, frame[1], frame[2], frame[3])
  BY <1>1 DEF Subject
<1>4. Subject(runnable', N, alg, "none", 1, 0)
  BY DEF Subject
<1>5. ASSUME NEW u \in Actor
      PROVE  Subject(runnable', N, alg, op'[u], pc'[u], entity'[u])
  BY <1>2, <1>3, <1>4, ResumeFacts
<1>6. Subject(runnable', N, alg, frame'[1], frame'[2], frame'[3])
  BY <1>3, <1>4, ResumeFacts
<1>7. \A v, u \in Actor : v # u /\ entity'[v] = entity'[u] => entity'[v] = 0
  <2>1. CASE handler = t
    <3>1. \A u \in Actor : entity'[u] = IF u = t THEN frame[3] ELSE entity[u]
      BY <2>1, ResumeFacts
    <3> QED
      BY <3>1, <1>1
  <2>2. CASE handler # t
    <3>1. \A u \in Actor : entity'[u] = IF u = t THEN 0 ELSE entity[u]
      BY <2>2, ResumeFacts
    <3> QED
      BY <3>1, <1>1
  <2> QED
    BY <2>1, <2>2
<1>8. \A u \in Actor : entity'[u] = frame'[3] => frame'[3] = 0
  BY <1>1, ResumeFacts
<1> QED
  BY <1>5, <1>6, <1>7, <1>8 DEF EntityInv, Actor, alg

\* A thread that returns outside of its sections has interrupts enabled.
LEMMA ResumedFlags ==
    ASSUME IInv, NEW t \in Actor, Resume(t), system' = system, saved' = saved,
           flag' = [flag EXCEPT ![t] = TRUE]
    PROVE  FlagInv'
<1>1. /\ flag \in [Actor -> BOOLEAN] /\ ~InSection(alg, "none", 1)
      /\ handler = t => ~InSection(alg, frame[1], frame[2])
      /\ handler \in Actor \cup {-1} /\ -1 \notin Actor
  BY SystemFacts DEF IInv, TypeOK, FlagInv, InSection, Actor
<1>2. \A u \in Actor : flag'[u] = IF u = t THEN TRUE ELSE flag[u]
  BY <1>1
<1>3. ASSUME NEW u \in Actor \ {t}
      PROVE  /\ handler' # u => /\ flag'[u] <=> ~InSection(alg, op'[u], pc'[u])
                                /\ InSection(alg, op'[u], pc'[u]) => saved'[u]
             /\ handler' = u => /\ ~flag'[u] /\ ~InSection(alg, frame'[1], frame'[2])
                                /\ InSection(alg, op'[u], pc'[u]) => ~saved'[u]
  BY <1>1, <1>2, ResumeFacts DEF IInv, FlagInv
<1>4. handler' # t /\ ~InSection(alg, op'[t], pc'[t]) /\ flag'[t]
  BY <1>1, <1>2, ResumeFacts
<1> QED
  BY <1>3, <1>4 DEF FlagInv, Actor, alg

\* A return from outside of the heap takes no context into it and none out of it.
LEMMA ResumedHeap ==
    ASSUME IInv, NEW t \in Actor, Resume(t), system' = system, locked' = locked,
           owner' = owner, ~InHeap(alg, op[t], pc[t])
    PROVE  HeapInv'
<1>1. /\ ~InHeap(alg, "none", 1) /\ StepOf(alg, "none", 1) = "user"
      /\ handler \in Actor \cup {-1} /\ -1 \notin Actor
  BY SystemFacts DEF IInv, TypeOK, InHeap, Actor, StepOf, Working
<1>2. ASSUME NEW u \in Actor
      PROVE  /\ InHeap(alg, op'[u], pc'[u]) \/ (handler' = u /\ InHeap(alg, frame'[1], frame'[2]))
                <=> InHeap(alg, op[u], pc[u]) \/ (handler = u /\ InHeap(alg, frame[1], frame[2]))
             /\ StepOf(alg, op'[u], pc'[u]) = "unlock" => owner' = u
  <2>1. CASE handler = t
    BY <2>1, <1>1, ResumeFacts DEF IInv, HeapInv, OwnerIsHolder, Step, alg
  <2>2. CASE handler # t
    BY <2>2, <1>1, ResumeFacts DEF IInv, HeapInv, OwnerIsHolder, Step, alg
  <2> QED
    BY <2>1, <2>2
<1>3. MutualExclusion' /\ OwnerIsHolder'
  BY <1>2 DEF IInv, HeapInv, MutualExclusion, OwnerIsHolder, Holds, Step, InHeap, Actor, alg
<1>4. /\ (handler # -1 => ~(InHeap(alg, op[handler], pc[handler]) /\ InHeap(alg, frame[1], frame[2])))'
      /\ (handler # -1 /\ Step(frame[1], frame[2]) = "unlock" => owner = handler)'
  BY <1>1, ResumeFacts DEF IInv, HeapInv, Step, alg
<1> QED
  BY <1>3, <1>4 DEF HeapInv

\* What is counted does not change if the subject of the operation was counted just if
\* it is RUNNABLE afterwards.
LEMMA ResumedCounted ==
    ASSUME IInv, NEW t \in Actor, Resume(t), system' = system,
           \A e \in Thread \ {entity[t]} : e \in runnable' <=> e \in runnable,
           entity[t] \in Thread => (entity[t] \in runnable' <=> Counts(entity[t]))
    PROVE  Counted' = Counted
<1>1. /\ 0 \notin Thread /\ Thread' = Thread
      /\ ~PastLink(alg, "none", 1) /\ ~PastUncount(alg, "none", 1)
      /\ \A v, u \in Actor : v # u /\ entity[v] = entity[u] => entity[v] = 0
      /\ \A u \in Actor : entity[u] = frame[3] => frame[3] = 0
      /\ handler = -1 => frame = <<"none", 1, 0>>
  BY SystemFacts DEF IInv, EntityInv, Thread, PastLink, PastUncount, FrameInv
<1>2. ASSUME NEW e \in Thread, e = entity[t]
      PROVE  Counts(e)' <=> Counts(e)
  <2>1. \A u \in Actor : entity'[u] # e /\ frame'[3] # e
    BY <1>1, <1>2, ResumeFacts
  <2> QED
    BY <2>1, <1>2 DEF Counts, Actor, alg
<1>3. ASSUME NEW e \in Thread, e # entity[t]
      PROVE  Counts(e)' <=> Counts(e)
  <2>1. e # 0
    BY <1>1
  <2>2. CASE handler = t
    <3>1. /\ frame'[3] = 0
          /\ \A u \in Actor : u # t => /\ entity'[u] = entity[u] /\ op'[u] = op[u]
                                       /\ pc'[u] = pc[u]
          /\ entity'[t] = frame[3] /\ op'[t] = frame[1] /\ pc'[t] = frame[2]
      BY <2>2, ResumeFacts
    <3> QED
      BY <3>1, <2>1, <1>3 DEF Counts, Actor, alg
  <2>3. CASE handler # t
    <3>1. /\ frame' = frame
          /\ \A u \in Actor : u # t => /\ entity'[u] = entity[u] /\ op'[u] = op[u]
                                       /\ pc'[u] = pc[u]
          /\ entity'[t] = 0
      BY <2>3, ResumeFacts
    <3> QED
      BY <3>1, <2>1, <1>3 DEF Counts, Actor, alg
  <2> QED
    BY <2>2, <2>3
<1> QED
  BY <1>1, <1>2, <1>3 DEF Counted

----------------------------------------------------------------------------
(* The run queue and its count. *)

\* The number of entities that are counted is a number of threads.
LEMMA CountFacts ==
    ASSUME NEW n \in Nat, NEW S \in SUBSET (1..n)
    PROVE  IsFiniteSet(S) /\ Cardinality(S) \in 0..n
<1>1. IsFiniteSet(1..n) /\ Cardinality(1..n) = n
  <2>1. n = 0 => 1..n = {}
    OBVIOUS
  <2> QED
    BY FS_Interval
<1>2. IsFiniteSet(S) /\ Cardinality(S) <= n
  BY <1>1, FS_Subset
<1> QED
  BY <1>2, FS_CardinalityType

\* schedule() changes the order of the run queue at most.
LEMMA SwitchFacts ==
    ASSUME IInv, Switch
    PROVE  /\ queue' \in Seq(Thread) /\ current' \in Actor
           /\ Range(queue') = Range(queue) /\ (IsInjective(queue) => IsInjective(queue'))
<1>1. queue \in Seq(Thread) /\ Thread \subseteq Actor /\ 0 \in Actor
  BY SystemFacts DEF IInv, TypeOK
<1>2. CASE queue = <<>>
  BY <1>1, <1>2 DEF Switch
<1>3. CASE queue # <<>>
  <2>1. Len(queue) \in Nat \ {0} /\ DOMAIN queue = 1..Len(queue)
    BY <1>1, <1>3, EmptySeq, LenProperties
  <2>2. queue[1] = Head(queue) /\ \A i \in DOMAIN queue : queue[i] \in Thread
    BY <1>1, <2>1
  <2>3. CASE system.algorithm = "rr"
    <3>1. queue' = Append(Tail(queue), Head(queue)) /\ current' = queue[1]
      BY <1>3, <2>2, <2>3 DEF Switch
    <3>2. current' \in Actor
      BY <3>1, <2>1, <2>2, <1>1
    <3> QED
      BY <3>1, <3>2, <1>1, <1>3, SkewedList
  <2>4. CASE system.algorithm # "rr"
    BY <1>1, <1>3, <2>2, <2>4 DEF Switch
  <2> QED
    BY <2>3, <2>4
<1> QED
  BY <1>2, <1>3

\* A step that changes who runs, and nothing else.
LEMMA SwitchOnly ==
    ASSUME IInv, Switch,
           UNCHANGED <<system, mutex, count, runnable, flag, saved, thread, slot, irq>>
    PROVE  IInv'
<1>1. /\ queue' \in Seq(Thread) /\ current' \in Actor
      /\ Range(queue') = Range(queue) /\ (IsInjective(queue) => IsInjective(queue'))
  BY SwitchFacts
<1>2. /\ system' = system /\ locked' = locked /\ owner' = owner /\ count' = count
      /\ runnable' = runnable /\ flag' = flag /\ saved' = saved /\ op' = op /\ pc' = pc
      /\ entity' = entity /\ slot' = slot /\ handler' = handler /\ frame' = frame
  BY DEF mutex, thread, irq
<1>3. TypeOK' /\ (pc \in [Actor -> Nat])'
  BY <1>1, <1>2 DEF IInv, TypeOK, Thread, Actor, Length
<1>4. FrameInv'
  BY <1>2 DEF IInv, FrameInv, Actor, Length
<1>5. EntityInv'
  BY <1>2 DEF IInv, EntityInv, Actor, alg
<1>6. HeapInv'
  BY <1>2 DEF IInv, HeapInv, MutualExclusion, OwnerIsHolder, Holds, Step, Actor, alg
<1>7. FlagInv'
  BY <1>2 DEF IInv, FlagInv, Actor, alg
<1>8. QueueInv'
  <2>1. Counted' = Counted
    BY <1>2 DEF Counted, Counts, Thread, Actor, alg
  <2> QED
    BY <2>1, <1>1, <1>2 DEF IInv, QueueInv, alg
<1> QED
  BY <1>3, <1>4, <1>5, <1>6, <1>7, <1>8 DEF IInv

\* A step that leaves the run queue and what is counted alone.
LEMMA QueueKept ==
    ASSUME IInv, system' = system, queue' = queue, count' = count, Counted' = Counted
    PROVE  QueueInv'
  BY DEF IInv, QueueInv, alg

\* What is left of the types.
LEMMA TypesKept ==
    ASSUME IInv, system' = system, ContextTypes',
           locked' \in BOOLEAN, owner' \in -1..system.threads,
           queue' \in Seq(Thread), count' \in 0..system.threads, runnable' \subseteq Thread,
           current' \in Actor, flag' \in [Actor -> BOOLEAN], saved' \in [Actor -> BOOLEAN],
           slot' \in [Actor -> {Freed} \cup Actor]
    PROVE  TypeOK' /\ (pc \in [Actor -> Nat])'
  BY DEF IInv, TypeOK, ContextTypes, Thread, Actor, Length

----------------------------------------------------------------------------
(* Mutex *)

LEMMA TestAndSetKeeps ==
    ASSUME IInv, NEW t \in Actor, TestAndSet(t), system' = system
    PROVE  IInv'
<1>1. CASE locked
  <2>1. Switch /\ UNCHANGED <<system, mutex, count, runnable, flag, saved, thread, slot, irq>>
    BY <1>1 DEF TestAndSet, mutex, thread, irq, IInv, TypeOK
  <2> QED
    BY <2>1, SwitchOnly
<1>2. CASE ~locked
  <2>1. /\ At(t, "lock") /\ Advance(t) /\ "lock" \in Steps
        /\ locked' = TRUE /\ owner' = owner /\ queue' = queue /\ count' = count /\ slot' = slot
        /\ runnable' = runnable /\ current' = current /\ flag' = flag /\ saved' = saved
    BY <1>2 DEF TestAndSet, Steps
  <2>2. Moved(t)
    BY <2>1, AdvanceMoves
  <2>3. ContextTypes' /\ FrameInv'
    BY <2>2, MovedTypes
  <2>4. TypeOK' /\ (pc \in [Actor -> Nat])'
    BY <2>1, <2>3, TypesKept DEF IInv, TypeOK
  <2>5. EntityInv'
    BY <2>1, <2>2, MovedEntities
  <2>6. FlagInv'
    BY <2>1, <2>2, MovedFlags
  <2>7. QueueInv'
    BY <2>1, <2>2, MovedCounted, QueueKept
  <2>8. HeapInv'
    <3>1. StepOf(alg, op[t], pc[t]) = "lock" /\ StepOf(alg, op[t], pc[t] + 1) = "own"
      BY <2>1, AtStatement DEF Leads
    <3>2. \A u \in Actor : pc'[u] = IF u = t THEN pc[t] + 1 ELSE pc[u]
      BY <2>2 DEF IInv, Moved
    <3>3. \A u \in Actor : ~InHeap(alg, op[u], pc[u])
                           /\ ~(handler = u /\ InHeap(alg, frame[1], frame[2]))
      BY <1>2 DEF IInv, HeapInv, MutualExclusion, Holds, Step, InHeap, alg
    <3>4. op' = op /\ handler' = handler /\ frame' = frame /\ Actor' = Actor /\ alg' = alg
          /\ handler \in Actor \cup {-1}
      BY <2>2 DEF Moved, Actor, alg, IInv, TypeOK
    <3>5. \A u \in Actor : /\ Holds(u)' <=> u = t
                           /\ ~(Step(op[u], pc[u]) = "unlock")'
      BY <3>1, <3>2, <3>3, <3>4 DEF Holds, Step, InHeap, alg
    <3>6. handler' # -1 => ~InHeap(alg, frame'[1], frame'[2])
      BY <3>3, <3>4
    <3>7. MutualExclusion' /\ OwnerIsHolder'
      BY <3>5, <3>4, <2>1 DEF MutualExclusion, OwnerIsHolder
    <3> QED
      BY <3>4, <3>6, <3>7 DEF HeapInv, InHeap, Step, alg
  <2> QED
    BY <2>3, <2>4, <2>5, <2>6, <2>7, <2>8 DEF IInv
<1> QED
  BY <1>1, <1>2

LEMMA SetOwnerKeeps ==
    ASSUME IInv, NEW t \in Actor, SetOwner(t), system' = system
    PROVE  IInv'
<1>1. /\ At(t, "own") /\ Advance(t) /\ "own" \in Steps /\ owner' = t
      /\ locked' = locked /\ queue' = queue /\ count' = count /\ slot' = slot
      /\ runnable' = runnable /\ current' = current /\ flag' = flag /\ saved' = saved
  BY DEF SetOwner, Steps, list
<1>2. Moved(t)
  BY <1>1, AdvanceMoves
<1>3. ContextTypes' /\ FrameInv'
  BY <1>2, MovedTypes
<1>4. TypeOK' /\ (pc \in [Actor -> Nat])'
  <2>1. owner' \in -1..system.threads
    BY <1>1, SystemFacts DEF IInv
  <2> QED
    BY <1>1, <1>3, <2>1, TypesKept DEF IInv, TypeOK
<1>5. EntityInv'
  BY <1>1, <1>2, MovedEntities
<1>6. FlagInv'
  BY <1>1, <1>2, MovedFlags
<1>7. QueueInv'
  BY <1>1, <1>2, MovedCounted, QueueKept
<1>8. HeapInv'
  <2>1. StepOf(alg, op[t], pc[t]) = "own" /\ StepOf(alg, op[t], pc[t] + 1) = "unlock"
    BY <1>1, AtStatement DEF Leads
  <2>2. \A u \in Actor : pc'[u] = IF u = t THEN pc[t] + 1 ELSE pc[u]
    BY <1>2 DEF IInv, Moved
  <2>3. op' = op /\ handler' = handler /\ frame' = frame /\ Actor' = Actor /\ alg' = alg
        /\ handler \in Actor \cup {-1}
    BY <1>2 DEF Moved, Actor, alg, IInv, TypeOK
  <2>4. \A u \in Actor : Holds(u)' <=> Holds(u)
    BY <2>1, <2>2, <2>3 DEF Holds, Step, alg
  <2>5. MutualExclusion'
    BY <2>3, <2>4, <1>1 DEF IInv, HeapInv, MutualExclusion
  <2>6. Holds(t)
    BY <2>1 DEF Holds, Step, alg
  <2>7. \A u \in Actor : Step(op[u], pc[u])' = "unlock" => u = t
    BY <2>4, <2>6 DEF IInv, HeapInv, MutualExclusion, Holds
  <2>8. handler # -1 => ~InHeap(alg, frame[1], frame[2])
    BY <2>1, <2>3, <2>6 DEF IInv, HeapInv, MutualExclusion, Holds, Step, InHeap, alg
  <2>9. OwnerIsHolder'
    BY <2>3, <2>7, <1>1 DEF OwnerIsHolder
  <2> QED
    BY <2>3, <2>5, <2>8, <2>9 DEF HeapInv, InHeap, Step, alg
<1> QED
  BY <1>3, <1>4, <1>5, <1>6, <1>7, <1>8 DEF IInv

\* Whoever leaves the heap was the only one in it.
LEMMA UnlockKeeps ==
    ASSUME IInv, NEW t \in Actor, Unlock(t), system' = system
    PROVE  IInv'
<1>1. /\ At(t, "unlock") /\ Advance(t) /\ "unlock" \in Steps /\ locked' = FALSE
      /\ owner' = owner /\ queue' = queue /\ count' = count /\ slot' = slot
      /\ runnable' = runnable /\ current' = current /\ flag' = flag /\ saved' = saved
  BY DEF Unlock, Steps, list
<1>2. /\ StepOf(alg, op[t], pc[t]) = "unlock" /\ op[t] \in {"heap", "add", "remove"}
      /\ op[t] # "heap" => StepOf(alg, op[t], pc[t] + 1) \notin {"own", "unlock"}
      /\ handler \in Actor \cup {-1} /\ -1 \notin Actor
      /\ ~InHeap(alg, "none", 1) /\ Actor' = Actor /\ alg' = alg
  <2>1. /\ StepOf(alg, op[t], pc[t]) = "unlock" /\ op[t] \in {"heap", "add", "remove"}
        /\ op[t] # "heap" => StepOf(alg, op[t], pc[t] + 1) \notin {"own", "unlock"}
    BY <1>1, AtStatement DEF Leads
  <2>2. handler \in Actor \cup {-1} /\ -1 \notin Actor
    BY SystemFacts DEF IInv, TypeOK, Actor
  <2> QED
    BY <2>1, <2>2 DEF Actor, InHeap, StepOf, Working, alg
<1>3. Holds(t) /\ (handler = t => ~InHeap(alg, frame[1], frame[2]))
  BY <1>2 DEF Holds, Step, alg, IInv, HeapInv, InHeap
<1>4. \A u \in Actor : u # t => /\ ~InHeap(alg, op[u], pc[u])
                                /\ handler = u => ~InHeap(alg, frame[1], frame[2])
  BY <1>3 DEF IInv, HeapInv, MutualExclusion, Holds, Step, InHeap, alg
<1>5. ASSUME ContextTypes', FrameInv', EntityInv', FlagInv', Counted' = Counted,
             \A u \in Actor : /\ ~InHeap(alg, op'[u], pc'[u])
                              /\ handler' = u => ~InHeap(alg, frame'[1], frame'[2])
      PROVE  IInv'
  <2>1. TypeOK' /\ (pc \in [Actor -> Nat])'
    BY <1>1, <1>5, TypesKept DEF IInv, TypeOK
  <2>2. QueueInv'
    BY <1>1, <1>5, QueueKept
  <2>3. \A u \in Actor : ~Holds(u)' /\ ~(Step(op[u], pc[u]) = "unlock")'
    BY <1>5, <1>2 DEF Holds, Step, InHeap, alg
  <2>4. MutualExclusion' /\ OwnerIsHolder'
    BY <2>3, <1>1, <1>2 DEF MutualExclusion, OwnerIsHolder
  <2>5. handler' \in Actor \cup {-1}
    BY <1>5 DEF ContextTypes, Actor
  <2>6. handler' # -1 => ~InHeap(alg, frame'[1], frame'[2])
    BY <1>5, <2>5
  <2>7. HeapInv'
    BY <2>4, <2>6, <1>2 DEF HeapInv, InHeap, Step, alg
  <2> QED
    BY <1>5, <2>1, <2>2, <2>7 DEF IInv
<1>6. CASE op[t] # "heap"
  <2>1. Moved(t)
    BY <1>1, <1>6, AdvanceMoves
  <2>2. ContextTypes' /\ FrameInv' /\ EntityInv' /\ FlagInv' /\ Counted' = Counted
    BY <1>1, <2>1, MovedTypes, MovedEntities, MovedFlags, MovedCounted
  <2>3. \A u \in Actor : pc'[u] = IF u = t THEN pc[t] + 1 ELSE pc[u]
    BY <2>1 DEF IInv, Moved
  <2>4. ~InHeap(alg, op[t], pc[t] + 1)
    BY <1>2, <1>6 DEF InHeap
  <2>5. \A u \in Actor : /\ ~InHeap(alg, op'[u], pc'[u])
                         /\ handler' = u => ~InHeap(alg, frame'[1], frame'[2])
    BY <1>3, <1>4, <2>1, <2>3, <2>4 DEF Moved
  <2> QED
    BY <1>5, <2>2, <2>5
<1>7. CASE op[t] = "heap"
  <2>1. Resume(t)
    BY <1>1, <1>7, AdvanceReturns
  <2>2. entity[t] = 0 /\ 0 \notin Thread /\ handler # t /\ flag[t]
        /\ flag \in [Actor -> BOOLEAN]
    <3>1. entity[t] = 0 /\ 0 \notin Thread
      BY <1>7, SystemFacts DEF IInv, EntityInv, Subject
    <3>2. handler # t /\ flag \in [Actor -> BOOLEAN]
      BY <1>7, <1>2 DEF IInv, FrameInv, TypeOK
    <3>3. flag[t]
      BY <1>7, <3>2 DEF IInv, FlagInv, InSection
    <3> QED
      BY <3>1, <3>2, <3>3
  <2>3. flag' = [flag EXCEPT ![t] = TRUE]
    BY <1>1, <2>2
  <2>4. ContextTypes' /\ FrameInv' /\ EntityInv' /\ Counted' = Counted
    BY <1>1, <2>1, <2>2, ResumedTypes, ResumedEntities, ResumedCounted
  <2>5. FlagInv'
    BY <1>1, <2>1, <2>3, ResumedFlags
  <2>6. \A u \in Actor : /\ ~InHeap(alg, op'[u], pc'[u])
                         /\ handler' = u => ~InHeap(alg, frame'[1], frame'[2])
    BY <1>2, <1>3, <1>4, <2>1, <2>2, ResumeFacts
  <2> QED
    BY <1>5, <2>4, <2>5, <2>6
<1> QED
  BY <1>6, <1>7

----------------------------------------------------------------------------
(* Run queue updates *)

LEMMA IrqLockKeeps ==
    ASSUME IInv, NEW t \in Actor, IrqLock(t), system' = system
    PROVE  IInv'
<1>1. /\ At(t, "irqlock") /\ Advance(t) /\ "irqlock" \in Steps
      /\ locked' = locked /\ owner' = owner /\ queue' = queue /\ count' = count /\ slot' = slot
      /\ runnable' = runnable /\ current' = current
      /\ flag' = [flag EXCEPT ![t] = FALSE] /\ saved' = [saved EXCEPT ![t] = flag[t]]
  BY DEF IrqLock, Steps, list, mutex
<1>2. Moved(t)
  BY <1>1, AdvanceMoves
<1>3. ContextTypes' /\ FrameInv'
  BY <1>2, MovedTypes
<1>4. /\ flag' \in [Actor -> BOOLEAN] /\ saved' \in [Actor -> BOOLEAN]
      /\ \A u \in Actor : /\ flag'[u] = IF u = t THEN FALSE ELSE flag[u]
                          /\ saved'[u] = IF u = t THEN flag[t] ELSE saved[u]
  BY <1>1 DEF IInv, TypeOK
<1>5. TypeOK' /\ (pc \in [Actor -> Nat])'
  BY <1>1, <1>3, <1>4, TypesKept DEF IInv, TypeOK
<1>6. EntityInv'
  BY <1>1, <1>2, MovedEntities
<1>7. HeapInv'
  BY <1>1, <1>2, MovedHeap
<1>8. QueueInv'
  BY <1>1, <1>2, MovedCounted, QueueKept
<1>9. FlagInv'
  <2>1. /\ StepOf(alg, op[t], pc[t]) = "irqlock" /\ op[t] \in {"add", "remove"}
        /\ StepOf(alg, op[t], pc[t] + 1) \notin {"irqlock", "state", "yield"}
    BY <1>1, AtStatement DEF Leads
  <2>2. ~InSection(alg, op[t], pc[t]) /\ InSection(alg, op[t], pc[t] + 1)
    BY <2>1 DEF InSection
  <2>3. \A u \in Actor : pc'[u] = IF u = t THEN pc[t] + 1 ELSE pc[u]
    BY <1>2 DEF IInv, Moved
  <2> QED
    BY <1>2, <1>4, <2>2, <2>3, ZenonT(60) DEF IInv, FlagInv, Moved, Actor, alg
<1> QED
  BY <1>3, <1>5, <1>6, <1>7, <1>8, <1>9 DEF IInv

LEMMA IrqUnlockKeeps ==
    ASSUME IInv, NEW t \in Actor, IrqUnlock(t), system' = system
    PROVE  IInv'
<1>1. /\ At(t, "irqunlock") /\ Advance(t) /\ "irqunlock" \in Steps
      /\ locked' = locked /\ owner' = owner /\ queue' = queue /\ count' = count /\ slot' = slot
      /\ runnable' = runnable /\ current' = current
      /\ flag' = [flag EXCEPT ![t] = saved[t]] /\ saved' = saved
  BY DEF IrqUnlock, Steps, list, mutex
<1>2. Moved(t)
  BY <1>1, AdvanceMoves
<1>3. ContextTypes' /\ FrameInv'
  BY <1>2, MovedTypes
<1>4. /\ flag' \in [Actor -> BOOLEAN]
      /\ \A u \in Actor : flag'[u] = IF u = t THEN saved[t] ELSE flag[u]
  BY <1>1 DEF IInv, TypeOK
<1>5. TypeOK' /\ (pc \in [Actor -> Nat])'
  BY <1>1, <1>3, <1>4, TypesKept DEF IInv, TypeOK
<1>6. EntityInv'
  BY <1>1, <1>2, MovedEntities
<1>7. HeapInv'
  BY <1>1, <1>2, MovedHeap
<1>8. QueueInv'
  BY <1>1, <1>2, MovedCounted, QueueKept
<1>9. FlagInv'
  <2>1. /\ StepOf(alg, op[t], pc[t]) = "irqunlock" /\ op[t] \in {"add", "remove"}
        /\ StepOf(alg, op[t], pc[t] + 1) = "state"
    BY <1>1, AtStatement DEF Leads
  <2>2. InSection(alg, op[t], pc[t]) /\ ~InSection(alg, op[t], pc[t] + 1)
    BY <2>1 DEF InSection
  <2>3. \A u \in Actor : pc'[u] = IF u = t THEN pc[t] + 1 ELSE pc[u]
    BY <1>2 DEF IInv, Moved
  <2> QED
    BY <1>1, <1>2, <1>4, <2>2, <2>3 DEF IInv, FlagInv, Moved, Actor, alg
<1> QED
  BY <1>3, <1>5, <1>6, <1>7, <1>8, <1>9 DEF IInv

LEMMA WalkKeeps ==
    ASSUME IInv, NEW t \in Actor, Walk(t), system' = system
    PROVE  IInv'
<1>1. /\ At(t, "walk") /\ Advance(t) /\ "walk" \in Steps
      /\ locked' = locked /\ owner' = owner /\ queue' = queue /\ count' = count
      /\ runnable' = runnable /\ current' = current /\ flag' = flag /\ saved' = saved
      /\ slot' = [slot EXCEPT ![t] = IF queue = <<>> THEN 0 ELSE queue[Len(queue)]]
  BY DEF Walk, Steps, list, mutex
<1>2. Moved(t)
  BY <1>1, AdvanceMoves
<1>3. ContextTypes' /\ FrameInv'
  BY <1>2, MovedTypes
<1>4. slot' \in [Actor -> {Freed} \cup Actor]
  <2>1. queue # <<>> => queue[Len(queue)] \in Thread
    <3>1. queue \in Seq(Thread)
      BY DEF IInv, TypeOK
    <3>2. queue # <<>> => Len(queue) \in Nat \ {0} /\ DOMAIN queue = 1..Len(queue)
      BY <3>1, EmptySeq, LenProperties
    <3> QED
      BY <3>1, <3>2
  <2> QED
    BY <1>1, <2>1, SystemFacts DEF IInv, TypeOK
<1>5. TypeOK' /\ (pc \in [Actor -> Nat])'
  BY <1>1, <1>3, <1>4, TypesKept DEF IInv, TypeOK
<1>6. EntityInv' /\ HeapInv' /\ FlagInv'
  BY <1>1, <1>2, MovedEntities, MovedHeap, MovedFlags
<1>7. QueueInv'
  BY <1>1, <1>2, MovedCounted, QueueKept
<1> QED
  BY <1>3, <1>5, <1>6, <1>7 DEF IInv

\* The entity of an operation that is about one.
LEMMA SubjectFacts ==
    ASSUME IInv, NEW t \in Actor, op[t] \in {"add", "remove"}
    PROVE  /\ entity[t] \in Thread /\ entity[t] # 0
           /\ entity[t] \in runnable <=> op[t] = "remove" /\ StepOf(alg, op[t], pc[t]) # "yield"
           /\ \A u \in Actor \ {t} : entity[u] # entity[t]
           /\ frame[3] # entity[t]
<1>1. Subject(runnable, system.threads, alg, op[t], pc[t], entity[t]) /\ 0 \notin Thread
      /\ Thread = 1..system.threads
  BY SystemFacts DEF IInv, EntityInv
<1>2. /\ entity[t] \in Thread /\ entity[t] # 0
      /\ entity[t] \in runnable <=> op[t] = "remove" /\ StepOf(alg, op[t], pc[t]) # "yield"
  BY <1>1 DEF Subject
<1> QED
  BY <1>2 DEF IInv, EntityInv

\* The statement that links an entity makes it count, and only it.
LEMMA MovedLinks ==
    ASSUME IInv, NEW t \in Actor, At(t, "link"), Moved(t), system' = system,
           runnable' = runnable, count' = count + 1
    PROVE  /\ entity[t] \in Thread \ Counted /\ Counted' = Counted \cup {entity[t]}
           /\ count' = Cardinality(Counted') /\ count' \in 0..system.threads
<1>0. PICK e : e = entity[t]
  OBVIOUS
<1>1. /\ op[t] = "add" /\ StepOf(alg, op[t], pc[t]) = "link"
      /\ pc[t] \in 1..Len(Program(alg, op[t])) /\ pc[t] < Len(Program(alg, op[t]))
  BY AtStatement DEF Moved, Leads, Steps
<1>2. ~PastLink(alg, op[t], pc[t]) /\ PastLink(alg, op[t], pc[t] + 1)
  BY <1>1, CountFlow
<1>3. /\ e \in Thread /\ e \notin runnable /\ \A u \in Actor \ {t} : entity[u] # e
      /\ frame[3] # e
  BY <1>0, <1>1, SubjectFacts
<1>4. \A u \in Actor : pc'[u] = IF u = t THEN pc[t] + 1 ELSE pc[u]
  BY DEF IInv, Moved
<1>5. ~Counts(e)
  BY <1>0, <1>2, <1>3 DEF Counts
<1>6. Counts(e)'
  BY <1>0, <1>2, <1>3, <1>4 DEF Counts, Moved, Actor, alg
<1>7. ASSUME NEW d \in Thread, d # e
      PROVE  Counts(d)' <=> Counts(d)
  BY <1>0, <1>4, <1>7 DEF Counts, Moved, Actor, alg
<1>8. Counted' = Counted \cup {e} /\ e \notin Counted
  BY <1>3, <1>5, <1>6, <1>7 DEF Counted, Thread
<1>9. IsFiniteSet(Counted) /\ system.threads \in Nat /\ Counted' \in SUBSET (1..system.threads)
  <2>1. system.threads \in Nat /\ Counted \in SUBSET (1..system.threads)
        /\ Thread = 1..system.threads
    BY SystemFacts DEF IInv, Counted
  <2> QED
    BY <2>1, <1>3, <1>8, CountFacts
<1>10. Cardinality(Counted') = count + 1
  BY <1>8, <1>9, FS_AddElement DEF IInv, QueueInv
<1> QED
  BY <1>0, <1>3, <1>8, <1>9, <1>10, CountFacts

\* The statement that takes the count back does so for an entity that was counted.
LEMMA MovedUncounts ==
    ASSUME IInv, NEW t \in Actor, NEW s \in Steps, At(t, s), Moved(t), system' = system,
           s = (IF alg = "cfs" THEN "uncount" ELSE "unlink"),
           runnable' = runnable, count' = count - 1
    PROVE  /\ Counted' = Counted \ {entity[t]} /\ entity[t] \in Thread
           /\ count' = Cardinality(Counted') /\ count' \in 0..system.threads
<1>0. PICK e : e = entity[t]
  OBVIOUS
<1>1. /\ op[t] = "remove" /\ StepOf(alg, op[t], pc[t]) = s /\ s # "yield"
      /\ pc[t] \in 1..Len(Program(alg, op[t])) /\ pc[t] < Len(Program(alg, op[t]))
  BY AtStatement DEF Moved, Leads, Steps
<1>2. /\ ~PastUncount(alg, op[t], pc[t]) /\ PastUncount(alg, op[t], pc[t] + 1)
      /\ ~PastLink(alg, op[t], pc[t] + 1)
  BY <1>1, CountFlow DEF PastLink
<1>3. /\ e \in Thread /\ e \in runnable /\ \A u \in Actor \ {t} : entity[u] # e
      /\ frame[3] # e
  BY <1>0, <1>1, SubjectFacts
<1>4. \A u \in Actor : pc'[u] = IF u = t THEN pc[t] + 1 ELSE pc[u]
  BY DEF IInv, Moved
<1>5. Counts(e)
  BY <1>0, <1>2, <1>3 DEF Counts
<1>6. ~Counts(e)'
  BY <1>0, <1>2, <1>3, <1>4 DEF Counts, Moved, Actor, alg
<1>7. ASSUME NEW d \in Thread, d # e
      PROVE  Counts(d)' <=> Counts(d)
  BY <1>0, <1>4, <1>7 DEF Counts, Moved, Actor, alg
<1>8. Counted' = Counted \ {e} /\ e \in Counted
  BY <1>3, <1>5, <1>6, <1>7 DEF Counted, Thread
<1>9. IsFiniteSet(Counted) /\ system.threads \in Nat /\ Counted' \in SUBSET (1..system.threads)
  <2>1. system.threads \in Nat /\ Counted \in SUBSET (1..system.threads)
        /\ Thread = 1..system.threads
    BY SystemFacts DEF IInv, Counted
  <2> QED
    BY <2>1, <1>8, CountFacts
<1>10. Cardinality(Counted') = count - 1
  BY <1>8, <1>9, FS_RemoveElement DEF IInv, QueueInv
<1> QED
  BY <1>0, <1>3, <1>8, <1>9, <1>10, CountFacts

\* util::List links a node to an entity of the list, to its head, or to nothing.
LEMMA StoredType ==
    ASSUME NEW T, NEW q \in Seq(T), NEW s, NEW e \in T
    PROVE  Stored(q, s, e) \in Seq(T)
<1> DEFINE i == CHOOSE i \in DOMAIN q : q[i] = s
<1>1. CASE s # 0 /\ s # Freed /\ \E j \in DOMAIN q : q[j] = s
  <2>1. i \in DOMAIN q /\ DOMAIN q = 1..Len(q) /\ Len(q) \in Nat
    BY <1>1, LenProperties
  <2>2. SubSeq(q, 1, i) \in Seq(T)
    <3> HIDE DEF i
    <3>1. 1 \in Int /\ i \in Int /\ \A k \in 1..i : k \in 1..Len(q) /\ q[k] \in T
      BY <2>1
    <3> QED
      BY <3>1, SubSeqProperties
  <2>3. Stored(q, s, e) = Append(SubSeq(q, 1, i), e)
    BY <1>1 DEF Stored
  <2> HIDE DEF i
  <2> QED
    BY <2>2, <2>3, AppendProperties
<1>2. CASE ~(s # 0 /\ s # Freed /\ \E j \in DOMAIN q : q[j] = s)
  BY <1>2 DEF Stored
<1> QED
  BY <1>1, <1>2

LEMMA LinkKeeps ==
    ASSUME IInv, NEW t \in Actor, Link(t), system' = system
    PROVE  IInv'
<1>1. /\ At(t, "link") /\ Advance(t) /\ "link" \in Steps
      /\ locked' = locked /\ owner' = owner /\ slot' = slot /\ count' = count + 1
      /\ runnable' = runnable /\ current' = current /\ flag' = flag /\ saved' = saved
      /\ queue' = IF alg = "cfs" THEN Stored(queue, slot[t], entity[t])
                  ELSE Append(queue, entity[t])
  BY DEF Link, Steps, mutex, alg
<1>2. Moved(t)
  BY <1>1, AdvanceMoves
<1>3. ContextTypes' /\ FrameInv'
  BY <1>2, MovedTypes
<1>4. /\ entity[t] \in Thread \ Counted /\ Counted' = Counted \cup {entity[t]}
      /\ count' = Cardinality(Counted') /\ count' \in 0..system.threads
  BY <1>1, <1>2, MovedLinks
<1>5. /\ queue' \in Seq(Thread)
      /\ alg = "rr" => IsInjective(queue') /\ Range(queue') = Range(queue) \cup {entity[t]}
  <2>1. queue \in Seq(Thread)
    BY DEF IInv, TypeOK
  <2>2. CASE alg = "cfs"
    BY <1>1, <1>4, <2>1, <2>2, StoredType
  <2>3. CASE alg # "cfs"
    <3>1. alg = "rr" /\ IsInjective(queue) /\ Range(queue) = Counted
      BY <2>3, SystemFacts DEF IInv, QueueInv
    <3> QED
      BY <1>1, <1>4, <2>1, <2>3, <3>1, AppendedToList
  <2> QED
    BY <2>2, <2>3
<1>6. TypeOK' /\ (pc \in [Actor -> Nat])'
  BY <1>1, <1>3, <1>4, <1>5, TypesKept DEF IInv, TypeOK
<1>7. EntityInv' /\ HeapInv' /\ FlagInv'
  BY <1>1, <1>2, MovedEntities, MovedHeap, MovedFlags
<1>8. QueueInv'
  BY <1>4, <1>5 DEF IInv, QueueInv, alg
<1> QED
  BY <1>3, <1>6, <1>7, <1>8 DEF IInv

LEMMA UnlinkKeeps ==
    ASSUME IInv, NEW t \in Actor, Unlink(t), system' = system
    PROVE  IInv'
<1>1. /\ At(t, "unlink") /\ Advance(t) /\ "unlink" \in Steps
      /\ locked' = locked /\ owner' = owner
      /\ runnable' = runnable /\ current' = current /\ flag' = flag /\ saved' = saved
      /\ queue' = Drop(queue, PositionsOf(queue, entity[t]))
      /\ count' = IF alg = "cfs" THEN count ELSE count - 1
      /\ slot' = [u \in Actor |-> IF slot[u] = entity[t] THEN Freed ELSE slot[u]]
  BY DEF Unlink, Steps, mutex, alg
<1>2. Moved(t)
  BY <1>1, AdvanceMoves
<1>3. ContextTypes' /\ FrameInv'
  BY <1>2, MovedTypes
<1>4. /\ queue' \in Seq(Thread) /\ Range(queue') = Range(queue) \ {entity[t]}
      /\ IsInjective(queue) => IsInjective(queue')
  <2>1. queue \in Seq(Thread)
    BY DEF IInv, TypeOK
  <2>2. {queue[i] : i \in DOMAIN queue \ PositionsOf(queue, entity[t])} = Range(queue) \ {entity[t]}
    BY DEF PositionsOf, Range
  <2> QED
    BY <1>1, <2>1, <2>2, DropKeepsTheRest
<1>5. count' \in 0..system.threads /\ QueueInv'
  <2>1. CASE alg = "cfs"
    <3>1. Counted' = Counted
      BY <1>1, <1>2, <2>1, MovedCounted
    <3> QED
      BY <1>1, <2>1, <3>1 DEF IInv, TypeOK, QueueInv, alg
  <2>2. CASE alg # "cfs"
    <3>1. /\ Counted' = Counted \ {entity[t]}
          /\ count' = Cardinality(Counted') /\ count' \in 0..system.threads
      BY <1>1, <1>2, <2>2, MovedUncounts
    <3> QED
      BY <3>1, <1>4, <2>2 DEF IInv, QueueInv, alg
  <2> QED
    BY <2>1, <2>2
<1>6. TypeOK' /\ (pc \in [Actor -> Nat])'
  <2>1. slot' \in [Actor -> {Freed} \cup Actor]
    BY <1>1 DEF IInv, TypeOK
  <2> QED
    BY <1>1, <1>3, <1>4, <1>5, <2>1, TypesKept DEF IInv, TypeOK
<1>7. EntityInv' /\ HeapInv' /\ FlagInv'
  BY <1>1, <1>2, MovedEntities, MovedHeap, MovedFlags
<1> QED
  BY <1>3, <1>5, <1>6, <1>7 DEF IInv

LEMMA UncountKeeps ==
    ASSUME IInv, NEW t \in Actor, Uncount(t), system' = system
    PROVE  IInv'
<1>1. /\ At(t, "uncount") /\ Advance(t) /\ "uncount" \in Steps
      /\ locked' = locked /\ owner' = owner /\ queue' = queue /\ slot' = slot
      /\ runnable' = runnable /\ current' = current /\ flag' = flag /\ saved' = saved
      /\ count' = count - 1
  BY DEF Uncount, Steps, mutex
<1>2. Moved(t)
  BY <1>1, AdvanceMoves
<1>3. ContextTypes' /\ FrameInv'
  BY <1>2, MovedTypes
<1>4. alg = "cfs"
  <2>1. /\ op[t] = "remove" /\ StepOf(alg, op[t], pc[t]) = "uncount"
        /\ pc[t] \in 1..Len(Program(alg, op[t])) /\ pc[t] < Len(Program(alg, op[t]))
    BY <1>1, <1>2, AtStatement DEF Moved, Leads, Steps
  <2> QED
    BY <2>1, CountFlow
<1>5. count' = Cardinality(Counted') /\ count' \in 0..system.threads
  BY <1>1, <1>2, <1>4, MovedUncounts
<1>6. TypeOK' /\ (pc \in [Actor -> Nat])'
  BY <1>1, <1>3, <1>5, TypesKept DEF IInv, TypeOK
<1>7. EntityInv' /\ HeapInv' /\ FlagInv'
  BY <1>1, <1>2, MovedEntities, MovedHeap, MovedFlags
<1>8. QueueInv'
  BY <1>4, <1>5 DEF QueueInv, alg
<1> QED
  BY <1>3, <1>6, <1>7, <1>8 DEF IInv

\* Handlers only wake threads.
LEMMA HandlersAdd ==
    ASSUME IInv, NEW t \in Actor, op[t] # "add"
    PROVE  handler # t
<1>1. t # -1
  BY SystemFacts DEF IInv
<1> QED
  BY <1>1 DEF IInv, FrameInv

LEMMA WriteStateKeeps ==
    ASSUME IInv, NEW t \in Actor, WriteState(t), system' = system
    PROVE  IInv'
<1>1. /\ At(t, "state") /\ Advance(t) /\ "state" \in Steps
      /\ locked' = locked /\ owner' = owner /\ queue' = queue /\ count' = count /\ slot' = slot
      /\ current' = current /\ saved' = saved
      /\ runnable' = IF op[t] = "add" THEN runnable \cup {entity[t]} ELSE runnable \ {entity[t]}
      /\ flag' = [flag EXCEPT ![t] = flag[t] \/ handler = t]
  BY DEF WriteState, Steps, list, mutex
<1>2. /\ op[t] \in {"add", "remove"} /\ StepOf(alg, op[t], pc[t]) = "state"
      /\ op[t] = "remove" => StepOf(alg, op[t], pc[t] + 1) = "yield"
  BY <1>1, AtStatement DEF Leads
<1>3. /\ entity[t] \in Thread
      /\ \A u \in Actor \ {t} : entity[u] # entity[t]
      /\ frame[3] # entity[t]
      /\ entity[t] \in runnable <=> op[t] = "remove"
  BY <1>2, SubjectFacts
<1>4. ~InSection(alg, op[t], pc[t]) /\ ~InHeap(alg, op[t], pc[t])
  BY <1>2 DEF InSection, InHeap
<1>5. flag \in [Actor -> BOOLEAN] /\ (handler # t => flag[t])
  BY <1>4 DEF IInv, FlagInv, TypeOK
<1>6. flag' = [flag EXCEPT ![t] = TRUE] /\ flag' \in [Actor -> BOOLEAN]
  BY <1>1, <1>5
<1>7. runnable' \subseteq Thread
      /\ \A e \in Thread \ {entity[t]} : e \in runnable' <=> e \in runnable
  BY <1>1, <1>3 DEF IInv, TypeOK
<1>8. ASSUME ContextTypes', FrameInv', EntityInv', HeapInv', FlagInv', Counted' = Counted
      PROVE  IInv'
  <2>1. TypeOK' /\ (pc \in [Actor -> Nat])'
    BY <1>1, <1>6, <1>7, <1>8, TypesKept DEF IInv, TypeOK
  <2>2. QueueInv'
    BY <1>1, <1>8, QueueKept
  <2> QED
    BY <1>8, <2>1, <2>2 DEF IInv
<1>9. CASE op[t] = "add"
  <2>1. Resume(t)
    BY <1>1, <1>9, AdvanceReturns
  <2>2. entity[t] \in runnable' /\ Counts(entity[t])
    BY <1>1, <1>2, <1>9 DEF Counts, PastLink
  <2>3. ContextTypes' /\ FrameInv' /\ EntityInv' /\ Counted' = Counted
    BY <1>7, <2>1, <2>2, ResumedTypes, ResumedEntities, ResumedCounted
  <2>4. HeapInv' /\ FlagInv'
    BY <1>1, <1>4, <1>6, <2>1, ResumedHeap, ResumedFlags
  <2> QED
    BY <1>8, <2>3, <2>4
<1>10. CASE op[t] = "remove"
  <2>1. Moved(t) /\ handler # t
    BY <1>1, <1>10, AdvanceMoves, HandlersAdd
  <2>2. ContextTypes' /\ FrameInv' /\ HeapInv'
    BY <1>1, <2>1, MovedTypes, MovedHeap
  <2>3. \A u \in Actor : pc'[u] = IF u = t THEN pc[t] + 1 ELSE pc[u]
    BY <2>1 DEF IInv, Moved
  <2>4. PICK e : e = entity[t]
    OBVIOUS
  <2>5. e \in Thread /\ e \notin runnable'
    BY <1>1, <1>3, <1>10, <2>4
  <2>6. ASSUME NEW u \in Actor
        PROVE  Subject(runnable', system.threads, alg, op[u], pc'[u], entity[u])
    <3>1. Subject(runnable, system.threads, alg, op[u], pc[u], entity[u])
          /\ Thread = 1..system.threads
      BY SystemFacts DEF IInv, EntityInv
    <3>2. CASE u = t
      BY <3>1, <3>2, <1>2, <1>10, <2>3, <2>4, <2>5 DEF Subject
    <3>3. CASE u # t
      BY <3>1, <3>3, <1>3, <1>7, <2>3 DEF Subject
    <3> QED
      BY <3>2, <3>3
  <2>7. Subject(runnable', system.threads, alg, frame[1], frame[2], frame[3])
    <3>1. Subject(runnable, system.threads, alg, frame[1], frame[2], frame[3])
          /\ Thread = 1..system.threads
      BY SystemFacts DEF IInv, EntityInv
    <3> QED
      BY <3>1, <1>3, <1>7 DEF Subject
  <2>8. EntityInv'
    BY <2>1, <2>6, <2>7 DEF IInv, EntityInv, Moved, Actor, alg
  <2>9. ~InSection(alg, op[t], pc[t] + 1)
    BY <1>2, <1>10 DEF InSection
  <2>10. \A u \in Actor : flag'[u] = flag[u]
    BY <1>5, <1>6, <2>1
  <2>11. FlagInv'
    BY <1>1, <1>4, <2>1, <2>3, <2>9, <2>10 DEF IInv, FlagInv, Moved, Actor, alg
  <2>12. ~PastLink(alg, op[t], pc[t]) /\ ~PastLink(alg, op[t], pc[t] + 1)
         /\ PastUncount(alg, op[t], pc[t])
    BY <1>2, <1>10 DEF PastLink, PastUncount
  <2>13. ~Counts(e)
    BY <1>3, <2>4, <2>12 DEF Counts
  <2>14. ~Counts(e)'
    BY <1>3, <2>1, <2>3, <2>4, <2>5, <2>12 DEF Counts, Moved, Actor, alg
  <2>15. ASSUME NEW d \in Thread, d # e
         PROVE  Counts(d)' <=> Counts(d)
    BY <1>7, <2>1, <2>3, <2>4, <2>15 DEF Counts, Moved, Actor, alg
  <2>16. Counted' = Counted
    BY <2>13, <2>14, <2>15 DEF Counted, Thread
  <2> QED
    BY <1>8, <2>2, <2>8, <2>11, <2>16
<1> QED
  BY <1>2, <1>9, <1>10

LEMMA YieldKeeps ==
    ASSUME IInv, NEW t \in Actor, Yield(t), system' = system
    PROVE  IInv'
<1>1. /\ At(t, "yield") /\ Advance(t) /\ "yield" \in Steps
      /\ locked' = locked /\ owner' = owner /\ count' = count /\ slot' = slot
      /\ runnable' = runnable /\ flag' = flag /\ saved' = saved
      /\ Switch \/ (queue' = queue /\ current' = current)
  BY DEF Yield, Steps, mutex
<1>2. Resume(t)
  BY <1>1, AdvanceReturns
<1>3. op[t] = "remove" /\ StepOf(alg, op[t], pc[t]) = "yield"
  BY <1>1, AtStatement DEF Leads
<1>4. /\ entity[t] \in Thread /\ entity[t] \notin runnable
      /\ \A u \in Actor \ {t} : entity[u] # entity[t]
      /\ frame[3] # entity[t]
  BY <1>3, SubjectFacts
<1>5. /\ ~InSection(alg, op[t], pc[t]) /\ ~InHeap(alg, op[t], pc[t])
      /\ ~PastLink(alg, op[t], pc[t])
  BY <1>3 DEF InSection, InHeap, PastLink
<1>6. handler # t /\ flag \in [Actor -> BOOLEAN]
  BY <1>3, HandlersAdd DEF IInv, TypeOK
<1>7. flag' = [flag EXCEPT ![t] = TRUE]
  <2>1. flag[t] = TRUE
    BY <1>5, <1>6 DEF IInv, FlagInv
  <2> QED
    BY <1>1, <1>6, <2>1
<1>8. ~Counts(entity[t])
  BY <1>4, <1>5 DEF Counts
<1>9. ContextTypes' /\ FrameInv' /\ EntityInv' /\ Counted' = Counted
  BY <1>1, <1>2, <1>4, <1>8, ResumedTypes, ResumedEntities, ResumedCounted
<1>10. HeapInv' /\ FlagInv'
  BY <1>1, <1>2, <1>5, <1>7, ResumedHeap, ResumedFlags
<1>11. /\ queue' \in Seq(Thread) /\ current' \in Actor
       /\ Range(queue') = Range(queue) /\ (IsInjective(queue) => IsInjective(queue'))
  <2>1. CASE Switch
    BY <2>1, SwitchFacts
  <2>2. CASE queue' = queue /\ current' = current
    BY <2>2 DEF IInv, TypeOK
  <2> QED
    BY <1>1, <2>1, <2>2
<1>12. TypeOK' /\ (pc \in [Actor -> Nat])'
  BY <1>1, <1>9, <1>11, TypesKept DEF IInv, TypeOK
<1>13. QueueInv'
  BY <1>1, <1>9, <1>11 DEF IInv, QueueInv, alg
<1> QED
  BY <1>9, <1>10, <1>12, <1>13 DEF IInv

----------------------------------------------------------------------------
(* Calls and interrupts *)

\* How operations begin.
LEMMA ProgramStart ==
    ASSUME NEW a, NEW o \in {"heap", "add", "remove"}
    PROVE  /\ 1 \in 1..Len(Program(a, o))
           /\ StepOf(a, o, 1) \in {"lock", "irqlock"}
           /\ ~PastLink(a, o, 1) /\ ~PastUncount(a, o, 1)
           /\ ~InSection(a, o, 1) /\ ~InHeap(a, o, 1)
<1>1. /\ 1 \in 1..Len(Program(a, o))
      /\ Program(a, o)[1] = IF o = "heap" THEN "lock" ELSE "irqlock"
  <2>1. CASE o = "heap"
    BY <2>1, HeapProgram
  <2>2. CASE o = "add"
    BY <2>2, AddProgramOfList, AddProgramOfCFS
  <2>3. CASE o = "remove"
    BY <2>3, RemoveProgramOfList, RemoveProgramOfCFS
  <2> QED
    BY <2>1, <2>2, <2>3
<1>2. StepOf(a, o, 1) = IF o = "heap" THEN "lock" ELSE "irqlock"
  BY <1>1 DEF StepOf, Working
<1> QED
  BY <1>1, <1>2 DEF PastLink, PastUncount, InSection, InHeap

\* A thread in user code is in no operation.
LEMMA UserHasNoOperation ==
    ASSUME IInv, NEW t \in Actor, Step(op[t], pc[t]) = "user"
    PROVE  /\ op[t] = "none" /\ pc[t] = 1 /\ entity[t] = 0 /\ handler # t /\ flag[t]
           /\ ~InHeap(alg, op[t], pc[t]) /\ ~PastLink(alg, op[t], pc[t])
           /\ ~PastUncount(alg, op[t], pc[t])
<1>1. op[t] \in Op /\ pc[t] \in 1..Length(op[t])
  BY DEF IInv, TypeOK
<1>2. op[t] = "none"
  <2>1. SUFFICES ASSUME op[t] # "none" PROVE FALSE
    OBVIOUS
  <2>2. op[t] \in {"heap", "add", "remove"} /\ pc[t] \in 1..Len(Program(alg, op[t]))
    BY <1>1, <2>1 DEF Op, Length, Working, alg
  <2>3. Leads(op[t], StepOf(alg, op[t], pc[t]), StepOf(alg, op[t], pc[t] + 1),
              pc[t] = Len(Program(alg, op[t])))
    BY <2>2, ProgramFlow
  <2> QED
    BY <2>3 DEF Leads, Steps, Step, alg
<1>3. pc[t] = 1 /\ handler # t
  BY <1>1, <1>2, HandlersAdd DEF Length, Working
<1>4. ~InHeap(alg, op[t], pc[t]) /\ ~InSection(alg, op[t], pc[t])
      /\ ~PastLink(alg, op[t], pc[t]) /\ ~PastUncount(alg, op[t], pc[t])
  BY <1>2 DEF InHeap, InSection, StepOf, Working, PastLink, PastUncount
<1> QED
  BY <1>2, <1>3, <1>4 DEF IInv, EntityInv, Subject, FlagInv

LEMMA CallKeeps ==
    ASSUME IInv, NEW t \in Actor, Call(t)
    PROVE  IInv'
<1>1. /\ Step(op[t], pc[t]) = "user" /\ system' = system /\ locked' = locked /\ owner' = owner
      /\ queue' = queue /\ count' = count /\ runnable' = runnable /\ current' = current
      /\ flag' = flag /\ saved' = saved /\ pc' = pc /\ slot' = slot
      /\ handler' = handler /\ frame' = frame
  BY DEF Call, At, mutex, list, irq
<1>2. PICK o \in {"heap", "add", "remove"}, e \in Actor :
          /\ o = "heap" => e = 0
          /\ o = "add" => e \in Settled \ runnable
          /\ o = "remove" => e \in Settled \cap runnable
          /\ op' = [op EXCEPT ![t] = o] /\ entity' = [entity EXCEPT ![t] = e]
  BY DEF Call
<1>3. /\ op[t] = "none" /\ pc[t] = 1 /\ entity[t] = 0 /\ handler # t /\ flag[t]
      /\ ~InHeap(alg, op[t], pc[t]) /\ ~PastLink(alg, op[t], pc[t])
      /\ ~PastUncount(alg, op[t], pc[t])
  BY <1>1, UserHasNoOperation
<1>4. /\ 1 \in 1..Len(Program(alg, o)) /\ StepOf(alg, o, 1) \in {"lock", "irqlock"}
      /\ ~PastLink(alg, o, 1) /\ ~PastUncount(alg, o, 1)
      /\ ~InSection(alg, o, 1) /\ ~InHeap(alg, o, 1)
  BY ProgramStart
<1>5. /\ op' \in [Actor -> Op] /\ entity' \in [Actor -> Actor]
      /\ \A u \in Actor : /\ op'[u] = IF u = t THEN o ELSE op[u]
                          /\ entity'[u] = IF u = t THEN e ELSE entity[u]
  BY <1>2 DEF IInv, TypeOK, Op
<1>6. ContextTypes'
  <2>1. ASSUME NEW u \in Actor
        PROVE  pc[u] \in 1..(IF Working(op'[u]) THEN Len(Program(alg, op'[u])) ELSE 1)
    <3>1. CASE u = t
      BY <1>3, <1>4, <1>5, <3>1 DEF Working
    <3>2. CASE u # t
      BY <1>5, <3>2 DEF IInv, TypeOK, Length, alg
    <3> QED
      BY <3>1, <3>2
  <2> QED
    BY <1>1, <1>5, <2>1 DEF IInv, TypeOK, ContextTypes, Actor, Length, alg
<1>7. TypeOK' /\ (pc \in [Actor -> Nat])'
  BY <1>1, <1>6, TypesKept DEF IInv, TypeOK
<1>8. FrameInv'
  <2>1. handler # -1 => op'[handler] = "add"
    <3>1. handler \in Actor \cup {-1} /\ (handler # -1 => op[handler] = "add")
      BY DEF IInv, FrameInv, TypeOK, Actor
    <3> QED
      BY <1>3, <1>5, <3>1
  <2> QED
    BY <1>1, <2>1 DEF IInv, FrameInv, Actor, Length
<1>9. /\ o = "heap" => e = 0
      /\ o \in {"add", "remove"} =>
            /\ e \in Thread /\ (e \in runnable <=> o = "remove")
            /\ frame[3] # e /\ \A u \in Actor : entity[u] # e
  BY <1>2 DEF Settled
<1>10. EntityInv'
  <2>1. Subject(runnable, system.threads, alg, o, 1, e)
    BY <1>4, <1>9 DEF Subject, Thread
  <2>2. ASSUME NEW u \in Actor
        PROVE  Subject(runnable, system.threads, alg, op'[u], pc[u], entity'[u])
    <3>1. CASE u = t
      BY <1>3, <1>5, <2>1, <3>1
    <3>2. CASE u # t
      BY <1>5, <3>2 DEF IInv, EntityInv
    <3> QED
      BY <3>1, <3>2
  <2>3. \A u, v \in Actor : u # v /\ entity'[u] = entity'[v] => entity'[u] = 0
    BY <1>5, <1>9 DEF IInv, EntityInv
  <2>4. \A u \in Actor : entity'[u] = frame[3] => frame[3] = 0
    BY <1>5, <1>9 DEF IInv, EntityInv
  <2> QED
    BY <1>1, <2>2, <2>3, <2>4 DEF IInv, EntityInv, Actor, alg
<1>11. HeapInv'
  <2>1. \A u \in Actor : InHeap(alg, op'[u], pc[u]) <=> InHeap(alg, op[u], pc[u])
    BY <1>3, <1>4, <1>5
  <2>2. \A u \in Actor : StepOf(alg, op'[u], pc[u]) = "unlock" => StepOf(alg, op[u], pc[u]) = "unlock"
    BY <1>3, <1>4, <1>5
  <2>3. Actor' = Actor /\ alg' = alg /\ handler \in Actor \cup {-1}
    BY <1>1 DEF Actor, alg, IInv, TypeOK
  <2>4. MutualExclusion'
    BY <1>1, <2>1, <2>3 DEF IInv, HeapInv, MutualExclusion, Holds, Step, InHeap, alg
  <2>5. (handler # -1 => ~(InHeap(alg, op[handler], pc[handler]) /\ InHeap(alg, frame[1], frame[2])))'
    BY <1>1, <2>1, <2>3 DEF IInv, HeapInv
  <2>6. OwnerIsHolder' /\ (handler # -1 /\ Step(frame[1], frame[2]) = "unlock" => owner = handler)'
    BY <1>1, <2>2, <2>3 DEF IInv, HeapInv, OwnerIsHolder, Step, alg
  <2> QED
    BY <2>4, <2>5, <2>6 DEF HeapInv
<1>12. FlagInv'
  BY <1>1, <1>3, <1>4, <1>5 DEF IInv, FlagInv, Actor, alg
<1>13. QueueInv'
  <2>1. ASSUME NEW d \in Thread
        PROVE  Counts(d)' <=> Counts(d)
    <3>1. d # 0
      BY SystemFacts DEF IInv
    <3>2. \A u \in Actor : /\ entity[u] = d /\ PastUncount(alg, op[u], pc[u])
                              <=> entity'[u] = d /\ PastUncount(alg, op'[u], pc[u])
                           /\ entity[u] = d /\ PastLink(alg, op[u], pc[u])
                              <=> entity'[u] = d /\ PastLink(alg, op'[u], pc[u])
      BY <1>3, <1>4, <1>5
    <3> QED
      BY <1>1, <3>2 DEF Counts, Actor, alg
  <2>2. Counted' = Counted
    BY <1>1, <2>1 DEF Counted, Thread
  <2> QED
    BY <1>1, <2>2, QueueKept
<1> QED
  BY <1>7, <1>8, <1>10, <1>11, <1>12, <1>13 DEF IInv

LEMMA DeviceInterruptKeeps ==
    ASSUME IInv, NEW t \in Actor, DeviceInterrupt(t)
    PROVE  IInv'
<1>1. /\ handler = -1 /\ flag[t] /\ handler' = t /\ frame' = <<op[t], pc[t], entity[t]>>
      /\ flag' = [flag EXCEPT ![t] = FALSE]
      /\ system' = system /\ locked' = locked /\ owner' = owner
      /\ queue' = queue /\ count' = count /\ runnable' = runnable /\ current' = current
      /\ saved' = saved /\ slot' = slot
  BY DEF DeviceInterrupt, mutex, list
<1>2. PICK e \in Settled \ runnable :
          /\ op' = [op EXCEPT ![t] = "add"] /\ pc' = [pc EXCEPT ![t] = 1]
          /\ entity' = [entity EXCEPT ![t] = e]
  BY DEF DeviceInterrupt
<1>3. /\ e \in Thread /\ e \in Actor /\ e \notin runnable /\ e # 0
      /\ \A u \in Actor : entity[u] # e
  BY SystemFacts DEF Settled, IInv
<1>4. /\ frame = <<"none", 1, 0>> /\ t # -1 /\ handler # t
      /\ ~InSection(alg, op[t], pc[t])
  BY <1>1, SystemFacts DEF IInv, FrameInv, FlagInv
<1>5. /\ 1 \in 1..Len(Program(alg, "add")) /\ StepOf(alg, "add", 1) \in {"lock", "irqlock"}
      /\ ~PastLink(alg, "add", 1) /\ ~PastUncount(alg, "add", 1)
      /\ ~InSection(alg, "add", 1) /\ ~InHeap(alg, "add", 1)
  BY ProgramStart
<1>6. /\ op' \in [Actor -> Op] /\ entity' \in [Actor -> Actor] /\ pc' \in [Actor -> Nat]
      /\ flag' \in [Actor -> BOOLEAN]
      /\ \A u \in Actor : /\ op'[u] = IF u = t THEN "add" ELSE op[u]
                          /\ pc'[u] = IF u = t THEN 1 ELSE pc[u]
                          /\ entity'[u] = IF u = t THEN e ELSE entity[u]
                          /\ flag'[u] = IF u = t THEN FALSE ELSE flag[u]
  BY <1>1, <1>2, <1>3 DEF IInv, TypeOK, Op
<1>7. frame'[1] = op[t] /\ frame'[2] = pc[t] /\ frame'[3] = entity[t]
  BY <1>1
<1>8. /\ Actor' = Actor /\ alg' = alg /\ Thread' = Thread
      /\ t \in -1..system.threads /\ Working("add")
  BY <1>1 DEF Actor, alg, Thread, Working
<1>9. ContextTypes'
  <2>1. ASSUME NEW u \in Actor
        PROVE  pc'[u] \in 1..(IF Working(op'[u]) THEN Len(Program(alg, op'[u])) ELSE 1)
    <3>1. CASE u = t
      BY <1>5, <1>6, <1>8, <3>1
    <3>2. CASE u # t
      BY <1>6, <3>2 DEF IInv, TypeOK, Length, alg
    <3> QED
      BY <3>1, <3>2
  <2> QED
    BY <1>1, <1>6, <1>8, <2>1 DEF ContextTypes, Actor, Length, alg
<1>10. TypeOK' /\ (pc \in [Actor -> Nat])'
  BY <1>1, <1>6, <1>9, TypesKept DEF IInv, TypeOK
<1>11. FrameInv'
  <2>1. frame' \in Op \X Nat \X Actor /\ pc[t] \in 1..Length(op[t])
    BY <1>1 DEF IInv, TypeOK
  <2>2. op'[t] = "add"
    BY <1>6
  <2> QED
    BY <1>1, <1>4, <1>7, <2>1, <2>2 DEF FrameInv, Actor, Length
<1>12. EntityInv'
  <2>1. Subject(runnable, system.threads, alg, "add", 1, e)
    BY <1>3 DEF Subject, Thread
  <2>2. ASSUME NEW u \in Actor
        PROVE  Subject(runnable, system.threads, alg, op'[u], pc'[u], entity'[u])
    <3>1. CASE u = t
      BY <1>6, <2>1, <3>1
    <3>2. CASE u # t
      BY <1>6, <3>2 DEF IInv, EntityInv
    <3> QED
      BY <3>1, <3>2
  <2>3. Subject(runnable, system.threads, alg, frame'[1], frame'[2], frame'[3])
    BY <1>7 DEF IInv, EntityInv
  <2>4. /\ \A u, v \in Actor : u # v /\ entity[u] = entity[v] => entity[u] = 0
        /\ \A u \in Actor : entity'[u] = IF u = t THEN e ELSE entity[u]
    BY <1>6 DEF IInv, EntityInv
  <2>5. /\ \A u, v \in Actor : u # v /\ entity'[u] = entity'[v] => entity'[u] = 0
        /\ \A u \in Actor : entity'[u] = frame'[3] => frame'[3] = 0
    BY <1>3, <1>7, <2>4
  <2> QED
    BY <1>1, <2>2, <2>3, <2>5 DEF EntityInv, Actor, alg
<1>13. HeapInv'
  <2>1. ASSUME NEW u \in Actor
        PROVE  Holds(u)' <=> Holds(u)
    <3>1. CASE u = t
      BY <1>1, <1>4, <1>5, <1>6, <1>7, <3>1 DEF Holds, Step, alg
    <3>2. CASE u # t
      BY <1>1, <1>4, <1>6, <3>2, SystemFacts DEF Holds, Step, alg, IInv
    <3> QED
      BY <3>1, <3>2
  <2>2. MutualExclusion'
    BY <1>1, <1>8, <2>1 DEF IInv, HeapInv, MutualExclusion
  <2>3. ~InHeap(alg, op'[t], pc'[t])
    BY <1>5, <1>6
  <2>4. OwnerIsHolder'
    BY <1>1, <1>5, <1>6, <1>8 DEF IInv, HeapInv, OwnerIsHolder, Step, alg
  <2>5. (Step(frame[1], frame[2]) = "unlock" => owner = handler)'
    BY <1>1, <1>7 DEF IInv, HeapInv, OwnerIsHolder, Step
  <2> QED
    BY <1>1, <1>8, <2>2, <2>3, <2>4, <2>5 DEF HeapInv
<1>14. FlagInv'
  <2>1. ASSUME NEW u \in Actor, u # t
        PROVE  handler # u /\ op'[u] = op[u] /\ pc'[u] = pc[u] /\ flag'[u] = flag[u]
    BY <1>1, <1>6, <2>1, SystemFacts DEF IInv
  <2>2. ~flag'[t] /\ op'[t] = "add" /\ pc'[t] = 1
    BY <1>6
  <2>3. ASSUME NEW u \in Actor, u # t
        PROVE  /\ flag'[u] <=> ~InSection(alg, op'[u], pc'[u])
               /\ InSection(alg, op'[u], pc'[u]) => saved[u]
    BY <2>1, <2>3 DEF IInv, FlagInv
  <2>4. ~InSection(alg, op'[t], pc'[t]) /\ ~InSection(alg, frame'[1], frame'[2])
    BY <1>4, <1>5, <1>7, <2>2
  <2> QED
    BY <1>1, <1>8, <2>2, <2>3, <2>4 DEF FlagInv
<1>15. QueueInv'
  <2>1. ASSUME NEW d \in Thread
        PROVE  Counts(d)' <=> Counts(d)
    <3>1. d # 0 /\ frame[3] = 0
      BY <1>4, SystemFacts DEF IInv
    <3>2. \A u \in Actor : u # t => entity'[u] = entity[u] /\ op'[u] = op[u] /\ pc'[u] = pc[u]
      BY <1>6
    <3>3. entity'[t] = e /\ op'[t] = "add" /\ pc'[t] = 1
      BY <1>6
    <3>4. Counts(d) <=>
              \/ /\ d \in runnable
                 /\ \A u \in Actor \ {t} : entity[u] = d => ~PastUncount(alg, op[u], pc[u])
                 /\ entity[t] = d => ~PastUncount(alg, op[t], pc[t])
              \/ \E u \in Actor \ {t} : entity[u] = d /\ PastLink(alg, op[u], pc[u])
              \/ entity[t] = d /\ PastLink(alg, op[t], pc[t])
      BY <3>1 DEF Counts
    <3>5. Counts(d)' <=>
              \/ /\ d \in runnable
                 /\ \A u \in Actor \ {t} : entity[u] = d => ~PastUncount(alg, op[u], pc[u])
                 /\ entity[t] = d => ~PastUncount(alg, op[t], pc[t])
              \/ \E u \in Actor \ {t} : entity[u] = d /\ PastLink(alg, op[u], pc[u])
              \/ entity[t] = d /\ PastLink(alg, op[t], pc[t])
      BY <1>1, <1>5, <1>7, <1>8, <3>2, <3>3 DEF Counts
    <3> QED
      BY <3>4, <3>5
  <2>2. Counted' = Counted
    BY <1>1, <2>1 DEF Counted, Thread
  <2> QED
    BY <1>1, <2>2, QueueKept
<1> QED
  BY <1>10, <1>11, <1>12, <1>13, <1>14, <1>15 DEF IInv

----------------------------------------------------------------------------
(* Theorems *)

\* The kernel starts with a run queue of all threads, no lock held and interrupts enabled.
LEMMA InitEstablishes == Init => IInv
<1> SUFFICES ASSUME Init PROVE IInv
  OBVIOUS
<1>1. /\ system.threads \in Nat \ {0} /\ Thread = 1..system.threads /\ Actor = 0..system.threads
      /\ Thread \subseteq Actor /\ 0 \in Actor /\ 0 \notin Thread /\ -1 \notin Actor
      /\ Length("none") = 1 /\ "none" \in Op
  BY SystemsAssumption DEF Init, Thread, Actor, Length, Working, Op
<1>2. /\ ~PastLink(alg, "none", 1) /\ ~PastUncount(alg, "none", 1) /\ ~InSection(alg, "none", 1)
      /\ StepOf(alg, "none", 1) = "user"
  BY DEF PastLink, PastUncount, InSection, StepOf, Working
<1>3. queue \in Seq(Thread) /\ IsInjective(queue) /\ Range(queue) = Thread
  <2>1. queue = [i \in Thread |-> i]
    BY DEF Init
  <2>2. queue \in Seq(Thread)
    BY <1>1, <2>1
  <2> QED
    BY <2>1, <2>2 DEF IsInjective, Range
<1>4. TypeOK /\ pc \in [Actor -> Nat]
  <2>1. /\ owner \in -1..system.threads /\ count \in 0..system.threads /\ current \in Actor
        /\ handler \in -1..system.threads
    BY <1>1 DEF Init
  <2>2. \A t \in Actor : pc[t] \in 1..Length(op[t])
    BY <1>1 DEF Init
  <2>3. /\ flag \in [Actor -> BOOLEAN] /\ saved \in [Actor -> BOOLEAN]
        /\ op \in [Actor -> Op] /\ entity \in [Actor -> Actor]
        /\ slot \in [Actor -> {Freed} \cup Actor] /\ pc \in [Actor -> Nat]
    BY <1>1 DEF Init
  <2> QED
    BY <1>3, <2>1, <2>2, <2>3 DEF Init, TypeOK
<1>5. FrameInv
  BY <1>1 DEF Init, FrameInv
<1>6. EntityInv
  BY <1>1 DEF Init, EntityInv, Subject
<1>7. HeapInv
  BY <1>1, <1>2 DEF Init, HeapInv, MutualExclusion, OwnerIsHolder, Holds, Step, InHeap, alg
<1>8. FlagInv
  BY <1>1, <1>2 DEF Init, FlagInv
<1>9. QueueInv
  <2>1. Counted = Thread
    BY <1>1, <1>2 DEF Init, Counted, Counts
  <2>2. Cardinality(Thread) = system.threads
    BY <1>1, FS_Interval
  <2> QED
    BY <1>3, <2>1, <2>2 DEF QueueInv, Init
<1> QED
  BY <1>4, <1>5, <1>6, <1>7, <1>8, <1>9 DEF IInv

\* No step of the kernel breaks the invariant.
LEMMA NextKeeps == IInv /\ [Next]_vars => IInv'
<1> SUFFICES ASSUME IInv, [Next]_vars PROVE IInv'
  OBVIOUS
<1>1. CASE Tick
  BY <1>1, SwitchOnly DEF Tick
<1>2. ASSUME NEW t \in Actor, KernelStep(t)
      PROVE  IInv'
  <2>1. system' = system
    BY <1>2 DEF KernelStep
  <2>2. CASE TestAndSet(t) \/ SetOwner(t) \/ Unlock(t)
    BY <2>1, <2>2, TestAndSetKeeps, SetOwnerKeeps, UnlockKeeps
  <2>3. CASE IrqLock(t) \/ Walk(t) \/ Link(t)
    BY <2>1, <2>3, IrqLockKeeps, WalkKeeps, LinkKeeps
  <2>4. CASE Unlink(t) \/ Uncount(t) \/ IrqUnlock(t)
    BY <2>1, <2>4, UnlinkKeeps, UncountKeeps, IrqUnlockKeeps
  <2>5. CASE WriteState(t) \/ Yield(t)
    BY <2>1, <2>5, WriteStateKeeps, YieldKeeps
  <2> QED
    BY <1>2, <2>2, <2>3, <2>4, <2>5 DEF KernelStep
<1>3. ASSUME NEW t \in Actor, Call(t)
      PROVE  IInv'
  BY <1>3, CallKeeps
<1>4. ASSUME NEW t \in Actor, DeviceInterrupt(t)
      PROVE  IInv'
  BY <1>4, DeviceInterruptKeeps
<1>5. CASE UNCHANGED vars
  <2>1. /\ system' = system /\ locked' = locked /\ owner' = owner /\ count' = count
        /\ queue' = queue /\ current' = current /\ runnable' = runnable /\ flag' = flag
        /\ saved' = saved /\ op' = op /\ pc' = pc /\ entity' = entity /\ slot' = slot
        /\ handler' = handler /\ frame' = frame
    BY <1>5 DEF vars, mutex, list, thread, irq
  <2>2. TypeOK' /\ (pc \in [Actor -> Nat])'
    BY <2>1 DEF IInv, TypeOK, Thread, Actor, Length
  <2>3. FrameInv' /\ EntityInv' /\ FlagInv'
    BY <2>1 DEF IInv, FrameInv, EntityInv, FlagInv, Actor, Length, alg
  <2>4. HeapInv'
    BY <2>1 DEF IInv, HeapInv, MutualExclusion, OwnerIsHolder, Holds, Step, Actor, alg
  <2>5. Counted' = Counted
    BY <2>1 DEF Counted, Counts, Thread, Actor, alg
  <2> QED
    BY <2>1, <2>2, <2>3, <2>4, <2>5, QueueKept DEF IInv
<1> QED
  BY <1>1, <1>2, <1>3, <1>4, <1>5 DEF Next

\* Mutex and IRQLock are sound for any number of threads and with handlers that wait for the
\* mutex on the stack of its holder: one thread at most is between Mutex::lock and unlock, it is
\* the recorded owner, _locked says whether there is one, and a thread that leaves the kernel
\* has its interrupts enabled.
THEOREM LockSound == Spec => []LockIsSound
<1>1. IInv => LockIsSound
  <2> SUFFICES ASSUME IInv PROVE LockIsSound
    OBVIOUS
  <2>1. InterruptsRestored
    BY UserHasNoOperation DEF InterruptsRestored
  <2> QED
    BY <2>1 DEF LockIsSound, IInv, HeapInv
<1> QED
  BY <1>1, InitEstablishes, NextKeeps, PTL DEF Spec

\* An injective list is as long as the set of its entries is large.
LEMMA LengthOfInjectiveList ==
    ASSUME NEW T, NEW q \in Seq(T), IsInjective(q)
    PROVE  Cardinality(Range(q)) = Len(q)
<1>1. Len(q) \in Nat /\ DOMAIN q = 1..Len(q)
  BY LenProperties
<1>2. IsFiniteSet(1..Len(q)) /\ Cardinality(1..Len(q)) = Len(q)
  <2>1. Len(q) = 0 => 1..Len(q) = {}
    OBVIOUS
  <2> QED
    BY <1>1, <2>1, FS_Interval, FS_EmptySet
<1>3. q \in Bijection(1..Len(q), Range(q))
  BY <1>1 DEF Bijection, Injection, Surjection, Range
<1>4. ExistsBijection(1..Len(q), Range(q))
  BY <1>3 DEF ExistsBijection
<1> QED
  BY <1>2, <1>4, FS_Bijection

\* Run queue updates on the Commons list of SchedulerRoundRobin and SchedulerFIFO, that give up
\* the processor with interrupts disabled when they find the heap locked, never lose, keep or
\* duplicate an entry, for any number of threads: a thread whose state nobody is changing is in
\* the list once if it is RUNNABLE and not at all if it is not, and _count is the length.
THEOREM UpdatesIsolated == Spec => []UpdatesAreIsolated
<1>1. IInv => UpdatesAreIsolated
  <2> SUFFICES ASSUME IInv, alg = "rr"
               PROVE  /\ \A e \in Settled : Cardinality({i \in DOMAIN queue : queue[i] = e})
                                            = (IF e \in runnable THEN 1 ELSE 0)
                      /\ count = Len(queue)
    BY DEF UpdatesAreIsolated, alg
  <2>1. queue \in Seq(Thread) /\ IsInjective(queue) /\ Range(queue) = Counted
        /\ count = Cardinality(Counted)
    BY DEF IInv, TypeOK, QueueInv
  <2>2. ASSUME NEW e \in Settled
        PROVE  Cardinality({i \in DOMAIN queue : queue[i] = e}) = (IF e \in runnable THEN 1 ELSE 0)
    <3>1. e \in Thread /\ \A t \in Actor : entity[t] # e /\ frame[3] # e
      BY DEF Settled
    <3>2. frame[3] # e
      BY <3>1, SystemFacts DEF IInv
    <3>3. e \in Range(queue) <=> e \in runnable
      BY <2>1, <3>1, <3>2 DEF Counted, Counts
    <3>4. CASE e \in runnable
      <4>1. PICK k \in DOMAIN queue : queue[k] = e
        BY <3>3, <3>4 DEF Range
      <4>2. {i \in DOMAIN queue : queue[i] = e} = {k}
        BY <2>1, <4>1 DEF IsInjective
      <4> QED
        BY <3>4, <4>2, FS_Singleton
    <3>5. CASE e \notin runnable
      <4>1. {i \in DOMAIN queue : queue[i] = e} = {}
        BY <3>3, <3>5 DEF Range
      <4> QED
        BY <3>5, <4>1, FS_EmptySet
    <3> QED
      BY <3>4, <3>5
  <2>3. count = Len(queue)
    BY <2>1, LengthOfInjectiveList
  <2> QED
    BY <2>2, <2>3
<1> QED
  BY <1>1, InitEstablishes, NextKeeps, PTL DEF Spec

=============================================================================
