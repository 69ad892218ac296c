------------------------ MODULE KernelThreadsProofs ------------------------
(***************************************************************************)
(* Proofs about KernelThreads for any set of threads and processes, any     *)
(* programs and any of the three scheduling algorithms.                     *)
(***************************************************************************)
EXTENDS KernelThreads, PositionsProofs

----------------------------------------------------------------------------
(* The run queue. *)

\* add_to_runqueue of an entity that is not queued.
LEMMA AddedToRunqueue ==
    ASSUME NEW T, NEW q \in Seq(T), NEW e \in T
    PROVE  /\ AddToRunqueue(q, e) \in Seq(T)
           /\ Range(AddToRunqueue(q, e)) = Range(q) \cup {e}
           /\ IsInjective(q) /\ e \notin Range(q) => IsInjective(AddToRunqueue(q, e))
  BY AppendedToList DEF AddToRunqueue

\* remove_from_runqueue on a queue without duplicates takes exactly the entity
\* out, by either of the two list implementations.
LEMMA RemovedFromRunqueue ==
    ASSUME NEW T, NEW q \in Seq(T), NEW e
    PROVE  /\ RemoveFromRunqueue(q, e) \in Seq(T)
           /\ IsInjective(q) =>
                 /\ IsInjective(RemoveFromRunqueue(q, e))
                 /\ Range(RemoveFromRunqueue(q, e)) = Range(q) \ {e}
<1> DEFINE at == PositionsOf(q, e)
           P == IF Algorithm = "cfs" THEN {i \in at : \A k \in at : i <= k} ELSE at
<1>1. RemoveFromRunqueue(q, e) = Drop(q, P)
  BY DEF RemoveFromRunqueue
<1>2. Drop(q, P) \in Seq(T) /\ Range(Drop(q, P)) = {q[i] : i \in DOMAIN q \ P}
  BY DropKeepsTheRest
<1>3. IsInjective(q) => IsInjective(Drop(q, P))
  BY DropKeepsTheRest
<1>4. ASSUME IsInjective(q)
      PROVE  {q[i] : i \in DOMAIN q \ P} = Range(q) \ {e}
  <2>1. Len(q) \in Nat /\ DOMAIN q = 1..Len(q)
    BY LenProperties
  <2>2. \A i, k \in at : i = k
    BY <1>4 DEF PositionsOf, IsInjective
  <2>3. at \subseteq DOMAIN q /\ \A i \in at : i <= i
    BY <2>1 DEF PositionsOf
  <2>4. P = at
    BY <2>2, <2>3
  <2> QED
    BY <2>4 DEF PositionsOf, Range
<1> QED
  BY <1>1, <1>2, <1>3, <1>4

\* pick_next_entity returns an entity of the queue, or NULL when it is empty.
LEMMA PickedFromRunqueue ==
    ASSUME NEW T, NEW q \in Seq(T), NEW pick \in PickNextEntity(q)
    PROVE  pick \in Range(q) \/ (pick = NoEntity /\ q = <<>>)
<1>1. CASE q = <<>>
  BY <1>1 DEF PickNextEntity
<1>2. CASE q # <<>>
  <2>1. Len(q) \in Nat /\ Len(q) # 0 /\ DOMAIN q = 1..Len(q)
    BY <1>2, EmptySeq, LenProperties
  <2>2. Head(q) = q[1] /\ 1 \in DOMAIN q
    BY <2>1
  <2> QED
    BY <1>2, <2>2 DEF PickNextEntity, Range
<1> QED
  BY <1>1, <1>2

\* pick_next_entity leaves the same entities in the queue.
LEMMA AfterPickSameEntities ==
    ASSUME NEW T, NEW q \in Seq(T)
    PROVE  /\ AfterPick(q) \in Seq(T)
           /\ Range(AfterPick(q)) = Range(q)
           /\ IsInjective(q) => IsInjective(AfterPick(q))
<1>1. CASE Algorithm = "rr" /\ q # <<>>
  BY <1>1, SkewedList DEF AfterPick
<1>2. CASE ~(Algorithm = "rr" /\ q # <<>>)
  BY <1>2 DEF AfterPick
<1> QED
  BY <1>1, <1>2

----------------------------------------------------------------------------
(* Call stacks. *)

\* The callers of the innermost call, as a stack of their own.
LEMMA TailOfStack ==
    ASSUME NEW s \in Seq(Frame), s # <<>>
    PROVE  /\ Len(s) \in Nat /\ Len(s) >= 1 /\ DOMAIN s = 1..Len(s)
           /\ Head(s) = s[1] /\ s[1] \in Frame
           /\ Tail(s) \in Seq(Frame)
           /\ Len(Tail(s)) = Len(s) - 1 /\ DOMAIN Tail(s) = 1..(Len(s) - 1)
           /\ \A k \in 1..(Len(s) - 1) : Tail(s)[k] = s[k + 1]
<1>1. Len(s) \in Nat \ {0} /\ DOMAIN s = 1..Len(s) /\ \A k \in 1..Len(s) : s[k] \in Frame
  BY EmptySeq, LenProperties
<1>2. Tail(s) \in Seq(Frame) /\ Len(Tail(s)) = Len(s) - 1
      /\ \A k \in 1..Len(Tail(s)) : Tail(s)[k] = s[k + 1]
  BY HeadTailProperties
<1>3. DOMAIN Tail(s) = 1..Len(Tail(s))
  BY <1>2, LenProperties
<1> QED
  BY <1>1, <1>2, <1>3

\* Returning from the innermost call.
LEMMA PopCall ==
    ASSUME NEW s \in Seq(Frame), s # <<>>
    PROVE  <<>> \o Tail(s) = Tail(s)
  BY TailOfStack, ConcatEmptySeq

\* Replacing the innermost call by one call.
LEMMA PushOne ==
    ASSUME NEW s \in Seq(Frame), s # <<>>, NEW a \in Frame
    PROVE  LET r == <<a>> \o Tail(s)
           IN  /\ r \in Seq(Frame) /\ r # <<>> /\ Head(r) = a
               /\ DOMAIN r = DOMAIN s /\ DOMAIN s = 1..Len(s) /\ Len(s) \in Nat /\ Len(s) >= 1
               /\ r[1] = a
               /\ \A k \in 2..Len(s) : r[k] = s[k]
<1> DEFINE n == Len(s)
           t == Tail(s)
           r == <<a>> \o t
<1>1. n \in Nat /\ n >= 1 /\ DOMAIN s = 1..n /\ t \in Seq(Frame) /\ Len(t) = n - 1
      /\ \A k \in 1..(n - 1) : t[k] = s[k + 1]
  BY TailOfStack
<1>2. <<a>> \in Seq(Frame) /\ Len(<<a>>) = 1 /\ <<a>>[1] = a
  OBVIOUS
<1>3. r \in Seq(Frame) /\ Len(r) = 1 + (n - 1)
      /\ \A k \in 1..(1 + (n - 1)) : r[k] = IF k <= 1 THEN <<a>>[k] ELSE t[k - 1]
  BY <1>1, <1>2, ConcatProperties
<1> HIDE DEF n, t, r
<1>4. Len(r) = n /\ DOMAIN r = 1..n /\ r[1] = a
  BY <1>1, <1>2, <1>3, LenProperties
<1>5. ASSUME NEW k \in 2..n
      PROVE  r[k] = s[k]
  <2>1. k \in 1..(1 + (n - 1)) /\ ~(k <= 1) /\ k - 1 \in 1..(n - 1) /\ (k - 1) + 1 = k
    BY <1>1
  <2> QED
    BY <2>1, <1>1, <1>3
<1>6. r # <<>> /\ Head(r) = a
  BY <1>1, <1>3, <1>4
<1> QED
  BY <1>1, <1>3, <1>4, <1>5, <1>6 DEF n, t, r

\* Replacing the innermost call by two calls.
LEMMA PushTwo ==
    ASSUME NEW s \in Seq(Frame), s # <<>>, NEW a \in Frame, NEW b \in Frame
    PROVE  LET r == <<a, b>> \o Tail(s)
           IN  /\ r \in Seq(Frame) /\ r # <<>> /\ Head(r) = a
               /\ DOMAIN r = 1..(Len(s) + 1)
               /\ DOMAIN s = 1..Len(s) /\ Len(s) \in Nat /\ Len(s) >= 1
               /\ r[1] = a /\ r[2] = b
               /\ \A k \in 2..Len(s) : r[k + 1] = s[k]
<1> DEFINE n == Len(s)
           t == Tail(s)
           r == <<a, b>> \o t
<1>1. n \in Nat /\ n >= 1 /\ DOMAIN s = 1..n /\ t \in Seq(Frame) /\ Len(t) = n - 1
      /\ \A k \in 1..(n - 1) : t[k] = s[k + 1]
  BY TailOfStack
<1>2. <<a, b>> \in Seq(Frame) /\ Len(<<a, b>>) = 2 /\ <<a, b>>[1] = a /\ <<a, b>>[2] = b
  OBVIOUS
<1>3. r \in Seq(Frame) /\ Len(r) = 2 + (n - 1)
      /\ \A k \in 1..(2 + (n - 1)) : r[k] = IF k <= 2 THEN <<a, b>>[k] ELSE t[k - 2]
  BY <1>1, <1>2, ConcatProperties
<1> HIDE DEF n, t, r
<1>4. Len(r) = n + 1 /\ DOMAIN r = 1..(n + 1) /\ r[1] = a /\ r[2] = b
  BY <1>1, <1>2, <1>3, LenProperties
<1>5. ASSUME NEW k \in 2..n
      PROVE  r[k + 1] = s[k]
  <2>1. k + 1 \in 1..(2 + (n - 1)) /\ ~(k + 1 <= 2) /\ (k + 1) - 2 = k - 1
        /\ k - 1 \in 1..(n - 1) /\ (k - 1) + 1 = k
    BY <1>1
  <2> QED
    BY <2>1, <1>1, <1>3
<1>6. r # <<>> /\ Head(r) = a
  BY <1>1, <1>3, <1>4
<1> QED
  BY <1>1, <1>3, <1>4, <1>5, <1>6 DEF n, t, r

\* Replacing the innermost call by three calls.
LEMMA PushThree ==
    ASSUME NEW s \in Seq(Frame), s # <<>>, NEW a \in Frame, NEW b \in Frame, NEW c \in Frame
    PROVE  LET r == <<a, b, c>> \o Tail(s)
           IN  /\ r \in Seq(Frame) /\ r # <<>> /\ Head(r) = a
               /\ DOMAIN r = 1..(Len(s) + 2)
               /\ DOMAIN s = 1..Len(s) /\ Len(s) \in Nat /\ Len(s) >= 1
               /\ r[1] = a /\ r[2] = b /\ r[3] = c
               /\ \A k \in 2..Len(s) : r[k + 2] = s[k]
<1> DEFINE n == Len(s)
           t == Tail(s)
           r == <<a, b, c>> \o t
<1>1. n \in Nat /\ n >= 1 /\ DOMAIN s = 1..n /\ t \in Seq(Frame) /\ Len(t) = n - 1
      /\ \A k \in 1..(n - 1) : t[k] = s[k + 1]
  BY TailOfStack
<1>2. /\ <<a, b, c>> \in Seq(Frame) /\ Len(<<a, b, c>>) = 3
      /\ <<a, b, c>>[1] = a /\ <<a, b, c>>[2] = b /\ <<a, b, c>>[3] = c
  OBVIOUS
<1>3. r \in Seq(Frame) /\ Len(r) = 3 + (n - 1)
      /\ \A k \in 1..(3 + (n - 1)) : r[k] = IF k <= 3 THEN <<a, b, c>>[k] ELSE t[k - 3]
  BY <1>1, <1>2, ConcatProperties
<1> HIDE DEF n, t, r
<1>4. Len(r) = n + 2 /\ DOMAIN r = 1..(n + 2) /\ r[1] = a /\ r[2] = b /\ r[3] = c
  BY <1>1, <1>2, <1>3, LenProperties
<1>5. ASSUME NEW k \in 2..n
      PROVE  r[k + 2] = s[k]
  <2>1. k + 2 \in 1..(3 + (n - 1)) /\ ~(k + 2 <= 3) /\ (k + 2) - 3 = k - 1
        /\ k - 1 \in 1..(n - 1) /\ (k - 1) + 1 = k
    BY <1>1
  <2> QED
    BY <2>1, <1>1, <1>3
<1>6. r # <<>> /\ Head(r) = a
  BY <1>1, <1>3, <1>4
<1> QED
  BY <1>1, <1>3, <1>4, <1>5, <1>6 DEF n, t, r

\* The iterator marks that Clear leaves change no statement and no object.
LEMMA DangleKeepsCalls ==
    ASSUME NEW s \in Seq(Frame), NEW o
    PROVE  /\ Dangle(s, o) \in Seq(Frame)
           /\ DOMAIN Dangle(s, o) = DOMAIN s
           /\ \A k \in DOMAIN s : /\ Dangle(s, o)[k].pc = s[k].pc
                                  /\ Dangle(s, o)[k].obj = s[k].obj
                                  /\ Dangle(s, o)[k].st = s[k].st
<1>1. Len(s) \in Nat /\ DOMAIN s = 1..Len(s) /\ \A k \in 1..Len(s) : s[k] \in Frame
  BY LenProperties
<1> DEFINE n == Len(s)
           d == Dangle(s, o)
<1>2. d = [k \in 1..n |-> IF s[k].pc = "wake" /\ s[k].obj = o /\ s[k].i > 1
                          THEN [s[k] EXCEPT !.i = 0] ELSE s[k]]
  BY <1>1 DEF Dangle
<1>3. ASSUME NEW f \in Frame
      PROVE  /\ [f EXCEPT !.i = 0] \in Frame
             /\ [f EXCEPT !.i = 0].pc = f.pc
             /\ [f EXCEPT !.i = 0].obj = f.obj
             /\ [f EXCEPT !.i = 0].st = f.st
  BY DEF Frame
<1> HIDE DEF d, n
<1>4. d \in [1..n -> Frame]
  BY <1>1, <1>2, <1>3 DEF n
<1>5. d \in UNION {[1..m -> Frame] : m \in Nat}
  BY <1>1, <1>4 DEF n
<1>6. d \in Seq(Frame)
  BY <1>5, SeqDef
<1>7. \A k \in 1..n : d[k].pc = s[k].pc /\ d[k].obj = s[k].obj /\ d[k].st = s[k].st
  BY <1>1, <1>2, <1>3 DEF n
<1> QED
  BY <1>1, <1>4, <1>6, <1>7 DEF d, n

----------------------------------------------------------------------------
(* Type correctness, without any assumption on preemption. *)

LEMMA FrameFields ==
    ASSUME NEW f \in Frame
    PROVE  /\ f.st \in SchedState /\ f.i \in Nat /\ f.obj \in Object
           /\ f.pc \in {"check", "runq", "write", "yield", "join"} => f.obj \in Thread
           /\ f.pc \in {"wait", "term"} => f.obj \in Process
  BY DEF Frame, Object

\* A call stays a call when it moves to another statement of the same function
\* or when its iterator moves.
LEMMA FrameMoves ==
    ASSUME NEW f \in Frame
    PROVE  /\ \A n \in Nat : [f EXCEPT !.i = n] \in Frame
           /\ f.pc = "check" => [f EXCEPT !.pc = "runq"] \in Frame /\ [f EXCEPT !.pc = "write"] \in Frame
           /\ f.pc = "runq" => [f EXCEPT !.pc = "write"] \in Frame
           /\ f.pc = "wake" => [f EXCEPT !.pc = "clear"] \in Frame
  BY DEF Frame

LEMMA NewCalls ==
    /\ \A t \in Thread, s \in SchedState : SetEntityState(t, s) \in Frame
    /\ \A t \in Thread : YieldIfSelf(t) \in Frame /\ JoinLoop(t) \in Frame
    /\ \A o \in Object : Trigger(o) \in Frame /\ WaitOn(o) \in Frame
    /\ \A p \in Process : WaitLoop(p) \in Frame /\ Terminate(p) \in Frame
  BY DEF Frame, SchedState, SetEntityState, YieldIfSelf, JoinLoop, Trigger, WaitOn,
         WaitLoop, Terminate

\* What TypeOK says of the innermost call of a thread in the kernel.
LEMMA TopCall ==
    ASSUME TypeOK, NEW self \in Thread, NEW pc, At(self, pc)
    PROVE  /\ stack[self] \in Seq(Frame) /\ stack[self] # <<>>
           /\ Top(self) \in Frame /\ Top(self) = stack[self][1] /\ Top(self).pc = pc
           /\ Tail(stack[self]) \in Seq(Frame)
<1>1. stack[self] \in Seq(Frame) /\ stack[self] # <<>>
  BY DEF TypeOK, At
<1> QED
  BY <1>1, TailOfStack DEF At, Top

LEMMA GotoType ==
    ASSUME TypeOK, NEW self \in Thread, NEW frames,
           frames \o Tail(stack[self]) \in Seq(Frame), Goto(self, frames)
    PROVE  stack' \in [Thread -> Seq(Frame)]
  BY DEF TypeOK, Goto

LEMMA ScheduleType ==
    ASSUME TypeOK, Schedule
    PROVE  /\ runq' \in Seq(Thread)
           /\ current' \in Thread \cup {Idle, NoEntity}
           /\ fault' \in {"none", "activate", "dangling"}
<1>1. runq \in Seq(Thread)
  BY DEF TypeOK
<1>2. runq' \in Seq(Thread)
  BY <1>1, AfterPickSameEntities DEF Schedule
<1>3. PICK pick \in PickNextEntity(runq) :
          LET next == IF pick = NoEntity THEN Idle ELSE pick
          IN  IF next = current THEN UNCHANGED <<current, fault>> ELSE Activate(next)
  BY DEF Schedule
<1>4. pick \in Range(runq) \/ pick = NoEntity
  BY <1>1, PickedFromRunqueue
<1>5. Range(runq) \subseteq Thread
  BY <1>1, RangeOfSeq
<1> QED
  BY <1>2, <1>3, <1>4, <1>5 DEF Activate, TypeOK

LEMMA TypeInit == Init => TypeOK
<1> SUFFICES ASSUME Init PROVE TypeOK
  OBVIOUS
<1>1. Main[Boot] \in Thread
  BY ThreadsAssumption
<1>2. <<Main[Boot]>> \in Seq(Thread) /\ <<>> \in Seq(Thread) /\ <<>> \in Seq(Frame)
  BY <1>1
<1> QED
  BY <1>2 DEF Init, TypeOK, SchedState

LEMMA TypeNext == TypeOK /\ [Next]_vars => TypeOK'
<1> SUFFICES ASSUME TypeOK, [Next]_vars PROVE TypeOK'
  OBVIOUS
<1> USE DEF SchedState
<1>1. CASE Tick
  BY <1>1, ScheduleType DEF Tick, TypeOK
<1>2. ASSUME NEW self \in Thread, Check(self) PROVE TypeOK'
  <2>1. At(self, "check")
    BY <1>2 DEF Check
  <2> DEFINE f == Top(self)
  <2>2. f \in Frame /\ f.pc = "check" /\ stack[self] \in Seq(Frame) /\ stack[self] # <<>>
    BY <2>1, TopCall
  <2>3. [f EXCEPT !.pc = "runq"] \in Frame /\ [f EXCEPT !.pc = "write"] \in Frame
    BY <2>2, FrameMoves
  <2>4. <<>> \o Tail(stack[self]) \in Seq(Frame)
    BY <2>2, PopCall, TailOfStack
  <2>5. /\ <<[f EXCEPT !.pc = "runq"]>> \o Tail(stack[self]) \in Seq(Frame)
        /\ <<[f EXCEPT !.pc = "write"]>> \o Tail(stack[self]) \in Seq(Frame)
    BY <2>2, <2>3, PushOne
  <2> HIDE DEF f
  <2>6. \/ Goto(self, <<>>) 
        \/ Goto(self, <<[f EXCEPT !.pc = "runq"]>>)
        \/ Goto(self, <<[f EXCEPT !.pc = "write"]>>)
    BY <1>2 DEF Check, f
  <2>7. stack' \in [Thread -> Seq(Frame)]
    BY <2>4, <2>5, <2>6, GotoType
  <2> QED
    BY <1>2, <2>7 DEF Check, TypeOK
<1>3. ASSUME NEW self \in Thread, UpdateRunqueue(self) PROVE TypeOK'
  <2>1. At(self, "runq")
    BY <1>3 DEF UpdateRunqueue
  <2> DEFINE f == Top(self)
  <2>2. f \in Frame /\ f.pc = "runq" /\ stack[self] \in Seq(Frame) /\ stack[self] # <<>>
    BY <2>1, TopCall
  <2>3. [f EXCEPT !.pc = "write"] \in Frame /\ f.obj \in Thread
    BY <2>2, FrameMoves, FrameFields
  <2>4. <<[f EXCEPT !.pc = "write"]>> \o Tail(stack[self]) \in Seq(Frame)
    BY <2>2, <2>3, PushOne
  <2>5. runq \in Seq(Thread)
    BY DEF TypeOK
  <2>6. AddToRunqueue(runq, f.obj) \in Seq(Thread) /\ RemoveFromRunqueue(runq, f.obj) \in Seq(Thread)
    BY <2>3, <2>5, AddedToRunqueue, RemovedFromRunqueue
  <2>7. runq' \in Seq(Thread) /\ Goto(self, <<[f EXCEPT !.pc = "write"]>>)
    BY <1>3, <2>6 DEF UpdateRunqueue
  <2> HIDE DEF f
  <2>8. stack' \in [Thread -> Seq(Frame)]
    BY <2>4, <2>7, GotoType
  <2> QED
    BY <1>3, <2>7, <2>8 DEF UpdateRunqueue, TypeOK
<1>4. ASSUME NEW self \in Thread, WriteState(self) PROVE TypeOK'
  <2>1. At(self, "write")
    BY <1>4 DEF WriteState
  <2>2. Top(self) \in Frame /\ Top(self).pc = "write" /\ stack[self] \in Seq(Frame) /\ stack[self] # <<>>
    BY <2>1, TopCall
  <2>3. Top(self).obj \in Thread /\ Top(self).st \in SchedState /\ Top(self).obj \in Object
    BY <2>2, FrameFields
  <2>4. Trigger(Top(self).obj) \in Frame
    BY <2>3, NewCalls
  <2>5. <<Trigger(Top(self).obj)>> \o Tail(stack[self]) \in Seq(Frame)
    BY <2>2, <2>4, PushOne
  <2>6. stack' \in [Thread -> Seq(Frame)]
    BY <1>4, <2>5, GotoType DEF WriteState
  <2>7. state' \in [Thread -> SchedState]
    BY <1>4, <2>3 DEF WriteState, TypeOK
  <2> QED
    BY <1>4, <2>6, <2>7 DEF WriteState, TypeOK
<1>5. ASSUME NEW self \in Thread, Wake(self) PROVE TypeOK'
  <2>1. At(self, "wake")
    BY <1>5 DEF Wake
  <2> DEFINE f == Top(self)
  <2>2. f \in Frame /\ f.pc = "wake" /\ stack[self] \in Seq(Frame) /\ stack[self] # <<>>
    BY <2>1, TopCall
  <2>3. f.i \in Nat /\ f.obj \in Object /\ waiters[f.obj] \in Seq(Thread)
    BY <2>2, FrameFields DEF TypeOK
  <2> HIDE DEF f
  <2>4. [f EXCEPT !.pc = "clear"] \in Frame /\ [f EXCEPT !.i = f.i + 1] \in Frame
    <3>1. f.i + 1 \in Nat
      BY <2>3
    <3> QED
      BY <2>2, <3>1, FrameMoves
  <2>5. CASE f.i \in DOMAIN waiters[f.obj] /\ UNCHANGED fault
             /\ Goto(self, <<SetEntityState(waiters[f.obj][f.i], "RUNNABLE"),
                              [f EXCEPT !.i = f.i + 1]>>)
    <3>1. waiters[f.obj][f.i] \in Thread
      BY <2>3, <2>5, LenProperties
    <3>2. SetEntityState(waiters[f.obj][f.i], "RUNNABLE") \in Frame
      BY <3>1, NewCalls
    <3>3. <<SetEntityState(waiters[f.obj][f.i], "RUNNABLE"), [f EXCEPT !.i = f.i + 1]>>
              \o Tail(stack[self]) \in Seq(Frame)
      BY <2>2, <2>4, <3>2, PushTwo
    <3>4. stack' \in [Thread -> Seq(Frame)]
      BY <2>5, <3>3, GotoType
    <3> QED
      BY <1>5, <2>5, <3>4 DEF Wake, TypeOK
  <2>6. CASE UNCHANGED fault /\ Goto(self, <<[f EXCEPT !.pc = "clear"]>>)
    <3>1. <<[f EXCEPT !.pc = "clear"]>> \o Tail(stack[self]) \in Seq(Frame)
      BY <2>2, <2>4, PushOne
    <3>2. stack' \in [Thread -> Seq(Frame)]
      BY <2>6, <3>1, GotoType
    <3> QED
      BY <1>5, <2>6, <3>2 DEF Wake, TypeOK
  <2>7. CASE fault' = "dangling" /\ UNCHANGED stack
    BY <1>5, <2>7 DEF Wake, TypeOK
  <2> QED
    BY <1>5, <2>5, <2>6, <2>7 DEF Wake, f
<1>6. ASSUME NEW self \in Thread, Clear(self) PROVE TypeOK'
  <2>1. At(self, "clear")
    BY <1>6 DEF Clear
  <2>2. Top(self) \in Frame /\ Tail(stack[self]) \in Seq(Frame)
    BY <2>1, TopCall
  <2> DEFINE o == Top(self).obj
             callers(t) == IF t = self THEN Tail(stack[t]) ELSE stack[t]
  <2>3. \A t \in Thread : callers(t) \in Seq(Frame)
    BY <2>2 DEF TypeOK
  <2>4. \A t \in Thread : Dangle(callers(t), o) \in Seq(Frame)
    BY <2>3, DangleKeepsCalls
  <2>5. stack' = [t \in Thread |-> Dangle(callers(t), o)]
    BY <1>6 DEF Clear
  <2>6. waiters' = [waiters EXCEPT ![o] = <<>>] /\ o \in Object
    BY <1>6, <2>2, FrameFields DEF Clear
  <2> HIDE DEF o, callers
  <2>7. stack' \in [Thread -> Seq(Frame)]
    BY <2>4, <2>5
  <2>8. waiters' \in [Object -> Seq(Thread)]
    BY <2>6 DEF TypeOK
  <2> QED
    BY <1>6, <2>7, <2>8 DEF Clear, TypeOK
<1>7. ASSUME NEW self \in Thread, Yield(self) PROVE TypeOK'
  <2>1. At(self, "yield")
    BY <1>7 DEF Yield
  <2>2. <<>> \o Tail(stack[self]) \in Seq(Frame)
    BY <2>1, TopCall, PopCall
  <2>3. stack' \in [Thread -> Seq(Frame)]
    BY <1>7, <2>2, GotoType DEF Yield
  <2>4. /\ runq' \in Seq(Thread)
        /\ current' \in Thread \cup {Idle, NoEntity}
        /\ fault' \in {"none", "activate", "dangling"}
    BY <1>7, ScheduleType DEF Yield, TypeOK
  <2> QED
    BY <1>7, <2>3, <2>4 DEF Yield, TypeOK
<1>8. ASSUME NEW self \in Thread, AppendWaiter(self) PROVE TypeOK'
  <2>1. At(self, "append")
    BY <1>8 DEF AppendWaiter
  <2> DEFINE o == Top(self).obj
  <2>2. o \in Object /\ stack[self] \in Seq(Frame) /\ stack[self] # <<>>
    BY <2>1, TopCall, FrameFields
  <2>3. SetEntityState(self, "SLEEPING") \in Frame /\ YieldIfSelf(self) \in Frame
    BY NewCalls
  <2>4. <<SetEntityState(self, "SLEEPING"), YieldIfSelf(self)>> \o Tail(stack[self]) \in Seq(Frame)
    BY <2>2, <2>3, PushTwo
  <2>5. stack' \in [Thread -> Seq(Frame)]
    BY <1>8, <2>4, GotoType DEF AppendWaiter, Sleep
  <2>6. waiters' = [waiters EXCEPT ![o] = Append(@, self)]
    BY <1>8 DEF AppendWaiter
  <2> HIDE DEF o
  <2>7. Append(waiters[o], self) \in Seq(Thread)
    BY <2>2, AppendProperties DEF TypeOK
  <2>8. waiters' \in [Object -> Seq(Thread)]
    BY <2>2, <2>6, <2>7 DEF TypeOK
  <2> QED
    BY <1>8, <2>5, <2>8 DEF AppendWaiter, TypeOK
<1>9. ASSUME NEW self \in Thread, Join(self) \/ WaitProc(self) PROVE TypeOK'
  <2>1. At(self, "join") \/ At(self, "wait")
    BY <1>9 DEF Join, WaitProc
  <2> DEFINE f == Top(self)
  <2>2. f \in Frame /\ f.obj \in Object /\ stack[self] \in Seq(Frame) /\ stack[self] # <<>>
    BY <2>1, TopCall, FrameFields
  <2>3. WaitOn(f.obj) \in Frame
    BY <2>2, NewCalls
  <2>4. /\ <<>> \o Tail(stack[self]) \in Seq(Frame)
        /\ <<WaitOn(f.obj), f>> \o Tail(stack[self]) \in Seq(Frame)
    BY <2>2, <2>3, PushTwo, PopCall, TailOfStack
  <2>5. Goto(self, <<>>) \/ Goto(self, <<WaitOn(f.obj), f>>)
    BY <1>9 DEF Join, WaitProc
  <2> HIDE DEF f
  <2>6. stack' \in [Thread -> Seq(Frame)]
    BY <2>4, <2>5, GotoType
  <2> QED
    BY <1>9, <2>6 DEF Join, WaitProc, TypeOK
<1>10. ASSUME NEW self \in Thread, TerminateStep(self) PROVE TypeOK'
  <2>1. At(self, "term")
    BY <1>10 DEF TerminateStep
  <2> DEFINE f == Top(self)
             t == threads[f.obj][f.i]
  <2>2. f \in Frame /\ f.pc = "term" /\ stack[self] \in Seq(Frame) /\ stack[self] # <<>>
    BY <2>1, TopCall
  <2>3. f.i \in Nat /\ f.obj \in Process /\ f.obj \in Object /\ threads[f.obj] \in Seq(Thread)
    BY <2>2, FrameFields DEF TypeOK
  <2> HIDE DEF f
  <2>4. [f EXCEPT !.i = 1] \in Frame /\ [f EXCEPT !.i = f.i + 1] \in Frame
        /\ Trigger(f.obj) \in Frame
    <3>1. f.i + 1 \in Nat /\ 1 \in Nat
      BY <2>3
    <3> QED
      BY <2>2, <2>3, <3>1, FrameMoves, NewCalls
  <2>5. CASE terminated' = [terminated EXCEPT ![f.obj] = TRUE]
             /\ Goto(self, <<Trigger(f.obj), [f EXCEPT !.i = 1]>>)
    <3>1. <<Trigger(f.obj), [f EXCEPT !.i = 1]>> \o Tail(stack[self]) \in Seq(Frame)
      BY <2>2, <2>4, PushTwo
    <3>2. stack' \in [Thread -> Seq(Frame)]
      BY <2>5, <3>1, GotoType
    <3> QED
      BY <1>10, <2>3, <2>5, <3>2 DEF TerminateStep, TypeOK
  <2>6. CASE f.i \in DOMAIN threads[f.obj] /\ UNCHANGED terminated
             /\ Goto(self, <<SetEntityState(t, "STOPPED"), YieldIfSelf(t), [f EXCEPT !.i = f.i + 1]>>)
    <3>1. t \in Thread
      BY <2>3, <2>6, LenProperties
    <3>2. SetEntityState(t, "STOPPED") \in Frame /\ YieldIfSelf(t) \in Frame
      BY <3>1, NewCalls
    <3>3. <<SetEntityState(t, "STOPPED"), YieldIfSelf(t), [f EXCEPT !.i = f.i + 1]>>
             \o Tail(stack[self]) \in Seq(Frame)
      BY <2>2, <2>4, <3>2, PushThree
    <3>4. stack' \in [Thread -> Seq(Frame)]
      BY <2>6, <3>3, GotoType
    <3> QED
      BY <1>10, <2>6, <3>4 DEF TerminateStep, TypeOK
  <2>7. CASE UNCHANGED terminated /\ Goto(self, <<>>)
    <3>1. <<>> \o Tail(stack[self]) \in Seq(Frame)
      BY <2>2, PopCall, TailOfStack
    <3>2. stack' \in [Thread -> Seq(Frame)]
      BY <2>7, <3>1, GotoType
    <3> QED
      BY <1>10, <2>7, <3>2 DEF TerminateStep, TypeOK
  <2> QED
    BY <1>10, <2>5, <2>6, <2>7 DEF TerminateStep, f
<1>11. ASSUME NEW self \in Thread, SysCreateThread(self) PROVE TypeOK'
  <2>1. PICK u \in Thread :
            /\ threads' = [threads EXCEPT ![Owner[self]] = Append(@, u)]
            /\ Enter(self, <<SetEntityState(u, "RUNNABLE")>>)
    BY <1>11 DEF SysCreateThread
  <2>2. Owner[self] \in Process
    BY ThreadsAssumption
  <2>3. Append(threads[Owner[self]], u) \in Seq(Thread)
    BY <2>2, AppendProperties DEF TypeOK
  <2>4. threads' \in [Process -> Seq(Thread)]
    BY <2>1, <2>2, <2>3 DEF TypeOK
  <2>5. stack' \in [Thread -> Seq(Frame)]
    BY <2>1, NewCalls DEF Enter, TypeOK
  <2> QED
    BY <1>11, <2>4, <2>5 DEF SysCreateThread, TypeOK
<1>12. ASSUME NEW self \in Thread, SysExec(self) PROVE TypeOK'
  <2>1. PICK q \in Process :
            /\ threads' = [threads EXCEPT ![q] = <<Main[q]>>]
            /\ parent' = [parent EXCEPT ![q] = Owner[self]]
            /\ Enter(self, <<SetEntityState(Main[q], "RUNNABLE")>>)
    BY <1>12 DEF SysExec
  <2>2. Owner[self] \in Process /\ Main[q] \in Thread
    BY ThreadsAssumption
  <2>3. <<Main[q]>> \in Seq(Thread)
    BY <2>2
  <2>4. threads' \in [Process -> Seq(Thread)] /\ parent' \in [Process -> Process]
    BY <2>1, <2>2, <2>3 DEF TypeOK
  <2>5. stack' \in [Thread -> Seq(Frame)]
    BY <2>1, <2>2, NewCalls DEF Enter, TypeOK
  <2> QED
    BY <1>12, <2>4, <2>5 DEF SysExec, TypeOK
<1>13. ASSUME NEW self \in Thread,
              SysStopThread(self) \/ SysJoinThread(self) \/ SysWaitProc(self) \/ SysExit(self)
       PROVE TypeOK'
  <2>1. Owner[self] \in Process
    BY ThreadsAssumption
  <2>2. Created(Owner[self]) \subseteq Thread
    BY <2>1, RangeOfSeq DEF Created, TypeOK
  <2>3. Handles(self) \subseteq Thread
    BY <2>2 DEF Handles
  <2>4. \/ \E u \in Thread : Enter(self, <<SetEntityState(u, "STOPPED"), YieldIfSelf(u)>>)
        \/ \E u \in Thread : Enter(self, <<JoinLoop(u)>>)
        \/ \E q \in Process : Enter(self, <<WaitLoop(q)>>)
        \/ Enter(self, <<Terminate(Owner[self])>>)
    BY <1>13, <2>3 DEF SysStopThread, SysJoinThread, SysWaitProc, SysExit, Stop
  <2>5. /\ \A u \in Thread : <<SetEntityState(u, "STOPPED"), YieldIfSelf(u)>> \in Seq(Frame)
        /\ \A u \in Thread : <<JoinLoop(u)>> \in Seq(Frame)
        /\ \A q \in Process : <<WaitLoop(q)>> \in Seq(Frame)
        /\ <<Terminate(Owner[self])>> \in Seq(Frame)
    BY <2>1, NewCalls
  <2>6. PICK frames \in Seq(Frame) : Enter(self, frames)
    BY <2>4, <2>5
  <2>7. stack' \in [Thread -> Seq(Frame)]
    BY <2>6 DEF Enter, TypeOK
  <2> QED
    BY <1>13, <2>7 DEF SysStopThread, SysJoinThread, SysWaitProc, SysExit, TypeOK
<1>14. CASE UNCHANGED vars
  BY <1>14 DEF vars, TypeOK
<1> QED
  BY <1>1, <1>2, <1>3, <1>4, <1>5, <1>6, <1>7, <1>8, <1>9, <1>10, <1>11, <1>12, <1>13, <1>14
     DEF Next, KernelStep, SystemCall, Aborted

\* Every reachable state of the scheduler, its threads and their kernel call
\* stacks is well typed: in particular set_entity_state, join and terminate are
\* only ever called with the kind of object they expect.
THEOREM TypeCorrect == Spec => []TypeOK
  BY TypeInit, TypeNext, PTL DEF Spec

----------------------------------------------------------------------------
(* The shape of call stacks. *)

Changing == {"check", "runq", "write"}

\* Returning from the innermost call leaves no state change on the stack, and a
\* pending yield stays pending unless it is the call that returns.
LEMMA PopShape ==
    ASSUME NEW s \in Seq(Frame), s # <<>>, WellNested(s), NEW t
    PROVE  LET r == <<>> \o Tail(s)
           IN  /\ WellNested(r)
               /\ r # <<>> => Head(r).pc \notin Changing
               /\ WillYield(s, t) /\ ~(s[1].pc = "yield" /\ s[1].obj = t) => WillYield(r, t)
<1> DEFINE n == Len(s)
           r == Tail(s)
<1>1. /\ n \in Nat /\ n >= 1 /\ DOMAIN s = 1..n /\ r \in Seq(Frame) /\ Len(r) = n - 1
      /\ DOMAIN r = 1..(n - 1) /\ \A k \in 1..(n - 1) : r[k] = s[k + 1]
  BY TailOfStack
<1>2. <<>> \o Tail(s) = r
  BY PopCall
<1> HIDE DEF n, r
<1>3. ASSUME NEW k \in 1..(n - 1) PROVE r[k].pc \notin Changing
  <2>1. k + 1 \in DOMAIN s /\ k + 1 # 1 /\ r[k] = s[k + 1]
    BY <1>1
  <2> QED
    BY <2>1 DEF WellNested, Changing
<1>4. WellNested(r)
  BY <1>1, <1>3 DEF WellNested, Changing
<1>5. ASSUME r # <<>> PROVE Head(r).pc \notin Changing
  <2>1. Head(r) = r[1] /\ 1 \in 1..(n - 1)
    BY <1>1, <1>5, TailOfStack
  <2> QED
    BY <1>3, <2>1
<1>6. ASSUME WillYield(s, t), ~(s[1].pc = "yield" /\ s[1].obj = t) PROVE WillYield(r, t)
  <2>1. PICK k \in 1..n : s[k].pc = "yield" /\ s[k].obj = t
    BY <1>1, <1>6 DEF WillYield
  <2>2. k # 1
    BY <1>6, <2>1
  <2>3. k - 1 \in 1..(n - 1) /\ (k - 1) + 1 = k
    BY <1>1, <2>2
  <2>4. r[k - 1] = s[k]
    BY <1>1, <2>3
  <2> QED
    BY <1>1, <2>1, <2>3, <2>4 DEF WillYield
<1> QED
  BY <1>2, <1>4, <1>5, <1>6

\* The innermost call moves on, or is replaced by a call that is no state change.
LEMMA PushOneShape ==
    ASSUME NEW s \in Seq(Frame), s # <<>>, WellNested(s), NEW t, NEW a \in Frame,
           a.pc \in Changing => s[1].pc \in Changing /\ a.obj = s[1].obj /\ a.st = s[1].st
    PROVE  LET r == <<a>> \o Tail(s)
           IN  /\ WellNested(r)
               /\ WillYield(s, t) /\ s[1].pc # "yield" => WillYield(r, t)
               /\ s[1].pc \in Changing /\ s[1].st # "RUNNABLE" /\ s[1].obj = t => WillYield(r, t)
<1> DEFINE n == Len(s)
           r == <<a>> \o Tail(s)
<1>1. /\ n \in Nat /\ n >= 1 /\ DOMAIN s = 1..n /\ DOMAIN r = 1..n
      /\ r[1] = a /\ \A k \in 2..n : r[k] = s[k]
  BY PushOne
<1> HIDE DEF n, r
<1>2. ASSUME NEW k \in 1..n, k # 1 PROVE r[k] = s[k] /\ r[k].pc \notin Changing
  <2>1. k \in 2..n
    BY <1>1, <1>2
  <2> QED
    BY <1>1, <1>2, <2>1 DEF WellNested, Changing
<1>3. ASSUME s[1].pc \in Changing, s[1].st # "RUNNABLE"
      PROVE  2 \in 1..n /\ s[2].pc = "yield" /\ s[2].obj = s[1].obj
  <2>1. 1 \in DOMAIN s
    BY <1>1
  <2> QED
    BY <1>1, <1>3, <2>1 DEF WellNested, Changing
<1>4. WellNested(r)
  BY <1>1, <1>2, <1>3 DEF WellNested, Changing
<1>5. ASSUME WillYield(s, t), s[1].pc # "yield" PROVE WillYield(r, t)
  BY <1>1, <1>2, <1>5 DEF WillYield
<1>6. ASSUME s[1].pc \in Changing, s[1].st # "RUNNABLE", s[1].obj = t PROVE WillYield(r, t)
  BY <1>1, <1>2, <1>3, <1>6 DEF WillYield
<1> QED
  BY <1>4, <1>5, <1>6 DEF r

\* The innermost call makes one call, or is replaced by stop or sleep.
LEMMA PushTwoShape ==
    ASSUME NEW s \in Seq(Frame), s # <<>>, WellNested(s), NEW t, NEW a \in Frame, NEW b \in Frame,
           b.pc \notin Changing,
           a.pc \in Changing => a.st = "RUNNABLE" \/ (b.pc = "yield" /\ b.obj = a.obj)
    PROVE  LET r == <<a, b>> \o Tail(s)
           IN  /\ WellNested(r)
               /\ WillYield(s, t) /\ s[1].pc # "yield" => WillYield(r, t)
<1> DEFINE n == Len(s)
           r == <<a, b>> \o Tail(s)
<1>1. /\ n \in Nat /\ n >= 1 /\ DOMAIN s = 1..n /\ DOMAIN r = 1..(n + 1)
      /\ r[1] = a /\ r[2] = b /\ \A k \in 2..n : r[k + 1] = s[k]
  BY PushTwo
<1> HIDE DEF n, r
<1>2. ASSUME NEW k \in 2..n PROVE r[k + 1] = s[k] /\ s[k].pc \notin Changing /\ k + 1 \in 1..(n + 1)
  <2>1. k \in DOMAIN s /\ k # 1 /\ k + 1 \in 1..(n + 1)
    BY <1>1
  <2> QED
    BY <1>1, <2>1 DEF WellNested, Changing
<1>3. ASSUME NEW k \in 1..(n + 1), k # 1 PROVE r[k].pc \notin Changing
  <2>1. CASE k = 2
    BY <1>1, <2>1
  <2>2. CASE k # 2
    <3>1. k - 1 \in 2..n /\ (k - 1) + 1 = k
      BY <1>1, <1>3, <2>2
    <3>2. r[(k - 1) + 1] = s[k - 1] /\ s[k - 1].pc \notin Changing
      BY <1>2, <3>1
    <3> QED
      BY <3>1, <3>2
  <2> QED
    BY <2>1, <2>2
<1>4. 2 \in 1..(n + 1)
  BY <1>1
<1>5. WellNested(r)
  BY <1>1, <1>3, <1>4 DEF WellNested, Changing
<1>6. ASSUME WillYield(s, t), s[1].pc # "yield" PROVE WillYield(r, t)
  <2>1. PICK k \in 1..n : s[k].pc = "yield" /\ s[k].obj = t
    BY <1>1, <1>6 DEF WillYield
  <2>2. k \in 2..n
    BY <1>1, <1>6, <2>1
  <2> QED
    BY <1>1, <1>2, <2>1, <2>2 DEF WillYield
<1> QED
  BY <1>5, <1>6 DEF r

\* The innermost call calls stop.
LEMMA PushThreeShape ==
    ASSUME NEW s \in Seq(Frame), s # <<>>, WellNested(s), NEW t,
           NEW a \in Frame, NEW b \in Frame, NEW c \in Frame,
           b.pc \notin Changing, c.pc \notin Changing, b.pc = "yield" /\ b.obj = a.obj
    PROVE  LET r == <<a, b, c>> \o Tail(s)
           IN  /\ WellNested(r)
               /\ WillYield(s, t) /\ s[1].pc # "yield" => WillYield(r, t)
<1> DEFINE n == Len(s)
           r == <<a, b, c>> \o Tail(s)
<1>1. /\ n \in Nat /\ n >= 1 /\ DOMAIN s = 1..n /\ DOMAIN r = 1..(n + 2)
      /\ r[1] = a /\ r[2] = b /\ r[3] = c /\ \A k \in 2..n : r[k + 2] = s[k]
  BY PushThree
<1> HIDE DEF n, r
<1>2. ASSUME NEW k \in 2..n PROVE r[k + 2] = s[k] /\ s[k].pc \notin Changing /\ k + 2 \in 1..(n + 2)
  <2>1. k \in DOMAIN s /\ k # 1 /\ k + 2 \in 1..(n + 2)
    BY <1>1
  <2> QED
    BY <1>1, <2>1 DEF WellNested, Changing
<1>3. ASSUME NEW k \in 1..(n + 2), k # 1 PROVE r[k].pc \notin Changing
  <2>1. CASE k \in {2, 3}
    BY <1>1, <2>1
  <2>2. CASE k \notin {2, 3}
    <3>1. k - 2 \in 2..n /\ (k - 2) + 2 = k
      BY <1>1, <1>3, <2>2
    <3>2. r[(k - 2) + 2] = s[k - 2] /\ s[k - 2].pc \notin Changing
      BY <1>2, <3>1
    <3> QED
      BY <3>1, <3>2
  <2> QED
    BY <2>1, <2>2
<1>4. 2 \in 1..(n + 2)
  BY <1>1
<1>5. WellNested(r)
  BY <1>1, <1>3, <1>4 DEF WellNested, Changing
<1>6. ASSUME WillYield(s, t), s[1].pc # "yield" PROVE WillYield(r, t)
  <2>1. PICK k \in 1..n : s[k].pc = "yield" /\ s[k].obj = t
    BY <1>1, <1>6 DEF WillYield
  <2>2. k \in 2..n
    BY <1>1, <1>6, <2>1
  <2> QED
    BY <1>1, <1>2, <2>1, <2>2 DEF WillYield
<1> QED
  BY <1>5, <1>6 DEF r

\* A system call starts with an empty stack.
LEMMA EnterShape ==
    ASSUME NEW a \in Frame, NEW b \in Frame
    PROVE  /\ a.pc \notin Changing \/ a.st = "RUNNABLE" => WellNested(<<a>>)
           /\ b.pc = "yield" /\ b.obj = a.obj => WellNested(<<a, b>>)
  BY DEF WellNested, Changing

----------------------------------------------------------------------------
(* The scheduling invariant. *)

\* A call inside the two statements of set_entity_state that follow its test.
Unsettled == {"runq", "write"}

\* While no state change is under way the run queue is exact.
LEMMA SettledRunqueue ==
    ASSUME SchedInv, \A t \in Thread : Location(t) \notin Unsettled
    PROVE  /\ IsInjective(runq)
           /\ \A e \in Thread : e \in Range(runq) <=> state[e] = "RUNNABLE"
  BY DEF SchedInv, RunqueueMatchesState, InFlight, Unsettled

\* Only the thread on the processor can be changing a state.
LEMMA OthersAreSettled ==
    ASSUME SchedInv, NEW self \in Thread, current = self
    PROVE  \A t \in Thread : t # self => Location(t) \notin Unsettled
  BY DEF SchedInv, StateChangeOfCurrent, Unsettled

\* A step of the thread on the processor that leaves the scheduler alone and
\* starts no state change.
LEMMA QuietStep ==
    ASSUME SchedInv, NEW self \in Thread, current = self, Location(self) \notin Unsettled,
           UNCHANGED <<state, runq, current>>, fault' # "activate",
           StackShape', \A t \in Thread : Location(t)' \notin Unsettled,
           state[self] = "RUNNABLE" \/ WillYield(stack'[self], self)
    PROVE  SchedInv'
<1>1. /\ IsInjective(runq)
      /\ \A e \in Thread : e \in Range(runq) <=> state[e] = "RUNNABLE"
  BY SettledRunqueue, OthersAreSettled
<1>2. RunqueueMatchesState'
  BY <1>1 DEF RunqueueMatchesState
<1>3. StateChangeOfCurrent'
  BY DEF StateChangeOfCurrent, Unsettled
<1>4. StoppedThreadYields'
  BY DEF StoppedThreadYields
<1>5. ActivateAssertion'
  BY DEF ActivateAssertion
<1> QED
  BY <1>2, <1>3, <1>4, <1>5 DEF SchedInv

\* What a step of the thread on the processor does to the stacks.
LEMMA GotoStacks ==
    ASSUME TypeOK, StackShape, NEW self \in Thread, NEW frames, Goto(self, frames),
           WellNested(frames \o Tail(stack[self]))
    PROVE  /\ stack'[self] = frames \o Tail(stack[self])
           /\ \A t \in Thread : t # self => stack'[t] = stack[t] /\ Location(t)' = Location(t)
           /\ StackShape'
<1>1. stack'[self] = frames \o Tail(stack[self])
  BY DEF Goto, TypeOK
<1>2. \A t \in Thread : t # self => stack'[t] = stack[t]
  BY DEF Goto, TypeOK
<1> QED
  BY <1>1, <1>2 DEF Location, StackShape

LEMMA QuietGoto ==
    ASSUME TypeOK, SchedInv, NEW self \in Thread, NEW pc, At(self, pc), pc \notin Unsettled,
           NEW frames, Goto(self, frames),
           UNCHANGED <<state, runq, current>>, fault' # "activate",
           WellNested(frames \o Tail(stack[self])),
           frames \o Tail(stack[self]) # <<>> =>
               Head(frames \o Tail(stack[self])).pc \notin Unsettled,
           WillYield(stack[self], self) => WillYield(frames \o Tail(stack[self]), self)
    PROVE  SchedInv'
<1>1. current = self /\ Location(self) = pc
  BY DEF At, Location
<1>2. /\ stack'[self] = frames \o Tail(stack[self])
      /\ \A t \in Thread : t # self => Location(t)' = Location(t)
      /\ StackShape'
  BY GotoStacks DEF SchedInv
<1>3. \A t \in Thread : t # self => Location(t) \notin Unsettled
  BY <1>1, OthersAreSettled
<1>4. Location(self)' \notin Unsettled
  BY <1>2 DEF Location, Unsettled
<1>5. state[self] = "RUNNABLE" \/ WillYield(stack[self], self)
  BY <1>1 DEF SchedInv, StoppedThreadYields
<1>6. \A t \in Thread : Location(t)' \notin Unsettled
  BY <1>2, <1>3, <1>4
<1>7. state[self] = "RUNNABLE" \/ WillYield(stack'[self], self)
  BY <1>2, <1>5
<1> QED
  BY <1>1, <1>2, <1>6, <1>7, QuietStep

\* Scheduling while no state change is under way picks a RUNNABLE thread: the
\* assertion of Thread::activate holds and the thread that gets the processor
\* may go on with its user code.
LEMMA ScheduleKeepsInv ==
    ASSUME TypeOK, SchedInv, Schedule, UNCHANGED state, fault = "none",
           \A t \in Thread : Location(t) \notin Unsettled,
           StackShape', \A t \in Thread : Location(t)' \notin Unsettled
    PROVE  SchedInv'
<1>1. /\ IsInjective(runq)
      /\ \A e \in Thread : e \in Range(runq) <=> state[e] = "RUNNABLE"
  BY SettledRunqueue
<1>2. runq \in Seq(Thread)
  BY DEF TypeOK
<1>3. runq' = AfterPick(runq) /\ Range(runq') = Range(runq) /\ IsInjective(runq')
  BY <1>1, <1>2, AfterPickSameEntities DEF Schedule
<1>4. PICK pick \in PickNextEntity(runq) :
          LET next == IF pick = NoEntity THEN Idle ELSE pick
          IN  IF next = current THEN UNCHANGED <<current, fault>> ELSE Activate(next)
  BY DEF Schedule
<1>5. pick \in Range(runq) \/ pick = NoEntity
  BY <1>2, PickedFromRunqueue
<1>6. Range(runq) \subseteq Thread /\ NoEntity \notin Thread /\ Idle \notin Thread
  BY <1>2, RangeOfSeq, ThreadsAssumption
<1>7. /\ fault' = "none"
      /\ current' = Idle \/ (current' = pick /\ pick \in Thread /\ state[pick] = "RUNNABLE")
  BY <1>1, <1>4, <1>5, <1>6 DEF Activate
<1>8. RunqueueMatchesState'
  BY <1>1, <1>3 DEF RunqueueMatchesState
<1>9. StateChangeOfCurrent'
  BY DEF StateChangeOfCurrent, Unsettled
<1>10. StoppedThreadYields'
  BY <1>6, <1>7 DEF StoppedThreadYields
<1>11. ActivateAssertion'
  BY <1>7 DEF ActivateAssertion
<1> QED
  BY <1>8, <1>9, <1>10, <1>11 DEF SchedInv

LEMMA SchedInvInit == Init => SchedInv
<1> SUFFICES ASSUME Init PROVE SchedInv
  OBVIOUS
<1>1. Main[Boot] \in Thread
  BY ThreadsAssumption
<1>2. DOMAIN runq = {1} /\ runq[1] = Main[Boot]
  BY DEF Init
<1>3. Range(runq) = {Main[Boot]}
  BY <1>2 DEF Range
<1>4. IsInjective(runq)
  BY <1>2 DEF IsInjective
<1>5. RunqueueMatchesState
  BY <1>1, <1>3, <1>4 DEF RunqueueMatchesState, Init
<1>6. \A t \in Thread : stack[t] = <<>> /\ DOMAIN stack[t] = {} /\ Location(t) = "user"
  BY DEF Init, Location
<1>7. StackShape /\ StateChangeOfCurrent
  BY <1>6 DEF StackShape, WellNested, StateChangeOfCurrent
<1>8. StoppedThreadYields /\ ActivateAssertion
  BY ThreadsAssumption DEF Init, StoppedThreadYields, ActivateAssertion
<1> QED
  BY <1>5, <1>7, <1>8 DEF SchedInv

\* One lemma per kind of step.
LEMMA TickKeepsInv ==
    ASSUME StateChangeIsAtomic, TypeOK, SchedInv, Tick
    PROVE  SchedInv'
<1>1. \A t \in Thread : Location(t) \notin Unsettled
  <2> SUFFICES ASSUME NEW t \in Thread, Location(t) \in Unsettled PROVE FALSE
    OBVIOUS
  <2>1. current = t
    BY DEF SchedInv, StateChangeOfCurrent, Unsettled
  <2>2. Location(t) \in Preemptible
    BY <2>1 DEF Tick
  <2> QED
    BY <2>2 DEF StateChangeIsAtomic, Unsettled
<1>2. StackShape' /\ \A t \in Thread : Location(t)' \notin Unsettled
  BY <1>1 DEF SchedInv, StackShape, Tick, Location
<1>3. Schedule /\ UNCHANGED state /\ fault = "none"
  BY DEF Tick
<1> QED
  BY <1>1, <1>2, <1>3, ScheduleKeepsInv

LEMMA CheckKeepsInv ==
    ASSUME TypeOK, SchedInv, NEW self \in Thread, Check(self)
    PROVE  SchedInv'
<1> DEFINE f == Top(self)
           s == stack[self]
<1>1. At(self, "check") /\ UNCHANGED <<state, runq, current, fault>> /\ current = self
  BY DEF Check, At
<1>2. f \in Frame /\ f.pc = "check" /\ f = s[1] /\ s \in Seq(Frame) /\ s # <<>>
  BY <1>1, TopCall
<1>3. WellNested(s) /\ f.obj \in Thread
  BY <1>2, FrameFields DEF SchedInv, StackShape
<1>4. fault' # "activate"
  BY <1>1 DEF At
<1>5. CASE state[f.obj] = f.st
  <2>1. Goto(self, <<>>)
    BY <1>5 DEF Check
  <2> HIDE DEF f
  <2>2. /\ WellNested(<<>> \o Tail(s))
        /\ <<>> \o Tail(s) # <<>> => Head(<<>> \o Tail(s)).pc \notin Changing
        /\ WillYield(s, self) => WillYield(<<>> \o Tail(s), self)
    BY <1>2, <1>3, PopShape
  <2> QED
    BY <1>1, <1>4, <2>1, <2>2, QuietGoto DEF Changing, Unsettled
<1>6. CASE state[f.obj] # f.st
  <2> DEFINE a == [f EXCEPT !.pc = IF f.st = "RUNNABLE" \/ state[f.obj] = "RUNNABLE"
                                   THEN "runq" ELSE "write"]
             r == <<a>> \o Tail(s)
  <2>1. Goto(self, <<a>>)
    BY <1>6 DEF Check
  <2>2. a \in Frame
    BY <1>2, FrameMoves
  <2>3. /\ a.pc = IF f.st = "RUNNABLE" \/ state[f.obj] = "RUNNABLE" THEN "runq" ELSE "write"
        /\ a.obj = f.obj /\ a.st = f.st
    BY <1>2 DEF Frame
  <2> HIDE DEF f, a, s, r
  <2>4. /\ WellNested(r)
        /\ WillYield(s, self) => WillYield(r, self)
    BY <1>2, <1>3, <2>2, <2>3, PushOneShape DEF Changing, r
  <2>5. r # <<>> /\ Head(r) = a
    BY <1>2, <2>2, PushOne DEF r
  <2>6. /\ stack'[self] = r
        /\ \A t \in Thread : t # self => Location(t)' = Location(t)
        /\ StackShape'
    BY <2>1, <2>4, GotoStacks DEF SchedInv, r, s
  <2>7. Location(self) = "check"
    BY <1>1 DEF At, Location
  <2>8. \A t \in Thread : t # self => Location(t) \notin Unsettled
    BY <1>1, OthersAreSettled
  <2>9. /\ IsInjective(runq)
        /\ \A e \in Thread : e \in Range(runq) <=> state[e] = "RUNNABLE"
    BY <2>7, <2>8, SettledRunqueue DEF Unsettled
  <2>10. Top(self)' = a /\ Location(self)' = a.pc
    BY <2>5, <2>6 DEF Top, Location
  <2>11. RunqueueMatchesState'
    BY <1>1, <2>9 DEF RunqueueMatchesState
  <2>12. StateChangeOfCurrent'
    <3> SUFFICES ASSUME NEW t \in Thread, Location(t)' \in Unsettled
                 PROVE  LET g == Top(t)'
                        IN  /\ current' = t
                            /\ state'[g.obj] # g.st
                            /\ g.pc = "runq" /\ g.st # "RUNNABLE" => state'[g.obj] = "RUNNABLE"
                            /\ g.pc = "write" => (g.obj \in Range(runq') <=> g.st = "RUNNABLE")
      BY DEF StateChangeOfCurrent, Unsettled
    <3>1. t = self
      BY <2>6, <2>8
    <3> QED
      BY <1>1, <1>3, <1>6, <2>3, <2>9, <2>10, <3>1
  <2>13. StoppedThreadYields'
    BY <1>1, <2>4, <2>6 DEF SchedInv, StoppedThreadYields, s
  <2> QED
    BY <1>4, <2>6, <2>11, <2>12, <2>13 DEF SchedInv, ActivateAssertion
<1> QED
  BY <1>5, <1>6

LEMMA UpdateRunqueueKeepsInv ==
    ASSUME TypeOK, SchedInv, NEW self \in Thread, UpdateRunqueue(self)
    PROVE  SchedInv'
<1> DEFINE f == Top(self)
           s == stack[self]
           a == [f EXCEPT !.pc = "write"]
           r == <<a>> \o Tail(s)
<1>1. At(self, "runq") /\ UNCHANGED <<state, current, fault>> /\ current = self
  BY DEF UpdateRunqueue, At
<1>2. f \in Frame /\ f.pc = "runq" /\ f = s[1] /\ s \in Seq(Frame) /\ s # <<>>
  BY <1>1, TopCall
<1>3. WellNested(s) /\ f.obj \in Thread
  BY <1>2, FrameFields DEF SchedInv, StackShape
<1>4. fault' # "activate" /\ Location(self) = "runq"
  BY <1>1 DEF At, Location
<1>5. /\ runq' = IF f.st = "RUNNABLE" THEN AddToRunqueue(runq, f.obj)
                 ELSE RemoveFromRunqueue(runq, f.obj)
      /\ Goto(self, <<a>>)
  BY DEF UpdateRunqueue
<1>6. a \in Frame
  BY <1>2, FrameMoves
<1>7. a.pc = "write" /\ a.obj = f.obj /\ a.st = f.st
  BY <1>2 DEF Frame
<1>8. state[f.obj] # f.st
  BY <1>4 DEF SchedInv, StateChangeOfCurrent
<1> HIDE DEF f, a, s, r
<1>9. /\ WellNested(r)
      /\ WillYield(s, self) => WillYield(r, self)
  BY <1>2, <1>3, <1>6, <1>7, PushOneShape DEF Changing, r
<1>10. r # <<>> /\ Head(r) = a
  BY <1>2, <1>6, PushOne DEF r
<1>11. /\ stack'[self] = r
       /\ \A t \in Thread : t # self => Location(t)' = Location(t)
       /\ StackShape'
  BY <1>5, <1>9, GotoStacks DEF SchedInv, r, s
<1>12. \A t \in Thread : t # self => Location(t) \notin Unsettled
  BY <1>1, OthersAreSettled
<1>13. /\ IsInjective(runq)
       /\ \A e \in Thread : e \in Range(runq) <=> state[e] = "RUNNABLE"
  BY <1>4, <1>12 DEF SchedInv, RunqueueMatchesState, InFlight, Unsettled
<1>14. Top(self)' = a /\ Location(self)' = "write"
  BY <1>7, <1>10, <1>11 DEF Top, Location
<1>15. runq \in Seq(Thread)
  BY DEF TypeOK
<1>16. /\ IsInjective(runq')
       /\ Range(runq') = IF f.st = "RUNNABLE" THEN Range(runq) \cup {f.obj} ELSE Range(runq) \ {f.obj}
  <2>1. CASE f.st = "RUNNABLE"
    <3>1. f.obj \notin Range(runq) /\ runq' = AddToRunqueue(runq, f.obj)
      BY <1>3, <1>5, <1>8, <1>13, <2>1
    <3>2. f.obj \in Thread /\ IsInjective(runq)
      BY <1>3, <1>13
    <3>3. \A e \in Thread :
             /\ IsInjective(runq) /\ e \notin Range(runq) => IsInjective(AddToRunqueue(runq, e))
             /\ Range(AddToRunqueue(runq, e)) = Range(runq) \cup {e}
      BY <1>15, AddedToRunqueue
    <3> QED
      BY <2>1, <3>1, <3>2, <3>3
  <2>2. CASE f.st # "RUNNABLE"
    <3>1. runq' = RemoveFromRunqueue(runq, f.obj)
      BY <1>5, <2>2
    <3>2. /\ IsInjective(RemoveFromRunqueue(runq, f.obj))
          /\ Range(RemoveFromRunqueue(runq, f.obj)) = Range(runq) \ {f.obj}
      BY <1>13, <1>15, RemovedFromRunqueue, Zenon
    <3> QED
      BY <2>2, <3>1, <3>2
  <2> QED
    BY <2>1, <2>2
<1>17. RunqueueMatchesState'
  <2>1. ASSUME NEW e \in Thread, e = f.obj PROVE InFlight(self, e)'
    BY <1>7, <1>14, <2>1 DEF InFlight
  <2>2. \A e \in Thread : e # f.obj => (e \in Range(runq') <=> state'[e] = "RUNNABLE")
    BY <1>1, <1>13, <1>16
  <2> QED
    BY <1>16, <2>1, <2>2 DEF RunqueueMatchesState
<1>18. StateChangeOfCurrent'
  <2> SUFFICES ASSUME NEW t \in Thread, Location(t)' \in Unsettled
               PROVE  LET g == Top(t)'
                      IN  /\ current' = t
                          /\ state'[g.obj] # g.st
                          /\ g.pc = "runq" /\ g.st # "RUNNABLE" => state'[g.obj] = "RUNNABLE"
                          /\ g.pc = "write" => (g.obj \in Range(runq') <=> g.st = "RUNNABLE")
    BY DEF StateChangeOfCurrent, Unsettled
  <2>1. t = self
    BY <1>11, <1>12
  <2> QED
    BY <1>1, <1>7, <1>8, <1>14, <1>16, <2>1
<1>19. StoppedThreadYields'
  BY <1>1, <1>9, <1>11 DEF SchedInv, StoppedThreadYields, s
<1> QED
  BY <1>4, <1>11, <1>17, <1>18, <1>19 DEF SchedInv, ActivateAssertion

LEMMA WriteStateKeepsInv ==
    ASSUME TypeOK, SchedInv, NEW self \in Thread, WriteState(self)
    PROVE  SchedInv'
<1> DEFINE f == Top(self)
           s == stack[self]
           a == Trigger(f.obj)
           r == <<a>> \o Tail(s)
<1>1. At(self, "write") /\ UNCHANGED <<runq, current, fault>> /\ current = self
  BY DEF WriteState, At
<1>2. f \in Frame /\ f.pc = "write" /\ f = s[1] /\ s \in Seq(Frame) /\ s # <<>>
  BY <1>1, TopCall
<1>3. WellNested(s) /\ f.obj \in Thread /\ f.obj \in Object
  BY <1>2, FrameFields DEF SchedInv, StackShape
<1>4. fault' # "activate" /\ Location(self) = "write"
  BY <1>1 DEF At, Location
<1>5. state' = [state EXCEPT ![f.obj] = f.st] /\ Goto(self, <<a>>)
  BY DEF WriteState
<1>6. a \in Frame /\ a.pc = "wake"
  BY <1>3, NewCalls DEF Trigger
<1>7. f.obj \in Range(runq) <=> f.st = "RUNNABLE"
  BY <1>2, <1>4 DEF SchedInv, StateChangeOfCurrent
<1>8. \A t \in Thread : t # self => Location(t) \notin Unsettled
  BY <1>1, OthersAreSettled
<1>9. /\ IsInjective(runq)
      /\ \A e \in Thread : e # f.obj => (e \in Range(runq) <=> state[e] = "RUNNABLE")
  BY <1>8 DEF SchedInv, RunqueueMatchesState, InFlight, Unsettled
<1> HIDE DEF f, a, s, r
<1>10. /\ WellNested(r)
       /\ WillYield(s, self) => WillYield(r, self)
       /\ f.obj = self /\ f.st # "RUNNABLE" => WillYield(r, self)
  BY <1>2, <1>3, <1>6, PushOneShape DEF Changing, r
<1>11. r # <<>> /\ Head(r) = a
  BY <1>2, <1>6, PushOne DEF r
<1>12. /\ stack'[self] = r
       /\ \A t \in Thread : t # self => Location(t)' = Location(t)
       /\ StackShape'
  BY <1>5, <1>10, GotoStacks DEF SchedInv, r, s
<1>13. \A t \in Thread : Location(t)' \notin Unsettled
  BY <1>6, <1>8, <1>11, <1>12 DEF Location, Unsettled
<1>14. \A e \in Thread : state'[e] = IF e = f.obj THEN f.st ELSE state[e]
  BY <1>5 DEF TypeOK
<1>15. RunqueueMatchesState'
  <2>1. \A e \in Thread : e \in Range(runq') <=> state'[e] = "RUNNABLE"
    BY <1>1, <1>7, <1>9, <1>14
  <2> QED
    BY <1>1, <1>9, <2>1 DEF RunqueueMatchesState
<1>16. StateChangeOfCurrent'
  BY <1>13 DEF StateChangeOfCurrent, Unsettled
<1>17. StoppedThreadYields'
  <2> SUFFICES ASSUME state'[self] # "RUNNABLE" PROVE WillYield(r, self)
    BY <1>1, <1>12 DEF StoppedThreadYields
  <2> QED
    BY <1>1, <1>10, <1>14 DEF SchedInv, StoppedThreadYields, s
<1> QED
  BY <1>4, <1>12, <1>15, <1>16, <1>17 DEF SchedInv, ActivateAssertion

\* What SchedInv says of the stack of a thread that is about to execute.
LEMMA AtShape ==
    ASSUME TypeOK, SchedInv, NEW self \in Thread, NEW pc, At(self, pc)
    PROVE  /\ stack[self] \in Seq(Frame) /\ stack[self] # <<>> /\ WellNested(stack[self])
           /\ Top(self) \in Frame /\ Top(self) = stack[self][1] /\ Top(self).pc = pc
           /\ current = self /\ fault = "none" /\ Location(self) = pc
  BY TopCall DEF SchedInv, StackShape, At, Location

\* Steps that replace the innermost call, which is no yield, by callees that are
\* no further than their first statement.
LEMMA ReturnKeepsInv ==
    ASSUME TypeOK, SchedInv, NEW self \in Thread, NEW pc, At(self, pc),
           pc \notin Unsettled, pc # "yield", Goto(self, <<>>),
           UNCHANGED <<state, runq, current>>, fault' # "activate"
    PROVE  SchedInv'
<1> DEFINE s == stack[self]
<1>1. s \in Seq(Frame) /\ s # <<>> /\ WellNested(s) /\ s[1].pc = pc
  BY AtShape
<1>2. /\ WellNested(<<>> \o Tail(s))
      /\ <<>> \o Tail(s) # <<>> => Head(<<>> \o Tail(s)).pc \notin Changing
      /\ WillYield(s, self) => WillYield(<<>> \o Tail(s), self)
  BY <1>1, PopShape
<1> QED
  BY <1>2, QuietGoto DEF Changing, Unsettled

LEMMA ReplaceKeepsInv ==
    ASSUME TypeOK, SchedInv, NEW self \in Thread, NEW pc, At(self, pc),
           pc \notin Unsettled, pc # "yield",
           NEW a \in Frame, a.pc \notin Changing, Goto(self, <<a>>),
           UNCHANGED <<state, runq, current>>, fault' # "activate"
    PROVE  SchedInv'
<1> DEFINE s == stack[self]
           r == <<a>> \o Tail(s)
<1>1. s \in Seq(Frame) /\ s # <<>> /\ WellNested(s) /\ s[1].pc = pc
  BY AtShape
<1>2. WellNested(r) /\ (WillYield(s, self) => WillYield(r, self))
  BY <1>1, PushOneShape
<1>3. r # <<>> /\ Head(r) = a
  BY <1>1, PushOne
<1> QED
  BY <1>2, <1>3, QuietGoto DEF Changing, Unsettled

LEMMA CallKeepsInv ==
    ASSUME TypeOK, SchedInv, NEW self \in Thread, NEW pc, At(self, pc),
           pc \notin Unsettled, pc # "yield",
           NEW a \in Frame, NEW b \in Frame, a.pc \notin Unsettled, b.pc \notin Changing,
           a.pc \in Changing => a.st = "RUNNABLE" \/ (b.pc = "yield" /\ b.obj = a.obj),
           Goto(self, <<a, b>>),
           UNCHANGED <<state, runq, current>>, fault' # "activate"
    PROVE  SchedInv'
<1> DEFINE s == stack[self]
           r == <<a, b>> \o Tail(s)
<1>1. s \in Seq(Frame) /\ s # <<>> /\ WellNested(s) /\ s[1].pc = pc
  BY AtShape
<1>2. WellNested(r) /\ (WillYield(s, self) => WillYield(r, self))
  BY <1>1, PushTwoShape
<1>3. r # <<>> /\ Head(r) = a
  BY <1>1, PushTwo
<1> QED
  BY <1>2, <1>3, QuietGoto

LEMMA CallStopKeepsInv ==
    ASSUME TypeOK, SchedInv, NEW self \in Thread, NEW pc, At(self, pc),
           pc \notin Unsettled, pc # "yield",
           NEW a \in Frame, NEW b \in Frame, NEW c \in Frame,
           a.pc \notin Unsettled, c.pc \notin Changing, b.pc = "yield" /\ b.obj = a.obj,
           Goto(self, <<a, b, c>>),
           UNCHANGED <<state, runq, current>>, fault' # "activate"
    PROVE  SchedInv'
<1> DEFINE s == stack[self]
           r == <<a, b, c>> \o Tail(s)
<1>1. s \in Seq(Frame) /\ s # <<>> /\ WellNested(s) /\ s[1].pc = pc
  BY AtShape
<1>2. WellNested(r) /\ (WillYield(s, self) => WillYield(r, self))
  BY <1>1, PushThreeShape DEF Changing
<1>3. r # <<>> /\ Head(r) = a
  BY <1>1, PushThree
<1> QED
  BY <1>2, <1>3, QuietGoto

LEMMA WakeKeepsInv ==
    ASSUME TypeOK, SchedInv, NEW self \in Thread, Wake(self)
    PROVE  SchedInv'
<1> DEFINE f == Top(self)
<1>1. At(self, "wake") /\ UNCHANGED <<state, runq, current>>
  BY DEF Wake
<1>2. f \in Frame /\ f.pc = "wake" /\ current = self /\ fault = "none" /\ Location(self) = "wake"
  BY <1>1, AtShape
<1>3. f.i \in Nat /\ f.obj \in Object /\ waiters[f.obj] \in Seq(Thread)
  BY <1>2, FrameFields DEF TypeOK
<1> HIDE DEF f
<1>4. CASE fault' = "dangling" /\ UNCHANGED stack
  BY <1>1, <1>4 DEF SchedInv, StackShape, StateChangeOfCurrent, RunqueueMatchesState, InFlight,
     StoppedThreadYields, ActivateAssertion, Location, Top
<1>5. CASE f.i \in DOMAIN waiters[f.obj] /\ UNCHANGED fault
           /\ Goto(self, <<SetEntityState(waiters[f.obj][f.i], "RUNNABLE"), [f EXCEPT !.i = f.i + 1]>>)
  <2> DEFINE a == SetEntityState(waiters[f.obj][f.i], "RUNNABLE")
             b == [f EXCEPT !.i = f.i + 1]
  <2>1. waiters[f.obj][f.i] \in Thread /\ f.i + 1 \in Nat
    BY <1>3, <1>5, LenProperties
  <2>2. a \in Frame /\ a.pc = "check" /\ a.st = "RUNNABLE"
    BY <2>1, NewCalls DEF SetEntityState, SchedState
  <2>3. b \in Frame
    BY <1>2, <2>1, FrameMoves
  <2>4. b.pc = "wake"
    BY <1>2 DEF Frame
  <2> HIDE DEF a, b
  <2>5. Goto(self, <<a, b>>) /\ fault' # "activate"
    BY <1>2, <1>5 DEF a, b
  <2> QED
    BY <1>1, <2>2, <2>3, <2>4, <2>5, CallKeepsInv DEF Unsettled, Changing
<1>6. CASE UNCHANGED fault /\ Goto(self, <<[f EXCEPT !.pc = "clear"]>>)
  <2> DEFINE a == [f EXCEPT !.pc = "clear"]
  <2>1. a \in Frame
    BY <1>2, FrameMoves
  <2>2. a.pc = "clear"
    BY <1>2 DEF Frame
  <2> HIDE DEF a
  <2>3. Goto(self, <<a>>) /\ fault' # "activate"
    BY <1>2, <1>6 DEF a
  <2> QED
    BY <1>1, <2>1, <2>2, <2>3, ReplaceKeepsInv DEF Unsettled, Changing
<1> QED
  BY <1>4, <1>5, <1>6 DEF Wake, f

LEMMA DangleShape ==
    ASSUME NEW s \in Seq(Frame), NEW o, NEW t, WellNested(s)
    PROVE  /\ WellNested(Dangle(s, o))
           /\ WillYield(s, t) => WillYield(Dangle(s, o), t)
           /\ Dangle(s, o) = <<>> <=> s = <<>>
           /\ s # <<>> => Head(Dangle(s, o)).pc = Head(s).pc
<1> DEFINE d == Dangle(s, o)
<1>1. /\ d \in Seq(Frame) /\ DOMAIN d = DOMAIN s
      /\ \A k \in DOMAIN s : d[k].pc = s[k].pc /\ d[k].obj = s[k].obj /\ d[k].st = s[k].st
  BY DangleKeepsCalls
<1> HIDE DEF d
<1>2. /\ 1 \in DOMAIN s => d[1].st = s[1].st /\ d[1].obj = s[1].obj
      /\ 2 \in DOMAIN s => d[2].pc = s[2].pc /\ d[2].obj = s[2].obj
  BY <1>1
<1>3. WellNested(d)
  <2> SUFFICES ASSUME NEW k \in DOMAIN s, s[k].pc \in Changing
               PROVE  /\ k = 1
                      /\ d[1].st # "RUNNABLE" => 2 \in DOMAIN s /\ d[2].pc = "yield" /\ d[2].obj = d[1].obj
    BY <1>1 DEF WellNested, Changing
  <2>1. k = 1
    BY DEF WellNested, Changing
  <2>2. d[1].st = s[1].st /\ d[1].obj = s[1].obj
    BY <1>2, <2>1
  <2>3. s[1].st # "RUNNABLE" => 2 \in DOMAIN s /\ s[2].pc = "yield" /\ s[2].obj = s[1].obj
    BY DEF WellNested, Changing
  <2> QED
    BY <1>2, <2>1, <2>2, <2>3
<1>4. WillYield(s, t) => WillYield(d, t)
  BY <1>1 DEF WillYield
<1>5. d = <<>> <=> s = <<>>
  BY <1>1, EmptySeq, LenProperties
<1>6. ASSUME s # <<>> PROVE Head(d).pc = Head(s).pc
  BY <1>1, <1>5, <1>6, TailOfStack
<1> QED
  BY <1>3, <1>4, <1>5, <1>6 DEF d

LEMMA ClearKeepsInv ==
    ASSUME TypeOK, SchedInv, NEW self \in Thread, Clear(self)
    PROVE  SchedInv'
<1> DEFINE s == stack[self]
           o == Top(self).obj
           callers(t) == IF t = self THEN Tail(stack[t]) ELSE stack[t]
<1>1. At(self, "clear") /\ UNCHANGED <<state, runq, current, fault>>
  BY DEF Clear
<1>2. /\ s \in Seq(Frame) /\ s # <<>> /\ WellNested(s) /\ s[1].pc = "clear"
      /\ current = self /\ fault = "none" /\ Location(self) = "clear"
  BY <1>1, AtShape
<1>3. stack' = [t \in Thread |-> Dangle(callers(t), o)]
  BY DEF Clear
<1>4. <<>> \o Tail(s) = Tail(s) /\ Tail(s) \in Seq(Frame)
  BY <1>2, PopCall, TailOfStack
<1>5. /\ WellNested(Tail(s))
      /\ Tail(s) # <<>> => Head(Tail(s)).pc \notin Changing
      /\ WillYield(s, self) => WillYield(Tail(s), self)
  BY <1>2, <1>4, PopShape
<1>6. \A t \in Thread : t # self => Location(t) \notin Unsettled
  BY <1>2, OthersAreSettled
<1>7. ASSUME NEW t \in Thread
      PROVE  /\ callers(t) \in Seq(Frame) /\ WellNested(callers(t))
             /\ callers(t) # <<>> => Head(callers(t)).pc \notin Unsettled
  BY <1>4, <1>5, <1>6 DEF SchedInv, StackShape, TypeOK, Location, Changing, Unsettled
<1> HIDE DEF callers, o
<1>8. ASSUME NEW t \in Thread
      PROVE  /\ stack'[t] = Dangle(callers(t), o)
             /\ WellNested(stack'[t])
             /\ stack'[t] # <<>> => Head(stack'[t]).pc \notin Unsettled
  BY <1>3, <1>7, DangleShape
<1>9. StackShape' /\ \A t \in Thread : Location(t)' \notin Unsettled
  BY <1>8 DEF StackShape, Location, Unsettled
<1>10. state[self] = "RUNNABLE" \/ WillYield(stack'[self], self)
  <2>1. state[self] = "RUNNABLE" \/ WillYield(Tail(s), self)
    BY <1>2, <1>5 DEF SchedInv, StoppedThreadYields
  <2>2. callers(self) = Tail(s)
    BY DEF callers
  <2>3. stack'[self] = Dangle(Tail(s), o)
    BY <1>8, <2>2
  <2>4. WillYield(Tail(s), self) => WillYield(Dangle(Tail(s), o), self)
    BY <1>4, <1>5, DangleShape
  <2> QED
    BY <2>1, <2>3, <2>4
<1> QED
  BY <1>1, <1>2, <1>9, <1>10, QuietStep DEF Unsettled

LEMMA YieldKeepsInv ==
    ASSUME TypeOK, SchedInv, NEW self \in Thread, Yield(self)
    PROVE  SchedInv'
<1> DEFINE s == stack[self]
           r == <<>> \o Tail(s)
<1>1. At(self, "yield") /\ UNCHANGED state /\ Goto(self, <<>>)
  BY DEF Yield
<1>2. /\ s \in Seq(Frame) /\ s # <<>> /\ WellNested(s) /\ s[1] = Top(self) /\ s[1].pc = "yield"
      /\ current = self /\ fault = "none" /\ Location(self) = "yield"
  BY <1>1, AtShape
<1>3. /\ WellNested(r)
      /\ r # <<>> => Head(r).pc \notin Unsettled
      /\ WillYield(s, self) /\ s[1].obj # self => WillYield(r, self)
  BY <1>2, PopShape DEF Changing, Unsettled
<1> HIDE DEF r
<1>4. CASE Top(self).obj = self
  <2>1. Schedule
    BY <1>4 DEF Yield
  <2>2. \A t \in Thread : Location(t) \notin Unsettled
    BY <1>2, OthersAreSettled DEF Unsettled
  <2>3. /\ stack'[self] = r
        /\ \A t \in Thread : t # self => Location(t)' = Location(t)
        /\ StackShape'
    BY <1>1, <1>3, GotoStacks DEF SchedInv, r
  <2>4. \A t \in Thread : Location(t)' \notin Unsettled
    BY <1>3, <2>2, <2>3 DEF Location, Unsettled
  <2> QED
    BY <1>1, <1>2, <2>1, <2>2, <2>3, <2>4, ScheduleKeepsInv
<1>5. CASE Top(self).obj # self
  <2>1. UNCHANGED <<runq, current, fault>>
    BY <1>5 DEF Yield
  <2>2. WillYield(s, self) => WillYield(r, self)
    BY <1>2, <1>3, <1>5
  <2> QED
    BY <1>1, <1>2, <1>3, <2>1, <2>2, QuietGoto DEF Unsettled, r
<1> QED
  BY <1>4, <1>5

LEMMA WaitKeepsInv ==
    ASSUME TypeOK, SchedInv, NEW self \in Thread,
           AppendWaiter(self) \/ Join(self) \/ WaitProc(self)
    PROVE  SchedInv'
<1>1. CASE AppendWaiter(self)
  <2> DEFINE a == SetEntityState(self, "SLEEPING")
             b == YieldIfSelf(self)
  <2>1. At(self, "append") /\ UNCHANGED <<state, runq, current, fault>> /\ Goto(self, <<a, b>>)
    BY <1>1 DEF AppendWaiter, Sleep
  <2>2. a \in Frame /\ b \in Frame /\ a.pc = "check" /\ b.pc = "yield" /\ b.obj = a.obj
    BY NewCalls DEF SetEntityState, YieldIfSelf, SchedState
  <2>3. fault' # "activate"
    BY <2>1 DEF At
  <2> HIDE DEF a, b
  <2> QED
    BY <2>1, <2>2, <2>3, CallKeepsInv DEF Unsettled, Changing
<1>2. CASE Join(self) \/ WaitProc(self)
  <2> DEFINE f == Top(self)
             a == WaitOn(f.obj)
  <2>1. PICK pc \in {"join", "wait"} : At(self, pc)
    BY <1>2 DEF Join, WaitProc
  <2>2. UNCHANGED <<state, runq, current, fault>> /\ (Goto(self, <<>>) \/ Goto(self, <<a, f>>))
    BY <1>2 DEF Join, WaitProc
  <2>3. f \in Frame /\ f.pc = pc /\ f.obj \in Object /\ fault = "none"
    BY <2>1, AtShape, FrameFields
  <2>4. a \in Frame /\ a.pc = "append"
    BY <2>3, NewCalls DEF WaitOn
  <2> HIDE DEF a, f
  <2>5. CASE Goto(self, <<>>)
    BY <2>1, <2>2, <2>3, <2>5, ReturnKeepsInv DEF Unsettled
  <2>6. CASE Goto(self, <<a, f>>)
    BY <2>1, <2>2, <2>3, <2>4, <2>6, CallKeepsInv DEF Unsettled, Changing
  <2> QED
    BY <2>2, <2>5, <2>6
<1> QED
  BY <1>1, <1>2

LEMMA TerminateKeepsInv ==
    ASSUME TypeOK, SchedInv, NEW self \in Thread, TerminateStep(self)
    PROVE  SchedInv'
<1> DEFINE f == Top(self)
           t == threads[f.obj][f.i]
<1>1. At(self, "term") /\ UNCHANGED <<state, runq, current, fault>>
  BY DEF TerminateStep
<1>2. f \in Frame /\ f.pc = "term" /\ fault' # "activate"
  BY <1>1, AtShape
<1>3. f.i \in Nat /\ f.obj \in Process /\ f.obj \in Object /\ threads[f.obj] \in Seq(Thread)
  BY <1>2, FrameFields DEF TypeOK
<1> HIDE DEF f
<1>4. ASSUME NEW k \in Nat PROVE [f EXCEPT !.i = k] \in Frame /\ [f EXCEPT !.i = k].pc = "term"
  <2>1. [f EXCEPT !.i = k] \in Frame
    BY <1>2, FrameMoves
  <2>2. [f EXCEPT !.i = k].pc = "term"
    BY <1>2 DEF Frame
  <2> QED
    BY <2>1, <2>2
<1>5. CASE Goto(self, <<Trigger(f.obj), [f EXCEPT !.i = 1]>>)
  <2> DEFINE a == Trigger(f.obj)
             b == [f EXCEPT !.i = 1]
  <2>1. a \in Frame /\ a.pc = "wake" /\ b \in Frame /\ b.pc = "term"
    BY <1>3, <1>4, NewCalls DEF Trigger
  <2>2. Goto(self, <<a, b>>)
    BY <1>5
  <2> HIDE DEF a, b
  <2> QED
    BY <1>1, <1>2, <2>1, <2>2, CallKeepsInv DEF Unsettled, Changing
<1>6. CASE f.i \in DOMAIN threads[f.obj]
           /\ Goto(self, <<SetEntityState(t, "STOPPED"), YieldIfSelf(t), [f EXCEPT !.i = f.i + 1]>>)
  <2> DEFINE a == SetEntityState(t, "STOPPED")
             b == YieldIfSelf(t)
             c == [f EXCEPT !.i = f.i + 1]
  <2>1. t \in Thread /\ f.i + 1 \in Nat
    BY <1>3, <1>6, LenProperties
  <2>2. a \in Frame /\ b \in Frame /\ a.pc = "check" /\ b.pc = "yield" /\ b.obj = a.obj
    BY <2>1, NewCalls DEF SetEntityState, YieldIfSelf, SchedState
  <2>3. c \in Frame /\ c.pc = "term"
    BY <1>4, <2>1
  <2>4. Goto(self, <<a, b, c>>)
    BY <1>6
  <2> HIDE DEF a, b, c
  <2> QED
    BY <1>1, <1>2, <2>2, <2>3, <2>4, CallStopKeepsInv DEF Unsettled, Changing
<1>7. CASE Goto(self, <<>>)
  BY <1>1, <1>2, <1>7, ReturnKeepsInv DEF Unsettled
<1> QED
  BY <1>5, <1>6, <1>7 DEF TerminateStep, f

\* A thread in user code is RUNNABLE, and the first statement of its system call
\* changes no state.
LEMMA SystemCallKeepsInv ==
    ASSUME TypeOK, SchedInv, NEW self \in Thread, SystemCall(self)
    PROVE  SchedInv'
<1>1. /\ current = self /\ fault = "none" /\ stack[self] = <<>>
      /\ UNCHANGED <<state, runq, current, fault>>
  BY DEF SystemCall, SysCreateThread, SysExec, SysStopThread, SysJoinThread, SysWaitProc,
         SysExit, Calls
<1>2. Location(self) = "user" /\ state[self] = "RUNNABLE"
  <2>1. DOMAIN stack[self] = {}
    BY <1>1
  <2> QED
    BY <1>1, <2>1 DEF Location, SchedInv, StoppedThreadYields, WillYield
<1>3. Owner[self] \in Process /\ \A p \in Process : Main[p] \in Thread
  BY ThreadsAssumption
<1>4. Handles(self) \subseteq Thread
  BY <1>3, RangeOfSeq DEF Handles, Created, TypeOK
<1>5. \/ \E a \in Frame : a.pc \notin Unsettled /\ (a.pc \notin Changing \/ a.st = "RUNNABLE")
                          /\ Enter(self, <<a>>)
      \/ \E a, b \in Frame : a.pc \notin Unsettled /\ b.pc = "yield" /\ b.obj = a.obj
                             /\ Enter(self, <<a, b>>)
  <2>1. CASE SysCreateThread(self) \/ SysExec(self)
    <3>1. PICK u \in Thread : Enter(self, <<SetEntityState(u, "RUNNABLE")>>)
      BY <1>3, <2>1 DEF SysCreateThread, SysExec
    <3>2. SetEntityState(u, "RUNNABLE") \in Frame /\ SetEntityState(u, "RUNNABLE").pc = "check"
          /\ SetEntityState(u, "RUNNABLE").st = "RUNNABLE"
      BY NewCalls DEF SetEntityState, SchedState
    <3> QED
      BY <3>1, <3>2 DEF Unsettled
  <2>2. CASE SysStopThread(self)
    <3>1. PICK u \in Thread : Enter(self, <<SetEntityState(u, "STOPPED"), YieldIfSelf(u)>>)
      BY <1>4, <2>2 DEF SysStopThread, Stop
    <3>2. /\ SetEntityState(u, "STOPPED") \in Frame /\ SetEntityState(u, "STOPPED").pc = "check"
          /\ YieldIfSelf(u) \in Frame /\ YieldIfSelf(u).pc = "yield"
          /\ YieldIfSelf(u).obj = SetEntityState(u, "STOPPED").obj
      BY NewCalls DEF SetEntityState, YieldIfSelf, SchedState
    <3> QED
      BY <3>1, <3>2 DEF Unsettled
  <2>3. CASE SysJoinThread(self)
    <3>1. PICK u \in Thread : Enter(self, <<JoinLoop(u)>>)
      BY <1>4, <2>3 DEF SysJoinThread
    <3>2. JoinLoop(u) \in Frame /\ JoinLoop(u).pc = "join"
      BY NewCalls DEF JoinLoop
    <3> QED
      BY <3>1, <3>2 DEF Unsettled, Changing
  <2>4. CASE SysWaitProc(self)
    <3>1. PICK p \in Process : Enter(self, <<WaitLoop(p)>>)
      BY <2>4 DEF SysWaitProc
    <3>2. WaitLoop(p) \in Frame /\ WaitLoop(p).pc = "wait"
      BY NewCalls DEF WaitLoop
    <3> QED
      BY <3>1, <3>2 DEF Unsettled, Changing
  <2>5. CASE SysExit(self)
    <3>1. Enter(self, <<Terminate(Owner[self])>>)
      BY <2>5 DEF SysExit
    <3>2. Terminate(Owner[self]) \in Frame /\ Terminate(Owner[self]).pc = "term"
      BY <1>3, NewCalls DEF Terminate
    <3> QED
      BY <3>1, <3>2 DEF Unsettled, Changing
  <2> QED
    BY <2>1, <2>2, <2>3, <2>4, <2>5 DEF SystemCall
<1>6. PICK r : Enter(self, r) /\ WellNested(r) /\ r # <<>> /\ Head(r).pc \notin Unsettled
  <2>1. ASSUME NEW a \in Frame, a.pc \notin Unsettled, a.pc \notin Changing \/ a.st = "RUNNABLE",
               Enter(self, <<a>>)
        PROVE  \E r : Enter(self, r) /\ WellNested(r) /\ r # <<>> /\ Head(r).pc \notin Unsettled
    <3>1. WellNested(<<a>>)
      BY <2>1, EnterShape
    <3>2. <<a>> # <<>> /\ Head(<<a>>) = a
      OBVIOUS
    <3> QED
      BY <2>1, <3>1, <3>2
  <2>2. ASSUME NEW a \in Frame, NEW b \in Frame, a.pc \notin Unsettled,
               b.pc = "yield", b.obj = a.obj, Enter(self, <<a, b>>)
        PROVE  \E r : Enter(self, r) /\ WellNested(r) /\ r # <<>> /\ Head(r).pc \notin Unsettled
    <3>1. WellNested(<<a, b>>)
      BY <2>2, EnterShape
    <3>2. <<a, b>> # <<>> /\ Head(<<a, b>>) = a
      OBVIOUS
    <3> QED
      BY <2>2, <3>1, <3>2
  <2> QED
    BY <1>5, <2>1, <2>2
<1>7. stack'[self] = r /\ \A t \in Thread : t # self => stack'[t] = stack[t]
  BY <1>6 DEF Enter, TypeOK
<1>8. StackShape'
  BY <1>6, <1>7 DEF StackShape, SchedInv
<1>9. \A t \in Thread : Location(t)' \notin Unsettled
  <2>1. \A t \in Thread : t # self => Location(t) \notin Unsettled
    BY <1>1, OthersAreSettled
  <2> QED
    BY <1>6, <1>7, <2>1 DEF Location, Unsettled
<1> QED
  BY <1>1, <1>2, <1>8, <1>9, QuietStep DEF Unsettled

LEMMA SchedInvNext ==
    ASSUME StateChangeIsAtomic, TypeOK, SchedInv, [Next]_vars
    PROVE  SchedInv'
<1>1. CASE Tick
  BY <1>1, TickKeepsInv
<1>2. ASSUME NEW self \in Thread, KernelStep(self) PROVE SchedInv'
  BY <1>2, CheckKeepsInv, UpdateRunqueueKeepsInv, WriteStateKeepsInv, WakeKeepsInv,
     ClearKeepsInv, YieldKeepsInv, WaitKeepsInv, TerminateKeepsInv DEF KernelStep
<1>3. ASSUME NEW self \in Thread, SystemCall(self) PROVE SchedInv'
  BY <1>3, SystemCallKeepsInv
<1>4. CASE UNCHANGED vars
  BY <1>4 DEF vars, SchedInv, StackShape, StateChangeOfCurrent, RunqueueMatchesState, InFlight,
     StoppedThreadYields, ActivateAssertion, Location, Top
<1> QED
  BY <1>1, <1>2, <1>3, <1>4 DEF Next, Aborted

\* If no timer interrupt arrives inside set_entity_state, the run queue holds
\* exactly the RUNNABLE threads, whatever the threads call, stop, wake and join.
THEOREM RunqueueCorrect ==
    ASSUME StateChangeIsAtomic PROVE Spec => []RunqueueMatchesState
<1>1. SchedInv => RunqueueMatchesState
  BY DEF SchedInv
<1>2. Init => TypeOK /\ SchedInv
  BY TypeInit, SchedInvInit
<1>3. TypeOK /\ SchedInv /\ [Next]_vars => (TypeOK /\ SchedInv)'
  BY TypeNext, SchedInvNext
<1> QED
  BY <1>1, <1>2, <1>3, PTL DEF Spec

\* Under the same condition the assertion of Thread::activate never fails.
THEOREM ActivateIsSafe ==
    ASSUME StateChangeIsAtomic PROVE Spec => []ActivateAssertion
<1>1. SchedInv => ActivateAssertion
  BY DEF SchedInv
<1>2. Init => TypeOK /\ SchedInv
  BY TypeInit, SchedInvInit
<1>3. TypeOK /\ SchedInv /\ [Next]_vars => (TypeOK /\ SchedInv)'
  BY TypeNext, SchedInvNext
<1> QED
  BY <1>1, <1>2, <1>3, PTL DEF Spec

\* Under the same condition a thread in its user code is RUNNABLE: stop and
\* sleep never return into the program before somebody made the thread RUNNABLE.
THEOREM StoppedThreadsLeaveUserCode ==
    ASSUME StateChangeIsAtomic PROVE Spec => []UserCodeIsRunnable
<1>1. SchedInv => UserCodeIsRunnable
  <2> SUFFICES ASSUME SchedInv, NEW t \in Thread, current = t, stack[t] = <<>>
               PROVE  state[t] = "RUNNABLE"
    BY DEF UserCodeIsRunnable
  <2>1. DOMAIN stack[t] = {}
    OBVIOUS
  <2> QED
    BY <2>1 DEF SchedInv, StoppedThreadYields, WillYield
<1>2. Init => TypeOK /\ SchedInv
  BY TypeInit, SchedInvInit
<1>3. TypeOK /\ SchedInv /\ [Next]_vars => (TypeOK /\ SchedInv)'
  BY TypeNext, SchedInvNext
<1> QED
  BY <1>1, <1>2, <1>3, PTL DEF Spec
=============================================================================
