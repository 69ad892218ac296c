---------------------------- MODULE SharedPointer ----------------------------
(***************************************************************************)
(* Commons::SharedPointer and WeakPointer (coursework/Core/Memory.h), the    *)
(* reference counting below the run queues of the round-robin and FIFO      *)
(* schedulers.  An object has two counters, allocated with its first        *)
(* pointer; memory that is freed can be given to the next object, so an     *)
(* object has an address, which is all that two pointers compare.           *)
(***************************************************************************)
EXTENDS Integers, FiniteSets

CONSTANTS
    Object,         \* objects ever made
    Address,        \* where they can be
    Strong, Weak,   \* the pointer variables of the program
    MaxCasts,       \* bound: the casts of an object
    MaxWeak         \* bound: the weak count, which only grows as weak pointers go

Nil == "nil"        \* the null pointer
Out == "out"        \* a variable that is out of scope

\* A program has finitely many variables, and a null pointer is not the address of anything.
ASSUME PointerAssumption ==
    /\ IsFiniteSet(Strong) /\ IsFiniteSet(Weak)
    /\ Nil \notin Object /\ Out \notin Object /\ Nil \notin Address

VARIABLES
    sp, wp,         \* what the variables point to
    made,           \* Object -> its address, once it is made
    live,           \* the objects that have not been deleted
    shared, weak,   \* *_sharedCount and *_weakCount
    counters,       \* the objects whose counters have not been deleted
    casts           \* history: how often an object has been cast

pointerVars == <<sp, wp, made, live, shared, weak, counters, casts>>

PointerInit ==
    /\ sp = [s \in Strong |-> Out] /\ wp = [w \in Weak |-> Out]
    /\ made = [o \in Object |-> Nil] /\ live = {} /\ counters = {}
    /\ shared = [o \in Object |-> 0] /\ weak = [o \in Object |-> 0]
    /\ casts = [o \in Object |-> 0]

----------------------------------------------------------------------------
Count(o, n) == IF o \in Object THEN [shared EXCEPT ![o] = @ + n] ELSE shared

\* SharedPointer::Release of what the variable s points to, the counts being c: the
\* object is deleted with its last pointer, and the counters stay.
Release(s, c) ==
    LET o == sp[s] IN
    IF o \notin Object THEN shared' = c /\ UNCHANGED <<live, weak>>
    ELSE /\ shared' = [c EXCEPT ![o] = @ - 1]
         /\ live' = IF c[o] = 1 THEN live \ {o} ELSE live
         /\ weak' = IF c[o] = 1 THEN [weak EXCEPT ![o] = @ - 1] ELSE weak

\* MakeShared.
Make(s) ==
    \E o \in Object, a \in Address :
        /\ sp[s] = Out /\ made[o] = Nil /\ \A p \in live : made[p] # a
        /\ made' = [made EXCEPT ![o] = a] /\ live' = live \cup {o} /\ counters' = counters \cup {o}
        /\ shared' = [shared EXCEPT ![o] = 1] /\ weak' = [weak EXCEPT ![o] = 1]
        /\ sp' = [sp EXCEPT ![s] = o]
        /\ UNCHANGED <<wp, casts>>

CopyConstruct(s, t) ==
    /\ sp[s] = Out /\ sp[t] # Out
    /\ sp' = [sp EXCEPT ![s] = sp[t]] /\ shared' = Count(sp[t], 1)
    /\ UNCHANGED <<wp, made, live, weak, counters, casts>>

MoveConstruct(s, t) ==
    /\ sp[s] = Out /\ sp[t] # Out
    /\ sp' = [sp EXCEPT ![s] = sp[t], ![t] = Nil]
    /\ UNCHANGED <<wp, made, live, shared, weak, counters, casts>>

\* Variant: the old object is released before the new one is held.
AssignReleaseFirst(s, t) ==
    /\ sp[s] # Out /\ sp[t] # Out
    /\ sp' = [sp EXCEPT ![s] = sp[t]]
    /\ Release(s, shared)
    /\ UNCHANGED <<wp, made, counters, casts>>

\* Both assignments hold the new object and then release the old one; that from an
\* rvalue leaves its source as it was.
Assign(s, t) ==
    /\ sp[s] # Out /\ sp[t] # Out
    /\ sp' = [sp EXCEPT ![s] = sp[t]]
    /\ Release(s, Count(sp[t], 1))
    /\ UNCHANGED <<wp, made, counters, casts>>

AssignNull(s) ==
    /\ sp[s] # Out /\ sp' = [sp EXCEPT ![s] = Nil]
    /\ Release(s, shared)
    /\ UNCHANGED <<wp, made, counters, casts>>

Destroy(s) ==
    /\ sp[s] # Out /\ sp' = [sp EXCEPT ![s] = Out]
    /\ Release(s, shared)
    /\ UNCHANGED <<wp, made, counters, casts>>

\* ConstructPointerAtType holds the object, and so does the constructor it calls.
Cast(s, t) ==
    LET o == sp[t] IN
    /\ sp[s] = Out /\ o \in Object /\ casts[o] < MaxCasts
    /\ sp' = [sp EXCEPT ![s] = o] /\ shared' = Count(o, 2)
    /\ casts' = [casts EXCEPT ![o] = @ + 1]
    /\ UNCHANGED <<wp, made, live, weak, counters>>

----------------------------------------------------------------------------
WeakOf(p) == IF p \in Object THEN made[p] ELSE Nil
\* WeakPointer::Release, then Hold of the new object.
WeakMove(w, o) ==
    LET old == wp[w]
        c == IF old \in Object THEN [weak EXCEPT ![old] = @ - 1] ELSE weak
    IN /\ weak' = IF o \in Object THEN [c EXCEPT ![o] = @ + 1] ELSE c
       /\ counters' = IF old \in Object /\ c[old] = 0 THEN counters \ {old} ELSE counters
       /\ wp' = [wp EXCEPT ![w] = o]

WeakConstruct(w, s) ==
    /\ wp[w] = Out /\ sp[s] # Out /\ (sp[s] \in Object => weak[sp[s]] < MaxWeak)
    /\ WeakMove(w, sp[s])
    /\ UNCHANGED <<sp, made, live, shared, casts>>

\* Assigned only if the address is another one.
WeakAssign(w, s) ==
    /\ wp[w] # Out /\ sp[s] # Out
    /\ WeakOf(wp[w]) # WeakOf(sp[s]) /\ (sp[s] \in Object => weak[sp[s]] < MaxWeak)
    /\ WeakMove(w, sp[s])
    /\ UNCHANGED <<sp, made, live, shared, casts>>

WeakAssignNull(w) ==
    /\ wp[w] # Out /\ WeakMove(w, Nil)
    /\ UNCHANGED <<sp, made, live, shared, casts>>

\* There is no destructor: the count stays.
WeakDestroy(w) ==
    /\ wp[w] # Out /\ wp' = [wp EXCEPT ![w] = Out]
    /\ UNCHANGED <<sp, made, live, shared, weak, counters, casts>>

Pin(s, w) ==
    /\ sp[s] = Out /\ wp[w] # Out
    /\ IF wp[w] \in Object /\ shared[wp[w]] # 0
       THEN sp' = [sp EXCEPT ![s] = wp[w]] /\ shared' = Count(wp[w], 1)
       ELSE sp' = [sp EXCEPT ![s] = Nil] /\ UNCHANGED shared
    /\ UNCHANGED <<wp, made, live, weak, counters, casts>>

PointerNext ==
    \/ \E s \in Strong : Make(s) \/ AssignNull(s) \/ Destroy(s)
    \/ \E s \in Strong, t \in Strong :
          CopyConstruct(s, t) \/ MoveConstruct(s, t) \/ Assign(s, t) \/ Cast(s, t)
    \/ \E w \in Weak : WeakAssignNull(w) \/ WeakDestroy(w)
    \/ \E w \in Weak, s \in Strong : WeakConstruct(w, s) \/ WeakAssign(w, s) \/ Pin(s, w)

PointerSpec == PointerInit /\ [][PointerNext]_pointerVars

----------------------------------------------------------------------------
Pointers(o) == Cardinality({s \in Strong : sp[s] = o})

\* An object lives as long as a SharedPointer points to it, whatever copies, moves,
\* self-assignments and pins there were; its counters live as long as any pointer that
\* can read them; and an object that was never cast is deleted with its last pointer.
OwnersKeepObjects ==
    \A o \in Object :
        /\ Pointers(o) > 0 => o \in live
        /\ shared[o] = Pointers(o) + casts[o]
        /\ (Pointers(o) > 0 \/ \E w \in Weak : wp[w] = o) => o \in counters
        /\ o \in live /\ casts[o] = 0 => Pointers(o) > 0

\* A weak pointer that was assigned a live object can be pinned.  Not kept by the code:
\* WeakPointer::operator= compares addresses only, so a pointer to a deleted object is
\* not moved to the next object at that address.
WeakFollows ==
    \A w \in Weak : \A o \in live :
        wp[w] \in Object /\ made[wp[w]] = made[o] => wp[w] = o
=============================================================================
