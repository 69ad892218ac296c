----------------------------- MODULE PageSource -----------------------------
(***************************************************************************)
(* What alloc_pages and free_pages promise, whatever the algorithm: a       *)
(* request gets 2^order contiguous pages that nobody else has, naturally    *)
(* aligned if the algorithm sees to that, and it fails only when there is   *)
(* no such block or blocks of that order are never given out.               *)
(***************************************************************************)
EXTENDS Integers

CONSTANTS
    Pages,          \* the pages there are
    Initially,      \* the pages that can be given out
    Orders,         \* the orders that can be asked for
    Largest,        \* the largest order that is served
    NaturallyAligned,   \* whether a block starts at a multiple of its size
    NoOrder         \* no request has failed

VARIABLES
    avail,          \* the pages that can be given out now
    held,           \* the pages that callers hold
    failed          \* the order of the request that could not be met

Run(p, o) == p..(p + 2 ^ o - 1)
Runs(S, o) ==
    {p \in Pages : (NaturallyAligned => p % (2 ^ o) = 0) /\ Run(p, o) \subseteq S}

Init ==
    /\ avail = Initially
    /\ held = {}
    /\ failed = NoOrder

Grant(o) ==
    \E p \in Runs(avail, o) :
        /\ avail' = avail \ Run(p, o)
        /\ held' = held \cup Run(p, o)
        /\ UNCHANGED failed

Refuse(o) ==
    /\ o <= Largest => Runs(avail, o) = {}
    /\ failed' = o
    /\ UNCHANGED <<avail, held>>

Release(o) ==
    \E p \in Runs(held, o) :
        /\ held' = held \ Run(p, o)
        /\ avail' = avail \cup Run(p, o)
        /\ UNCHANGED failed

Next == \E o \in Orders : Grant(o) \/ Refuse(o) \/ Release(o)

Spec == Init /\ [][Next]_<<avail, held, failed>>
=============================================================================
