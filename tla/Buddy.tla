------------------------------- MODULE Buddy -------------------------------
(***************************************************************************)
(* The buddy page allocation algorithm (coursework/buddy.cpp): free lists   *)
(* of blocks of 2^order pages, split on allocation and on reservation and   *)
(* merged again on release.                                                 *)
(*                                                                         *)
(* A page descriptor is its page frame number.  A free list is the sequence *)
(* of the blocks that _free_areas[order] and the next_free pointers link;   *)
(* a descriptor in no list has next_free = NULL, which bzero, remove_block  *)
(* and merge_block see to.  PageAllocator calls the algorithm under its     *)
(* mutex, so one call runs at a time; call says which one and how far it    *)
(* has come, one action per turn of its loop or recursion.                  *)
(***************************************************************************)
EXTENDS Integers, SequencesExt

CONSTANTS
    MaxOrder,       \* maxOrder, MAX_ORDER - 1
    NrPages,        \* nr_page_descriptors
    NoPage          \* the NULL of alloc_pages

\* pages_per_block, GetSize
PagesPerBlock(o) == 2 ^ o

\* The arithmetic facts of shifts that the algorithm relies on.
ASSUME BuddyAssumption ==
    /\ MaxOrder \in Nat
    /\ NrPages \in Nat \ {0}
    /\ NoPage \notin 0..NrPages
    /\ PagesPerBlock(0) = 1
    /\ \A o \in 0..MaxOrder : /\ PagesPerBlock(o) \in Nat \ {0}
                              /\ PagesPerBlock(o + 1) = 2 * PagesPerBlock(o)

Order == 0..MaxOrder
Page == 0..(NrPages - 1)

\* is_correct_alignment_for_order
Aligned(p, o) == p % PagesPerBlock(o) = 0

\* Variant: always the block on the right.
BuddyOnTheRight(p, o) == p + PagesPerBlock(o)

\* buddy_of: the other half of the block of the next order.
BuddyOf(p, o) ==
    IF Aligned(p, o + 1) THEN p + PagesPerBlock(o) ELSE p - PagesPerBlock(o)

\* The pages of a block.
Block(p, o) == p..(p + PagesPerBlock(o) - 1)

VARIABLES
    freeAreas,      \* _free_areas and the lists that hang off them
    call            \* the call in progress

\* What the algorithm can be doing, and its locals: the block and the order it
\* has come to, and the arguments page (base) and order (want) of the call.
Ops == {"init", "boot", "reserve", "idle", "split", "alloc", "merge", "free", "halted"}
Call == [op : Ops, page : Nat \cup {NoPage}, order : Int, base : Nat, want : Int]

Doing(op) == call.op = op

----------------------------------------------------------------------------
(* The list operations. *)

\* insert_block: behind the leading blocks that are lower.
InsertBlock(q, p) ==
    LET lower == {i \in DOMAIN q : \A j \in 1..i : q[j] < p}
    IN  InsertAt(q, Cardinality(lower) + 1, p)

\* remove_block
RemoveBlock(q, p) == RemoveFirst(q, p)

PositionOf(q, p) == SelectInSeq(q, LAMBDA b : b = p)

\* p->next_free == r
Links(p, r) ==
    \E o \in Order : \E i \in 1..(Len(freeAreas[o]) - 1) :
        freeAreas[o][i] = p /\ freeAreas[o][i + 1] = r

\* split_block: the left half takes its place in the order below, the right half
\* is linked directly behind it.
SplitBlock(p, o) ==
    LET below == InsertBlock(freeAreas[o - 1], p)
    IN  [freeAreas EXCEPT
           ![o] = RemoveBlock(@, p),
           ![o - 1] = InsertAt(below, PositionOf(below, p) + 1, BuddyOf(p, o - 1))]

\* merge_block: p and whatever follows it in the list leave it, p moves up.
MergeBlock(p, o) ==
    LET at == PositionOf(freeAreas[o], p)
    IN  [freeAreas EXCEPT
           ![o] = RemoveAt(RemoveAt(@, at), at),
           ![o + 1] = InsertBlock(@, p)]

----------------------------------------------------------------------------
(* init: the largest blocks first, one order per step. *)

\* Variant: the order is not lowered.
InitSameOrder ==
    /\ Doing("init")
    /\ LET size == PagesPerBlock(call.order)
           n == (NrPages - call.page) \div size
       IN  /\ freeAreas' = [freeAreas EXCEPT ![call.order] =
                              [j \in 1..n |-> call.page + (j - 1) * size]]
           /\ call' = [call EXCEPT !.page = call.page + n * size]

InitOrder ==
    /\ Doing("init")
    /\ LET size == PagesPerBlock(call.order)
           n == (NrPages - call.page) \div size
       IN  /\ freeAreas' = [freeAreas EXCEPT ![call.order] =
                              [j \in 1..n |-> call.page + (j - 1) * size]]
           /\ call' = IF call.page + n * size = NrPages
                      THEN [call EXCEPT !.op = "boot", !.page = 0]
                      ELSE [call EXCEPT !.page = call.page + n * size, !.order = @ - 1]

----------------------------------------------------------------------------
(* alloc_pages(order) *)

\* Find the smallest order with a free block.
AllocPages(order) ==
    /\ Doing("idle")
    /\ LET fit == {o \in Order : o >= order /\ freeAreas[o] # <<>>}
       IN  call' = IF fit = {}
                   THEN [op |-> "alloc", page |-> NoPage, order |-> order, base |-> 0, want |-> order]
                   ELSE [op |-> "split", page |-> Head(freeAreas[Min(fit)]), order |-> Min(fit),
                         base |-> 0, want |-> order]
    /\ UNCHANGED freeAreas

\* SplitToLeft: halve the block until it has the order that is wanted.
SplitToLeft ==
    /\ Doing("split")
    /\ call.order > call.want
    /\ freeAreas' = SplitBlock(call.page, call.order)
    /\ call' = [call EXCEPT !.order = @ - 1]

\* The head of the list is the result.
TakeBlock ==
    /\ Doing("split")
    /\ call.order = call.want
    /\ LET ret == Head(freeAreas[call.want])
       IN  /\ freeAreas' = [freeAreas EXCEPT ![call.want] = RemoveBlock(@, ret)]
           /\ call' = [call EXCEPT !.op = "alloc", !.page = ret]

----------------------------------------------------------------------------
(* free_pages(p, o) *)

FreePages(p, o) ==
    /\ Doing("idle")
    /\ freeAreas' = [freeAreas EXCEPT ![o] = InsertBlock(@, p)]
    /\ call' = [op |-> "merge", page |-> p, order |-> o, base |-> p, want |-> o]

\* TryMerge reads buddy->next_free.  The buddy of the last block can lie one past
\* the end of the descriptors, where pfn_to_pgd still returns a pointer and the
\* word it points to can be anything.
BuddyLinksTo(buddy, p) == IF buddy = NrPages THEN BOOLEAN ELSE {Links(buddy, p)}

\* The block is the right half: the pair is merged into its buddy.
MergeLeft ==
    /\ Doing("merge")
    /\ call.order < MaxOrder
    /\ LET buddy == BuddyOf(call.page, call.order)
       IN  /\ TRUE \in BuddyLinksTo(buddy, call.page)
           /\ Aligned(buddy, call.order + 1)
           /\ freeAreas' = MergeBlock(buddy, call.order)
           /\ call' = [call EXCEPT !.page = buddy, !.order = @ + 1]

\* The block is the left half: its buddy is merged into it.
MergeRight ==
    /\ Doing("merge")
    /\ call.order < MaxOrder
    /\ LET buddy == BuddyOf(call.page, call.order)
       IN  /\ FALSE \in BuddyLinksTo(buddy, call.page) \/ ~Aligned(buddy, call.order + 1)
           /\ Links(call.page, buddy)
           /\ freeAreas' = MergeBlock(call.page, call.order)
           /\ call' = [call EXCEPT !.order = @ + 1]

\* Variant: a free never merges.
NeverMerge ==
    /\ Doing("merge")
    /\ call' = [call EXCEPT !.op = "free"]
    /\ UNCHANGED freeAreas

MergeDone ==
    /\ Doing("merge")
    /\ \/ call.order >= MaxOrder
       \/ LET buddy == BuddyOf(call.page, call.order)
          IN  /\ FALSE \in BuddyLinksTo(buddy, call.page) \/ ~Aligned(buddy, call.order + 1)
              /\ ~Links(call.page, buddy)
    /\ call' = [call EXCEPT !.op = "free"]
    /\ UNCHANGED freeAreas

----------------------------------------------------------------------------
(* reserve_page(base): from the largest order down, split the block that holds *)
(* the page; then take it off the list of single pages.                        *)

\* Variant: the scan gives up at a block that starts at the page.
HoldersAbove(q, o, p) ==
    {i \in DOMAIN q : (\A j \in 1..i : q[j] < p) /\ q[i] + PagesPerBlock(o) > p}

\* The positions of the list at which the scan for page p stops.
Holders(q, o, p) ==
    {i \in DOMAIN q : (\A j \in 1..i : q[j] <= p) /\ q[i] + PagesPerBlock(o) > p}

ReserveScan ==
    /\ Doing("reserve")
    /\ call.order > 0
    /\ LET q == freeAreas[call.order]
           at == Holders(q, call.order, call.base)
       IN  freeAreas' = IF at = {} THEN freeAreas ELSE SplitBlock(q[Min(at)], call.order)
    /\ call' = [call EXCEPT !.order = @ - 1]
============================================================================
