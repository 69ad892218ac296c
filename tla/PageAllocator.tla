--------------------------- MODULE PageAllocator ---------------------------
(***************************************************************************)
(* The page allocator of the kernel (infos/mm/page-allocator.cpp) with the  *)
(* buddy algorithm: it classifies the page descriptors at boot, tells the   *)
(* algorithm which pages to keep out, and then serves alloc_pages and       *)
(* free_pages, keeping the type of every descriptor in step.                *)
(***************************************************************************)
EXTENDS Buddy

CONSTANTS
    Normal,         \* the pages of the NORMAL physical memory blocks
    Kernel,         \* the pages of the kernel image, its stack and the descriptors
    NrTables        \* how many page tables the boot loader left behind page zero

ASSUME PageAllocatorAssumption ==
    /\ Normal \subseteq Page
    /\ Kernel \subseteq Page
    /\ NrTables \in Nat /\ NrTables < NrPages

VARIABLE type       \* PageDescriptor::type

vars == <<freeAreas, call, type>>

Tables == 1..NrTables
PageDescriptorType == {"INVALID", "RESERVED", "AVAILABLE", "ALLOCATED"}

\* PageAllocator::init up to the call of the algorithm: bzero, the memory map, and
\* the four calls of mark_page_range in their order.
TypeAtBoot ==
    [p \in Page |->
        IF p \in Kernel \/ p = 0 THEN "RESERVED"
        ELSE IF p \in Tables THEN "ALLOCATED"
        ELSE IF p \in Normal THEN "AVAILABLE" ELSE "INVALID"]

Init ==
    /\ type = TypeAtBoot
    /\ freeAreas = [o \in Order |-> <<>>]
    /\ call = [op |-> "init", page |-> 0, order |-> MaxOrder, base |-> 0, want |-> 0]

----------------------------------------------------------------------------
(* The end of init: every page that is not AVAILABLE is reserved. *)

\* The loop over the descriptors; call.page is its cursor.
ReserveNext ==
    /\ Doing("boot")
    /\ call' = IF call.page = NrPages THEN [call EXCEPT !.op = "idle"]
               ELSE IF type[call.page] = "AVAILABLE" THEN [call EXCEPT !.page = @ + 1]
               ELSE [call EXCEPT !.op = "reserve", !.base = call.page, !.order = MaxOrder]
    /\ UNCHANGED <<freeAreas, type>>

\* reserve_page returns to the loop, or init fails and the kernel stops.
ReserveReturns ==
    /\ Doing("reserve")
    /\ call.order = 0
    /\ IF call.base \in Range(freeAreas[0])
       THEN /\ freeAreas' = [freeAreas EXCEPT ![0] = RemoveBlock(@, call.base)]
            /\ call' = [call EXCEPT !.op = "boot", !.page = call.base + 1]
       ELSE /\ call' = [call EXCEPT !.op = "halted"]
            /\ UNCHANGED freeAreas
    /\ UNCHANGED type

----------------------------------------------------------------------------
(* Service. *)

Alloc == \E order \in 0..(MaxOrder + 1) : AllocPages(order) /\ UNCHANGED type

\* The block that the algorithm returned is marked ALLOCATED.  A NULL is not tested
\* for: its descriptors are read, the kernel faults.
MarkAllocated ==
    /\ Doing("alloc")
    /\ IF call.page = NoPage
       THEN /\ call' = [call EXCEPT !.op = "halted"]
            /\ UNCHANGED type
       ELSE /\ type' = [p \in Page |-> IF p \in Block(call.page, call.want)
                                       THEN "ALLOCATED" ELSE type[p]]
            /\ call' = [call EXCEPT !.op = "idle"]
    /\ UNCHANGED freeAreas

\* The pages that the callers of alloc_pages hold.
Held == {p \in Page : type[p] = "ALLOCATED"} \ Tables

\* A caller gives back an aligned block of pages that it holds, all of an
\* allocation or a part of it.
Free ==
    \E p \in Page, o \in Order :
        /\ Aligned(p, o)
        /\ Block(p, o) \subseteq Held
        /\ FreePages(p, o)
        /\ UNCHANGED type

\* free_pages marks the pages after the algorithm has them.
MarkAvailable ==
    /\ Doing("free")
    /\ type' = [p \in Page |-> IF p \in Block(call.base, call.want) THEN "AVAILABLE" ELSE type[p]]
    /\ call' = [call EXCEPT !.op = "idle"]
    /\ UNCHANGED freeAreas

Halted == Doing("halted") /\ UNCHANGED vars

AlgorithmStep ==
    /\ \/ InitOrder \/ ReserveScan \/ SplitToLeft \/ TakeBlock
       \/ MergeLeft \/ MergeRight \/ MergeDone
    /\ UNCHANGED type

Step == AlgorithmStep \/ ReserveNext \/ ReserveReturns \/ MarkAllocated \/ MarkAvailable

Next == Step \/ Alloc \/ Free \/ Halted

Spec == Init /\ [][Next]_vars

\* A call that has begun goes on: nobody interrupts it for good while it has the
\* mutex.
FairSpec == Spec /\ WF_vars(Step)

----------------------------------------------------------------------------
(* Properties. *)

TypeOK ==
    /\ freeAreas \in [Order -> Seq(Page)]
    /\ call \in Call
    /\ type \in [Page -> PageDescriptorType]

\* The entries of the free lists, as order and position, and the pages they cover.
Entries == UNION {{o} \X DOMAIN freeAreas[o] : o \in Order}
PagesOf(e) == Block(freeAreas[e[1]][e[2]], e[1])
OnFreeLists == UNION {PagesOf(e) : e \in Entries}

\* No page is on two free lists or twice on one, and every free block lies inside
\* the memory on a boundary of its order: what makes it safe to hand out any of
\* them (buddy_of, split_block, merge_block).
FreeBlocksDisjoint ==
    /\ \A e \in Entries : /\ PagesOf(e) \subseteq Page
                          /\ Aligned(freeAreas[e[1]][e[2]], e[1])
    /\ \A e, g \in Entries : e # g => PagesOf(e) \cap PagesOf(g) = {}

\* Every list is in ascending order, in the middle of a call too: insert_block
\* relies on it, and TryMerge recognises a free buddy only as a neighbour.
FreeListsAscending ==
    \A o \in Order : \A i, j \in DOMAIN freeAreas[o] : i < j => freeAreas[o][i] < freeAreas[o][j]

\* Between calls no two halves of a block are both free: allocation, release in any
\* order, release of a part of an allocation and reservation leave no
\* fragmentation behind that merging could have undone.
Coalesced ==
    Doing("idle") =>
        \A o \in 0..(MaxOrder - 1) : \A p \in Range(freeAreas[o]) :
            BuddyOf(p, o) \notin Range(freeAreas[o])

\* Between calls the pages on the free lists are those marked AVAILABLE: the two
\* records of what is free, kept by two classes, agree.
FreeListsMatchTypes ==
    Doing("idle") => OnFreeLists = {p \in Page : type[p] = "AVAILABLE"}

\* The free lists of the buddy algorithm are right: blocks within memory, disjoint, in
\* ascending order, merged as far as they can be, and made of the pages marked available.
FreeListsAreSound ==
    TypeOK /\ FreeBlocksDisjoint /\ FreeListsAscending /\ Coalesced /\ FreeListsMatchTypes

\* The assertions of alloc_pages, free_pages and split_block hold, and init never
\* fails to reserve a page.
AssertionsHold ==
    /\ Doing("alloc") /\ call.page # NoPage =>
          \A p \in Block(call.page, call.want) : type[p] = "AVAILABLE"
    /\ Doing("free") => \A p \in Block(call.base, call.want) : type[p] = "ALLOCATED"
    /\ Doing("split") => call.page \in Range(freeAreas[call.order])
    /\ Doing("halted") => call.page = NoPage

\* The page allocator implements PageSource: what it hands out is free and aligned,
\* and it fails only when no aligned run of that size is free.
Source == INSTANCE PageSource WITH
    Pages <- Page,
    Initially <- {p \in Page : TypeAtBoot[p] = "AVAILABLE"},
    Orders <- 0..(MaxOrder + 1),
    Largest <- MaxOrder,
    NaturallyAligned <- TRUE,
    NoOrder <- NoPage,
    avail <- {p \in Page : type[p] = "AVAILABLE"},
    held <- Held,
    failed <- IF Doing("halted") THEN call.want ELSE NoPage

ImplementsPageSource == Source!Spec

\* Booting ends, and every call of alloc_pages and free_pages returns or halts the
\* kernel: splitting and merging terminate.
CallsReturn == call.op \notin {"idle", "halted"} ~> call.op \in {"idle", "halted"}

\* "Returns a pointer to an array of page descriptors representing the new
\* allocation, or NULL if allocation failed": a request that cannot be met is
\* answered.
ExhaustionIsReported == ~(Doing("halted") /\ call.page = NoPage /\ call.want \in Order)
============================================================================
