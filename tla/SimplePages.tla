---------------------------- MODULE SimplePages ----------------------------
(***************************************************************************)
(* The page allocator with the algorithm the kernel is usually booted with, *)
(* pgalloc.algorithm=simple (infos/mm/simple-page-alloc.cpp): first fit over *)
(* the types of the page descriptors, which are all the state it has.       *)
(*                                                                         *)
(* The allocator calls the algorithm under its mutex, so one scan runs at a *)
(* time; each step of it examines the run of descriptors at one index.  The *)
(* scan does not stop at the last descriptor: what lies behind it is memory *)
(* of which every word may look like a descriptor of any type.              *)
(***************************************************************************)
EXTENDS Integers, FiniteSets, FiniteSetsExt

CONSTANTS
    NrPages,        \* _nr_pgds
    MaxOrder,       \* the orders that callers ask for are 0..MaxOrder
    Usable,         \* the pages that are AVAILABLE after boot
    Behind          \* the types that the memory behind the descriptors may show

ASSUME SimpleAssumption ==
    /\ NrPages \in Nat \ {0} /\ MaxOrder \in Nat
    /\ Usable \subseteq 0..(NrPages - 1)
    /\ Behind \subseteq {"RESERVED", "AVAILABLE"} /\ Behind # {}
\* Arithmetic that the provers do not know: a smaller order is a smaller block.
ASSUME SizeAssumption == \A o \in 0..MaxOrder : 2 ^ o \in 1..(2 ^ MaxOrder)

Page == 0..(NrPages - 1)
Index == 0..(NrPages + 2 ^ MaxOrder)
Block(p, o) == p..(p + 2 ^ o - 1)

VARIABLES
    type,           \* PageDescriptor::type, and the words behind the descriptors
    phase,          \* whether a call of alloc_pages is in progress
    idx, want       \* the index its scan has come to, and its order

vars == <<type, phase, idx, want>>

TypeOK ==
    /\ type \in [Index -> {"RESERVED", "AVAILABLE", "ALLOCATED"}]
    /\ phase \in {"idle", "scan", "halted"}
    /\ idx \in Index /\ want \in 0..MaxOrder

Init ==
    /\ \E behind \in [Index \ Page -> Behind] :
          type = [i \in Index |-> IF i \in Usable THEN "AVAILABLE"
                                 ELSE IF i \in Page THEN "RESERVED" ELSE behind[i]]
    /\ phase = "idle" /\ idx = 0 /\ want = 0

----------------------------------------------------------------------------
\* The first index of the run that is not AVAILABLE.
Blocker(i, o) == Min({j \in Block(i, o) : type[j] # "AVAILABLE"})
Fits(i, o) == \A j \in Block(i, o) : type[j] = "AVAILABLE"

\* alloc_pages is called; its scan begins at the first descriptor.
AllocPages(order) ==
    /\ phase = "idle"
    /\ phase' = "scan" /\ want' = order /\ idx' = 0
    /\ UNCHANGED type

\* Variant: the scan goes on a whole block further.
SkipBlock ==
    /\ phase = "scan" /\ idx < NrPages /\ ~Fits(idx, want)
    /\ idx' = idx + 2 ^ want
    /\ UNCHANGED <<type, phase, want>>

\* A turn of the outer loop that finds no run: it goes on behind the blocker.
Skip ==
    /\ phase = "scan" /\ idx < NrPages /\ ~Fits(idx, want)
    /\ idx' = Blocker(idx, want) + 1
    /\ UNCHANGED <<type, phase, want>>

\* The turn that finds one; PageAllocator::alloc_pages marks its descriptors.
Found ==
    /\ phase = "scan" /\ idx < NrPages /\ Fits(idx, want)
    /\ type' = [i \in Index |-> IF i \in Block(idx, want) THEN "ALLOCATED" ELSE type[i]]
    /\ phase' = "idle" /\ UNCHANGED <<idx, want>>

\* The end of the loop.  PageAllocator::alloc_pages reads the descriptors of the
\* NULL, and the kernel faults.
NotFound ==
    /\ phase = "scan" /\ idx >= NrPages
    /\ phase' = "halted"
    /\ UNCHANGED <<type, idx, want>>

Held == {i \in Index : type[i] = "ALLOCATED"}

\* free_pages: the descriptors of the block are marked, whoever holds them.
FreeBlock(p, order) ==
    /\ phase = "idle"
    /\ type' = [i \in Index |-> IF i \in Block(p, order) THEN "AVAILABLE" ELSE type[i]]
    /\ UNCHANGED <<phase, idx, want>>

\* A caller releases a block it holds, all of an allocation or a part of it.
FreePages(order) == \E p \in Page : Block(p, order) \subseteq Held /\ FreeBlock(p, order)

Halted == phase = "halted" /\ UNCHANGED vars

Next ==
    \/ Skip \/ Found \/ NotFound \/ Halted
    \/ \E order \in 0..MaxOrder : AllocPages(order) \/ FreePages(order)

Spec == Init /\ [][Next]_vars

----------------------------------------------------------------------------
(* Properties. *)

\* First fit implements the abstract allocator, without alignment: what it gives
\* out was free, contiguous and nobody else's, and it gives up only when no run of
\* that length is left.  The fault that follows is the refusal.
Source == INSTANCE PageSource WITH
    Pages <- Page, Initially <- Usable, Orders <- 0..MaxOrder, Largest <- MaxOrder,
    NaturallyAligned <- FALSE, NoOrder <- -1,
    avail <- {p \in Page : type[p] = "AVAILABLE"},
    held <- Held,
    failed <- IF phase = "halted" THEN want ELSE -1

ImplementsPageSource == Source!Spec

\* Every page that is given out exists.
PagesExist == Held \subseteq Page
=============================================================================
