-------------------------------- MODULE Heap --------------------------------
(***************************************************************************)
(* The kernel heap: ObjectAllocator over dlmalloc (infos/mm/dlmalloc.cpp),  *)
(* whose mmap and munmap are a shim over the page allocator, here with the  *)
(* algorithm of SimplePages.                                                *)
(*                                                                         *)
(* Sizes and addresses are in units of MALLOC_ALIGNMENT (16 bytes), so the  *)
(* overheads are the real ones: two units make the least chunk, five the    *)
(* foot of a segment.  The page, the granularity and the thresholds are     *)
(* parameters.  m is malloc_state with the chunks it manages; the header of *)
(* a chunk that was absorbed by another is forgotten.  The mutex of         *)
(* ObjectAllocator is held from a call to its return, so one call is in     *)
(* progress at a time, and it waits while the page allocator scans.         *)
(***************************************************************************)
EXTENDS SimplePages, Sequences, SequencesExt, TLC

CONSTANTS
    PageUnits,      \* the units of a page (256)
    Granularity,    \* mparams.granularity, in units (16 pages)
    MmapThreshold,  \* mparams.mmap_threshold, in units
    TrimThreshold,  \* mparams.trim_threshold, in units
    ReleaseRate,    \* MAX_RELEASE_CHECK_RATE (4095)
    TreeShift,      \* TREEBIN_SHIFT, in units (4)
    TreeBins,       \* the tree bins that sizes up to all of memory need
    TreeDepth,      \* the levels that a tree can have
    Requests,       \* the sizes in bytes that callers ask for
    Alignment,      \* what dlmemalign is asked for, in units
    MaxLive,        \* bound: the blocks that callers hold at a time
    MaxOther        \* bound: the pages that the rest of the kernel holds

ASSUME HeapAssumption ==
    /\ PageUnits \in Nat \ {0} /\ Granularity % PageUnits = 0
    /\ TreeShift \in Nat \ {0, 1} /\ Requests \subseteq Nat
    /\ TrimThreshold > Granularity

VARIABLES
    m,              \* malloc_state and the headers of the chunks
    call,           \* what the call that waits for pages was asked for
    live,           \* the blocks that callers hold
    other           \* the pages that the rest of the kernel holds

heapVars == <<m, call, live, other>>
allVars == <<vars, heapVars>>

Null == 0
MinChunk == 2
SegRecord == 3
TopFoot == SegRecord + MinChunk
SysPadding == TopFoot + 1
MmapPadding == 4
MmapFoot == 2
MinLarge == 2 ^ TreeShift
Word == 2 ^ 16

\* Differences of sizes are unsigned.
Minus(a, b) == (a - b) % Word
AlignTo(x, g) == ((x + g - 1) \div g) * g
CeilLog2(n) == Min({k \in 0..16 : 2 ^ k >= n})
FloorLog2(n) == Max({k \in 0..16 : 2 ^ k <= n})

\* request2size: the chunk that holds a request of so many bytes.
request2size(bytes) == IF bytes < 23 THEN MinChunk ELSE (bytes + 23) \div 16

Idle == [op |-> "none"]

InitHeap ==
    /\ m = [head |-> <<>>, small |-> [i \in 0..(2 * MinLarge - 1) |-> <<>>], smallmap |-> {},
            tree |-> [i \in 0..(TreeBins - 1) |-> <<>>], treemap |-> {},
            dv |-> Null, dvsize |-> 0, top |-> Null, topsize |-> 0, seg |-> <<>>,
            footprint |-> 0, checks |-> 0, trim |-> 0, least |-> 0,
            unmaps |-> <<>>, dispose |-> <<>>, bulk |-> FALSE, last |-> "none", ok |-> TRUE]
    /\ call = Idle /\ live = {} /\ other = {}

----------------------------------------------------------------------------
(* Headers: the size, the CINUSE and PINUSE bits, and prev_foot. *)

next_chunk(h, a) == a + h.head[a].size
is_mmapped(h, a) == ~h.head[a].c /\ ~h.head[a].p
is_inuse(h, a) == h.head[a].c \/ ~h.head[a].p

\* A header is written; those inside the chunk are old, nothing reads them again.
WriteHead(h, a, s, c, p) ==
    LET foot == IF a \in DOMAIN h.head THEN h.head[a].foot ELSE 0 IN
    [h EXCEPT !.head = (a :> [size |-> s, c |-> c, p |-> p, foot |-> foot])
                          @@ [b \in (DOMAIN @) \ (a..(a + s - 1)) |-> @[b]]]
\* What the caller of an allocated chunk may overwrite ends with the next prev_foot.
LoseFoot(h, a) == IF a \in DOMAIN h.head THEN [h EXCEPT !.head[a].foot = 0] ELSE h

set_size_and_pinuse_of_inuse_chunk(h, p, s) == LoseFoot(WriteHead(h, p, s, TRUE, TRUE), p + s)
set_inuse_and_pinuse(h, p, s) ==
    [set_size_and_pinuse_of_inuse_chunk(h, p, s) EXCEPT !.head[p + s].p = TRUE]
set_size_and_pinuse_of_free_chunk(h, p, s) ==
    [WriteHead(h, p, s, FALSE, TRUE) EXCEPT !.head[p + s].foot = s]
set_free_with_pinuse(h, p, s, n) ==
    set_size_and_pinuse_of_free_chunk([h EXCEPT !.head[n].p = FALSE], p, s)

----------------------------------------------------------------------------
(* Bins.  A small bin is the list from its fd.  A tree bin is a trie on the  *)
(* bits of the size below the leading two: from a path of child indices to  *)
(* the ring of the chunks of one size, from the one that is in the tree.    *)

is_small(s) == s < MinLarge
small_index(s) == 2 * s
small_index2size(i) == i \div 2

insert_small_chunk(h, p, s) ==
    [h EXCEPT !.smallmap = @ \cup {small_index(s)}, !.small[small_index(s)] = <<p>> \o @]

unlink_small_chunk(h, p, s) ==
    LET rest == Remove(h.small[small_index(s)], p) IN
    [h EXCEPT !.small[small_index(s)] = rest,
              !.smallmap = IF rest = <<>> THEN @ \ {small_index(s)} ELSE @]

unlink_first_small_chunk(h, i) ==
    [h EXCEPT !.small[i] = Tail(@),
              !.smallmap = IF Len(h.small[i]) = 1 THEN @ \ {i} ELSE @]

replace_dv(h, p, s) ==
    [(IF h.dvsize # 0 THEN insert_small_chunk(h, h.dv, h.dvsize) ELSE h)
        EXCEPT !.dv = p, !.dvsize = s]

\* compute_tree_index: two bins for each power of two.
compute_tree_index(s) ==
    LET X == s \div MinLarge
        K == FloorLog2(X)
    IN IF X = 0 THEN 0 ELSE 2 * K + ((s \div 2 ^ (K + TreeShift - 1)) % 2)

\* leftshift_for_tree_index: the bit that a tree of bin i looks at d levels down.
SizeBit(s, i, d) ==
    LET b == (i \div 2) + TreeShift - 2 - d IN IF b < 0 THEN 0 ELSE (s \div 2 ^ b) % 2
Path(s, i, d) == [k \in 1..d |-> SizeBit(s, i, k - 1)]

SizeAt(h, i, p) == h.head[h.tree[i][p][1]].size
Without(T, p) == [q \in (DOMAIN T) \ {p} |-> T[q]]

insert_large_chunk(h, x, s) ==
    LET i == compute_tree_index(s)
        T == h.tree[i]
        d == Min({d \in 0..TreeDepth :
                    Path(s, i, d) \in DOMAIN T => SizeAt(h, i, Path(s, i, d)) = s})
        p == Path(s, i, d)
        ring == IF p \in DOMAIN T THEN <<T[p][1], x>> \o Tail(T[p]) ELSE <<x>>
    IN [h EXCEPT !.tree[i] = (p :> ring) @@ @, !.treemap = @ \cup {i}]

\* The leaf that the macro finds below a node, right children first.
Leaf(T, p) ==
    LET leaf[q \in DOMAIN T] ==
            IF Append(q, 1) \in DOMAIN T THEN leaf[Append(q, 1)]
            ELSE IF Append(q, 0) \in DOMAIN T THEN leaf[Append(q, 0)] ELSE q
    IN leaf[p]

\* The tree without a node that was alone in its ring: a leaf takes its place.
Unlinked(T, p) ==
    IF Leaf(T, p) = p THEN Without(T, p) ELSE (p :> T[Leaf(T, p)]) @@ Without(T, Leaf(T, p))

unlink_large_chunk(h, x) ==
    LET i == compute_tree_index(h.head[x].size)
        T == h.tree[i]
        p == CHOOSE q \in DOMAIN T : x \in Range(T[q])
        ring == T[p]
        rest == IF ring[1] = x THEN <<Last(ring)>> \o SubSeq(ring, 2, Len(ring) - 1)
                ELSE Remove(ring, x)
        T2 == IF Len(ring) > 1 THEN [T EXCEPT ![p] = rest] ELSE Unlinked(T, p)
    IN [h EXCEPT !.tree[i] = T2, !.treemap = IF T2 = <<>> THEN @ \ {i} ELSE @]

insert_chunk(h, p, s) == IF is_small(s) THEN insert_small_chunk(h, p, s) ELSE insert_large_chunk(h, p, s)
unlink_chunk(h, p, s) == IF is_small(s) THEN unlink_small_chunk(h, p, s) ELSE unlink_large_chunk(h, p)

\* The nodes on the way down leftmost_child from a node.
Leftmost(T, p) ==
    LET way[q \in DOMAIN T] ==
            {q} \cup (IF Append(q, 0) \in DOMAIN T THEN way[Append(q, 0)]
                      ELSE IF Append(q, 1) \in DOMAIN T THEN way[Append(q, 1)] ELSE {})
    IN IF p \in DOMAIN T THEN way[p] ELSE {}

\* The chunk of a tree node that leaves the least remainder.
BestOf(h, i, nodes, nb) ==
    LET fit == {p \in nodes : SizeAt(h, i, p) >= nb} IN
    IF fit = {} THEN Null
    ELSE h.tree[i][CHOOSE p \in fit : \A q \in fit : SizeAt(h, i, p) <= SizeAt(h, i, q)][1]
\* Variant: the search ends with the bin of nb.
BestFitOwnBin(h, nb) ==
    LET i == compute_tree_index(nb) IN
    BestOf(h, i, {p \in DOMAIN h.tree[i] : p = Path(nb, i, Len(p))}, nb)

\* tmalloc_large's search.  It follows the bits of nb in nb's own bin, and then the
\* deepest right subtree it has passed; failing both, the next bin that is marked.
BestFit(h, nb) ==
    LET i == compute_tree_index(nb)
        T == h.tree[i]
        walk == {d \in 0..TreeDepth :
                   /\ \A e \in 0..d : Path(nb, i, e) \in DOMAIN T
                   /\ \A e \in 0..(d - 1) : SizeAt(h, i, Path(nb, i, e)) # nb}
        right == {d \in walk : SizeBit(nb, i, d) = 0 /\ Append(Path(nb, i, d), 1) \in DOMAIN T}
        rst == IF right = {} THEN {} ELSE Leftmost(T, Append(Path(nb, i, Max(right)), 1))
        v == BestOf(h, i, {Path(nb, i, d) : d \in walk} \cup rst, nb)
        later == {j \in h.treemap : j > i}
    IN IF v = Null /\ later # {} THEN BestOf(h, Min(later), Leftmost(h.tree[Min(later)], <<>>), nb)
       ELSE v

\* The chunk found is split, unless what is left over makes no chunk.
tmalloc_large(h, v, nb) ==
    LET rsize == h.head[v].size - nb
        u == unlink_large_chunk(h, v)
    IN IF rsize < MinChunk THEN set_inuse_and_pinuse(u, v, rsize + nb)
       ELSE insert_chunk(set_size_and_pinuse_of_free_chunk(
                             set_size_and_pinuse_of_inuse_chunk(u, v, nb), v + nb, rsize),
                         v + nb, rsize)

\* The smallest chunk of the first tree; the remainder becomes the dv.
tmalloc_small(h, nb) ==
    LET i == Min(h.treemap)
        v == BestOf(h, i, Leftmost(h.tree[i], <<>>), nb)
        rsize == h.head[v].size - nb
        u == unlink_large_chunk(h, v)
    IN [chunk |-> v,
        state |-> IF rsize < MinChunk THEN set_inuse_and_pinuse(u, v, rsize + nb)
                  ELSE replace_dv(set_size_and_pinuse_of_free_chunk(
                           set_size_and_pinuse_of_inuse_chunk(u, v, nb), v + nb, rsize),
                           v + nb, rsize)]

split_top(h, nb) ==
    set_size_and_pinuse_of_inuse_chunk(
        WriteHead([h EXCEPT !.topsize = @ - nb, !.top = @ + nb],
                  h.top + nb, h.topsize - nb, FALSE, TRUE),
        h.top, nb)

\* Variant: the remainder of the dv keeps the whole of its old size.
split_dv_size(h, nb) ==
    set_size_and_pinuse_of_inuse_chunk(
        set_size_and_pinuse_of_free_chunk([h EXCEPT !.dv = @ + nb], h.dv + nb, h.dvsize - nb),
        h.dv, nb)

split_dv(h, nb) ==
    LET rsize == h.dvsize - nb IN
    IF rsize >= MinChunk
    THEN set_size_and_pinuse_of_inuse_chunk(
             set_size_and_pinuse_of_free_chunk([h EXCEPT !.dv = @ + nb, !.dvsize = rsize],
                                               h.dv + nb, rsize),
             h.dv, nb)
    ELSE set_inuse_and_pinuse([h EXCEPT !.dv = Null, !.dvsize = 0], h.dv, h.dvsize)

----------------------------------------------------------------------------
(* dlmalloc: one action for each of the ways a request is met. *)

Ready == phase = "idle" /\ call = Idle /\ m.unmaps = <<>> /\ m.dispose = <<>> /\ ~m.bulk /\ m.last = "none"
Return(h, chunk, bytes) ==
    /\ m' = h
    /\ live' = live \cup {[at |-> chunk, bytes |-> bytes, units |-> h.head[chunk].size]}
    /\ UNCHANGED <<vars, call, other>>
Calls(bytes) == Ready /\ Cardinality(live) < MaxLive /\ bytes \in Requests

\* smallmap >> idx: the marked bins that hold chunks of at least nb.
SmallFits(nb) == {i \in m.smallmap : i >= small_index(nb)}
ExactBins(nb) == {i \in SmallFits(nb) : i <= small_index(nb) + 1}

\* A remainderless fit in a small bin.
MallocFromSmallBin(bytes) ==
    LET nb == request2size(bytes)
        i == Min(ExactBins(nb))
        p == m.small[i][1]
    IN /\ Calls(bytes) /\ is_small(nb) /\ ExactBins(nb) # {}
       /\ Return(set_inuse_and_pinuse(unlink_first_small_chunk(m, i), p, small_index2size(i)),
                 p, bytes)

\* The next small bin that is not empty; the remainder becomes the dv.
MallocFromNextSmallBin(bytes) ==
    LET nb == request2size(bytes)
        i == Min(SmallFits(nb))
        p == m.small[i][1]
        rsize == small_index2size(i) - nb
        u == unlink_first_small_chunk(m, i)
    IN /\ Calls(bytes) /\ is_small(nb) /\ ExactBins(nb) = {} /\ nb > m.dvsize
       /\ SmallFits(nb) # {}
       /\ Return(IF rsize < MinChunk THEN set_inuse_and_pinuse(u, p, small_index2size(i))
                 ELSE replace_dv(set_size_and_pinuse_of_free_chunk(
                          set_size_and_pinuse_of_inuse_chunk(u, p, nb), p + nb, rsize),
                          p + nb, rsize),
                 p, bytes)

MallocSmallFromTree(bytes) ==
    LET nb == request2size(bytes)
        r == tmalloc_small(m, nb)
    IN /\ Calls(bytes) /\ is_small(nb) /\ SmallFits(nb) = {} /\ nb > m.dvsize
       /\ m.treemap # {}
       /\ Return(r.state, r.chunk, bytes)

\* A large request takes the best fit of the trees if it is better than the dv.
TreeIsBetter(nb) ==
    LET v == BestFit(m, nb) IN
    m.treemap # {} /\ v # Null /\ m.head[v].size - nb < Minus(m.dvsize, nb)

MallocLargeFromTree(bytes) ==
    LET nb == request2size(bytes) IN
    /\ Calls(bytes) /\ ~is_small(nb) /\ TreeIsBetter(nb)
    /\ Return(tmalloc_large(m, BestFit(m, nb), nb), BestFit(m, nb), bytes)

\* No bin has served the request.
BinsMiss(nb) ==
    IF is_small(nb) THEN /\ ExactBins(nb) = {}
                         /\ nb > m.dvsize => SmallFits(nb) = {} /\ m.treemap = {}
    ELSE ~TreeIsBetter(nb)

MallocFromDv(bytes) ==
    LET nb == request2size(bytes) IN
    /\ Calls(bytes) /\ BinsMiss(nb) /\ nb <= m.dvsize
    /\ Return(split_dv(m, nb), m.dv, bytes)

MallocFromTop(bytes) ==
    LET nb == request2size(bytes) IN
    /\ Calls(bytes) /\ BinsMiss(nb) /\ nb > m.dvsize /\ nb < m.topsize
    /\ Return(split_top(m, nb), m.top, bytes)

----------------------------------------------------------------------------
(* sys_alloc: the heap grows by pages. *)

\* mmap: the order is the ceiling of the number of pages.
mmap(units) == AllocPages(CeilLog2(units \div PageUnits))

SysAlloc(bytes) ==
    LET nb == request2size(bytes)
        direct == nb >= MmapThreshold /\ m.topsize # 0
        len == IF direct THEN AlignTo(nb + MmapPadding, PageUnits)
               ELSE AlignTo(nb + SysPadding, Granularity)
    IN /\ Calls(bytes) /\ BinsMiss(nb) /\ nb > m.dvsize /\ nb >= m.topsize
       /\ mmap(len)
       /\ call' = [op |-> IF direct THEN "mmap_alloc" ELSE "sys_alloc",
                   bytes |-> bytes, len |-> len]
       /\ UNCHANGED <<m, live, other>>

\* The pages have been found: idx is the first of them.
Granted(op) == phase = "idle" /\ call.op = op
tbase == idx * PageUnits
\* The call has returned: the locals of its scan are gone.
ScanReturns == call' = Idle /\ idx' = 0 /\ want' = 0 /\ UNCHANGED <<type, phase>>
Finish(h, chunk) ==
    /\ m' = h
    /\ live' = live \cup {[at |-> chunk, bytes |-> call.bytes, units |-> h.head[chunk].size]}
    /\ ScanReturns
    /\ UNCHANGED other

\* mmap_alloc: the chunk has neither bit set, and a fencepost behind it.
MmapAlloc ==
    LET psize == call.len - MmapFoot IN
    /\ Granted("mmap_alloc")
    /\ Finish([WriteHead(WriteHead(m, tbase, psize, FALSE, FALSE),
                         tbase + psize, MmapFoot, TRUE, TRUE)
                 EXCEPT !.footprint = @ + call.len,
                        !.least = IF @ = 0 THEN tbase ELSE Min({@, tbase})],
              tbase)

init_top(h, p, psize) ==
    WriteHead(WriteHead([h EXCEPT !.top = p, !.topsize = psize, !.trim = TrimThreshold],
                        p, psize, FALSE, TRUE),
              p + psize, TopFoot, FALSE, FALSE)

segment_holding(h, a) ==
    CHOOSE k \in DOMAIN h.seg : h.seg[k].base <= a /\ a < h.seg[k].base + h.seg[k].size

\* The rest of the old top goes into a bin; its end keeps the segment's record and
\* the fenceposts.
add_segment(h, base, size) ==
    LET old == h.top
        end == h.seg[1].base + h.seg[1].size
        csp == IF end - TopFoot < old + MinChunk THEN old ELSE end - TopFoot
        h1 == init_top(h, base, size - TopFoot)
        h2 == WriteHead(set_size_and_pinuse_of_inuse_chunk(h1, csp, SegRecord),
                        csp + SegRecord, end - (csp + SegRecord), TRUE, TRUE)
        h3 == [h2 EXCEPT !.seg = <<[base |-> base, size |-> size, at |-> Null],
                                   [h.seg[1] EXCEPT !.at = csp]>> \o Tail(h.seg)]
    IN IF csp = old THEN h3
       ELSE insert_chunk(set_free_with_pinuse(h3, old, csp - old, csp), old, csp - old)

\* The new pages end where a segment begins.
prepend_alloc(h, base, oldfirst, nb) ==
    LET q == base + nb
        qsize == oldfirst - q
        h1 == set_size_and_pinuse_of_inuse_chunk(h, base, nb)
        nsize == h.head[oldfirst].size
    IN CASE oldfirst = h.top ->
              WriteHead([h1 EXCEPT !.top = q, !.topsize = @ + qsize], q, h.topsize + qsize, FALSE, TRUE)
         [] oldfirst = h.dv ->
              set_size_and_pinuse_of_free_chunk([h1 EXCEPT !.dv = q, !.dvsize = @ + qsize],
                                                q, h.dvsize + qsize)
         [] OTHER ->
              IF is_inuse(h, oldfirst)
              THEN insert_chunk(set_free_with_pinuse(h1, q, qsize, oldfirst), q, qsize)
              ELSE insert_chunk(set_free_with_pinuse(unlink_chunk(h1, oldfirst, nsize),
                                                     q, qsize + nsize, oldfirst + nsize),
                                q, qsize + nsize)

Grown == [m EXCEPT !.footprint = @ + call.len]
Lowered(h) == [h EXCEPT !.least = Min({@, tbase})]
EndsAt(k) == m.seg[k].base + m.seg[k].size
\* The first segment of the list that ends, or begins, at an address.
Ending == {k \in DOMAIN m.seg : EndsAt(k) = tbase}
Beginning == {k \in DOMAIN m.seg : m.seg[k].base = tbase + call.len}

FirstSegment ==
    /\ Granted("sys_alloc") /\ m.seg = <<>>
    /\ LET h == init_top([Grown EXCEPT !.seg = <<[base |-> tbase, size |-> call.len, at |-> Null]>>,
                                       !.least = IF @ = 0 THEN tbase ELSE Min({@, tbase}),
                                       !.checks = ReleaseRate],
                         tbase, call.len - TopFoot)
       IN Finish(split_top(h, request2size(call.bytes)), h.top)

Appends == Ending # {} /\ Min(Ending) = segment_holding(m, m.top)

AppendToSegment ==
    /\ Granted("sys_alloc") /\ m.seg # <<>> /\ Appends
    /\ LET h == init_top([Grown EXCEPT !.seg[Min(Ending)].size = @ + call.len],
                         m.top, m.topsize + call.len)
       IN Finish(split_top(h, request2size(call.bytes)), h.top)

PrependToSegment ==
    /\ Granted("sys_alloc") /\ m.seg # <<>> /\ ~Appends /\ Beginning # {}
    /\ LET k == Min(Beginning) IN
       Finish(prepend_alloc(Lowered([Grown EXCEPT !.seg[k].base = tbase, !.seg[k].size = @ + call.len]),
                            tbase, m.seg[k].base, request2size(call.bytes)),
              tbase)

AddSegment ==
    /\ Granted("sys_alloc") /\ m.seg # <<>> /\ ~Appends /\ Beginning = {}
    /\ LET h == add_segment(Lowered(Grown), tbase, call.len)
       IN Finish(split_top(h, request2size(call.bytes)), h.top)

----------------------------------------------------------------------------
(* dlfree. *)

MemoryOf(base, len) == base..(base + len - 1)
Forget(h, mem) == [h EXCEPT !.head = [a \in (DOMAIN @) \ mem |-> @[a]]]
\* munmap is called; the pages go back in the steps that follow.
munmap(h, base, len) ==
    Forget([h EXCEPT !.unmaps = Append(@, [base |-> base, len |-> len])], MemoryOf(base, len))

\* Segments, but for the newest, of which the first chunk is free and is all there is.
Unused(h) ==
    {k \in 2..Len(h.seg) :
        LET p == h.seg[k].base IN
        /\ ~is_inuse(h, p)
        /\ next_chunk(h, p) >= h.seg[k].base + h.seg[k].size - TopFoot}

release_unused_segments(h) ==
    LET Release(k, g) ==
            LET s == h.seg[k]
                u == IF s.base = g.dv THEN [g EXCEPT !.dv = Null, !.dvsize = 0]
                     ELSE unlink_large_chunk(g, s.base)
            IN [munmap(u, s.base, s.size) EXCEPT !.footprint = @ - s.size]
        g == FoldSet(Release, h, Unused(h))
    IN [g EXCEPT !.seg = [j \in 1..(Len(@) - Cardinality(Unused(h))) |->
                            @[CHOOSE k \in (DOMAIN @) \ Unused(h) :
                                Cardinality({l \in (DOMAIN @) \ Unused(h) : l <= k}) = j]],
                 !.checks = Max({Len(h.seg) - 1, ReleaseRate})]

has_segment_link(h, k) ==
    \E j \in DOMAIN h.seg : h.seg[j].at \in MemoryOf(h.seg[k].base, h.seg[k].size)

\* Variant: the top keeps the size it had.
sys_trim_top(h) ==
    LET k == segment_holding(h, h.top)
        extra == ((h.topsize - TopFoot + Granularity - 1) \div Granularity - 1) * Granularity
    IN [munmap(h, h.seg[k].base + h.seg[k].size - extra, extra)
          EXCEPT !.seg[k].size = @ - extra, !.footprint = @ - extra]

\* The top is cut back to less than a granule, and unused segments go.
sys_trim(h) ==
    LET k == segment_holding(h, h.top)
        extra == ((h.topsize - TopFoot + Granularity - 1) \div Granularity - 1) * Granularity
        cut == h.topsize > TopFoot /\ h.seg[k].size >= extra /\ ~has_segment_link(h, k) /\ extra # 0
        h1 == munmap(h, h.seg[k].base + h.seg[k].size - extra, extra)
        h2 == IF cut THEN init_top([h1 EXCEPT !.seg[k].size = @ - extra, !.footprint = @ - extra],
                                   h.top, h.topsize - extra)
              ELSE h
        h3 == release_unused_segments(h2)
    IN IF h3.footprint = h.footprint /\ h3.topsize > h3.trim THEN [h3 EXCEPT !.trim = Word] ELSE h3

\* Where a chunk that has been merged with its neighbours goes.
Binned(h, p, s) ==
    IF is_small(s) THEN insert_small_chunk(h, p, s)
    ELSE LET g == [insert_large_chunk(h, p, s) EXCEPT !.checks = @ - 1] IN
         IF g.checks = 0 THEN [g EXCEPT !.last = "release"] ELSE g

\* ok_address, ok_inuse, ok_next and ok_pinuse: the checks that abort the kernel.
RTCHECK(h, p) ==
    LET n == next_chunk(h, p) IN
    /\ p >= h.least /\ is_inuse(h, p) /\ p < n /\ n \in DOMAIN h.head
    /\ ~is_mmapped(h, p) => h.head[n].p /\ (~h.head[p].p => p - h.head[p].foot >= h.least)

\* A chunk merged with its free neighbours: the heap, what is to be put into a bin, or
\* else that it has become part of the top or of the dv.
Consolidate(h, p) ==
    LET n == next_chunk(h, p)
        prev == IF h.head[p].p THEN 0 ELSE h.head[p].foot
        q == p - prev
        psize == h.head[p].size + prev
        h1 == IF prev # 0 /\ q # h.dv THEN unlink_chunk(h, q, prev) ELSE h
        nsize == h.head[n].size
        merged == set_size_and_pinuse_of_free_chunk(unlink_chunk(h1, n, nsize), q, psize + nsize)
        topped == WriteHead([h1 EXCEPT !.top = q, !.topsize = @ + psize,
                                       !.dv = IF q = @ THEN Null ELSE @,
                                       !.dvsize = IF q = h1.dv THEN 0 ELSE @],
                            q, h1.topsize + psize, FALSE, TRUE)
        Into(what, g, s) == [into |-> what, heap |-> g, at |-> q, size |-> s]
    IN CASE prev # 0 /\ q = h.dv /\ h.head[n].c ->
              Into("dv", set_free_with_pinuse([h1 EXCEPT !.dvsize = psize], q, psize, n), psize)
         [] n = h.top -> Into("top", topped, topped.topsize)
         [] n = h.dv ->
              Into("dv", set_size_and_pinuse_of_free_chunk([h1 EXCEPT !.dv = q, !.dvsize = @ + psize],
                                                           q, h1.dvsize + psize), psize)
         [] ~h.head[n].c /\ n # h.top /\ n # h.dv ->
              IF q = h.dv THEN Into("dv", [merged EXCEPT !.dvsize = psize + nsize], psize + nsize)
              ELSE Into("bin", merged, psize + nsize)
         [] OTHER -> Into("bin", set_free_with_pinuse(h1, q, psize, n), psize)

\* should_trim: sys_trim is called last, in a step of its own like the other calls.
TrimIfLarge(h) == IF h.topsize > h.trim THEN [h EXCEPT !.last = "trim"] ELSE h

\* What dlfree, and dispose_chunk, do with the chunk that has been merged.  The second
\* is as the first, without the checks that give memory back.
Freed(r) ==
    CASE r.into = "top" -> TrimIfLarge(r.heap)
      [] r.into = "dv" -> r.heap
      [] r.into = "bin" -> Binned(r.heap, r.at, r.size)
dispose_chunk(r) == IF r.into = "bin" THEN insert_chunk(r.heap, r.at, r.size) ELSE r.heap

\* A chunk that was mapped directly.
Unmapped(h, p) ==
    LET len == h.head[p].size + MmapFoot IN [munmap(h, p, len) EXCEPT !.footprint = @ - len]

\* dlfree of a block that a caller holds.
Free ==
    \E b \in live :
        /\ Ready
        /\ live' = live \ {b}
        /\ \/ /\ is_mmapped(m, b.at)
              /\ m' = [Unmapped(m, b.at) EXCEPT !.ok = @ /\ RTCHECK(m, b.at)]
           \/ /\ ~is_mmapped(m, b.at)
              /\ \E r \in {Consolidate(m, b.at)} : m' = [Freed(r) EXCEPT !.ok = @ /\ RTCHECK(m, b.at)]
        /\ UNCHANGED <<vars, call, other>>

\* A chunk is in use and the next one knows; the bit of a header that is not one yet
\* is set by the callers.
set_inuse(h, p, s) ==
    LET pinuse == p \in DOMAIN h.head => h.head[p].p IN
    [LoseFoot(WriteHead(h, p, s, TRUE, pinuse), p + s) EXCEPT !.head[p + s].p = TRUE]
\* dispose_chunk is called; a step of its own, in which nobody else has the heap.
Disposing(h, p) == [h EXCEPT !.dispose = Append(@, p)]
\* What is behind the first nb units of a chunk is given back.
SplitOff(h, p, nb, rsize) == Disposing(set_inuse(set_inuse(h, p + nb, rsize), p, nb), p + nb)

\* mmap_resize keeps the chunk or, there being no mremap, fails.
mmap_resize(h, p, nb) ==
    ~is_small(nb) /\ h.head[p].size > nb /\ h.head[p].size - nb <= 2 * Granularity

\* try_realloc_chunk can extend the chunk where it is: the size it can have there.
Extent(h, p, nb) ==
    LET n == next_chunk(h, p)
        old == h.head[p].size
    IN CASE old >= nb -> old
         [] old < nb /\ n = h.top -> old + h.topsize - 1
         [] old < nb /\ n # h.top /\ h.head[n].c -> old
         [] OTHER -> old + h.head[n].size
try_realloc_chunk(h, p, nb) ==
    LET n == next_chunk(h, p)
        old == h.head[p].size
        rsize == (IF old >= nb THEN old ELSE old + h.head[n].size) - nb
        rest == IF rsize < MinChunk THEN 0 ELSE rsize
    IN CASE is_mmapped(h, p) -> h
         [] ~is_mmapped(h, p) /\ old >= nb -> IF rest = 0 THEN h ELSE SplitOff(h, p, nb, rest)
         [] ~is_mmapped(h, p) /\ old < nb /\ n = h.top ->
              set_inuse(WriteHead([h EXCEPT !.top = p + nb, !.topsize = rsize], p + nb, rsize, FALSE, TRUE),
                        p, nb)
         [] ~is_mmapped(h, p) /\ old < nb /\ n = h.dv ->
              IF rest = 0 THEN set_inuse([h EXCEPT !.dv = Null, !.dvsize = 0], p, nb + rsize)
              ELSE set_inuse([set_size_and_pinuse_of_free_chunk(
                                  [h EXCEPT !.dv = p + nb, !.dvsize = rest], p + nb, rest)
                                EXCEPT !.head[p + nb + rest].p = FALSE], p, nb)
         [] OTHER ->
              LET u == unlink_chunk(h, n, h.head[n].size) IN
              IF rest = 0 THEN set_inuse(u, p, nb + rsize) ELSE SplitOff(u, p, nb, rest)

BlockAt(h, at, bytes) == [at |-> at, bytes |-> bytes, units |-> h.head[at].size]

\* dlrealloc_in_place, and dlrealloc where it need not move the block; where it must,
\* it is a dlmalloc and a dlfree.
Realloc ==
    \E b \in live, bytes \in Requests :
        LET nb == request2size(bytes)
            h == try_realloc_chunk(m, b.at, nb)
        IN /\ Ready /\ bytes # b.bytes
           /\ IF is_mmapped(m, b.at) THEN mmap_resize(m, b.at, nb) ELSE Extent(m, b.at, nb) >= nb
           /\ m' = [h EXCEPT !.ok = @ /\ RTCHECK(m, b.at)]
           /\ live' = (live \ {b}) \cup {BlockAt(h, b.at, bytes)}
           /\ UNCHANGED <<vars, call, other>>

\* The request that dlmemalign makes of dlmalloc, and the chunk it cuts out of it: the
\* leader is a chunk, and the memory behind the header is aligned.
MemalignRequest(bytes, align) == 16 * (request2size(bytes) + align + MinChunk) - 8
AlignedIn(p, align) ==
    LET br == AlignTo(p + 1, align) - 1 IN
    CASE (p + 1) % align = 0 -> p
      [] (p + 1) % align # 0 /\ br - p >= MinChunk -> br
      [] OTHER -> br + align

Memalign ==
    \E b \in live, bytes \in Requests :
        LET nb == request2size(bytes)
            p == AlignedIn(b.at, Alignment)
            lead == p - b.at
            h1 == IF lead = 0 THEN m
                  ELSE Disposing(set_inuse(set_inuse(m, p, b.units - lead), b.at, lead), b.at)
            h2 == IF b.units - lead > nb + MinChunk THEN SplitOff(h1, p, nb, b.units - lead - nb) ELSE h1
        IN /\ Ready /\ ~is_mmapped(m, b.at) /\ b.bytes = MemalignRequest(bytes, Alignment)
           /\ m' = h2
           /\ live' = (live \ {b}) \cup {BlockAt(h2, p, bytes)}
           /\ UNCHANGED <<vars, call, other>>

\* ialloc: what dlmalloc returned, with mmap disabled, is split into elements.
Ialloc ==
    \E b \in live, bytes \in Requests :
        LET nb == request2size(bytes)
            rest == b.units - nb
            h == set_size_and_pinuse_of_inuse_chunk(
                     set_size_and_pinuse_of_inuse_chunk(m, b.at + nb, rest), b.at, nb)
        IN /\ Ready /\ ~is_mmapped(m, b.at) /\ Cardinality(live) < MaxLive
           /\ rest >= MinChunk /\ b.bytes = 16 * request2size(b.bytes) - 8 /\ m.head[b.at].p
           /\ m' = h
           /\ live' = (live \ {b}) \cup {BlockAt(h, b.at, bytes), BlockAt(h, b.at + nb, 16 * rest - 8)}
           /\ UNCHANGED <<vars, call, other>>

\* internal_bulk_free: an element that ends where the next begins is merged with it.
BulkFree ==
    \E array \in SetToSeqs({b.at : b \in live}) :
        LET Merge(h, p) ==
                LET q == Last(h.dispose) IN
                IF h.dispose # <<>> /\ next_chunk(h, q) = p
                THEN set_inuse(h, q, h.head[q].size + h.head[p].size)
                ELSE Disposing(h, p)
        IN /\ Ready /\ Len(array) > 1
           /\ m' = [FoldLeft(Merge, m, array) EXCEPT !.bulk = TRUE] /\ live' = {}
           /\ UNCHANGED <<vars, call, other>>

Dispose ==
    /\ phase = "idle" /\ m.dispose # <<>>
    /\ \E h \in {[m EXCEPT !.dispose = Tail(@)]}, p \in {Head(m.dispose)} :
          \/ is_mmapped(h, p) /\ m' = Unmapped(h, p)
          \/ ~is_mmapped(h, p) /\ \E r \in {Consolidate(h, p)} : m' = dispose_chunk(r)
    /\ UNCHANGED <<vars, call, live, other>>

BulkFreed ==
    /\ m.bulk /\ m.dispose = <<>> /\ m' = TrimIfLarge([m EXCEPT !.bulk = FALSE])
    /\ UNCHANGED <<vars, call, live, other>>

SysTrim ==
    /\ m.last = "trim" /\ m.dispose = <<>> /\ m' = sys_trim([m EXCEPT !.last = "none"])
    /\ UNCHANGED <<vars, call, live, other>>

ReleaseUnused ==
    /\ m.last = "release" /\ m' = release_unused_segments([m EXCEPT !.last = "none"])
    /\ UNCHANGED <<vars, call, live, other>>

\* The body of munmap: the order is the floor of the number of pages.
Unmap ==
    /\ phase = "idle" /\ m.unmaps # <<>> /\ m.dispose = <<>> /\ ~m.bulk /\ m.last = "none"
    /\ LET u == Head(m.unmaps) IN
       FreeBlock(u.base \div PageUnits, FloorLog2(u.len \div PageUnits))
    /\ m' = [m EXCEPT !.unmaps = Tail(@)]
    /\ UNCHANGED <<call, live, other>>

----------------------------------------------------------------------------
(* Pages for the rest of the kernel: page tables, stacks.  Bound: it takes   *)
(* them before the heap has its first segment, and gives them back later.   *)

OtherAlloc ==
    /\ Ready /\ m.seg = <<>> /\ Cardinality(other) < MaxOther
    /\ AllocPages(0)
    /\ call' = [op |-> "other"]
    /\ UNCHANGED <<m, live, other>>

OtherGets ==
    /\ Granted("other")
    /\ other' = other \cup {idx} /\ ScanReturns
    /\ UNCHANGED <<m, live>>

OtherFree ==
    /\ Ready
    /\ \E p \in other : FreeBlock(p, 0) /\ other' = other \ {p}
    /\ UNCHANGED <<m, call, live>>

\* A turn of the page allocator's scan.
Scan == (Skip \/ Found \/ NotFound) /\ UNCHANGED heapVars
Stopped == Halted /\ UNCHANGED heapVars

HeapInit == Init /\ InitHeap

HeapNext ==
    \/ \E bytes \in Requests :
          \/ MallocFromSmallBin(bytes) \/ MallocFromNextSmallBin(bytes)
          \/ MallocSmallFromTree(bytes) \/ MallocLargeFromTree(bytes)
          \/ MallocFromDv(bytes) \/ MallocFromTop(bytes) \/ SysAlloc(bytes)
    \/ MmapAlloc \/ FirstSegment \/ AppendToSegment \/ PrependToSegment \/ AddSegment
    \/ Free \/ Realloc \/ Memalign \/ Ialloc \/ BulkFree \/ Dispose \/ BulkFreed
    \/ SysTrim \/ ReleaseUnused \/ Unmap
    \/ OtherAlloc \/ OtherGets \/ OtherFree
    \/ Scan \/ Stopped

HeapSpec == HeapInit /\ [][HeapNext]_allVars
----------------------------------------------------------------------------
(* Properties. *)

\* The chunks whose headers lie in a segment.
ChunksOf(k) == (DOMAIN m.head) \cap MemoryOf(m.seg[k].base, m.seg[k].size)
Mmapped == {a \in {b.at : b \in live} \cup Range(m.dispose) : is_mmapped(m, a)}
PagesOf(mem) == {a \div PageUnits : a \in mem}
HeapMemory ==
    UNION {MemoryOf(m.seg[k].base, m.seg[k].size) : k \in DOMAIN m.seg}
        \cup UNION {MemoryOf(a, m.head[a].size + MmapFoot) : a \in Mmapped}

\* What dlmalloc returns is the caller's alone until dlfree: large enough for the
\* request, disjoint from every other block, and in pages that the page allocator has
\* given to the heap and not got back, whatever was trimmed or unmapped meanwhile.
\* The checks at the start of dlfree therefore never abort.
BlocksArePrivate ==
    /\ m.ok
    /\ \A b \in live :
          /\ b.at \in DOMAIN m.head
          /\ 16 * b.units >= b.bytes + (IF is_mmapped(m, b.at) THEN 16 ELSE 8)
          /\ m.head[b.at].size = b.units
          /\ PagesOf(MemoryOf(b.at, b.units)) \subseteq Held \ other
          /\ \A c \in live \ {b} : MemoryOf(b.at, b.units) \cap MemoryOf(c.at, c.units) = {}
    /\ PagesOf(HeapMemory) \subseteq Held \ other

\* The boundary tags agree: chunks tile every segment, the PINUSE bit and prev_foot of
\* a chunk describe the chunk in front of it, no two free chunks are neighbours, and
\* the footprint is the memory of the segments and of the chunks mapped directly.
SegmentsAreTiled ==
    /\ \A k \in DOMAIN m.seg :
          LET C == ChunksOf(k)
              end == m.seg[k].base + m.seg[k].size
          IN /\ UNION {MemoryOf(a, m.head[a].size) : a \in C} = MemoryOf(m.seg[k].base, m.seg[k].size)
             /\ \A a \in C : next_chunk(m, a) < end =>
                   LET n == m.head[next_chunk(m, a)] IN
                   /\ n.p = m.head[a].c
                   /\ ~m.head[a].c /\ a # m.top => n.c /\ n.foot = m.head[a].size
    /\ m.footprint = MapThenSumSet(LAMBDA k : m.seg[k].size, DOMAIN m.seg)
                      + MapThenSumSet(LAMBDA a : m.head[a].size + MmapFoot, Mmapped)

\* Every free chunk but the top and the dv is in the bin of its size and on the path of
\* its bits, once; the bins hold nothing else, and the bitmaps mark those not empty.
BinsMatchChunks ==
    LET free == {a \in DOMAIN m.head : ~is_inuse(m, a)} \ {m.top, m.dv}
        inSmall(a) == {i \in DOMAIN m.small : a \in Range(m.small[i])}
        inTree(a) == {i \in DOMAIN m.tree : \E p \in DOMAIN m.tree[i] : a \in Range(m.tree[i][p])}
    IN /\ UNION ({Range(m.small[i]) : i \in DOMAIN m.small}
                   \cup {UNION {Range(m.tree[i][p]) : p \in DOMAIN m.tree[i]} : i \in DOMAIN m.tree})
            = free
       /\ \A a \in free :
             IF is_small(m.head[a].size)
             THEN inSmall(a) = {small_index(m.head[a].size)} /\ inTree(a) = {}
             ELSE inTree(a) = {compute_tree_index(m.head[a].size)} /\ inSmall(a) = {}
       /\ \A i \in DOMAIN m.tree : \A p \in DOMAIN m.tree[i] :
             \A a \in Range(m.tree[i][p]) : p = Path(m.head[a].size, i, Len(p))
       /\ m.smallmap = {i \in DOMAIN m.small : m.small[i] # <<>>}
       /\ m.treemap = {i \in DOMAIN m.tree : DOMAIN m.tree[i] # {}}
       /\ m.dvsize = (IF m.dv = Null THEN 0 ELSE m.head[m.dv].size)
       /\ m.seg # <<>> => m.topsize = m.head[m.top].size

\* The heap's segments, chunks, bins and bitmaps agree with each other after every call.
HeapIsSound == SegmentsAreTiled /\ BinsMatchChunks

\* dlmalloc asks for pages only when no free chunk is large enough: the walk down a
\* tree, with its detour to the right, misses nothing.
AsksOnlyWhenFull ==
    [][call.op = "none" /\ call'.op \in {"mmap_alloc", "sys_alloc"} =>
         LET nb == request2size(call'.bytes) IN
         /\ \A a \in DOMAIN m.head : ~is_inuse(m, a) /\ a # m.top => m.head[a].size < nb
         /\ m.topsize <= nb]_allVars

\* Every page that the heap has got and does not use any more has gone back.  The order
\* of munmap is rounded down and that of mmap up, so the code does not keep it.
PagesGoBack == Ready => PagesOf(HeapMemory) = Held \ other
=============================================================================
