------------------------- MODULE ProcessImageProofs -------------------------
(***************************************************************************)
(* Proofs about ProcessImage, for any executables that fit, any number of   *)
(* processes, frames and threads, and any size of a page.                   *)
(***************************************************************************)
EXTENDS ProcessImage, FiniteSetTheorems, WellFoundedInduction, TLAPS

----------------------------------------------------------------------------
(* Arithmetic. *)

LEMMA Offsets ==
    /\ PageSize \in Nat /\ PageSize > 1 /\ 0 \in Offset
    /\ \A v \in Page : v \div PageSize \in Offset /\ v % PageSize \in Offset
BY ImageAssumption DEF Offset, Page

\* A page is known by its entry of the root and its entry of the table.
LEMMA Coordinates ==
    ASSUME NEW v \in Page, NEW w \in Page, v \div PageSize = w \div PageSize, v % PageSize = w % PageSize
    PROVE  v = w
BY ImageAssumption DEF Page

\* A cell is known by its page and its offset.
LEMMA CellAddress ==
    ASSUME NEW k \in Nat
    PROVE  /\ k \div PageSize \in Nat /\ k % PageSize \in Offset
           /\ k = (k \div PageSize) * PageSize + (k % PageSize)
BY ImageAssumption DEF Offset

LEMMA CellInPage ==
    ASSUME NEW v \in Nat, NEW o \in Offset
    PROVE  /\ v * PageSize + o \in Nat
           /\ (v * PageSize + o) \div PageSize = v /\ (v * PageSize + o) % PageSize = o
BY ImageAssumption DEF Offset

LEMMA Cells ==
    ASSUME NEW v \in Nat
    PROVE  v * PageSize \in Nat
BY ImageAssumption

LEMMA PagesSuffice ==
    ASSUME NEW n \in Nat
    PROVE  /\ PagesOf(n) \in Nat /\ n <= PagesOf(n) * PageSize
           /\ n > 0 => PagesOf(n) > 0
           /\ n = 0 => PagesOf(n) = 0
BY ImageAssumption DEF PagesOf

LEMMA LeastOf ==
    ASSUME NEW S \in SUBSET Nat, S # {}
    PROVE  Min(S) \in S /\ \A y \in S : Min(S) <= y
<1>1. PICK x \in S : \A y \in S : ~(<<y, x>> \in OpToRel(<, Nat))
  BY NatLessThanWellFounded, WFMin
<1>2. ASSUME NEW y \in S PROVE x <= y
  <2>1. x \in Nat /\ y \in Nat  OBVIOUS
  <2>2. y < x => <<y, x>> \in OpToRel(<, Nat)
    <3>1. <<y, x>> \in Nat \X Nat  BY <2>1
    <3> QED  BY <3>1 DEF OpToRel
  <2>3. ~(y < x)  BY <1>1, <2>2
  <2> QED  BY <2>1, <2>3
<1>3. \E y \in S : \A z \in S : y <= z  BY <1>2
<1> QED  BY <1>3 DEF Min

LEMMA RoundedUp ==
    ASSUME NEW n \in 1..NrPages
    PROVE  Rounded(n) \in Nat /\ n <= Rounded(n)
<1> DEFINE S == {o \in 0..n : 2 ^ o >= n}
<1>1. S \in SUBSET Nat  OBVIOUS
<1>2. n \in S  BY PowerAssumption, ImageAssumption
<1>3. Min(S) \in S  BY <1>1, <1>2, LeastOf
<1>4. Order(n) = Min(S)  BY DEF Order
<1> QED  BY <1>3, <1>4, PowerAssumption, ImageAssumption DEF Rounded

LEMMA RoundedSmall == Rounded(1) = 1 /\ Rounded(2) = 2
<1>1. Rounded(1) = 1
  <2> DEFINE S == {o \in 0..1 : 2 ^ o >= 1}
  <2>1. S \in SUBSET Nat /\ 0 \in S  BY PowerAssumption
  <2>2. Min(S) \in S /\ Min(S) <= 0  BY <2>1, LeastOf
  <2>3. Order(1) = Min(S)  BY DEF Order
  <2>4. Order(1) = 0  BY <2>2, <2>3
  <2> QED  BY <2>4, PowerAssumption DEF Rounded
<1>2. Rounded(2) = 2
  <2> DEFINE S == {o \in 0..2 : 2 ^ o >= 2}
  <2>1. S \in SUBSET Nat /\ 1 \in S  BY PowerAssumption
  <2>2. Min(S) \in S /\ Min(S) <= 1  BY <2>1, LeastOf
  <2>3. Order(2) = Min(S)  BY DEF Order
  <2>4. 0 \notin S
    <3>1. ~(2 ^ 0 >= 2)  BY PowerAssumption
    <3> QED  BY <3>1
  <2>5. Min(S) \in 0..2 /\ Min(S) # 0  BY <2>2, <2>4
  <2>6. Min(S) = 1  BY <2>2, <2>5
  <2> QED  BY <2>3, <2>6, PowerAssumption DEF Rounded
<1> QED  BY <1>1, <1>2

----------------------------------------------------------------------------
(* What a step knows of a process. *)

Alloc == {"phys", "map", "table"}
Mapping == {"map", "table"}
Cell == Int \X Int \X Int
IdleTask == [pc |-> "idle", va |-> 0, pa |-> None, left |-> 0, seg |-> 0, ret |-> "idle", h |-> 0]

----------------------------------------------------------------------------
(* The address space whose root is r, in the memory N that its process holds. *)

HasTable(N, r, a) == r # None /\ IsEntry(N[r][a])
TableOf(N, r, a) == N[r][a][2]
Leaf(N, r, v) == N[TableOf(N, r, v \div PageSize)][v % PageSize]
Maps(N, r, v) == HasTable(N, r, v \div PageSize) /\ IsEntry(Leaf(N, r, v))
FrameAt(N, r, v) == Leaf(N, r, v)[2]

\* Root, tables and pages are different frames of the process.
Sound(N, r) ==
    /\ DOMAIN N \subseteq Frame /\ \A f \in DOMAIN N : N[f] \in [Offset -> Cell]
    /\ r # None => r \in DOMAIN N
    /\ \A a \in Offset : HasTable(N, r, a) => TableOf(N, r, a) \in DOMAIN N \ {r}
    /\ \A a, b \in Offset : HasTable(N, r, a) /\ HasTable(N, r, b) /\ TableOf(N, r, a) = TableOf(N, r, b) => a = b
    /\ \A v \in Page : Maps(N, r, v) =>
          /\ FrameAt(N, r, v) \in DOMAIN N \ {r}
          /\ \A a \in Offset : HasTable(N, r, a) => FrameAt(N, r, v) # TableOf(N, r, a)
    /\ \A v, w \in Page : Maps(N, r, v) /\ Maps(N, r, w) /\ FrameAt(N, r, v) = FrameAt(N, r, w) => v = w

\* A frame of the process that is none of them.
Unused(N, r, f) ==
    /\ f \in DOMAIN N \ {r}
    /\ \A a \in Offset : HasTable(N, r, a) => f # TableOf(N, r, a)
    /\ \A v \in Page : Maps(N, r, v) => f # FrameAt(N, r, v)

\* n pages from a on are mapped to as many frames in a row.
Whole(N, r, a, n) ==
    \A k \in 0..(n - 1) : Maps(N, r, a + k) /\ FrameAt(N, r, a + k) = FrameAt(N, r, a) + k

----------------------------------------------------------------------------
(* The tasks of a process: x is the loader or the creator, i the executable. *)

\* What allocate_virt is to map.
Base(i, x) == CASE x.ret = "copy" -> FirstPage(i.entries[x.seg])
                [] x.ret = "args" -> StackPage
                [] x.ret = "copyargs" -> ArgsPage
                [] OTHER -> StackOf(x.h)
Count(i, x) == CASE x.ret = "copy" -> Rounded(PagesOf(i.entries[x.seg].memsz))
                 [] x.ret = "copyargs" -> 1
                 [] OTHER -> StackPages

\* Between allocate_phys and the last insert_mapping, the pages done are mapped in a row, and
\* the frames for the others are unused and full of zeros.
Pending(N, r, i, x) ==
    x.pc \in Alloc =>
        /\ x.pc = "phys" => /\ x.va = Base(i, x) /\ x.left > 0 /\ Rounded(x.left) = Count(i, x)
                            /\ \A k \in 0..(Count(i, x) - 1) : ~Maps(N, r, Base(i, x) + k)
        /\ x.pc \in Mapping =>
              /\ x.left > 0 /\ Base(i, x) <= x.va /\ x.va + x.left = Base(i, x) + Count(i, x)
              /\ x.pa \in Frame
              /\ \A k \in 0..(x.left - 1) :
                    Unused(N, r, x.pa + k) /\ ~Maps(N, r, x.va + k) /\ \A o \in Offset : N[x.pa + k][o] = Zero
              /\ \A k \in 1..(x.va - Base(i, x)) : Maps(N, r, x.va - k) /\ FrameAt(N, r, x.va - k) = x.pa - k
        /\ x.pc = "table" => ~HasTable(N, r, x.va \div PageSize)

LoaderSound(r, i, x) ==
    /\ x.pc \notin {"idle", "handle", "started"}
    /\ x.pc \in {"header", "vma"} => r = None
    /\ x.pc \notin {"header", "vma", "refused"} => r # None
    /\ x.seg <= Len(i.entries) + 1 /\ (x.pc \in {"entry"} => x.seg > 0)
    /\ x.pc \in {"header", "vma", "kstack"} => x.seg = 0
    /\ x.pc \in Alloc => x.ret \in {"copy", "args", "copyargs"}
    /\ x.pc = "copy" \/ (x.pc \in Alloc /\ x.ret = "copy") =>
          /\ x.seg \in 1..Len(i.entries) /\ i.entries[x.seg].load
          /\ x.pc # "copy" => i.entries[x.seg].memsz > 0
    /\ x.pc \in {"args", "copyargs", "start", "running"} \/ (x.pc \in Alloc /\ x.ret # "copy") =>
          x.seg = Len(i.entries) + 1
    /\ x.pc = "copyargs" \/ (x.pc \in Alloc /\ x.ret = "copyargs") => i.args # 0

\* T are the handles of the threads started, n is the next one.
CreatorSound(l, x, T, n) ==
    /\ x.pc \in Alloc \cup {"idle", "handle", "started"}
    /\ x.pc # "idle" => l.pc = "running"
    /\ x.pc \in Alloc => x.ret = "started"
    /\ x.pc \in Alloc \cup {"started"} => x.h \in 1..(n - 1) /\ x.h \notin T
    /\ T \subseteq 1..(n - 1)

\* How far the loader l is.
Passed(l) == IF l.pc = "copy" THEN l.seg ELSE l.seg - 1
HasStack(l) == l.pc \in {"args", "copyargs", "start", "running"} \/ (l.pc \in Alloc /\ l.ret = "copyargs")
HasArgs(i, l) == l.pc \in {"copyargs", "start", "running"} /\ i.args # 0
Stacks(c, T) == T \cup (IF c.pc = "started" THEN {c.h} ELSE {})

\* What has been allocated is mapped.
Given(N, r, i, l, c, T) ==
    /\ \A s \in 1..Passed(l) : Takes(i.entries[s]) => Whole(N, r, FirstPage(i.entries[s]), PagesOf(i.entries[s].memsz))
    /\ HasStack(l) => Whole(N, r, StackPage, StackPages)
    /\ HasArgs(i, l) => Maps(N, r, ArgsPage)
    /\ \A h \in Stacks(c, T) : Whole(N, r, StackOf(h), StackPages)

\* What is mapped has been allocated, an entry's pages all together.
OfEntry(N, r, e, v) == Takes(e) /\ v \in Region(e) /\ Whole(N, r, FirstPage(e), Rounded(PagesOf(e.memsz)))
OfTask(i, x, v) == x.pc \in Mapping /\ v \in Base(i, x)..(x.va - 1)
Origin(N, r, i, l, c, T, v) ==
    \/ \E s \in 1..Passed(l) : OfEntry(N, r, i.entries[s], v)
    \/ HasStack(l) /\ v \in StackPage..(StackPage + StackPages - 1)
    \/ HasArgs(i, l) /\ v = ArgsPage
    \/ \E h \in Stacks(c, T) : v \in StackOf(h)..(StackOf(h) + StackPages - 1)
    \/ OfTask(i, l, v) \/ OfTask(i, c, v)

\* A cell of a page has what the executable or the command line says, or zero.
InFile(i, l, s, k) == s \in 1..(l.seg - 1) /\ i.entries[s].load /\ k \in i.entries[s].vaddr..(i.entries[s].vaddr + i.entries[s].filesz - 1)
InArgs(i, l, v, o) == l.pc \in {"start", "running"} /\ v = ArgsPage /\ o < i.args
Address(v, o) == v * PageSize + o
Right(i, l, p, v, o, cell) ==
    /\ \A s \in 1..(l.seg - 1) :
          InFile(i, l, s, Address(v, o)) => cell = Data(p, s, Address(v, o) - i.entries[s].vaddr)
    /\ InArgs(i, l, v, o) => cell = Data(p, 0, o)
    /\ (\A s \in 1..(l.seg - 1) : ~InFile(i, l, s, Address(v, o))) /\ ~InArgs(i, l, v, o) => cell = Zero
Contents(N, r, i, l, p) ==
    \A v \in Page : \A o \in Offset : Maps(N, r, v) => Right(i, l, p, v, o, N[FrameAt(N, r, v)][o])

ProcessSound(N, r, i, l, c, T, n, p) ==
    /\ Sound(N, r) /\ LoaderSound(r, i, l) /\ CreatorSound(l, c, T, n)
    /\ Pending(N, r, i, l) /\ Pending(N, r, i, c)
    /\ Given(N, r, i, l, c, T) /\ \A v \in Page : Maps(N, r, v) => Origin(N, r, i, l, c, T, v)
    /\ Contents(N, r, i, l, p)

----------------------------------------------------------------------------
(* The invariant. *)

OwnMemory(p) == [f \in held[p] |-> mem[f]]
Creator(p) == IF Creators = 1 THEN task[<<p, 1>>] ELSE IdleTask
Handles(p) == {h \in 1..MaxHandle : <<p, h>> \in threads}

FramesApart ==
    /\ \A p \in Procs : held[p] \cap avail = {}
    /\ \A p, q \in Procs : p # q => held[p] \cap held[q] = {}

ProcessInv(p) ==
    ProcessSound(OwnMemory(p), root[p], image[p], task[Loader(p)], Creator(p), Handles(p), nextHandle, p)

ImageInv ==
    /\ TypeOK /\ mem \in [Frame -> [Offset -> Cell]]
    /\ FramesApart /\ \A p \in Procs : ProcessInv(p)

----------------------------------------------------------------------------
(* Changes of memory, as the tables see them: M is the memory after the change. *)

Typed(M) == DOMAIN M \subseteq Frame /\ \A f \in DOMAIN M : M[f] \in [Offset -> Cell]
SameTables(N, M, r) ==
    \A a \in Offset : /\ HasTable(M, r, a) <=> HasTable(N, r, a)
                      /\ HasTable(N, r, a) => TableOf(M, r, a) = TableOf(N, r, a)
SamePages(N, M, r) == \A v \in Page : Maps(M, r, v) <=> Maps(N, r, v)
Grows(N, M, r) == \A v \in Page : Maps(N, r, v) => Maps(M, r, v) /\ FrameAt(M, r, v) = FrameAt(N, r, v)

\* A write to other frames than the root and the tables changes no mapping.
LEMMA ViewKept ==
    ASSUME NEW N, NEW M, NEW r, Sound(N, r), Typed(M), DOMAIN N \subseteq DOMAIN M,
           r # None => M[r] = N[r],
           \A a \in Offset : HasTable(N, r, a) => M[TableOf(N, r, a)] = N[TableOf(N, r, a)]
    PROVE  SameTables(N, M, r) /\ SamePages(N, M, r) /\ Grows(N, M, r) /\ Sound(M, r)
<1>1. SameTables(N, M, r)  BY DEF SameTables, HasTable, TableOf
<1>2. ASSUME NEW v \in Page PROVE /\ Maps(M, r, v) <=> Maps(N, r, v)
                                  /\ Maps(N, r, v) => FrameAt(M, r, v) = FrameAt(N, r, v)
  <2>1. v \div PageSize \in Offset  BY Offsets
  <2>2. HasTable(N, r, v \div PageSize) => Leaf(M, r, v) = Leaf(N, r, v)
    BY <1>1, <2>1 DEF SameTables, Leaf
  <2> QED  BY <1>1, <2>1, <2>2 DEF SameTables, Maps, FrameAt
<1>3. SamePages(N, M, r) /\ Grows(N, M, r)  BY <1>2 DEF SamePages, Grows
<1>4. Sound(M, r)
  <2>1. /\ DOMAIN M \subseteq Frame /\ \A f \in DOMAIN M : M[f] \in [Offset -> Cell]
        /\ r # None => r \in DOMAIN M
    BY DEF Typed, Sound
  <2>2. \A a \in Offset : HasTable(M, r, a) => TableOf(M, r, a) \in DOMAIN M \ {r}
    BY <1>1 DEF SameTables, Sound
  <2>3. \A a, b \in Offset : HasTable(M, r, a) /\ HasTable(M, r, b) /\ TableOf(M, r, a) = TableOf(M, r, b) => a = b
    BY <1>1 DEF SameTables, Sound
  <2>4. ASSUME NEW v \in Page, Maps(M, r, v)
        PROVE  /\ FrameAt(M, r, v) \in DOMAIN M \ {r}
               /\ \A a \in Offset : HasTable(M, r, a) => FrameAt(M, r, v) # TableOf(M, r, a)
    <3>1. Maps(N, r, v) /\ FrameAt(M, r, v) = FrameAt(N, r, v)  BY <2>4, <1>2
    <3> QED  BY <3>1, <1>1 DEF SameTables, Sound
  <2>5. ASSUME NEW v \in Page, NEW w \in Page, Maps(M, r, v), Maps(M, r, w), FrameAt(M, r, v) = FrameAt(M, r, w)
        PROVE  v = w
    <3>1. Maps(N, r, v) /\ Maps(N, r, w) /\ FrameAt(N, r, v) = FrameAt(N, r, w)  BY <2>5, <1>2
    <3> QED  BY <3>1 DEF Sound
  <2> QED  BY <2>1, <2>2, <2>3, <2>4, <2>5 DEF Sound
<1> QED  BY <1>1, <1>3, <1>4

\* insert_mapping puts an empty table f, taken from outside, where there was none.
LEMMA TableAdded ==
    ASSUME NEW N, NEW M, NEW r, Sound(N, r), Typed(M), r # None, NEW a \in Offset, ~HasTable(N, r, a),
           NEW f \in Frame, f \notin DOMAIN N, DOMAIN M = DOMAIN N \cup {f},
           M[f] = [o \in Offset |-> Zero], M[r] = [N[r] EXCEPT ![a] = Entry(f)],
           \A g \in DOMAIN N \ {r} : M[g] = N[g]
    PROVE  /\ SamePages(N, M, r) /\ Grows(N, M, r) /\ Sound(M, r) /\ HasTable(M, r, a)
           /\ \A g : Unused(N, r, g) => Unused(M, r, g)
<1>0. r \in DOMAIN N /\ N[r] \in [Offset -> Cell] /\ f # r  BY DEF Sound
<1>1. HasTable(M, r, a) /\ TableOf(M, r, a) = f
  BY <1>0 DEF HasTable, TableOf, IsEntry, Entry
<1>2. \A b \in Offset : b # a => /\ HasTable(M, r, b) <=> HasTable(N, r, b)
                                 /\ TableOf(M, r, b) = TableOf(N, r, b)
  BY <1>0 DEF HasTable, TableOf
<1>3. \A b \in Offset : HasTable(N, r, b) => TableOf(N, r, b) \in DOMAIN N \ {r}  BY DEF Sound
<1>4. ASSUME NEW v \in Page PROVE /\ Maps(M, r, v) <=> Maps(N, r, v)
                                  /\ Maps(N, r, v) => FrameAt(M, r, v) = FrameAt(N, r, v)
  <2>1. v \div PageSize \in Offset /\ v % PageSize \in Offset  BY Offsets
  <2>2. CASE v \div PageSize = a
    <3>1. Leaf(M, r, v) = Zero  BY <2>1, <2>2, <1>1 DEF Leaf
    <3>2. ~Maps(M, r, v)  BY <3>1 DEF Maps, IsEntry, Zero
    <3>3. ~Maps(N, r, v)  BY <2>2 DEF Maps
    <3> QED  BY <3>2, <3>3
  <2>3. CASE v \div PageSize # a
    <3>1. HasTable(N, r, v \div PageSize) => Leaf(M, r, v) = Leaf(N, r, v)
      BY <2>1, <2>3, <1>2, <1>3 DEF Leaf
    <3> QED  BY <2>1, <2>3, <3>1, <1>2 DEF Maps, FrameAt
  <2> QED  BY <2>2, <2>3
<1>5. SamePages(N, M, r) /\ Grows(N, M, r)  BY <1>4 DEF SamePages, Grows
<1>6. Sound(M, r)
  <2>1. /\ DOMAIN M \subseteq Frame /\ \A g \in DOMAIN M : M[g] \in [Offset -> Cell]
        /\ r # None => r \in DOMAIN M
    BY <1>0 DEF Typed
  <2>2. \A b \in Offset : HasTable(M, r, b) => TableOf(M, r, b) \in DOMAIN M \ {r}
    BY <1>0, <1>1, <1>2, <1>3
  <2>3. ASSUME NEW b \in Offset, NEW d \in Offset, HasTable(M, r, b), HasTable(M, r, d), TableOf(M, r, b) = TableOf(M, r, d)
        PROVE  b = d
    <3>1. CASE b = a \/ d = a  BY <3>1, <2>3, <1>1, <1>2, <1>3
    <3>2. CASE b # a /\ d # a
      <4>1. HasTable(N, r, b) /\ HasTable(N, r, d) /\ TableOf(N, r, b) = TableOf(N, r, d)  BY <3>2, <2>3, <1>2
      <4> QED  BY <4>1 DEF Sound
    <3> QED  BY <3>1, <3>2
  <2>4. ASSUME NEW v \in Page, Maps(M, r, v)
        PROVE  /\ FrameAt(M, r, v) \in DOMAIN M \ {r}
               /\ \A b \in Offset : HasTable(M, r, b) => FrameAt(M, r, v) # TableOf(M, r, b)
    <3>1. Maps(N, r, v) /\ FrameAt(M, r, v) = FrameAt(N, r, v)  BY <2>4, <1>4
    <3>2. /\ FrameAt(N, r, v) \in DOMAIN N \ {r}
          /\ \A b \in Offset : HasTable(N, r, b) => FrameAt(N, r, v) # TableOf(N, r, b)
      BY <3>1 DEF Sound
    <3> QED  BY <3>1, <3>2, <1>1, <1>2
  <2>5. ASSUME NEW v \in Page, NEW w \in Page, Maps(M, r, v), Maps(M, r, w), FrameAt(M, r, v) = FrameAt(M, r, w)
        PROVE  v = w
    <3>1. Maps(N, r, v) /\ Maps(N, r, w) /\ FrameAt(N, r, v) = FrameAt(N, r, w)  BY <2>5, <1>4
    <3> QED  BY <3>1 DEF Sound
  <2> QED  BY <2>1, <2>2, <2>3, <2>4, <2>5 DEF Sound
<1>7. ASSUME NEW g, Unused(N, r, g) PROVE Unused(M, r, g)
  <2>1. g \in DOMAIN M \ {r} /\ g # f  BY <1>7 DEF Unused
  <2>2. \A b \in Offset : HasTable(M, r, b) => g # TableOf(M, r, b)  BY <2>1, <1>1, <1>2, <1>7 DEF Unused
  <2>3. \A v \in Page : Maps(M, r, v) => g # FrameAt(M, r, v)  BY <1>4, <1>7 DEF Unused
  <2> QED  BY <2>1, <2>2, <2>3 DEF Unused
<1> QED  BY <1>1, <1>5, <1>6, <1>7

\* Memory N with an entry for frame f in the table t.
WithEntry(N, t, o, f) == [N EXCEPT ![t] = [@ EXCEPT ![o] = Entry(f)]]

\* insert_mapping maps one more page, to a frame that was not used.
LEMMA PageAdded ==
    ASSUME NEW N, NEW M, NEW r, Sound(N, r), Typed(M), NEW u \in Page, HasTable(N, r, u \div PageSize),
           ~Maps(N, r, u), NEW f, Unused(N, r, f), DOMAIN M = DOMAIN N,
           M = WithEntry(N, TableOf(N, r, u \div PageSize), u % PageSize, f)
    PROVE  /\ SameTables(N, M, r) /\ Grows(N, M, r) /\ Sound(M, r) /\ Maps(M, r, u) /\ FrameAt(M, r, u) = f
           /\ \A v \in Page : v # u => (Maps(M, r, v) <=> Maps(N, r, v))
           /\ \A g : Unused(N, r, g) /\ g # f => Unused(M, r, g)
<1> DEFINE t == TableOf(N, r, u \div PageSize)
<1>0. /\ u \div PageSize \in Offset /\ u % PageSize \in Offset
      /\ t \in DOMAIN N \ {r} /\ N[t] \in [Offset -> Cell] /\ r # None /\ r \in DOMAIN N
  BY Offsets DEF Sound, HasTable
<1>1. M[r] = N[r] /\ M[t] = [N[t] EXCEPT ![u % PageSize] = Entry(f)] /\ \A g \in DOMAIN N : g # t => M[g] = N[g]
  <2>1. PICK x : x = t  OBVIOUS
  <2>2. PICK y : y = [N[t] EXCEPT ![u % PageSize] = Entry(f)]  OBVIOUS
  <2>3. M = [N EXCEPT ![x] = y]  BY <2>1, <2>2 DEF WithEntry
  <2>4. M[r] = N[r] /\ M[x] = y /\ \A g \in DOMAIN N : g # x => M[g] = N[g]  BY <2>1, <2>3, <1>0
  <2> QED  BY <2>1, <2>2, <2>4
<1>2. SameTables(N, M, r)  BY <1>1 DEF SameTables, HasTable, TableOf
<1>3. Leaf(M, r, u) = Entry(f)
  BY <1>0, <1>1, <1>2 DEF Leaf, SameTables
<1>4. Maps(M, r, u) /\ FrameAt(M, r, u) = f
  <2>1. HasTable(M, r, u \div PageSize)  BY <1>0, <1>2 DEF SameTables
  <2>2. IsEntry(Entry(f)) /\ Entry(f)[2] = f  BY DEF IsEntry, Entry
  <2> QED  BY <2>1, <2>2, <1>3 DEF Maps, FrameAt
<1>5. ASSUME NEW v \in Page, v # u
      PROVE  /\ Maps(M, r, v) <=> Maps(N, r, v)
             /\ Maps(N, r, v) => FrameAt(M, r, v) = FrameAt(N, r, v)
  <2>1. v \div PageSize \in Offset /\ v % PageSize \in Offset  BY Offsets
  <2>2. ASSUME HasTable(N, r, v \div PageSize) PROVE Leaf(M, r, v) = Leaf(N, r, v)
    <3>1. TableOf(M, r, v \div PageSize) = TableOf(N, r, v \div PageSize) /\ TableOf(N, r, v \div PageSize) \in DOMAIN N
      BY <2>1, <2>2, <1>2 DEF SameTables, Sound
    <3>2. CASE TableOf(N, r, v \div PageSize) = t
      <4>1. v \div PageSize = u \div PageSize  BY <3>2, <2>1, <2>2, <1>0 DEF Sound
      <4>2. v % PageSize # u % PageSize  BY <4>1, <1>5, Coordinates
      <4> QED  BY <3>1, <3>2, <4>2, <1>1, <1>0, <2>1 DEF Leaf
    <3>3. CASE TableOf(N, r, v \div PageSize) # t  BY <3>1, <3>3, <1>1 DEF Leaf
    <3> QED  BY <3>2, <3>3
  <2> QED  BY <2>1, <2>2, <1>2 DEF Maps, FrameAt, SameTables
<1>6. Grows(N, M, r)  BY <1>5 DEF Grows
<1>7. Sound(M, r)
  <2>1. /\ DOMAIN M \subseteq Frame /\ \A g \in DOMAIN M : M[g] \in [Offset -> Cell]
        /\ r # None => r \in DOMAIN M
    BY <1>0 DEF Typed
  <2>2. \A a \in Offset : HasTable(M, r, a) => TableOf(M, r, a) \in DOMAIN M \ {r}
    BY <1>2 DEF SameTables, Sound
  <2>3. \A a, b \in Offset : HasTable(M, r, a) /\ HasTable(M, r, b) /\ TableOf(M, r, a) = TableOf(M, r, b) => a = b
    BY <1>2 DEF SameTables, Sound
  <2>4. ASSUME NEW v \in Page, Maps(M, r, v)
        PROVE  /\ FrameAt(M, r, v) \in DOMAIN M \ {r}
               /\ \A a \in Offset : HasTable(M, r, a) => FrameAt(M, r, v) # TableOf(M, r, a)
    <3>1. CASE v = u  BY <3>1, <1>4, <1>2 DEF Unused, SameTables
    <3>2. CASE v # u
      <4>1. Maps(N, r, v) /\ FrameAt(M, r, v) = FrameAt(N, r, v)  BY <2>4, <3>2, <1>5
      <4> QED  BY <4>1, <1>2 DEF SameTables, Sound
    <3> QED  BY <3>1, <3>2
  <2>5. ASSUME NEW v \in Page, NEW w \in Page, Maps(M, r, v), Maps(M, r, w), FrameAt(M, r, v) = FrameAt(M, r, w)
        PROVE  v = w
    <3>1. CASE v # u /\ w # u
      <4>1. Maps(N, r, v) /\ Maps(N, r, w) /\ FrameAt(N, r, v) = FrameAt(N, r, w)  BY <2>5, <3>1, <1>5
      <4> QED  BY <4>1 DEF Sound
    <3>2. CASE v = u /\ w # u  BY <3>2, <2>5, <1>4, <1>5 DEF Unused
    <3>3. CASE v # u /\ w = u  BY <3>3, <2>5, <1>4, <1>5 DEF Unused
    <3> QED  BY <3>1, <3>2, <3>3
  <2> QED  BY <2>1, <2>2, <2>3, <2>4, <2>5 DEF Sound
<1>8. ASSUME NEW g, Unused(N, r, g), g # f PROVE Unused(M, r, g)
  <2>1. g \in DOMAIN M \ {r}  BY <1>8 DEF Unused
  <2>2. \A a \in Offset : HasTable(M, r, a) => g # TableOf(M, r, a)  BY <1>2, <1>8 DEF Unused, SameTables
  <2>3. \A v \in Page : Maps(M, r, v) => g # FrameAt(M, r, v)  BY <1>4, <1>5, <1>8 DEF Unused
  <2> QED  BY <2>1, <2>2, <2>3 DEF Unused
<1> QED  BY <1>2, <1>4, <1>5, <1>6, <1>7, <1>8

----------------------------------------------------------------------------
(* Where entries and stacks lie. *)

LEMMA ElementIn ==
    ASSUME NEW S, NEW q \in Seq(S), NEW k \in 1..Len(q)
    PROVE  q[k] \in S
OBVIOUS

LEMMA EntryPlaces ==
    ASSUME NEW i, ExecutableFits(i), NEW s \in 1..Len(i.entries), Takes(i.entries[s])
    PROVE  LET e == i.entries[s] IN
           /\ FirstPage(e) \in Nat /\ PagesOf(e.memsz) \in Nat \ {0} /\ Rounded(PagesOf(e.memsz)) \in Nat
           /\ PagesOf(e.memsz) <= Rounded(PagesOf(e.memsz))
           /\ FirstPage(e) + Rounded(PagesOf(e.memsz)) < NrPages
           /\ \A v \in Region(e) : /\ v < ThreadStacks + StackPages /\ v # ArgsPage
                                   /\ v \notin StackPage..(StackPage + StackPages - 1)
<1> DEFINE e == i.entries[s]
<1>1. i \in Executables /\ s \in DOMAIN i.entries  BY DEF ExecutableFits, Executables
<1>2. e.memsz \in Nat /\ e.vaddr \in Nat /\ e.memsz > 0 /\ EntryFits(e)
  <2>1. i.entries \in Seq([load : BOOLEAN, vaddr : Nat, filesz : Nat, memsz : Nat])  BY <1>1 DEF Executables
  <2>2. e \in [load : BOOLEAN, vaddr : Nat, filesz : Nat, memsz : Nat]  BY <2>1, ElementIn
  <2>3. EntryFits(e)  BY <1>1 DEF ExecutableFits, Takes
  <2>4. e.memsz > 0  BY DEF Takes
  <2> QED  BY <2>2, <2>3, <2>4
<1>3. FirstPage(e) \in Nat /\ FirstPage(e) + PagesOf(e.memsz) <= NrPages
  BY <1>2 DEF EntryFits, Page
<1>4. PagesOf(e.memsz) \in 1..NrPages
  <2>1. PagesOf(e.memsz) \in Nat /\ PagesOf(e.memsz) > 0  BY <1>2, PagesSuffice
  <2>2. NrPages \in Nat  BY ImageAssumption
  <2> QED  BY <1>3, <2>1, <2>2
<1>5. Rounded(PagesOf(e.memsz)) \in Nat /\ PagesOf(e.memsz) <= Rounded(PagesOf(e.memsz))
  BY <1>4, RoundedUp
<1>6. FirstPage(e) + Rounded(PagesOf(e.memsz)) - 1 \in Region(e)  BY <1>3, <1>4, <1>5 DEF Region
<1>7. FirstPage(e) + Rounded(PagesOf(e.memsz)) < NrPages
  <2>1. FirstPage(e) + Rounded(PagesOf(e.memsz)) - 1 + 1 \in Page  BY <1>2, <1>6 DEF EntryFits
  <2> QED  BY <2>1, <1>3, <1>5, ImageAssumption DEF Page
<1>8. \A v \in Region(e) : /\ v < ThreadStacks + StackPages /\ v # ArgsPage
                           /\ v \notin StackPage..(StackPage + StackPages - 1)
  BY <1>2 DEF EntryFits
<1> QED  BY <1>3, <1>4, <1>5, <1>7, <1>8

LEMMA FixedPlaces ==
    /\ StackPage \in Nat /\ ArgsPage \in Nat /\ ThreadStacks \in Nat /\ StackPages = 2
    /\ StackPage + 2 <= ArgsPage /\ ArgsPage < ThreadStacks /\ NrPages \in Nat
    /\ ArgsPage + 1 < NrPages /\ ArgsPage \in Page
BY ImageAssumption DEF StackPages, Page

\* Handles that do not wrap place the stacks of threads apart.
LEMMA StackPlaces ==
    ASSUME ImagesFit, NEW h \in 1..MaxHandle
    PROVE  /\ StackOf(h) = ThreadStacks + 2 * h /\ StackOf(h) \in Nat
           /\ StackOf(h) + 2 < NrPages /\ ThreadStacks + 2 <= StackOf(h)
<1>1. h % HandleWrap = h  BY ImageAssumption DEF ImagesFit
<1> QED  BY <1>1, ImageAssumption DEF StackOf, StackPages

Setting(r, i, l, c, T, n, p) ==
    /\ r \in Frame \cup {None} /\ ExecutableFits(i) /\ l \in Locals /\ c \in Locals
    /\ T \subseteq 1..MaxHandle /\ n \in 1..(MaxHandle + 1) /\ p \in Procs

\* What a task maps lies in the pages that are looked at, but for the last one.
LEMMA TargetPlaces ==
    ASSUME ImagesFit, NEW r, NEW i, NEW l, NEW c, NEW T, NEW n, NEW p, Setting(r, i, l, c, T, n, p),
           LoaderSound(r, i, l), CreatorSound(l, c, T, n), NEW x \in {l, c}, x.pc \in Alloc
    PROVE  Base(i, x) \in Nat /\ Count(i, x) \in Nat \ {0} /\ Base(i, x) + Count(i, x) < NrPages
<1>1. CASE x = l /\ x.ret = "copy"
  <2>1. x.seg \in 1..Len(i.entries) /\ Takes(i.entries[x.seg])  BY <1>1 DEF LoaderSound, Takes, Alloc
  <2>2. Base(i, x) = FirstPage(i.entries[x.seg]) /\ Count(i, x) = Rounded(PagesOf(i.entries[x.seg].memsz))
    BY <1>1 DEF Base, Count
  <2> QED  BY <2>1, <2>2, EntryPlaces DEF Setting
<1>2. CASE x = l /\ x.ret \in {"args", "copyargs"}
  BY <1>2, FixedPlaces DEF Base, Count
<1>3. CASE x = c /\ x # l
  <2>1. x.ret = "started" /\ x.h \in 1..MaxHandle
    <3>1. c.ret = "started" /\ c.h \in 1..(n - 1)  BY <1>3 DEF CreatorSound
    <3>2. n \in 1..(MaxHandle + 1) /\ MaxHandle \in Nat  BY ImageAssumption DEF Setting
    <3> QED  BY <1>3, <3>1, <3>2
  <2>2. Base(i, x) = StackOf(x.h) /\ Count(i, x) = 2  BY <2>1 DEF Base, Count, StackPages
  <2> QED  BY <2>1, <2>2, StackPlaces
<1>4. x = l => x.ret \in {"copy", "args", "copyargs"}  BY DEF LoaderSound
<1> QED  BY <1>1, <1>2, <1>3, <1>4

----------------------------------------------------------------------------
(* More mappings and more memory. *)

LEMMA WholeGrows ==
    ASSUME NEW N, NEW M, NEW r, Grows(N, M, r), NEW a \in Nat, NEW n \in Nat, a + n <= NrPages, Whole(N, r, a, n)
    PROVE  Whole(M, r, a, n)
<1> SUFFICES ASSUME NEW k \in 0..(n - 1)
             PROVE  Maps(M, r, a + k) /\ FrameAt(M, r, a + k) = FrameAt(M, r, a) + k
  BY DEF Whole
<1>1. a \in Page /\ a + k \in Page /\ 0 \in 0..(n - 1) /\ a + 0 = a  BY ImageAssumption DEF Page
<1>2. Maps(N, r, a) /\ Maps(N, r, a + k) /\ FrameAt(N, r, a + k) = FrameAt(N, r, a) + k  BY <1>1 DEF Whole
<1> QED  BY <1>1, <1>2 DEF Grows

LEMMA StackHandles ==
    ASSUME NEW r, NEW i, NEW l, NEW c, NEW T, NEW n, NEW p, Setting(r, i, l, c, T, n, p), CreatorSound(l, c, T, n),
           NEW h \in Stacks(c, T)
    PROVE  h \in 1..MaxHandle
<1>1. n \in 1..(MaxHandle + 1) /\ MaxHandle \in Nat /\ T \subseteq 1..MaxHandle  BY ImageAssumption DEF Setting
<1>2. CASE h \in T  BY <1>1, <1>2
<1>3. CASE h \notin T
  <2>1. c.pc = "started" /\ h = c.h  BY <1>3 DEF Stacks
  <2>2. c.h \in 1..(n - 1)  BY <2>1 DEF CreatorSound
  <2> QED  BY <1>1, <2>1, <2>2
<1> QED  BY <1>2, <1>3

LEMMA GivenGrows ==
    ASSUME ImagesFit, NEW r, NEW i, NEW l, NEW c, NEW T, NEW n, NEW p, Setting(r, i, l, c, T, n, p),
           LoaderSound(r, i, l), CreatorSound(l, c, T, n),
           NEW N, NEW M, Grows(N, M, r), Given(N, r, i, l, c, T)
    PROVE  Given(M, r, i, l, c, T)
<1>1. ASSUME NEW s \in 1..Passed(l), Takes(i.entries[s])
      PROVE  Whole(M, r, FirstPage(i.entries[s]), PagesOf(i.entries[s].memsz))
  <2>1. s \in 1..Len(i.entries)
    BY DEF Passed, LoaderSound, Setting, Locals, ExecutableFits, Executables
  <2>2. Whole(N, r, FirstPage(i.entries[s]), PagesOf(i.entries[s].memsz))  BY <1>1 DEF Given
  <2>3. ExecutableFits(i)  BY DEF Setting
  <2>4. /\ FirstPage(i.entries[s]) \in Nat /\ PagesOf(i.entries[s].memsz) \in Nat
        /\ FirstPage(i.entries[s]) + PagesOf(i.entries[s].memsz) <= NrPages
    <3>1. PICK a, b, d : /\ a = FirstPage(i.entries[s]) /\ b = PagesOf(i.entries[s].memsz)
                         /\ d = Rounded(PagesOf(i.entries[s].memsz))
      OBVIOUS
    <3>2. a \in Nat /\ b \in Nat \ {0} /\ d \in Nat /\ b <= d /\ a + d < NrPages
      BY <2>1, <2>3, <1>1, <3>1, EntryPlaces
    <3>3. NrPages \in Nat  BY FixedPlaces
    <3>4. a \in Nat /\ b \in Nat /\ a + b <= NrPages  BY ONLY <3>2, <3>3, SMT
    <3> QED  BY <3>1, <3>4
  <2> QED  BY <2>2, <2>4, WholeGrows
<1>2. HasStack(l) => Whole(M, r, StackPage, StackPages)
  <2>1. StackPage \in Nat /\ StackPages \in Nat /\ StackPage + StackPages <= NrPages  BY FixedPlaces
  <2>2. HasStack(l) => Whole(N, r, StackPage, StackPages)  BY DEF Given
  <2> QED  BY <2>1, <2>2, WholeGrows
<1>3. HasArgs(i, l) => Maps(M, r, ArgsPage)
  BY FixedPlaces DEF Given, Grows
<1>4. ASSUME NEW h \in Stacks(c, T) PROVE Whole(M, r, StackOf(h), StackPages)
  <2>1. h \in 1..MaxHandle  BY StackHandles
  <2>2. Whole(N, r, StackOf(h), StackPages)  BY DEF Given
  <2>3. StackOf(h) \in Nat /\ StackOf(h) + StackPages <= NrPages  BY <2>1, StackPlaces, FixedPlaces
  <2> QED  BY <2>2, <2>3, WholeGrows, FixedPlaces
<1> QED  BY <1>1, <1>2, <1>3, <1>4 DEF Given

LEMMA OriginGrows ==
    ASSUME NEW r, NEW i, NEW l, NEW c, NEW T, NEW n, NEW p, Setting(r, i, l, c, T, n, p), LoaderSound(r, i, l),
           NEW N, NEW M, Grows(N, M, r), NEW v \in Page, Origin(N, r, i, l, c, T, v)
    PROVE  Origin(M, r, i, l, c, T, v)
<1>1. ASSUME NEW s \in 1..Passed(l), OfEntry(N, r, i.entries[s], v)
      PROVE  OfEntry(M, r, i.entries[s], v)
  <2>1. s \in 1..Len(i.entries)
    BY DEF Passed, LoaderSound, Setting, Locals, ExecutableFits, Executables
  <2>2. ExecutableFits(i) /\ Takes(i.entries[s])  BY <1>1 DEF Setting, OfEntry
  <2>3. /\ FirstPage(i.entries[s]) \in Nat /\ Rounded(PagesOf(i.entries[s].memsz)) \in Nat
        /\ FirstPage(i.entries[s]) + Rounded(PagesOf(i.entries[s].memsz)) <= NrPages
    BY <2>1, <2>2, EntryPlaces, ImageAssumption
  <2> QED  BY <1>1, <2>3, WholeGrows DEF OfEntry
<1> QED  BY <1>1 DEF Origin

MemoryKept(N, M, r) ==
    /\ Sound(M, r) /\ SamePages(N, M, r) /\ Grows(N, M, r)
    /\ \A g : Unused(N, r, g) => Unused(M, r, g) /\ M[g] = N[g]
    /\ \A v \in Page : Maps(N, r, v) => M[FrameAt(N, r, v)] = N[FrameAt(N, r, v)]

\* The pages that a task has mapped and is to map are pages that are looked at.
LEMMA PendingPlaces ==
    ASSUME NEW N, NEW r, NEW i, NEW x \in Locals, Pending(N, r, i, x), x.pc \in Alloc,
           Base(i, x) \in Nat, Count(i, x) \in Nat \ {0}, Base(i, x) + Count(i, x) < NrPages
    PROVE  /\ \A k \in 0..(Count(i, x) - 1) : Base(i, x) + k \in Page
           /\ x.pc \in Mapping => /\ x.va + 1 \in Page /\ x.left \in Nat /\ x.va \in Nat
                                  /\ \A k \in 0..(x.left - 1) : x.va + k \in Page
                                  /\ \A k \in 1..(x.va - Base(i, x)) : x.va - k \in Page
<1>1. NrPages \in Nat /\ x.va \in Nat /\ x.left \in Nat  BY ImageAssumption DEF Locals, Page
<1>2. PICK b \in Nat : b = Base(i, x)  OBVIOUS
<1>3. PICK m \in Nat : m = Count(i, x)  OBVIOUS
<1>4. \A k \in 0..(m - 1) : b + k \in Page  BY <1>1, <1>2, <1>3 DEF Page
<1>5. ASSUME x.pc \in Mapping
      PROVE  /\ x.va + 1 \in Page
             /\ \A k \in 0..(x.left - 1) : x.va + k \in Page
             /\ \A k \in 1..(x.va - b) : x.va - k \in Page
  <2>1. x.left > 0 /\ b <= x.va /\ x.va + x.left = b + m  BY <1>5, <1>2, <1>3 DEF Pending
  <2>2. PICK u \in Nat : u = x.va  BY <1>1
  <2>3. PICK d \in Nat : d = x.left  BY <1>1
  <2>4. d > 0 /\ b <= u /\ u + d < NrPages  BY <2>1, <2>2, <2>3, <1>2, <1>3
  <2>5. u + 1 \in Page /\ (\A k \in 0..(d - 1) : u + k \in Page) /\ \A k \in 1..(u - b) : u - k \in Page
    BY <2>4, <1>1 DEF Page
  <2> QED  BY <2>5, <2>2, <2>3
<1> QED  BY <1>1, <1>2, <1>3, <1>4, <1>5

LEMMA PendingKept ==
    ASSUME NEW N, NEW M, NEW r, NEW i, NEW x \in Locals, Pending(N, r, i, x), MemoryKept(N, M, r),
           x.pc \in Alloc => Base(i, x) \in Nat /\ Count(i, x) \in Nat \ {0} /\ Base(i, x) + Count(i, x) < NrPages,
           x.pc = "table" => ~HasTable(M, r, x.va \div PageSize)
    PROVE  Pending(M, r, i, x)
<1> SUFFICES ASSUME x.pc \in Alloc PROVE Pending(M, r, i, x)  BY DEF Pending
<1>1. /\ \A k \in 0..(Count(i, x) - 1) : Base(i, x) + k \in Page
      /\ x.pc \in Mapping => /\ \A k \in 0..(x.left - 1) : x.va + k \in Page
                             /\ \A k \in 1..(x.va - Base(i, x)) : x.va - k \in Page
  BY PendingPlaces
<1>2. x.pc = "phys" => /\ x.va = Base(i, x) /\ x.left > 0 /\ Rounded(x.left) = Count(i, x)
                       /\ \A k \in 0..(Count(i, x) - 1) : ~Maps(M, r, Base(i, x) + k)
  BY <1>1 DEF Pending, MemoryKept, SamePages
<1>3. ASSUME x.pc \in Mapping
      PROVE  /\ \A k \in 0..(x.left - 1) :
                   Unused(M, r, x.pa + k) /\ ~Maps(M, r, x.va + k) /\ \A o \in Offset : M[x.pa + k][o] = Zero
             /\ \A k \in 1..(x.va - Base(i, x)) : Maps(M, r, x.va - k) /\ FrameAt(M, r, x.va - k) = x.pa - k
  <2>1. ASSUME NEW k \in 0..(x.left - 1)
        PROVE  Unused(M, r, x.pa + k) /\ ~Maps(M, r, x.va + k) /\ \A o \in Offset : M[x.pa + k][o] = Zero
    <3>1. Unused(N, r, x.pa + k) /\ ~Maps(N, r, x.va + k) /\ \A o \in Offset : N[x.pa + k][o] = Zero
      BY <1>3 DEF Pending
    <3>2. Unused(M, r, x.pa + k) /\ M[x.pa + k] = N[x.pa + k]  BY <3>1 DEF MemoryKept
    <3>3. ~Maps(M, r, x.va + k)  BY <3>1, <1>1, <1>3 DEF MemoryKept, SamePages
    <3> QED  BY <3>1, <3>2, <3>3
  <2>2. \A k \in 1..(x.va - Base(i, x)) : Maps(M, r, x.va - k) /\ FrameAt(M, r, x.va - k) = x.pa - k
    BY <1>3, <1>1 DEF Pending, MemoryKept, Grows
  <2> QED  BY <2>1, <2>2
<1>4. x.pc \in Mapping => x.left > 0 /\ Base(i, x) <= x.va /\ x.va + x.left = Base(i, x) + Count(i, x) /\ x.pa \in Frame
  BY DEF Pending
<1> QED  BY <1>2, <1>3, <1>4 DEF Pending

LEMMA ContentsKept ==
    ASSUME NEW N, NEW M, NEW r, NEW i, NEW l, NEW p, MemoryKept(N, M, r), Contents(N, r, i, l, p)
    PROVE  Contents(M, r, i, l, p)
<1>1. \A v \in Page : Maps(M, r, v) => Maps(N, r, v) /\ M[FrameAt(M, r, v)] = N[FrameAt(N, r, v)]
  BY DEF MemoryKept, SamePages, Grows
<1> QED  BY <1>1 DEF Contents

\* Memory that keeps what is mapped, and what is set aside to be mapped, keeps the invariant.
LEMMA SoundKept ==
    ASSUME ImagesFit, NEW r, NEW i, NEW l, NEW c, NEW T, NEW n, NEW p, Setting(r, i, l, c, T, n, p),
           NEW N, ProcessSound(N, r, i, l, c, T, n, p), NEW M, MemoryKept(N, M, r),
           \A x \in {l, c} : x.pc = "table" => ~HasTable(M, r, x.va \div PageSize)
    PROVE  ProcessSound(M, r, i, l, c, T, n, p)
<1>1. Sound(M, r) /\ LoaderSound(r, i, l) /\ CreatorSound(l, c, T, n) /\ Grows(N, M, r) /\ SamePages(N, M, r)
  BY DEF ProcessSound, MemoryKept
<1>2. l \in Locals /\ c \in Locals  BY DEF Setting
<1>3. \A x \in {l, c} : x.pc \in Alloc =>
          Base(i, x) \in Nat /\ Count(i, x) \in Nat \ {0} /\ Base(i, x) + Count(i, x) < NrPages
  BY <1>1, TargetPlaces
<1>4. Pending(M, r, i, l)  BY <1>2, <1>3, PendingKept DEF ProcessSound
<1>5. Pending(M, r, i, c)  BY <1>2, <1>3, PendingKept DEF ProcessSound
<1>6. Given(M, r, i, l, c, T)  BY <1>1, GivenGrows DEF ProcessSound
<1>7. ASSUME NEW v \in Page, Maps(M, r, v) PROVE Origin(M, r, i, l, c, T, v)
  <2>1. Origin(N, r, i, l, c, T, v)  BY <1>1, <1>7 DEF ProcessSound, SamePages
  <2> QED  BY <1>1, <2>1, OriginGrows
<1>8. Contents(M, r, i, l, p)  BY ContentsKept DEF ProcessSound
<1> QED  BY <1>1, <1>4, <1>5, <1>6, <1>7, <1>8 DEF ProcessSound

\* More frames, which are not used yet.
LEMMA MoreMemory ==
    ASSUME ImagesFit, NEW r, NEW i, NEW l, NEW c, NEW T, NEW n, NEW p, Setting(r, i, l, c, T, n, p),
           NEW N, ProcessSound(N, r, i, l, c, T, n, p), NEW M, Typed(M), DOMAIN N \subseteq DOMAIN M,
           \A f \in DOMAIN N : M[f] = N[f]
    PROVE  /\ ProcessSound(M, r, i, l, c, T, n, p) /\ Grows(N, M, r)
           /\ \A f \in DOMAIN M \ DOMAIN N : Unused(M, r, f)
<1>1. Sound(N, r)  BY DEF ProcessSound
<1>2. r # None => r \in DOMAIN N /\ M[r] = N[r]  BY <1>1 DEF Sound
<1>3. \A a \in Offset : HasTable(N, r, a) => TableOf(N, r, a) \in DOMAIN N /\ M[TableOf(N, r, a)] = N[TableOf(N, r, a)]
  BY <1>1 DEF Sound
<1>4. SameTables(N, M, r) /\ SamePages(N, M, r) /\ Grows(N, M, r) /\ Sound(M, r)
  BY <1>1, <1>2, <1>3, ViewKept
<1>5. \A v \in Page : Maps(N, r, v) => FrameAt(N, r, v) \in DOMAIN N  BY <1>1 DEF Sound
<1>6. ASSUME NEW g, Unused(N, r, g) PROVE Unused(M, r, g) /\ M[g] = N[g]
  <2>1. g \in DOMAIN M \ {r} /\ M[g] = N[g]  BY <1>6 DEF Unused
  <2>2. \A a \in Offset : HasTable(M, r, a) => g # TableOf(M, r, a)  BY <1>4, <1>6 DEF Unused, SameTables
  <2>3. \A v \in Page : Maps(M, r, v) => g # FrameAt(M, r, v)  BY <1>4, <1>6 DEF Unused, SamePages, Grows
  <2> QED  BY <2>1, <2>2, <2>3 DEF Unused
<1>7. MemoryKept(N, M, r)  BY <1>4, <1>5, <1>6 DEF MemoryKept
<1>8. ASSUME NEW x \in {l, c}, x.pc = "table" PROVE ~HasTable(M, r, x.va \div PageSize)
  <2>1. x.va \div PageSize \in Offset  BY Offsets DEF Setting, Locals
  <2>2. ~HasTable(N, r, x.va \div PageSize)  BY <1>8 DEF ProcessSound, Pending, Alloc
  <2> QED  BY <2>1, <2>2, <1>4 DEF SameTables
<1>9. ASSUME NEW f \in DOMAIN M \ DOMAIN N PROVE Unused(M, r, f) \/ f = r
  <2>1. \A a \in Offset : HasTable(M, r, a) => f # TableOf(M, r, a)  BY <1>3, <1>4 DEF SameTables
  <2>2. \A v \in Page : Maps(M, r, v) => f # FrameAt(M, r, v)  BY <1>4, <1>5 DEF SamePages, Grows
  <2> QED  BY <2>1, <2>2 DEF Unused
<1>10. \A f \in DOMAIN M \ DOMAIN N : f # r
  <2>1. DOMAIN M \subseteq Frame /\ None \notin Frame  BY ImageAssumption DEF Typed, Frame, None
  <2> QED  BY <1>2, <2>1
<1> QED  BY <1>4, <1>7, <1>8, <1>9, <1>10, SoundKept

----------------------------------------------------------------------------
(* Steps of the tasks of a process. *)

\* A step that maps nothing and copies nothing: the same entries, stacks and command line are done.
SameProgress(i, l, c, T, l2, c2, T2) ==
    /\ 1..Passed(l2) = 1..Passed(l) /\ 1..(l2.seg - 1) = 1..(l.seg - 1)
    /\ HasStack(l2) <=> HasStack(l)
    /\ HasArgs(i, l2) <=> HasArgs(i, l)
    /\ \A v \in Page : \A o \in Offset : InArgs(i, l2, v, o) <=> InArgs(i, l, v, o)
    /\ Stacks(c2, T2) = Stacks(c, T)
    /\ \A v \in Page : OfTask(i, l, v) \/ OfTask(i, c, v) => OfTask(i, l2, v) \/ OfTask(i, c2, v)

LEMMA Quiet ==
    ASSUME NEW N, NEW r, NEW i, NEW l, NEW c, NEW T, NEW n, NEW p, ProcessSound(N, r, i, l, c, T, n, p),
           NEW l2, NEW c2, NEW T2, NEW n2, SameProgress(i, l, c, T, l2, c2, T2),
           LoaderSound(r, i, l2), CreatorSound(l2, c2, T2, n2), Pending(N, r, i, l2), Pending(N, r, i, c2)
    PROVE  ProcessSound(N, r, i, l2, c2, T2, n2, p)
<1>1. Sound(N, r)  BY DEF ProcessSound
<1>2. Given(N, r, i, l2, c2, T2)  BY DEF ProcessSound, Given, SameProgress
<1>3. ASSUME NEW v \in Page, Maps(N, r, v) PROVE Origin(N, r, i, l2, c2, T2, v)
  <2>1. Origin(N, r, i, l, c, T, v)  BY <1>3 DEF ProcessSound
  <2> QED  BY <2>1 DEF Origin, SameProgress
<1>4. Contents(N, r, i, l2, p)
  <2>1. \A s, k : InFile(i, l2, s, k) <=> InFile(i, l, s, k)  BY DEF InFile, SameProgress
  <2>2. Contents(N, r, i, l, p)  BY DEF ProcessSound
  <2>3. ASSUME NEW v \in Page, NEW o \in Offset, NEW m, Right(i, l, p, v, o, m) PROVE Right(i, l2, p, v, o, m)
    BY <2>1, <2>3 DEF Right, SameProgress
  <2> QED  BY <2>2, <2>3 DEF Contents
<1> QED  BY <1>1, <1>2, <1>3, <1>4 DEF ProcessSound

\* A task out of allocate_virt has nothing pending, and the loader is not in it while the creator is.
LEMMA OneAtATime ==
    ASSUME NEW N, NEW r, NEW i, NEW l, NEW c, NEW T, NEW n, NEW p, ProcessSound(N, r, i, l, c, T, n, p)
    PROVE  /\ c.pc # "idle" => l.pc = "running" /\ Pending(N, r, i, l)
           /\ l.pc # "running" => c.pc = "idle"
           /\ \A x : x.pc \notin Alloc => Pending(N, r, i, x) /\ \A v : ~OfTask(i, x, v)
           /\ "idle" \notin Alloc /\ "running" \notin Alloc /\ Mapping \subseteq Alloc
BY DEF ProcessSound, CreatorSound, Pending, OfTask, Alloc, Mapping

\* Other handles may be given out.
LEMMA LaterHandle ==
    ASSUME NEW N, NEW r, NEW i, NEW l, NEW c, NEW T, NEW n \in Nat, NEW p, ProcessSound(N, r, i, l, c, T, n, p),
           NEW m \in Nat, n <= m
    PROVE  ProcessSound(N, r, i, l, c, T, m, p)
<1>1. CreatorSound(l, c, T, n)  BY DEF ProcessSound
<1>2. 1..(n - 1) \subseteq 1..(m - 1)  OBVIOUS
<1>3. CreatorSound(l, c, T, m)  BY <1>1, <1>2 DEF CreatorSound
<1> QED  BY <1>3 DEF ProcessSound

\* A step of the loader that maps nothing.
LEMMA LoaderMoves ==
    ASSUME NEW N, NEW r, NEW i, NEW l, NEW c, NEW T, NEW n, NEW p, ProcessSound(N, r, i, l, c, T, n, p),
           NEW l2 \in Locals, l \in Locals, i.args \in Nat, l.pc \notin Mapping,
           1..Passed(l2) = 1..Passed(l), 1..(l2.seg - 1) = 1..(l.seg - 1),
           HasStack(l2) <=> HasStack(l), HasArgs(i, l2) <=> HasArgs(i, l),
           i.args = 0 \/ (l2.pc \in {"start", "running"} <=> l.pc \in {"start", "running"}),
           LoaderSound(r, i, l2), c.pc = "idle" \/ l2.pc = "running", Pending(N, r, i, l2)
    PROVE  ProcessSound(N, r, i, l2, c, T, n, p)
<1>1. CreatorSound(l2, c, T, n)  BY DEF ProcessSound, CreatorSound
<1>2. \A v \in Page : \A o \in Offset : InArgs(i, l2, v, o) <=> InArgs(i, l, v, o)
  BY ImageAssumption DEF InArgs, Offset
<1>3. SameProgress(i, l, c, T, l2, c, T)  BY <1>2 DEF SameProgress, OfTask
<1> QED  BY <1>1, <1>3, Quiet DEF ProcessSound

\* A step of the creator that maps nothing.
LEMMA CreatorMoves ==
    ASSUME NEW N, NEW r, NEW i, NEW l, NEW c, NEW T, NEW n, NEW p, ProcessSound(N, r, i, l, c, T, n, p),
           NEW c2, NEW T2, NEW n2, Stacks(c2, T2) = Stacks(c, T), c.pc \notin Mapping,
           CreatorSound(l, c2, T2, n2), Pending(N, r, i, c2)
    PROVE  ProcessSound(N, r, i, l, c2, T2, n2, p)
<1>1. SameProgress(i, l, c, T, l, c2, T2)  BY DEF SameProgress, OfTask
<1> QED  BY <1>1, Quiet DEF ProcessSound

\* The entries that the loader has passed are entries of the executable.
LEMMA PassedPlaces ==
    ASSUME NEW r, NEW i, NEW l, NEW c, NEW T, NEW n, NEW p, Setting(r, i, l, c, T, n, p), LoaderSound(r, i, l),
           NEW s \in 1..Passed(l)
    PROVE  ExecutableFits(i) /\ s \in 1..Len(i.entries) /\ l.seg \in Nat /\ Len(i.entries) \in Nat
<1>1. l.seg \in Nat /\ l.seg <= Len(i.entries) + 1 /\ ExecutableFits(i)  BY DEF LoaderSound, Setting, Locals
<1>2. Len(i.entries) \in Nat  BY <1>1 DEF ExecutableFits, Executables
<1>3. l.pc = "copy" => l.seg \in 1..Len(i.entries)  BY DEF LoaderSound
<1> QED  BY <1>1, <1>2, <1>3 DEF Passed

\* Where the pages of entries and stacks are, no other page is.
LEMMA Origins ==
    ASSUME ImagesFit, NEW r, NEW i, NEW l, NEW c, NEW T, NEW n, NEW p, Setting(r, i, l, c, T, n, p),
           NEW N, ProcessSound(N, r, i, l, c, T, n, p), NEW v \in Page, Maps(N, r, v),
           l.pc \notin Mapping, c.pc \notin Mapping
    PROVE  \/ \E s \in 1..Passed(l) : /\ Takes(i.entries[s]) /\ v \in Region(i.entries[s]) /\ v < ThreadStacks + 2
                                      /\ v # ArgsPage /\ v # StackPage /\ v # StackPage + 1
                                      /\ Whole(N, r, FirstPage(i.entries[s]), Rounded(PagesOf(i.entries[s].memsz)))
           \/ HasStack(l) /\ v \in {StackPage, StackPage + 1}
           \/ HasArgs(i, l) /\ v = ArgsPage
           \/ \E h \in Stacks(c, T) : h \in 1..MaxHandle /\ v \in {StackOf(h), StackOf(h) + 1} /\ v >= ThreadStacks + 2
<1>1. Origin(N, r, i, l, c, T, v) /\ LoaderSound(r, i, l) /\ CreatorSound(l, c, T, n)  BY DEF ProcessSound
<1>2. ~OfTask(i, l, v) /\ ~OfTask(i, c, v)  BY DEF OfTask
<1>3. ASSUME NEW s \in 1..Passed(l), OfEntry(N, r, i.entries[s], v)
      PROVE  /\ Takes(i.entries[s]) /\ v \in Region(i.entries[s]) /\ v < ThreadStacks + 2
             /\ v # ArgsPage /\ v # StackPage /\ v # StackPage + 1
             /\ Whole(N, r, FirstPage(i.entries[s]), Rounded(PagesOf(i.entries[s].memsz)))
  <2>1. ExecutableFits(i) /\ s \in 1..Len(i.entries)  BY <1>1, PassedPlaces
  <2>2. Takes(i.entries[s]) /\ v \in Region(i.entries[s])  BY <1>3 DEF OfEntry
  <2>3. v < ThreadStacks + StackPages /\ v # ArgsPage /\ v \notin StackPage..(StackPage + StackPages - 1)
    BY <2>1, <2>2, EntryPlaces
  <2> QED  BY <1>3, <2>2, <2>3, FixedPlaces DEF OfEntry
<1>4. v \in StackPage..(StackPage + StackPages - 1) => v \in {StackPage, StackPage + 1}  BY FixedPlaces DEF Page
<1>5. ASSUME NEW h \in Stacks(c, T), v \in StackOf(h)..(StackOf(h) + StackPages - 1)
      PROVE  h \in 1..MaxHandle /\ v \in {StackOf(h), StackOf(h) + 1} /\ v >= ThreadStacks + 2
  <2>1. h \in 1..MaxHandle  BY <1>1, StackHandles
  <2>2. StackOf(h) \in Nat /\ ThreadStacks + 2 <= StackOf(h) /\ StackPages = 2 /\ ThreadStacks \in Nat
    BY <2>1, StackPlaces, FixedPlaces
  <2>3. v \in Nat  BY DEF Page
  <2>4. v \in {StackOf(h), StackOf(h) + 1} /\ v >= ThreadStacks + 2  BY ONLY <2>2, <2>3, <1>5, SMT
  <2> QED  BY <2>1, <2>4
<1> QED  BY <1>1, <1>2, <1>3, <1>4, <1>5 DEF Origin

LEMMA StackFree ==
    ASSUME ImagesFit, NEW r, NEW i, NEW l, NEW c, NEW T, NEW n, NEW p, Setting(r, i, l, c, T, n, p),
           NEW N, ProcessSound(N, r, i, l, c, T, n, p), l.pc = "entry"
    PROVE  ~Maps(N, r, StackPage) /\ ~Maps(N, r, StackPage + 1)
<1>1. ~HasStack(l) /\ ~HasArgs(i, l) /\ l.pc \notin Mapping  BY DEF HasStack, HasArgs, Alloc, Mapping
<1>2. c.pc = "idle" /\ c.pc \notin Mapping  BY OneAtATime DEF Mapping
<1>3. StackPage \in Page /\ StackPage + 1 \in Page  BY FixedPlaces DEF Page
<1>4. StackPage + 1 < ThreadStacks + 2 /\ StackPage < ThreadStacks + 2  BY FixedPlaces
<1>5. \A v \in {StackPage, StackPage + 1} : ~(v >= ThreadStacks + 2)  BY <1>4, FixedPlaces
<1>6. ~Maps(N, r, StackPage)  BY <1>1, <1>2, <1>3, <1>5, Origins
<1>7. ~Maps(N, r, StackPage + 1)  BY <1>1, <1>2, <1>3, <1>5, Origins
<1> QED  BY <1>6, <1>7

LEMMA ArgsFree ==
    ASSUME ImagesFit, NEW r, NEW i, NEW l, NEW c, NEW T, NEW n, NEW p, Setting(r, i, l, c, T, n, p),
           NEW N, ProcessSound(N, r, i, l, c, T, n, p), l.pc = "args"
    PROVE  ~Maps(N, r, ArgsPage)
<1>1. ~HasArgs(i, l) /\ l.pc \notin Mapping  BY DEF HasArgs, Mapping
<1>2. c.pc = "idle" /\ c.pc \notin Mapping  BY OneAtATime DEF Mapping
<1>3. ArgsPage \in Page /\ ~(ArgsPage >= ThreadStacks + 2) /\ ArgsPage \notin {StackPage, StackPage + 1}
  BY FixedPlaces
<1> QED  BY <1>1, <1>2, <1>3, Origins

LEMMA HandleStackFree ==
    ASSUME ImagesFit, NEW r, NEW i, NEW l, NEW c, NEW T, NEW n, NEW p, Setting(r, i, l, c, T, n, p),
           NEW N, ProcessSound(N, r, i, l, c, T, n, p), c.pc = "handle", n <= MaxHandle
    PROVE  ~Maps(N, r, StackOf(n)) /\ ~Maps(N, r, StackOf(n) + 1)
<1>1. l.pc = "running" /\ l.pc \notin Mapping /\ c.pc \notin Mapping  BY OneAtATime DEF Mapping
<1>2. n \in 1..MaxHandle  BY ImageAssumption DEF Setting
<1>3. /\ StackOf(n) = ThreadStacks + 2 * n /\ StackOf(n) \in Nat
      /\ StackOf(n) + 2 < NrPages /\ ThreadStacks + 2 <= StackOf(n)
  BY <1>2, StackPlaces
<1>4. ASSUME NEW v \in {StackOf(n), StackOf(n) + 1} PROVE ~Maps(N, r, v)
  <2>1. v \in Page /\ v \in Nat /\ v >= ThreadStacks + 2  BY <1>3, FixedPlaces DEF Page
  <2>2. v # ArgsPage /\ v \notin {StackPage, StackPage + 1} /\ ~(v < ThreadStacks + 2)  BY <2>1, FixedPlaces
  <2>3. ASSUME NEW h \in Stacks(c, T), h \in 1..MaxHandle PROVE v \notin {StackOf(h), StackOf(h) + 1}
    <3>1. h \in T  BY DEF Stacks
    <3>2. h \in 1..(n - 1)  BY <3>1 DEF ProcessSound, CreatorSound
    <3>3. StackOf(h) = ThreadStacks + 2 * h  BY <2>3, StackPlaces
    <3>4. MaxHandle \in Nat /\ ThreadStacks \in Nat  BY ImageAssumption, FixedPlaces
    <3> QED  BY <3>2, <3>3, <3>4, <1>2, <1>3
  <2> QED  BY <1>1, <2>1, <2>2, <2>3, Origins
<1> QED  BY <1>4

----------------------------------------------------------------------------
(* The loader between its calls of allocate_virt. *)

LEMMA HeaderKeeps ==
    ASSUME NEW r, NEW i, NEW l, NEW c, NEW T, NEW n, NEW p, Setting(r, i, l, c, T, n, p),
           NEW N, ProcessSound(N, r, i, l, c, T, n, p), NEW l2 \in Locals, l2.seg = l.seg,
           \/ l.pc = "header" /\ l2.pc \in {"vma", "refused"}
           \/ l.pc = "entry" /\ l2.pc = "refused"
    PROVE  ProcessSound(N, r, i, l2, c, T, n, p)
<1>1. LoaderSound(r, i, l) /\ l \in Locals /\ i.args \in Nat
  BY DEF ProcessSound, Setting, ExecutableFits, Executables
<1>2. LoaderSound(r, i, l2)  BY <1>1 DEF LoaderSound, Alloc
<1>3. c.pc = "idle" /\ Pending(N, r, i, l2)  BY OneAtATime DEF Alloc
<1>4. Passed(l2) = Passed(l) /\ HasStack(l2) = HasStack(l) /\ HasArgs(i, l2) = HasArgs(i, l) /\ l.pc \notin Mapping
  BY DEF Passed, HasStack, HasArgs, Alloc, Mapping
<1> QED  BY <1>1, <1>2, <1>3, <1>4, LoaderMoves

LEMMA MainThreadKeeps ==
    ASSUME NEW r, NEW i, NEW l, NEW c, NEW T, NEW n, NEW p, Setting(r, i, l, c, T, n, p),
           NEW N, ProcessSound(N, r, i, l, c, T, n, p), NEW l2 \in Locals,
           l.pc = "kstack", l2.pc = "entry", l2.seg = 1
    PROVE  ProcessSound(N, r, i, l2, c, T, n, p)
<1>1. LoaderSound(r, i, l) /\ l \in Locals /\ i.args \in Nat /\ Len(i.entries) \in Nat /\ l.seg = 0
  BY DEF ProcessSound, LoaderSound, Setting, ExecutableFits, Executables
<1>2. LoaderSound(r, i, l2)  BY <1>1 DEF LoaderSound, Alloc
<1>3. c.pc = "idle" /\ Pending(N, r, i, l2)  BY OneAtATime DEF Alloc
<1>4. HasStack(l2) = HasStack(l) /\ HasArgs(i, l2) = HasArgs(i, l) /\ l.pc \notin Mapping
  BY DEF HasStack, HasArgs, Alloc, Mapping
<1>5. 1..Passed(l2) = 1..Passed(l) /\ 1..(l2.seg - 1) = 1..(l.seg - 1)  BY <1>1 DEF Passed
<1> QED  BY <1>1, <1>2, <1>3, <1>4, <1>5, LoaderMoves

LEMMA MainStackKeeps ==
    ASSUME ImagesFit, NEW r, NEW i, NEW l, NEW c, NEW T, NEW n, NEW p, Setting(r, i, l, c, T, n, p),
           NEW N, ProcessSound(N, r, i, l, c, T, n, p), NEW l2 \in Locals,
           l.pc = "entry", l.seg > Len(i.entries), l2.pc = "phys", l2.seg = l.seg,
           l2.va = StackPage, l2.left = StackPages, l2.ret = "args"
    PROVE  ProcessSound(N, r, i, l2, c, T, n, p)
<1>1. LoaderSound(r, i, l) /\ l \in Locals /\ i.args \in Nat /\ Len(i.entries) \in Nat /\ l.seg = Len(i.entries) + 1
  <2>1. LoaderSound(r, i, l) /\ l \in Locals /\ i.args \in Nat /\ Len(i.entries) \in Nat
    BY DEF ProcessSound, Setting, ExecutableFits, Executables
  <2>2. l.seg \in Nat /\ l.seg <= Len(i.entries) + 1  BY <2>1 DEF LoaderSound, Locals
  <2> QED  BY <2>1, <2>2
<1>2. LoaderSound(r, i, l2)  BY <1>1 DEF LoaderSound, Alloc
<1>3. c.pc = "idle"  BY OneAtATime
<1>4. Passed(l2) = Passed(l) /\ HasStack(l2) = HasStack(l) /\ HasArgs(i, l2) = HasArgs(i, l) /\ l.pc \notin Mapping
  BY DEF Passed, HasStack, HasArgs, Alloc, Mapping
<1>5. Pending(N, r, i, l2)
  <2>1. Base(i, l2) = StackPage /\ Count(i, l2) = 2 /\ Rounded(l2.left) = 2 /\ l2.left = 2
    BY FixedPlaces, RoundedSmall DEF Base, Count
  <2>2. \A k \in 0..1 : k = 0 \/ k = 1  OBVIOUS
  <2>3. \A k \in 0..(Count(i, l2) - 1) : ~Maps(N, r, Base(i, l2) + k)
    BY <2>1, <2>2, StackFree, FixedPlaces
  <2> QED  BY <2>1, <2>3 DEF Pending, Mapping
<1> QED  BY <1>1, <1>2, <1>3, <1>4, <1>5, LoaderMoves

LEMMA MapArgsKeeps ==
    ASSUME ImagesFit, NEW r, NEW i, NEW l, NEW c, NEW T, NEW n, NEW p, Setting(r, i, l, c, T, n, p),
           NEW N, ProcessSound(N, r, i, l, c, T, n, p), NEW l2 \in Locals, l.pc = "args", l2.seg = l.seg,
           \/ i.args = 0 /\ l2.pc = "start"
           \/ i.args # 0 /\ l2.pc = "phys" /\ l2.va = ArgsPage /\ l2.left = 1 /\ l2.ret = "copyargs"
    PROVE  ProcessSound(N, r, i, l2, c, T, n, p)
<1>1. LoaderSound(r, i, l) /\ l \in Locals /\ i.args \in Nat
  BY DEF ProcessSound, Setting, ExecutableFits, Executables
<1>2. LoaderSound(r, i, l2)  BY <1>1 DEF LoaderSound, Alloc
<1>3. c.pc = "idle"  BY OneAtATime
<1>4. Passed(l2) = Passed(l) /\ HasStack(l2) = HasStack(l) /\ HasArgs(i, l2) = HasArgs(i, l) /\ l.pc \notin Mapping
  BY DEF Passed, HasStack, HasArgs, Alloc, Mapping
<1>5. Pending(N, r, i, l2)
  <2>1. CASE l2.pc = "phys"
    <3>1. Base(i, l2) = ArgsPage /\ Count(i, l2) = 1 /\ Rounded(l2.left) = 1 /\ l2.left = 1
      BY <2>1, RoundedSmall DEF Base, Count
    <3>2. \A k \in 0..(Count(i, l2) - 1) : ~Maps(N, r, Base(i, l2) + k)
      <4>1. \A k \in 0..0 : k = 0  OBVIOUS
      <4>2. ArgsPage + 0 = ArgsPage  BY FixedPlaces
      <4> QED  BY <3>1, <4>1, <4>2, ArgsFree
    <3> QED  BY <2>1, <3>1, <3>2 DEF Pending, Mapping
  <2>2. CASE l2.pc = "start"  BY <2>2 DEF Pending, Alloc
  <2> QED  BY <2>1, <2>2
<1> QED  BY <1>1, <1>2, <1>3, <1>4, <1>5, LoaderMoves

LEMMA StartKeeps ==
    ASSUME NEW r, NEW i, NEW l, NEW c, NEW T, NEW n, NEW p, Setting(r, i, l, c, T, n, p),
           NEW N, ProcessSound(N, r, i, l, c, T, n, p), NEW l2 \in Locals, l2.seg = l.seg,
           l.pc = "start", l2.pc = "running"
    PROVE  ProcessSound(N, r, i, l2, c, T, n + 1, p)
<1>1. LoaderSound(r, i, l) /\ l \in Locals /\ i.args \in Nat /\ n \in Nat
  BY ImageAssumption DEF ProcessSound, Setting, ExecutableFits, Executables
<1>2. LoaderSound(r, i, l2)  BY <1>1 DEF LoaderSound, Alloc
<1>3. Pending(N, r, i, l2)  BY OneAtATime
<1>4. Passed(l2) = Passed(l) /\ HasStack(l2) = HasStack(l) /\ HasArgs(i, l2) = HasArgs(i, l) /\ l.pc \notin Mapping
  BY DEF Passed, HasStack, HasArgs, Alloc, Mapping
<1>5. ProcessSound(N, r, i, l2, c, T, n, p)  BY <1>1, <1>2, <1>3, <1>4, LoaderMoves
<1> QED  BY <1>1, <1>5, LaterHandle

\* The constructor of the VMA takes the first frame of a process for the root.
LEMMA RootKeeps ==
    ASSUME NEW r, NEW i, NEW l, NEW c, NEW T, NEW n, NEW p, Setting(r, i, l, c, T, n, p),
           NEW N, ProcessSound(N, r, i, l, c, T, n, p), NEW l2 \in Locals, l2.seg = l.seg,
           l.pc = "vma", l2.pc = "kstack", NEW M, Typed(M), NEW f \in DOMAIN M, \A o \in Offset : M[f][o] = Zero
    PROVE  ProcessSound(M, f, i, l2, c, T, n, p) /\ Grows(N, M, r)
<1>1. LoaderSound(r, i, l) /\ l.seg = 0 /\ r = None /\ c.pc = "idle" /\ f # None
  BY OneAtATime, ImageAssumption DEF ProcessSound, LoaderSound, Typed, Frame, None
<1>2. \A a \in Offset : ~HasTable(M, f, a) /\ ~HasTable(N, r, a)  BY <1>1 DEF HasTable, IsEntry, Zero
<1>3. \A v \in Page : ~Maps(M, f, v) /\ ~Maps(N, r, v)  BY <1>2, Offsets DEF Maps
<1>4. Sound(M, f)  BY <1>2, <1>3 DEF Sound, Typed
<1>5. LoaderSound(f, i, l2)  BY <1>1 DEF LoaderSound, Alloc
<1>6. CreatorSound(l2, c, T, n)  BY <1>1 DEF ProcessSound, CreatorSound, Alloc
<1>7. Pending(M, f, i, l2) /\ Pending(M, f, i, c)  BY <1>1 DEF Pending, Alloc
<1>8. Given(M, f, i, l2, c, T)
  <2>1. 1..Passed(l2) = {}  BY <1>1 DEF Passed
  <2>2. ~HasStack(l2) /\ ~HasArgs(i, l2)  BY DEF HasStack, HasArgs, Alloc
  <2>3. Stacks(c, T) = {}
    <3>1. Stacks(c, T) = T  BY <1>1 DEF Stacks
    <3>2. ASSUME NEW h \in T PROVE FALSE
      <4>1. Whole(N, r, StackOf(h), StackPages)  BY <3>1 DEF ProcessSound, Given
      <4>2. Maps(N, r, StackOf(h) + 0)  BY <4>1 DEF Whole, StackPages
      <4> QED  BY <4>2, <1>1 DEF Maps, HasTable
    <3> QED  BY <3>1, <3>2
  <2> QED  BY <2>1, <2>2, <2>3 DEF Given
<1>9. Contents(M, f, i, l2, p)  BY <1>3 DEF Contents
<1> QED  BY <1>3, <1>4, <1>5, <1>6, <1>7, <1>8, <1>9 DEF ProcessSound, Grows

----------------------------------------------------------------------------
(* allocate_virt, for the loader and for the creator. *)

SameCall(x, y) == y.seg = x.seg /\ y.ret = x.ret /\ y.h = x.h

LEMMA SameTarget ==
    ASSUME NEW i, NEW x, NEW y, SameCall(x, y)
    PROVE  Base(i, y) = Base(i, x) /\ Count(i, y) = Count(i, x)
BY DEF SameCall, Base, Count

\* A step within allocate_virt that maps nothing.
LEMMA LoaderAllocates ==
    ASSUME NEW r, NEW i, NEW l, NEW c, NEW T, NEW n, NEW p, NEW N, ProcessSound(N, r, i, l, c, T, n, p),
           NEW l2, SameCall(l, l2), l.pc \in Alloc, l2.pc \in Alloc,
           l.pc \in Mapping => l2.pc \in Mapping /\ l2.va = l.va, Pending(N, r, i, l2)
    PROVE  ProcessSound(N, r, i, l2, c, T, n, p)
<1>1. LoaderSound(r, i, l) /\ CreatorSound(l, c, T, n) /\ Pending(N, r, i, c)  BY DEF ProcessSound
<1>2. LoaderSound(r, i, l2)  BY <1>1 DEF LoaderSound, Alloc, SameCall
<1>3. c.pc = "idle"  BY OneAtATime
<1>4. CreatorSound(l2, c, T, n)  BY <1>1, <1>3 DEF CreatorSound, Alloc
<1>5. \A v \in Page : OfTask(i, l, v) => OfTask(i, l2, v)  BY SameTarget DEF OfTask
<1>6. /\ Passed(l2) = Passed(l) /\ HasStack(l2) = HasStack(l) /\ HasArgs(i, l2) = HasArgs(i, l)
      /\ \A v \in Page : \A o \in Offset : InArgs(i, l2, v, o) = InArgs(i, l, v, o)
  BY DEF Passed, HasStack, HasArgs, InArgs, Alloc, SameCall
<1>7. SameProgress(i, l, c, T, l2, c, T)  BY <1>5, <1>6 DEF SameProgress, SameCall
<1> QED  BY <1>1, <1>2, <1>4, <1>7, Quiet

LEMMA CreatorAllocates ==
    ASSUME NEW r, NEW i, NEW l, NEW c, NEW T, NEW n, NEW p, NEW N, ProcessSound(N, r, i, l, c, T, n, p),
           NEW c2, SameCall(c, c2), c.pc \in Alloc, c2.pc \in Alloc,
           c.pc \in Mapping => c2.pc \in Mapping /\ c2.va = c.va, Pending(N, r, i, c2)
    PROVE  ProcessSound(N, r, i, l, c2, T, n, p)
<1>1. LoaderSound(r, i, l) /\ CreatorSound(l, c, T, n) /\ Pending(N, r, i, l)  BY DEF ProcessSound
<1>2. CreatorSound(l, c2, T, n)  BY <1>1 DEF CreatorSound, Alloc, SameCall
<1>3. \A v \in Page : OfTask(i, c, v) => OfTask(i, c2, v)  BY SameTarget DEF OfTask
<1>4. Stacks(c2, T) = Stacks(c, T)  BY DEF Stacks, Alloc
<1>5. SameProgress(i, l, c, T, l, c2, T)  BY <1>3, <1>4 DEF SameProgress
<1> QED  BY <1>1, <1>2, <1>5, Quiet

\* allocate_phys gives a block for all the pages.
LEMMA BlockPending ==
    ASSUME NEW N, NEW r, NEW i, NEW x \in Locals, Pending(N, r, i, x), x.pc = "phys", Count(i, x) \in Nat \ {0},
           NEW f \in Frame, NEW y, SameCall(x, y), y.pc = "map", y.va = x.va, y.pa = f, y.left = Rounded(x.left),
           \A k \in 0..(Rounded(x.left) - 1) : Unused(N, r, f + k) /\ \A o \in Offset : N[f + k][o] = Zero
    PROVE  Pending(N, r, i, y)
<1>1. /\ x.va = Base(i, x) /\ x.left > 0 /\ Rounded(x.left) = Count(i, x)
      /\ \A k \in 0..(Count(i, x) - 1) : ~Maps(N, r, Base(i, x) + k)
  BY DEF Pending, Alloc
<1>2. Base(i, y) = Base(i, x) /\ Count(i, y) = Count(i, x)  BY SameTarget
<1>3. y.va = Base(i, y) /\ y.left = Count(i, y) /\ y.va \in Nat  BY <1>1, <1>2 DEF Locals, Page
<1>4. y.left > 0 /\ Base(i, y) <= y.va /\ y.va + y.left = Base(i, y) + Count(i, y)  BY <1>2, <1>3
<1>5. \A k \in 0..(y.left - 1) : Unused(N, r, y.pa + k) /\ ~Maps(N, r, y.va + k) /\ \A o \in Offset : N[y.pa + k][o] = Zero
  BY <1>1, <1>2, <1>3
<1>6. 1..(y.va - Base(i, y)) = {}  BY <1>3
<1> QED  BY <1>4, <1>5, <1>6 DEF Pending

LEMMA TablePending ==
    ASSUME NEW N, NEW r, NEW i, NEW x, Pending(N, r, i, x), x.pc \in Mapping, NEW y, SameCall(x, y),
           y.va = x.va, y.pa = x.pa, y.left = x.left, y.pc \in Mapping,
           y.pc = "table" => ~HasTable(N, r, x.va \div PageSize)
    PROVE  Pending(N, r, i, y)
<1>1. Base(i, y) = Base(i, x) /\ Count(i, y) = Count(i, x)  BY SameTarget
<1> QED  BY <1>1 DEF Pending, Mapping, Alloc

\* insert_mapping puts in a table where there is none.
LEMMA TableKept ==
    ASSUME NEW N, NEW M, NEW r, Sound(N, r), Typed(M), r # None, NEW a \in Offset, ~HasTable(N, r, a),
           NEW f \in Frame, f \notin DOMAIN N, DOMAIN M = DOMAIN N \cup {f},
           M[f] = [o \in Offset |-> Zero], M[r] = [N[r] EXCEPT ![a] = Entry(f)],
           \A g \in DOMAIN N \ {r} : M[g] = N[g]
    PROVE  MemoryKept(N, M, r)
<1>1. /\ SamePages(N, M, r) /\ Grows(N, M, r) /\ Sound(M, r)
      /\ \A g : Unused(N, r, g) => Unused(M, r, g)
  BY TableAdded
<1>2. \A g : Unused(N, r, g) => M[g] = N[g]  BY DEF Unused
<1>3. \A v \in Page : Maps(N, r, v) => M[FrameAt(N, r, v)] = N[FrameAt(N, r, v)]  BY DEF Sound
<1> QED  BY <1>1, <1>2, <1>3 DEF MemoryKept

LEMMA LoaderTableKeeps ==
    ASSUME ImagesFit, NEW r, NEW i, NEW l, NEW c, NEW T, NEW n, NEW p, Setting(r, i, l, c, T, n, p),
           NEW N, ProcessSound(N, r, i, l, c, T, n, p), NEW l2 \in Locals, SameCall(l, l2), l.pc = "table",
           l2.pc = "map", l2.va = l.va, l2.pa = l.pa, l2.left = l.left, NEW M, MemoryKept(N, M, r)
    PROVE  ProcessSound(M, r, i, l2, c, T, n, p)
<1>1. Pending(N, r, i, l2)  BY TablePending DEF ProcessSound, Mapping
<1>2. ProcessSound(N, r, i, l2, c, T, n, p)  BY <1>1, LoaderAllocates DEF Alloc, Mapping
<1>3. c.pc = "idle"  BY OneAtATime
<1>4. Setting(r, i, l2, c, T, n, p)  BY DEF Setting
<1> QED  BY <1>2, <1>3, <1>4, SoundKept

LEMMA CreatorTableKeeps ==
    ASSUME ImagesFit, NEW r, NEW i, NEW l, NEW c, NEW T, NEW n, NEW p, Setting(r, i, l, c, T, n, p),
           NEW N, ProcessSound(N, r, i, l, c, T, n, p), NEW c2 \in Locals, SameCall(c, c2), c.pc = "table",
           c2.pc = "map", c2.va = c.va, c2.pa = c.pa, c2.left = c.left, NEW M, MemoryKept(N, M, r)
    PROVE  ProcessSound(M, r, i, l, c2, T, n, p)
<1>1. Pending(N, r, i, c2)  BY TablePending DEF ProcessSound, Mapping
<1>2. ProcessSound(N, r, i, l, c2, T, n, p)  BY <1>1, CreatorAllocates DEF Alloc, Mapping
<1>3. l.pc = "running"  BY OneAtATime
<1>4. Setting(r, i, l, c2, T, n, p)  BY DEF Setting
<1> QED  BY <1>2, <1>3, <1>4, SoundKept

----------------------------------------------------------------------------
(* The creator outside allocate_virt. *)

LEMMA RegisterKeeps ==
    ASSUME ImagesFit, NEW r, NEW i, NEW l, NEW c, NEW T, NEW n, NEW p, Setting(r, i, l, c, T, n, p),
           NEW N, ProcessSound(N, r, i, l, c, T, n, p), NEW c2 \in Locals, c.pc = "handle", n <= MaxHandle,
           c2.pc = "phys", c2.va = StackOf(n), c2.left = StackPages, c2.ret = "started", c2.h = n
    PROVE  ProcessSound(N, r, i, l, c2, T, n + 1, p)
<1>1. n \in 1..MaxHandle /\ n \in Nat  BY ImageAssumption DEF Setting
<1>2. CreatorSound(l, c, T, n)  BY DEF ProcessSound
<1>3. CreatorSound(l, c2, T, n + 1)
  <2>1. T \subseteq 1..(n - 1) /\ l.pc = "running"  BY <1>2 DEF CreatorSound
  <2>2. n \in 1..(n + 1 - 1) /\ n \notin T /\ T \subseteq 1..(n + 1 - 1)  BY <2>1, <1>1
  <2> QED  BY <2>1, <2>2 DEF CreatorSound, Alloc
<1>4. Pending(N, r, i, c2)
  <2>1. Base(i, c2) = StackOf(n) /\ Count(i, c2) = 2 /\ Rounded(c2.left) = 2 /\ c2.left = 2
    BY FixedPlaces, RoundedSmall DEF Base, Count
  <2>2. \A k \in 0..1 : k = 0 \/ k = 1  OBVIOUS
  <2>3. StackOf(n) \in Nat  BY <1>1, StackPlaces
  <2>4. \A k \in 0..(Count(i, c2) - 1) : ~Maps(N, r, Base(i, c2) + k)
    BY <2>1, <2>2, <2>3, HandleStackFree
  <2> QED  BY <2>1, <2>4 DEF Pending, Mapping
<1>5. Stacks(c2, T) = Stacks(c, T)  BY DEF Stacks
<1>6. c.pc \notin Mapping  BY DEF Mapping
<1> QED  BY <1>3, <1>4, <1>5, <1>6, CreatorMoves

LEMMA CreateKeeps ==
    ASSUME NEW r, NEW i, NEW l, NEW c, NEW T, NEW n, NEW p, NEW N, ProcessSound(N, r, i, l, c, T, n, p),
           NEW c2, c.pc = "idle", l.pc = "running", c2.pc = "handle"
    PROVE  ProcessSound(N, r, i, l, c2, T, n, p)
<1>1. CreatorSound(l, c2, T, n)  BY DEF ProcessSound, CreatorSound, Alloc
<1>2. Pending(N, r, i, c2)  BY OneAtATime DEF Alloc
<1>3. Stacks(c2, T) = Stacks(c, T) /\ c.pc \notin Mapping  BY DEF Stacks, Mapping
<1> QED  BY <1>1, <1>2, <1>3, CreatorMoves

LEMMA StartThreadKeeps ==
    ASSUME NEW r, NEW i, NEW l, NEW c, NEW T, NEW n, NEW p, NEW N, ProcessSound(N, r, i, l, c, T, n, p),
           NEW c2, c.pc = "started", c2.pc = "idle"
    PROVE  ProcessSound(N, r, i, l, c2, T \cup {c.h}, n, p)
<1>1. CreatorSound(l, c2, T \cup {c.h}, n)  BY DEF ProcessSound, CreatorSound, Alloc
<1>2. Pending(N, r, i, c2)  BY OneAtATime DEF Alloc
<1>3. Stacks(c2, T \cup {c.h}) = Stacks(c, T) /\ c.pc \notin Mapping  BY DEF Stacks, Mapping
<1> QED  BY <1>1, <1>2, <1>3, CreatorMoves

----------------------------------------------------------------------------
(* insert_mapping maps page u to frame f. *)

Extended(N, M, r, u, f) ==
    /\ Sound(M, r) /\ Grows(N, M, r) /\ Maps(M, r, u) /\ FrameAt(M, r, u) = f
    /\ \A v \in Page : v # u => (Maps(M, r, v) <=> Maps(N, r, v))
    /\ \A g : Unused(N, r, g) => M[g] = N[g] /\ (g # f => Unused(M, r, g))
    /\ \A v \in Page : Maps(N, r, v) => M[FrameAt(N, r, v)] = N[FrameAt(N, r, v)]

LEMMA PageExtends ==
    ASSUME NEW N, NEW M, NEW r, Sound(N, r), Typed(M), NEW u \in Page, HasTable(N, r, u \div PageSize),
           ~Maps(N, r, u), NEW f, Unused(N, r, f), DOMAIN M = DOMAIN N,
           M = WithEntry(N, TableOf(N, r, u \div PageSize), u % PageSize, f)
    PROVE  Extended(N, M, r, u, f)
<1>1. /\ Grows(N, M, r) /\ Sound(M, r) /\ Maps(M, r, u) /\ FrameAt(M, r, u) = f
      /\ \A v \in Page : v # u => (Maps(M, r, v) <=> Maps(N, r, v))
      /\ \A g : Unused(N, r, g) /\ g # f => Unused(M, r, g)
  BY PageAdded
<1>2. u \div PageSize \in Offset  BY Offsets
<1>3. PICK t : t = TableOf(N, r, u \div PageSize)  OBVIOUS
<1>4. PICK y : y = [N[t] EXCEPT ![u % PageSize] = Entry(f)]  OBVIOUS
<1>5. M = [N EXCEPT ![t] = y]  BY <1>3, <1>4 DEF WithEntry
<1>6. \A g \in DOMAIN N : g # t => M[g] = N[g]  BY <1>5
<1>7. \A g : Unused(N, r, g) => M[g] = N[g]  BY <1>2, <1>3, <1>6 DEF Unused
<1>8. \A v \in Page : Maps(N, r, v) => M[FrameAt(N, r, v)] = N[FrameAt(N, r, v)]  BY <1>2, <1>3, <1>6 DEF Sound
<1> QED  BY <1>1, <1>7, <1>8 DEF Extended

\* What a task in the loop of allocate_virt knows of the page it is at.
LEMMA TurnOfLoop ==
    ASSUME NEW N, NEW r, NEW i, NEW x \in Locals, Pending(N, r, i, x), x.pc = "map",
           Base(i, x) \in Nat, Count(i, x) \in Nat \ {0}, Base(i, x) + Count(i, x) < NrPages
    PROVE  /\ x.va \in Page /\ ~Maps(N, r, x.va) /\ x.pa \in Frame /\ Unused(N, r, x.pa) /\ \A o \in Offset : N[x.pa][o] = Zero
           /\ x.va + 1 \in Page /\ x.left \in Nat \ {0} /\ Base(i, x) <= x.va /\ x.va + x.left = Base(i, x) + Count(i, x)
<1>1. /\ x.left > 0 /\ Base(i, x) <= x.va /\ x.va + x.left = Base(i, x) + Count(i, x) /\ x.pa \in Frame
      /\ \A k \in 0..(x.left - 1) :
            Unused(N, r, x.pa + k) /\ ~Maps(N, r, x.va + k) /\ \A o \in Offset : N[x.pa + k][o] = Zero
  BY DEF Pending, Mapping, Alloc
<1>2. x.va + 1 \in Page /\ x.left \in Nat /\ x.va \in Page  BY PendingPlaces DEF Mapping, Alloc, Locals
<1>3. x.pa + 0 = x.pa /\ x.va + 0 = x.va  BY <1>1, <1>2 DEF Frame, Page
<1>4. 0 \in 0..(x.left - 1)  BY <1>1, <1>2
<1>5. Unused(N, r, x.pa + 0) /\ ~Maps(N, r, x.va + 0) /\ \A o \in Offset : N[x.pa + 0][o] = Zero  BY <1>1, <1>4
<1> QED  BY <1>1, <1>2, <1>3, <1>5

LEMMA NextTurn ==
    ASSUME NEW N, NEW r, NEW i, NEW x \in Locals, Pending(N, r, i, x), x.pc = "map",
           Base(i, x) \in Nat, Count(i, x) \in Nat \ {0}, Base(i, x) + Count(i, x) < NrPages,
           NEW M, Extended(N, M, r, x.va, x.pa), x.left # 1,
           NEW y \in Locals, SameCall(x, y), y.pc = "map", y.va = x.va + 1, y.left = x.left - 1, y.pa = x.pa + 1
    PROVE  Pending(M, r, i, y)
<1>1. /\ x.va \in Page /\ x.va + 1 \in Page /\ x.left \in Nat \ {0} /\ Base(i, x) <= x.va
      /\ x.va + x.left = Base(i, x) + Count(i, x) /\ x.pa \in Frame
  BY TurnOfLoop
<1>2. Base(i, y) = Base(i, x) /\ Count(i, y) = Count(i, x)  BY SameTarget
<1>3. PICK b \in Nat : b = Base(i, x)  OBVIOUS
<1>4. PICK m \in Nat : m = Count(i, x)  OBVIOUS
<1>5. PICK u \in Nat : u = x.va  BY <1>1 DEF Page
<1>6. PICK d \in Nat : d = x.left  BY <1>1
<1>7. PICK f \in Nat : f = x.pa  BY <1>1 DEF Frame
<1>8. /\ \A k \in 0..(d - 1) : Unused(N, r, f + k) /\ ~Maps(N, r, u + k) /\ \A o \in Offset : N[f + k][o] = Zero
      /\ \A k \in 1..(u - b) : Maps(N, r, u - k) /\ FrameAt(N, r, u - k) = f - k
  BY <1>3, <1>5, <1>6, <1>7 DEF Pending, Mapping, Alloc
<1>9. (\A k \in 0..(d - 1) : u + k \in Page) /\ \A k \in 1..(u - b) : u - k \in Page
  BY <1>3, <1>5, <1>6, PendingPlaces DEF Mapping, Alloc
<1>10. y.left > 0 /\ b <= u + 1 /\ (u + 1) + (d - 1) = b + m /\ d > 1  BY <1>1, <1>3, <1>4, <1>5, <1>6
<1>11. y.pa \in Frame
  <2>1. Unused(N, r, f + 1)  BY <1>8, <1>10
  <2>2. f + 1 \in DOMAIN M  BY <2>1, <1>7, <1>5 DEF Extended, Unused
  <2> QED  BY <2>2, <1>7 DEF Extended, Sound
<1>12. ASSUME NEW k \in 0..(d - 1 - 1)
       PROVE  Unused(M, r, f + 1 + k) /\ ~Maps(M, r, u + 1 + k) /\ \A o \in Offset : M[f + 1 + k][o] = Zero
  <2>1. k + 1 \in 0..(d - 1) /\ f + 1 + k = f + (k + 1) /\ u + 1 + k = u + (k + 1) /\ f + (k + 1) # f /\ u + (k + 1) # u
    BY <1>10
  <2>2. Unused(N, r, f + (k + 1)) /\ ~Maps(N, r, u + (k + 1)) /\ (\A o \in Offset : N[f + (k + 1)][o] = Zero) /\ u + (k + 1) \in Page
    BY <2>1, <1>8, <1>9
  <2>3. Unused(M, r, f + (k + 1)) /\ M[f + (k + 1)] = N[f + (k + 1)]  BY <2>1, <2>2, <1>7 DEF Extended
  <2>4. ~Maps(M, r, u + (k + 1))  BY <2>1, <2>2, <1>5 DEF Extended
  <2> QED  BY <2>1, <2>2, <2>3, <2>4
<1>13. ASSUME NEW k \in 1..(u + 1 - b)
       PROVE  Maps(M, r, u + 1 - k) /\ FrameAt(M, r, u + 1 - k) = f + 1 - k
  <2>1. CASE k = 1
    <3>1. u + 1 - k = u /\ f + 1 - k = f  BY <2>1
    <3> QED  BY <3>1, <1>5, <1>7 DEF Extended
  <2>2. CASE k # 1
    <3>1. k - 1 \in 1..(u - b) /\ u + 1 - k = u - (k - 1) /\ f + 1 - k = f - (k - 1)  BY <2>2
    <3>2. Maps(N, r, u - (k - 1)) /\ FrameAt(N, r, u - (k - 1)) = f - (k - 1) /\ u - (k - 1) \in Page  BY <3>1, <1>8, <1>9
    <3> QED  BY <3>1, <3>2 DEF Extended, Grows
  <2> QED  BY <2>1, <2>2
<1>14. y.va = u + 1 /\ y.left = d - 1 /\ y.pa = f + 1 /\ Base(i, y) = b /\ Count(i, y) = m
  BY <1>2, <1>3, <1>4, <1>5, <1>6, <1>7
<1>15. y.pc = "map"  OBVIOUS
<1>16. \A k \in 0..(y.left - 1) : Unused(M, r, y.pa + k) /\ ~Maps(M, r, y.va + k) /\ \A o \in Offset : M[y.pa + k][o] = Zero
  BY <1>12, <1>14
<1>17. \A k \in 1..(y.va - Base(i, y)) : Maps(M, r, y.va - k) /\ FrameAt(M, r, y.va - k) = y.pa - k
  BY <1>13, <1>14
<1>18. y.left > 0 /\ Base(i, y) <= y.va /\ y.va + y.left = Base(i, y) + Count(i, y)  BY <1>10, <1>14
<1> QED  BY <1>11, <1>15, <1>16, <1>17, <1>18 DEF Pending

LEMMA LastTurn ==
    ASSUME NEW N, NEW r, NEW i, NEW x \in Locals, Pending(N, r, i, x), x.pc = "map",
           Base(i, x) \in Nat, Count(i, x) \in Nat \ {0}, Base(i, x) + Count(i, x) < NrPages,
           NEW M, Extended(N, M, r, x.va, x.pa), x.left = 1
    PROVE  Whole(M, r, Base(i, x), Count(i, x))
<1>1. /\ x.va \in Page /\ Base(i, x) <= x.va
      /\ x.va + x.left = Base(i, x) + Count(i, x) /\ x.pa \in Frame
  BY TurnOfLoop
<1>3. PICK b \in Nat : b = Base(i, x)  OBVIOUS
<1>4. PICK m \in Nat : m = Count(i, x)  OBVIOUS
<1>5. PICK u \in Nat : u = x.va  BY <1>1 DEF Page
<1>7. PICK f \in Nat : f = x.pa  BY <1>1 DEF Frame
<1>8. \A k \in 1..(u - b) : Maps(N, r, u - k) /\ FrameAt(N, r, u - k) = f - k
  BY <1>3, <1>5, <1>7 DEF Pending, Mapping, Alloc
<1>9. \A k \in 1..(u - b) : u - k \in Page
  BY <1>3, <1>5, PendingPlaces DEF Mapping, Alloc
<1>10. u + 1 = b + m /\ b <= u  BY <1>1, <1>3, <1>4, <1>5
<1>11. ASSUME NEW k \in 0..(m - 1) PROVE Maps(M, r, b + k) /\ FrameAt(M, r, b + k) = f - (u - (b + k))
  <2>1. CASE b + k = u
    <3>1. f - (u - (b + k)) = f  BY <2>1
    <3> QED  BY <2>1, <3>1, <1>5, <1>7 DEF Extended
  <2>2. CASE b + k # u
    <3>1. u - (b + k) \in 1..(u - b) /\ u - (u - (b + k)) = b + k  BY <2>2, <1>10
    <3>2. Maps(N, r, b + k) /\ FrameAt(N, r, b + k) = f - (u - (b + k)) /\ b + k \in Page  BY <3>1, <1>8, <1>9
    <3> QED  BY <3>2 DEF Extended, Grows
  <2> QED  BY <2>1, <2>2
<1>12. 0 \in 0..(m - 1) /\ b + 0 = b  BY <1>10
<1>13. FrameAt(M, r, b) = f - (u - b)  BY <1>11, <1>12
<1>14. \A k \in 0..(m - 1) : Maps(M, r, b + k) /\ FrameAt(M, r, b + k) = FrameAt(M, r, b) + k
  BY <1>11, <1>13
<1> QED  BY <1>3, <1>4, <1>14 DEF Whole

\* A page with a cell of a file has been mapped.
LEMMA FileIsMapped ==
    ASSUME NEW r, NEW i, NEW l, NEW c, NEW T, NEW n, NEW p, Setting(r, i, l, c, T, n, p), LoaderSound(r, i, l),
           NEW N, Given(N, r, i, l, c, T), NEW s \in 1..(l.seg - 1), NEW v \in Nat, NEW o \in Offset,
           InFile(i, l, s, Address(v, o))
    PROVE  Maps(N, r, v)
<1>1. s \in 1..Passed(l)
  <2>1. l.seg \in Nat  BY DEF Setting, Locals
  <2> QED  BY <2>1 DEF Passed
<1>2. ExecutableFits(i) /\ s \in 1..Len(i.entries)  BY <1>1, PassedPlaces
<1>3. PICK e : e = i.entries[s]  OBVIOUS
<1>4. e \in [load : BOOLEAN, vaddr : Nat, filesz : Nat, memsz : Nat]
  <2>1. i.entries \in Seq([load : BOOLEAN, vaddr : Nat, filesz : Nat, memsz : Nat])  BY <1>2 DEF ExecutableFits, Executables
  <2> QED  BY <2>1, <1>2, <1>3, ElementIn
<1>5. e.load /\ v * PageSize + o \in e.vaddr..(e.vaddr + e.filesz - 1)  BY <1>3 DEF InFile, Address
<1>6. e.vaddr % PageSize = 0 /\ e.filesz <= e.memsz
  <2>1. s \in DOMAIN i.entries  BY <1>2 DEF ExecutableFits, Executables
  <2>2. EntryFits(e)  BY <1>2, <1>3, <1>5, <2>1 DEF ExecutableFits
  <2> QED  BY <2>2 DEF EntryFits
<1>7. e.memsz > 0  BY <1>4, <1>5, <1>6, CellInPage
<1>8. PICK a \in Nat : a = e.vaddr \div PageSize  BY <1>4, CellAddress
<1>9. e.vaddr = a * PageSize
  <2>1. PICK k \in Nat : k = e.vaddr  BY <1>4
  <2>2. k % PageSize = 0 /\ a = k \div PageSize  BY <1>6, <1>8, <2>1
  <2>3. k = a * PageSize  BY <2>2, CellAddress, Offsets
  <2> QED  BY <2>1, <2>3
<1>10. PICK m \in Nat : m = PagesOf(e.memsz) /\ e.memsz <= m * PageSize  BY <1>4, PagesSuffice
<1>11. a <= v /\ v < a + m
  <2>1. v * PageSize + o >= a * PageSize /\ v * PageSize + o < a * PageSize + m * PageSize
    <3>1. v * PageSize + o \in Nat /\ a * PageSize \in Nat /\ m * PageSize \in Nat
      BY CellInPage, Cells
    <3> QED  BY <3>1, <1>4, <1>5, <1>6, <1>9, <1>10
  <2>2. o < PageSize /\ o >= 0 /\ o \in Int /\ PageSize \in Nat /\ PageSize > 0  BY Offsets DEF Offset
  <2>3. ~(v < a)
    <3>1. v < a => v + 1 <= a  OBVIOUS
    <3>2. v + 1 <= a => (v + 1) * PageSize <= a * PageSize  BY <2>2
    <3>3. (v + 1) * PageSize = v * PageSize + PageSize  BY <2>2
    <3>4. v * PageSize \in Int /\ a * PageSize \in Int  BY <2>2
    <3> QED  BY <3>1, <3>2, <3>3, <3>4, <2>1, <2>2
  <2>4. v < a + m
    <3>1. a + m <= v => (a + m) * PageSize <= v * PageSize  BY <2>2
    <3>2. (a + m) * PageSize = a * PageSize + m * PageSize  BY <2>2
    <3>3. v * PageSize \in Int /\ a * PageSize \in Int /\ m * PageSize \in Int  BY <2>2
    <3> QED  BY <3>1, <3>2, <3>3, <2>1, <2>2
  <2> QED  BY <2>3, <2>4
<1>12. Whole(N, r, a, m)
  <2>1. Takes(i.entries[s])  BY <1>3, <1>5, <1>7 DEF Takes
  <2> QED  BY <2>1, <1>1, <1>3, <1>8, <1>10 DEF Given, FirstPage
<1>13. v - a \in 0..(m - 1) /\ a + (v - a) = v  BY <1>11
<1>14. Maps(N, r, a + (v - a))  BY <1>12, <1>13 DEF Whole
<1> QED  BY <1>13, <1>14

LEMMA ContentsExtended ==
    ASSUME NEW r, NEW i, NEW l, NEW c, NEW T, NEW n, NEW p, Setting(r, i, l, c, T, n, p),
           NEW N, ProcessSound(N, r, i, l, c, T, n, p), NEW u \in Page, ~Maps(N, r, u), NEW f, Unused(N, r, f),
           \A o \in Offset : N[f][o] = Zero /\ ~InArgs(i, l, u, o), NEW M, Extended(N, M, r, u, f)
    PROVE  Contents(M, r, i, l, p)
<1>1. \A v \in Page : \A o \in Offset : Maps(N, r, v) => Right(i, l, p, v, o, N[FrameAt(N, r, v)][o])
  BY DEF ProcessSound, Contents
<1>2. ASSUME NEW v \in Page, NEW o \in Offset, Maps(M, r, v) PROVE Right(i, l, p, v, o, M[FrameAt(M, r, v)][o])
  <2>1. CASE v # u
    <3>1. Maps(N, r, v) /\ FrameAt(M, r, v) = FrameAt(N, r, v) /\ M[FrameAt(M, r, v)] = N[FrameAt(N, r, v)]
      BY <1>2, <2>1 DEF Extended, Grows
    <3> QED  BY <3>1, <1>1
  <2>2. CASE v = u
    <3>1. M[FrameAt(M, r, v)][o] = Zero  BY <2>2 DEF Extended
    <3>2. u \in Nat /\ LoaderSound(r, i, l) /\ Given(N, r, i, l, c, T)  BY DEF Page, ProcessSound
    <3>3. \A s \in 1..(l.seg - 1) : ~InFile(i, l, s, Address(u, o))  BY <3>2, FileIsMapped
    <3> QED  BY <2>2, <3>1, <3>3 DEF Right
  <2> QED  BY <2>1, <2>2
<1> QED  BY <1>2 DEF Contents

\* A turn of the loop, and what the task is after it.
Turned(x, y) ==
    /\ SameCall(x, y) /\ y.va = x.va + 1 /\ y.left = x.left - 1
    /\ x.left = 1 => y.pc = x.ret
    /\ x.left # 1 => y.pc = "map" /\ y.pa = x.pa + 1

\* The pages that the task has mapped, the last one included.
LEMMA PagesDone ==
    ASSUME NEW N, NEW r, NEW i, NEW x \in Locals, Pending(N, r, i, x), x.pc = "map",
           Base(i, x) \in Nat, Count(i, x) \in Nat \ {0}, Base(i, x) + Count(i, x) < NrPages,
           NEW y, Turned(x, y), NEW v \in Page, v = x.va \/ OfTask(i, x, v)
    PROVE  /\ x.left # 1 => OfTask(i, y, v)
           /\ x.left = 1 => v \in Base(i, x)..(Base(i, x) + Count(i, x) - 1)
<1>1. /\ x.va \in Nat /\ Base(i, x) <= x.va /\ x.left \in Nat /\ x.va + x.left = Base(i, x) + Count(i, x)
  BY TurnOfLoop DEF Page
<1>2. Base(i, y) = Base(i, x) /\ y.va = x.va + 1  BY SameTarget DEF Turned
<1>3. PICK b \in Nat : b = Base(i, x)  OBVIOUS
<1>4. PICK m \in Nat : m = Count(i, x)  OBVIOUS
<1>5. PICK u \in Nat : u = x.va  BY <1>1
<1>6. v \in Nat /\ v \in b..u  BY <1>1, <1>3, <1>5 DEF OfTask, Page
<1>7. v \in b..(u + 1 - 1)  BY <1>6
<1>8. x.left # 1 => y.pc \in Mapping  BY DEF Turned, Mapping
<1>9. x.left # 1 => OfTask(i, y, v)  BY <1>2, <1>3, <1>5, <1>7, <1>8 DEF OfTask
<1>10. x.left = 1 => v \in b..(b + m - 1)  BY <1>1, <1>3, <1>4, <1>5, <1>6
<1> QED  BY <1>3, <1>4, <1>9, <1>10

LEMMA WholePart ==
    ASSUME NEW N, NEW r, NEW a \in Nat, NEW m \in Nat, NEW k \in Nat, k <= m, Whole(N, r, a, m)
    PROVE  Whole(N, r, a, k)
<1>1. 0..(k - 1) \subseteq 0..(m - 1)  OBVIOUS
<1> QED  BY <1>1 DEF Whole

LEMMA LoaderMapKeeps ==
    ASSUME ImagesFit, NEW r, NEW i, NEW l, NEW c, NEW T, NEW n, NEW p, Setting(r, i, l, c, T, n, p),
           NEW N, ProcessSound(N, r, i, l, c, T, n, p), l.pc = "map", NEW M, Extended(N, M, r, l.va, l.pa),
           NEW l2 \in Locals, Turned(l, l2)
    PROVE  ProcessSound(M, r, i, l2, c, T, n, p)
<1>1. /\ Sound(N, r) /\ LoaderSound(r, i, l) /\ CreatorSound(l, c, T, n) /\ Pending(N, r, i, l)
      /\ Given(N, r, i, l, c, T) /\ l \in Locals /\ ExecutableFits(i) /\ l.seg \in Nat
  BY DEF ProcessSound, Setting, Locals
<1>2. l.pc \in Alloc /\ l.pc \in Mapping /\ c.pc = "idle"  BY OneAtATime DEF Alloc, Mapping
<1>3. Base(i, l) \in Nat /\ Count(i, l) \in Nat \ {0} /\ Base(i, l) + Count(i, l) < NrPages
  BY <1>1, <1>2, TargetPlaces
<1>4. /\ l.va \in Page /\ ~Maps(N, r, l.va) /\ Unused(N, r, l.pa) /\ (\A o \in Offset : N[l.pa][o] = Zero)
      /\ l.left \in Nat \ {0}
  BY <1>1, <1>3, TurnOfLoop
<1>5. Grows(N, M, r) /\ Sound(M, r)  BY DEF Extended
<1>6. l2.seg = l.seg /\ l2.ret = l.ret /\ l.ret \in {"copy", "args", "copyargs"}
  BY <1>1, <1>2 DEF Turned, SameCall, LoaderSound
<1>7. l.left = 1 => Whole(M, r, Base(i, l), Count(i, l)) /\ l2.pc = l.ret  BY <1>1, <1>3, LastTurn DEF Turned
<1>8. l.left # 1 => l2.pc = "map" /\ Pending(M, r, i, l2)  BY <1>1, <1>3, NextTurn DEF Turned
<1>9. Pending(M, r, i, l2)
  <2>1. l.left = 1 => l2.pc \notin Alloc  BY <1>6, <1>7 DEF Alloc
  <2> QED  BY <2>1, <1>8 DEF Pending
<1>10. LoaderSound(r, i, l2)  BY <1>1, <1>2, <1>6, <1>7, <1>8 DEF LoaderSound, Alloc
<1>11. CreatorSound(l2, c, T, n) /\ Pending(M, r, i, c)  BY <1>1, <1>2 DEF CreatorSound, Pending, Alloc
<1>12. Given(M, r, i, l, c, T)  BY <1>1, <1>5, GivenGrows
<1>13. /\ Base(i, l) = CASE l.ret = "copy" -> FirstPage(i.entries[l.seg]) [] l.ret = "args" -> StackPage
                         [] l.ret = "copyargs" -> ArgsPage [] OTHER -> StackOf(l.h)
       /\ l.ret = "copy" => Count(i, l) = Rounded(PagesOf(i.entries[l.seg].memsz))
       /\ l.ret = "args" => Count(i, l) = StackPages
       /\ l.ret = "copyargs" => Count(i, l) = 1
  BY DEF Base, Count
<1>14. ASSUME l.ret = "copy"
       PROVE  /\ l.seg \in 1..Len(i.entries) /\ Takes(i.entries[l.seg]) /\ PagesOf(i.entries[l.seg].memsz) \in Nat
              /\ PagesOf(i.entries[l.seg].memsz) <= Rounded(PagesOf(i.entries[l.seg].memsz))
  <2>1. l.seg \in 1..Len(i.entries) /\ Takes(i.entries[l.seg])  BY <1>1, <1>2, <1>14 DEF LoaderSound, Takes
  <2> QED  BY <2>1, <1>1, EntryPlaces
<1>15. Given(M, r, i, l2, c, T)
  <2>1. ASSUME NEW s \in 1..Passed(l2), Takes(i.entries[s])
        PROVE  Whole(M, r, FirstPage(i.entries[s]), PagesOf(i.entries[s].memsz))
    <3>1. CASE s \in 1..Passed(l)  BY <2>1, <3>1, <1>12 DEF Given
    <3>2. CASE s \notin 1..Passed(l)
      <4>1. Passed(l) = l.seg - 1  BY DEF Passed
      <4>2. l2.pc = "copy" /\ s = l.seg  BY <3>2, <4>1, <1>1, <1>6 DEF Passed
      <4>3. l.left = 1 /\ l.ret = "copy"  BY <4>2, <1>7, <1>8
      <4>4. Whole(M, r, FirstPage(i.entries[s]), Rounded(PagesOf(i.entries[s].memsz)))
        BY <4>2, <4>3, <1>7, <1>13
      <4>5. FirstPage(i.entries[s]) \in Nat /\ Rounded(PagesOf(i.entries[s].memsz)) \in Nat  BY <4>2, <4>3, <1>3, <1>13
      <4> QED  BY <4>2, <4>3, <4>4, <4>5, <1>14, WholePart
    <3> QED  BY <3>1, <3>2
  <2>2. ASSUME HasStack(l2) PROVE Whole(M, r, StackPage, StackPages)
    <3>1. CASE l.ret = "copyargs"
      <4>1. HasStack(l)  BY <3>1, <1>2 DEF HasStack
      <4> QED  BY <4>1, <1>12 DEF Given
    <3>2. CASE l.ret = "args"
      <4>1. l.left = 1  BY <2>2, <3>2, <1>6, <1>8 DEF HasStack
      <4> QED  BY <3>2, <4>1, <1>7, <1>13
    <3>3. CASE l.ret = "copy"  BY <3>3, <2>2, <1>6, <1>7, <1>8 DEF HasStack
    <3> QED  BY <3>1, <3>2, <3>3, <1>6
  <2>3. ASSUME HasArgs(i, l2) PROVE Maps(M, r, ArgsPage)
    <3>1. l.left = 1 /\ l.ret = "copyargs"  BY <2>3, <1>6, <1>7, <1>8 DEF HasArgs
    <3>2. Whole(M, r, ArgsPage, 1)  BY <3>1, <1>7, <1>13
    <3>3. ArgsPage + 0 = ArgsPage /\ 0 \in 0..(1 - 1)  BY FixedPlaces
    <3> QED  BY <3>2, <3>3 DEF Whole
  <2>4. \A h \in Stacks(c, T) : Whole(M, r, StackOf(h), StackPages)  BY <1>12 DEF Given
  <2> QED  BY <2>1, <2>2, <2>3, <2>4 DEF Given
<1>16. ASSUME NEW v \in Page, Maps(M, r, v) PROVE Origin(M, r, i, l2, c, T, v)
  <2>1. CASE v = l.va \/ OfTask(i, l, v)
    <3>1. CASE l.left # 1
      <4>1. OfTask(i, l2, v)  BY <2>1, <3>1, <1>1, <1>3, PagesDone
      <4> QED  BY <4>1 DEF Origin
    <3>2. CASE l.left = 1
      <4>1. v \in Base(i, l)..(Base(i, l) + Count(i, l) - 1)  BY <2>1, <3>2, <1>1, <1>3, PagesDone
      <4>2. CASE l.ret = "copy"
        <5>1. OfEntry(M, r, i.entries[l.seg], v)  BY <4>1, <4>2, <3>2, <1>7, <1>13, <1>14 DEF OfEntry, Region
        <5>2. l.seg \in 1..Passed(l2)  BY <4>2, <3>2, <1>6, <1>7, <1>14 DEF Passed
        <5> QED  BY <5>1, <5>2 DEF Origin
      <4>3. CASE l.ret = "args"
        <5>1. HasStack(l2)  BY <4>3, <3>2, <1>7 DEF HasStack
        <5> QED  BY <4>1, <4>3, <5>1, <1>13 DEF Origin
      <4>4. CASE l.ret = "copyargs"
        <5>1. HasArgs(i, l2)  BY <4>4, <3>2, <1>1, <1>2, <1>7 DEF HasArgs, LoaderSound
        <5>2. v = ArgsPage  BY <4>1, <4>4, <1>13, FixedPlaces
        <5> QED  BY <5>1, <5>2 DEF Origin
      <4> QED  BY <4>2, <4>3, <4>4, <1>6
    <3> QED  BY <3>1, <3>2
  <2>2. CASE v # l.va /\ ~OfTask(i, l, v)
    <3>1. Maps(N, r, v)  BY <1>16, <2>2 DEF Extended
    <3>2. Origin(N, r, i, l, c, T, v)  BY <3>1 DEF ProcessSound
    <3>3. Origin(M, r, i, l, c, T, v)  BY <3>2, <1>1, <1>5, OriginGrows
    <3>4. 1..Passed(l) \subseteq 1..Passed(l2)  BY <1>1, <1>6 DEF Passed
    <3>5. HasStack(l) => HasStack(l2)  BY <1>2, <1>6, <1>7, <1>8 DEF HasStack, Alloc
    <3>6. ~HasArgs(i, l)  BY DEF HasArgs
    <3> QED  BY <2>2, <3>3, <3>4, <3>5, <3>6 DEF Origin
  <2> QED  BY <2>1, <2>2
<1>17. Contents(M, r, i, l2, p)
  <2>1. \A v, o : ~InArgs(i, l, v, o) /\ ~InArgs(i, l2, v, o)  BY <1>6, <1>7, <1>8 DEF InArgs
  <2>2. Contents(M, r, i, l, p)  BY <2>1, <1>4, ContentsExtended
  <2>3. \A s, k : InFile(i, l2, s, k) <=> InFile(i, l, s, k)  BY <1>6 DEF InFile
  <2>4. \A v, o, m : Right(i, l, p, v, o, m) => Right(i, l2, p, v, o, m)  BY <2>1, <2>3, <1>6 DEF Right
  <2> QED  BY <2>2, <2>4 DEF Contents
<1> QED  BY <1>5, <1>9, <1>10, <1>11, <1>15, <1>16, <1>17 DEF ProcessSound

LEMMA CreatorMapKeeps ==
    ASSUME ImagesFit, NEW r, NEW i, NEW l, NEW c, NEW T, NEW n, NEW p, Setting(r, i, l, c, T, n, p),
           NEW N, ProcessSound(N, r, i, l, c, T, n, p), c.pc = "map", NEW M, Extended(N, M, r, c.va, c.pa),
           NEW c2 \in Locals, Turned(c, c2)
    PROVE  ProcessSound(M, r, i, l, c2, T, n, p)
<1>1. /\ Sound(N, r) /\ LoaderSound(r, i, l) /\ CreatorSound(l, c, T, n) /\ Pending(N, r, i, c)
      /\ Given(N, r, i, l, c, T) /\ c \in Locals
  BY DEF ProcessSound, Setting
<1>2. c.pc \in Alloc /\ c.pc \in Mapping /\ l.pc = "running"  BY OneAtATime DEF Alloc, Mapping
<1>3. Base(i, c) \in Nat /\ Count(i, c) \in Nat \ {0} /\ Base(i, c) + Count(i, c) < NrPages
  BY <1>1, <1>2, TargetPlaces
<1>4. /\ c.va \in Page /\ ~Maps(N, r, c.va) /\ Unused(N, r, c.pa) /\ (\A o \in Offset : N[c.pa][o] = Zero)
      /\ c.left \in Nat \ {0} /\ Base(i, c) <= c.va
  BY <1>1, <1>3, TurnOfLoop
<1>5. Grows(N, M, r) /\ Sound(M, r)  BY DEF Extended
<1>6. c2.h = c.h /\ c2.ret = c.ret /\ c.ret = "started" /\ c.h \in 1..(n - 1) /\ c.h \notin T
  BY <1>1, <1>2 DEF Turned, SameCall, CreatorSound
<1>7. c.left = 1 => Whole(M, r, Base(i, c), Count(i, c)) /\ c2.pc = "started"  BY <1>1, <1>3, <1>6, LastTurn DEF Turned
<1>8. c.left # 1 => c2.pc = "map" /\ Pending(M, r, i, c2)  BY <1>1, <1>3, NextTurn DEF Turned
<1>9. Pending(M, r, i, c2)
  <2>1. c.left = 1 => c2.pc \notin Alloc  BY <1>7 DEF Alloc
  <2> QED  BY <2>1, <1>8 DEF Pending
<1>10. CreatorSound(l, c2, T, n)  BY <1>1, <1>2, <1>6, <1>7, <1>8 DEF CreatorSound, Alloc
<1>11. Pending(M, r, i, l)  BY <1>2 DEF Pending, Alloc
<1>12. Given(M, r, i, l, c, T)  BY <1>1, <1>5, GivenGrows
<1>13. Base(i, c) = StackOf(c.h) /\ Count(i, c) = StackPages  BY <1>6 DEF Base, Count
<1>14. Stacks(c, T) = T /\ T \subseteq Stacks(c2, T)  BY DEF Stacks
<1>15. Given(M, r, i, l, c2, T)
  <2>1. ASSUME NEW h \in Stacks(c2, T) PROVE Whole(M, r, StackOf(h), StackPages)
    <3>1. CASE h \in T  BY <3>1, <1>12, <1>14 DEF Given
    <3>2. CASE h \notin T
      <4>1. c2.pc = "started" /\ h = c.h  BY <3>2, <1>6 DEF Stacks
      <4> QED  BY <4>1, <1>7, <1>8, <1>13
    <3> QED  BY <3>1, <3>2
  <2> QED  BY <2>1, <1>12 DEF Given
<1>16. ASSUME NEW v \in Page, Maps(M, r, v) PROVE Origin(M, r, i, l, c2, T, v)
  <2>1. CASE v = c.va \/ OfTask(i, c, v)
    <3>1. CASE c.left # 1
      <4>1. OfTask(i, c2, v)  BY <2>1, <3>1, <1>1, <1>3, PagesDone
      <4> QED  BY <4>1 DEF Origin
    <3>2. CASE c.left = 1
      <4>1. v \in Base(i, c)..(Base(i, c) + Count(i, c) - 1)  BY <2>1, <3>2, <1>1, <1>3, PagesDone
      <4>2. c.h \in Stacks(c2, T)  BY <3>2, <1>6, <1>7 DEF Stacks
      <4> QED  BY <4>1, <4>2, <1>13 DEF Origin
    <3> QED  BY <3>1, <3>2
  <2>2. CASE v # c.va /\ ~OfTask(i, c, v)
    <3>1. Maps(N, r, v)  BY <1>16, <2>2 DEF Extended
    <3>2. Origin(N, r, i, l, c, T, v)  BY <3>1 DEF ProcessSound
    <3>3. Origin(M, r, i, l, c, T, v)  BY <3>2, <1>1, <1>5, OriginGrows
    <3> QED  BY <2>2, <3>3, <1>14 DEF Origin
  <2> QED  BY <2>1, <2>2
<1>17. Contents(M, r, i, l, p)
  <2>1. c.va # ArgsPage
    <3>1. MaxHandle \in Nat /\ n \in 1..(MaxHandle + 1)  BY ImageAssumption DEF Setting
    <3>2. c.h \in 1..MaxHandle  BY <3>1, <1>6
    <3>3. StackOf(c.h) \in Nat /\ ThreadStacks + 2 <= StackOf(c.h)  BY <3>2, StackPlaces
    <3> QED  BY <3>3, <1>4, <1>13, FixedPlaces DEF Page
  <2>2. \A o \in Offset : ~InArgs(i, l, c.va, o)  BY <2>1 DEF InArgs
  <2> QED  BY <2>2, <1>4, ContentsExtended
<1> QED  BY <1>1, <1>5, <1>9, <1>10, <1>11, <1>15, <1>16, <1>17 DEF ProcessSound

----------------------------------------------------------------------------
(* The entries of the executable. *)

LEMMA EntriesTyped ==
    ASSUME NEW i, ExecutableFits(i)
    PROVE  /\ i.entries \in Seq([load : BOOLEAN, vaddr : Nat, filesz : Nat, memsz : Nat])
           /\ Len(i.entries) \in Nat /\ DOMAIN i.entries = 1..Len(i.entries)
<1>1. i.entries \in Seq([load : BOOLEAN, vaddr : Nat, filesz : Nat, memsz : Nat])  BY DEF ExecutableFits, Executables
<1> QED  BY <1>1

LEMMA EntryTyped ==
    ASSUME NEW i, ExecutableFits(i), NEW s \in 1..Len(i.entries)
    PROVE  /\ i.entries[s] \in [load : BOOLEAN, vaddr : Nat, filesz : Nat, memsz : Nat]
           /\ i.entries[s].load => EntryFits(i.entries[s])
<1>1. i.entries \in Seq([load : BOOLEAN, vaddr : Nat, filesz : Nat, memsz : Nat]) /\ s \in DOMAIN i.entries
  BY DEF ExecutableFits, Executables
<1>2. i.entries[s] \in [load : BOOLEAN, vaddr : Nat, filesz : Nat, memsz : Nat]  BY <1>1, ElementIn
<1>3. i.entries[s].load => EntryFits(i.entries[s])  BY <1>1 DEF ExecutableFits
<1> QED  BY <1>2, <1>3

LEMMA AgreeAt ==
    ASSUME NEW i, ExecutableFits(i), NEW s \in 1..Len(i.entries), NEW j \in 1..Len(i.entries), j < s,
           Takes(i.entries[s]), Takes(i.entries[j])
    PROVE  EntriesAgree(i.entries[j], i.entries[s])
<1>1. i.entries \in Seq([load : BOOLEAN, vaddr : Nat, filesz : Nat, memsz : Nat])  BY DEF ExecutableFits, Executables
<1>2. DOMAIN i.entries = 1..Len(i.entries)  BY <1>1
<1> QED  BY <1>2 DEF ExecutableFits

\* A page of an entry that is mapped already belongs to an earlier one, whose pages hold all of this one.
LEMMA MappedBefore ==
    ASSUME ImagesFit, NEW r, NEW i, NEW l, NEW c, NEW T, NEW n, NEW p, Setting(r, i, l, c, T, n, p),
           NEW N, ProcessSound(N, r, i, l, c, T, n, p), l.pc = "entry", l.seg \in 1..Len(i.entries),
           Takes(i.entries[l.seg]), NEW v \in Page, v \in Region(i.entries[l.seg]), Maps(N, r, v)
    PROVE  LET e == i.entries[l.seg] IN Whole(N, r, FirstPage(e), PagesOf(e.memsz)) /\ Maps(N, r, FirstPage(e))
<1> DEFINE e == i.entries[l.seg]
<1>1. ExecutableFits(i) /\ LoaderSound(r, i, l) /\ l.pc \notin Mapping /\ c.pc \notin Mapping
  BY OneAtATime DEF Setting, ProcessSound, Mapping
<1>2. /\ FirstPage(e) \in Nat /\ PagesOf(e.memsz) \in Nat \ {0} /\ v < ThreadStacks + StackPages /\ v # ArgsPage
      /\ v \notin StackPage..(StackPage + StackPages - 1)
  BY <1>1, EntryPlaces
<1>3. ~HasStack(l) /\ v # ArgsPage /\ v < ThreadStacks + 2  BY <1>2, FixedPlaces DEF HasStack, Alloc
<1>4. ~(v >= ThreadStacks + 2)  BY <1>3, FixedPlaces DEF Page
<1>5. PICK j \in 1..Passed(l) : /\ Takes(i.entries[j]) /\ v \in Region(i.entries[j])
                                /\ Whole(N, r, FirstPage(i.entries[j]), Rounded(PagesOf(i.entries[j].memsz)))
  BY <1>1, <1>3, <1>4, Origins
<1>6. j \in 1..Len(i.entries) /\ j < l.seg
  <2>1. j \in 1..Len(i.entries)  BY <1>1, PassedPlaces
  <2>2. Passed(l) = l.seg - 1  BY DEF Passed
  <2> QED  BY <2>1, <2>2
<1>7. Extent(e) \subseteq Region(i.entries[j])
  <2>1. EntriesAgree(i.entries[j], e)  BY <1>1, <1>5, <1>6, AgreeAt
  <2>2. v \in Region(i.entries[j]) \cap Region(e)  BY <1>5
  <2> QED  BY <2>1, <2>2 DEF EntriesAgree
<1>8. PICK a \in Nat : a = FirstPage(e)  BY <1>2
<1>9. PICK m \in Nat \ {0} : m = PagesOf(e.memsz)  BY <1>2
<1>10. PICK b \in Nat : b = FirstPage(i.entries[j])  BY <1>1, <1>5, <1>6, EntryPlaces
<1>11. PICK q \in Nat : q = Rounded(PagesOf(i.entries[j].memsz))  BY <1>1, <1>5, <1>6, EntryPlaces
<1>12. a..(a + m - 1) \subseteq b..(b + q - 1)  BY <1>7, <1>8, <1>9, <1>10, <1>11 DEF Extent, Region
<1>13. \A k \in 0..(q - 1) : Maps(N, r, b + k) /\ FrameAt(N, r, b + k) = FrameAt(N, r, b) + k
  BY <1>5, <1>10, <1>11 DEF Whole
<1>14. FrameAt(N, r, b) \in Int
  <2>1. 0 \in 0..(q - 1) /\ b + 0 = b
    <3>1. a \in a..(a + m - 1)  OBVIOUS
    <3>2. a \in b..(b + q - 1)  BY <3>1, <1>12
    <3> QED  BY <3>2
  <2>2. Maps(N, r, b)  BY <2>1, <1>13
  <2>3. b \in Page
    <3>1. b + q < NrPages /\ NrPages \in Nat  BY <1>1, <1>5, <1>6, <1>10, <1>11, EntryPlaces, ImageAssumption
    <3> QED  BY <3>1 DEF Page
  <2>4. FrameAt(N, r, b) \in Frame  BY <2>2, <2>3 DEF ProcessSound, Sound
  <2> QED  BY <2>4 DEF Frame
<1>15. ASSUME NEW k \in 0..(m - 1) PROVE Maps(N, r, a + k) /\ FrameAt(N, r, a + k) = FrameAt(N, r, b) + (a + k - b)
  <2>1. a + k \in a..(a + m - 1)  OBVIOUS
  <2>2. a + k - b \in 0..(q - 1) /\ b + (a + k - b) = a + k
    <3>1. a + k \in b..(b + q - 1)  BY <2>1, <1>12
    <3> QED  BY <3>1
  <2> QED  BY <2>2, <1>13
<1>16. 0 \in 0..(m - 1) /\ a + 0 = a  OBVIOUS
<1>17. Maps(N, r, a) /\ FrameAt(N, r, a) = FrameAt(N, r, b) + (a - b)  BY <1>15, <1>16
<1>18. \A k \in 0..(m - 1) : Maps(N, r, a + k) /\ FrameAt(N, r, a + k) = FrameAt(N, r, a) + k
  BY <1>14, <1>15, <1>17
<1>19. Whole(N, r, a, m)  BY <1>18 DEF Whole
<1> QED  BY <1>8, <1>9, <1>17, <1>19

\* The loader passes an entry whose pages are mapped, or that has none.
LEMMA PassKeeps ==
    ASSUME NEW r, NEW i, NEW l, NEW c, NEW T, NEW n, NEW p, Setting(r, i, l, c, T, n, p),
           NEW N, ProcessSound(N, r, i, l, c, T, n, p), l.pc = "entry", l.seg \in 1..Len(i.entries),
           Takes(i.entries[l.seg]) => Whole(N, r, FirstPage(i.entries[l.seg]), PagesOf(i.entries[l.seg].memsz)),
           NEW l2 \in Locals,
           \/ l2.pc = "copy" /\ l2.seg = l.seg /\ i.entries[l.seg].load
           \/ l2.pc = "entry" /\ l2.seg = l.seg + 1 /\ ~i.entries[l.seg].load
    PROVE  ProcessSound(N, r, i, l2, c, T, n, p)
<1>1. /\ Sound(N, r) /\ LoaderSound(r, i, l) /\ CreatorSound(l, c, T, n) /\ Given(N, r, i, l, c, T)
      /\ Contents(N, r, i, l, p) /\ Pending(N, r, i, c)
  BY DEF ProcessSound
<1>2. l.seg \in Nat /\ Len(i.entries) \in Nat  BY DEF Setting, Locals, ExecutableFits, Executables
<1>3. LoaderSound(r, i, l2)
  <2>1. l2.seg <= Len(i.entries) + 1 /\ l2.seg > 0  BY <1>2
  <2> QED  BY <2>1, <1>1 DEF LoaderSound, Alloc
<1>4. c.pc = "idle" /\ Pending(N, r, i, l2)  BY OneAtATime DEF Alloc
<1>5. CreatorSound(l2, c, T, n)  BY <1>1, <1>4 DEF CreatorSound, Alloc
<1>6. Passed(l) = l.seg - 1 /\ Passed(l2) = l.seg  BY <1>2 DEF Passed
<1>7. ~HasStack(l2) /\ ~HasArgs(i, l2) /\ ~HasStack(l) /\ ~HasArgs(i, l)  BY DEF HasStack, HasArgs, Alloc
<1>8. Given(N, r, i, l2, c, T)
  <2>1. \A s \in 1..Passed(l2) : s \in 1..Passed(l) \/ s = l.seg  BY <1>2, <1>6
  <2> QED  BY <2>1, <1>1, <1>7 DEF Given
<1>9. ASSUME NEW v \in Page, Maps(N, r, v) PROVE Origin(N, r, i, l2, c, T, v)
  <2>1. Origin(N, r, i, l, c, T, v)  BY <1>9 DEF ProcessSound
  <2>2. 1..Passed(l) \subseteq 1..Passed(l2)  BY <1>2, <1>6
  <2>3. ~OfTask(i, l, v)  BY DEF OfTask, Mapping
  <2> QED  BY <2>1, <2>2, <2>3, <1>7 DEF Origin
<1>10. Contents(N, r, i, l2, p)
  <2>1. \A s \in 1..(l2.seg - 1) : s \in 1..(l.seg - 1) \/ (s = l.seg /\ ~i.entries[s].load)  BY <1>2
  <2>2. \A s, k : InFile(i, l2, s, k) <=> InFile(i, l, s, k)
    <3>1. 1..(l.seg - 1) \subseteq 1..(l2.seg - 1)  BY <1>2
    <3> QED  BY <2>1, <3>1 DEF InFile
  <2>3. \A v, o : ~InArgs(i, l, v, o) /\ ~InArgs(i, l2, v, o)  BY DEF InArgs
  <2>4. ASSUME NEW v, NEW o, NEW m, Right(i, l, p, v, o, m) PROVE Right(i, l2, p, v, o, m)
    <3>1. \A s, k : InFile(i, l2, s, k) => s \in 1..(l.seg - 1)  BY <2>2 DEF InFile
    <3>2. \A s \in 1..(l2.seg - 1) : InFile(i, l2, s, Address(v, o)) => m = Data(p, s, Address(v, o) - i.entries[s].vaddr)
      BY <2>2, <2>4, <3>1 DEF Right
    <3>3. 1..(l.seg - 1) \subseteq 1..(l2.seg - 1)  BY <1>2
    <3> QED  BY <3>2, <3>3, <2>2, <2>3, <2>4 DEF Right
  <2> QED  BY <2>4, <1>1 DEF Contents
<1> QED  BY <1>1, <1>3, <1>4, <1>5, <1>8, <1>9, <1>10 DEF ProcessSound

LEMMA LoadKeeps ==
    ASSUME ImagesFit, NEW r, NEW i, NEW l, NEW c, NEW T, NEW n, NEW p, Setting(r, i, l, c, T, n, p),
           NEW N, ProcessSound(N, r, i, l, c, T, n, p), l.pc = "entry", l.seg \in 1..Len(i.entries),
           i.entries[l.seg].load, NEW l2 \in Locals, l2.seg = l.seg,
           LET e == i.entries[l.seg]
           IN  \/ Maps(N, r, FirstPage(e)) /\ l2.pc = "copy"
               \/ PagesOf(e.memsz) = 0 /\ l2.pc = "copy"
               \/ /\ ~Maps(N, r, FirstPage(e)) /\ PagesOf(e.memsz) # 0
                  /\ l2.pc = "phys" /\ l2.va = FirstPage(e) /\ l2.left = PagesOf(e.memsz) /\ l2.ret = "copy"
    PROVE  ProcessSound(N, r, i, l2, c, T, n, p)
<1> DEFINE e == i.entries[l.seg]
<1>1. ExecutableFits(i) /\ LoaderSound(r, i, l) /\ l \in Locals /\ i.args \in Nat
  BY DEF Setting, ProcessSound, ExecutableFits, Executables
<1>2. e.memsz \in Nat /\ FirstPage(e) \in Page
  <2>1. e \in [load : BOOLEAN, vaddr : Nat, filesz : Nat, memsz : Nat] /\ EntryFits(e)  BY <1>1, EntryTyped
  <2> QED  BY <2>1 DEF EntryFits
<1>3. Takes(e) => /\ FirstPage(e) \in Nat /\ PagesOf(e.memsz) \in Nat \ {0} /\ Rounded(PagesOf(e.memsz)) \in Nat \ {0}
                  /\ FirstPage(e) + Rounded(PagesOf(e.memsz)) < NrPages /\ FirstPage(e) \in Region(e)
  <2> SUFFICES ASSUME Takes(e) PROVE /\ FirstPage(e) \in Nat /\ PagesOf(e.memsz) \in Nat \ {0} /\ Rounded(PagesOf(e.memsz)) \in Nat \ {0}
                  /\ FirstPage(e) + Rounded(PagesOf(e.memsz)) < NrPages /\ FirstPage(e) \in Region(e)
    OBVIOUS
  <2>1. /\ FirstPage(e) \in Nat /\ PagesOf(e.memsz) \in Nat \ {0} /\ Rounded(PagesOf(e.memsz)) \in Nat
        /\ PagesOf(e.memsz) <= Rounded(PagesOf(e.memsz)) /\ FirstPage(e) + Rounded(PagesOf(e.memsz)) < NrPages
    BY <1>1, EntryPlaces
  <2> QED  BY <2>1 DEF Region
<1>7. Takes(e) <=> PagesOf(e.memsz) # 0
  <2>1. PICK m \in Nat : m = e.memsz  BY <1>2
  <2>2. m > 0 <=> PagesOf(m) # 0
    <3>1. PagesOf(m) \in Nat /\ (m > 0 => PagesOf(m) > 0) /\ (m = 0 => PagesOf(m) = 0)  BY PagesSuffice
    <3> QED  BY ONLY <3>1, m \in Nat
  <2> QED  BY <2>1, <2>2 DEF Takes
<1>4. CASE Maps(N, r, FirstPage(e)) /\ l2.pc = "copy"
  <2>1. Takes(e) => Whole(N, r, FirstPage(e), PagesOf(e.memsz))  BY <1>2, <1>3, <1>4, MappedBefore
  <2> QED  BY <1>4, <2>1, PassKeeps
<1>5. CASE PagesOf(e.memsz) = 0 /\ l2.pc = "copy"
  <2>1. ~Takes(e)  BY <1>5, <1>7
  <2> QED  BY <1>5, <2>1, PassKeeps
<1>6. CASE /\ ~Maps(N, r, FirstPage(e)) /\ PagesOf(e.memsz) # 0
           /\ l2.pc = "phys" /\ l2.va = FirstPage(e) /\ l2.left = PagesOf(e.memsz) /\ l2.ret = "copy"
  <2>1. Takes(e)  BY <1>6, <1>7
  <2>2. LoaderSound(r, i, l2)  BY <1>1, <1>6, <2>1 DEF LoaderSound, Alloc, Takes
  <2>3. c.pc = "idle"  BY OneAtATime
  <2>4. Passed(l2) = Passed(l) /\ HasStack(l2) = HasStack(l) /\ HasArgs(i, l2) = HasArgs(i, l) /\ l.pc \notin Mapping
    BY <1>6 DEF Passed, HasStack, HasArgs, Alloc, Mapping
  <2>5. Base(i, l2) = FirstPage(e) /\ Count(i, l2) = Rounded(PagesOf(e.memsz))  BY <1>6 DEF Base, Count
  <2>6. ASSUME NEW k \in 0..(Rounded(PagesOf(e.memsz)) - 1) PROVE ~Maps(N, r, FirstPage(e) + k)
    <3>1. FirstPage(e) + k \in Page /\ FirstPage(e) + k \in Region(e)
      <4>1. NrPages \in Nat  BY ImageAssumption
      <4>2. FirstPage(e) + k \in FirstPage(e)..(FirstPage(e) + Rounded(PagesOf(e.memsz)) - 1)  BY <1>3, <2>1
      <4>3. FirstPage(e) + k \in Page  BY <4>1, <1>3, <2>1 DEF Page
      <4> QED  BY <4>2, <4>3 DEF Region
    <3> QED  BY <3>1, <2>1, <1>6, MappedBefore
  <2>7. Pending(N, r, i, l2)
    <3>1. l2.left > 0  BY <1>3, <1>6, <2>1
    <3> QED  BY <1>6, <3>1, <2>5, <2>6 DEF Pending, Mapping
  <2> QED  BY <1>1, <1>6, <2>2, <2>3, <2>4, <2>7, LoaderMoves
<1> QED  BY <1>4, <1>5, <1>6

----------------------------------------------------------------------------
(* copy_to: m cells from frame F on, which come from entry s or from the command line. *)

LEMMA PageBetween ==
    ASSUME NEW v \in Nat, NEW a \in Nat, NEW q \in Nat, NEW o \in Offset, NEW m \in Nat, m <= q * PageSize,
           NEW b, b = a * PageSize, Address(v, o) - b \in 0..(m - 1)
    PROVE  v - a \in 0..(q - 1)
<1>1. v * PageSize \in Nat /\ a * PageSize \in Nat /\ q * PageSize \in Nat  BY Cells
<1>2. o < PageSize /\ o >= 0 /\ o \in Int /\ PageSize \in Nat /\ PageSize > 0  BY Offsets DEF Offset
<1>3. v * PageSize + o >= a * PageSize /\ v * PageSize + o < a * PageSize + q * PageSize
  <2>1. PICK z \in Int : z = Address(v, o)  BY <1>1, <1>2 DEF Address
  <2>2. b \in Nat /\ z - b \in 0..(m - 1)  BY <1>1, <2>1
  <2>3. z >= b /\ z < b + m  BY <2>2
  <2>4. z >= b /\ z < b + q * PageSize  BY <2>2, <2>3, <1>1
  <2> QED  BY <2>1, <2>4 DEF Address
<1>4. ~(v < a)
  <2>1. v < a => v + 1 <= a  OBVIOUS
  <2>2. v + 1 <= a => (v + 1) * PageSize <= a * PageSize  BY <1>2
  <2>3. (v + 1) * PageSize = v * PageSize + PageSize  BY <1>2
  <2> QED  BY <2>1, <2>2, <2>3, <1>1, <1>2, <1>3
<1>5. v < a + q
  <2>1. a + q <= v => (a + q) * PageSize <= v * PageSize  BY <1>2
  <2>2. (a + q) * PageSize = a * PageSize + q * PageSize  BY <1>2
  <2> QED  BY <2>1, <2>2, <1>1, <1>2, <1>3
<1> QED  BY <1>4, <1>5

Copied(N, M, F, m, p, s) ==
    /\ DOMAIN M = DOMAIN N
    /\ \A g \in DOMAIN N : \A o \in Offset :
          /\ Address(g, o) - F * PageSize \in 0..(m - 1) => M[g][o] = Data(p, s, Address(g, o) - F * PageSize)
          /\ Address(g, o) - F * PageSize \notin 0..(m - 1) => M[g][o] = N[g][o]

LEMMA CopyView ==
    ASSUME NEW N, NEW M, NEW r, Sound(N, r), Typed(M), NEW a \in Nat, NEW q \in Nat \ {0}, a + q <= NrPages,
           Whole(N, r, a, q), NEW m \in Nat, m <= q * PageSize, NEW p, NEW s, Copied(N, M, FrameAt(N, r, a), m, p, s),
           NEW b, b = a * PageSize
    PROVE  /\ SameTables(N, M, r) /\ SamePages(N, M, r) /\ Grows(N, M, r) /\ Sound(M, r)
           /\ \A v \in Page : \A o \in Offset : Maps(N, r, v) =>
                 /\ Address(v, o) - b \in 0..(m - 1) => M[FrameAt(N, r, v)][o] = Data(p, s, Address(v, o) - b)
                 /\ Address(v, o) - b \notin 0..(m - 1) => M[FrameAt(N, r, v)][o] = N[FrameAt(N, r, v)][o]
<1>1. PICK F : F = FrameAt(N, r, a)  OBVIOUS
<1>2. \A k \in 0..(q - 1) : a + k \in Page /\ Maps(N, r, a + k) /\ FrameAt(N, r, a + k) = F + k
  BY <1>1, ImageAssumption DEF Whole, Page
<1>3. \A v \in Page : Maps(N, r, v) => FrameAt(N, r, v) \in DOMAIN N \ {r}  BY DEF Sound
<1>4. F \in Nat
  <2>1. 0 \in 0..(q - 1) /\ a + 0 = a  OBVIOUS
  <2>2. F \in DOMAIN N  BY <2>1, <1>1, <1>2, <1>3
  <2> QED  BY <2>2 DEF Sound, Frame
<1>5. \A g \in DOMAIN N : g \in Nat /\ N[g] \in [Offset -> Cell] /\ M[g] \in [Offset -> Cell]
  BY DEF Sound, Typed, Copied, Frame
<1>6. ASSUME NEW g \in DOMAIN N, \A k \in 0..(q - 1) : g # F + k PROVE M[g] = N[g]
  <2>1. ASSUME NEW o \in Offset PROVE Address(g, o) - F * PageSize \notin 0..(m - 1)
    <3>1. SUFFICES ASSUME Address(g, o) - F * PageSize \in 0..(m - 1) PROVE FALSE  OBVIOUS
    <3>2. g - F \in 0..(q - 1)  BY <3>1, <1>4, <1>5, PageBetween
    <3>3. g = F + (g - F)  BY <1>4, <1>5
    <3> QED  BY <3>2, <3>3, <1>6
  <2>2. \A o \in Offset : M[g][o] = N[g][o]  BY <2>1, <1>1 DEF Copied
  <2> QED  BY <2>2, <1>5
<1>7. r # None => M[r] = N[r]
  <2>1. r # None => r \in DOMAIN N  BY DEF Sound
  <2>2. \A k \in 0..(q - 1) : r # F + k  BY <1>2, <1>3
  <2> QED  BY <2>1, <2>2, <1>6
<1>8. ASSUME NEW i \in Offset, HasTable(N, r, i) PROVE M[TableOf(N, r, i)] = N[TableOf(N, r, i)]
  <2>1. TableOf(N, r, i) \in DOMAIN N  BY <1>8 DEF Sound
  <2>2. \A k \in 0..(q - 1) : TableOf(N, r, i) # F + k  BY <1>2, <1>8 DEF Sound
  <2> QED  BY <2>1, <2>2, <1>6
<1>9. DOMAIN N \subseteq DOMAIN M  BY DEF Copied
<1>10. SameTables(N, M, r) /\ SamePages(N, M, r) /\ Grows(N, M, r) /\ Sound(M, r)  BY <1>7, <1>8, <1>9, ViewKept
<1>11. ASSUME NEW v \in Page, NEW o \in Offset, Maps(N, r, v)
       PROVE  /\ Address(v, o) - b \in 0..(m - 1) => M[FrameAt(N, r, v)][o] = Data(p, s, Address(v, o) - b)
              /\ Address(v, o) - b \notin 0..(m - 1) => M[FrameAt(N, r, v)][o] = N[FrameAt(N, r, v)][o]
  <2>1. v \in Nat  BY DEF Page
  <2>2. PICK g \in DOMAIN N : g = FrameAt(N, r, v)  BY <1>3, <1>11
  <2>3. CASE v - a \in 0..(q - 1)
    <3>1. PICK k \in 0..(q - 1) : k = v - a  BY <2>3
    <3>2. v = a + k /\ g = F + k  BY <2>1, <2>2, <3>1, <1>2
    <3>3. Address(g, o) - F * PageSize = Address(v, o) - b
      <4>1. PageSize \in Int /\ o \in Int /\ k \in Int  BY Offsets DEF Offset
      <4>2. (F + k) * PageSize = F * PageSize + k * PageSize /\ (a + k) * PageSize = a * PageSize + k * PageSize
        BY <4>1, <1>4
      <4>3. F * PageSize \in Int /\ k * PageSize \in Int /\ a * PageSize \in Int  BY <4>1, <1>4
      <4> QED  BY <3>2, <4>1, <4>2, <4>3 DEF Address
    <3> QED  BY <3>3, <2>2, <1>1 DEF Copied
  <2>4. CASE v - a \notin 0..(q - 1)
    <3>1. Address(v, o) - b \notin 0..(m - 1)  BY <2>1, <2>4, PageBetween
    <3>2. ASSUME NEW k \in 0..(q - 1) PROVE g # F + k
      <4>1. v # a + k  BY <2>1, <2>4
      <4> QED  BY <4>1, <2>2, <1>2, <1>11 DEF Sound
    <3>3. M[g] = N[g]  BY <3>2, <1>6
    <3> QED  BY <3>1, <3>3, <2>2
  <2> QED  BY <2>3, <2>4
<1> QED  BY <1>10, <1>11

\* With the cells of an entry in place, the contents are right for the next one.
LEMMA CopyRight ==
    ASSUME NEW i, ExecutableFits(i), NEW l, l.seg \in 1..Len(i.entries), l.pc = "copy", i.entries[l.seg].load,
           NEW l2, l2.pc = "entry", l2.seg = l.seg + 1, NEW p, NEW v \in Nat, NEW o \in Offset, NEW old, NEW new,
           Right(i, l, p, v, o, old),
           LET e == i.entries[l.seg]
           IN  /\ Address(v, o) - e.vaddr \in 0..(e.filesz - 1) => new = Data(p, l.seg, Address(v, o) - e.vaddr)
               /\ Address(v, o) - e.vaddr \notin 0..(e.filesz - 1) => new = old
    PROVE  Right(i, l2, p, v, o, new)
<1>1. PICK k \in Nat : k = Address(v, o)  BY CellInPage DEF Address
<1>2. PICK e \in [load : BOOLEAN, vaddr : Nat, filesz : Nat, memsz : Nat] : e = i.entries[l.seg]  BY EntryTyped
<1>3. EntryFits(e)  BY <1>2, EntryTyped
<1>4. l.seg \in Nat /\ Len(i.entries) \in Nat
  <2>1. Len(i.entries) \in Nat  BY EntriesTyped
  <2>2. l.seg \in 1..Len(i.entries)  OBVIOUS
  <2> QED  BY ONLY <2>1, <2>2, SMT
<1>5. ~InArgs(i, l, v, o) /\ ~InArgs(i, l2, v, o)  BY DEF InArgs
<1>6. \A s : s \in 1..(l2.seg - 1) <=> s \in 1..(l.seg - 1) \/ s = l.seg
  <2>1. PICK x, y : x = l.seg /\ y = l2.seg  OBVIOUS
  <2>2. x \in 1..Len(i.entries) /\ Len(i.entries) \in Nat /\ y = x + 1  BY <1>4, <2>1
  <2>3. \A s : s \in 1..(y - 1) <=> s \in 1..(x - 1) \/ s = x  BY ONLY <2>2, SMT
  <2> QED  BY <2>1, <2>3
<1>7. \A s \in 1..(l.seg - 1) : InFile(i, l2, s, k) <=> InFile(i, l, s, k)  BY <1>6 DEF InFile
<1>8. InFile(i, l2, l.seg, k) <=> k - e.vaddr \in 0..(e.filesz - 1)
  <2>1. InFile(i, l2, l.seg, k) <=> k \in e.vaddr..(e.vaddr + e.filesz - 1)  BY <1>2, <1>6 DEF InFile
  <2>2. PICK b \in Nat : b = e.vaddr  OBVIOUS
  <2>3. PICK z \in Nat : z = e.filesz  OBVIOUS
  <2>4. k \in b..(b + z - 1) <=> k - b \in 0..(z - 1)  OBVIOUS
  <2> QED  BY <2>1, <2>2, <2>3, <2>4
<1>9. CASE k - e.vaddr \in 0..(e.filesz - 1)
  <2>1. new = Data(p, l.seg, k - e.vaddr)  BY <1>1, <1>2, <1>9
  <2>2. ASSUME NEW s \in 1..(l.seg - 1) PROVE ~InFile(i, l2, s, k)
    <3>1. SUFFICES ASSUME InFile(i, l2, s, k) PROVE FALSE  OBVIOUS
    <3>2. s \in 1..Len(i.entries) /\ s < l.seg  BY <1>4
    <3>3. PICK d \in [load : BOOLEAN, vaddr : Nat, filesz : Nat, memsz : Nat] : d = i.entries[s]  BY <3>2, EntryTyped
    <3>4. d.load /\ k \in d.vaddr..(d.vaddr + d.filesz - 1)  BY <3>1, <3>3 DEF InFile
    <3>5. d.filesz <= d.memsz  BY <3>2, <3>3, <3>4, EntryTyped DEF EntryFits
    <3>6. e.filesz <= e.memsz  BY <1>3 DEF EntryFits
    <3>10. /\ d.vaddr \in Nat /\ d.filesz \in Nat /\ d.memsz \in Nat
           /\ e.vaddr \in Nat /\ e.filesz \in Nat /\ e.memsz \in Nat /\ k \in Nat
      OBVIOUS
    <3>14. d.memsz > 0 /\ e.memsz > 0  BY ONLY <3>4, <3>5, <3>6, <3>10, <1>9, SMT
    <3>7. Takes(d) /\ Takes(e)  BY <3>4, <3>14, <1>2 DEF Takes
    <3>8. EntriesAgree(d, e)  BY <3>2, <3>3, <3>7, <1>2, AgreeAt
    <3>9. d.vaddr + d.memsz <= e.vaddr \/ e.vaddr + e.memsz <= d.vaddr  BY <3>8 DEF EntriesAgree
    <3>11. k >= d.vaddr /\ k < d.vaddr + d.memsz  BY ONLY <3>4, <3>5, <3>10, SMT
    <3>12. k >= e.vaddr /\ k < e.vaddr + e.memsz  BY ONLY <1>9, <3>6, <3>10, SMT
    <3> QED  BY ONLY <3>9, <3>11, <3>12, <3>10, SMT
  <2>3. \A s \in 1..(l2.seg - 1) : InFile(i, l2, s, k) => new = Data(p, s, k - i.entries[s].vaddr)
    BY <2>1, <2>2, <1>2, <1>6
  <2>4. l.seg \in 1..(l2.seg - 1) /\ InFile(i, l2, l.seg, k)  BY <1>6, <1>8, <1>9
  <2> QED  BY <2>3, <2>4, <1>1, <1>5 DEF Right
<1>10. CASE k - e.vaddr \notin 0..(e.filesz - 1)
  <2>1. new = old  BY <1>1, <1>2, <1>10
  <2>2. ~InFile(i, l2, l.seg, k)  BY <1>8, <1>10
  <2>3. /\ \A s \in 1..(l.seg - 1) : InFile(i, l, s, k) => old = Data(p, s, k - i.entries[s].vaddr)
        /\ (\A s \in 1..(l.seg - 1) : ~InFile(i, l, s, k)) => old = Zero
    BY <1>1, <1>5 DEF Right
  <2>4. \A s \in 1..(l2.seg - 1) : InFile(i, l2, s, k) => new = Data(p, s, k - i.entries[s].vaddr)
    BY <2>1, <2>2, <2>3, <1>6, <1>7
  <2>5. (\A s \in 1..(l2.seg - 1) : ~InFile(i, l2, s, k)) => new = Zero  BY <2>1, <2>3, <1>6, <1>7
  <2> QED  BY <2>4, <2>5, <1>1, <1>5 DEF Right
<1> QED  BY <1>9, <1>10

LEMMA CopySegmentKeeps ==
    ASSUME ImagesFit, NEW r, NEW i, NEW l, NEW c, NEW T, NEW n, NEW p, Setting(r, i, l, c, T, n, p),
           NEW N, ProcessSound(N, r, i, l, c, T, n, p), l.pc = "copy",
           NEW l2 \in Locals, l2.pc = "entry", l2.seg = l.seg + 1, NEW M,
           LET e == i.entries[l.seg]
           IN  \/ e.filesz = 0 /\ M = N
               \/ e.filesz > 0 /\ Typed(M) /\ Copied(N, M, FrameAt(N, r, FirstPage(e)), e.filesz, p, l.seg)
    PROVE  ProcessSound(M, r, i, l2, c, T, n, p) /\ Grows(N, M, r)
<1>1. /\ Sound(N, r) /\ LoaderSound(r, i, l) /\ CreatorSound(l, c, T, n) /\ Given(N, r, i, l, c, T)
      /\ Contents(N, r, i, l, p) /\ ExecutableFits(i)
  BY DEF ProcessSound, Setting
<1>2. l.seg \in 1..Len(i.entries) /\ i.entries[l.seg].load /\ Len(i.entries) \in Nat /\ l.seg \in Nat
  BY <1>1, EntriesTyped DEF LoaderSound, Setting, Locals
<1>3. PICK e \in [load : BOOLEAN, vaddr : Nat, filesz : Nat, memsz : Nat] : e = i.entries[l.seg]  BY <1>1, <1>2, EntryTyped
<1>4. EntryFits(e) /\ e.filesz <= e.memsz /\ e.vaddr % PageSize = 0  BY <1>1, <1>2, <1>3, EntryTyped DEF EntryFits
<1>5. e.vaddr = FirstPage(e) * PageSize /\ FirstPage(e) \in Nat
  BY <1>4, CellAddress, Cells DEF FirstPage
<1>6. /\ Sound(M, r) /\ SamePages(N, M, r) /\ Grows(N, M, r)
      /\ \A v \in Page : \A o \in Offset : Maps(N, r, v) =>
            /\ Address(v, o) - e.vaddr \in 0..(e.filesz - 1) =>
                  M[FrameAt(N, r, v)][o] = Data(p, l.seg, Address(v, o) - e.vaddr)
            /\ Address(v, o) - e.vaddr \notin 0..(e.filesz - 1) => M[FrameAt(N, r, v)][o] = N[FrameAt(N, r, v)][o]
  <2>1. CASE e.filesz = 0 /\ M = N
    <3>1. \A k : k \notin 0..(e.filesz - 1)  BY <2>1
    <3> QED  BY <2>1, <3>1, <1>1 DEF SamePages, Grows
  <2>2. CASE e.filesz > 0 /\ Typed(M) /\ Copied(N, M, FrameAt(N, r, FirstPage(e)), e.filesz, p, l.seg)
    <3>1. PICK a \in Nat : a = FirstPage(e)  BY <1>5
    <3>2. Takes(e)
      <4>1. e.filesz \in Nat /\ e.memsz \in Nat  OBVIOUS
      <4>2. e.memsz > 0  BY <4>1, <2>2, <1>4
      <4> QED  BY <4>2, <1>2, <1>3 DEF Takes
    <3>3. PICK q \in Nat \ {0} : q = PagesOf(e.memsz)  BY <1>1, <1>2, <1>3, <3>2, EntryPlaces
    <3>4. e.filesz <= q * PageSize
      <4>1. e.filesz \in Nat /\ e.memsz \in Nat  OBVIOUS
      <4>2. e.memsz <= q * PageSize  BY <3>3, <4>1, PagesSuffice
      <4>3. q * PageSize \in Nat  BY Cells
      <4> QED  BY <4>1, <4>2, <4>3, <1>4
    <3>5. a + q <= NrPages  BY <3>1, <3>3, <1>4 DEF EntryFits
    <3>6. Whole(N, r, a, q)
      <4>1. l.seg \in 1..Passed(l)  BY <1>2 DEF Passed
      <4> QED  BY <4>1, <3>1, <3>2, <3>3, <1>1, <1>3 DEF Given
    <3>7. Copied(N, M, FrameAt(N, r, a), e.filesz, p, l.seg) /\ e.filesz \in Nat  BY <2>2, <3>1
    <3>8. /\ Sound(M, r) /\ SamePages(N, M, r) /\ Grows(N, M, r)
          /\ \A v \in Page : \A o \in Offset : Maps(N, r, v) =>
                /\ Address(v, o) - e.vaddr \in 0..(e.filesz - 1) =>
                      M[FrameAt(N, r, v)][o] = Data(p, l.seg, Address(v, o) - e.vaddr)
                /\ Address(v, o) - e.vaddr \notin 0..(e.filesz - 1) =>
                      M[FrameAt(N, r, v)][o] = N[FrameAt(N, r, v)][o]
      <4>1. e.vaddr = a * PageSize  BY <1>5, <3>1
      <4> QED  BY <4>1, <2>2, <3>4, <3>5, <3>6, <3>7, <1>1, CopyView
    <3> QED  BY <3>8
  <2> QED  BY <2>1, <2>2, <1>3
<1>7. LoaderSound(r, i, l2)
  <2>1. l2.seg <= Len(i.entries) + 1 /\ l2.seg > 0  BY <1>2
  <2> QED  BY <2>1, <1>1 DEF LoaderSound, Alloc
<1>8. c.pc = "idle" /\ Pending(M, r, i, l2) /\ Pending(M, r, i, c)
  <2>1. c.pc = "idle"  BY OneAtATime
  <2> QED  BY <2>1 DEF Pending, Alloc
<1>9. CreatorSound(l2, c, T, n)  BY <1>1, <1>8 DEF CreatorSound, Alloc
<1>10. Passed(l) = l.seg /\ Passed(l2) = l.seg  BY <1>2 DEF Passed
<1>11. ~HasStack(l2) /\ ~HasArgs(i, l2) /\ ~HasStack(l) /\ ~HasArgs(i, l)  BY DEF HasStack, HasArgs, Alloc
<1>12. Given(M, r, i, l2, c, T)
  <2>1. Given(M, r, i, l, c, T)  BY <1>1, <1>6, GivenGrows
  <2> QED  BY <2>1, <1>10, <1>11 DEF Given
<1>13. ASSUME NEW v \in Page, Maps(M, r, v) PROVE Origin(M, r, i, l2, c, T, v)
  <2>1. Origin(N, r, i, l, c, T, v)  BY <1>6, <1>13 DEF ProcessSound, SamePages
  <2>2. Origin(M, r, i, l, c, T, v)  BY <2>1, <1>1, <1>6, OriginGrows
  <2>3. ~OfTask(i, l, v)  BY DEF OfTask, Mapping
  <2> QED  BY <2>2, <2>3, <1>10, <1>11 DEF Origin
<1>14. Contents(M, r, i, l2, p)
  <2> SUFFICES ASSUME NEW v \in Page, NEW o \in Offset, Maps(M, r, v)
               PROVE  Right(i, l2, p, v, o, M[FrameAt(M, r, v)][o])
    BY DEF Contents
  <2>1. Maps(N, r, v) /\ FrameAt(M, r, v) = FrameAt(N, r, v)  BY <1>6 DEF SamePages, Grows
  <2>2. Right(i, l, p, v, o, N[FrameAt(N, r, v)][o])  BY <2>1, <1>1 DEF Contents
  <2>3. v \in Nat  BY DEF Page
  <2>4. PICK old : old = N[FrameAt(N, r, v)][o]  OBVIOUS
  <2>5. PICK new : new = M[FrameAt(N, r, v)][o]  OBVIOUS
  <2>6. /\ Address(v, o) - i.entries[l.seg].vaddr \in 0..(i.entries[l.seg].filesz - 1) =>
              new = Data(p, l.seg, Address(v, o) - i.entries[l.seg].vaddr)
        /\ Address(v, o) - i.entries[l.seg].vaddr \notin 0..(i.entries[l.seg].filesz - 1) => new = old
    BY <2>1, <2>4, <2>5, <1>3, <1>6
  <2>7. Right(i, l2, p, v, o, new)  BY <2>2, <2>3, <2>4, <2>6, <1>1, <1>2, CopyRight
  <2> QED  BY <2>1, <2>5, <2>7
<1> QED  BY <1>6, <1>7, <1>8, <1>9, <1>12, <1>13, <1>14 DEF ProcessSound

\* The command line is copied, and the byte behind it stays zero.
LEMMA CopyArgsKeeps ==
    ASSUME ImagesFit, NEW r, NEW i, NEW l, NEW c, NEW T, NEW n, NEW p, Setting(r, i, l, c, T, n, p),
           NEW N, ProcessSound(N, r, i, l, c, T, n, p), l.pc = "copyargs",
           NEW l2 \in Locals, l2.pc = "start", l2.seg = l.seg,
           NEW M, Typed(M), Copied(N, M, FrameAt(N, r, ArgsPage), i.args, p, 0)
    PROVE  ProcessSound(M, r, i, l2, c, T, n, p) /\ Grows(N, M, r)
<1>1. /\ Sound(N, r) /\ LoaderSound(r, i, l) /\ CreatorSound(l, c, T, n) /\ Given(N, r, i, l, c, T)
      /\ Contents(N, r, i, l, p) /\ ExecutableFits(i)
  BY DEF ProcessSound, Setting
<1>2. i.args \in Nat /\ i.args < PageSize /\ i.args # 0 /\ l.seg \in Nat
  BY <1>1 DEF LoaderSound, ExecutableFits, Executables, Setting, Locals
<1>3. HasStack(l) /\ HasArgs(i, l) /\ HasStack(l2) /\ HasArgs(i, l2)  BY <1>2 DEF HasStack, HasArgs
<1>4. Whole(N, r, ArgsPage, 1)
  <2>1. Maps(N, r, ArgsPage)  BY <1>1, <1>3 DEF Given
  <2>2. \A k \in 0..(1 - 1) : k = 0  OBVIOUS
  <2>3. ArgsPage + 0 = ArgsPage  BY FixedPlaces
  <2>4. FrameAt(N, r, ArgsPage) \in Nat  BY <2>1, <1>1, FixedPlaces DEF Sound, Frame
  <2> QED  BY <2>1, <2>2, <2>3, <2>4 DEF Whole
<1>14. PICK b : b = ArgsPage * PageSize  OBVIOUS
<1>5. i.args <= 1 * PageSize /\ ArgsPage \in Nat /\ ArgsPage + 1 <= NrPages  BY <1>2, FixedPlaces, Offsets
<1>6. /\ Sound(M, r) /\ SamePages(N, M, r) /\ Grows(N, M, r)
      /\ \A v \in Page : \A o \in Offset : Maps(N, r, v) =>
            /\ Address(v, o) - b \in 0..(i.args - 1) => M[FrameAt(N, r, v)][o] = Data(p, 0, Address(v, o) - b)
            /\ Address(v, o) - b \notin 0..(i.args - 1) => M[FrameAt(N, r, v)][o] = N[FrameAt(N, r, v)][o]
  <2>1. PICK q \in Nat \ {0} : q = 1  OBVIOUS
  <2>2. Whole(N, r, ArgsPage, q) /\ i.args <= q * PageSize /\ ArgsPage + q <= NrPages  BY <2>1, <1>4, <1>5
  <2> QED  BY <2>2, <1>1, <1>2, <1>5, <1>14, CopyView
<1>7. LoaderSound(r, i, l2)  BY <1>1 DEF LoaderSound, Alloc
<1>8. c.pc = "idle" /\ Pending(M, r, i, l2) /\ Pending(M, r, i, c)
  <2>1. c.pc = "idle"  BY OneAtATime
  <2> QED  BY <2>1 DEF Pending, Alloc
<1>9. CreatorSound(l2, c, T, n)  BY <1>1, <1>8 DEF CreatorSound, Alloc
<1>10. Passed(l) = Passed(l2)  BY DEF Passed
<1>11. Given(M, r, i, l2, c, T)
  <2>1. Given(M, r, i, l, c, T)  BY <1>1, <1>6, GivenGrows
  <2> QED  BY <2>1, <1>3, <1>10 DEF Given
<1>12. ASSUME NEW v \in Page, Maps(M, r, v) PROVE Origin(M, r, i, l2, c, T, v)
  <2>1. Origin(N, r, i, l, c, T, v)  BY <1>6, <1>12 DEF ProcessSound, SamePages
  <2>2. Origin(M, r, i, l, c, T, v)  BY <2>1, <1>1, <1>6, OriginGrows
  <2>3. ~OfTask(i, l, v)  BY DEF OfTask, Mapping
  <2> QED  BY <2>2, <2>3, <1>3, <1>10 DEF Origin
<1>13. Contents(M, r, i, l2, p)
  <2> SUFFICES ASSUME NEW v \in Page, NEW o \in Offset, Maps(M, r, v)
               PROVE  Right(i, l2, p, v, o, M[FrameAt(M, r, v)][o])
    BY DEF Contents
  <2>1. Maps(N, r, v) /\ FrameAt(M, r, v) = FrameAt(N, r, v)  BY <1>6 DEF SamePages, Grows
  <2>2. Right(i, l, p, v, o, N[FrameAt(N, r, v)][o])  BY <2>1, <1>1 DEF Contents
  <2>3. v \in Nat /\ o \in Nat  BY Offsets DEF Page, Offset
  <2>4. ~InArgs(i, l, v, o)  BY DEF InArgs
  <2>5. \A s, k : InFile(i, l2, s, k) <=> InFile(i, l, s, k)  BY DEF InFile
  <2>6. InArgs(i, l2, v, o) <=> v = ArgsPage /\ o < i.args  BY DEF InArgs
  <2>7. CASE InArgs(i, l2, v, o)
    <3>1. v = ArgsPage /\ o < i.args  BY <2>6, <2>7
    <3>2. Address(v, o) - b = o /\ o \in 0..(i.args - 1)
      <4>1. v * PageSize \in Nat /\ b = v * PageSize  BY <2>3, <3>1, <1>14, Cells
      <4> QED  BY <4>1, <3>1, <2>3, <1>2 DEF Address
    <3>3. M[FrameAt(N, r, v)][o] = Data(p, 0, o)  BY <3>2, <2>1, <1>6
    <3>4. \A s \in 1..(l.seg - 1) : ~InFile(i, l, s, Address(v, o))
      <4> SUFFICES ASSUME NEW s \in 1..(l.seg - 1), InFile(i, l, s, Address(v, o)) PROVE FALSE  OBVIOUS
      <4>1. ExecutableFits(i) /\ s \in 1..Len(i.entries)
        <5>1. l.seg <= Len(i.entries) + 1 /\ Len(i.entries) \in Nat  BY <1>1, EntriesTyped DEF LoaderSound
        <5> QED  BY <5>1, <1>1, <1>2
      <4>2. ArgsPage \notin Extent(i.entries[s]) \/ ~Takes(i.entries[s])
        <5>1. ASSUME Takes(i.entries[s]) PROVE ArgsPage \notin Extent(i.entries[s])
          <6>1. /\ FirstPage(i.entries[s]) \in Nat /\ PagesOf(i.entries[s].memsz) \in Nat
                /\ Rounded(PagesOf(i.entries[s].memsz)) \in Nat
                /\ PagesOf(i.entries[s].memsz) <= Rounded(PagesOf(i.entries[s].memsz))
                /\ ArgsPage \notin Region(i.entries[s])
            BY <4>1, <5>1, EntryPlaces
          <6>2. Extent(i.entries[s]) \subseteq Region(i.entries[s])  BY <6>1 DEF Extent, Region
          <6> QED  BY <6>1, <6>2
        <5> QED  BY <5>1
      <4>3. PICK e \in [load : BOOLEAN, vaddr : Nat, filesz : Nat, memsz : Nat] : e = i.entries[s]  BY <4>1, EntryTyped
      <4>4. e.load /\ Address(v, o) \in e.vaddr..(e.vaddr + e.filesz - 1)  BY <4>3 DEF InFile
      <4>5. EntryFits(e)  BY <4>1, <4>3, <4>4, EntryTyped
      <4>6. e.filesz <= e.memsz /\ e.vaddr % PageSize = 0  BY <4>5 DEF EntryFits
      <4>7. e.vaddr = FirstPage(e) * PageSize /\ FirstPage(e) \in Nat  BY <4>6, CellAddress, Cells DEF FirstPage
      <4>8. /\ e.vaddr \in Nat /\ e.filesz \in Nat /\ e.memsz \in Nat /\ Address(v, o) \in Nat
        BY <2>3, CellInPage DEF Address
      <4>9. e.memsz > 0 /\ Address(v, o) - e.vaddr \in 0..(e.memsz - 1)  BY ONLY <4>4, <4>6, <4>8, SMT
      <4>10. PagesOf(e.memsz) \in Nat /\ e.memsz <= PagesOf(e.memsz) * PageSize  BY <4>8, PagesSuffice
      <4>11. v - FirstPage(e) \in 0..(PagesOf(e.memsz) - 1)
        <5>1. PICK a \in Nat : a = FirstPage(e)  BY <4>7
        <5>2. PICK q \in Nat : q = PagesOf(e.memsz)  BY <4>10
        <5>3. e.vaddr = a * PageSize /\ e.memsz <= q * PageSize  BY <5>1, <5>2, <4>7, <4>10
        <5>4. v - a \in 0..(q - 1)  BY <5>3, <4>8, <4>9, <2>3, PageBetween
        <5> QED  BY <5>1, <5>2, <5>4
      <4>12. v \in Extent(e)
        <5>1. v \in FirstPage(e)..(FirstPage(e) + PagesOf(e.memsz) - 1)  BY ONLY <4>7, <4>10, <4>11, <2>3, SMT
        <5> QED  BY <5>1 DEF Extent
      <4>13. Takes(e)  BY <4>4, <4>9 DEF Takes
      <4> QED  BY <4>2, <4>3, <4>12, <4>13, <3>1
    <3>5. \A s \in 1..(l2.seg - 1) : ~InFile(i, l2, s, Address(v, o))  BY <3>4, <2>5
    <3> QED  BY <2>1, <2>7, <3>3, <3>5 DEF Right
  <2>8. CASE ~InArgs(i, l2, v, o)
    <3>1. Address(v, o) - b \notin 0..(i.args - 1)
      <4>1. SUFFICES ASSUME Address(v, o) - b \in 0..(i.args - 1) PROVE FALSE  OBVIOUS
      <4>2. PICK q \in Nat : q = 1  OBVIOUS
      <4>6. i.args <= q * PageSize  BY <4>2, <1>5
      <4>7. v - ArgsPage \in 0..(q - 1)  BY <4>1, <4>6, <2>3, <1>2, <1>5, <1>14, PageBetween
      <4>3. v = ArgsPage  BY <4>2, <4>7, <2>3, <1>5
      <4>4. v * PageSize \in Nat /\ b = v * PageSize  BY <2>3, <4>3, <1>14, Cells
      <4>5. o < i.args  BY <4>1, <4>4, <2>3, <1>2 DEF Address
      <4> QED  BY <4>3, <4>5, <2>6, <2>8
    <3>2. M[FrameAt(M, r, v)][o] = N[FrameAt(N, r, v)][o]  BY <3>1, <2>1, <1>6
    <3> QED  BY <3>2, <2>2, <2>4, <2>5, <2>8 DEF Right
  <2> QED  BY <2>7, <2>8
<1> QED  BY <1>6, <1>7, <1>8, <1>9, <1>11, <1>12, <1>13 DEF ProcessSound

----------------------------------------------------------------------------
(* From a process to the system. *)

PC == {"idle", "header", "vma", "kstack", "entry", "phys", "map", "table",
       "copy", "args", "copyargs", "start", "handle", "started", "running", "refused"}
Return == {"idle", "copy", "args", "copyargs", "started"}

LEMMA InSetting ==
    ASSUME ImagesFit, TypeOK, NEW p \in Procs
    PROVE  /\ Setting(root[p], image[p], task[Loader(p)], Creator(p), Handles(p), nextHandle, p)
           /\ Loader(p) \in Task /\ held[p] \subseteq Frame
<1>1. Loader(p) \in Task  BY ImageAssumption DEF Loader, Task
<1>2. ExecutableFits(image[p])  BY DEF TypeOK, ImagesFit
<1>3. IdleTask \in Locals  BY ImageAssumption DEF IdleTask, Locals, Page
<1>4. Creators = 1 => <<p, 1>> \in Task  BY DEF Task
<1>5. Creator(p) \in Locals /\ task[Loader(p)] \in Locals  BY <1>1, <1>3, <1>4 DEF Creator, TypeOK
<1>6. root[p] \in Frame \cup {None} /\ Handles(p) \subseteq 1..MaxHandle /\ nextHandle \in 1..(MaxHandle + 1) /\ held[p] \subseteq Frame
  BY DEF TypeOK, Handles
<1> QED  BY <1>1, <1>2, <1>5, <1>6 DEF Setting

RootSeen(mm, r, v) == IF r = None THEN Zero ELSE mm[r][v \div PageSize]
LeafSeen(mm, re, v) == IF IsEntry(re) THEN mm[re[2]][v % PageSize] ELSE Zero
Seen(mm, h) == [f \in h |-> mm[f]]

\* What IsMapped and FrameOf say of the memory mm, of which the process has the frames of h.
LEMMA SeenFrom ==
    ASSUME NEW mm, NEW h, NEW r, NEW N, N = Seen(mm, h), Sound(N, r), NEW v \in Page,
           NEW re, re = RootSeen(mm, r, v), NEW le, le = LeafSeen(mm, re, v)
    PROVE  /\ IsEntry(re) <=> HasTable(N, r, v \div PageSize)
           /\ IsEntry(re) => re[2] = TableOf(N, r, v \div PageSize)
           /\ IsEntry(le) <=> Maps(N, r, v)
           /\ Maps(N, r, v) => le[2] = FrameAt(N, r, v)
<1>1. ~IsEntry(Zero)  BY DEF IsEntry, Zero
<1>2. r # None => r \in h /\ N[r] = mm[r]  BY DEF Sound, Seen
<1>3. IsEntry(re) <=> HasTable(N, r, v \div PageSize)  BY <1>1, <1>2 DEF HasTable, RootSeen
<1>4. IsEntry(re) => re[2] = TableOf(N, r, v \div PageSize)  BY <1>1, <1>2 DEF TableOf, RootSeen
<1>5. v \div PageSize \in Offset  BY Offsets
<1>6. IsEntry(re) => re[2] \in h /\ N[re[2]] = mm[re[2]]  BY <1>3, <1>4, <1>5 DEF Sound, Seen
<1>7. IsEntry(re) => le = Leaf(N, r, v)  BY <1>4, <1>6 DEF Leaf, LeafSeen
<1>8. ~IsEntry(re) => ~IsEntry(le)  BY <1>1 DEF LeafSeen
<1> QED  BY <1>3, <1>4, <1>7, <1>8 DEF Maps, FrameAt

LEMMA SeenNow ==
    ASSUME NEW p \in Procs, Sound(OwnMemory(p), root[p]), NEW v \in Page
    PROVE  /\ IsEntry(RootEntry(p, v)) <=> HasTable(OwnMemory(p), root[p], v \div PageSize)
           /\ IsEntry(RootEntry(p, v)) => RootEntry(p, v)[2] = TableOf(OwnMemory(p), root[p], v \div PageSize)
           /\ IsMapped(p, v) <=> Maps(OwnMemory(p), root[p], v)
           /\ IsMapped(p, v) => FrameOf(p, v) = FrameAt(OwnMemory(p), root[p], v)
<1>1. PICK re : re = RootEntry(p, v)  OBVIOUS
<1>2. PICK le : le = LeafEntry(p, v)  OBVIOUS
<1>3. re = RootSeen(mem, root[p], v)  BY <1>1 DEF RootEntry, RootSeen
<1>4. le = LeafSeen(mem, re, v)  BY <1>1, <1>2 DEF LeafEntry, LeafSeen
<1>5. OwnMemory(p) = Seen(mem, held[p])  BY DEF OwnMemory, Seen
<1>6. /\ IsEntry(re) <=> HasTable(OwnMemory(p), root[p], v \div PageSize)
      /\ IsEntry(re) => re[2] = TableOf(OwnMemory(p), root[p], v \div PageSize)
      /\ IsEntry(le) <=> Maps(OwnMemory(p), root[p], v)
      /\ Maps(OwnMemory(p), root[p], v) => le[2] = FrameAt(OwnMemory(p), root[p], v)
  BY <1>3, <1>4, <1>5, SeenFrom
<1> QED  BY <1>1, <1>2, <1>6 DEF IsMapped, FrameOf

LEMMA SeenNext ==
    ASSUME NEW p \in Procs, Sound(OwnMemory(p)', root'[p]), NEW v \in Page
    PROVE  /\ IsMapped(p, v)' <=> Maps(OwnMemory(p)', root'[p], v)
           /\ IsMapped(p, v)' => FrameOf(p, v)' = FrameAt(OwnMemory(p)', root'[p], v)
<1>1. PICK re : re = RootEntry(p, v)'  OBVIOUS
<1>2. PICK le : le = LeafEntry(p, v)'  OBVIOUS
<1>3. re = RootSeen(mem', root'[p], v)  BY <1>1 DEF RootEntry, RootSeen
<1>4. le = LeafSeen(mem', re, v)  BY <1>1, <1>2 DEF LeafEntry, LeafSeen
<1>5. OwnMemory(p)' = Seen(mem', held'[p])  BY DEF OwnMemory, Seen
<1>6. /\ IsEntry(le) <=> Maps(OwnMemory(p)', root'[p], v)
      /\ Maps(OwnMemory(p)', root'[p], v) => le[2] = FrameAt(OwnMemory(p)', root'[p], v)
  BY <1>3, <1>4, <1>5, SeenFrom
<1> QED  BY <1>1, <1>2, <1>6 DEF IsMapped, FrameOf

\* What a step of process p leaves to the others.
OthersKept(p) ==
    /\ image' = image
    /\ \A q \in Procs : q # p => /\ root'[q] = root[q] /\ held'[q] = held[q] /\ Handles(q)' = Handles(q)
                                 /\ \A f \in held[q] : mem'[f] = mem[f]
    /\ \A t \in Task : t[1] # p => task'[t] = task[t]
    /\ nextHandle <= nextHandle'

Framed(p) == TypeOK' /\ mem' \in [Frame -> [Offset -> Cell]] /\ FramesApart' /\ OthersKept(p)

Stays == \A p \in Procs : \A v \in Page :
             IsMapped(p, v) => IsMapped(p, v)' /\ FrameOf(p, v)' = FrameOf(p, v)

\* A step of one process, seen from the system.
LEMMA StepOf ==
    ASSUME ImagesFit, ImageInv, NEW p \in Procs, Framed(p), root'[p] = root[p] \/ root[p] = None,
           Grows(OwnMemory(p), OwnMemory(p)', root[p]),
           ProcessSound(OwnMemory(p)', root'[p], image[p], task'[Loader(p)], Creator(p)', Handles(p)', nextHandle', p)
    PROVE  ImageInv' /\ Stays
<1>1. ProcessInv(p)'  BY DEF ProcessInv, Framed, OthersKept, Loader
<1>2. ASSUME NEW q \in Procs, q # p
      PROVE  /\ ProcessInv(q)' /\ OwnMemory(q)' = OwnMemory(q) /\ root'[q] = root[q]
  <2>1. OwnMemory(q)' = OwnMemory(q) /\ root'[q] = root[q] /\ image'[q] = image[q] /\ Handles(q)' = Handles(q)
    BY <1>2 DEF OwnMemory, Framed, OthersKept
  <2>2. Loader(q) \in Task /\ Loader(q)[1] = q  BY InSetting DEF ImageInv, Loader
  <2>3. task'[Loader(q)] = task[Loader(q)]  BY <1>2, <2>2 DEF Framed, OthersKept
  <2>4. Creators = 1 => <<q, 1>> \in Task /\ <<q, 1>>[1] = q  BY DEF Task
  <2>5. Creator(q)' = Creator(q)  BY <1>2, <2>4 DEF Creator, Framed, OthersKept
  <2>6. nextHandle \in Nat /\ nextHandle' \in Nat /\ nextHandle <= nextHandle'
    BY ImageAssumption DEF ImageInv, TypeOK, Framed, OthersKept
  <2>7. ProcessSound(OwnMemory(q), root[q], image[q], task[Loader(q)], Creator(q), Handles(q), nextHandle', q)
    BY <2>6, LaterHandle DEF ImageInv, ProcessInv
  <2> QED  BY <2>1, <2>3, <2>5, <2>7 DEF ProcessInv, Loader
<1>3. ImageInv'  BY <1>1, <1>2 DEF ImageInv, Framed
<1>4. ASSUME NEW q \in Procs, NEW v \in Page, IsMapped(q, v)
      PROVE  IsMapped(q, v)' /\ FrameOf(q, v)' = FrameOf(q, v)
  <2>1. Sound(OwnMemory(q), root[q])  BY DEF ImageInv, ProcessInv, ProcessSound
  <2>2. Sound(OwnMemory(q)', root'[q])
    <3>1. CASE q = p  BY <3>1 DEF ProcessSound
    <3>2. CASE q # p  BY <3>2, <2>1, <1>2
    <3> QED  BY <3>1, <3>2
  <2>3. Maps(OwnMemory(q), root[q], v) /\ FrameOf(q, v) = FrameAt(OwnMemory(q), root[q], v)
    BY <2>1, <1>4, SeenNow
  <2>4. root[q] # None  BY <2>3 DEF Maps, HasTable
  <2>5. Maps(OwnMemory(q)', root'[q], v) /\ FrameAt(OwnMemory(q)', root'[q], v) = FrameAt(OwnMemory(q), root[q], v)
    <3>1. CASE q = p  BY <3>1, <2>3, <2>4 DEF Grows
    <3>2. CASE q # p  BY <3>2, <2>3, <1>2
    <3> QED  BY <3>1, <3>2
  <2> QED  BY <2>2, <2>3, <2>5, SeenNext
<1> QED  BY <1>3, <1>4 DEF Stays

----------------------------------------------------------------------------
(* What a step does to the task that takes it. *)

Moved(t, y) == y \in Locals /\ task' = [task EXCEPT ![t] = y]
Rest4(x, y) == y.va = x.va /\ y.pa = x.pa /\ y.left = x.left /\ SameCall(x, y)

\* The assignments of the actions, by name.
ToEntry(t, k) == task' = [task EXCEPT ![t].pc = "entry", ![t].seg = k]
ToBlock(t, f, n) == task' = [task EXCEPT ![t].pc = "map", ![t].pa = f, ![t].left = n]
ToNextPage(t) ==
    task' = [task EXCEPT ![t].pc = IF task[t].left = 1 THEN task[t].ret ELSE "map",
                         ![t].va = @ + 1, ![t].left = @ - 1,
                         ![t].pa = IF task[t].left = 1 THEN None ELSE @ + 1]
ToStack(t, v, k) ==
    task' = [task EXCEPT ![t].pc = "phys", ![t].va = v, ![t].left = StackPages, ![t].ret = "started", ![t].h = k]

LEMMA GotoMoves ==
    ASSUME TypeOK, NEW t \in Task, NEW a \in PC, Goto(t, a)
    PROVE  \E y : Moved(t, y) /\ y.pc = a /\ Rest4(task[t], y)
<1>1. PICK x \in Locals : x = task[t]  BY DEF TypeOK
<1>2. PICK y : y = [x EXCEPT !.pc = a]  OBVIOUS
<1>3. y \in Locals  BY <1>2 DEF Locals, PC
<1>4. y.pc = a /\ Rest4(x, y)  BY <1>2 DEF Locals, Rest4, SameCall
<1>5. task' = [task EXCEPT ![t] = y]  BY <1>1, <1>2 DEF Goto
<1> QED  BY <1>1, <1>3, <1>4, <1>5 DEF Moved

LEMMA SegMoves ==
    ASSUME TypeOK, NEW t \in Task, NEW k \in Nat, ToEntry(t, k)
    PROVE  \E y : Moved(t, y) /\ y.pc = "entry" /\ y.seg = k
<1>1. PICK x \in Locals : x = task[t]  BY DEF TypeOK
<1>2. PICK y : y = [x EXCEPT !.pc = "entry", !.seg = k]  OBVIOUS
<1>3. y \in Locals  BY <1>2 DEF Locals
<1>4. y.pc = "entry" /\ y.seg = k  BY <1>2 DEF Locals
<1>5. task' = [task EXCEPT ![t] = y]  BY <1>1, <1>2 DEF ToEntry
<1> QED  BY <1>3, <1>4, <1>5 DEF Moved

LEMMA SkipMoves ==
    ASSUME TypeOK, NEW t \in Task, task' = [task EXCEPT ![t].seg = @ + 1]
    PROVE  \E y : Moved(t, y) /\ y.pc = task[t].pc /\ y.seg = task[t].seg + 1
<1>1. PICK x \in Locals : x = task[t]  BY DEF TypeOK
<1>2. PICK y : y = [x EXCEPT !.seg = x.seg + 1]  OBVIOUS
<1>3. x.seg + 1 \in Nat  BY DEF Locals
<1>4. y \in Locals  BY <1>2, <1>3 DEF Locals
<1>5. y.pc = x.pc /\ y.seg = x.seg + 1  BY <1>2 DEF Locals
<1>6. task' = [task EXCEPT ![t] = y]  BY <1>1, <1>2
<1> QED  BY <1>1, <1>4, <1>5, <1>6 DEF Moved

LEMMA VirtMoves ==
    ASSUME TypeOK, NEW t \in Task, NEW v \in Page, NEW n \in Nat, NEW a \in Return, a \in PC, AllocateVirt(t, v, n, a)
    PROVE  \E y : /\ Moved(t, y) /\ y.pc = (IF n = 0 THEN a ELSE "phys") /\ y.va = v /\ y.left = n /\ y.ret = a
                  /\ y.seg = task[t].seg
<1>1. PICK x \in Locals : x = task[t]  BY DEF TypeOK
<1>2. PICK b : b = IF n = 0 THEN a ELSE "phys"  OBVIOUS
<1>3. PICK y : y = [x EXCEPT !.pc = b, !.va = v, !.left = n, !.ret = a]  OBVIOUS
<1>4. b \in PC  BY <1>2 DEF PC
<1>5. y \in Locals  BY <1>3, <1>4 DEF Locals, PC, Return
<1>6. y.pc = b /\ y.va = v /\ y.left = n /\ y.ret = a /\ y.seg = x.seg  BY <1>3 DEF Locals
<1>7. task' = [task EXCEPT ![t] = y]  BY <1>1, <1>2, <1>3 DEF AllocateVirt
<1> QED  BY <1>1, <1>2, <1>5, <1>6, <1>7 DEF Moved

LEMMA BlockMoves ==
    ASSUME TypeOK, NEW t \in Task, NEW f \in Frame, NEW n \in Nat, ToBlock(t, f, n)
    PROVE  \E y : Moved(t, y) /\ y.pc = "map" /\ y.pa = f /\ y.left = n /\ y.va = task[t].va /\ SameCall(task[t], y)
<1>1. PICK x \in Locals : x = task[t]  BY DEF TypeOK
<1>2. PICK y : y = [x EXCEPT !.pc = "map", !.pa = f, !.left = n]  OBVIOUS
<1>3. y \in Locals  BY <1>2 DEF Locals
<1>4. y.pc = "map" /\ y.pa = f /\ y.left = n /\ y.va = x.va /\ SameCall(x, y)  BY <1>2 DEF Locals, SameCall
<1>5. task' = [task EXCEPT ![t] = y]  BY <1>1, <1>2 DEF ToBlock
<1> QED  BY <1>1, <1>3, <1>4, <1>5 DEF Moved

LEMMA TurnMoves ==
    ASSUME TypeOK, NEW t \in Task, task[t].va + 1 \in Page, task[t].left \in Nat \ {0}, task[t].ret \in PC,
           task[t].left # 1 => task[t].pa + 1 \in Frame, ToNextPage(t)
    PROVE  \E y : Moved(t, y) /\ Turned(task[t], y)
<1>1. PICK x \in Locals : x = task[t]  BY DEF TypeOK
<1>2. PICK a : a = IF x.left = 1 THEN x.ret ELSE "map"  OBVIOUS
<1>3. PICK f : f = IF x.left = 1 THEN None ELSE x.pa + 1  OBVIOUS
<1>4. PICK v : v = x.va + 1  OBVIOUS
<1>5. PICK n : n = x.left - 1  OBVIOUS
<1>6. a \in PC /\ f \in Frame \cup {None} /\ v \in Page /\ n \in Nat  BY <1>1, <1>2, <1>3, <1>4, <1>5 DEF PC
<1>7. PICK y : y = [x EXCEPT !.pc = a, !.va = v, !.left = n, !.pa = f]  OBVIOUS
<1>8. y \in Locals  BY <1>6, <1>7 DEF Locals, PC
<1>9. y.pc = a /\ y.va = v /\ y.left = n /\ y.pa = f /\ SameCall(x, y)  BY <1>7 DEF Locals, SameCall
<1>10. Turned(x, y)  BY <1>2, <1>3, <1>4, <1>5, <1>9 DEF Turned
<1>11. task' = [task EXCEPT ![t] = y]  BY <1>1, <1>2, <1>3, <1>4, <1>5, <1>7 DEF ToNextPage
<1> QED  BY <1>1, <1>8, <1>10, <1>11 DEF Moved

LEMMA RegisterMoves ==
    ASSUME TypeOK, NEW t \in Task, NEW v \in Page, NEW k \in 0..MaxHandle, ToStack(t, v, k)
    PROVE  \E y : Moved(t, y) /\ y.pc = "phys" /\ y.va = v /\ y.left = StackPages /\ y.ret = "started" /\ y.h = k
<1>1. PICK x \in Locals : x = task[t]  BY DEF TypeOK
<1>2. PICK y : y = [x EXCEPT !.pc = "phys", !.va = v, !.left = StackPages, !.ret = "started", !.h = k]  OBVIOUS
<1>3. StackPages \in Nat  BY DEF StackPages
<1>4. y \in Locals  BY <1>2, <1>3 DEF Locals
<1>5. y.pc = "phys" /\ y.va = v /\ y.left = StackPages /\ y.ret = "started" /\ y.h = k  BY <1>2 DEF Locals
<1>6. task' = [task EXCEPT ![t] = y]  BY <1>1, <1>2 DEF ToStack
<1> QED  BY <1>4, <1>5, <1>6 DEF Moved

LEMMA LoaderMoved ==
    ASSUME TypeOK, NEW p \in Procs, NEW y, Moved(Loader(p), y)
    PROVE  /\ task' \in [Task -> Locals] /\ task'[Loader(p)] = y /\ Creator(p)' = Creator(p)
           /\ \A u \in Task : u[1] # p => task'[u] = task[u]
<1>1. Loader(p) \in Task /\ Loader(p)[1] = p /\ Loader(p) # <<p, 1>>  BY ImageAssumption DEF Loader, Task
<1>2. task' \in [Task -> Locals] /\ task'[Loader(p)] = y /\ \A u \in Task : u # Loader(p) => task'[u] = task[u]
  BY <1>1 DEF Moved, TypeOK
<1>3. Creators = 1 => <<p, 1>> \in Task  BY DEF Task
<1> QED  BY <1>1, <1>2, <1>3 DEF Creator

\* A task that is not the loader of its process is its creator.
LEMMA CreatorOf ==
    ASSUME ImagesFit, NEW t \in Task
    PROVE  /\ t[1] \in Procs /\ t[2] \in {0, 1}
           /\ t[2] = 0 => t = Loader(t[1])
           /\ t[2] # 0 => t = <<t[1], 1>> /\ Creators = 1 /\ Creator(t[1]) = task[t]
<1>1. t[1] \in Procs /\ t[2] \in 0..Creators /\ t = <<t[1], t[2]>>  BY DEF Task
<1>2. Creators \in {0, 1}  BY ImageAssumption DEF ImagesFit
<1>3. t[2] \in {0, 1} /\ (t[2] # 0 => t[2] = 1 /\ Creators = 1)  BY <1>1, <1>2
<1> QED  BY <1>1, <1>3 DEF Loader, Creator

LEMMA CreatorMoved ==
    ASSUME ImagesFit, TypeOK, NEW t \in Task, t[2] # 0, NEW y, Moved(t, y)
    PROVE  /\ task' \in [Task -> Locals] /\ Creator(t[1])' = y /\ task'[Loader(t[1])] = task[Loader(t[1])]
           /\ \A u \in Task : u[1] # t[1] => task'[u] = task[u]
<1>1. t[1] \in Procs /\ t = <<t[1], 1>> /\ Creators = 1  BY CreatorOf
<1>2. Loader(t[1]) \in Task /\ Loader(t[1]) # t  BY <1>1, ImageAssumption DEF Loader, Task
<1>3. task' \in [Task -> Locals] /\ task'[t] = y /\ \A u \in Task : u # t => task'[u] = task[u]
  BY DEF Moved, TypeOK
<1>4. Creator(t[1])' = task'[t]  BY <1>1 DEF Creator
<1> QED  BY <1>2, <1>3, <1>4

----------------------------------------------------------------------------
(* The actions that leave memory alone. *)

Still == UNCHANGED <<image, avail, mem, root, held, halted>>

LEMMA StillStep ==
    ASSUME ImagesFit, ImageInv, NEW p \in Procs, Still, task' \in [Task -> Locals],
           \A u \in Task : u[1] # p => task'[u] = task[u], nextHandle' \in 1..(MaxHandle + 1), nextHandle <= nextHandle',
           threads' \subseteq Procs \X (1..MaxHandle), \A q \in Procs : q # p => Handles(q)' = Handles(q),
           ProcessSound(OwnMemory(p), root[p], image[p], task'[Loader(p)], Creator(p)', Handles(p)', nextHandle', p)
    PROVE  ImageInv' /\ Stays
<1>1. OwnMemory(p)' = OwnMemory(p) /\ root'[p] = root[p]  BY DEF Still, OwnMemory
<1>2. TypeOK' /\ mem' \in [Frame -> [Offset -> Cell]]  BY DEF Still, ImageInv, TypeOK
<1>3. FramesApart'  BY DEF Still, ImageInv, FramesApart
<1>4. OthersKept(p)  BY DEF OthersKept, Still
<1>5. Grows(OwnMemory(p), OwnMemory(p), root[p])  BY DEF Grows
<1>6. Framed(p)  BY <1>2, <1>3, <1>4 DEF Framed
<1> QED  BY <1>1, <1>5, <1>6, StepOf

\* The loader takes such a step, and gives out no handle.
LEMMA LoaderStill ==
    ASSUME ImagesFit, ImageInv, NEW p \in Procs, Still, UNCHANGED <<nextHandle, threads>>, NEW y, Moved(Loader(p), y),
           ProcessSound(OwnMemory(p), root[p], image[p], y, Creator(p), Handles(p), nextHandle, p)
    PROVE  ImageInv' /\ Stays
<1>1. /\ task' \in [Task -> Locals] /\ task'[Loader(p)] = y /\ Creator(p)' = Creator(p)
      /\ \A u \in Task : u[1] # p => task'[u] = task[u]
  BY LoaderMoved DEF ImageInv
<1>2. \A q \in Procs : Handles(q)' = Handles(q)  BY DEF Handles
<1>3. /\ nextHandle' \in 1..(MaxHandle + 1) /\ nextHandle <= nextHandle' /\ threads' \subseteq Procs \X (1..MaxHandle)
      /\ nextHandle' = nextHandle
  BY ImageAssumption DEF ImageInv, TypeOK
<1> QED  BY <1>1, <1>2, <1>3, StillStep

\* What the process of a task knows, and what its loader is.
LEMMA KnownOf ==
    ASSUME ImagesFit, ImageInv, NEW p \in Procs
    PROVE  /\ Setting(root[p], image[p], task[Loader(p)], Creator(p), Handles(p), nextHandle, p)
           /\ ProcessSound(OwnMemory(p), root[p], image[p], task[Loader(p)], Creator(p), Handles(p), nextHandle, p)
           /\ TypeOK /\ Loader(p) \in Task /\ Sound(OwnMemory(p), root[p]) /\ ExecutableFits(image[p])
BY InSetting DEF ImageInv, ProcessInv, ProcessSound, Setting

LEMMA ReadHeaderStep ==
    ASSUME ImagesFit, ImageInv, NEW p \in Procs, ReadHeader(p) \/ Truncated(p)
    PROVE  ImageInv' /\ Stays
<1>1. PICK a \in {"vma", "refused"} : /\ Goto(Loader(p), a)
                                      /\ \/ task[Loader(p)].pc = "header"
                                         \/ task[Loader(p)].pc = "entry" /\ a = "refused"
  BY DEF ReadHeader, Truncated, At
<1>2. PICK y : Moved(Loader(p), y) /\ y.pc = a /\ Rest4(task[Loader(p)], y)  BY <1>1, GotoMoves, KnownOf DEF PC
<1>3. y \in Locals /\ y.seg = task[Loader(p)].seg  BY <1>2 DEF Moved, Rest4, SameCall
<1>4. ProcessSound(OwnMemory(p), root[p], image[p], y, Creator(p), Handles(p), nextHandle, p)
  BY <1>1, <1>2, <1>3, KnownOf, HeaderKeeps
<1>5. Still /\ UNCHANGED <<nextHandle, threads>>  BY DEF ReadHeader, Truncated, Still
<1> QED  BY <1>2, <1>4, <1>5, LoaderStill

\* The entry that the loader is at is one of the executable.
LEMMA EntryAt ==
    ASSUME ImagesFit, ImageInv, NEW p \in Procs, task[Loader(p)].pc = "entry", task[Loader(p)].seg <= image[p].readable
    PROVE  task[Loader(p)].seg \in 1..Len(image[p].entries)
<1>1. ExecutableFits(image[p]) /\ LoaderSound(root[p], image[p], task[Loader(p)]) /\ task[Loader(p)] \in Locals
  BY KnownOf DEF ProcessSound, Setting
<1>2. image[p].readable \in Nat /\ image[p].readable <= Len(image[p].entries)  BY <1>1 DEF ExecutableFits, Executables
<1>3. task[Loader(p)].seg \in Nat /\ task[Loader(p)].seg > 0  BY <1>1 DEF LoaderSound, Locals
<1>4. Len(image[p].entries) \in Nat  BY <1>1, EntriesTyped
<1> QED  BY <1>2, <1>3, <1>4

LEMMA SkipEntryStep ==
    ASSUME ImagesFit, ImageInv, NEW p \in Procs, SkipEntry(p)
    PROVE  ImageInv' /\ Stays
<1>1. task[Loader(p)].pc = "entry" /\ task[Loader(p)].seg \in 1..Len(image[p].entries)
  BY EntryAt DEF SkipEntry, At
<1>2. ~image[p].entries[task[Loader(p)].seg].load  BY DEF SkipEntry, Ent
<1>3. PICK y : Moved(Loader(p), y) /\ y.pc = task[Loader(p)].pc /\ y.seg = task[Loader(p)].seg + 1
  BY SkipMoves, KnownOf DEF SkipEntry
<1>4. y \in Locals  BY <1>3 DEF Moved
<1>5. ~Takes(image[p].entries[task[Loader(p)].seg])  BY <1>2 DEF Takes
<1>6. ProcessSound(OwnMemory(p), root[p], image[p], y, Creator(p), Handles(p), nextHandle, p)
  BY <1>1, <1>2, <1>3, <1>4, <1>5, KnownOf, PassKeeps
<1>7. Still /\ UNCHANGED <<nextHandle, threads>>  BY DEF SkipEntry, Still
<1> QED  BY <1>3, <1>6, <1>7, LoaderStill

LEMMA LoadEntryStep ==
    ASSUME ImagesFit, ImageInv, NEW p \in Procs, LoadEntry(p)
    PROVE  ImageInv' /\ Stays
<1>1. task[Loader(p)].pc = "entry" /\ task[Loader(p)].seg \in 1..Len(image[p].entries)
  BY EntryAt DEF LoadEntry, At
<1>2. PICK l : l = task[Loader(p)]  OBVIOUS
<1>3. PICK e : e = image[p].entries[l.seg]  OBVIOUS
<1>4. e = Ent(p) /\ e.load  BY <1>2, <1>3 DEF LoadEntry, Ent
<1>5. e \in [load : BOOLEAN, vaddr : Nat, filesz : Nat, memsz : Nat] /\ EntryFits(e)
  <2>1. ExecutableFits(image[p]) /\ l.seg \in 1..Len(image[p].entries)  BY <1>1, <1>2, KnownOf
  <2>2. image[p].entries[l.seg].load => EntryFits(image[p].entries[l.seg])  BY <2>1, EntryTyped
  <2>3. image[p].entries[l.seg] \in [load : BOOLEAN, vaddr : Nat, filesz : Nat, memsz : Nat]  BY <2>1, EntryTyped
  <2> QED  BY <2>2, <2>3, <1>3, <1>4
<1>6. FirstPage(e) \in Page /\ FirstPage(e) = e.vaddr \div PageSize /\ PagesOf(e.memsz) \in Nat
  BY <1>5, PagesSuffice DEF EntryFits, FirstPage
<1>7. IsMapped(p, FirstPage(e)) <=> Maps(OwnMemory(p), root[p], FirstPage(e))  BY <1>6, KnownOf, SeenNow
<1>8. CASE IsMapped(p, FirstPage(e))
  <2>1. Goto(Loader(p), "copy")  BY <1>4, <1>6, <1>8 DEF LoadEntry
  <2>2. PICK y : Moved(Loader(p), y) /\ y.pc = "copy" /\ Rest4(task[Loader(p)], y)  BY <2>1, GotoMoves, KnownOf DEF PC
  <2>3. y \in Locals /\ y.seg = l.seg  BY <2>2, <1>2 DEF Moved, Rest4, SameCall
  <2>4. ProcessSound(OwnMemory(p), root[p], image[p], y, Creator(p), Handles(p), nextHandle, p)
    BY <1>1, <1>2, <1>3, <1>4, <1>7, <1>8, <2>2, <2>3, KnownOf, LoadKeeps
  <2>5. Still /\ UNCHANGED <<nextHandle, threads>>  BY DEF LoadEntry, Still
  <2> QED  BY <2>2, <2>4, <2>5, LoaderStill
<1>9. CASE ~IsMapped(p, FirstPage(e))
  <2>1. AllocateVirt(Loader(p), FirstPage(e), PagesOf(e.memsz), "copy")  BY <1>4, <1>6, <1>9 DEF LoadEntry
  <2>2. PICK y : /\ Moved(Loader(p), y) /\ y.pc = (IF PagesOf(e.memsz) = 0 THEN "copy" ELSE "phys")
                 /\ y.va = FirstPage(e) /\ y.left = PagesOf(e.memsz) /\ y.ret = "copy" /\ y.seg = task[Loader(p)].seg
    BY <2>1, <1>6, VirtMoves, KnownOf DEF PC, Return
  <2>3. y \in Locals /\ y.seg = l.seg  BY <2>2, <1>2 DEF Moved
  <2>4. ProcessSound(OwnMemory(p), root[p], image[p], y, Creator(p), Handles(p), nextHandle, p)
    <3>1. CASE PagesOf(e.memsz) = 0
      BY <3>1, <1>1, <1>2, <1>3, <1>4, <2>2, <2>3, KnownOf, LoadKeeps
    <3>2. CASE PagesOf(e.memsz) # 0
      BY <3>2, <1>1, <1>2, <1>3, <1>4, <1>7, <1>9, <2>2, <2>3, KnownOf, LoadKeeps
    <3> QED  BY <3>1, <3>2
  <2>5. Still /\ UNCHANGED <<nextHandle, threads>>  BY DEF LoadEntry, Still
  <2> QED  BY <2>2, <2>4, <2>5, LoaderStill
<1> QED  BY <1>8, <1>9

LEMMA MainStackStep ==
    ASSUME ImagesFit, ImageInv, NEW p \in Procs, MainStack(p)
    PROVE  ImageInv' /\ Stays
<1>1. /\ task[Loader(p)].pc = "entry" /\ task[Loader(p)].seg > Len(image[p].entries)
      /\ AllocateVirt(Loader(p), StackPage, StackPages, "args")
  BY DEF MainStack, At
<1>2. StackPage \in Page /\ StackPages \in Nat /\ StackPages # 0  BY FixedPlaces DEF Page
<1>3. PICK y : /\ Moved(Loader(p), y) /\ y.pc = (IF StackPages = 0 THEN "args" ELSE "phys")
               /\ y.va = StackPage /\ y.left = StackPages /\ y.ret = "args" /\ y.seg = task[Loader(p)].seg
  BY <1>1, <1>2, VirtMoves, KnownOf DEF PC, Return
<1>4. y \in Locals /\ y.pc = "phys"  BY <1>2, <1>3 DEF Moved
<1>5. ProcessSound(OwnMemory(p), root[p], image[p], y, Creator(p), Handles(p), nextHandle, p)
  BY <1>1, <1>3, <1>4, KnownOf, MainStackKeeps
<1>6. Still /\ UNCHANGED <<nextHandle, threads>>  BY DEF MainStack, Still
<1> QED  BY <1>3, <1>5, <1>6, LoaderStill

LEMMA MapArgsStep ==
    ASSUME ImagesFit, ImageInv, NEW p \in Procs, MapArgs(p)
    PROVE  ImageInv' /\ Stays
<1>1. task[Loader(p)].pc = "args"  BY DEF MapArgs, At
<1>2. Still /\ UNCHANGED <<nextHandle, threads>>  BY DEF MapArgs, Still
<1>3. CASE image[p].args = 0
  <2>1. Goto(Loader(p), "start")  BY <1>3 DEF MapArgs
  <2>2. PICK y : Moved(Loader(p), y) /\ y.pc = "start" /\ Rest4(task[Loader(p)], y)  BY <2>1, GotoMoves, KnownOf DEF PC
  <2>3. y \in Locals /\ y.seg = task[Loader(p)].seg  BY <2>2 DEF Moved, Rest4, SameCall
  <2>4. ProcessSound(OwnMemory(p), root[p], image[p], y, Creator(p), Handles(p), nextHandle, p)
    BY <1>1, <1>3, <2>2, <2>3, KnownOf, MapArgsKeeps
  <2> QED  BY <2>2, <2>4, <1>2, LoaderStill
<1>4. CASE image[p].args # 0
  <2>1. AllocateVirt(Loader(p), ArgsPage, 1, "copyargs")  BY <1>4 DEF MapArgs
  <2>2. PICK y : /\ Moved(Loader(p), y) /\ y.pc = (IF 1 = 0 THEN "copyargs" ELSE "phys")
                 /\ y.va = ArgsPage /\ y.left = 1 /\ y.ret = "copyargs" /\ y.seg = task[Loader(p)].seg
    BY <2>1, VirtMoves, KnownOf, FixedPlaces DEF PC, Return
  <2>3. y \in Locals /\ y.pc = "phys"  BY <2>2 DEF Moved
  <2>4. ProcessSound(OwnMemory(p), root[p], image[p], y, Creator(p), Handles(p), nextHandle, p)
    BY <1>1, <1>4, <2>2, <2>3, KnownOf, MapArgsKeeps
  <2> QED  BY <2>2, <2>4, <1>2, LoaderStill
<1> QED  BY <1>3, <1>4

LEMMA StartStep ==
    ASSUME ImagesFit, ImageInv, NEW p \in Procs, Start(p)
    PROVE  ImageInv' /\ Stays
<1>1. task[Loader(p)].pc = "start" /\ nextHandle <= MaxHandle /\ nextHandle' = nextHandle + 1 /\ threads' = threads
  BY DEF Start, At
<1>2. Goto(Loader(p), "running") /\ Still  BY DEF Start, Still
<1>3. PICK y : Moved(Loader(p), y) /\ y.pc = "running" /\ Rest4(task[Loader(p)], y)  BY <1>2, GotoMoves, KnownOf DEF PC
<1>4. y \in Locals /\ y.seg = task[Loader(p)].seg  BY <1>3 DEF Moved, Rest4, SameCall
<1>5. ProcessSound(OwnMemory(p), root[p], image[p], y, Creator(p), Handles(p), nextHandle + 1, p)
  BY <1>1, <1>3, <1>4, KnownOf, StartKeeps
<1>6. /\ task' \in [Task -> Locals] /\ task'[Loader(p)] = y /\ Creator(p)' = Creator(p)
      /\ \A u \in Task : u[1] # p => task'[u] = task[u]
  BY <1>3, LoaderMoved, KnownOf
<1>7. \A q \in Procs : Handles(q)' = Handles(q)  BY <1>1 DEF Handles
<1>8. nextHandle' \in 1..(MaxHandle + 1) /\ nextHandle <= nextHandle' /\ threads' \subseteq Procs \X (1..MaxHandle)
  BY <1>1, ImageAssumption DEF ImageInv, TypeOK
<1> QED  BY <1>1, <1>2, <1>5, <1>6, <1>7, <1>8, StillStep

\* A step of the creator that leaves memory alone.
LEMMA CreatorStill ==
    ASSUME ImagesFit, ImageInv, NEW t \in Task, t[2] # 0, Still, UNCHANGED threads, NEW y, Moved(t, y),
           nextHandle' \in 1..(MaxHandle + 1), nextHandle <= nextHandle',
           ProcessSound(OwnMemory(t[1]), root[t[1]], image[t[1]], task[Loader(t[1])], y, Handles(t[1]), nextHandle', t[1])
    PROVE  ImageInv' /\ Stays
<1>1. t[1] \in Procs  BY CreatorOf
<1>2. /\ task' \in [Task -> Locals] /\ Creator(t[1])' = y /\ task'[Loader(t[1])] = task[Loader(t[1])]
      /\ \A u \in Task : u[1] # t[1] => task'[u] = task[u]
  BY CreatorMoved DEF ImageInv
<1>3. \A q \in Procs : Handles(q)' = Handles(q)  BY DEF Handles
<1>4. threads' \subseteq Procs \X (1..MaxHandle)  BY DEF ImageInv, TypeOK
<1> QED  BY <1>1, <1>2, <1>3, <1>4, StillStep

LEMMA MissTableStep ==
    ASSUME ImagesFit, ImageInv, NEW t \in Task, MissTable(t)
    PROVE  ImageInv' /\ Stays
<1>1. t[1] \in Procs  BY CreatorOf
<1>2. PICK p \in Procs : p = t[1]  BY <1>1
<1>3. task[t].pc = "map" /\ Goto(t, "table") /\ ~IsEntry(RootEntry(p, task[t].va))  BY <1>2 DEF MissTable, At
<1>4. task[t] \in Locals /\ task[t].va \in Page  BY DEF ImageInv, TypeOK, Locals
<1>5. ~HasTable(OwnMemory(p), root[p], task[t].va \div PageSize)  BY <1>3, <1>4, KnownOf, SeenNow
<1>6. PICK y : Moved(t, y) /\ y.pc = "table" /\ Rest4(task[t], y)  BY <1>3, GotoMoves DEF PC, ImageInv
<1>7. Still /\ UNCHANGED <<nextHandle, threads>>  BY DEF MissTable, Still
<1>8. y.va = task[t].va /\ y.pa = task[t].pa /\ y.left = task[t].left /\ SameCall(task[t], y)  BY <1>6 DEF Rest4
<1>9. CASE t[2] = 0
  <2>1. t = Loader(p)  BY <1>2, <1>9, CreatorOf
  <2>2. Pending(OwnMemory(p), root[p], image[p], task[t])  BY <2>1, KnownOf DEF ProcessSound
  <2>3. Pending(OwnMemory(p), root[p], image[p], y)  BY <1>3, <1>5, <1>6, <1>8, <2>2, TablePending DEF Mapping
  <2>4. ProcessSound(OwnMemory(p), root[p], image[p], y, Creator(p), Handles(p), nextHandle, p)
    BY <1>3, <1>6, <1>8, <2>1, <2>3, KnownOf, LoaderAllocates DEF Mapping, Alloc
  <2> QED  BY <1>6, <1>7, <2>1, <2>4, LoaderStill
<1>10. CASE t[2] # 0
  <2>1. Creator(p) = task[t]  BY <1>2, <1>10, CreatorOf
  <2>2. Pending(OwnMemory(p), root[p], image[p], task[t])  BY <2>1, KnownOf DEF ProcessSound
  <2>3. Pending(OwnMemory(p), root[p], image[p], y)  BY <1>3, <1>5, <1>6, <1>8, <2>2, TablePending DEF Mapping
  <2>4. ProcessSound(OwnMemory(p), root[p], image[p], task[Loader(p)], y, Handles(p), nextHandle, p)
    BY <1>3, <1>6, <1>8, <2>1, <2>3, KnownOf, CreatorAllocates DEF Mapping, Alloc
  <2>5. nextHandle' = nextHandle /\ nextHandle' \in 1..(MaxHandle + 1) /\ nextHandle <= nextHandle'
    BY <1>7, ImageAssumption DEF ImageInv, TypeOK
  <2> QED  BY <1>2, <1>6, <1>7, <1>10, <2>4, <2>5, CreatorStill
<1> QED  BY <1>9, <1>10

\* Only a creator gets to these states.
LEMMA OnlyCreators ==
    ASSUME ImagesFit, ImageInv, NEW t \in Task, task[t].pc \in {"idle", "handle", "started"}
    PROVE  t[2] # 0 /\ t[1] \in Procs /\ Creator(t[1]) = task[t]
<1>1. t[1] \in Procs  BY CreatorOf
<1>2. LoaderSound(root[t[1]], image[t[1]], task[Loader(t[1])])  BY <1>1, KnownOf DEF ProcessSound
<1>3. task[Loader(t[1])].pc \notin {"idle", "handle", "started"}  BY <1>2 DEF LoaderSound
<1> QED  BY <1>1, <1>3, CreatorOf

LEMMA RegisterThreadStep ==
    ASSUME ImagesFit, ImageInv, NEW t \in Task, RegisterThread(t)
    PROVE  ImageInv' /\ Stays
<1>1. /\ task[t].pc = "handle" /\ nextHandle <= MaxHandle /\ nextHandle' = nextHandle + 1 /\ Still /\ threads' = threads
      /\ ToStack(t, StackOf(nextHandle), nextHandle)
  BY DEF RegisterThread, At, Still, ToStack
<1>2. t[2] # 0 /\ t[1] \in Procs /\ Creator(t[1]) = task[t]  BY <1>1, OnlyCreators
<1>3. PICK p \in Procs : p = t[1]  BY <1>2
<1>4. nextHandle \in 1..MaxHandle /\ nextHandle \in 0..MaxHandle  BY <1>1, ImageAssumption DEF ImageInv, TypeOK
<1>5. StackOf(nextHandle) \in Page  BY <1>4, StackPlaces, FixedPlaces DEF Page
<1>6. PICK y : /\ Moved(t, y) /\ y.pc = "phys" /\ y.va = StackOf(nextHandle) /\ y.left = StackPages
               /\ y.ret = "started" /\ y.h = nextHandle
  BY <1>1, <1>4, <1>5, RegisterMoves DEF ImageInv
<1>7. y \in Locals  BY <1>6 DEF Moved
<1>8. ProcessSound(OwnMemory(p), root[p], image[p], task[Loader(p)], y, Handles(p), nextHandle + 1, p)
  BY <1>1, <1>2, <1>3, <1>6, <1>7, KnownOf, RegisterKeeps
<1>9. nextHandle' \in 1..(MaxHandle + 1) /\ nextHandle <= nextHandle'  BY <1>1, <1>4, ImageAssumption
<1> QED  BY <1>1, <1>2, <1>3, <1>6, <1>8, <1>9, CreatorStill

LEMMA StartThreadStep ==
    ASSUME ImagesFit, ImageInv, NEW t \in Task, StartThread(t)
    PROVE  ImageInv' /\ Stays
<1>1. /\ task[t].pc = "started" /\ threads' = threads \cup {<<t[1], task[t].h>>} /\ Goto(t, "idle") /\ Still
      /\ nextHandle' = nextHandle
  BY DEF StartThread, At, Still
<1>2. t[2] # 0 /\ t[1] \in Procs /\ Creator(t[1]) = task[t]  BY <1>1, OnlyCreators
<1>3. PICK p \in Procs : p = t[1]  BY <1>2
<1>4. PICK y : Moved(t, y) /\ y.pc = "idle" /\ Rest4(task[t], y)  BY <1>1, GotoMoves DEF PC, ImageInv
<1>5. ProcessSound(OwnMemory(p), root[p], image[p], task[Loader(p)], y, Handles(p) \cup {task[t].h}, nextHandle, p)
  BY <1>1, <1>2, <1>3, <1>4, KnownOf, StartThreadKeeps
<1>6. task[t].h \in 1..MaxHandle
  <2>1. CreatorSound(task[Loader(p)], task[t], Handles(p), nextHandle)  BY <1>2, <1>3, KnownOf DEF ProcessSound
  <2>2. task[t].h \in 1..(nextHandle - 1)  BY <2>1, <1>1 DEF CreatorSound
  <2>3. nextHandle \in 1..(MaxHandle + 1) /\ MaxHandle \in Nat  BY ImageAssumption DEF ImageInv, TypeOK
  <2> QED  BY <2>2, <2>3
<1>7. Handles(p)' = Handles(p) \cup {task[t].h} /\ \A q \in Procs : q # p => Handles(q)' = Handles(q)
  <2>1. PICK k \in 1..MaxHandle : k = task[t].h  BY <1>6
  <2>2. threads' = threads \cup {<<p, k>>}  BY <1>1, <1>3, <2>1
  <2>3. \A q \in Procs, h \in 1..MaxHandle : <<q, h>> \in threads' <=> <<q, h>> \in threads \/ (q = p /\ h = k)  BY <2>2
  <2>4. Handles(p)' = Handles(p) \cup {k}  BY <2>3 DEF Handles
  <2>5. \A q \in Procs : q # p => Handles(q)' = Handles(q)  BY <2>3 DEF Handles
  <2> QED  BY <2>1, <2>4, <2>5
<1>8. threads' \subseteq Procs \X (1..MaxHandle)
  <2>1. threads \subseteq Procs \X (1..MaxHandle)  BY DEF ImageInv, TypeOK
  <2> QED  BY <2>1, <1>1, <1>2, <1>6
<1>9. /\ task' \in [Task -> Locals] /\ Creator(p)' = y /\ task'[Loader(p)] = task[Loader(p)]
      /\ \A u \in Task : u[1] # p => task'[u] = task[u]
  BY <1>2, <1>3, <1>4, CreatorMoved DEF ImageInv
<1>10. nextHandle' \in 1..(MaxHandle + 1) /\ nextHandle <= nextHandle'  BY <1>1, ImageAssumption DEF ImageInv, TypeOK
<1> QED  BY <1>1, <1>3, <1>5, <1>7, <1>8, <1>9, <1>10, StillStep

----------------------------------------------------------------------------
(* The actions that allocate frames. *)

LEMMA CellsTyped == Zero \in Cell /\ \A f \in Frame : Entry(f) \in Cell
BY DEF Zero, Entry, Cell, Frame

\* Process p gets the frames of B, full of zeros.
Gets(p, B) ==
    /\ B \subseteq avail /\ avail' = avail \ B /\ held'[p] = held[p] \cup B
    /\ held' \in [Procs -> SUBSET Frame] /\ (\A q \in Procs : q # p => held'[q] = held[q])
    /\ mem' \in [Frame -> [Offset -> Cell]]
    /\ \A g \in Frame : IF g \in B THEN \A o \in Offset : mem'[g][o] = Zero ELSE mem'[g] = mem[g]

LEMMA BlockCells ==
    ASSUME NEW f \in Nat, NEW n \in Nat \ {0}, NEW g \in Nat, NEW o \in Offset
    PROVE  g * PageSize + o - f * PageSize \in 0..(n * PageSize - 1) <=> g \in f..(f + n - 1)
<1>1. g * PageSize \in Nat /\ f * PageSize \in Nat /\ n * PageSize \in Nat  BY Cells
<1>2. o < PageSize /\ o >= 0 /\ o \in Int /\ PageSize \in Nat /\ PageSize > 0  BY Offsets DEF Offset
<1>3. ASSUME g * PageSize + o - f * PageSize \in 0..(n * PageSize - 1) PROVE g \in f..(f + n - 1)
  <2>1. PICK b : b = f * PageSize  OBVIOUS
  <2>2. PICK d \in Nat : d = g * PageSize  BY <1>1
  <2>3. PICK m \in Nat : m = n * PageSize  BY <1>1
  <2>4. d + (o - b) \in 0..(m - 1)  BY ONLY <1>3, <2>1, <2>2, <2>3, Zenon
  <2>6. Address(g, o) - b \in 0..(m - 1) /\ m <= n * PageSize
    <3>1. Address(g, o) = d + o  BY <2>2 DEF Address
    <3>2. b \in Nat  BY <2>1, <1>1
    <3>3. (d + o) - b \in 0..(m - 1)  BY ONLY <2>4, <3>2, <1>2, d \in Nat, m \in Nat, SMT
    <3> QED  BY <3>1, <3>3, <2>3
  <2>5. g - f \in 0..(n - 1)  BY <2>1, <2>6, PageBetween
  <2> QED  BY <2>5
<1>4. ASSUME g \in f..(f + n - 1) PROVE g * PageSize + o - f * PageSize \in 0..(n * PageSize - 1)
  <2>1. PICK k \in 0..(n - 1) : g = f + k
    <3>1. g - f \in 0..(n - 1) /\ g = f + (g - f)  BY <1>4
    <3> QED  BY <3>1
  <2>2. k + 1 <= n /\ k \in Nat  OBVIOUS
  <2>3. (k + 1) * PageSize <= n * PageSize  BY <2>2, <1>2
  <2>4. (k + 1) * PageSize = k * PageSize + PageSize /\ (f + k) * PageSize = f * PageSize + k * PageSize  BY <2>2, <1>2
  <2>5. k * PageSize \in Nat  BY <2>2, Cells
  <2> QED  BY <2>1, <2>3, <2>4, <2>5, <1>1, <1>2
<1> QED  BY <1>3, <1>4

LEMMA AllocateGives ==
    ASSUME ImageInv, NEW p \in Procs, NEW f \in Frame, NEW order, 2 ^ order \in Nat \ {0}, AllocatePhys(p, order, f)
    PROVE  Gets(p, f..(f + 2 ^ order - 1))
<1>1. PICK n \in Nat \ {0} : n = 2 ^ order  OBVIOUS
<1>2. PICK B : B = f..(f + n - 1)  OBVIOUS
<1>3. B = Block(f, order)  BY <1>1, <1>2 DEF Block
<1>4. B \subseteq avail /\ avail' = avail \ B /\ held' = [held EXCEPT ![p] = @ \cup B]
  BY <1>3 DEF AllocatePhys, FirstFit, Fits
<1>5. /\ avail \subseteq Frame /\ held \in [Procs -> SUBSET Frame] /\ mem \in [Frame -> [Offset -> Cell]]
  BY DEF ImageInv, TypeOK
<1>6. held'[p] = held[p] \cup B /\ held' \in [Procs -> SUBSET Frame] /\ \A q \in Procs : q # p => held'[q] = held[q]
  BY <1>4, <1>5
<1>7. PICK cells : cells = [k \in 0..(n * PageSize - 1) |-> Zero]  OBVIOUS
<1>8. mem' = [g \in Frame |-> [o \in Offset |->
                 IF g * PageSize + o - f * PageSize \in DOMAIN cells THEN cells[g * PageSize + o - f * PageSize]
                                                                     ELSE mem[g][o]]]
  BY <1>1, <1>7 DEF AllocatePhys, Written
<1>9. DOMAIN cells = 0..(n * PageSize - 1) /\ \A k \in DOMAIN cells : cells[k] = Zero  BY <1>7
<1>10. f \in Nat /\ \A g \in Frame : g \in Nat  BY DEF Frame
<1>11. \A g \in Frame, o \in Offset : g * PageSize + o - f * PageSize \in DOMAIN cells <=> g \in B
  BY <1>2, <1>9, <1>10, BlockCells
<1>12. mem' = [g \in Frame |-> [o \in Offset |-> IF g \in B THEN Zero ELSE mem[g][o]]]
  <2>1. \A g \in Frame, o \in Offset :
           (IF g * PageSize + o - f * PageSize \in DOMAIN cells THEN cells[g * PageSize + o - f * PageSize]
            ELSE mem[g][o]) = IF g \in B THEN Zero ELSE mem[g][o]
    BY <1>9, <1>11
  <2> QED  BY <1>8, <2>1
<1>13. \A g \in Frame : mem'[g] \in [Offset -> Cell]  BY <1>5, <1>12, CellsTyped
<1>14. mem' \in [Frame -> [Offset -> Cell]]  BY <1>12, <1>13
<1>15. ASSUME NEW g \in Frame PROVE IF g \in B THEN \A o \in Offset : mem'[g][o] = Zero ELSE mem'[g] = mem[g]
  <2>1. CASE g \in B  BY <2>1, <1>12
  <2>2. CASE g \notin B
    <3>1. mem'[g] = [o \in Offset |-> mem[g][o]]  BY <2>2, <1>12
    <3>2. mem[g] \in [Offset -> Cell]  BY <1>5
    <3> QED  BY <2>2, <3>1, <3>2
  <2> QED  BY <2>1, <2>2
<1> QED  BY <1>1, <1>2, <1>4, <1>6, <1>14, <1>15 DEF Gets

\* What that means for the process, and for the others.
LEMMA GetsFrames ==
    ASSUME ImagesFit, ImageInv, NEW p \in Procs, NEW B, Gets(p, B), image' = image,
           root' \in [Procs -> Frame \cup {None}], \A q \in Procs : q # p => root'[q] = root[q],
           task' \in [Task -> Locals], \A u \in Task : u[1] # p => task'[u] = task[u],
           UNCHANGED <<nextHandle, threads, halted>>
    PROVE  /\ Framed(p) /\ Handles(p)' = Handles(p) /\ nextHandle' = nextHandle
           /\ Typed(OwnMemory(p)') /\ DOMAIN OwnMemory(p) \subseteq DOMAIN OwnMemory(p)'
           /\ \A f \in DOMAIN OwnMemory(p) : OwnMemory(p)'[f] = OwnMemory(p)[f]
           /\ \A f \in B : f \in DOMAIN OwnMemory(p)' \ DOMAIN OwnMemory(p) /\ \A o \in Offset : OwnMemory(p)'[f][o] = Zero
<1>1. TypeOK /\ FramesApart /\ mem \in [Frame -> [Offset -> Cell]]  BY DEF ImageInv
<1>2. B \subseteq Frame /\ avail \subseteq Frame /\ held[p] \subseteq Frame /\ B \cap held[p] = {}
  BY <1>1 DEF TypeOK, Gets, FramesApart
<1>3. TypeOK'
  <2>1. \A f \in Frame : DOMAIN mem'[f] = Offset  BY DEF Gets
  <2>2. DOMAIN mem' = Frame  BY DEF Gets
  <2>3. avail' \subseteq Frame /\ held' \in [Procs -> SUBSET Frame]  BY <1>2 DEF Gets
  <2> QED  BY <2>1, <2>2, <2>3, <1>1 DEF TypeOK
<1>4. FramesApart'
  <2>1. ASSUME NEW q \in Procs PROVE held'[q] \cap avail' = {}
    BY <1>1 DEF FramesApart, Gets
  <2>2. ASSUME NEW q \in Procs, NEW s \in Procs, q # s PROVE held'[q] \cap held'[s] = {}
    <3>1. held[q] \cap held[s] = {} /\ held[q] \cap B = {} /\ held[s] \cap B = {}  BY <1>1, <2>2 DEF FramesApart, Gets
    <3>2. held'[q] \subseteq held[q] \cup B /\ held'[s] \subseteq held[s] \cup B  BY DEF Gets
    <3>3. q = p => held'[s] = held[s]  BY <2>2 DEF Gets
    <3>4. q # p => held'[q] = held[q]  BY DEF Gets
    <3> QED  BY <3>1, <3>2, <3>3, <3>4
  <2> QED  BY <2>1, <2>2 DEF FramesApart
<1>5. OthersKept(p)
  <2>1. ASSUME NEW q \in Procs, q # p, NEW f \in held[q] PROVE mem'[f] = mem[f]
    <3>1. f \in Frame /\ f \notin B  BY <1>1, <2>1 DEF TypeOK, FramesApart, Gets
    <3> QED  BY <3>1 DEF Gets
  <2>2. \A q \in Procs : Handles(q)' = Handles(q)  BY DEF Handles
  <2>3. nextHandle <= nextHandle'  BY <1>1, ImageAssumption DEF TypeOK
  <2> QED  BY <2>1, <2>2, <2>3 DEF OthersKept, Gets
<1>6. Framed(p)  BY <1>3, <1>4, <1>5 DEF Framed, Gets
<1>7. DOMAIN OwnMemory(p) = held[p] /\ DOMAIN OwnMemory(p)' = held[p] \cup B
  BY DEF OwnMemory, Gets
<1>8. \A f \in held[p] \cup B : OwnMemory(p)'[f] = mem'[f]  BY DEF OwnMemory, Gets
<1>9. \A f \in held[p] : OwnMemory(p)[f] = mem[f] /\ f \in Frame /\ f \notin B  BY <1>2 DEF OwnMemory
<1>10. Typed(OwnMemory(p)')  BY <1>2, <1>7, <1>8 DEF Typed, Gets
<1>11. \A f \in held[p] : OwnMemory(p)'[f] = OwnMemory(p)[f]  BY <1>8, <1>9 DEF Gets
<1>12. \A f \in B : f \notin held[p] /\ \A o \in Offset : OwnMemory(p)'[f][o] = Zero  BY <1>2, <1>8 DEF Gets
<1>13. Handles(p)' = Handles(p)  BY DEF Handles
<1> QED  BY <1>6, <1>7, <1>10, <1>11, <1>12, <1>13

LEMMA MakeVMAStep ==
    ASSUME ImagesFit, ImageInv, NEW p \in Procs, MakeVMA(p)
    PROVE  ImageInv' /\ Stays
<1>1. PICK f \in Frame : AllocatePhys(p, 0, f) /\ root' = [root EXCEPT ![p] = f]  BY DEF MakeVMA
<1>2. PICK B : Gets(p, B) /\ f \in B
  <2>1. 2 ^ 0 = 1  BY PowerAssumption
  <2>4. PICK k : k = 0  OBVIOUS
  <2>5. 2 ^ k \in Nat \ {0} /\ AllocatePhys(p, k, f)  BY <1>1, <2>1, <2>4
  <2>6. Gets(p, f..(f + 2 ^ k - 1))  BY <2>5, AllocateGives
  <2>2. Gets(p, f..(f + 2 ^ 0 - 1))  BY <2>4, <2>6
  <2>3. f \in f..(f + 2 ^ 0 - 1)  BY <2>1 DEF Frame
  <2> QED  BY <2>2, <2>3
<1>3. /\ task[Loader(p)].pc = "vma" /\ Goto(Loader(p), "kstack") /\ image' = image
      /\ UNCHANGED <<nextHandle, threads, halted>>
  BY DEF MakeVMA, At
<1>4. TypeOK /\ Loader(p) \in Task  BY KnownOf
<1>5. PICK y : Moved(Loader(p), y) /\ y.pc = "kstack" /\ Rest4(task[Loader(p)], y)  BY <1>3, <1>4, GotoMoves DEF PC
<1>6. /\ task' \in [Task -> Locals] /\ task'[Loader(p)] = y /\ Creator(p)' = Creator(p)
      /\ \A u \in Task : u[1] # p => task'[u] = task[u]
  BY <1>4, <1>5, LoaderMoved
<1>7. root' \in [Procs -> Frame \cup {None}] /\ root'[p] = f /\ \A q \in Procs : q # p => root'[q] = root[q]
  BY <1>1, <1>4 DEF TypeOK
<1>8. /\ Framed(p) /\ Handles(p)' = Handles(p) /\ nextHandle' = nextHandle
      /\ Typed(OwnMemory(p)') /\ f \in DOMAIN OwnMemory(p)' /\ \A o \in Offset : OwnMemory(p)'[f][o] = Zero
  BY <1>2, <1>3, <1>6, <1>7, GetsFrames
<1>9. root[p] = None  BY <1>3, KnownOf DEF ProcessSound, LoaderSound
<1>10. y \in Locals /\ y.seg = task[Loader(p)].seg  BY <1>5 DEF Moved, Rest4, SameCall
<1>11. /\ ProcessSound(OwnMemory(p)', f, image[p], y, Creator(p), Handles(p), nextHandle, p)
       /\ Grows(OwnMemory(p), OwnMemory(p)', root[p])
  BY <1>3, <1>5, <1>8, <1>10, KnownOf, RootKeeps
<1> QED  BY <1>6, <1>7, <1>8, <1>9, <1>11, StepOf

\* A process gets frames for another use than the root: they are unused, and all is as it was.
LEMMA GetsMore ==
    ASSUME ImagesFit, ImageInv, NEW p \in Procs, NEW B, Gets(p, B), UNCHANGED <<image, root, nextHandle, threads, halted>>,
           task' \in [Task -> Locals], \A u \in Task : u[1] # p => task'[u] = task[u]
    PROVE  /\ Framed(p) /\ Handles(p)' = Handles(p) /\ nextHandle' = nextHandle /\ root'[p] = root[p]
           /\ Grows(OwnMemory(p), OwnMemory(p)', root[p])
           /\ ProcessSound(OwnMemory(p)', root[p], image[p], task[Loader(p)], Creator(p), Handles(p), nextHandle, p)
           /\ \A f \in B : Unused(OwnMemory(p)', root[p], f) /\ \A o \in Offset : OwnMemory(p)'[f][o] = Zero
<1>1. root' \in [Procs -> Frame \cup {None}] /\ image' = image /\ root' = root  BY DEF ImageInv, TypeOK
<1>2. /\ Framed(p) /\ Handles(p)' = Handles(p) /\ nextHandle' = nextHandle
      /\ Typed(OwnMemory(p)') /\ DOMAIN OwnMemory(p) \subseteq DOMAIN OwnMemory(p)'
      /\ \A f \in DOMAIN OwnMemory(p) : OwnMemory(p)'[f] = OwnMemory(p)[f]
      /\ \A f \in B : f \in DOMAIN OwnMemory(p)' \ DOMAIN OwnMemory(p) /\ \A o \in Offset : OwnMemory(p)'[f][o] = Zero
  BY <1>1, GetsFrames
<1>3. /\ ProcessSound(OwnMemory(p)', root[p], image[p], task[Loader(p)], Creator(p), Handles(p), nextHandle, p)
      /\ Grows(OwnMemory(p), OwnMemory(p)', root[p])
      /\ \A f \in DOMAIN OwnMemory(p)' \ DOMAIN OwnMemory(p) : Unused(OwnMemory(p)', root[p], f)
  BY <1>2, KnownOf, MoreMemory
<1> QED  BY <1>1, <1>2, <1>3

LEMMA MainThreadStep ==
    ASSUME ImagesFit, ImageInv, NEW p \in Procs, MainThread(p)
    PROVE  ImageInv' /\ Stays
<1>1. PICK f \in Frame : AllocatePhys(p, 1, f)  BY DEF MainThread
<1>2. PICK B : Gets(p, B)
  <2>1. 2 ^ 1 = 2  BY PowerAssumption
  <2>4. PICK k : k = 1  OBVIOUS
  <2>5. 2 ^ k \in Nat \ {0} /\ AllocatePhys(p, k, f)  BY <1>1, <2>1, <2>4
  <2>6. Gets(p, f..(f + 2 ^ k - 1))  BY <2>5, AllocateGives
  <2>2. Gets(p, f..(f + 2 ^ 1 - 1))  BY <2>4, <2>6
  <2> QED  BY <2>2
<1>3. /\ task[Loader(p)].pc = "kstack" /\ ToEntry(Loader(p), 1) /\ UNCHANGED <<image, root, nextHandle, threads, halted>>
  BY DEF MainThread, At, ToEntry
<1>4. TypeOK /\ Loader(p) \in Task  BY KnownOf
<1>5. PICK y : Moved(Loader(p), y) /\ y.pc = "entry" /\ y.seg = 1  BY <1>3, <1>4, SegMoves
<1>6. /\ task' \in [Task -> Locals] /\ task'[Loader(p)] = y /\ Creator(p)' = Creator(p)
      /\ \A u \in Task : u[1] # p => task'[u] = task[u]
  BY <1>4, <1>5, LoaderMoved
<1>7. /\ Framed(p) /\ Handles(p)' = Handles(p) /\ nextHandle' = nextHandle /\ root'[p] = root[p]
      /\ Grows(OwnMemory(p), OwnMemory(p)', root[p])
      /\ ProcessSound(OwnMemory(p)', root[p], image[p], task[Loader(p)], Creator(p), Handles(p), nextHandle, p)
  BY <1>2, <1>3, <1>6, GetsMore
<1>8. y \in Locals  BY <1>5 DEF Moved
<1>9. ProcessSound(OwnMemory(p)', root[p], image[p], y, Creator(p), Handles(p), nextHandle, p)
  BY <1>3, <1>5, <1>7, <1>8, KnownOf, MainThreadKeeps
<1> QED  BY <1>6, <1>7, <1>9, StepOf

LEMMA CreateThreadStep ==
    ASSUME ImagesFit, ImageInv, NEW t \in Task, CreateThread(t)
    PROVE  ImageInv' /\ Stays
<1>1. PICK f \in Frame : AllocatePhys(t[1], 1, f)  BY DEF CreateThread
<1>2. /\ task[t].pc = "idle" /\ task[Loader(t[1])].pc = "running" /\ Goto(t, "handle")
      /\ UNCHANGED <<image, root, nextHandle, threads, halted>>
  BY DEF CreateThread, MayCreate, At
<1>3. t[2] # 0 /\ t[1] \in Procs /\ Creator(t[1]) = task[t]  BY <1>2, OnlyCreators
<1>4. PICK p \in Procs : p = t[1]  BY <1>3
<1>5. PICK B : Gets(p, B)
  <2>1. 2 ^ 1 = 2  BY PowerAssumption
  <2>4. PICK k : k = 1  OBVIOUS
  <2>5. 2 ^ k \in Nat \ {0} /\ AllocatePhys(p, k, f)  BY <1>1, <1>4, <2>1, <2>4
  <2>6. Gets(p, f..(f + 2 ^ k - 1))  BY <2>5, AllocateGives
  <2>2. Gets(p, f..(f + 2 ^ 1 - 1))  BY <2>4, <2>6
  <2> QED  BY <2>2
<1>6. PICK y : Moved(t, y) /\ y.pc = "handle"  BY <1>2, GotoMoves DEF PC, ImageInv
<1>7. /\ task' \in [Task -> Locals] /\ Creator(p)' = y /\ task'[Loader(p)] = task[Loader(p)]
      /\ \A u \in Task : u[1] # p => task'[u] = task[u]
  BY <1>3, <1>4, <1>6, CreatorMoved DEF ImageInv
<1>8. /\ Framed(p) /\ Handles(p)' = Handles(p) /\ nextHandle' = nextHandle /\ root'[p] = root[p]
      /\ Grows(OwnMemory(p), OwnMemory(p)', root[p])
      /\ ProcessSound(OwnMemory(p)', root[p], image[p], task[Loader(p)], Creator(p), Handles(p), nextHandle, p)
  BY <1>2, <1>5, <1>7, GetsMore
<1>9. ProcessSound(OwnMemory(p)', root[p], image[p], task[Loader(p)], y, Handles(p), nextHandle, p)
  BY <1>2, <1>3, <1>4, <1>6, <1>8, CreateKeeps
<1> QED  BY <1>7, <1>8, <1>9, StepOf

\* A task in allocate_virt, whichever of the two it is.
LEMMA AllocatingTask ==
    ASSUME ImagesFit, ImageInv, NEW t \in Task, task[t].pc \in Alloc
    PROVE  /\ t[1] \in Procs /\ task[t] \in Locals /\ root[t[1]] \in Frame /\ task[t].ret \in PC
           /\ Pending(OwnMemory(t[1]), root[t[1]], image[t[1]], task[t])
           /\ Base(image[t[1]], task[t]) \in Nat /\ Count(image[t[1]], task[t]) \in Nat \ {0}
           /\ Base(image[t[1]], task[t]) + Count(image[t[1]], task[t]) < NrPages
<1>1. PICK p \in Procs : p = t[1]  BY CreatorOf
<1>2. Setting(root[p], image[p], task[Loader(p)], Creator(p), Handles(p), nextHandle, p)  BY KnownOf
<1>3. ProcessSound(OwnMemory(p), root[p], image[p], task[Loader(p)], Creator(p), Handles(p), nextHandle, p)  BY KnownOf
<1>4. LoaderSound(root[p], image[p], task[Loader(p)]) /\ CreatorSound(task[Loader(p)], Creator(p), Handles(p), nextHandle)
  BY <1>3 DEF ProcessSound
<1>5. task[t] \in {task[Loader(p)], Creator(p)}  BY <1>1, CreatorOf
<1>6. Pending(OwnMemory(p), root[p], image[p], task[t])  BY <1>3, <1>5 DEF ProcessSound
<1>7. task[t] \in Locals  BY DEF ImageInv, TypeOK
<1>8. task[t].ret \in PC
  <2>1. task[t] = task[Loader(p)] => task[t].ret \in {"copy", "args", "copyargs"}  BY <1>4 DEF LoaderSound
  <2>2. task[t] = Creator(p) => task[t].ret = "started"  BY <1>4 DEF CreatorSound
  <2> QED  BY <1>5, <2>1, <2>2 DEF PC
<1>9. root[p] # None
  <2>1. task[t] = task[Loader(p)] => root[p] # None  BY <1>4 DEF LoaderSound, Alloc
  <2>2. task[t] = Creator(p) => task[Loader(p)].pc = "running"  BY <1>4 DEF CreatorSound, Alloc
  <2>3. task[Loader(p)].pc = "running" => root[p] # None  BY <1>4 DEF LoaderSound
  <2> QED  BY <1>5, <2>1, <2>2, <2>3
<1>10. root[p] \in Frame  BY <1>2, <1>9 DEF Setting
<1>11. Base(image[p], task[t]) \in Nat /\ Count(image[p], task[t]) \in Nat \ {0} /\ Base(image[p], task[t]) + Count(image[p], task[t]) < NrPages
  BY <1>2, <1>4, <1>5, TargetPlaces
<1> QED  BY <1>1, <1>6, <1>7, <1>8, <1>10, <1>11

\* A task takes its step: what its process knows of it, and what the others see.
LEMMA TaskMoved ==
    ASSUME ImagesFit, ImageInv, NEW t \in Task, NEW y, Moved(t, y)
    PROVE  /\ task' \in [Task -> Locals] /\ \A u \in Task : u[1] # t[1] => task'[u] = task[u]
           /\ t[2] = 0 => /\ t = Loader(t[1]) /\ task'[Loader(t[1])] = y /\ Creator(t[1])' = Creator(t[1])
           /\ t[2] # 0 => /\ Creator(t[1]) = task[t] /\ Creator(t[1])' = y /\ task'[Loader(t[1])] = task[Loader(t[1])]
<1>1. TypeOK  BY DEF ImageInv
<1>2. PICK p \in Procs : p = t[1]  BY CreatorOf
<1>3. CASE t[2] = 0
  <2>1. t = Loader(p)  BY <1>2, <1>3, CreatorOf
  <2> QED  BY <1>1, <1>2, <1>3, <2>1, LoaderMoved
<1>4. CASE t[2] # 0
  <2>1. Creator(p) = task[t]  BY <1>2, <1>4, CreatorOf
  <2> QED  BY <1>1, <1>2, <1>4, <2>1, CreatorMoved
<1> QED  BY <1>3, <1>4

LEMMA BlocksStep ==
    ASSUME ImagesFit, ImageInv, NEW t \in Task, Blocks(t)
    PROVE  ImageInv' /\ Stays
<1>1. PICK f \in Frame : AllocatePhys(t[1], Order(task[t].left), f) /\ ToBlock(t, f, Rounded(task[t].left))
  BY DEF Blocks, ToBlock, Rounded
<1>2. task[t].pc = "phys" /\ task[t].pc \in Alloc /\ UNCHANGED <<image, root, nextHandle, threads, halted>>
  BY DEF Blocks, At, Alloc
<1>3. PICK p \in Procs : p = t[1]  BY CreatorOf
<1>4. /\ task[t] \in Locals /\ Pending(OwnMemory(p), root[p], image[p], task[t])
      /\ Count(image[p], task[t]) \in Nat \ {0}
  BY <1>2, <1>3, AllocatingTask
<1>5. Rounded(task[t].left) = Count(image[p], task[t])  BY <1>2, <1>4 DEF Pending
<1>6. PICK n \in Nat \ {0} : n = Rounded(task[t].left)  BY <1>4, <1>5
<1>7. Gets(p, f..(f + n - 1))
  <2>1. PICK k : k = Order(task[t].left)  OBVIOUS
  <2>2. 2 ^ k = n  BY <1>6, <2>1 DEF Rounded
  <2>3. 2 ^ k \in Nat \ {0} /\ AllocatePhys(p, k, f)  BY <1>1, <1>3, <2>1, <2>2
  <2>4. Gets(p, f..(f + 2 ^ k - 1))  BY <2>3, AllocateGives
  <2> QED  BY <2>2, <2>4
<1>8. PICK y : Moved(t, y) /\ y.pc = "map" /\ y.pa = f /\ y.left = n /\ y.va = task[t].va /\ SameCall(task[t], y)
  <2>1. TypeOK /\ ToBlock(t, f, n)  BY <1>1, <1>6 DEF ImageInv
  <2> QED  BY <2>1, BlockMoves
<1>9. task' \in [Task -> Locals] /\ \A u \in Task : u[1] # p => task'[u] = task[u]  BY <1>3, <1>8, TaskMoved
<1>10. /\ Framed(p) /\ Handles(p)' = Handles(p) /\ nextHandle' = nextHandle /\ root'[p] = root[p]
       /\ Grows(OwnMemory(p), OwnMemory(p)', root[p])
       /\ ProcessSound(OwnMemory(p)', root[p], image[p], task[Loader(p)], Creator(p), Handles(p), nextHandle, p)
       /\ \A g \in f..(f + n - 1) : Unused(OwnMemory(p)', root[p], g) /\ \A o \in Offset : OwnMemory(p)'[g][o] = Zero
  BY <1>2, <1>7, <1>9, GetsMore
<1>11. \A k \in 0..(n - 1) : Unused(OwnMemory(p)', root[p], f + k) /\ \A o \in Offset : OwnMemory(p)'[f + k][o] = Zero
  <2>1. \A k \in 0..(n - 1) : f + k \in f..(f + n - 1)  BY DEF Frame
  <2> QED  BY <1>10, <2>1
<1>12. task[t] \in {task[Loader(p)], Creator(p)}  BY <1>3, CreatorOf
<1>13. Pending(OwnMemory(p)', root[p], image[p], task[t])  BY <1>10, <1>12 DEF ProcessSound
<1>14. y.left = Rounded(task[t].left)  BY <1>6, <1>8
<1>15. \A k \in 0..(Rounded(task[t].left) - 1) : Unused(OwnMemory(p)', root[p], f + k) /\ \A o \in Offset : OwnMemory(p)'[f + k][o] = Zero
  BY <1>6, <1>11
<1>16. Pending(OwnMemory(p)', root[p], image[p], y)
  BY <1>2, <1>4, <1>8, <1>13, <1>14, <1>15, BlockPending
<1>17. y.pc \in Alloc /\ task[t].pc \notin Mapping  BY <1>2, <1>8 DEF Alloc, Mapping
<1>18. CASE t[2] = 0
  <2>1. task[t] = task[Loader(p)] /\ task'[Loader(p)] = y /\ Creator(p)' = Creator(p)  BY <1>3, <1>8, <1>18, TaskMoved
  <2>2. ProcessSound(OwnMemory(p)', root[p], image[p], y, Creator(p), Handles(p), nextHandle, p)
    BY <1>2, <1>8, <1>10, <1>16, <1>17, <2>1, LoaderAllocates
  <2> QED  BY <1>10, <2>1, <2>2, StepOf
<1>19. CASE t[2] # 0
  <2>1. task[t] = Creator(p) /\ task'[Loader(p)] = task[Loader(p)] /\ Creator(p)' = y  BY <1>3, <1>8, <1>19, TaskMoved
  <2>2. ProcessSound(OwnMemory(p)', root[p], image[p], task[Loader(p)], y, Handles(p), nextHandle, p)
    BY <1>2, <1>8, <1>10, <1>16, <1>17, <2>1, CreatorAllocates
  <2> QED  BY <1>10, <2>1, <2>2, StepOf
<1> QED  BY <1>18, <1>19

----------------------------------------------------------------------------
(* The actions that write to memory. *)

\* Process p gets the frames of B, and only its own frames are written.
Writes(p, B) ==
    /\ B \subseteq avail /\ avail' = avail \ B /\ held' = [held EXCEPT ![p] = @ \cup B]
    /\ mem' \in [Frame -> [Offset -> Cell]] /\ \A g \in Frame : g \notin held[p] \cup B => mem'[g] = mem[g]
    /\ UNCHANGED <<image, root, nextHandle, threads, halted>>

LEMMA WritesFrames ==
    ASSUME ImagesFit, ImageInv, NEW p \in Procs, NEW B, Writes(p, B),
           task' \in [Task -> Locals], \A u \in Task : u[1] # p => task'[u] = task[u]
    PROVE  /\ Framed(p) /\ Handles(p)' = Handles(p) /\ nextHandle' = nextHandle /\ root'[p] = root[p]
           /\ Typed(OwnMemory(p)') /\ DOMAIN OwnMemory(p) = held[p] /\ DOMAIN OwnMemory(p)' = held[p] \cup B
           /\ held[p] \subseteq Frame /\ B \subseteq Frame
           /\ (\A g \in held[p] : OwnMemory(p)[g] = mem[g]) /\ \A g \in held[p] \cup B : OwnMemory(p)'[g] = mem'[g]
<1>1. TypeOK /\ FramesApart /\ mem \in [Frame -> [Offset -> Cell]]  BY DEF ImageInv
<1>2. /\ image' = image /\ root' = root /\ nextHandle' = nextHandle /\ threads' = threads /\ halted' = halted
      /\ B \subseteq avail /\ avail' = avail \ B
  BY DEF Writes
<1>3. /\ held' \in [Procs -> SUBSET Frame] /\ held'[p] = held[p] \cup B /\ held[p] \subseteq Frame /\ B \subseteq Frame
      /\ (\A q \in Procs : q # p => held'[q] = held[q])
  BY <1>1 DEF TypeOK, Writes
<1>4. TypeOK'
  <2>1. \A f \in Frame : DOMAIN mem'[f] = Offset  BY DEF Writes
  <2>2. DOMAIN mem' = Frame  BY DEF Writes
  <2>3. avail' \subseteq Frame  BY <1>1, <1>2 DEF TypeOK
  <2> QED  BY <2>1, <2>2, <2>3, <1>1, <1>2, <1>3 DEF TypeOK
<1>5. FramesApart'
  <2>1. ASSUME NEW q \in Procs PROVE held'[q] \cap avail' = {}
    BY <1>1, <1>2, <1>3 DEF FramesApart
  <2>2. ASSUME NEW q \in Procs, NEW s \in Procs, q # s PROVE held'[q] \cap held'[s] = {}
    <3>1. held[q] \cap held[s] = {} /\ held[q] \cap B = {} /\ held[s] \cap B = {}  BY <1>1, <1>2, <2>2 DEF FramesApart
    <3>2. held'[q] \subseteq held[q] \cup B /\ held'[s] \subseteq held[s] \cup B  BY <1>3
    <3>3. q = p => held'[s] = held[s]  BY <2>2, <1>3
    <3>4. q # p => held'[q] = held[q]  BY <1>3
    <3> QED  BY <3>1, <3>2, <3>3, <3>4
  <2> QED  BY <2>1, <2>2 DEF FramesApart
<1>6. OthersKept(p)
  <2>1. ASSUME NEW q \in Procs, q # p, NEW f \in held[q] PROVE mem'[f] = mem[f]
    <3>1. f \in Frame  BY <1>1 DEF TypeOK
    <3>2. f \notin held[p] \cup B  BY <1>1, <1>2, <2>1 DEF FramesApart
    <3> QED  BY <3>1, <3>2 DEF Writes
  <2>2. \A q \in Procs : Handles(q)' = Handles(q)  BY <1>2 DEF Handles
  <2>3. nextHandle <= nextHandle'  BY <1>1, <1>2, ImageAssumption DEF TypeOK
  <2> QED  BY <2>1, <2>2, <2>3, <1>2, <1>3 DEF OthersKept
<1>7. Framed(p)  BY <1>4, <1>5, <1>6 DEF Framed, Writes
<1>8. DOMAIN OwnMemory(p) = held[p] /\ DOMAIN OwnMemory(p)' = held[p] \cup B  BY <1>3 DEF OwnMemory
<1>9. \A g \in held[p] \cup B : OwnMemory(p)'[g] = mem'[g]  BY <1>3 DEF OwnMemory
<1>10. \A g \in held[p] : OwnMemory(p)[g] = mem[g]  BY DEF OwnMemory
<1>11. Typed(OwnMemory(p)')  BY <1>3, <1>8, <1>9 DEF Typed, Writes
<1>12. Handles(p)' = Handles(p)  BY <1>2 DEF Handles
<1> QED  BY <1>2, <1>3, <1>7, <1>8, <1>9, <1>10, <1>11, <1>12

LEMMA MakeTableStep ==
    ASSUME ImagesFit, ImageInv, NEW t \in Task, MakeTable(t)
    PROVE  ImageInv' /\ Stays
<1>1. PICK p \in Procs : p = t[1]  BY CreatorOf
<1>2. task[t].pc = "table" /\ Goto(t, "map") /\ UNCHANGED <<image, root, nextHandle, threads, halted>>
  BY DEF MakeTable, At
<1>3. PICK f \in Frame : /\ FirstFit(f, 0) /\ avail' = avail \ {f} /\ held' = [held EXCEPT ![p] = @ \cup {f}]
                         /\ mem' = [mem EXCEPT ![f] = [o \in Offset |-> Zero],
                                               ![root[p]][task[t].va \div PageSize] = Entry(f)]
  BY <1>1 DEF MakeTable
<1>4. f \in avail
  <2>1. f..(f + 2 ^ 0 - 1) \subseteq avail  BY <1>3 DEF FirstFit, Fits, Block
  <2>2. 2 ^ 0 = 1  BY PowerAssumption
  <2>3. f \in f..(f + 2 ^ 0 - 1)  BY <2>2 DEF Frame
  <2> QED  BY <2>1, <2>3
<1>5. task[t].pc \in Alloc  BY <1>2 DEF Alloc
<1>6. root[p] \in Frame /\ Pending(OwnMemory(p), root[p], image[p], task[t]) /\ task[t] \in Locals
  BY <1>1, <1>5, AllocatingTask
<1>7. PICK a \in Offset : a = task[t].va \div PageSize
  <2>1. task[t].va \in Page  BY <1>6 DEF Locals
  <2> QED  BY <2>1, Offsets
<1>8. ~HasTable(OwnMemory(p), root[p], a)  BY <1>2, <1>5, <1>6, <1>7 DEF Pending
<1>9. Sound(OwnMemory(p), root[p])  BY KnownOf
<1>10. root[p] # None  BY <1>6 DEF Frame, None
<1>11. root[p] \in held[p]  BY <1>9, <1>10 DEF Sound, OwnMemory
<1>12. root[p] # f  BY <1>4, <1>11 DEF ImageInv, FramesApart
<1>13. mem \in [Frame -> [Offset -> Cell]]  BY DEF ImageInv
<1>14. PICK zs : zs = [o \in Offset |-> Zero]  OBVIOUS
<1>15. zs \in [Offset -> Cell]  BY <1>14, CellsTyped
<1>16. /\ mem' = [[mem EXCEPT ![f] = zs] EXCEPT ![root[p]] = [@ EXCEPT ![a] = Entry(f)]]
  BY <1>3, <1>7, <1>14
<1>17. PICK m1 : m1 = [mem EXCEPT ![f] = zs]  OBVIOUS
<1>18. m1 \in [Frame -> [Offset -> Cell]] /\ m1[f] = zs /\ \A g \in Frame : g # f => m1[g] = mem[g]
  BY <1>13, <1>15, <1>17
<1>19. PICK line : line = [m1[root[p]] EXCEPT ![a] = Entry(f)]  OBVIOUS
<1>20. line \in [Offset -> Cell] /\ line = [mem[root[p]] EXCEPT ![a] = Entry(f)]
  <2>1. m1[root[p]] = mem[root[p]] /\ m1[root[p]] \in [Offset -> Cell]  BY <1>6, <1>12, <1>18
  <2>2. Entry(f) \in Cell  BY CellsTyped
  <2> QED  BY <1>19, <2>1, <2>2
<1>21. mem' = [m1 EXCEPT ![root[p]] = line]  BY <1>16, <1>17, <1>19
<1>22. /\ mem' \in [Frame -> [Offset -> Cell]] /\ mem'[f] = zs /\ mem'[root[p]] = line
       /\ \A g \in Frame : g # f /\ g # root[p] => mem'[g] = mem[g]
  BY <1>6, <1>12, <1>18, <1>20, <1>21
<1>23. Writes(p, {f})  BY <1>2, <1>3, <1>4, <1>11, <1>22 DEF Writes
<1>24. PICK y : Moved(t, y) /\ y.pc = "map" /\ Rest4(task[t], y)  BY <1>2, GotoMoves DEF PC, ImageInv
<1>25. task' \in [Task -> Locals] /\ \A u \in Task : u[1] # p => task'[u] = task[u]  BY <1>1, <1>24, TaskMoved
<1>26. /\ Framed(p) /\ Handles(p)' = Handles(p) /\ nextHandle' = nextHandle /\ root'[p] = root[p]
       /\ Typed(OwnMemory(p)') /\ DOMAIN OwnMemory(p) = held[p] /\ DOMAIN OwnMemory(p)' = held[p] \cup {f}
       /\ held[p] \subseteq Frame
       /\ (\A g \in held[p] : OwnMemory(p)[g] = mem[g]) /\ \A g \in held[p] \cup {f} : OwnMemory(p)'[g] = mem'[g]
  <2>1. PICK B : B = {f}  OBVIOUS
  <2>2. Writes(p, B)  BY <1>23, <2>1
  <2>3. /\ Framed(p) /\ Handles(p)' = Handles(p) /\ nextHandle' = nextHandle /\ root'[p] = root[p]
        /\ Typed(OwnMemory(p)') /\ DOMAIN OwnMemory(p) = held[p] /\ DOMAIN OwnMemory(p)' = held[p] \cup B
        /\ held[p] \subseteq Frame
        /\ (\A g \in held[p] : OwnMemory(p)[g] = mem[g]) /\ \A g \in held[p] \cup B : OwnMemory(p)'[g] = mem'[g]
    <3>1. task' \in [Task -> Locals]  BY <1>25
    <3>2. \A u \in Task : u[1] # p => task'[u] = task[u]  BY <1>25
    <3> QED  BY <2>2, <3>1, <3>2, WritesFrames, ZenonT(30)
  <2> QED  BY <2>1, <2>3
<1>27. f \notin held[p]  BY <1>4 DEF ImageInv, FramesApart
<1>28. MemoryKept(OwnMemory(p), OwnMemory(p)', root[p])
  <2>1. OwnMemory(p)'[f] = [o \in Offset |-> Zero]  BY <1>14, <1>22, <1>26
  <2>2. OwnMemory(p)'[root[p]] = [OwnMemory(p)[root[p]] EXCEPT ![a] = Entry(f)]  BY <1>11, <1>20, <1>22, <1>26
  <2>3. \A g \in DOMAIN OwnMemory(p) \ {root[p]} : OwnMemory(p)'[g] = OwnMemory(p)[g]  BY <1>22, <1>26, <1>27
  <2> QED  BY <1>8, <1>9, <1>10, <1>26, <1>27, <2>1, <2>2, <2>3, TableKept
<1>29. Grows(OwnMemory(p), OwnMemory(p)', root[p])  BY <1>28 DEF MemoryKept
<1>30. y \in Locals /\ y.va = task[t].va /\ y.pa = task[t].pa /\ y.left = task[t].left /\ SameCall(task[t], y)
  BY <1>24 DEF Rest4, Moved
<1>31. CASE t[2] = 0
  <2>1. task[t] = task[Loader(p)] /\ task'[Loader(p)] = y /\ Creator(p)' = Creator(p)  BY <1>1, <1>24, <1>31, TaskMoved
  <2>2. ProcessSound(OwnMemory(p)', root[p], image[p], y, Creator(p), Handles(p), nextHandle, p)
    BY <1>2, <1>24, <1>28, <1>30, <2>1, KnownOf, LoaderTableKeeps
  <2> QED  BY <1>26, <1>29, <2>1, <2>2, StepOf
<1>32. CASE t[2] # 0
  <2>1. task[t] = Creator(p) /\ task'[Loader(p)] = task[Loader(p)] /\ Creator(p)' = y  BY <1>1, <1>24, <1>32, TaskMoved
  <2>2. ProcessSound(OwnMemory(p)', root[p], image[p], task[Loader(p)], y, Handles(p), nextHandle, p)
    BY <1>2, <1>24, <1>28, <1>30, <2>1, KnownOf, CreatorTableKeeps
  <2> QED  BY <1>26, <1>29, <2>1, <2>2, StepOf
<1> QED  BY <1>31, <1>32

\* The same for a step that allocates nothing.
Rewrites(p) ==
    /\ mem' \in [Frame -> [Offset -> Cell]] /\ \A g \in Frame : g \notin held[p] => mem'[g] = mem[g]
    /\ UNCHANGED <<image, avail, root, held, nextHandle, threads, halted>>

LEMMA RewritesFrames ==
    ASSUME ImagesFit, ImageInv, NEW p \in Procs, Rewrites(p),
           task' \in [Task -> Locals], \A u \in Task : u[1] # p => task'[u] = task[u]
    PROVE  /\ Framed(p) /\ Handles(p)' = Handles(p) /\ nextHandle' = nextHandle /\ root'[p] = root[p]
           /\ Typed(OwnMemory(p)') /\ DOMAIN OwnMemory(p) = held[p] /\ DOMAIN OwnMemory(p)' = held[p]
           /\ held[p] \subseteq Frame /\ held'[p] = held[p]
           /\ \A g \in held[p] : OwnMemory(p)[g] = mem[g] /\ OwnMemory(p)'[g] = mem'[g]
<1>1. PICK B : B = {}  OBVIOUS
<1>2. held' = held /\ avail' = avail  BY DEF Rewrites
<1>3. held \in [Procs -> SUBSET Frame]  BY DEF ImageInv, TypeOK
<1>4. held' = [held EXCEPT ![p] = @ \cup B] /\ avail' = avail \ B /\ B \subseteq avail  BY <1>1, <1>2, <1>3
<1>5. Writes(p, B)  BY <1>1, <1>4 DEF Rewrites, Writes
<1>6. held[p] \cup B = held[p]  BY <1>1
<1>7. /\ Framed(p) /\ Handles(p)' = Handles(p) /\ nextHandle' = nextHandle /\ root'[p] = root[p]
      /\ Typed(OwnMemory(p)') /\ DOMAIN OwnMemory(p) = held[p] /\ DOMAIN OwnMemory(p)' = held[p] \cup B
      /\ held[p] \subseteq Frame
      /\ (\A g \in held[p] : OwnMemory(p)[g] = mem[g]) /\ \A g \in held[p] \cup B : OwnMemory(p)'[g] = mem'[g]
  BY <1>5, WritesFrames
<1> QED  BY <1>2, <1>6, <1>7

LEMMA MapPageStep ==
    ASSUME ImagesFit, ImageInv, NEW t \in Task, MapPage(t)
    PROVE  ImageInv' /\ Stays
<1>1. PICK p \in Procs : p = t[1]  BY CreatorOf
<1>2. /\ task[t].pc = "map" /\ IsEntry(RootEntry(p, task[t].va)) /\ ToNextPage(t)
      /\ UNCHANGED <<image, avail, root, held, nextHandle, threads, halted>>
  BY <1>1 DEF MapPage, At, ToNextPage
<1>3. task[t].pc \in Alloc /\ task[t].pc \in Mapping  BY <1>2 DEF Alloc, Mapping
<1>4. /\ Pending(OwnMemory(p), root[p], image[p], task[t]) /\ task[t] \in Locals /\ task[t].ret \in PC
      /\ Base(image[p], task[t]) \in Nat /\ Count(image[p], task[t]) \in Nat \ {0}
      /\ Base(image[p], task[t]) + Count(image[p], task[t]) < NrPages
  BY <1>1, <1>3, AllocatingTask
<1>5. /\ task[t].va \in Page /\ ~Maps(OwnMemory(p), root[p], task[t].va) /\ task[t].pa \in Frame
      /\ Unused(OwnMemory(p), root[p], task[t].pa) /\ task[t].va + 1 \in Page /\ task[t].left \in Nat \ {0}
  BY <1>2, <1>4, TurnOfLoop
<1>6. Sound(OwnMemory(p), root[p])  BY KnownOf
<1>7. PICK o \in Offset : o = task[t].va % PageSize  BY <1>5, Offsets
<1>8. PICK a \in Offset : a = task[t].va \div PageSize  BY <1>5, Offsets
<1>9. HasTable(OwnMemory(p), root[p], a) /\ RootEntry(p, task[t].va)[2] = TableOf(OwnMemory(p), root[p], a)
  BY <1>2, <1>5, <1>6, <1>8, SeenNow
<1>10. PICK T : T = TableOf(OwnMemory(p), root[p], a)  OBVIOUS
<1>11. T \in held[p]
  <2>1. T \in DOMAIN OwnMemory(p)  BY <1>6, <1>9, <1>10 DEF Sound
  <2> QED  BY <2>1 DEF OwnMemory
<1>12. PICK line : line = [mem[T] EXCEPT ![o] = Entry(task[t].pa)]  OBVIOUS
<1>13. mem' = [mem EXCEPT ![T] = line]
  <2>1. RootEntry(t[1], task[t].va)[2] = T  BY <1>1, <1>9, <1>10
  <2>2. mem' = [mem EXCEPT ![T] = [@ EXCEPT ![o] = Entry(task[t].pa)]]  BY <1>7, <2>1 DEF MapPage
  <2> QED  BY <1>12, <2>2
<1>14. mem \in [Frame -> [Offset -> Cell]] /\ held[p] \subseteq Frame  BY DEF ImageInv, TypeOK
<1>15. line \in [Offset -> Cell]
  <2>1. Entry(task[t].pa) \in Cell  BY <1>5, CellsTyped
  <2>2. mem[T] \in [Offset -> Cell]  BY <1>11, <1>14
  <2> QED  BY <1>12, <2>1, <2>2
<1>16. mem' \in [Frame -> [Offset -> Cell]] /\ mem'[T] = line /\ \A g \in Frame : g # T => mem'[g] = mem[g]
  BY <1>11, <1>13, <1>14, <1>15
<1>17. Rewrites(p)  BY <1>2, <1>11, <1>16 DEF Rewrites
<1>18. PICK y : Moved(t, y) /\ Turned(task[t], y)
  <2>1. ASSUME task[t].left # 1 PROVE task[t].pa + 1 \in Frame
    <3>1. PICK k \in 0..(task[t].left - 1) : k = 1  BY <1>5, <2>1
    <3>2. Unused(OwnMemory(p), root[p], task[t].pa + k)  BY <1>3, <1>4 DEF Pending
    <3> QED  BY <1>6, <3>1, <3>2 DEF Unused, Sound
  <2>2. TypeOK  BY DEF ImageInv
  <2> QED  BY <1>2, <1>4, <1>5, <2>1, <2>2, TurnMoves
<1>19. task' \in [Task -> Locals] /\ \A u \in Task : u[1] # p => task'[u] = task[u]  BY <1>1, <1>18, TaskMoved
<1>20. /\ Framed(p) /\ Handles(p)' = Handles(p) /\ nextHandle' = nextHandle /\ root'[p] = root[p]
       /\ Typed(OwnMemory(p)') /\ DOMAIN OwnMemory(p) = held[p] /\ DOMAIN OwnMemory(p)' = held[p]
       /\ \A g \in held[p] : OwnMemory(p)[g] = mem[g] /\ OwnMemory(p)'[g] = mem'[g]
  BY <1>17, <1>19, RewritesFrames
<1>21. OwnMemory(p)' = WithEntry(OwnMemory(p), T, o, task[t].pa)
  <2>1. PICK N : N = OwnMemory(p)  OBVIOUS
  <2>2. PICK M : M = OwnMemory(p)'  OBVIOUS
  <2>3. N = [g \in held[p] |-> N[g]]  BY <2>1 DEF OwnMemory
  <2>4. M = [g \in held[p] |-> M[g]]
    <3>1. held'[p] = held[p]  BY <1>2
    <3> QED  BY <2>2, <3>1 DEF OwnMemory
  <2>5. N[T] = mem[T] /\ M[T] = line  BY <1>11, <1>16, <1>20, <2>1, <2>2
  <2>6. M[T] = [N[T] EXCEPT ![o] = Entry(task[t].pa)]  BY <1>12, <2>5
  <2>7. \A g \in held[p] : g # T => M[g] = N[g]  BY <1>14, <1>16, <1>20, <2>1, <2>2
  <2>8. M = [N EXCEPT ![T] = [@ EXCEPT ![o] = Entry(task[t].pa)]]  BY <1>11, <2>3, <2>4, <2>6, <2>7
  <2> QED  BY <2>1, <2>2, <2>8 DEF WithEntry
<1>22. Extended(OwnMemory(p), OwnMemory(p)', root[p], task[t].va, task[t].pa)
  <2>1. HasTable(OwnMemory(p), root[p], task[t].va \div PageSize)  BY <1>8, <1>9
  <2>2. OwnMemory(p)' = WithEntry(OwnMemory(p), TableOf(OwnMemory(p), root[p], task[t].va \div PageSize), task[t].va % PageSize, task[t].pa)
    BY <1>7, <1>8, <1>10, <1>21
  <2>3. DOMAIN OwnMemory(p)' = DOMAIN OwnMemory(p)  BY <1>20
  <2> QED  BY <1>5, <1>6, <1>20, <2>1, <2>2, <2>3, PageExtends
<1>23. Grows(OwnMemory(p), OwnMemory(p)', root[p])  BY <1>22 DEF Extended
<1>24. y \in Locals  BY <1>18 DEF Moved
<1>25. CASE t[2] = 0
  <2>1. task[t] = task[Loader(p)] /\ task'[Loader(p)] = y /\ Creator(p)' = Creator(p)  BY <1>1, <1>18, <1>25, TaskMoved
  <2>2. ProcessSound(OwnMemory(p)', root[p], image[p], y, Creator(p), Handles(p), nextHandle, p)
    BY <1>2, <1>18, <1>22, <1>24, <2>1, KnownOf, LoaderMapKeeps
  <2> QED  BY <1>20, <1>23, <2>1, <2>2, StepOf
<1>26. CASE t[2] # 0
  <2>1. task[t] = Creator(p) /\ task'[Loader(p)] = task[Loader(p)] /\ Creator(p)' = y  BY <1>1, <1>18, <1>26, TaskMoved
  <2>2. ProcessSound(OwnMemory(p)', root[p], image[p], task[Loader(p)], y, Handles(p), nextHandle, p)
    BY <1>2, <1>18, <1>22, <1>24, <2>1, KnownOf, CreatorMapKeeps
  <2> QED  BY <1>20, <1>23, <2>1, <2>2, StepOf
<1> QED  BY <1>25, <1>26

\* copy_to of m cells to the physical address b.
CopyTo(p, s, b, m) == mem' = Written(b, [i \in 0..(m - 1) |-> Data(p, s, i)])

\* What it stores, by the page and the offset.
LEMMA WrittenCells ==
    ASSUME ImageInv, NEW p \in Procs, NEW s \in Nat, NEW F \in Nat, NEW m \in Nat, NEW b, b = F * PageSize, CopyTo(p, s, b, m)
    PROVE  /\ mem' \in [Frame -> [Offset -> Cell]]
           /\ \A g \in Frame : \A o \in Offset :
                 /\ Address(g, o) - b \in 0..(m - 1) => mem'[g][o] = Data(p, s, Address(g, o) - b)
                 /\ Address(g, o) - b \notin 0..(m - 1) => mem'[g][o] = mem[g][o]
<1>1. mem \in [Frame -> [Offset -> Cell]]  BY DEF ImageInv
<1>2. b \in Nat  BY Cells
<1>3. PICK cells : cells = [i \in 0..(m - 1) |-> Data(p, s, i)]  OBVIOUS
<1>4. DOMAIN cells = 0..(m - 1) /\ \A i \in 0..(m - 1) : cells[i] = Data(p, s, i) /\ cells[i] \in Cell
  <2>1. DOMAIN cells = 0..(m - 1) /\ \A i \in 0..(m - 1) : cells[i] = Data(p, s, i)  BY <1>3
  <2>2. p \in Int /\ s \in Int /\ \A i \in 0..(m - 1) : i \in Int  BY ImageAssumption
  <2>3. \A i \in 0..(m - 1) : Data(p, s, i) \in Cell  BY <2>2 DEF Data, Cell
  <2> QED  BY <2>1, <2>3
<1>5. mem' = [g \in Frame |-> [o \in Offset |->
                 IF g * PageSize + (o - b) \in DOMAIN cells THEN cells[g * PageSize + (o - b)] ELSE mem[g][o]]]
  BY <1>3 DEF Written, CopyTo
<1>6. ASSUME NEW g \in Frame, NEW o \in Offset PROVE g * PageSize + (o - b) = Address(g, o) - b
  <2>1. g \in Nat  BY DEF Frame
  <2>2. PICK d \in Nat : d = g * PageSize  BY <2>1, Cells
  <2>3. o \in Int  BY DEF Offset
  <2>4. d + (o - b) = (d + o) - b  BY ONLY d \in Nat, <2>3, <1>2, SMT
  <2>5. Address(g, o) = d + o  BY <2>2 DEF Address
  <2> QED  BY <2>2, <2>4, <2>5
<1>7. mem' = [g \in Frame |-> [o \in Offset |->
                 IF Address(g, o) - b \in DOMAIN cells THEN cells[Address(g, o) - b] ELSE mem[g][o]]]
  BY <1>5, <1>6
<1>8. \A g \in Frame : \A o \in Offset :
         mem'[g][o] = IF Address(g, o) - b \in DOMAIN cells THEN cells[Address(g, o) - b] ELSE mem[g][o]
  BY <1>7
<1>9. \A g \in Frame : mem'[g] \in [Offset -> Cell]
  <2>1. \A g \in Frame : \A o \in Offset : mem'[g][o] \in Cell  BY <1>1, <1>4, <1>8
  <2>2. \A g \in Frame : mem'[g] = [o \in Offset |-> mem'[g][o]]  BY <1>7
  <2> QED  BY <2>1, <2>2
<1>10. mem' \in [Frame -> [Offset -> Cell]]  BY <1>7, <1>9
<1> QED  BY <1>4, <1>8, <1>10

\* A copy that stays within pages in a row changes only frames of the process.
LEMMA CopyWrites ==
    ASSUME ImagesFit, ImageInv, NEW p \in Procs, NEW s \in Nat, NEW a \in Nat, NEW q \in Nat \ {0}, a + q <= NrPages,
           Whole(OwnMemory(p), root[p], a, q), NEW m \in Nat, m <= q * PageSize,
           NEW F, F = FrameAt(OwnMemory(p), root[p], a), NEW b, b = F * PageSize, CopyTo(p, s, b, m),
           UNCHANGED <<image, avail, root, held, nextHandle, threads, halted>>,
           task' \in [Task -> Locals], \A u \in Task : u[1] # p => task'[u] = task[u]
    PROVE  /\ Framed(p) /\ Handles(p)' = Handles(p) /\ nextHandle' = nextHandle /\ root'[p] = root[p]
           /\ Typed(OwnMemory(p)') /\ Copied(OwnMemory(p), OwnMemory(p)', F, m, p, s)
<1>1. Sound(OwnMemory(p), root[p])  BY KnownOf
<1>2. held[p] \subseteq Frame /\ mem \in [Frame -> [Offset -> Cell]]  BY DEF ImageInv, TypeOK
<1>3. \A k \in 0..(q - 1) : F + k \in held[p]
  <2>1. ASSUME NEW k \in 0..(q - 1) PROVE F + k \in held[p]
    <3>1. Maps(OwnMemory(p), root[p], a + k) /\ FrameAt(OwnMemory(p), root[p], a + k) = F + k  BY DEF Whole
    <3>2. a + k \in Page
      <4>1. NrPages \in Nat  BY ImageAssumption
      <4> QED  BY <4>1 DEF Page
    <3>3. F + k \in DOMAIN OwnMemory(p)  BY <1>1, <3>1, <3>2 DEF Sound
    <3> QED  BY <3>3 DEF OwnMemory
  <2> QED  BY <2>1
<1>4. F \in Nat
  <2>1. Maps(OwnMemory(p), root[p], a)
    <3>1. PICK k \in 0..(q - 1) : k = 0  OBVIOUS
    <3>2. a + k = a  BY <3>1
    <3> QED  BY <3>2 DEF Whole
  <2>2. a \in Page
    <3>1. NrPages \in Nat  BY ImageAssumption
    <3> QED  BY <3>1 DEF Page
  <2>3. F \in DOMAIN OwnMemory(p)  BY <1>1, <2>1, <2>2 DEF Sound
  <2> QED  BY <1>2, <2>3 DEF OwnMemory, Frame
<1>5. /\ mem' \in [Frame -> [Offset -> Cell]]
      /\ \A g \in Frame : \A o \in Offset :
            /\ Address(g, o) - b \in 0..(m - 1) => mem'[g][o] = Data(p, s, Address(g, o) - b)
            /\ Address(g, o) - b \notin 0..(m - 1) => mem'[g][o] = mem[g][o]
  BY <1>4, WrittenCells
<1>6. ASSUME NEW g \in Frame, g \notin held[p] PROVE mem'[g] = mem[g]
  <2>1. ASSUME NEW o \in Offset PROVE Address(g, o) - b \notin 0..(m - 1)
    <3>1. g \in Nat /\ q \in Nat  BY DEF Frame
    <3>2. Address(g, o) - b \in 0..(m - 1) => g - F \in 0..(q - 1)  BY <1>4, <3>1, PageBetween
    <3>3. g - F \in 0..(q - 1) => g \in held[p]
      <4>1. ASSUME g - F \in 0..(q - 1) PROVE g \in held[p]
        <5>1. PICK k \in 0..(q - 1) : k = g - F  BY <4>1
        <5>2. F + k = g  BY <5>1, <3>1, <1>4
        <5> QED  BY <1>3, <5>2
      <4> QED  BY <4>1
    <3> QED  BY <1>6, <3>2, <3>3
  <2>2. \A o \in Offset : mem'[g][o] = mem[g][o]  BY <1>5, <2>1
  <2>3. mem'[g] \in [Offset -> Cell] /\ mem[g] \in [Offset -> Cell]  BY <1>2, <1>5
  <2> QED  BY <2>2, <2>3
<1>7. Rewrites(p)  BY <1>5, <1>6 DEF Rewrites
<1>8. /\ Framed(p) /\ Handles(p)' = Handles(p) /\ nextHandle' = nextHandle /\ root'[p] = root[p]
      /\ Typed(OwnMemory(p)') /\ DOMAIN OwnMemory(p) = held[p] /\ DOMAIN OwnMemory(p)' = held[p]
      /\ \A g \in held[p] : OwnMemory(p)[g] = mem[g] /\ OwnMemory(p)'[g] = mem'[g]
  BY <1>7, RewritesFrames
<1>9. Copied(OwnMemory(p), OwnMemory(p)', F, m, p, s)
  <2>1. ASSUME NEW g \in held[p], NEW o \in Offset
        PROVE  /\ Address(g, o) - b \in 0..(m - 1) => OwnMemory(p)'[g][o] = Data(p, s, Address(g, o) - b)
               /\ Address(g, o) - b \notin 0..(m - 1) => OwnMemory(p)'[g][o] = OwnMemory(p)[g][o]
    BY <1>2, <1>5, <1>8
  <2> QED  BY <1>8, <2>1 DEF Copied
<1> QED  BY <1>8, <1>9

LEMMA CopyArgsStep ==
    ASSUME ImagesFit, ImageInv, NEW p \in Procs, CopyArgs(p)
    PROVE  ImageInv' /\ Stays
<1>1. /\ task[Loader(p)].pc = "copyargs" /\ Goto(Loader(p), "start")
      /\ mem' = Written(GetMapping(p, ArgsPage * PageSize), [i \in 0..(image[p].args - 1) |-> Data(p, 0, i)])
      /\ UNCHANGED <<image, avail, root, held, nextHandle, threads, halted>>
  BY DEF CopyArgs, At
<1>2. TypeOK /\ Loader(p) \in Task  BY KnownOf
<1>3. PICK y : Moved(Loader(p), y) /\ y.pc = "start" /\ Rest4(task[Loader(p)], y)  BY <1>1, <1>2, GotoMoves DEF PC
<1>4. /\ task' \in [Task -> Locals] /\ task'[Loader(p)] = y /\ Creator(p)' = Creator(p)
      /\ \A u \in Task : u[1] # p => task'[u] = task[u]
  BY <1>2, <1>3, LoaderMoved
<1>5. Maps(OwnMemory(p), root[p], ArgsPage)
  <2>1. LoaderSound(root[p], image[p], task[Loader(p)]) /\ Given(OwnMemory(p), root[p], image[p], task[Loader(p)], Creator(p), Handles(p))
    BY KnownOf DEF ProcessSound
  <2>2. image[p].args # 0  BY <1>1, <2>1 DEF LoaderSound
  <2>3. HasArgs(image[p], task[Loader(p)])  BY <1>1, <2>2 DEF HasArgs
  <2> QED  BY <2>1, <2>3 DEF Given
<1>6. PICK a \in Nat : a = ArgsPage  BY FixedPlaces
<1>7. a \in Page /\ NrPages \in Nat /\ a + 1 <= NrPages  BY <1>6, FixedPlaces
<1>8. PICK F : F = FrameAt(OwnMemory(p), root[p], a)  OBVIOUS
<1>9. PICK q \in Nat \ {0} : q = 1  OBVIOUS
<1>10. Whole(OwnMemory(p), root[p], a, q)
  <2>1. Sound(OwnMemory(p), root[p])  BY KnownOf
  <2>2. F \in Frame  BY <1>5, <1>6, <1>7, <1>8, <2>1 DEF Sound
  <2>3. F + 0 = F /\ a + 0 = a  BY <2>2 DEF Frame
  <2>4. \A k \in 0..(q - 1) : k = 0  BY <1>9
  <2> QED  BY <1>5, <1>6, <1>8, <2>3, <2>4 DEF Whole
<1>11. GetMapping(p, ArgsPage * PageSize) = F * PageSize
  <2>1. PICK z \in Offset : z = 0  BY Offsets
  <2>2. a * PageSize \in Nat /\ a * PageSize + z = a * PageSize  BY <2>1, Cells
  <2>3. (a * PageSize) \div PageSize = a /\ (a * PageSize) % PageSize = 0  BY <2>1, <2>2, CellInPage
  <2>4. Sound(OwnMemory(p), root[p])  BY KnownOf
  <2>5. FrameOf(p, a) = F  BY <1>5, <1>6, <1>7, <1>8, <2>4, SeenNow
  <2>6. F \in Nat  BY <1>5, <1>6, <1>7, <1>8, <2>4 DEF Sound, Frame
  <2>7. F * PageSize \in Nat  BY <2>6, Cells
  <2>8. GetMapping(p, a * PageSize) = F * PageSize + 0  BY <2>3, <2>5 DEF GetMapping
  <2> QED  BY <1>6, <2>7, <2>8
<1>12. PICK m \in Nat : m = image[p].args /\ m < PageSize
  <2>1. ExecutableFits(image[p])  BY KnownOf
  <2> QED  BY <2>1 DEF ExecutableFits, Executables
<1>13. m <= q * PageSize
  <2>1. PageSize \in Nat  BY Offsets
  <2> QED  BY <1>9, <1>12, <2>1
<1>14. PICK b : b = F * PageSize  OBVIOUS
<1>15. PICK s \in Nat : s = 0  OBVIOUS
<1>16. CopyTo(p, s, b, m)  BY <1>1, <1>11, <1>12, <1>14, <1>15 DEF CopyTo
<1>17. a + q <= NrPages  BY <1>7, <1>9
<1>18. /\ Framed(p) /\ Handles(p)' = Handles(p) /\ nextHandle' = nextHandle /\ root'[p] = root[p]
       /\ Typed(OwnMemory(p)') /\ Copied(OwnMemory(p), OwnMemory(p)', F, m, p, s)
  BY <1>1, <1>4, <1>8, <1>10, <1>13, <1>14, <1>16, <1>17, CopyWrites
<1>19. y \in Locals /\ y.seg = task[Loader(p)].seg  BY <1>3 DEF Moved, Rest4, SameCall
<1>20. Copied(OwnMemory(p), OwnMemory(p)', FrameAt(OwnMemory(p), root[p], ArgsPage), image[p].args, p, 0)
  BY <1>6, <1>8, <1>12, <1>15, <1>18
<1>21. /\ ProcessSound(OwnMemory(p)', root[p], image[p], y, Creator(p), Handles(p), nextHandle, p)
       /\ Grows(OwnMemory(p), OwnMemory(p)', root[p])
  BY <1>1, <1>3, <1>18, <1>19, <1>20, KnownOf, CopyArgsKeeps
<1> QED  BY <1>4, <1>18, <1>21, StepOf

\* An empty copy leaves memory as it is.
LEMMA NothingCopied ==
    ASSUME ImageInv, NEW b, NEW p, NEW s, mem' = Written(b, [i \in 0..(0 - 1) |-> Data(p, s, i)])
    PROVE  mem' = mem
<1>1. mem \in [Frame -> [Offset -> Cell]]  BY DEF ImageInv
<1>2. PICK cells : cells = [i \in 0..(0 - 1) |-> Data(p, s, i)]  OBVIOUS
<1>3. \A k : k \notin DOMAIN cells  BY <1>2
<1>4. mem' = Written(b, cells)  BY <1>2
<1>5. mem' = [g \in Frame |-> [o \in Offset |-> mem[g][o]]]  BY <1>3, <1>4 DEF Written
<1>6. \A g \in Frame : mem[g] = [o \in Offset |-> mem[g][o]]  BY <1>1
<1>7. mem = [g \in Frame |-> mem[g]]  BY <1>1
<1> QED  BY <1>5, <1>6, <1>7

LEMMA CopySegmentStep ==
    ASSUME ImagesFit, ImageInv, NEW p \in Procs, CopySegment(p)
    PROVE  ImageInv' /\ Stays
<1>1. PICK l : l = task[Loader(p)]  OBVIOUS
<1>2. PICK e : e = image[p].entries[l.seg]  OBVIOUS
<1>3. /\ l.pc = "copy" /\ UNCHANGED <<image, avail, root, held, nextHandle, threads, halted>>
      /\ mem' = IF IsMapped(p, FirstPage(e))
                THEN Written(GetMapping(p, e.vaddr), [i \in 0..(e.filesz - 1) |-> Data(p, l.seg, i)]) ELSE mem
  BY <1>1, <1>2 DEF CopySegment, At, Ent, FirstPage
<1>4. TypeOK /\ Loader(p) \in Task /\ l \in Locals
  <2>1. TypeOK /\ Loader(p) \in Task  BY KnownOf
  <2> QED  BY <1>1, <2>1 DEF TypeOK
<1>5. l.seg \in Nat  BY <1>4 DEF Locals
<1>6. PICK k \in Nat : k = l.seg + 1  BY <1>5
<1>7. ToEntry(Loader(p), k)  BY <1>1, <1>6 DEF CopySegment, ToEntry
<1>8. PICK y : Moved(Loader(p), y) /\ y.pc = "entry" /\ y.seg = k  BY <1>4, <1>7, SegMoves
<1>9. /\ task' \in [Task -> Locals] /\ task'[Loader(p)] = y /\ Creator(p)' = Creator(p)
      /\ \A u \in Task : u[1] # p => task'[u] = task[u]
  BY <1>4, <1>8, LoaderMoved
<1>10. y \in Locals /\ y.seg = l.seg + 1  BY <1>6, <1>8 DEF Moved
<1>11. /\ ProcessSound(OwnMemory(p), root[p], image[p], l, Creator(p), Handles(p), nextHandle, p)
       /\ Setting(root[p], image[p], l, Creator(p), Handles(p), nextHandle, p)
       /\ Sound(OwnMemory(p), root[p]) /\ ExecutableFits(image[p])
  BY <1>1, KnownOf
<1>12. l.seg \in 1..Len(image[p].entries) /\ e.load
  <2>1. LoaderSound(root[p], image[p], l)  BY <1>11 DEF ProcessSound
  <2> QED  BY <1>2, <1>3, <2>1 DEF LoaderSound
<1>13. e \in [load : BOOLEAN, vaddr : Nat, filesz : Nat, memsz : Nat] /\ EntryFits(e)
  BY <1>2, <1>11, <1>12, EntryTyped
<1>14. CASE e.filesz = 0
  <2>1. mem' = mem
    <3>1. CASE IsMapped(p, FirstPage(e))
      <4>1. PICK b : b = GetMapping(p, e.vaddr)  OBVIOUS
      <4>2. PICK s : s = l.seg  OBVIOUS
      <4>3. mem' = Written(b, [i \in 0..(0 - 1) |-> Data(p, s, i)])  BY <1>3, <1>14, <3>1, <4>1, <4>2
      <4> QED  BY <4>3, NothingCopied
    <3>2. CASE ~IsMapped(p, FirstPage(e))  BY <1>3, <3>2
    <3> QED  BY <3>1, <3>2
  <2>2. Still /\ UNCHANGED <<nextHandle, threads>>  BY <1>3, <2>1 DEF Still
  <2>3. PICK M : M = OwnMemory(p)  OBVIOUS
  <2>4. image[p].entries[l.seg].filesz = 0 /\ M = OwnMemory(p)  BY <1>2, <1>14, <2>3
  <2>5. ProcessSound(M, root[p], image[p], y, Creator(p), Handles(p), nextHandle, p)
    BY <1>3, <1>8, <1>10, <1>11, <2>4, CopySegmentKeeps
  <2> QED  BY <1>8, <2>2, <2>3, <2>5, LoaderStill
<1>15. CASE e.filesz # 0
  <2>1. e.filesz \in Nat /\ e.memsz \in Nat /\ e.filesz > 0 /\ e.memsz > 0 /\ e.filesz <= e.memsz /\ e.vaddr \in Nat
    BY <1>13, <1>15 DEF EntryFits
  <2>2. Takes(e)  BY <1>12, <2>1 DEF Takes
  <2>3. PICK q \in Nat \ {0} : q = PagesOf(e.memsz) /\ e.memsz <= q * PageSize  BY <2>1, PagesSuffice
  <2>4. PICK a \in Nat : a = FirstPage(e) /\ a \in Page /\ a + q <= NrPages
    BY <1>13, <2>3 DEF EntryFits, Page
  <2>5. Whole(OwnMemory(p), root[p], a, q)
    <3>1. Given(OwnMemory(p), root[p], image[p], l, Creator(p), Handles(p))  BY <1>11 DEF ProcessSound
    <3>2. l.seg \in 1..Passed(l)  BY <1>3, <1>12, <1>5 DEF Passed
    <3>3. Takes(image[p].entries[l.seg])  BY <1>2, <2>2
    <3>4. Whole(OwnMemory(p), root[p], FirstPage(image[p].entries[l.seg]), PagesOf(image[p].entries[l.seg].memsz))
      BY <3>1, <3>2, <3>3 DEF Given
    <3> QED  BY <1>2, <2>3, <2>4, <3>4
  <2>6. Maps(OwnMemory(p), root[p], a)
    <3>1. PICK z \in 0..(q - 1) : z = 0  OBVIOUS
    <3>2. a + z = a  BY <3>1
    <3> QED  BY <2>5, <3>2 DEF Whole
  <2>7. PICK F : F = FrameAt(OwnMemory(p), root[p], a)  OBVIOUS
  <2>8. IsMapped(p, FirstPage(e)) /\ FrameOf(p, FirstPage(e)) = F  BY <1>11, <2>4, <2>6, <2>7, SeenNow
  <2>9. F \in Nat
    <3>1. F \in Frame  BY <1>11, <2>4, <2>6, <2>7 DEF Sound
    <3> QED  BY <3>1 DEF Frame
  <2>10. PICK b : b = F * PageSize  OBVIOUS
  <2>11. GetMapping(p, e.vaddr) = b
    <3>1. e.vaddr % PageSize = 0  BY <1>13 DEF EntryFits
    <3>2. b \in Nat  BY <2>9, <2>10, Cells
    <3>3. GetMapping(p, e.vaddr) = b + 0  BY <2>8, <2>10, <3>1 DEF GetMapping, FirstPage
    <3> QED  BY <3>2, <3>3
  <2>12. PICK m \in Nat : m = e.filesz  BY <2>1
  <2>13. m <= q * PageSize
    <3>1. q * PageSize \in Nat  BY Cells
    <3> QED  BY <2>1, <2>3, <2>12, <3>1
  <2>14. PICK s \in Nat : s = l.seg  BY <1>5
  <2>15. CopyTo(p, s, b, m)  BY <1>3, <2>8, <2>11, <2>12, <2>14 DEF CopyTo
  <2>16. /\ Framed(p) /\ Handles(p)' = Handles(p) /\ nextHandle' = nextHandle /\ root'[p] = root[p]
         /\ Typed(OwnMemory(p)') /\ Copied(OwnMemory(p), OwnMemory(p)', F, m, p, s)
    BY <1>3, <1>9, <2>4, <2>5, <2>7, <2>10, <2>13, <2>15, CopyWrites
  <2>17. /\ image[p].entries[l.seg].filesz > 0
         /\ Copied(OwnMemory(p), OwnMemory(p)', FrameAt(OwnMemory(p), root[p], FirstPage(image[p].entries[l.seg])),
                   image[p].entries[l.seg].filesz, p, l.seg)
    BY <1>2, <2>1, <2>4, <2>7, <2>12, <2>14, <2>16
  <2>18. /\ ProcessSound(OwnMemory(p)', root[p], image[p], y, Creator(p), Handles(p), nextHandle, p)
         /\ Grows(OwnMemory(p), OwnMemory(p)', root[p])
    BY <1>3, <1>8, <1>10, <1>11, <2>16, <2>17, CopySegmentKeeps
  <2> QED  BY <1>9, <2>16, <2>18, StepOf
<1> QED  BY <1>14, <1>15

----------------------------------------------------------------------------
(* The specification. *)

\* What the invariant is about, the halt apart.
Told == <<image, avail, mem, root, held, task, nextHandle, threads>>

LEMMA SameState ==
    ASSUME ImageInv, UNCHANGED Told, halted' \in BOOLEAN
    PROVE  ImageInv' /\ Stays
<1>1. /\ image' = image /\ avail' = avail /\ mem' = mem /\ root' = root /\ held' = held
      /\ task' = task /\ nextHandle' = nextHandle /\ threads' = threads
  BY DEF Told
<1>2. TypeOK' /\ (mem \in [Frame -> [Offset -> Cell]])' /\ FramesApart'  BY <1>1 DEF ImageInv, TypeOK, FramesApart
<1>3. ASSUME NEW p \in Procs PROVE ProcessInv(p)'
  <2>1. OwnMemory(p)' = OwnMemory(p) /\ Handles(p)' = Handles(p) /\ Creator(p)' = Creator(p)
    BY <1>1 DEF OwnMemory, Handles, Creator
  <2>2. ProcessInv(p)  BY DEF ImageInv
  <2> QED  BY <1>1, <2>1, <2>2 DEF ProcessInv
<1>4. \A p \in Procs : \A v \in Page : IsMapped(p, v)' = IsMapped(p, v) /\ FrameOf(p, v)' = FrameOf(p, v)
  BY <1>1 DEF IsMapped, FrameOf, LeafEntry, RootEntry
<1>5. Stays  BY <1>4 DEF Stays
<1> QED  BY <1>2, <1>3, <1>5 DEF ImageInv

LEMMA NextStep ==
    ASSUME ImagesFit, ImageInv, [Next]_vars
    PROVE  ImageInv' /\ Stays
<1>1. ASSUME NEW p \in Procs, Exec(p) PROVE ImageInv' /\ Stays
  BY <1>1, ReadHeaderStep, MakeVMAStep, MainThreadStep, SkipEntryStep, LoadEntryStep, CopySegmentStep,
     MainStackStep, MapArgsStep, CopyArgsStep, StartStep DEF Exec
<1>2. ASSUME NEW t \in Task,
             Blocks(t) \/ MissTable(t) \/ MakeTable(t) \/ MapPage(t) \/ CreateThread(t) \/ RegisterThread(t) \/ StartThread(t)
      PROVE  ImageInv' /\ Stays
  BY <1>2, BlocksStep, MissTableStep, MakeTableStep, MapPageStep, CreateThreadStep, RegisterThreadStep, StartThreadStep
<1>3. ASSUME NEW t \in Task, OutOfMemory(t) PROVE ImageInv' /\ Stays
  BY <1>3, SameState DEF OutOfMemory, Told
<1>4. ASSUME UNCHANGED vars PROVE ImageInv' /\ Stays
  <2>1. halted \in BOOLEAN  BY DEF ImageInv, TypeOK
  <2> QED  BY <1>4, <2>1, SameState DEF vars, Told
<1>5. Rest => UNCHANGED vars  BY DEF Rest
<1> QED  BY <1>1, <1>2, <1>3, <1>4, <1>5 DEF Next

LEMMA InitHolds ==
    ASSUME ImagesFit, Init
    PROVE  ImageInv
<1>1. /\ image \in Launches /\ avail = Frame /\ root = [p \in Procs |-> None] /\ held = [p \in Procs |-> {}]
      /\ nextHandle = 1 /\ threads = {} /\ halted = FALSE
  BY DEF Init
<1>2. mem = [f \in Frame |-> [o \in Offset |-> Junk]]  BY DEF Init
<1>3. task = [t \in Task |-> [pc |-> IF t[2] = 0 THEN "header" ELSE "idle", va |-> 0,
                              pa |-> None, left |-> 0, seg |-> 0, ret |-> "idle", h |-> 0]]
  BY DEF Init
<1>4. 0 \in Page /\ MaxHandle \in Nat \ {0} /\ 0 \in 0..MaxHandle  BY ImageAssumption DEF Page
<1>5. task \in [Task -> Locals]
  <2>1. \A t \in Task : [pc |-> IF t[2] = 0 THEN "header" ELSE "idle", va |-> 0,
                         pa |-> None, left |-> 0, seg |-> 0, ret |-> "idle", h |-> 0] \in Locals
    BY <1>4 DEF Locals
  <2> QED  BY <1>3, <2>1
<1>6. mem \in [Frame -> [Offset -> Cell]]
  <2>1. Junk \in Cell  BY DEF Junk, Cell
  <2> QED  BY <1>2, <2>1
<1>7. TypeOK
  <2>1. DOMAIN mem = Frame /\ \A f \in Frame : DOMAIN mem[f] = Offset  BY <1>2
  <2>2. root \in [Procs -> Frame \cup {None}] /\ held \in [Procs -> SUBSET Frame]  BY <1>1
  <2>3. nextHandle \in 1..(MaxHandle + 1)  BY <1>1, <1>4
  <2> QED  BY <1>1, <1>5, <2>1, <2>2, <2>3 DEF TypeOK
<1>8. FramesApart  BY <1>1 DEF FramesApart
<1>9. ASSUME NEW p \in Procs PROVE ProcessInv(p)
  <2>1. PICK N : N = OwnMemory(p)  OBVIOUS
  <2>2. PICK l : l = task[Loader(p)]  OBVIOUS
  <2>3. PICK c : c = Creator(p)  OBVIOUS
  <2>4. DOMAIN N = {} /\ root[p] = None /\ Handles(p) = {}  BY <1>1, <2>1 DEF OwnMemory, Handles
  <2>5. l.pc = "header" /\ l.seg = 0
    <3>1. Loader(p) \in Task /\ Loader(p)[2] = 0  BY <1>7, InSetting DEF Loader
    <3> QED  BY <1>3, <2>2, <3>1
  <2>6. c.pc = "idle"
    <3>1. CASE Creators = 1
      <4>1. PICK t : t = <<p, 1>>  OBVIOUS
      <4>2. t \in Task /\ t[2] = 1  BY <3>1, <4>1 DEF Task
      <4>3. task[t].pc = "idle"  BY <1>3, <4>2
      <4> QED  BY <3>1, <4>1, <4>3, <2>3 DEF Creator
    <3>2. CASE Creators # 1  BY <3>2, <2>3 DEF Creator, IdleTask
    <3> QED  BY <3>1, <3>2
  <2>7. \A v : ~HasTable(N, None, v) /\ ~Maps(N, None, v)  BY DEF HasTable, Maps
  <2>8. Sound(N, None)  BY <2>4, <2>7 DEF Sound
  <2>9. ExecutableFits(image[p]) /\ Len(image[p].entries) \in Nat
    <3>1. ExecutableFits(image[p])  BY <1>1 DEF ImagesFit
    <3> QED  BY <3>1, EntriesTyped
  <2>10. LoaderSound(None, image[p], l)  BY <2>5, <2>9 DEF LoaderSound, Alloc
  <2>11. CreatorSound(l, c, {}, 1)  BY <2>6 DEF CreatorSound, Alloc
  <2>12. Pending(N, None, image[p], l) /\ Pending(N, None, image[p], c)  BY <2>5, <2>6 DEF Pending, Alloc
  <2>13. Given(N, None, image[p], l, c, {})
    <3>1. 1..Passed(l) = {}  BY <2>5 DEF Passed
    <3>2. ~HasStack(l) /\ ~HasArgs(image[p], l) /\ Stacks(c, {}) = {}  BY <2>5, <2>6 DEF HasStack, HasArgs, Stacks, Alloc
    <3> QED  BY <3>1, <3>2 DEF Given
  <2>14. Contents(N, None, image[p], l, p)  BY <2>7 DEF Contents
  <2>15. ProcessSound(N, None, image[p], l, c, {}, 1, p)
    BY <2>7, <2>8, <2>10, <2>11, <2>12, <2>13, <2>14 DEF ProcessSound
  <2> QED  BY <1>1, <2>1, <2>2, <2>3, <2>4, <2>15 DEF ProcessInv
<1> QED  BY <1>6, <1>7, <1>8, <1>9 DEF ImageInv

----------------------------------------------------------------------------
(* What the invariant says of the properties. *)

LEMMA PrivateHolds ==
    ASSUME ImagesFit, ImageInv
    PROVE  MemoryIsPrivate
<1>1. PICK mapped : mapped = {x \in Procs \X Page : IsMapped(x[1], x[2])}  OBVIOUS
<1>2. ASSUME NEW x \in mapped
      PROVE  /\ x[1] \in Procs /\ x[2] \in Page /\ x = <<x[1], x[2]>> /\ IsMapped(x[1], x[2])
             /\ Sound(OwnMemory(x[1]), root[x[1]]) /\ Maps(OwnMemory(x[1]), root[x[1]], x[2])
             /\ FrameOf(x[1], x[2]) = FrameAt(OwnMemory(x[1]), root[x[1]], x[2])
             /\ FrameOf(x[1], x[2]) \in held[x[1]] /\ FrameOf(x[1], x[2]) # root[x[1]]
  <2>1. PICK p \in Procs, v \in Page : x = <<p, v>> /\ IsMapped(p, v)  BY <1>1
  <2>2. Sound(OwnMemory(p), root[p])  BY KnownOf
  <2>3. Maps(OwnMemory(p), root[p], v) /\ FrameOf(p, v) = FrameAt(OwnMemory(p), root[p], v)  BY <2>1, <2>2, SeenNow
  <2>4. FrameOf(p, v) \in DOMAIN OwnMemory(p) \ {root[p]}  BY <2>2, <2>3 DEF Sound
  <2>5. DOMAIN OwnMemory(p) = held[p]  BY DEF OwnMemory
  <2>6. x[1] = p /\ x[2] = v  BY <2>1
  <2> QED  BY <2>1, <2>2, <2>3, <2>4, <2>5, <2>6
<1>3. ASSUME NEW x \in mapped PROVE FrameOf(x[1], x[2]) \in held[x[1]] \ (Tables(x[1]) \cup avail)
  <2>1. PICK p \in Procs : p = x[1]  BY <1>2
  <2>2. PICK v \in Page : v = x[2]  BY <1>2
  <2>3. /\ Sound(OwnMemory(p), root[p]) /\ Maps(OwnMemory(p), root[p], v) /\ FrameOf(p, v) = FrameAt(OwnMemory(p), root[p], v)
        /\ FrameOf(p, v) \in held[p] /\ FrameOf(p, v) # root[p]
    BY <1>2, <2>1, <2>2
  <2>4. FrameOf(p, v) \notin avail  BY <2>3 DEF ImageInv, FramesApart
  <2>5. ASSUME NEW w \in Page, IsEntry(RootEntry(p, w)) PROVE FrameOf(p, v) # RootEntry(p, w)[2]
    <3>1. PICK a \in Offset : a = w \div PageSize  BY Offsets
    <3>2. HasTable(OwnMemory(p), root[p], a) /\ RootEntry(p, w)[2] = TableOf(OwnMemory(p), root[p], a)
      BY <2>3, <2>5, <3>1, SeenNow
    <3>3. FrameAt(OwnMemory(p), root[p], v) # TableOf(OwnMemory(p), root[p], a)  BY <2>3, <3>2 DEF Sound
    <3> QED  BY <2>3, <3>2, <3>3
  <2>6. FrameOf(p, v) \notin Tables(p)  BY <2>3, <2>5 DEF Tables
  <2> QED  BY <2>1, <2>2, <2>3, <2>4, <2>6
<1>4. ASSUME NEW x \in mapped, NEW y \in mapped, FrameOf(x[1], x[2]) = FrameOf(y[1], y[2]) PROVE x = y
  <2>1. x[1] = y[1]  BY <1>2, <1>4 DEF ImageInv, FramesApart
  <2>2. x[2] = y[2]
    <3>1. PICK p \in Procs, v \in Page, w \in Page : p = x[1] /\ v = x[2] /\ w = y[2]  BY <1>2
    <3>2. /\ Sound(OwnMemory(p), root[p]) /\ Maps(OwnMemory(p), root[p], v) /\ Maps(OwnMemory(p), root[p], w)
          /\ FrameAt(OwnMemory(p), root[p], v) = FrameAt(OwnMemory(p), root[p], w)
      <4>1. Sound(OwnMemory(p), root[p]) /\ Maps(OwnMemory(p), root[p], v) /\ FrameOf(x[1], x[2]) = FrameAt(OwnMemory(p), root[p], v)
        BY <1>2, <3>1
      <4>2. Maps(OwnMemory(p), root[p], w) /\ FrameOf(y[1], y[2]) = FrameAt(OwnMemory(p), root[p], w)
        BY <1>2, <2>1, <3>1
      <4> QED  BY <1>4, <4>1, <4>2
    <3>3. v = w  BY <3>2 DEF Sound
    <3> QED  BY <3>1, <3>3
  <2> QED  BY <1>2, <2>1, <2>2
<1>5. PICK frames : frames = {FrameOf(x[1], x[2]) : x \in mapped}  OBVIOUS
<1>6. Cardinality(frames) = Cardinality(mapped)
  <2>1. IsFiniteSet(frames)
    <3>1. frames \subseteq Frame
      <4>1. \A p \in Procs : held[p] \subseteq Frame  BY DEF ImageInv, TypeOK
      <4> QED  BY <1>2, <1>5, <4>1
    <3>2. IsFiniteSet(Frame)
      <4>1. 0 \in Int /\ NrFrames - 1 \in Int  BY ImageAssumption
      <4> QED  BY <4>1, FS_Interval DEF Frame
    <3> QED  BY <3>1, <3>2, FS_Subset
  <2>2. PICK at : at = [f \in frames |-> CHOOSE x \in mapped : FrameOf(x[1], x[2]) = f]  OBVIOUS
  <2>3. ASSUME NEW f \in frames PROVE at[f] \in mapped /\ FrameOf(at[f][1], at[f][2]) = f
    <3>1. \E x \in mapped : FrameOf(x[1], x[2]) = f  BY <1>5
    <3> QED  BY <2>2, <3>1
  <2>4. at \in [frames -> mapped]  BY <2>2, <2>3
  <2>5. \A f, g \in frames : at[f] = at[g] => f = g  BY <2>3
  <2>6. \A x \in mapped : \E f \in frames : at[f] = x
    <3>1. ASSUME NEW x \in mapped PROVE \E f \in frames : at[f] = x
      <4>1. PICK f \in frames : f = FrameOf(x[1], x[2])  BY <1>5
      <4>2. at[f] = x  BY <1>4, <2>3, <4>1
      <4> QED  BY <4>2
    <3> QED  BY <3>1
  <2>7. at \in Bijection(frames, mapped)  BY <2>4, <2>5, <2>6 DEF Bijection, Injection, Surjection, IsInjective
  <2>8. ExistsBijection(frames, mapped)  BY <2>7 DEF ExistsBijection
  <2> QED  BY <2>1, <2>8, FS_Bijection
<1>7. \A p, q \in Procs : p # q => held[p] \cap held[q] = {}  BY DEF ImageInv, FramesApart
<1> QED  BY <1>1, <1>3, <1>5, <1>6, <1>7 DEF MemoryIsPrivate

\* A page with a cell of an entry is one of its pages, and not that of the command line.
LEMMA PageOfCell ==
    ASSUME NEW i, ExecutableFits(i), NEW s \in 1..Len(i.entries), i.entries[s].load, NEW v \in Nat, NEW o \in Offset,
           Address(v, o) - i.entries[s].vaddr \in 0..(i.entries[s].memsz - 1)
    PROVE  /\ Takes(i.entries[s]) /\ v - FirstPage(i.entries[s]) \in 0..(PagesOf(i.entries[s].memsz) - 1)
           /\ v \in Page /\ v # ArgsPage
<1>1. PICK e : e = i.entries[s]  OBVIOUS
<1>2. e \in [load : BOOLEAN, vaddr : Nat, filesz : Nat, memsz : Nat] /\ EntryFits(e) /\ e.load  BY <1>1, EntryTyped
<1>3. e.vaddr \in Nat /\ e.memsz \in Nat /\ e.memsz > 0
  <2>1. e.vaddr \in Nat /\ e.memsz \in Nat  BY <1>2
  <2>2. Address(v, o) - e.vaddr \in 0..(e.memsz - 1)  BY <1>1
  <2> QED  BY <2>1, <2>2
<1>4. Takes(e)  BY <1>2, <1>3 DEF Takes
<1>5. PICK a \in Nat : a = FirstPage(e)  BY <1>1, <1>4, EntryPlaces
<1>6. PICK q \in Nat : q = PagesOf(e.memsz)  BY <1>1, <1>4, EntryPlaces
<1>7. e.vaddr = a * PageSize
  <2>1. e.vaddr % PageSize = 0  BY <1>2 DEF EntryFits
  <2>2. e.vaddr = (e.vaddr \div PageSize) * PageSize + (e.vaddr % PageSize)  BY <1>3, CellAddress
  <2>3. a * PageSize \in Nat  BY Cells
  <2>4. e.vaddr = a * PageSize + 0  BY <1>5, <2>1, <2>2 DEF FirstPage
  <2> QED  BY <2>3, <2>4
<1>8. PICK m \in Nat : m = e.memsz  BY <1>3
<1>9. m <= q * PageSize  BY <1>3, <1>6, <1>8, PagesSuffice
<1>10. PICK b : b = e.vaddr  OBVIOUS
<1>11. b = a * PageSize /\ Address(v, o) - b \in 0..(m - 1)  BY <1>1, <1>7, <1>8, <1>10
<1>12. v - a \in 0..(q - 1)  BY <1>9, <1>11, PageBetween
<1>13. /\ Rounded(q) \in Nat /\ q <= Rounded(q) /\ a + Rounded(q) < NrPages
       /\ \A w \in Region(e) : w # ArgsPage
  BY <1>1, <1>4, <1>5, <1>6, EntryPlaces
<1>14. v \in Region(e) /\ v \in Page
  <2>1. Region(e) = a..(a + Rounded(q) - 1)  BY <1>5, <1>6 DEF Region
  <2>2. PICK n \in Nat : n = Rounded(q)  BY <1>13
  <2>3. v >= a /\ v < a + q /\ NrPages \in Nat  BY <1>12, FixedPlaces
  <2>4. v >= a /\ v < a + n /\ a + n < NrPages  BY <1>13, <2>2, <2>3
  <2> QED  BY <2>1, <2>2, <2>3, <2>4 DEF Page
<1> QED  BY <1>1, <1>4, <1>5, <1>6, <1>12, <1>13, <1>14

\* What a process reads in a page that is mapped.
LEMMA ReadAt ==
    ASSUME ImagesFit, ImageInv, NEW p \in Procs, NEW v \in Page, NEW o \in Offset, NEW k, k = Address(v, o),
           Maps(OwnMemory(p), root[p], v)
    PROVE  /\ IsMapped(p, v) /\ k \div PageSize = v
           /\ Right(image[p], task[Loader(p)], p, v, o, Read(p, k))
<1>1. Sound(OwnMemory(p), root[p])  BY KnownOf
<1>2. PICK F : F = FrameAt(OwnMemory(p), root[p], v)  OBVIOUS
<1>3. IsMapped(p, v) /\ FrameOf(p, v) = F  BY <1>1, <1>2, SeenNow
<1>4. F \in held[p] /\ F \in Nat
  <2>1. F \in DOMAIN OwnMemory(p)  BY <1>1, <1>2 DEF Sound
  <2>2. F \in Frame  BY <1>1, <2>1 DEF Sound
  <2> QED  BY <2>1, <2>2 DEF OwnMemory, Frame
<1>5. v \in Nat  BY DEF Page
<1>6. k \div PageSize = v /\ k % PageSize = o  BY <1>5, CellInPage DEF Address
<1>7. GetMapping(p, k) = F * PageSize + o  BY <1>3, <1>6 DEF GetMapping
<1>8. GetMapping(p, k) \div PageSize = F /\ GetMapping(p, k) % PageSize = o  BY <1>4, <1>7, CellInPage
<1>9. Read(p, k) = mem[F][o]  BY <1>8 DEF Read
<1>10. OwnMemory(p)[F] = mem[F]  BY <1>4 DEF OwnMemory
<1>11. Contents(OwnMemory(p), root[p], image[p], task[Loader(p)], p)  BY KnownOf DEF ProcessSound
<1>12. Right(image[p], task[Loader(p)], p, v, o, OwnMemory(p)[F][o])  BY <1>2, <1>11 DEF Contents
<1> QED  BY <1>3, <1>6, <1>9, <1>10, <1>12

\* A running process has been given all of its image.
LEMMA RunningHas ==
    ASSUME ImagesFit, ImageInv, NEW p \in Procs, Running(p)
    PROVE  /\ task[Loader(p)].pc = "running" /\ task[Loader(p)].seg = Len(image[p].entries) + 1
           /\ Len(image[p].entries) \in Nat /\ DOMAIN image[p].entries = 1..Len(image[p].entries)
           /\ \A s \in 1..Len(image[p].entries) : Takes(image[p].entries[s]) =>
                 Whole(OwnMemory(p), root[p], FirstPage(image[p].entries[s]), PagesOf(image[p].entries[s].memsz))
           /\ Whole(OwnMemory(p), root[p], StackPage, StackPages)
           /\ image[p].args # 0 => Maps(OwnMemory(p), root[p], ArgsPage)
<1>1. PICK l : l = task[Loader(p)]  OBVIOUS
<1>2. l.pc = "running"  BY <1>1 DEF Running
<1>3. ExecutableFits(image[p])  BY KnownOf
<1>4. Len(image[p].entries) \in Nat /\ DOMAIN image[p].entries = 1..Len(image[p].entries)  BY <1>3, EntriesTyped
<1>5. LoaderSound(root[p], image[p], l) /\ Given(OwnMemory(p), root[p], image[p], l, Creator(p), Handles(p))
  BY <1>1, KnownOf DEF ProcessSound
<1>6. l.seg = Len(image[p].entries) + 1  BY <1>2, <1>5 DEF LoaderSound
<1>7. Passed(l) = Len(image[p].entries)  BY <1>2, <1>4, <1>6 DEF Passed
<1>8. HasStack(l) /\ (image[p].args # 0 => HasArgs(image[p], l))  BY <1>2 DEF HasStack, HasArgs
<1> QED  BY <1>1, <1>2, <1>4, <1>5, <1>6, <1>7, <1>8 DEF Given

LEMMA EntryIsLoaded ==
    ASSUME ImagesFit, ImageInv, NEW p \in Procs, Running(p), NEW s \in 1..Len(image[p].entries),
           image[p].entries[s].load, NEW j \in 0..(image[p].entries[s].memsz - 1)
    PROVE  /\ IsMapped(p, (image[p].entries[s].vaddr + j) \div PageSize)
           /\ Read(p, image[p].entries[s].vaddr + j) = IF j < image[p].entries[s].filesz THEN Data(p, s, j) ELSE Zero
<1>1. PICK e : e = image[p].entries[s]  OBVIOUS
<1>2. PICK i : i = image[p]  OBVIOUS
<1>3. PICK l : l = task[Loader(p)]  OBVIOUS
<1>4. ExecutableFits(i)  BY <1>2, KnownOf
<1>5. /\ e \in [load : BOOLEAN, vaddr : Nat, filesz : Nat, memsz : Nat] /\ EntryFits(e)
      /\ e.vaddr \in Nat /\ e.memsz \in Nat /\ e.filesz \in Nat /\ e.load
  BY <1>1, <1>2, <1>4, EntryTyped
<1>6. j \in Nat /\ j < e.memsz  BY <1>1, <1>5
<1>7. PICK k \in Nat : k = e.vaddr + j  BY <1>5, <1>6
<1>8. PICK v \in Nat : v = k \div PageSize  BY CellAddress
<1>9. PICK o \in Offset : o = k % PageSize  BY CellAddress
<1>10. k = Address(v, o)  BY <1>8, <1>9, CellAddress DEF Address
<1>11. Address(v, o) - e.vaddr = j  BY <1>5, <1>6, <1>7, <1>10
<1>12. Takes(e) /\ v - FirstPage(e) \in 0..(PagesOf(e.memsz) - 1) /\ v \in Page /\ v # ArgsPage
  BY <1>1, <1>2, <1>4, <1>11, PageOfCell
<1>13. Maps(OwnMemory(p), root[p], v)
  <2>1. Whole(OwnMemory(p), root[p], FirstPage(e), PagesOf(e.memsz))  BY <1>1, <1>12, RunningHas
  <2>2. PICK a \in Nat : a = FirstPage(e)  BY <1>1, <1>2, <1>4, <1>12, EntryPlaces
  <2>3. PICK d \in 0..(PagesOf(e.memsz) - 1) : d = v - a  BY <1>12, <2>2
  <2>4. a + d = v  BY <2>3
  <2> QED  BY <2>1, <2>2, <2>4 DEF Whole
<1>14. IsMapped(p, v) /\ Right(i, l, p, v, o, Read(p, k))  BY <1>2, <1>3, <1>10, <1>12, <1>13, ReadAt
<1>15. l.seg = Len(i.entries) + 1 /\ Len(i.entries) \in Nat  BY <1>2, <1>3, RunningHas
<1>16. 1..(l.seg - 1) = 1..Len(i.entries)  BY <1>15
<1>17. ~InArgs(i, l, v, o)  BY <1>12 DEF InArgs
<1>18. CASE j < e.filesz
  <2>1. k \in e.vaddr..(e.vaddr + e.filesz - 1)  BY <1>5, <1>6, <1>7, <1>18
  <2>2. InFile(i, l, s, Address(v, o))  BY <1>1, <1>2, <1>5, <1>10, <1>16, <2>1 DEF InFile
  <2>3. Read(p, k) = Data(p, s, Address(v, o) - i.entries[s].vaddr)  BY <1>2, <1>14, <1>16, <2>2 DEF Right
  <2>4. Read(p, k) = Data(p, s, j)  BY <1>1, <1>2, <1>11, <2>3
  <2> QED  BY <1>1, <1>7, <1>8, <1>14, <1>18, <2>4
<1>19. CASE ~(j < e.filesz)
  <2>1. ASSUME NEW u \in 1..Len(i.entries) PROVE ~InFile(i, l, u, Address(v, o))
    <3>1. PICK d : d = i.entries[u]  OBVIOUS
    <3>2. SUFFICES ASSUME InFile(i, l, u, Address(v, o)) PROVE FALSE  OBVIOUS
    <3>3. d.load /\ k \in d.vaddr..(d.vaddr + d.filesz - 1)  BY <1>10, <3>1, <3>2 DEF InFile
    <3>4. d \in [load : BOOLEAN, vaddr : Nat, filesz : Nat, memsz : Nat] /\ EntryFits(d)
      BY <1>4, <3>1, <3>3, EntryTyped
    <3>5. d.vaddr \in Nat /\ d.memsz \in Nat /\ d.filesz \in Nat /\ d.filesz <= d.memsz  BY <3>4 DEF EntryFits
    <3>6. k >= d.vaddr /\ k < d.vaddr + d.memsz /\ d.memsz > 0  BY <3>3, <3>5
    <3>7. Takes(d)  BY <3>3, <3>6 DEF Takes
    <3>8. u # s
      <4>1. u = s => d = e  BY <1>1, <1>2, <3>1
      <4>2. d = e => k < e.vaddr + e.filesz  BY <1>5, <3>3
      <4> QED  BY <1>5, <1>6, <1>7, <1>19, <4>1, <4>2
    <3>9. d.vaddr + d.memsz <= e.vaddr \/ e.vaddr + e.memsz <= d.vaddr
      <4>1. CASE u < s
        <5>1. EntriesAgree(d, e)  BY <1>1, <1>2, <1>4, <1>12, <3>1, <3>7, <4>1, AgreeAt
        <5> QED  BY <5>1 DEF EntriesAgree
      <4>2. CASE s < u
        <5>1. EntriesAgree(e, d)  BY <1>1, <1>2, <1>4, <1>12, <3>1, <3>7, <4>2, AgreeAt
        <5> QED  BY <5>1 DEF EntriesAgree
      <4>3. u < s \/ s < u  BY <3>8, <1>15, <1>2
      <4> QED  BY <4>1, <4>2, <4>3
    <3> QED  BY <1>5, <1>6, <1>7, <3>5, <3>6, <3>9
  <2>2. Read(p, k) = Zero  BY <1>14, <1>16, <1>17, <2>1 DEF Right
  <2> QED  BY <1>1, <1>7, <1>8, <1>14, <1>19, <2>2
<1> QED  BY <1>18, <1>19

LEMMA ArgsAreLoaded ==
    ASSUME ImagesFit, ImageInv, NEW p \in Procs, Running(p), image[p].args # 0, NEW j \in 0..image[p].args
    PROVE  /\ IsMapped(p, ArgsPage)
           /\ Read(p, ArgsPage * PageSize + j) = IF j < image[p].args THEN Data(p, 0, j) ELSE Zero
<1>1. PICK i : i = image[p]  OBVIOUS
<1>2. PICK l : l = task[Loader(p)]  OBVIOUS
<1>3. ExecutableFits(i)  BY <1>1, KnownOf
<1>4. i.args \in Nat /\ i.args < PageSize  BY <1>3 DEF ExecutableFits, Executables
<1>5. PICK o \in Offset : o = j
  <2>1. j \in Nat /\ j <= i.args /\ PageSize \in Nat  BY <1>1, <1>4, Offsets
  <2>2. j \in Offset  BY <1>4, <2>1 DEF Offset
  <2> QED  BY <2>2
<1>6. PICK v \in Page : v = ArgsPage  BY FixedPlaces
<1>7. PICK k : k = Address(v, o)  OBVIOUS
<1>8. k = ArgsPage * PageSize + j  BY <1>5, <1>6, <1>7 DEF Address
<1>9. Maps(OwnMemory(p), root[p], v)  BY <1>6, RunningHas
<1>10. IsMapped(p, v) /\ Right(i, l, p, v, o, Read(p, k))  BY <1>1, <1>2, <1>7, <1>9, ReadAt
<1>11. l.seg = Len(i.entries) + 1 /\ Len(i.entries) \in Nat /\ l.pc = "running"  BY <1>1, <1>2, RunningHas
<1>12. 1..(l.seg - 1) = 1..Len(i.entries)  BY <1>11
<1>13. CASE j < i.args
  <2>1. InArgs(i, l, v, o)  BY <1>5, <1>6, <1>11, <1>13 DEF InArgs
  <2>2. Read(p, k) = Data(p, 0, o)  BY <1>10, <2>1 DEF Right
  <2> QED  BY <1>1, <1>5, <1>6, <1>8, <1>10, <1>13, <2>2
<1>14. CASE ~(j < i.args)
  <2>1. ~InArgs(i, l, v, o)  BY <1>5, <1>14 DEF InArgs
  <2>2. ASSUME NEW u \in 1..Len(i.entries) PROVE ~InFile(i, l, u, Address(v, o))
    <3>1. PICK d : d = i.entries[u]  OBVIOUS
    <3>2. SUFFICES ASSUME InFile(i, l, u, Address(v, o)) PROVE FALSE  OBVIOUS
    <3>3. d.load /\ Address(v, o) \in d.vaddr..(d.vaddr + d.filesz - 1)  BY <3>1, <3>2 DEF InFile
    <3>4. d \in [load : BOOLEAN, vaddr : Nat, filesz : Nat, memsz : Nat] /\ EntryFits(d)
      BY <1>3, <3>1, <3>3, EntryTyped
    <3>5. d.vaddr \in Nat /\ d.memsz \in Nat /\ d.filesz \in Nat /\ d.filesz <= d.memsz  BY <3>4 DEF EntryFits
    <3>6. v \in Nat  BY DEF Page
    <3>7. PICK z \in Int : z = Address(v, o)  BY <3>3, <3>5
    <3>8. z - d.vaddr \in 0..(d.memsz - 1)  BY <3>3, <3>5, <3>7
    <3>9. Address(v, o) - d.vaddr \in 0..(d.memsz - 1)  BY <3>7, <3>8
    <3>10. v # ArgsPage  BY <1>3, <3>1, <3>3, <3>6, <3>9, PageOfCell
    <3> QED  BY <1>6, <3>10
  <2>3. Read(p, k) = Zero  BY <1>10, <1>12, <2>1, <2>2 DEF Right
  <2> QED  BY <1>1, <1>6, <1>8, <1>10, <1>14, <2>3
<1> QED  BY <1>13, <1>14

LEMMA StartHolds ==
    ASSUME ImagesFit, ImageInv
    PROVE  ProgramsStart
<1>1. TypeOK  BY DEF ImageInv
<1>2. ASSUME NEW p \in Procs, Running(p)
      PROVE  /\ \A s \in DOMAIN image[p].entries :
                    image[p].entries[s].load => \A j \in 0..(image[p].entries[s].memsz - 1) :
                      /\ IsMapped(p, (image[p].entries[s].vaddr + j) \div PageSize)
                      /\ Read(p, image[p].entries[s].vaddr + j) =
                            IF j < image[p].entries[s].filesz THEN Data(p, s, j) ELSE Zero
             /\ \A v \in StackPage..(StackPage + StackPages - 1) : IsMapped(p, v)
             /\ image[p].args # 0 =>
                  /\ IsMapped(p, ArgsPage)
                  /\ \A j \in 0..image[p].args :
                        Read(p, ArgsPage * PageSize + j) = IF j < image[p].args THEN Data(p, 0, j) ELSE Zero
  <2>1. DOMAIN image[p].entries = 1..Len(image[p].entries)  BY <1>2, RunningHas
  <2>2. \A s \in DOMAIN image[p].entries :
           image[p].entries[s].load => \A j \in 0..(image[p].entries[s].memsz - 1) :
             /\ IsMapped(p, (image[p].entries[s].vaddr + j) \div PageSize)
             /\ Read(p, image[p].entries[s].vaddr + j) =
                   IF j < image[p].entries[s].filesz THEN Data(p, s, j) ELSE Zero
    BY <1>2, <2>1, EntryIsLoaded
  <2>3. ASSUME NEW v \in StackPage..(StackPage + StackPages - 1) PROVE IsMapped(p, v)
    <3>1. Whole(OwnMemory(p), root[p], StackPage, StackPages)  BY <1>2, RunningHas
    <3>2. PICK k \in 0..(StackPages - 1) : v = StackPage + k
      <4>1. v - StackPage \in 0..(StackPages - 1) /\ v = StackPage + (v - StackPage)  BY FixedPlaces
      <4> QED  BY <4>1
    <3>3. Maps(OwnMemory(p), root[p], v)  BY <3>1, <3>2 DEF Whole
    <3>4. v \in Page  BY FixedPlaces DEF Page
    <3>5. Sound(OwnMemory(p), root[p])  BY KnownOf
    <3> QED  BY <3>3, <3>4, <3>5, SeenNow
  <2>4. ASSUME image[p].args # 0
        PROVE  /\ IsMapped(p, ArgsPage)
               /\ \A j \in 0..image[p].args :
                     Read(p, ArgsPage * PageSize + j) = IF j < image[p].args THEN Data(p, 0, j) ELSE Zero
    <3>1. 0 \in 0..image[p].args
      <4>1. ExecutableFits(image[p])  BY KnownOf
      <4>2. image[p].args \in Nat  BY <4>1 DEF ExecutableFits, Executables
      <4> QED  BY <4>2
    <3>2. IsMapped(p, ArgsPage)  BY <1>2, <2>4, <3>1, ArgsAreLoaded
    <3>3. \A j \in 0..image[p].args :
             Read(p, ArgsPage * PageSize + j) = IF j < image[p].args THEN Data(p, 0, j) ELSE Zero
      BY <1>2, <2>4, ArgsAreLoaded
    <3> QED  BY <3>2, <3>3
  <2> QED  BY <2>2, <2>3, <2>4
<1>3. ImageIsLoaded  BY <1>2 DEF ImageIsLoaded
<1>4. ThreadsHaveStacks
  <2>1. ASSUME NEW th \in threads, NEW v \in StackOf(th[2])..(StackOf(th[2]) + StackPages - 1) PROVE IsMapped(th[1], v)
    <3>1. PICK p \in Procs, h \in 1..MaxHandle : th = <<p, h>>  BY <1>1 DEF TypeOK
    <3>2. th[1] = p /\ th[2] = h /\ <<p, h>> \in threads  BY <3>1
    <3>3. h \in Stacks(Creator(p), Handles(p))  BY <3>2 DEF Stacks, Handles
    <3>4. Given(OwnMemory(p), root[p], image[p], task[Loader(p)], Creator(p), Handles(p)) /\ Sound(OwnMemory(p), root[p])
      BY KnownOf DEF ProcessSound
    <3>5. Whole(OwnMemory(p), root[p], StackOf(h), StackPages)  BY <3>3, <3>4 DEF Given
    <3>6. StackOf(h) \in Nat /\ StackOf(h) + 2 < NrPages /\ NrPages \in Nat /\ StackPages = 2  BY StackPlaces, FixedPlaces
    <3>7. PICK k \in 0..(StackPages - 1) : v = StackOf(h) + k
      <4>1. v - StackOf(h) \in 0..(StackPages - 1) /\ v = StackOf(h) + (v - StackOf(h))  BY <2>1, <3>2, <3>6
      <4> QED  BY <4>1
    <3>8. Maps(OwnMemory(p), root[p], v)  BY <3>5, <3>7 DEF Whole
    <3>9. v \in Page  BY <3>6, <3>7 DEF Page
    <3> QED  BY <3>2, <3>4, <3>8, <3>9, SeenNow
  <2> QED  BY <2>1 DEF ThreadsHaveStacks
<1> QED  BY <1>1, <1>3, <1>4 DEF ProgramsStart

----------------------------------------------------------------------------
(* The theorems. *)

\* A process that runs finds its program, its command line and its stacks in its memory as
\* ElfLoader::load and create_thread were asked to put them there, for any executables that
\* fit, any number of processes that are loaded at once and any memory.
THEOREM ProgramsStartAlways ==
    ASSUME ImagesFit
    PROVE  Spec => []ProgramsStart
<1>1. Init => ImageInv  BY InitHolds
<1>2. ImageInv /\ [Next]_vars => ImageInv'  BY NextStep
<1>3. ImageInv => ProgramsStart  BY StartHolds
<1> QED  BY <1>1, <1>2, <1>3, PTL DEF Spec

\* No frame backs two pages, and no page is backed by a page table, a free frame or a frame
\* of another process, whatever VMA::insert_mapping has mapped.
THEOREM MemoryIsPrivateAlways ==
    ASSUME ImagesFit
    PROVE  Spec => []MemoryIsPrivate
<1>1. Init => ImageInv  BY InitHolds
<1>2. ImageInv /\ [Next]_vars => ImageInv'  BY NextStep
<1>3. ImageInv => MemoryIsPrivate  BY PrivateHolds
<1> QED  BY <1>1, <1>2, <1>3, PTL DEF Spec

\* No segment, stack or table of a later call of VMA::allocate_virt takes the place of a page
\* that is mapped.
THEOREM MappingsStayAlways ==
    ASSUME ImagesFit
    PROVE  Spec => MappingsStay
<1>1. Init => ImageInv  BY InitHolds
<1>2. ImageInv /\ [Next]_vars => ImageInv'  BY NextStep
<1>3. ImageInv /\ [Next]_vars => [Stays]_vars  BY NextStep
<1>4. Stays <=> \A p \in Procs : \A v \in Page :
                   IsMapped(p, v) => IsMapped(p, v)' /\ FrameOf(p, v)' = FrameOf(p, v)
  BY DEF Stays
<1>5. ImageInv /\ [Next]_vars =>
        [\A p \in Procs : \A v \in Page :
            IsMapped(p, v) => IsMapped(p, v)' /\ FrameOf(p, v)' = FrameOf(p, v)]_vars
  BY <1>3, <1>4
<1> QED  BY <1>1, <1>2, <1>5, PTL DEF Spec, MappingsStay
=============================================================================
