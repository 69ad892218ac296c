--------------------------- MODULE StorageProofs ---------------------------
(***************************************************************************)
(* Proofs about SimplePages, Files and TarFS.  For any number of pages, any *)
(* largest order and any memory map, first fit implements PageSource, and   *)
(* what it gives out are pages, unless the memory behind the descriptors    *)
(* looks AVAILABLE.  For any processes, paths, devices and boot file        *)
(* system, paths lead where the mounts say and directories list what is     *)
(* in them.  For any archive that is packed, mounting makes its tree and    *)
(* seeking stays in its files.                                              *)
(***************************************************************************)
EXTENDS SimplePages, Files, TarFS, NaturalsInduction, WellFoundedInduction, FiniteSetTheorems, SequenceTheorems, TLAPS

----------------------------------------------------------------------------
(* First fit. *)

Size(o) == 2 ^ o

\* What the proofs use of the sizes of blocks.
LEMMA Sizes ==
    /\ Size(MaxOrder) \in Nat /\ \A o \in 0..MaxOrder : Size(o) \in Nat /\ 1 <= Size(o) /\ Size(o) <= Size(MaxOrder)
    /\ Index = 0..(NrPages + Size(MaxOrder))
    /\ \A p, o : Block(p, o) = p..(p + Size(o) - 1)
<1>1. MaxOrder \in 0..MaxOrder  BY SimpleAssumption
<1>2. \A o \in 0..MaxOrder : Size(o) \in 1..Size(MaxOrder)  BY SizeAssumption DEF Size
<1>3. Size(MaxOrder) \in Nat
  <2>1. Size(MaxOrder) \in 1..Size(MaxOrder)  BY <1>1, <1>2
  <2> QED  BY <2>1
<1>4. \A o \in 0..MaxOrder : Size(o) \in Nat /\ 1 <= Size(o) /\ Size(o) <= Size(MaxOrder)
  BY <1>2, <1>3
<1> QED  BY <1>3, <1>4 DEF Index, Block, Size

LEMMA BlockFacts ==
    ASSUME NEW p \in Page, NEW o \in 0..MaxOrder
    PROVE  p \in Block(p, o) /\ Block(p, o) \subseteq Index
BY Sizes, SimpleAssumption DEF Page

\* Min of a set that is not empty is in it, and no member is less.
LEMMA LeastOf ==
    ASSUME NEW S, S \subseteq Nat, S # {}
    PROVE  Min(S) \in S /\ \A x \in S : Min(S) <= x
<1>1. PICK x \in S : \A y \in S : ~(<<y, x>> \in OpToRel(<, Nat))
  BY NatLessThanWellFounded, WFMin
<1>2. ASSUME NEW y \in S PROVE x <= y
  <2>1. x \in Nat /\ y \in Nat  OBVIOUS
  <2>2. y < x => <<y, x>> \in OpToRel(<, Nat)
    <3>1. <<y, x>> \in Nat \X Nat  BY <2>1
    <3> QED  BY <3>1 DEF OpToRel
  <2>3. ~(y < x)  BY <1>1, <2>2
  <2> QED  BY <2>1, <2>3
<1>3. \E y \in S : \A z \in S : y <= z  BY <1>2
<1> QED  BY <1>3 DEF Min

----------------------------------------------------------------------------
\* The scan has not passed a run that would do, and only pages are AVAILABLE or held.
Inv ==
    /\ TypeOK
    /\ \A i \in Index \ Page : type[i] = "RESERVED"
    /\ phase # "idle" => \A p \in Page : p < idx => ~Fits(p, want)

LEMMA InitInv ==
    ASSUME "AVAILABLE" \notin Behind, Init
    PROVE  Inv
<1>0. Behind = {"RESERVED"}  BY SimpleAssumption
<1>1. PICK behind \in [Index \ Page -> Behind] :
        type = [i \in Index |-> IF i \in Usable THEN "AVAILABLE" ELSE IF i \in Page THEN "RESERVED" ELSE behind[i]]
  BY DEF Init
<1>2. \A i \in Index \ Page : type[i] = "RESERVED"
  BY <1>0, <1>1, SimpleAssumption DEF Page
<1>3. TypeOK
  <2>1. 0 \in Index /\ 0 \in 0..MaxOrder  BY Sizes, SimpleAssumption
  <2>2. type \in [Index -> {"RESERVED", "AVAILABLE", "ALLOCATED"}]  BY <1>0, <1>1
  <2> QED  BY <2>1, <2>2 DEF Init, TypeOK
<1> QED  BY <1>2, <1>3 DEF Init, Inv

\* A turn of the scan skips only runs with the same blocker in them.
LEMMA SkipInv ==
    ASSUME Inv, Skip
    PROVE  Inv'
<1>0. /\ phase = "scan" /\ idx \in Index /\ idx < NrPages /\ want \in 0..MaxOrder /\ idx \in Page
      /\ UNCHANGED <<type, phase, want>>
  BY Sizes, SimpleAssumption DEF Inv, TypeOK, Skip, Page
<1>1. PICK b : b = Blocker(idx, want)  OBVIOUS
<1>2. b \in Block(idx, want) /\ type[b] # "AVAILABLE" /\ \A j \in Block(idx, want) : j < b => type[j] = "AVAILABLE"
  <2> DEFINE S == {j \in Block(idx, want) : type[j] # "AVAILABLE"}
  <2>1. S # {}  BY DEF Skip, Fits
  <2>2. S \subseteq Nat  BY <1>0, BlockFacts, Sizes, SimpleAssumption
  <2>3. b \in S /\ \A x \in S : b <= x  BY <1>1, <2>1, <2>2, LeastOf DEF Blocker
  <2>4. ASSUME NEW j \in Block(idx, want), j < b PROVE j \notin S
    BY <2>2, <2>3, <2>4
  <2> QED  BY <2>3, <2>4
<1>3. idx' = b + 1  BY <1>1 DEF Skip
<1>4. b \in Nat /\ idx <= b /\ b < idx + Size(want) /\ Size(want) \in Nat /\ idx \in Nat
  BY <1>0, <1>2, Sizes, SimpleAssumption DEF Page
<1>5. idx' \in Index
  <2>1. Size(want) <= Size(MaxOrder) /\ Size(MaxOrder) \in Nat /\ NrPages \in Nat  BY <1>0, Sizes, SimpleAssumption
  <2>2. b + 1 <= NrPages + Size(MaxOrder)  BY <1>0, <1>4, <2>1
  <2> QED  BY <1>3, <1>4, <2>1, <2>2, Sizes
<1>6. ASSUME NEW p \in Page, p < b + 1 PROVE ~Fits(p, want)
  <2>1. CASE p < idx  BY <1>0, <2>1 DEF Inv
  <2>2. CASE ~(p < idx)
    <3>1. p \in Nat /\ b \in p..(p + Size(want) - 1)  BY <1>4, <1>6, <2>2, SimpleAssumption DEF Page
    <3>2. b \in Block(p, want)  BY <3>1, Sizes
    <3> QED  BY <1>2, <3>2 DEF Fits
  <2> QED  BY <2>1, <2>2
<1>7. \A p \in Page : p < idx' => ~Fits(p, want)'
  BY <1>0, <1>3, <1>6 DEF Fits
<1>8. TypeOK'  BY <1>0, <1>5 DEF Inv, TypeOK
<1> QED  BY <1>0, <1>7, <1>8 DEF Inv, Fits

LEMMA FoundInPages ==
    ASSUME Inv, Found
    PROVE  idx \in Page /\ want \in 0..MaxOrder /\ Block(idx, want) \subseteq Page
<1>1. idx \in Page /\ want \in 0..MaxOrder
  BY Sizes, SimpleAssumption DEF Inv, TypeOK, Found, Page
<1>2. \A j \in Block(idx, want) : j \in Index /\ type[j] = "AVAILABLE"  BY <1>1, BlockFacts DEF Found, Fits
<1> QED  BY <1>1, <1>2 DEF Inv

LEMMA StepInv ==
    ASSUME Inv, [Next]_vars
    PROVE  Inv'
<1>1. CASE UNCHANGED vars  BY <1>1 DEF vars, Inv, TypeOK, Fits
<1>2. CASE Skip  BY <1>2, SkipInv
<1>3. CASE Found
  <2>1. Block(idx, want) \subseteq Page  BY <1>3, FoundInPages
  <2>2. type' = [i \in Index |-> IF i \in Block(idx, want) THEN "ALLOCATED" ELSE type[i]]
        /\ phase' = "idle" /\ UNCHANGED <<idx, want>>
    BY <1>3 DEF Found
  <2>3. TypeOK'  BY <2>2 DEF Inv, TypeOK
  <2>4. \A i \in Index \ Page : type'[i] = "RESERVED"  BY <2>1, <2>2 DEF Inv
  <2> QED  BY <2>2, <2>3, <2>4 DEF Inv
<1>4. CASE NotFound
  <2>1. phase = "scan" /\ phase' = "halted" /\ UNCHANGED <<type, idx, want>>  BY <1>4 DEF NotFound
  <2> QED  BY <2>1 DEF Inv, TypeOK, Fits
<1>5. CASE Halted  BY <1>5 DEF Halted, vars, Inv, TypeOK, Fits
<1>6. CASE \E order \in 0..MaxOrder : AllocPages(order)
  <2>1. PICK order \in 0..MaxOrder : AllocPages(order)  BY <1>6
  <2>2. phase' = "scan" /\ want' = order /\ idx' = 0 /\ type' = type  BY <2>1 DEF AllocPages
  <2>3. 0 \in Index /\ \A p \in Page : ~(p < 0)  BY Sizes, SimpleAssumption DEF Page
  <2> QED  BY <2>2, <2>3 DEF Inv, TypeOK
<1>7. CASE \E order \in 0..MaxOrder : FreePages(order)
  <2>1. PICK order \in 0..MaxOrder, p \in Page : Block(p, order) \subseteq Held /\ FreeBlock(p, order)
    BY <1>7 DEF FreePages
  <2>2. /\ type' = [i \in Index |-> IF i \in Block(p, order) THEN "AVAILABLE" ELSE type[i]]
        /\ phase = "idle" /\ UNCHANGED <<phase, idx, want>>
    BY <2>1 DEF FreeBlock
  <2>3. \A i \in Block(p, order) : i \in Page  BY <2>1 DEF Held, Inv
  <2>4. TypeOK'  BY <2>2 DEF Inv, TypeOK
  <2>5. \A i \in Index \ Page : type'[i] = "RESERVED"  BY <2>2, <2>3 DEF Inv
  <2> QED  BY <2>2, <2>4, <2>5 DEF Inv
<1> QED  BY <1>1, <1>2, <1>3, <1>4, <1>5, <1>6, <1>7 DEF Next

LEMMA Invariant ==
    ASSUME "AVAILABLE" \notin Behind
    PROVE  Spec => []Inv
<1>1. Init => Inv  BY InitInv
<1>2. Inv /\ [Next]_vars => Inv'  BY StepInv
<1> QED  BY <1>1, <1>2, PTL DEF Spec

\* The scan of alloc_pages gives out descriptors of pages, although nothing stops it at the
\* last one, if what lies behind never looks AVAILABLE.
THEOREM GivenOutExist ==
    ASSUME "AVAILABLE" \notin Behind
    PROVE  Spec => []PagesExist
<1>1. Inv => PagesExist  BY DEF Inv, PagesExist, Held
<1> QED  BY <1>1, Invariant, PTL

----------------------------------------------------------------------------
(* The refinement. *)

Avail == {p \in Page : type[p] = "AVAILABLE"}
Failed == IF phase = "halted" THEN want ELSE -1
mapped == <<Avail, Held, Failed>>

LEMMA SourceRuns ==
    ASSUME NEW S, NEW o
    PROVE  /\ \A p : Source!Run(p, o) = Block(p, o)
           /\ \A p : p \in Source!Runs(S, o) <=> p \in Page /\ Block(p, o) \subseteq S
BY DEF Source!Runs, Source!Run, Block

LEMMA RefinedInit ==
    ASSUME "AVAILABLE" \notin Behind, Init
    PROVE  Source!Init
<1>1. PICK behind \in [Index \ Page -> Behind] :
        type = [i \in Index |-> IF i \in Usable THEN "AVAILABLE" ELSE IF i \in Page THEN "RESERVED" ELSE behind[i]]
  BY DEF Init
<1>2. Page \subseteq Index /\ Usable \subseteq Page  BY Sizes, SimpleAssumption DEF Page
<1>3. Avail = Usable  BY <1>1, <1>2 DEF Avail
<1>4. Held = {}  BY <1>1, SimpleAssumption DEF Held
<1>5. Failed = -1  BY DEF Failed, Init
<1> QED  BY <1>3, <1>4, <1>5 DEF Source!Init, Avail, Failed

LEMMA RefinedStep ==
    ASSUME Inv, Inv', [Next]_vars
    PROVE  [Source!Next]_mapped
<1>0. Page \subseteq Index  BY Sizes, SimpleAssumption DEF Page
<1>1. CASE UNCHANGED vars  BY <1>1 DEF vars, mapped, Avail, Held, Failed
<1>2. CASE Skip \/ Halted
  BY <1>2 DEF Skip, Halted, vars, mapped, Avail, Held, Failed
<1>3. CASE \E order \in 0..MaxOrder : AllocPages(order)
  BY <1>3 DEF AllocPages, mapped, Avail, Held, Failed
<1>4. CASE Found
  <2>1. idx \in Page /\ want \in 0..MaxOrder /\ Block(idx, want) \subseteq Page  BY <1>4, FoundInPages
  <2>2. type' = [i \in Index |-> IF i \in Block(idx, want) THEN "ALLOCATED" ELSE type[i]]
        /\ phase' = "idle" /\ phase = "scan" /\ Fits(idx, want)
    BY <1>4 DEF Found
  <2>3. Block(idx, want) \subseteq Avail  BY <2>1, <2>2 DEF Fits, Avail
  <2>4. Avail' = Avail \ Block(idx, want)  BY <1>0, <2>2 DEF Avail
  <2>5. Held' = Held \cup Block(idx, want)  BY <1>0, <2>1, <2>2 DEF Held
  <2>6. Failed' = Failed  BY <2>2 DEF Failed
  <2>7. PICK o \in 0..MaxOrder : o = want  BY <2>1
  <2>8. Source!Grant(o)
    BY <2>1, <2>3, <2>4, <2>5, <2>6, <2>7, SourceRuns DEF Source!Grant, Avail, Failed
  <2> QED  BY <2>8 DEF Source!Next
<1>5. CASE NotFound
  <2>1. phase = "scan" /\ idx >= NrPages /\ phase' = "halted" /\ UNCHANGED <<type, idx, want>>
    BY <1>5 DEF NotFound
  <2>2. ASSUME NEW p \in Page PROVE ~(Block(p, want) \subseteq Avail)
    <3>1. p < idx  BY <2>1, SimpleAssumption DEF Inv, TypeOK, Page, Index
    <3>2. ~Fits(p, want)  BY <2>1, <3>1 DEF Inv
    <3> QED  BY <3>2 DEF Fits, Avail
  <2>3. Source!Runs(Avail, want) = {}  BY <2>2, SourceRuns
  <2>4. Avail' = Avail /\ Held' = Held /\ Failed' = want  BY <2>1 DEF Avail, Held, Failed
  <2>5. Source!Refuse(want)  BY <2>3, <2>4 DEF Source!Refuse, Avail, Failed
  <2>6. want \in 0..MaxOrder  BY DEF Inv, TypeOK
  <2> QED  BY <2>5, <2>6 DEF Source!Next
<1>6. CASE \E order \in 0..MaxOrder : FreePages(order)
  <2>1. PICK order \in 0..MaxOrder, p \in Page : Block(p, order) \subseteq Held /\ FreeBlock(p, order)
    BY <1>6 DEF FreePages
  <2>2. /\ type' = [i \in Index |-> IF i \in Block(p, order) THEN "AVAILABLE" ELSE type[i]]
        /\ UNCHANGED <<phase, want>>
    BY <2>1 DEF FreeBlock
  <2>3. Block(p, order) \subseteq Page  BY <2>1 DEF Held, Inv
  <2>4. Avail' = Avail \cup Block(p, order)  BY <1>0, <2>2, <2>3 DEF Avail
  <2>5. Held' = Held \ Block(p, order)  BY <1>0, <2>2 DEF Held
  <2>6. Failed' = Failed  BY <2>2 DEF Failed
  <2>7. Source!Release(order)
    BY <2>1, <2>4, <2>5, <2>6, SourceRuns DEF Source!Release, Avail, Failed
  <2> QED  BY <2>7 DEF Source!Next
<1> QED  BY <1>1, <1>2, <1>3, <1>4, <1>5, <1>6 DEF Next

\* SimplePageAllocationAlgorithm under PageAllocator does what PageSource promises: a block
\* that is given out was free and contiguous, a block that is released is free again, and a
\* request is refused only when no run of pages would have served it.
THEOREM FirstFitImplements ==
    ASSUME "AVAILABLE" \notin Behind
    PROVE  Spec => ImplementsPageSource
<1>1. Init => Source!Init  BY RefinedInit
<1>2. Inv /\ Inv' /\ [Next]_vars => [Source!Next]_mapped  BY RefinedStep
<1> QED  BY <1>1, <1>2, Invariant, PTL DEF Spec, ImplementsPageSource, Source!Spec, mapped, Avail, Failed

----------------------------------------------------------------------------
(* The virtual file system. *)

\* What components of names are: strings, and the literals, which the provers do not
\* know to be strings.
Name == STRING \cup {"none", "tmpfs", "devfs", "bootfs", "vfat", "rootfs", "dev", "usr"}

----------------------------------------------------------------------------
(* Where names lead. *)

\* The components of a path that a look-up follows: those before the first empty one.
Cut(comps) ==
    LET end == SelectInSeq(comps, LAMBDA c : c = EmptyString)
    IN IF end = 0 THEN comps ELSE SubSeq(comps, 1, end - 1)

TmpRoot == {<<"tmpfs">>}
TmpDev == TmpRoot \cup {<<"tmpfs", "dev">>}
TmpAll == TmpDev \cup {<<"tmpfs", "usr">>}

\* get_child when the start-up is over.
Child(pn, name) ==
    IF Head(pn) = "tmpfs" THEN (IF Append(pn, name) \in TmpAll THEN Append(pn, name) ELSE None)
    ELSE IF Head(pn) = "devfs" THEN DevChild(pn, name)
    ELSE IF Head(pn) = "bootfs" THEN BootChild(pn, name)
    ELSE None

\* One component, from a node that is mounted when the start-up is over; f is the root
\* of the boot file system.
Step(f, pn, name) ==
    IF pn = <<"tmpfs">>
    THEN IF name = "dev" THEN <<"devfs">> ELSE IF name = "usr" THEN f ELSE None
    ELSE Child(pn, name)

\* Components without an empty one, from the root and from any node.
Lead(f, c) ==
    IF c = <<>> THEN <<"tmpfs">>
    ELSE IF c = <<"dev">> THEN <<"devfs">>
    ELSE IF Len(c) = 2 /\ c[1] = "dev" /\ c[2] \in DOMAIN DeviceOf THEN <<"devfs", DeviceOf[c[2]]>>
    ELSE IF c[1] = "usr" /\ (Len(c) = 1 \/ (f = <<"bootfs">> /\ Tail(c) \in BootTree))
         THEN f \o Tail(c)
    ELSE None
Follow(f, pn, c) ==
    IF pn = <<"tmpfs">> THEN Lead(f, c)
    ELSE IF pn = <<"devfs">> /\ Len(c) = 1 /\ c[1] \in DOMAIN DeviceOf THEN <<"devfs", DeviceOf[c[1]]>>
    ELSE IF Head(pn) = "bootfs" THEN (IF Tail(pn) \o c \in BootTree THEN pn \o c ELSE None)
    ELSE IF c = <<>> THEN pn ELSE None
Goal(f, path) == IF path.abs THEN Follow(f, <<"tmpfs">>, Cut(path.comps)) ELSE None

BootRoots == {<<"bootfs">>, <<"vfat">>}

\* The physical nodes that look-ups meet.
Good(pn) ==
    /\ pn \in Seq(Name) /\ pn # <<>>
    /\ \/ pn \in {<<"tmpfs">>, <<"devfs">>, <<"vfat">>}
       \/ Len(pn) = 2 /\ Head(pn) = "devfs"
       \/ Head(pn) = "bootfs" /\ Tail(pn) \in BootTree

----------------------------------------------------------------------------
(* The inductive invariant. *)

\* The nodes in each step of the start-up.
RootOnly(ns, pn) == Len(ns) = 1 /\ ns[1] = Node(pn)
DevMade(ns, pn) ==
    /\ Len(ns) = 2 /\ ns[1].pn = <<"tmpfs">>
    /\ DOMAIN ns[1].child = {"dev"} /\ ns[1].child["dev"] = 2
    /\ ns[2] = Node(pn)
UsrMade(ns, pn) ==
    /\ Len(ns) = 3 /\ ns[1].pn = <<"tmpfs">>
    /\ DOMAIN ns[1].child = {"dev", "usr"}
    /\ ns[1].child["dev"] = 2 /\ ns[1].child["usr"] = 3
    /\ ns[2] = Node(<<"devfs">>) /\ ns[3] = Node(pn)
BootSound ==
    /\ boot.fstype \notin {"rootfs", "tmpfs", "devfs"}
    /\ boot.pc = "vfs" => tmpdirs = {}
    /\ boot.pc = "root" => RootOnly(nodes, <<"rootfs">>)
    /\ boot.pc = "dev" => RootOnly(nodes, <<"tmpfs">>) /\ tmpdirs = TmpRoot
    /\ boot.pc = "devfs" => DevMade(nodes, <<"tmpfs", "dev">>) /\ tmpdirs = TmpDev
    /\ boot.pc = "usr" => DevMade(nodes, <<"devfs">>) /\ tmpdirs = TmpDev
    /\ boot.pc = "bootfs" => UsrMade(nodes, <<"tmpfs", "usr">>) /\ tmpdirs = TmpAll
    /\ boot.pc = "up" => tmpdirs = TmpAll
    /\ boot.pc # "up" => objects = <<>> /\ listed = <<>> /\ \A p \in Proc : syscall[p] = NoCall

\* A node that is cached under a name is the one that the name leads to.
CacheSound(ns, f, i) ==
    \A n \in DOMAIN ns[i].child :
        /\ ns[i].child[n] \in DOMAIN ns
        /\ ns[ns[i].child[n]].pn = Step(f, ns[i].pn, n) /\ Step(f, ns[i].pn, n) # None
NodeSound(ns, f, i) ==
    /\ Good(ns[i].pn) /\ CacheSound(ns, f, i)
    /\ ns[i].pn = <<"tmpfs">> => {"dev", "usr"} \subseteq DOMAIN ns[i].child
TreeSound(ns, f) ==
    /\ Len(ns) >= 1 /\ ns[1].pn = <<"tmpfs">>
    /\ \A i \in DOMAIN ns : NodeSound(ns, f, i)

\* What is left of a look-up leads where the whole path leads.
OnTheWay(ns, f, c) == c.at \in DOMAIN ns /\ Follow(f, ns[c.at].pn, Cut(c.rest)) = Goal(f, c.path)
LookupSound(ns, f, c) ==
    /\ c.pc \in {"lookup", "add"} => OnTheWay(ns, f, c)
    /\ c.pc = "add" => /\ c.rest # <<>> /\ Head(c.rest) # EmptyString
                       /\ c.pn = Step(f, ns[c.at].pn, Head(c.rest)) /\ c.pn # None
                       /\ ns[c.at].pn # <<"tmpfs">>
    /\ c.pc = "found" => /\ c.at # 0 => c.at \in DOMAIN ns
                         /\ (IF c.at = 0 THEN None ELSE ns[c.at].pn) = Goal(f, c.path)

\* The entries of an opened directory lead to nodes; other objects have none.
EntriesLead(of, entries) == \A k \in DOMAIN entries : Child(of, entries[k]) # None
Dirs == {"simple", "tar"}
OpenSound(o) ==
    /\ o.pos = 0 /\ EntriesLead(o.of, o.entries)
    /\ o.kind \notin Dirs => o.entries = <<>>
\* What was read from a directory are its first entries.
ListedSound(o, l) ==
    /\ EntriesLead(o.of, l.all)
    /\ o.kind \notin Dirs => l.all = <<>> /\ l.seen = <<>>
    /\ o.kind \in Dirs => /\ o.entries \in {l.all, <<>>}
                          /\ Len(l.seen) = o.pos /\ o.pos <= Len(l.all)
                          /\ \A k \in 1..o.pos : l.seen[k] = l.all[k]

CallsSound == \A p \in Proc : /\ LookupSound(nodes, BootFs, syscall[p])
                              /\ syscall[p].pc = "register" => OpenSound(syscall[p].object)
ObjectsSound == Len(listed) = Len(objects) /\ \A h \in DOMAIN objects : ListedSound(objects[h].object, listed[h])
FilesSound ==
    BootSound /\ (boot.pc = "up" => TreeSound(nodes, BootFs)) /\ CallsSound /\ ObjectsSound

Cache == UNION {[D -> Nat] : D \in SUBSET Name}
NodeType == [pn : Seq(Name), child : Cache]
ObjType == [kind : {"none", "device", "file", "process", "simple", "tar"}, of : Seq(Name),
            entries : Seq(Name), pos : Nat]
PathType == [abs : BOOLEAN, comps : Seq(Name)]
CallType == [op : {"none", "open", "opendir", "exec"},
             pc : {"idle", "lookup", "add", "found", "register", "done"}, path : PathType, at : Nat,
             rest : Seq(Name), pn : Seq(Name), object : ObjType]
BootType == [pc : {"vfs", "root", "dev", "devfs", "usr", "bootfs", "aborted", "up"},
             device : STRING, fstype : STRING, calls : Nat]
FilesType ==
    /\ boot \in BootType /\ nodes \in Seq(NodeType) /\ syscall \in [Proc -> CallType]
    /\ objects \in Seq([owner : Proc, object : ObjType])
    /\ listed \in Seq([all : Seq(Name), seen : Seq(Name)])

FilesInv == FilesType /\ FilesSound
----------------------------------------------------------------------------
(* Lemmas on the paths. *)

LEMMA Literals ==
    /\ STRING \subseteq Name
    /\ "tmpfs" \in Name /\ "devfs" \in Name /\ "bootfs" \in Name /\ "vfat" \in Name
    /\ "rootfs" \in Name /\ "dev" \in Name /\ "usr" \in Name /\ "none" \in Name
BY DEF Name

LEMMA OneName ==
    ASSUME NEW n \in Name
    PROVE  <<n>> \in Seq(Name) /\ <<n>> # <<>> /\ Head(<<n>>) = n /\ Tail(<<n>>) = <<>> /\ Len(<<n>>) = 1
<1>1. <<n>> = Append(<<>>, n) /\ <<>> \in Seq(Name)  OBVIOUS
<1> QED  BY <1>1, AppendProperties

LEMMA TwoNames ==
    ASSUME NEW n \in Name, NEW m \in Name
    PROVE  /\ <<n, m>> \in Seq(Name) /\ <<n, m>> # <<>> /\ Head(<<n, m>>) = n /\ Len(<<n, m>>) = 2
           /\ \A k : <<n, m>> # <<k>>
<1>1. <<n, m>> = Append(<<n>>, m) /\ <<n>> \in Seq(Name)  BY OneName
<1> QED  BY <1>1, AppendProperties

LEMMA TwoAppended == ASSUME NEW a \in Name, NEW b \in Name PROVE Append(<<a>>, b) = <<a, b>>
<1>1. <<a, b>> = Append(<<a>>, b) /\ <<a>> \in Seq(Name)  BY OneName
<1> QED  BY <1>1

LEMMA TreeNames == BootTree \subseteq Seq(Name)
<1> SUFFICES ASSUME NEW p \in BootTree PROVE p \in Seq(Name)  OBVIOUS
<1> QED  BY FilesAssumption, Literals, SeqMonotonic

\* n components are before the first empty one.
CutAt(s, n) == /\ n \in 0..Len(s) /\ \A i \in 1..n : s[i] # EmptyString
               /\ n < Len(s) => s[n + 1] = EmptyString

LEMMA CutIs ==
    ASSUME NEW s \in Seq(Name)
    PROVE  \E n \in 0..Len(s) : CutAt(s, n) /\ Cut(s) = SubSeq(s, 1, n)
<1> DEFINE I == {i \in 1..Len(s) : s[i] = EmptyString}
           end == IF I # {} THEN Min(I) ELSE 0
<1>0. Len(s) \in Nat  OBVIOUS
<1>1. Cut(s) = IF end = 0 THEN s ELSE SubSeq(s, 1, end - 1)
  BY DEF Cut, SelectInSeq
<1>2. CASE I = {}
  <2>1. end = 0  BY <1>2
  <2>2. Cut(s) = s  BY <1>1, <2>1
  <2>3. s = SubSeq(s, 1, Len(s))  BY SubSeqFull
  <2>4. CutAt(s, Len(s))
    <3>1. \A i \in 1..Len(s) : s[i] # EmptyString  BY <1>2
    <3>2. Len(s) \in 0..Len(s) /\ ~(Len(s) < Len(s))  BY <1>0
    <3> HIDE DEF I
    <3> QED  BY <3>1, <3>2 DEF CutAt
  <2>5. Len(s) \in 0..Len(s)  BY <1>0
  <2> HIDE DEF I, end
  <2> QED  BY <2>2, <2>3, <2>4, <2>5
<1>3. CASE I # {}
  <2>1. I \subseteq Nat  OBVIOUS
  <2>2. Min(I) \in I /\ \A x \in I : Min(I) <= x  BY <1>3, <2>1, LeastOf
  <2> HIDE DEF I
  <2>3. end = Min(I)  BY <1>3
  <2>4. end \in 1..Len(s) /\ s[end] = EmptyString  BY <2>2, <2>3 DEF I
  <2>5. \A x \in I : end <= x  BY <2>2, <2>3
  <2> HIDE DEF end
  <2>6. ASSUME NEW i \in 1..(end - 1) PROVE s[i] # EmptyString
    <3>1. i \in 1..Len(s) /\ ~(end <= i)  BY <1>0, <2>4
    <3> QED  BY <3>1, <2>5 DEF I
  <2>7. end - 1 \in 0..Len(s) /\ end - 1 + 1 = end  BY <1>0, <2>4
  <2>8. CutAt(s, end - 1)  BY <1>0, <2>4, <2>6, <2>7 DEF CutAt
  <2>9. Cut(s) = SubSeq(s, 1, end - 1)  BY <1>0, <1>1, <2>4
  <2> QED  BY <2>7, <2>8, <2>9
<1> QED  BY <1>2, <1>3

LEMMA CutEmpty ==
    ASSUME NEW s \in Seq(Name), s = <<>> \/ Head(s) = EmptyString
    PROVE  Cut(s) = <<>>
<1>1. PICK n \in 0..Len(s) : CutAt(s, n) /\ Cut(s) = SubSeq(s, 1, n)  BY CutIs
<1>2. n = 0
  <2>1. CASE s = <<>>  BY <2>1, <1>1
  <2>2. CASE s # <<>>
    <3>1. s[1] = EmptyString /\ Len(s) \in Nat  BY <2>2
    <3>2. 1 \in 1..n => s[1] # EmptyString  BY <1>1 DEF CutAt
    <3> QED  BY <3>1, <3>2
  <2> QED  BY <2>1, <2>2
<1> QED  BY <1>1, <1>2, SubSeqEmpty

\* A look-up that goes on has one component more before the end than what is left.
LEMMA CutStep ==
    ASSUME NEW s \in Seq(Name), s # <<>>, Head(s) # EmptyString
    PROVE  Cut(s) = <<Head(s)>> \o Cut(Tail(s)) /\ Cut(Tail(s)) \in Seq(Name)
<1>0. Len(s) \in Nat /\ Len(s) >= 1 /\ Head(s) = s[1]  OBVIOUS
<1>1. /\ Tail(s) \in Seq(Name) /\ Len(Tail(s)) = Len(s) - 1
      /\ \A i \in 1..Len(Tail(s)) : Tail(s)[i] = s[i + 1]
  BY HeadTailProperties
<1>2. PICK n \in 0..Len(s) : CutAt(s, n) /\ Cut(s) = SubSeq(s, 1, n)  BY CutIs
<1> DEFINE t == Tail(s)
<1>3. PICK k \in 0..Len(t) : CutAt(t, k) /\ Cut(t) = SubSeq(t, 1, k)  BY <1>1, CutIs
<1> HIDE DEF t
<1>4. n \in Nat /\ k \in Nat /\ n <= Len(s) /\ k <= Len(s) - 1  BY <1>0, <1>1, <1>2, <1>3 DEF t
<1>5. n >= 1
  <2>1. n < Len(s) => s[n + 1] = EmptyString  BY <1>2 DEF CutAt
  <2> QED  BY <2>1, <1>0, <1>4
<1>6. \A i \in 1..n : s[i] # EmptyString  BY <1>2 DEF CutAt
<1>7. \A i \in 1..k : t[i] # EmptyString  BY <1>3 DEF CutAt
<1>8. \A i \in 1..(Len(s) - 1) : t[i] = s[i + 1]  BY <1>1 DEF t
<1>9. ~(k < n - 1)
  <2> SUFFICES ASSUME k < n - 1 PROVE FALSE  OBVIOUS
  <2>1. k < Len(t) /\ k + 1 \in 1..(Len(s) - 1)  BY <1>0, <1>1, <1>4 DEF t
  <2>2. t[k + 1] = EmptyString  BY <2>1, <1>3 DEF CutAt
  <2>3. s[k + 1 + 1] = EmptyString  BY <2>1, <2>2, <1>8
  <2>4. k + 1 + 1 \in 1..n  BY <1>4
  <2> QED  BY <2>3, <2>4, <1>6
<1>10. ~(n - 1 < k)
  <2> SUFFICES ASSUME n - 1 < k PROVE FALSE  OBVIOUS
  <2>1. n < Len(s) /\ n \in 1..k /\ n \in 1..(Len(s) - 1)  BY <1>4, <1>5
  <2>2. s[n + 1] = EmptyString  BY <2>1, <1>2 DEF CutAt
  <2>3. t[n] = EmptyString  BY <2>1, <2>2, <1>8
  <2> QED  BY <2>1, <2>3, <1>7
<1>11. k = n - 1  BY <1>4, <1>9, <1>10
<1>12. 1 \in 1..Len(s) /\ n \in 1..Len(s)  BY <1>0, <1>4, <1>5
<1>13. SubSeq(s, 1, n) = <<s[1]>> \o SubSeq(s, 1 + 1, n)  BY <1>5, <1>12, SubSeqRecursiveFirst
<1>14. SubSeq(s, 2, n) = SubSeq(t, 1, k)
  <2>1. \A i \in 2..n : s[i] \in Name  BY <1>4
  <2>2. SubSeq(s, 2, n) \in Seq(Name) /\ Len(SubSeq(s, 2, n)) = n - 1
        /\ \A i \in 1..(n - 1) : SubSeq(s, 2, n)[i] = s[2 + i - 1]
    <3>1. /\ SubSeq(s, 2, n) \in Seq(Name)
          /\ Len(SubSeq(s, 2, n)) = IF 2 <= n THEN n - 2 + 1 ELSE 0
          /\ \A i \in 1..(n - 2 + 1) : SubSeq(s, 2, n)[i] = s[2 + i - 1]
      BY <2>1, <1>4, SubSeqProperties
    <3>2. n - 2 + 1 = n - 1 /\ (~(2 <= n) => n - 1 = 0)  BY <1>4, <1>5
    <3> QED  BY <3>1, <3>2
  <2>3. \A i \in 1..k : t[i] \in Name  BY <1>1, <1>4 DEF t
  <2>4. SubSeq(t, 1, k) \in Seq(Name) /\ Len(SubSeq(t, 1, k)) = n - 1
        /\ \A i \in 1..(n - 1) : SubSeq(t, 1, k)[i] = t[i]
    <3>1. /\ SubSeq(t, 1, k) \in Seq(Name)
          /\ Len(SubSeq(t, 1, k)) = IF 1 <= k THEN k - 1 + 1 ELSE 0
          /\ \A i \in 1..(k - 1 + 1) : SubSeq(t, 1, k)[i] = t[1 + i - 1]
      BY <2>3, <1>4, SubSeqProperties
    <3>2. k - 1 + 1 = n - 1 /\ (~(1 <= k) => n - 1 = 0) /\ \A i \in 1..(n - 1) : 1 + i - 1 = i
      BY <1>4, <1>5, <1>11
    <3> QED  BY <3>1, <3>2
  <2>5. \A i \in 1..(n - 1) : 2 + i - 1 = i + 1 /\ i \in 1..(Len(s) - 1)  BY <1>4
  <2>6. \A i \in 1..(n - 1) : SubSeq(s, 2, n)[i] = SubSeq(t, 1, k)[i]  BY <2>2, <2>4, <2>5, <1>8
  <2> QED  BY <2>2, <2>4, <2>6, SeqEqual
<1>15. SubSeq(t, 1, k) \in Seq(Name)
  <2>1. \A i \in 1..k : t[i] \in Name  BY <1>1, <1>4 DEF t
  <2> QED  BY <2>1, <1>4, SubSeqProperties
<1>16. Cut(s) = <<Head(s)>> \o Cut(t)  BY <1>0, <1>2, <1>3, <1>13, <1>14
<1> QED  BY <1>3, <1>15, <1>16 DEF t

\* The boot file system has the directories of all its paths.
LEMMA PrefixInTree ==
    ASSUME NEW p \in BootTree, NEW n \in 0..Len(p)
    PROVE  SubSeq(p, 1, n) \in BootTree
<1>0. p \in Seq(Name) /\ Len(p) \in Nat  BY TreeNames
<1> DEFINE S == {j \in Nat : j <= Len(p) /\ SubSeq(p, 1, Len(p) - j) \notin BootTree}
<1>1. S = {}
  <2> SUFFICES ASSUME S # {} PROVE FALSE  OBVIOUS
  <2>1. S \subseteq Nat  OBVIOUS
  <2>2. PICK j : j \in S /\ \A x \in S : j <= x  BY <2>1, LeastOf
  <2>3. j \in Nat /\ j <= Len(p) /\ SubSeq(p, 1, Len(p) - j) \notin BootTree  BY <2>2
  <2>4. j # 0
    <3>1. SubSeq(p, 1, Len(p)) = p  BY <1>0, SubSeqFull
    <3>2. j = 0 => Len(p) - j = Len(p)  BY <1>0
    <3> QED  BY <2>3, <3>1, <3>2
  <2> DEFINE m == Len(p) - j + 1
             q == SubSeq(p, 1, m)
  <2>5. j - 1 \in Nat /\ j - 1 <= Len(p) /\ Len(p) - (j - 1) = m /\ ~(j <= j - 1)
    BY <1>0, <2>3, <2>4
  <2>6. j - 1 \notin S  BY <2>2, <2>5
  <2>7. q \in BootTree  BY <2>5, <2>6
  <2>8. m \in 1..Len(p) /\ m - 1 = Len(p) - j  BY <1>0, <2>3, <2>4
  <2>9. /\ q \in Seq(Name) /\ Len(q) = m /\ \A i \in 1..m : q[i] = p[i]
    <3>1. \A i \in 1..m : p[i] \in Name  BY <1>0, <2>8
    <3>2. /\ q \in Seq(Name) /\ Len(q) = IF 1 <= m THEN m - 1 + 1 ELSE 0
          /\ \A i \in 1..(m - 1 + 1) : q[i] = p[1 + i - 1]
      <4>1. m \in Int  BY <2>8, <1>0
      <4> HIDE DEF m
      <4> QED  BY <3>1, <4>1, SubSeqProperties
    <3>3. 1 <= m /\ m - 1 + 1 = m /\ \A i \in 1..m : 1 + i - 1 = i  BY <2>8, <1>0
    <3> HIDE DEF m, q
    <3> QED  BY <3>2, <3>3
  <2> HIDE DEF m, q
  <2>10. q # <<>>
    <3>1. Len(q) # 0  BY <2>8, <2>9, <1>0
    <3> QED  BY <3>1
  <2>11. SubSeq(q, 1, m - 1) \in BootTree
    <3>1. Front(q) \in BootTree  BY <2>7, <2>10, FilesAssumption
    <3> QED  BY <3>1, <2>9 DEF Front
  <2>12. SubSeq(q, 1, m - 1) = SubSeq(p, 1, m - 1)
    <3>1. m - 1 \in 0..Len(q) /\ m - 1 \in 0..Len(p)  BY <2>8, <2>9, <1>0
    <3>2. SubSeq(q, 1, m - 1) = [i \in 1..(m - 1) |-> q[i]]
      BY <3>1, <2>9, SubSeqRestrict DEF Restrict
    <3>3. SubSeq(p, 1, m - 1) = [i \in 1..(m - 1) |-> p[i]]
      BY <3>1, <1>0, SubSeqRestrict DEF Restrict
    <3>4. \A i \in 1..(m - 1) : i \in 1..m  BY <2>8, <1>0
    <3> QED  BY <3>2, <3>3, <3>4, <2>9
  <2> QED  BY <2>3, <2>8, <2>11, <2>12
<1>2. Len(p) - n \in Nat /\ Len(p) - n <= Len(p) /\ Len(p) - (Len(p) - n) = n  BY <1>0
<1> QED  BY <1>1, <1>2

\* The operators on physical nodes, by the file system.
LEMMA Children ==
    ASSUME NEW pn \in Seq(Name), pn # <<>>, NEW name
    PROVE  /\ Head(pn) = "tmpfs" => 
                  Child(pn, name) = IF Append(pn, name) \in TmpAll THEN Append(pn, name) ELSE None
           /\ Head(pn) = "devfs" => Child(pn, name) = DevChild(pn, name)
           /\ Head(pn) = "bootfs" => Child(pn, name) = BootChild(pn, name)
           /\ Head(pn) \notin {"tmpfs", "devfs", "bootfs"} => Child(pn, name) = None
BY DEF Child

LEMMA Roots ==
    /\ <<"tmpfs">> \in Seq(Name) /\ Head(<<"tmpfs">>) = "tmpfs" /\ <<"tmpfs">> # <<>>
    /\ <<"devfs">> \in Seq(Name) /\ Head(<<"devfs">>) = "devfs" /\ <<"devfs">> # <<>>
    /\ <<"vfat">> \in Seq(Name) /\ Head(<<"vfat">>) = "vfat" /\ <<"vfat">> # <<>>
    /\ <<"bootfs">> \in Seq(Name) /\ Head(<<"bootfs">>) = "bootfs" /\ Tail(<<"bootfs">>) = <<>> /\ <<"bootfs">> # <<>>
BY Literals, OneName

LEMMA BootFsGood == \A f \in BootRoots : Good(f)
BY Roots, FilesAssumption DEF BootRoots, Good

\* A name leads from a node to a node, never to the root.
LEMMA StepGood ==
    ASSUME NEW f \in BootRoots, NEW pn, Good(pn), NEW name \in Name, Step(f, pn, name) # None
    PROVE  Good(Step(f, pn, name)) /\ Step(f, pn, name) # <<"tmpfs">>
<1>1. pn \in Seq(Name) /\ pn # <<>>  BY DEF Good
<1>2. CASE pn = <<"tmpfs">>
  <2>1. Step(f, pn, name) \in {<<"devfs">>, f}  BY <1>2 DEF Step
  <2>2. Good(<<"devfs">>)  BY Roots DEF Good
  <2>3. <<"devfs">> # <<"tmpfs">> /\ f # <<"tmpfs">>  BY Roots DEF BootRoots
  <2> QED  BY <2>1, <2>2, <2>3, BootFsGood
<1>3. CASE pn # <<"tmpfs">> /\ Head(pn) = "devfs"
  <2>1. Step(f, pn, name) = DevChild(pn, name)  BY <1>1, <1>3, Children DEF Step
  <2>2. name \in DOMAIN DeviceOf /\ Step(f, pn, name) = <<"devfs", DeviceOf[name]>>
    BY <2>1 DEF DevChild
  <2>3. DeviceOf[name] \in Name  BY <2>2, FilesAssumption, Literals
  <2>4. PICK d \in Name : d = DeviceOf[name]  BY <2>3
  <2>5. Good(<<"devfs", d>>) /\ <<"devfs", d>> # <<"tmpfs">>  BY Literals, TwoNames DEF Good
  <2> QED  BY <2>2, <2>4, <2>5
<1>4. CASE Head(pn) = "bootfs"
  <2>1. pn # <<"tmpfs">>  BY <1>4, Roots
  <2>2. Step(f, pn, name) = BootChild(pn, name)  BY <1>1, <1>4, <2>1, Children DEF Step
  <2>3. Append(Tail(pn), name) \in BootTree /\ Step(f, pn, name) = Append(pn, name)
    BY <2>2 DEF BootChild
  <2>4. /\ Append(pn, name) \in Seq(Name) /\ Append(pn, name) # <<>>
        /\ Head(Append(pn, name)) = "bootfs" /\ Tail(Append(pn, name)) = Append(Tail(pn), name)
    BY <1>1, <1>4, HeadTailAppend, AppendProperties
  <2>5. Good(Append(pn, name))  BY <2>3, <2>4 DEF Good
  <2>6. Append(pn, name) # <<"tmpfs">>  BY <2>4, Roots
  <2> QED  BY <2>3, <2>5, <2>6
<1>5. CASE pn # <<"tmpfs">> /\ Head(pn) \notin {"devfs", "bootfs"}
  <2>1. pn = <<"vfat">>  BY <1>5, Roots DEF Good
  <2>2. Step(f, pn, name) = None  BY <1>1, <1>5, <2>1, Children, Roots DEF Step
  <2> QED  BY <2>2
<1> QED  BY <1>2, <1>3, <1>4, <1>5

\* With nothing left to follow, a look-up has arrived.
LEMMA FollowNothing ==
    ASSUME NEW f \in BootRoots, NEW pn, Good(pn)
    PROVE  Follow(f, pn, <<>>) = pn
<1>1. pn \in Seq(Name) /\ pn # <<>>  BY DEF Good
<1>2. CASE pn = <<"tmpfs">>  BY <1>2 DEF Follow, Lead
<1>3. CASE pn # <<"tmpfs">> /\ Head(pn) = "bootfs"
  <2>1. Tail(pn) \in BootTree  BY <1>3, Roots DEF Good
  <2>2. Tail(pn) \in Seq(Name)  BY <2>1, TreeNames
  <2>3. Tail(pn) \o <<>> = Tail(pn) /\ pn \o <<>> = pn  BY <1>1, <2>2, ConcatEmptySeq
  <2>4. pn # <<"devfs">>  BY <1>3, Roots
  <2> QED  BY <1>3, <2>1, <2>3, <2>4 DEF Follow
<1>4. CASE pn # <<"tmpfs">> /\ Head(pn) # "bootfs"
  <2>1. Len(<<>>) = 0  OBVIOUS
  <2> QED  BY <1>4, <2>1 DEF Follow
<1> QED  BY <1>2, <1>3, <1>4

LEMMA JoiningNames == \A x, y, z \in Seq(Name) : (x \o y) \o z = x \o (y \o z)
BY ConcatAssociative

\* Following a name and then the rest is following both.
LEMMA FollowStep ==
    ASSUME NEW f \in BootRoots, NEW pn, Good(pn), NEW name \in Name, NEW c \in Seq(Name)
    PROVE  Follow(f, pn, <<name>> \o c) =
               IF Step(f, pn, name) = None THEN None ELSE Follow(f, Step(f, pn, name), c)
<1> DEFINE s == <<name>> \o c
<1>0. pn \in Seq(Name) /\ pn # <<>>  BY DEF Good
<1>1. /\ s \in Seq(Name) /\ s # <<>> /\ Len(s) = Len(c) + 1 /\ s[1] = name /\ Tail(s) = c
      /\ Len(c) \in Nat /\ (Len(c) > 0 => s[2] = c[1])
  BY OneName
<1>2. c = <<>> <=> Len(c) = 0  OBVIOUS
<1>3. f \in {<<"bootfs">>, <<"vfat">>} /\ f \notin {<<"tmpfs">>, <<"devfs">>} /\ f # None
  BY Roots DEF BootRoots, None
<1> HIDE DEF s
<1>4. CASE pn = <<"tmpfs">>
  <2>0. Follow(f, pn, s) = Lead(f, s)  BY <1>4 DEF Follow
  <2>1. CASE name = "dev"
    <3>1. Step(f, pn, name) = <<"devfs">> /\ <<"devfs">> # None  BY <1>4, <2>1, Roots DEF Step, None
    <3>2. s = <<"dev">> <=> c = <<>>
      <4>1. c = <<>> => s = <<"dev">>  BY <2>1, OneName, ConcatEmptySeq DEF s
      <4>2. s = <<"dev">> => Len(s) = 1  OBVIOUS
      <4> QED  BY <4>1, <4>2, <1>1, <1>2
    <3>3. Follow(f, <<"devfs">>, c) = IF Len(c) = 1 /\ c[1] \in DOMAIN DeviceOf THEN <<"devfs", DeviceOf[c[1]]>>
                                   ELSE IF c = <<>> THEN <<"devfs">> ELSE None
      BY Roots DEF Follow
    <3>4. Lead(f, s) = IF c = <<>> THEN <<"devfs">>
                    ELSE IF Len(s) = 2 /\ s[2] \in DOMAIN DeviceOf THEN <<"devfs", DeviceOf[s[2]]>> ELSE None
      BY <1>1, <2>1, <3>2 DEF Lead
    <3>5. Len(s) = 2 <=> Len(c) = 1  BY <1>1
    <3> QED  BY <1>1, <1>2, <2>0, <3>1, <3>3, <3>4, <3>5 DEF s
  <2>2. CASE name = "usr"
    <3>1. Step(f, pn, name) = f  BY <1>4, <2>2 DEF Step
    <3>2. s # <<"dev">>  BY <1>1, <2>2
    <3>3. Lead(f, s) = IF c = <<>> \/ (f = <<"bootfs">> /\ c \in BootTree) THEN f \o c ELSE None
      <4>1. Len(s) = 1 <=> c = <<>>  BY <1>1, <1>2
      <4> QED  BY <1>1, <2>2, <3>2, <4>1 DEF Lead
    <3>4. f = <<"vfat">> => Follow(f, f, c) = IF c = <<>> THEN f ELSE None
      BY Roots DEF Follow
    <3>5. f = <<"bootfs">> => Follow(f, f, c) = IF c \in BootTree THEN f \o c ELSE None
      <4>1. Tail(<<"bootfs">>) \o c = c  BY Roots, ConcatEmptySeq
      <4> QED  BY <4>1, Roots DEF Follow
    <3>6. f \o <<>> = f  BY Roots, <1>3, ConcatEmptySeq
    <3>7. <<>> \in BootTree /\ <<"vfat">> # <<"bootfs">>  BY FilesAssumption, Roots
    <3> QED  BY <1>3, <2>0, <3>1, <3>3, <3>4, <3>5, <3>6, <3>7 DEF s
  <2>3. CASE name \notin {"dev", "usr"}
    <3>1. Step(f, pn, name) = None  BY <1>4, <2>3 DEF Step
    <3>2. s # <<"dev">>  BY <1>1, <2>3
    <3>3. Lead(f, s) = None  BY <1>1, <2>3, <3>2 DEF Lead
    <3> QED  BY <2>0, <3>1, <3>3 DEF s
  <2> QED  BY <2>1, <2>2, <2>3 DEF s
<1>5. CASE pn = <<"devfs">>
  <2>1. pn # <<"tmpfs">> /\ Head(pn) # "bootfs"  BY <1>5, Roots
  <2>2. Follow(f, pn, s) = IF Len(s) = 1 /\ s[1] \in DOMAIN DeviceOf THEN <<"devfs", DeviceOf[s[1]]>> ELSE None
    BY <1>1, <1>5, <2>1 DEF Follow
  <2>3. Step(f, pn, name) = DevChild(pn, name)  BY <1>0, <1>5, <2>1, Children, Roots DEF Step
  <2>4. CASE name \notin DOMAIN DeviceOf
    <3>1. Step(f, pn, name) = None  BY <2>3, <2>4 DEF DevChild
    <3> QED  BY <1>1, <2>2, <2>4, <3>1 DEF s
  <2>5. CASE name \in DOMAIN DeviceOf
    <3>1. PICK d \in Name : d = DeviceOf[name]  BY <2>5, FilesAssumption, Literals
    <3>2. Step(f, pn, name) = <<"devfs", d>>  BY <1>5, <2>3, <2>5, <3>1 DEF DevChild
    <3>3. /\ <<"devfs", d>> # None /\ <<"devfs", d>> # <<"tmpfs">> /\ <<"devfs", d>> # <<"devfs">>
          /\ Head(<<"devfs", d>>) # "bootfs"
      BY Literals, TwoNames DEF None
    <3>4. Follow(f, <<"devfs", d>>, c) = IF c = <<>> THEN <<"devfs", d>> ELSE None  BY <3>3 DEF Follow
    <3>5. Len(s) = 1 <=> c = <<>>  BY <1>1, <1>2
    <3> QED  BY <1>1, <2>2, <2>5, <3>1, <3>2, <3>3, <3>4, <3>5 DEF s
  <2> QED  BY <2>4, <2>5
<1>6. CASE Head(pn) = "devfs" /\ pn # <<"devfs">>
  <2>1. pn # <<"tmpfs">>  BY <1>6, Roots
  <2>2. Follow(f, pn, s) = None  BY <1>1, <1>6, <2>1 DEF Follow
  <2>3. Step(f, pn, name) = None  BY <1>0, <1>6, <2>1, Children DEF Step, DevChild
  <2> QED  BY <2>2, <2>3 DEF s
<1>7. CASE Head(pn) = "bootfs"
  <2>1. pn # <<"tmpfs">> /\ pn # <<"devfs">>  BY <1>7, Roots
  <2>2. Tail(pn) \in BootTree  BY <1>7, Roots DEF Good
  <2>3. Tail(pn) \in Seq(Name)  BY <2>2, TreeNames
  <2>4. PICK a : a = Append(Tail(pn), name)  OBVIOUS
  <2>5. PICK b : b = Append(pn, name)  OBVIOUS
  <2>6. a \in Seq(Name) /\ b \in Seq(Name) /\ b # <<>> /\ Head(b) = "bootfs" /\ Tail(b) = a
    BY <1>0, <1>7, <2>3, <2>4, <2>5, HeadTailAppend, AppendProperties
  <2>7. a \o c = Tail(pn) \o s /\ b \o c = pn \o s
    <3>1. a = Tail(pn) \o <<name>> /\ b = pn \o <<name>>  BY <1>0, <2>3, <2>4, <2>5, AppendIsConcat
    <3>2. <<name>> \in Seq(Name)  BY OneName
    <3>3. PICK u : u = <<name>>  OBVIOUS
    <3>4. u \in Seq(Name) /\ a = Tail(pn) \o u /\ b = pn \o u /\ s = u \o c  BY <3>1, <3>2, <3>3 DEF s
    <3>5. PICK t : t = Tail(pn) /\ t \in Seq(Name)  BY <2>3
    <3>6. c \in Seq(Name) /\ pn \in Seq(Name)  BY <1>0
    <3>7. u \in Seq(Name)  BY <3>4
    <3>8. (t \o u) \o c = t \o (u \o c)  BY <3>5, <3>6, <3>7, JoiningNames
    <3>9. (pn \o u) \o c = pn \o (u \o c)  BY <3>6, <3>7, JoiningNames
    <3> QED  BY <3>4, <3>5, <3>8, <3>9
  <2>8. Follow(f, pn, s) = IF a \o c \in BootTree THEN b \o c ELSE None  BY <1>7, <2>1, <2>7 DEF Follow
  <2>9. Step(f, pn, name) = IF a \in BootTree THEN b ELSE None
    BY <1>0, <1>7, <2>1, <2>4, <2>5, Children DEF Step, BootChild
  <2>10. b # None /\ b # <<"tmpfs">> /\ b # <<"devfs">>  BY <2>6, Roots DEF None
  <2>11. Follow(f, b, c) = IF a \o c \in BootTree THEN b \o c ELSE None  BY <2>6, <2>10 DEF Follow
  <2>12. a \o c \in BootTree => a \in BootTree
    <3> SUFFICES ASSUME a \o c \in BootTree PROVE a \in BootTree  OBVIOUS
    <3>1. PICK w : w = a \o c  OBVIOUS
    <3>2. /\ w \in BootTree /\ w \in Seq(Name) /\ Len(w) = Len(a) + Len(c)
          /\ \A i \in 1..(Len(a) + Len(c)) : w[i] = IF i <= Len(a) THEN a[i] ELSE c[i - Len(a)]
      BY <2>6, <3>1, ConcatProperties
    <3>3. Len(a) \in Nat /\ Len(c) \in Nat  BY <2>6
    <3>4. Len(a) \in 0..Len(w)  BY <3>2, <3>3
    <3>5. SubSeq(w, 1, Len(a)) \in BootTree  BY <3>2, <3>4, PrefixInTree
    <3>6. SubSeq(w, 1, Len(a)) = [i \in 1..Len(a) |-> w[i]]
      BY <3>2, <3>4, SubSeqRestrict DEF Restrict
    <3>7. \A i \in 1..Len(a) : w[i] = a[i]  BY <3>2, <3>3
    <3>8. a = [i \in 1..Len(a) |-> a[i]]  BY <2>6
    <3> QED  BY <3>5, <3>6, <3>7, <3>8
  <2> QED  BY <2>8, <2>9, <2>10, <2>11, <2>12 DEF s
<1>8. CASE pn = <<"vfat">>
  <2>1. pn # <<"tmpfs">> /\ pn # <<"devfs">> /\ Head(pn) = "vfat"  BY <1>8, Roots
  <2>2. Follow(f, pn, s) = None  BY <1>1, <2>1 DEF Follow
  <2>3. Step(f, pn, name) = None  BY <1>0, <2>1, Children DEF Step
  <2> QED  BY <2>2, <2>3 DEF s
<1> QED  BY <1>4, <1>5, <1>6, <1>7, <1>8 DEF Good

LEMMA TargetIs ==
    ASSUME NEW path \in PathType
    PROVE  Target(path) = Goal(BootFs, path)
<1>0. path.abs \in BOOLEAN /\ path.comps \in Seq(Name)  BY DEF PathType
<1> DEFINE c == Cut(path.comps)
<1>1. c \in Seq(Name)
  <2>1. PICK n \in 0..Len(path.comps) : c = SubSeq(path.comps, 1, n)  BY <1>0, CutIs
  <2> QED  BY <1>0, <2>1
<1>2. Target(path) =
          CASE ~path.abs -> None
            [] path.abs /\ c = <<>> -> <<"tmpfs">>
            [] path.abs /\ c = <<"dev">> -> <<"devfs">>
            [] path.abs /\ Len(c) = 2 /\ c[1] = "dev" /\ c[2] \in DOMAIN DeviceOf -> <<"devfs", DeviceOf[c[2]]>>
            [] path.abs /\ Len(c) > 0 /\ c[1] = "usr" /\ (Len(c) = 1 \/
                  (BootFs = <<"bootfs">> /\ Tail(c) \in BootTree)) -> BootFs \o Tail(c)
            [] OTHER -> None
  BY DEF Target, Cut
<1> HIDE DEF c, Goal
<1>3. Follow(BootFs, <<"tmpfs">>, c) = Lead(BootFs, c)  BY DEF Follow
<1>4. CASE ~path.abs  BY <1>2, <1>4 DEF c, Goal
<1>5. CASE path.abs
  <2>1. c # <<>> => Len(c) > 0  BY <1>1
  <2>2. c = <<"dev">> => Len(c) = 1 /\ c[1] = "dev"  OBVIOUS
  <2> QED  BY <1>2, <1>3, <1>5, <2>1, <2>2 DEF c, Lead, Goal
<1> QED  BY <1>4, <1>5

LEMMA ChildIs ==
    ASSUME tmpdirs = TmpAll, NEW pn, NEW name
    PROVE  get_child(pn, name) = Child(pn, name)
BY DEF get_child, Child, TmpChild

----------------------------------------------------------------------------
(* Lemmas on the nodes. *)

LEMMA NodeTyped ==
    ASSUME NEW pn \in Seq(Name)
    PROVE  Node(pn) \in NodeType /\ Node(pn).pn = pn /\ DOMAIN Node(pn).child = {}
<1>1. <<>> \in [{} -> Nat]  OBVIOUS
<1>2. {} \in SUBSET Name  OBVIOUS
<1>3. <<>> \in Cache  BY <1>1, <1>2 DEF Cache
<1> QED  BY <1>3 DEF Node, NodeType

\* WithChild, point by point.
Extends(m, ns, i, name, pn) ==
    /\ m \in Seq(NodeType) /\ Len(m) = Len(ns) + 1
    /\ \A j \in 1..Len(ns) : m[j].pn = ns[j].pn /\ (j # i => m[j] = ns[j])
    /\ DOMAIN m[i].child = DOMAIN ns[i].child \cup {name}
    /\ m[i].child[name] = Len(ns) + 1
    /\ \A n \in DOMAIN ns[i].child : n # name => m[i].child[n] = ns[i].child[n]
    /\ m[Len(ns) + 1] = Node(pn)

LEMMA WithChildExtends ==
    ASSUME NEW ns \in Seq(NodeType), NEW i \in 1..Len(ns), NEW name \in Name, NEW pn \in Seq(Name)
    PROVE  Extends(WithChild(ns, i, name, pn), ns, i, name, pn)
<1>1. PICK new : new = Len(ns) + 1 /\ new \in Nat  OBVIOUS
<1>2. ns[i] \in NodeType  OBVIOUS
<1>3. PICK D \in SUBSET Name : ns[i].child \in [D -> Nat]  BY <1>2 DEF NodeType, Cache
<1>4. PICK ch : ch = [n \in (DOMAIN ns[i].child) \cup {name} |-> IF n = name THEN new ELSE ns[i].child[n]]
  OBVIOUS
<1>5. /\ DOMAIN ch = D \cup {name} /\ ch[name] = new /\ \A n \in D : n # name => ch[n] = ns[i].child[n]
      /\ ch \in [D \cup {name} -> Nat]
  BY <1>1, <1>3, <1>4
<1>6. ch \in Cache
  <2>1. D \cup {name} \in SUBSET Name  OBVIOUS
  <2> QED  BY <1>5, <2>1 DEF Cache
<1>7. PICK r : r = [pn |-> ns[i].pn, child |-> ch]  OBVIOUS
<1>8. r \in NodeType /\ r.pn = ns[i].pn /\ r.child = ch  BY <1>2, <1>6, <1>7 DEF NodeType
<1>9. [ns EXCEPT ![i].child = ch] = [ns EXCEPT ![i] = r]
  <2>1. PICK x \in [pn : Seq(Name), child : Cache] : x = ns[i]  BY <1>2 DEF NodeType
  <2>2. [x EXCEPT !.child = ch] = r
    <3>1. [x EXCEPT !.child = ch] = [pn |-> x.pn, child |-> ch]  OBVIOUS
    <3> QED  BY <1>7, <2>1, <3>1
  <2>3. [ns EXCEPT ![i].child = ch] = [ns EXCEPT ![i] = [x EXCEPT !.child = ch]]  BY <2>1
  <2> QED  BY <2>2, <2>3
<1>10. PICK ms : ms = [ns EXCEPT ![i] = r]  OBVIOUS
<1>11. ms \in Seq(NodeType) /\ Len(ms) = Len(ns) /\ \A j \in 1..Len(ns) : ms[j] = IF j = i THEN r ELSE ns[j]
  BY <1>8, <1>10, ExceptSeq
<1>12. PICK d : d = Node(pn) /\ d \in NodeType  BY NodeTyped
<1>13. PICK m : m = Append(ms, d)  OBVIOUS
<1>14. /\ m \in Seq(NodeType) /\ Len(m) = Len(ns) + 1 /\ \A j \in 1..Len(ns) : m[j] = ms[j]
       /\ m[Len(ns) + 1] = d
  BY <1>11, <1>12, <1>13, AppendProperties
<1>15. WithChild(ns, i, name, pn) = m
  <2>1. WithChild(ns, i, name, pn) = Append([ns EXCEPT ![i].child = ch], Node(pn))
    BY <1>1, <1>4 DEF WithChild, append
  <2> QED  BY <1>9, <1>10, <1>12, <1>13, <2>1
<1>16. DOMAIN ns[i].child = D  BY <1>3
<1>17. m[i] = r  BY <1>11, <1>14
<1>18. \A j \in 1..Len(ns) : m[j].pn = ns[j].pn /\ (j # i => m[j] = ns[j])  BY <1>8, <1>11, <1>14
<1>19. Extends(m, ns, i, name, pn)
  BY <1>1, <1>5, <1>8, <1>12, <1>14, <1>16, <1>17, <1>18 DEF Extends
<1> QED  BY <1>15, <1>19

\* Adding the child that a name leads to keeps the nodes sound.
LEMMA TreeGrows ==
    ASSUME NEW f \in BootRoots, NEW ns \in Seq(NodeType), TreeSound(ns, f), NEW i \in 1..Len(ns),
           NEW name \in Name, NEW pn, pn = Step(f, ns[i].pn, name), pn # None,
           NEW m, Extends(m, ns, i, name, pn)
    PROVE  TreeSound(m, f)
<1>1. Len(ns) \in Nat /\ DOMAIN ns = 1..Len(ns)  OBVIOUS
<1>2. m \in Seq(NodeType) /\ Len(m) = Len(ns) + 1  BY DEF Extends
<1>3. DOMAIN m = 1..(Len(ns) + 1)  BY <1>2
<1>4. \A j \in 1..Len(ns) : NodeSound(ns, f, j)  BY <1>1 DEF TreeSound
<1>5. Good(ns[i].pn)  BY <1>4 DEF NodeSound
<1>6. Good(pn) /\ pn # <<"tmpfs">>  BY <1>5, StepGood
<1>7. \A j \in 1..Len(ns) : m[j].pn = ns[j].pn /\ j \in DOMAIN m  BY <1>1, <1>3 DEF Extends
<1>8. ASSUME NEW j \in 1..Len(ns), j # i PROVE NodeSound(m, f, j)
  <2>1. m[j] = ns[j]  BY <1>8 DEF Extends
  <2>2. NodeSound(ns, f, j)  BY <1>4
  <2> QED  BY <1>1, <1>7, <2>1, <2>2 DEF NodeSound, CacheSound
<1>9. NodeSound(m, f, i)
  <2>1. NodeSound(ns, f, i)  BY <1>4
  <2>2. m[i].pn = ns[i].pn  BY <1>7
  <2>3. DOMAIN m[i].child = DOMAIN ns[i].child \cup {name}  BY DEF Extends
  <2>4. ASSUME NEW n \in DOMAIN m[i].child
        PROVE  /\ m[i].child[n] \in DOMAIN m
               /\ m[m[i].child[n]].pn = Step(f, m[i].pn, n) /\ Step(f, m[i].pn, n) # None
    <3>1. CASE n = name
      <4>1. m[i].child[n] = Len(ns) + 1 /\ m[Len(ns) + 1] = Node(pn)  BY <3>1 DEF Extends
      <4>2. m[Len(ns) + 1].pn = pn  BY <4>1 DEF Node
      <4>3. Len(ns) + 1 \in DOMAIN m  BY <1>1, <1>3
      <4> QED  BY <2>2, <3>1, <4>1, <4>2, <4>3
    <3>2. CASE n # name
      <4>1. n \in DOMAIN ns[i].child  BY <2>3, <3>2
      <4>2. m[i].child[n] = ns[i].child[n]  BY <3>2, <4>1 DEF Extends
      <4>3. /\ ns[i].child[n] \in DOMAIN ns
            /\ ns[ns[i].child[n]].pn = Step(f, ns[i].pn, n) /\ Step(f, ns[i].pn, n) # None
        BY <2>1, <4>1 DEF NodeSound, CacheSound
      <4> QED  BY <1>1, <1>7, <2>2, <4>2, <4>3
    <3> QED  BY <3>1, <3>2
  <2>5. CacheSound(m, f, i)  BY <2>4 DEF CacheSound
  <2> QED  BY <2>1, <2>2, <2>3, <2>5 DEF NodeSound
<1>10. NodeSound(m, f, Len(ns) + 1)
  <2>1. PICK k : k = Len(ns) + 1  OBVIOUS
  <2>2. m[k] = Node(pn)  BY <2>1 DEF Extends
  <2>3. m[k].pn = pn /\ DOMAIN m[k].child = {}  BY <2>2 DEF Node
  <2>4. NodeSound(m, f, k)  BY <1>6, <2>3 DEF NodeSound, CacheSound
  <2> QED  BY <2>1, <2>4
<1>11. \A j \in DOMAIN m : NodeSound(m, f, j)
  <2>1. \A j \in DOMAIN m : j \in 1..Len(ns) \/ j = Len(ns) + 1  BY <1>1, <1>3
  <2> QED  BY <1>8, <1>9, <1>10, <2>1
<1>12. Len(m) >= 1 /\ m[1].pn = <<"tmpfs">>
  <2>1. Len(ns) >= 1 /\ ns[1].pn = <<"tmpfs">>  BY DEF TreeSound
  <2>2. 1 \in 1..Len(ns)  BY <1>1, <2>1
  <2> QED  BY <1>1, <1>2, <1>7, <2>1, <2>2
<1> QED  BY <1>11, <1>12 DEF TreeSound

\* Nodes are added at the end, and the nodes there keep their physical nodes.
Grown(ns, m) == \A j \in DOMAIN ns : j \in DOMAIN m /\ m[j].pn = ns[j].pn

LEMMA LookupGrows ==
    ASSUME NEW f, NEW ns, NEW m, Grown(ns, m), NEW c, LookupSound(ns, f, c)
    PROVE  LookupSound(m, f, c)
<1>1. CASE c.pc \in {"lookup", "add"}
  <2>1. c.at \in DOMAIN ns /\ OnTheWay(ns, f, c)  BY <1>1 DEF LookupSound, OnTheWay
  <2>2. c.at \in DOMAIN m /\ m[c.at].pn = ns[c.at].pn  BY <2>1 DEF Grown
  <2> QED  BY <1>1, <2>1, <2>2 DEF LookupSound, OnTheWay
<1>2. CASE c.pc = "found"
  BY <1>2 DEF LookupSound, Grown
<1>3. CASE c.pc \notin {"lookup", "add", "found"}
  BY <1>3 DEF LookupSound
<1> QED  BY <1>1, <1>2, <1>3

----------------------------------------------------------------------------
(* Lemmas on what is opened. *)

\* SetToSeq of a finite set is a sequence of its members.
LEMMA SetToSeqMembers ==
    ASSUME NEW S, IsFiniteSet(S)
    PROVE  SetToSeq(S) \in Seq(S)
<1>1. Cardinality(S) \in Nat /\ ExistsBijection(1..Cardinality(S), S)  BY FS_CardinalityType
<1>2. PICK g \in [1..Cardinality(S) -> S] : IsInjective(g)
  <2>1. PICK b : b \in Bijection(1..Cardinality(S), S)  BY <1>1 DEF ExistsBijection
  <2> QED  BY <2>1 DEF Bijection, Injection, IsInjective
<1>3. SetToSeq(S) \in [1..Cardinality(S) -> S]  BY <1>2 DEF SetToSeq
<1> QED  BY <1>1, <1>3, SeqDef

\* A sequence that is not empty is its front with its last element.
LEMMA FrontLast ==
    ASSUME NEW s \in Seq(Name), s # <<>>
    PROVE  /\ Last(s) \in Name /\ Front(s) \in Seq(Name) /\ s = Append(Front(s), Last(s))
<1>1. PICK t \in Seq(Name), e \in Name : s = Append(t, e)  BY SequenceEmptyOrAppend
<1>2. Len(s) = Len(t) + 1 /\ s[Len(t) + 1] = e /\ (\A i \in 1..Len(t) : s[i] = t[i]) /\ Len(t) \in Nat
  BY <1>1, AppendProperties
<1>3. Last(s) = e  BY <1>2 DEF Last
<1>4. Front(s) = t
  <2>1. Len(s) - 1 = Len(t) /\ Len(t) \in 0..Len(s)  BY <1>2
  <2>2. SubSeq(s, 1, Len(t)) = [i \in 1..Len(t) |-> s[i]]  BY <2>1, SubSeqRestrict DEF Restrict
  <2>3. t = [i \in 1..Len(t) |-> t[i]]  OBVIOUS
  <2> QED  BY <1>2, <2>1, <2>2, <2>3 DEF Front
<1> QED  BY <1>1, <1>3, <1>4

\* The names under which a directory of a finite tree has children.
LEMMA NamesOf ==
    ASSUME NEW T, IsFiniteSet(T), T \subseteq Seq(Name), NEW d, NEW C,
           C = {c \in T : c # <<>> /\ Front(c) = d}, NEW s, s = SetToSeq({Last(c) : c \in C})
    PROVE  s \in Seq(Name) /\ \A k \in DOMAIN s : Append(d, s[k]) \in T
<1> DEFINE N == {Last(c) : c \in C}
<1>1. IsFiniteSet(C)
  <2>1. C \in SUBSET T  OBVIOUS
  <2> QED  BY <2>1, FS_Subset
<1>2. IsFiniteSet(N)
  <2>1. PICK g : g = [c \in C |-> Last(c)]  OBVIOUS
  <2>2. g \in Surjection(C, N)  BY <2>1 DEF Surjection
  <2> QED  BY <1>1, <2>2, FS_Surjection
<1>3. SetToSeq(N) \in Seq(N)  BY <1>2, SetToSeqMembers
<1>4. N \subseteq Name
  <2> SUFFICES ASSUME NEW c \in C PROVE Last(c) \in Name  OBVIOUS
  <2>1. c \in Seq(Name) /\ c # <<>>  OBVIOUS
  <2> QED  BY <2>1, FrontLast
<1>5. \A n \in N : Append(d, n) \in T
  <2> SUFFICES ASSUME NEW c \in C PROVE Append(d, Last(c)) \in T  OBVIOUS
  <2>1. c \in T /\ c \in Seq(Name) /\ c # <<>> /\ Front(c) = d  OBVIOUS
  <2>2. c = Append(Front(c), Last(c))  BY <2>1, FrontLast
  <2> QED  BY <2>1, <2>2
<1> HIDE DEF N
<1>6. s \in Seq(N)  BY <1>3 DEF N
<1>7. s \in Seq(Name)  BY <1>4, <1>6, SeqMonotonic
<1>8. \A k \in DOMAIN s : s[k] \in N  BY <1>6
<1> QED  BY <1>5, <1>7, <1>8

LEMMA NoObjectSound ==
    NoObject \in ObjType /\ OpenSound(NoObject)
<1>1. NoObject = [kind |-> "none", of |-> None, entries |-> <<>>, pos |-> 0]  BY DEF NoObject, NoCall
<1> QED  BY <1>1 DEF ObjType, OpenSound, EntriesLead, Dirs, None

\* A file, device or program that is opened has no entries.
LEMMA FileSound ==
    ASSUME NEW pn \in Seq(Name), NEW kind \in {"device", "file", "process"}
    PROVE  File(pn, kind) \in ObjType /\ OpenSound(File(pn, kind))
<1>1. PICK o : o = NoObject  OBVIOUS
<1>2. o \in ObjType /\ o.entries = <<>> /\ o.pos = 0  BY <1>1, NoObjectSound DEF NoObject, NoCall
<1>3. PICK m : m = [o EXCEPT !.kind = kind, !.of = pn]  OBVIOUS
<1>4. m \in ObjType /\ m.kind = kind /\ m.entries = <<>> /\ m.pos = 0  BY <1>2, <1>3 DEF ObjType
<1>5. File(pn, kind) = m  BY <1>1, <1>3 DEF File
<1> QED  BY <1>4, <1>5 DEF OpenSound, EntriesLead, Dirs

LEMMA DirectorySound ==
    ASSUME NEW pn \in Seq(Name), NEW kind \in Dirs, NEW entries \in Seq(Name), EntriesLead(pn, entries)
    PROVE  Directory(pn, kind, entries) \in ObjType /\ OpenSound(Directory(pn, kind, entries))
BY DEF Directory, ObjType, OpenSound, Dirs

\* PFSNode::open and launch_process.
LEMMA OpenedSound ==
    ASSUME NEW pn, Good(pn)
    PROVE  /\ open(pn) \in ObjType /\ OpenSound(open(pn))
           /\ Launch(pn) \in ObjType /\ OpenSound(Launch(pn))
<1>1. pn \in Seq(Name)  BY DEF Good
<1>2. open(pn) \in {NoObject, File(pn, "device"), File(pn, "file")}  BY DEF open, DevOpen, BootOpen
<1>3. Launch(pn) \in {NoObject, File(pn, "process")}  BY DEF Launch
<1>4. \A o \in {NoObject, File(pn, "device"), File(pn, "file"), File(pn, "process")} : o \in ObjType /\ OpenSound(o)
  BY <1>1, NoObjectSound, FileSound
<1> QED  BY <1>2, <1>3, <1>4

\* PFSNode::opendir: every entry leads from the directory to a node.
LEMMA OpendirSound ==
    ASSUME NEW pn, Good(pn), tmpdirs = TmpAll
    PROVE  opendir(pn) \in ObjType /\ OpenSound(opendir(pn))
<1>1. pn \in Seq(Name) /\ pn # <<>>  BY DEF Good
<1>2. CASE Head(pn) = "tmpfs"
  <2>1. PICK T : T = TmpAll  OBVIOUS
  <2>2. IsFiniteSet(T) /\ T \subseteq Seq(Name) /\ <<>> \notin T
    <3>1. PICK a, b, c : a = <<"tmpfs">> /\ b = <<"tmpfs", "dev">> /\ c = <<"tmpfs", "usr">>  OBVIOUS
    <3>2. T = {a, b, c}  BY <2>1, <3>1 DEF TmpAll, TmpDev, TmpRoot
    <3>3. IsFiniteSet({a, b, c})
      <4>1. IsFiniteSet({a})  BY FS_Singleton
      <4>2. IsFiniteSet({a} \cup {b})  BY <4>1, FS_AddElement
      <4>3. IsFiniteSet(({a} \cup {b}) \cup {c})  BY <4>2, FS_AddElement
      <4>4. {a, b, c} = ({a} \cup {b}) \cup {c}  OBVIOUS
      <4> QED  BY <4>3, <4>4
    <3>4. a \in Seq(Name) /\ b \in Seq(Name) /\ c \in Seq(Name) /\ a # <<>> /\ b # <<>> /\ c # <<>>
      BY <3>1, Literals, OneName, TwoNames
    <3> QED  BY <3>2, <3>3, <3>4
  <2>3. PICK C : C = {c \in T : c # <<>> /\ Front(c) = pn}  OBVIOUS
  <2>4. {c \in T : Len(c) > 1 /\ Front(c) = pn} = C
    <3>1. ASSUME NEW c \in T, Front(c) = pn PROVE Len(c) > 1 <=> c # <<>>
      <4>1. c \in Seq(Name) /\ c # <<>> /\ Len(c) \in Nat  BY <2>2
      <4>2. Len(c) = 1 => Front(c) = <<>>  BY <4>1, SubSeqEmpty DEF Front
      <4>3. Len(c) # 0  BY <4>1
      <4>4. Len(c) # 1  BY <4>2, <3>1, <1>1
      <4>5. PICK n \in Nat : n = Len(c)  BY <4>1
      <4>6. n > 1  BY <4>3, <4>4, <4>5
      <4> QED  BY <4>1, <4>5, <4>6
    <3> QED  BY <2>3, <3>1
  <2>5. PICK s : s = SetToSeq({Last(c) : c \in C})  OBVIOUS
  <2>6. s \in Seq(Name) /\ \A k \in DOMAIN s : Append(pn, s[k]) \in T  BY <2>2, <2>3, <2>5, NamesOf
  <2>7. opendir(pn) = Directory(pn, "simple", s)
    <3>1. opendir(pn) = TempFSDirectory(pn)
      BY <1>2, Roots DEF opendir
    <3> QED  BY <2>1, <2>4, <2>5, <3>1 DEF TempFSDirectory
  <2>8. EntriesLead(pn, s)
    <3>1. ASSUME NEW k \in DOMAIN s PROVE Child(pn, s[k]) # None
      <4>1. Append(pn, s[k]) \in TmpAll /\ Append(pn, s[k]) # <<>>  BY <2>1, <2>2, <2>6
      <4> QED  BY <1>2, <4>1 DEF Child, None
    <3> QED  BY <3>1 DEF EntriesLead
  <2> QED  BY <1>1, <2>6, <2>7, <2>8, DirectorySound DEF Dirs
<1>3. CASE pn = <<"devfs">>
  <2>1. PICK D : D = DOMAIN DeviceOf  OBVIOUS
  <2>2. IsFiniteSet(D) /\ D \subseteq Name /\ DeviceOf \in [D -> D]  BY <2>1, FilesAssumption, Literals
  <2>3. PICK names : names = SetToSeq(D)  OBVIOUS
  <2>4. names \in Seq(D)  BY <2>2, <2>3, SetToSeqMembers
  <2>5. PICK s : s = [k \in DOMAIN names |-> DeviceOf[names[k]]]  OBVIOUS
  <2>6. DOMAIN names = 1..Len(names) /\ Len(names) \in Nat /\ \A k \in 1..Len(names) : names[k] \in D
    BY <2>4
  <2>7. s \in [1..Len(names) -> D]  BY <2>2, <2>5, <2>6
  <2>8. s \in Seq(D)  BY <2>6, <2>7, SeqDef
  <2>9. s \in Seq(Name)  BY <2>2, <2>8, SeqMonotonic
  <2>10. opendir(pn) = Directory(pn, "simple", s)
    <3>1. opendir(pn) = DeviceFSDirectory(pn)  BY <1>3, Roots DEF opendir
    <3> QED  BY <2>1, <2>3, <2>5, <3>1 DEF DeviceFSDirectory
  <2>11. EntriesLead(pn, s)
    <3>1. ASSUME NEW k \in DOMAIN s PROVE Child(pn, s[k]) # None
      <4>1. s[k] \in DOMAIN DeviceOf  BY <2>1, <2>7
      <4>2. Child(pn, s[k]) = <<"devfs", DeviceOf[s[k]]>>  BY <1>3, <4>1, Roots DEF Child, DevChild
      <4> QED  BY <4>2 DEF None
    <3> QED  BY <3>1 DEF EntriesLead
  <2> QED  BY <1>1, <2>9, <2>10, <2>11, DirectorySound DEF Dirs
<1>4. CASE Head(pn) = "bootfs" /\ Tail(pn) \notin BootFile
  <2>1. pn # <<"devfs">>  BY <1>4, Roots
  <2>2. PICK C : C = {c \in BootTree : c # <<>> /\ Front(c) = Tail(pn)}  OBVIOUS
  <2>3. PICK s : s = SetToSeq({Last(c) : c \in C})  OBVIOUS
  <2>4. s \in Seq(Name) /\ \A k \in DOMAIN s : Append(Tail(pn), s[k]) \in BootTree
    <3>1. IsFiniteSet(BootTree)  BY FilesAssumption
    <3>2. PICK d : d = Tail(pn)  OBVIOUS
    <3>3. C = {c \in BootTree : c # <<>> /\ Front(c) = d}  BY <2>2, <3>2
    <3>4. s \in Seq(Name) /\ \A k \in DOMAIN s : Append(d, s[k]) \in BootTree
      BY <2>3, <3>1, <3>3, NamesOf, TreeNames
    <3> QED  BY <3>2, <3>4
  <2>5. opendir(pn) = Directory(pn, "tar", s)
    <3>1. opendir(pn) = TarFSDirectory(pn)  BY <1>4, <2>1 DEF opendir
    <3> QED  BY <2>2, <2>3, <3>1 DEF TarFSDirectory
  <2>6. EntriesLead(pn, s)
    <3>1. ASSUME NEW k \in DOMAIN s PROVE Child(pn, s[k]) # None
      <4>1. Child(pn, s[k]) = Append(pn, s[k])  BY <1>4, <2>4 DEF Child, BootChild
      <4>2. s[k] \in Name  BY <2>4
      <4>3. Append(pn, s[k]) # <<>>  BY <1>1, <4>2, AppendProperties
      <4> QED  BY <4>1, <4>3 DEF None
    <3> QED  BY <3>1 DEF EntriesLead
  <2> QED  BY <1>1, <2>4, <2>5, <2>6, DirectorySound DEF Dirs
<1>5. CASE ~(Head(pn) = "tmpfs" \/ pn = <<"devfs">> \/ (Head(pn) = "bootfs" /\ Tail(pn) \notin BootFile))
  <2>1. opendir(pn) = NoObject  BY <1>5 DEF opendir
  <2> QED  BY <2>1, NoObjectSound
<1> QED  BY <1>2, <1>3, <1>4, <1>5

----------------------------------------------------------------------------
(* The start-up. *)

\* lookup_fs and the creation functions.
LEMMA Mounts ==
    ASSUME NEW fstype, NEW dev, NEW signed
    PROVE  /\ MountFs("rootfs", dev, signed) = <<"rootfs">>
           /\ MountFs("tmpfs", dev, signed) = <<"tmpfs">>
           /\ MountFs("devfs", dev, signed) = <<"devfs">>
           /\ fstype \notin {"rootfs", "tmpfs", "devfs"} /\ MountFs(fstype, dev, signed) # None =>
                 MountFs(fstype, dev, signed) = IF fstype = "vfat" THEN <<"vfat">> ELSE <<"bootfs">>
<1>1. /\ MountFs("rootfs", dev, signed) = <<"rootfs">>
      /\ MountFs("tmpfs", dev, signed) = <<"tmpfs">>
      /\ MountFs("devfs", dev, signed) = <<"devfs">>
  BY DEF MountFs, rootfs_create, tmpfs_create, devfs_create
<1>2. ASSUME fstype \notin {"rootfs", "tmpfs", "devfs"}
      PROVE  /\ fstype \in {"tarfs", "internal_driver"} => MountFs(fstype, dev, signed) \in {None, <<"bootfs">>}
             /\ fstype = "vfat" => MountFs(fstype, dev, signed) \in {None, <<"vfat">>}
             /\ fstype \notin {"tarfs", "internal_driver", "vfat"} => MountFs(fstype, dev, signed) = None
  BY <1>2 DEF MountFs, tarfs_create, vfat_create
<1> QED  BY <1>1, <1>2

\* A process that makes no call disturbs nothing.
LEMMA NoCallSound ==
    /\ NoCall \in CallType /\ NoCall.pc = "idle"
    /\ \A ns, f : LookupSound(ns, f, NoCall)
<1>1. NoObject \in ObjType /\ NoCall.object = NoObject  BY NoObjectSound DEF NoObject
<1>2. [abs |-> FALSE, comps |-> <<>>] \in PathType /\ None \in Seq(Name)  BY DEF PathType, None
<1>3. PICK o, path : o = NoObject /\ path = [abs |-> FALSE, comps |-> <<>>]  OBVIOUS
<1>4. NoCall = [op |-> "none", pc |-> "idle", path |-> path, at |-> 0, rest |-> <<>>, pn |-> None, object |-> o]
  BY <1>3 DEF NoObject, NoCall
<1>5. o \in ObjType /\ path \in PathType  BY <1>1, <1>2, <1>3
<1>6. NoCall \in CallType /\ NoCall.pc = "idle"  BY <1>2, <1>4, <1>5 DEF CallType
<1> QED  BY <1>6 DEF LookupSound

LEMMA BootFsRoot == BootFs \in BootRoots
BY DEF BootFs, BootRoots

\* What every step before the end of the start-up leaves alone.
LEMMA StartsUp ==
    ASSUME FilesInv, boot.pc # "up", Idle, NEW to, to \in BootType, boot' = to, to.fstype = boot.fstype,
           nodes' \in Seq(NodeType),
           NEW f, f = BootFs',
           to.pc = "vfs" => tmpdirs' = {},
           to.pc = "root" => RootOnly(nodes', <<"rootfs">>),
           to.pc = "dev" => RootOnly(nodes', <<"tmpfs">>) /\ tmpdirs' = TmpRoot,
           to.pc = "devfs" => DevMade(nodes', <<"tmpfs", "dev">>) /\ tmpdirs' = TmpDev,
           to.pc = "usr" => DevMade(nodes', <<"devfs">>) /\ tmpdirs' = TmpDev,
           to.pc = "bootfs" => UsrMade(nodes', <<"tmpfs", "usr">>) /\ tmpdirs' = TmpAll,
           to.pc = "up" => tmpdirs' = TmpAll /\ TreeSound(nodes', f)
    PROVE  FilesInv'
<1>1. /\ objects' = <<>> /\ listed' = <<>> /\ objects' = objects /\ listed' = listed /\ syscall' = syscall
      /\ \A p \in Proc : syscall[p] = NoCall
  BY DEF FilesInv, FilesSound, BootSound, Idle
<1>2. FilesType'  BY <1>1 DEF FilesInv, FilesType
<1>3. boot.fstype \notin {"rootfs", "tmpfs", "devfs"}  BY DEF FilesInv, FilesSound, BootSound
<1>4. BootSound'  BY <1>1, <1>3 DEF BootSound
<1>5. CallsSound'  BY <1>1, NoCallSound DEF CallsSound
<1>6. ObjectsSound'  BY <1>1 DEF ObjectsSound
<1>7. (boot.pc = "up" => TreeSound(nodes, BootFs))'  OBVIOUS
<1> QED  BY <1>2, <1>4, <1>5, <1>6, <1>7 DEF FilesInv, FilesSound

LEMMA StepTyped ==
    ASSUME FilesInv, NEW from, NEW to \in {"root", "dev", "devfs", "usr", "bootfs", "aborted", "up"},
           BootStep(from, to)
    PROVE  boot.pc = from /\ boot' \in BootType /\ boot'.pc = to /\ boot'.fstype = boot.fstype
BY DEF FilesInv, FilesType, BootStep, BootType

LEMMA RootPaths ==
    /\ <<"rootfs">> \in Seq(Name) /\ <<"tmpfs">> \in Seq(Name) /\ <<"devfs">> \in Seq(Name)
    /\ <<"tmpfs", "dev">> \in Seq(Name) /\ <<"tmpfs", "usr">> \in Seq(Name)
    /\ Append(<<"tmpfs">>, "dev") = <<"tmpfs", "dev">> /\ Append(<<"tmpfs">>, "usr") = <<"tmpfs", "usr">>
<1>1. /\ <<"rootfs">> \in Seq(Name) /\ <<"tmpfs">> \in Seq(Name) /\ <<"devfs">> \in Seq(Name)
      /\ <<"tmpfs", "dev">> \in Seq(Name) /\ <<"tmpfs", "usr">> \in Seq(Name)
  BY Literals, OneName, TwoNames
<1>2. \A a, b \in Name : Append(<<a>>, b) = <<a, b>>  BY TwoAppended
<1> QED  BY <1>1, <1>2, Literals

LEMMA MountedIs ==
    ASSUME nodes \in Seq(NodeType), NEW id \in 1..Len(nodes), NEW pn \in Seq(Name), NEW m, m = Mounted(id, pn)
    PROVE  /\ m \in Seq(NodeType) /\ Len(m) = Len(nodes) /\ m[id] = Node(pn)
           /\ \A j \in 1..Len(nodes) : j # id => m[j] = nodes[j]
<1>1. PICK d : d = Node(pn)  OBVIOUS
<1>2. d \in NodeType  BY <1>1, NodeTyped
<1>3. m = [nodes EXCEPT ![id] = d]  BY <1>1 DEF Mounted, Node
<1> QED  BY <1>1, <1>2, <1>3, ExceptSeq

LEMMA FilesStart ==
    ASSUME BootFsOnDevice, FilesInit
    PROVE  FilesInv
<1>1. PICK a \in BootArgs : boot = [pc |-> "vfs", device |-> a.device, fstype |-> a.fstype, calls |-> 0]
  BY DEF FilesInit
<1>2. boot \in BootType /\ boot.pc = "vfs" /\ boot.fstype \notin {"rootfs", "tmpfs", "devfs"}
  <2>1. a.device \in STRING /\ a.fstype \in STRING  BY FilesAssumption
  <2>2. PICK d, t : d = a.device /\ t = a.fstype  OBVIOUS
  <2>3. t \notin {"rootfs", "tmpfs", "devfs"}  BY <2>2 DEF BootFsOnDevice
  <2> QED  BY <1>1, <2>1, <2>2, <2>3 DEF BootType
<1>3. nodes = <<>> /\ tmpdirs = {} /\ objects = <<>> /\ listed = <<>> /\ \A p \in Proc : syscall[p] = NoCall
  BY DEF FilesInit
<1>4. FilesType
  <2>1. syscall \in [Proc -> CallType]  BY NoCallSound DEF FilesInit
  <2> QED  BY <1>2, <1>3, <2>1 DEF FilesType
<1>5. BootSound  BY <1>2, <1>3 DEF BootSound
<1>6. CallsSound  BY <1>3, NoCallSound DEF CallsSound
<1>7. ObjectsSound  BY <1>3 DEF ObjectsSound
<1> QED  BY <1>2, <1>4, <1>5, <1>6, <1>7 DEF FilesInv, FilesSound

LEMMA VfsInitKeeps ==
    ASSUME FilesInv, VfsInit
    PROVE  FilesInv'
<1>1. BootStep("vfs", "root")  BY DEF VfsInit
<1>2. boot.pc = "vfs" /\ boot' \in BootType /\ boot'.pc = "root" /\ boot'.fstype = boot.fstype
  BY <1>1, StepTyped
<1>3. PICK d : d = Node(<<"rootfs">>)  OBVIOUS
<1>4. d \in NodeType  BY <1>3, NodeTyped, RootPaths
<1>5. nodes' = <<d>>  BY <1>3, Mounts DEF VfsInit
<1>6. nodes' \in Seq(NodeType) /\ Len(nodes') = 1 /\ nodes'[1] = d
  <2>1. <<d>> = Append(<<>>, d) /\ <<>> \in Seq(NodeType)  OBVIOUS
  <2> QED  BY <1>4, <1>5, <2>1, AppendProperties
<1>7. RootOnly(nodes', <<"rootfs">>)  BY <1>3, <1>6 DEF RootOnly
<1>8. Idle  BY DEF VfsInit
<1>9. PICK to, f : to = boot' /\ f = BootFs'  OBVIOUS
<1> QED  BY <1>2, <1>6, <1>7, <1>8, <1>9, StartsUp

LEMMA MountRootKeeps ==
    ASSUME FilesInv, MountRoot
    PROVE  FilesInv'
<1>1. BootStep("root", "dev")  BY DEF MountRoot
<1>2. boot.pc = "root" /\ boot' \in BootType /\ boot'.pc = "dev" /\ boot'.fstype = boot.fstype
  BY <1>1, StepTyped
<1>3. RootOnly(nodes, <<"rootfs">>) /\ nodes \in Seq(NodeType)
  BY <1>2 DEF FilesInv, FilesSound, BootSound, FilesType
<1>4. PICK k \in 1..Len(nodes) : k = 1  BY <1>3 DEF RootOnly
<1>5. PICK m : m = Mounted(k, <<"tmpfs">>)  OBVIOUS
<1>6. m \in Seq(NodeType) /\ Len(m) = Len(nodes) /\ m[k] = Node(<<"tmpfs">>)
  BY <1>3, <1>5, RootPaths, MountedIs
<1>7. nodes' = m  BY <1>4, <1>5, Mounts DEF MountRoot
<1>8. RootOnly(nodes', <<"tmpfs">>)  BY <1>3, <1>4, <1>6, <1>7 DEF RootOnly
<1>9. Idle /\ tmpdirs' = TmpRoot  BY DEF MountRoot, TmpRoot
<1>10. PICK to, f : to = boot' /\ f = BootFs'  OBVIOUS
<1> QED  BY <1>2, <1>6, <1>7, <1>8, <1>9, <1>10, StartsUp

LEMMA MkdirDevKeeps ==
    ASSUME FilesInv, MkdirDev
    PROVE  FilesInv'
<1>1. BootStep("dev", "devfs")  BY DEF MkdirDev
<1>2. boot.pc = "dev" /\ boot' \in BootType /\ boot'.pc = "devfs" /\ boot'.fstype = boot.fstype
  BY <1>1, StepTyped
<1>3. RootOnly(nodes, <<"tmpfs">>) /\ nodes \in Seq(NodeType) /\ tmpdirs = TmpRoot
  BY <1>2 DEF FilesInv, FilesSound, BootSound, FilesType
<1>4. PICK k \in 1..Len(nodes) : k = 1  BY <1>3 DEF RootOnly
<1>5. nodes[1].pn = <<"tmpfs">> /\ DOMAIN nodes[1].child = {}  BY <1>3 DEF RootOnly, Node
<1>6. PICK b : b = <<"tmpfs", "dev">>  OBVIOUS
<1>7. b \in Seq(Name) /\ Append(<<"tmpfs">>, "dev") = b  BY <1>6, RootPaths
<1>8. PICK m : m = WithChild(nodes, k, "dev", b)  OBVIOUS
<1>9. Extends(m, nodes, k, "dev", b)  BY <1>3, <1>7, <1>8, Literals, WithChildExtends
<1>10. nodes' = m /\ tmpdirs' = TmpDev  BY <1>3, <1>4, <1>5, <1>6, <1>7, <1>8 DEF MkdirDev, Mkdir, TmpDev
<1>11. Len(nodes) = 1  BY <1>3 DEF RootOnly
<1>12. DevMade(m, b)
  <2>1. Len(m) = 2 /\ m[1].pn = <<"tmpfs">> /\ m[2] = Node(b)  BY <1>4, <1>5, <1>9, <1>11 DEF Extends
  <2>2. DOMAIN m[1].child = {"dev"} /\ m[1].child["dev"] = 2  BY <1>4, <1>5, <1>9, <1>11 DEF Extends
  <2> QED  BY <2>1, <2>2 DEF DevMade
<1>13. m \in Seq(NodeType)  BY <1>9 DEF Extends
<1>14. Idle  BY DEF MkdirDev
<1>15. PICK to, f : to = boot' /\ f = BootFs'  OBVIOUS
<1> QED  BY <1>2, <1>6, <1>10, <1>12, <1>13, <1>14, <1>15, StartsUp

LEMMA MountDevKeeps ==
    ASSUME FilesInv, MountDev
    PROVE  FilesInv'
<1>1. BootStep("devfs", "usr")  BY DEF MountDev
<1>2. boot.pc = "devfs" /\ boot' \in BootType /\ boot'.pc = "usr" /\ boot'.fstype = boot.fstype
  BY <1>1, StepTyped
<1>3. DevMade(nodes, <<"tmpfs", "dev">>) /\ nodes \in Seq(NodeType) /\ tmpdirs = TmpDev
  BY <1>2 DEF FilesInv, FilesSound, BootSound, FilesType
<1>4. PICK k \in 1..Len(nodes) : k = 2  BY <1>3 DEF DevMade
<1>5. PICK m : m = Mounted(k, <<"devfs">>)  OBVIOUS
<1>6. /\ m \in Seq(NodeType) /\ Len(m) = Len(nodes) /\ m[k] = Node(<<"devfs">>)
      /\ \A j \in 1..Len(nodes) : j # k => m[j] = nodes[j]
  BY <1>3, <1>5, RootPaths, MountedIs
<1>7. nodes' = m
  <2>1. nodes[1].child["dev"] = k  BY <1>3, <1>4 DEF DevMade
  <2> QED  BY <1>5, <2>1, Mounts DEF MountDev
<1>8. DevMade(nodes', <<"devfs">>)
  <2>1. Len(nodes) = 2  BY <1>3 DEF DevMade
  <2>2. m[1] = nodes[1]  BY <1>4, <1>6, <2>1
  <2> QED  BY <1>3, <1>4, <1>6, <1>7, <2>1, <2>2 DEF DevMade
<1>9. Idle /\ tmpdirs' = TmpDev  BY <1>3 DEF MountDev
<1>10. PICK to, f : to = boot' /\ f = BootFs'  OBVIOUS
<1> QED  BY <1>2, <1>6, <1>7, <1>8, <1>9, <1>10, StartsUp

LEMMA MkdirUsrKeeps ==
    ASSUME FilesInv, MkdirUsr
    PROVE  FilesInv'
<1>1. BootStep("usr", "bootfs")  BY DEF MkdirUsr
<1>2. boot.pc = "usr" /\ boot' \in BootType /\ boot'.pc = "bootfs" /\ boot'.fstype = boot.fstype
  BY <1>1, StepTyped
<1>3. DevMade(nodes, <<"devfs">>) /\ nodes \in Seq(NodeType) /\ tmpdirs = TmpDev
  BY <1>2 DEF FilesInv, FilesSound, BootSound, FilesType
<1>4. PICK k \in 1..Len(nodes) : k = 1  BY <1>3 DEF DevMade
<1>5. /\ nodes[1].pn = <<"tmpfs">> /\ DOMAIN nodes[1].child = {"dev"} /\ nodes[1].child["dev"] = 2
      /\ nodes[2] = Node(<<"devfs">>) /\ Len(nodes) = 2
  BY <1>3 DEF DevMade
<1>6. PICK b : b = <<"tmpfs", "usr">>  OBVIOUS
<1>7. b \in Seq(Name) /\ Append(<<"tmpfs">>, "usr") = b  BY <1>6, RootPaths
<1>8. PICK m : m = WithChild(nodes, k, "usr", b)  OBVIOUS
<1>9. Extends(m, nodes, k, "usr", b)  BY <1>3, <1>7, <1>8, Literals, WithChildExtends
<1>10. nodes' = m /\ tmpdirs' = TmpAll  BY <1>3, <1>4, <1>5, <1>6, <1>7, <1>8 DEF MkdirUsr, Mkdir, TmpAll
<1>11. UsrMade(m, b)
  <2>1. Len(m) = 3 /\ m[1].pn = <<"tmpfs">> /\ m[3] = Node(b)  BY <1>4, <1>5, <1>9 DEF Extends
  <2>2. m[2] = Node(<<"devfs">>)  BY <1>4, <1>5, <1>9 DEF Extends
  <2>3. DOMAIN m[1].child = {"dev", "usr"} /\ m[1].child["usr"] = 3  BY <1>4, <1>5, <1>9 DEF Extends
  <2>4. m[1].child["dev"] = 2  BY <1>4, <1>5, <1>9 DEF Extends
  <2> QED  BY <2>1, <2>2, <2>3, <2>4 DEF UsrMade
<1>12. m \in Seq(NodeType)  BY <1>9 DEF Extends
<1>13. Idle  BY DEF MkdirUsr
<1>14. PICK to, f : to = boot' /\ f = BootFs'  OBVIOUS
<1> QED  BY <1>2, <1>6, <1>10, <1>11, <1>12, <1>13, <1>14, StartsUp

\* The mounts are as Target has them, or the start-up ends.
LEMMA MountUsrKeeps ==
    ASSUME FilesInv, MountUsr
    PROVE  FilesInv'
<1>1. boot.pc = "bootfs" /\ Idle  BY DEF MountUsr
<1>2. /\ UsrMade(nodes, <<"tmpfs", "usr">>) /\ nodes \in Seq(NodeType) /\ tmpdirs = TmpAll
      /\ boot \in BootType /\ boot.fstype \notin {"rootfs", "tmpfs", "devfs"}
  BY <1>1 DEF FilesInv, FilesSound, BootSound, FilesType
<1>3. PICK to, g : to = boot' /\ g = BootFs'  OBVIOUS
<1>4. CASE Abort
  <2>1. boot' \in BootType /\ boot'.pc = "aborted" /\ boot'.fstype = boot.fstype /\ nodes' = nodes
    BY <1>2, <1>4 DEF Abort, BootType
  <2> QED  BY <1>1, <1>2, <1>3, <2>1, StartsUp
<1>5. CASE ~Abort
  <2> DEFINE fstype == IF boot.fstype = EmptyString THEN "internal_driver" ELSE boot.fstype
  <2>1. PICK signed \in BOOLEAN : LET pn == MountFs(fstype, DeviceOf[boot.device], signed) IN
            pn # None /\ BootStep("bootfs", "up") /\ nodes' = Mounted(nodes[1].child["usr"], pn) /\ UNCHANGED tmpdirs
    BY <1>5 DEF MountUsr
  <2>2. PICK pn : pn = MountFs(fstype, DeviceOf[boot.device], signed)  OBVIOUS
  <2>3. pn = IF boot.fstype = "vfat" THEN <<"vfat">> ELSE <<"bootfs">>
    <3>1. "vfat" # EmptyString  BY Zenon DEF EmptyString
    <3>2. fstype \notin {"rootfs", "tmpfs", "devfs"}  BY <1>2
    <3>3. fstype = "vfat" <=> boot.fstype = "vfat"  BY <3>1
    <3>4. PICK t, dev : t = fstype /\ dev = DeviceOf[boot.device]  OBVIOUS
    <3> HIDE DEF fstype
    <3>5. pn = MountFs(t, dev, signed) /\ pn # None /\ t \notin {"rootfs", "tmpfs", "devfs"}
      BY <2>1, <2>2, <3>2, <3>4
    <3>6. pn = IF t = "vfat" THEN <<"vfat">> ELSE <<"bootfs">>  BY <3>5, Mounts
    <3> QED  BY <3>3, <3>4, <3>6
  <2>4. BootStep("bootfs", "up") /\ nodes' = Mounted(nodes[1].child["usr"], pn) /\ tmpdirs' = tmpdirs
    BY <2>1, <2>2
  <2> HIDE DEF fstype
  <2>5. boot' \in BootType /\ boot'.pc = "up" /\ boot'.fstype = boot.fstype  BY <2>4, StepTyped
  <2>6. g = pn /\ pn \in BootRoots
    BY <1>3, <2>3, <2>5 DEF BootFs, BootRoots
  <2>7. pn \in Seq(Name) /\ Good(pn)  BY <2>6, BootFsGood DEF Good
  <2>8. PICK k \in 1..Len(nodes) : k = 3  BY <1>2 DEF UsrMade
  <2>9. PICK m : m = Mounted(k, pn)  OBVIOUS
  <2>10. /\ m \in Seq(NodeType) /\ Len(m) = Len(nodes) /\ m[k] = Node(pn)
         /\ \A j \in 1..Len(nodes) : j # k => m[j] = nodes[j]
    BY <1>2, <2>7, <2>9, MountedIs
  <2>11. nodes' = m
    <3>1. nodes[1].child["usr"] = k  BY <1>2, <2>8 DEF UsrMade
    <3> QED  BY <2>4, <2>9, <3>1
  <2>12. UsrMade(m, pn)
    <3>1. Len(nodes) = 3  BY <1>2 DEF UsrMade
    <3>2. m[1] = nodes[1] /\ m[2] = nodes[2]  BY <2>8, <2>10, <3>1
    <3> QED  BY <1>2, <2>8, <2>10, <3>1, <3>2 DEF UsrMade
  <2>13. TreeSound(m, g)
    <3>1. DOMAIN m = {1, 2, 3} /\ Len(m) = 3  BY <2>10, <2>12 DEF UsrMade
    <3>2. /\ m[1].pn = <<"tmpfs">> /\ m[2].pn = <<"devfs">> /\ m[3].pn = pn
          /\ DOMAIN m[1].child = {"dev", "usr"} /\ m[1].child["dev"] = 2 /\ m[1].child["usr"] = 3
          /\ DOMAIN m[2].child = {} /\ DOMAIN m[3].child = {}
      BY <2>12 DEF UsrMade, Node
    <3>3. Good(<<"tmpfs">>) /\ Good(<<"devfs">>)  BY Roots DEF Good
    <3>4. pn # None /\ <<"devfs">> # None /\ <<"devfs">> # <<"tmpfs">> /\ pn # <<"tmpfs">>
      BY <2>6, Roots DEF None, BootRoots
    <3>5. CacheSound(m, g, 1)
      <4>1. Step(g, <<"tmpfs">>, "dev") = <<"devfs">> /\ Step(g, <<"tmpfs">>, "usr") = pn
        BY <2>6 DEF Step
      <4> QED  BY <3>1, <3>2, <3>4, <4>1 DEF CacheSound
    <3>6. NodeSound(m, g, 1)  BY <3>2, <3>3, <3>5 DEF NodeSound
    <3>7. NodeSound(m, g, 2)  BY <3>2, <3>3, <3>4 DEF NodeSound, CacheSound
    <3>8. NodeSound(m, g, 3)  BY <3>2, <2>7, <3>4 DEF NodeSound, CacheSound
    <3> QED  BY <3>1, <3>2, <3>6, <3>7, <3>8 DEF TreeSound
  <2> QED  BY <1>1, <1>2, <1>3, <2>4, <2>5, <2>10, <2>11, <2>13, StartsUp
<1> QED  BY <1>4, <1>5

----------------------------------------------------------------------------
(* System calls. *)

\* A process that makes a call, or has an object, does so when the start-up is over.
LEMMA Calling ==
    ASSUME FilesInv
    PROVE  /\ \A p \in Proc : syscall[p].pc # "idle" => boot.pc = "up"
           /\ \A h \in DOMAIN objects : boot.pc = "up"
<1>1. boot.pc # "up" => objects = <<>> /\ \A p \in Proc : syscall[p] = NoCall
  BY DEF FilesInv, FilesSound, BootSound
<1>2. NoCall.pc = "idle"  BY NoCallSound
<1> QED  BY <1>1, <1>2

\* What holds in any state when the start-up is over.
LEMMA Known ==
    ASSUME FilesInv, boot.pc = "up"
    PROVE  /\ boot \in BootType /\ nodes \in Seq(NodeType) /\ tmpdirs = TmpAll /\ TreeSound(nodes, BootFs)
           /\ \A p \in Proc : syscall[p] \in CallType /\ LookupSound(nodes, BootFs, syscall[p])
           /\ \A i \in DOMAIN nodes : Good(nodes[i].pn)
BY DEF FilesInv, FilesType, FilesSound, BootSound, CallsSound, TreeSound, NodeSound

LEMMA StaysUp ==
    ASSUME FilesInv, boot.pc = "up", boot' \in BootType, boot'.pc = "up", boot'.fstype = boot.fstype,
           tmpdirs' = tmpdirs
    PROVE  BootSound' /\ BootFs' = BootFs
BY DEF FilesInv, FilesSound, BootSound, BootFs

\* A call of one process goes on; nodes may be added.
LEMMA CallMoves ==
    ASSUME FilesInv, boot.pc = "up", boot' \in BootType, boot'.pc = "up", boot'.fstype = boot.fstype,
           UNCHANGED <<tmpdirs, objects, listed>>,
           nodes' \in Seq(NodeType), Grown(nodes, nodes'), TreeSound(nodes', BootFs),
           NEW p \in Proc, NEW c \in CallType, syscall' = [syscall EXCEPT ![p] = c],
           LookupSound(nodes', BootFs, c), c.pc = "register" => OpenSound(c.object)
    PROVE  FilesInv'
<1>1. BootSound' /\ BootFs' = BootFs  BY StaysUp
<1>2. syscall \in [Proc -> CallType]  BY DEF FilesInv, FilesType
<1>3. FilesType'  BY <1>2 DEF FilesInv, FilesType
<1>4. CallsSound'
  <2>1. ASSUME NEW q \in Proc
        PROVE  /\ LookupSound(nodes', BootFs, syscall'[q])
               /\ syscall'[q].pc = "register" => OpenSound(syscall'[q].object)
    <3>1. CASE q = p  BY <1>2, <3>1
    <3>2. CASE q # p
      <4>1. syscall'[q] = syscall[q]  BY <1>2, <3>2
      <4>2. LookupSound(nodes, BootFs, syscall[q]) /\ (syscall[q].pc = "register" => OpenSound(syscall[q].object))
        BY DEF FilesInv, FilesSound, CallsSound
      <4>3. PICK ns, m, f, d : ns = nodes /\ m = nodes' /\ f = BootFs /\ d = syscall[q]  OBVIOUS
      <4>4. LookupSound(m, f, d)  BY <4>2, <4>3, LookupGrows
      <4> QED  BY <4>1, <4>2, <4>3, <4>4
    <3> QED  BY <3>1, <3>2
  <2> QED  BY <1>1, <2>1 DEF CallsSound
<1>5. ObjectsSound'  BY DEF FilesInv, FilesSound, ObjectsSound
<1>6. (boot.pc = "up" => TreeSound(nodes, BootFs))'  BY <1>1
<1> QED  BY <1>1, <1>3, <1>4, <1>5, <1>6 DEF FilesInv, FilesSound

LEMMA SameGrown == ASSUME NEW ns PROVE Grown(ns, ns)
BY DEF Grown

\* A step of one call that leaves the nodes alone.
LEMMA CallGoesOn ==
    ASSUME FilesInv, boot.pc = "up", UNCHANGED <<boot, nodes, tmpdirs, objects, listed>>,
           NEW p \in Proc, NEW c \in CallType, syscall' = [syscall EXCEPT ![p] = c],
           LookupSound(nodes, BootFs, c), c.pc = "register" => OpenSound(c.object)
    PROVE  FilesInv'
<1>1. boot \in BootType /\ nodes \in Seq(NodeType) /\ TreeSound(nodes, BootFs)  BY Known
<1>2. Grown(nodes, nodes')
  <2>1. PICK ns : ns = nodes  OBVIOUS
  <2> QED  BY <2>1, SameGrown
<1>3. boot' \in BootType /\ boot'.pc = "up" /\ boot'.fstype = boot.fstype  BY <1>1
<1>4. nodes' \in Seq(NodeType) /\ TreeSound(nodes', BootFs) /\ LookupSound(nodes', BootFs, c)  BY <1>1
<1> QED  BY <1>2, <1>3, <1>4, CallMoves

\* A call that is over, or not begun, is sound.
LEMMA QuietCall ==
    ASSUME NEW ns, NEW f, NEW c, c.pc \in {"idle", "done", "register"}
    PROVE  LookupSound(ns, f, c)
BY DEF LookupSound

LEMMA ReturnKeeps ==
    ASSUME FilesInv, boot.pc = "up", UNCHANGED <<boot, nodes, tmpdirs, objects, listed>>, NEW p \in Proc, Return(p)
    PROVE  FilesInv'
<1>1. syscall[p] \in CallType  BY Known
<1>2. PICK x : x = syscall[p]  OBVIOUS
<1>3. PICK c : c = [x EXCEPT !.pc = "done"]  OBVIOUS
<1>4. c \in CallType /\ c.pc = "done"  BY <1>1, <1>2, <1>3 DEF CallType
<1>5. syscall' = [syscall EXCEPT ![p] = c]  BY <1>2, <1>3 DEF Return
<1>6. LookupSound(nodes, BootFs, c)
  <2>1. PICK ns, f : ns = nodes /\ f = BootFs  OBVIOUS
  <2> QED  BY <1>4, <2>1, QuietCall
<1> QED  BY <1>4, <1>5, <1>6, CallGoesOn

LEMMA PathsTyped == Path \subseteq PathType
<1> SUFFICES ASSUME NEW path \in Path PROVE path \in PathType  OBVIOUS
<1>1. path \in [abs : BOOLEAN, comps : Seq(STRING)]  BY FilesAssumption
<1>2. path.comps \in Seq(Name)
  <2>1. PICK s : s = path.comps  OBVIOUS
  <2>2. s \in Seq(STRING)  BY <1>1, <2>1
  <2>3. s \in Seq(Name)  BY <2>2, Literals, SeqMonotonic
  <2> QED  BY <2>1, <2>3
<1> QED  BY <1>1, <1>2 DEF PathType

\* sys_open, sys_opendir and sys_exec.
LEMMA CallKeeps ==
    ASSUME FilesInv, NEW p \in Proc, NEW op \in {"open", "opendir", "exec"}, NEW path \in Path, Call(p, op, path)
    PROVE  FilesInv'
<1>1. boot.pc = "up"  BY DEF Call
<1>2. boot \in BootType /\ nodes \in Seq(NodeType) /\ TreeSound(nodes, BootFs)  BY <1>1, Known
<1>3. boot' \in BootType /\ boot'.pc = "up" /\ boot'.fstype = boot.fstype
  BY <1>1, <1>2 DEF Call, BootType
<1>4. path \in PathType  BY PathsTyped
<1>5. PICK x : x = NoCall  OBVIOUS
<1>6. PICK a, s : a = (IF path.abs THEN 1 ELSE 0) /\ s = IF path.abs THEN "lookup" ELSE "found"  OBVIOUS
<1>7. PICK c : c = [x EXCEPT !.op = op, !.path = path, !.rest = path.comps, !.at = a, !.pc = s]  OBVIOUS
<1>8. a \in Nat /\ s \in {"lookup", "found"}  BY <1>6
<1>9. c \in CallType /\ c.path = path /\ c.rest = path.comps /\ c.at = a /\ c.pc = s
  <2>1. x \in CallType  BY <1>5, NoCallSound
  <2>2. path.comps \in Seq(Name)  BY <1>4 DEF PathType
  <2> QED  BY <1>4, <1>7, <1>8, <2>1, <2>2 DEF CallType
<1>10. syscall' = [syscall EXCEPT ![p] = c]  BY <1>5, <1>6, <1>7 DEF Call
<1>11. UNCHANGED <<nodes, tmpdirs, objects, listed>>  BY DEF Call
<1>12. LookupSound(nodes, BootFs, c)
  <2>1. CASE path.abs
    <3>1. a = 1 /\ s = "lookup"  BY <1>6, <2>1
    <3>2. 1 \in DOMAIN nodes /\ nodes[1].pn = <<"tmpfs">>  BY <1>2 DEF TreeSound
    <3>3. Follow(BootFs, nodes[1].pn, Cut(path.comps)) = Goal(BootFs, path)  BY <2>1, <3>2 DEF Goal
    <3> QED  BY <1>9, <3>1, <3>2, <3>3 DEF LookupSound, OnTheWay
  <2>2. CASE ~path.abs
    <3>1. a = 0 /\ s = "found"  BY <1>6, <2>2
    <3> QED  BY <1>9, <2>2, <3>1 DEF LookupSound, Goal
  <2> QED  BY <2>1, <2>2
<1>13. Grown(nodes, nodes')
  <2>1. PICK ns : ns = nodes  OBVIOUS
  <2> QED  BY <1>11, <2>1, SameGrown
<1>14. nodes' \in Seq(NodeType) /\ TreeSound(nodes', BootFs) /\ LookupSound(nodes', BootFs, c)
  BY <1>2, <1>11, <1>12
<1>15. c.pc # "register"  BY <1>8, <1>9
<1> QED  BY <1>1, <1>3, <1>9, <1>10, <1>11, <1>13, <1>14, <1>15, CallMoves

\* A look-up at a node that is on the way arrives, goes to the child or finds none.
LEMMA Looks ==
    ASSUME NEW f \in BootRoots, NEW ns, TreeSound(ns, f), NEW c \in CallType, OnTheWay(ns, f, c)
    PROVE  /\ (c.rest = <<>> \/ Head(c.rest) = EmptyString) => ns[c.at].pn = Goal(f, c.path)
           /\ c.rest # <<>> /\ Head(c.rest) # EmptyString =>
                 /\ Head(c.rest) \in Name /\ Tail(c.rest) \in Seq(Name)
                 /\ Goal(f, c.path) = IF Step(f, ns[c.at].pn, Head(c.rest)) = None THEN None
                                      ELSE Follow(f, Step(f, ns[c.at].pn, Head(c.rest)), Cut(Tail(c.rest)))
<1>1. PICK rest, pn : rest = c.rest /\ pn = ns[c.at].pn  OBVIOUS
<1>2. rest \in Seq(Name)  BY <1>1 DEF CallType
<1>3. c.at \in DOMAIN ns /\ Goal(f, c.path) = Follow(f, pn, Cut(rest))  BY <1>1 DEF OnTheWay
<1>4. Good(pn)  BY <1>1, <1>3 DEF TreeSound, NodeSound
<1>5. ASSUME rest = <<>> \/ Head(rest) = EmptyString PROVE pn = Follow(f, pn, Cut(rest))
  <2>1. Cut(rest) = <<>>  BY <1>2, <1>5, CutEmpty
  <2> QED  BY <1>4, <2>1, FollowNothing
<1>6. ASSUME rest # <<>>, Head(rest) # EmptyString
      PROVE  /\ Head(rest) \in Name /\ Tail(rest) \in Seq(Name)
             /\ Follow(f, pn, Cut(rest)) = IF Step(f, pn, Head(rest)) = None THEN None
                                           ELSE Follow(f, Step(f, pn, Head(rest)), Cut(Tail(rest)))
  <2>1. PICK n, t, d : n = Head(rest) /\ t = Tail(rest) /\ d = Cut(Tail(rest))  OBVIOUS
  <2>2. n \in Name /\ t \in Seq(Name)  BY <1>2, <1>6, <2>1, HeadTailProperties
  <2>3. Cut(rest) = <<n>> \o d /\ d \in Seq(Name)  BY <1>2, <1>6, <2>1, CutStep
  <2>4. Follow(f, pn, <<n>> \o d) = IF Step(f, pn, n) = None THEN None ELSE Follow(f, Step(f, pn, n), d)
    BY <1>4, <2>2, <2>3, FollowStep
  <2> QED  BY <2>1, <2>2, <2>3, <2>4
<1> QED  BY <1>1, <1>3, <1>5, <1>6

\* VFSNode::get_child misses only where PFSNode::get_child has the answer.
LEMMA MissIs ==
    ASSUME NEW f, NEW ns, TreeSound(ns, f), tmpdirs = TmpAll, NEW i \in DOMAIN ns, NEW n \in Name,
           n \notin DOMAIN ns[i].child
    PROVE  get_child(ns[i].pn, n) = Step(f, ns[i].pn, n)
           /\ (get_child(ns[i].pn, n) # None => ns[i].pn # <<"tmpfs">>)
<1>1. NodeSound(ns, f, i)  BY DEF TreeSound
<1>2. PICK pn : pn = ns[i].pn  OBVIOUS
<1>3. Good(pn) /\ (pn = <<"tmpfs">> => n \notin {"dev", "usr"})  BY <1>1, <1>2 DEF NodeSound
<1>4. get_child(pn, n) = Child(pn, n)  BY ChildIs
<1>5. CASE pn # <<"tmpfs">>  BY <1>2, <1>4, <1>5 DEF Step
<1>6. CASE pn = <<"tmpfs">>
  <2>1. Step(f, pn, n) = None  BY <1>3, <1>6 DEF Step
  <2>2. Append(pn, n) = <<"tmpfs", n>>  BY <1>6, Literals, TwoAppended
  <2>3. Append(pn, n) \notin TmpAll  BY <1>3, <1>6, <2>2 DEF TmpAll, TmpDev, TmpRoot
  <2>4. Child(pn, n) = None  BY <1>6, <2>3, Roots DEF Child
  <2> QED  BY <1>2, <1>4, <2>1, <2>4
<1> QED  BY <1>5, <1>6

LEMMA LookupNodeKeeps ==
    ASSUME FilesInv, NEW p \in Proc, LookupNode(p)
    PROVE  FilesInv'
<1>1. PICK x : x = syscall[p]  OBVIOUS
<1>2. x.pc = "lookup" /\ UNCHANGED <<boot, nodes, tmpdirs, objects, listed>>  BY <1>1 DEF LookupNode
<1>3. boot.pc = "up"  BY <1>1, <1>2, Calling
<1>4. x \in CallType /\ LookupSound(nodes, BootFs, x) /\ TreeSound(nodes, BootFs) /\ tmpdirs = TmpAll
  BY <1>1, <1>3, Known
<1>5. PICK ns, f : ns = nodes /\ f = BootFs  OBVIOUS
<1>6. f \in BootRoots /\ TreeSound(ns, f) /\ OnTheWay(ns, f, x) /\ x.at \in DOMAIN ns /\ x.at # 0
  <2>1. OnTheWay(ns, f, x) /\ x.at \in DOMAIN ns  BY <1>2, <1>4, <1>5 DEF LookupSound, OnTheWay
  <2>2. ns \in Seq(NodeType)  BY <1>3, <1>5, Known
  <2>3. x.at # 0  BY <2>1, <2>2
  <2> QED  BY <1>4, <1>5, <2>1, <2>3, BootFsRoot
<1>7. PICK n : n = IF x.rest = <<>> THEN EmptyString ELSE Head(x.rest)  OBVIOUS
<1>8. CASE n = EmptyString
  <2>1. x.rest = <<>> \/ Head(x.rest) = EmptyString  BY <1>7, <1>8
  <2>2. ns[x.at].pn = Goal(f, x.path)  BY <1>4, <1>6, <2>1, Looks
  <2>3. PICK c : c = [x EXCEPT !.pc = "found"]  OBVIOUS
  <2>4. c \in CallType /\ c.pc = "found" /\ c.at = x.at /\ c.path = x.path  BY <1>4, <2>3 DEF CallType
  <2>5. LookupSound(ns, f, c)  BY <1>6, <2>2, <2>4 DEF LookupSound
  <2>6. syscall' = [syscall EXCEPT ![p] = c]
    <3>1. syscall' = [syscall EXCEPT ![p].pc = "found"]  BY <1>1, <1>7, <1>8 DEF LookupNode
    <3> QED  BY <1>1, <2>3, <3>1
  <2> QED  BY <1>2, <1>3, <1>5, <2>4, <2>5, <2>6, CallGoesOn
<1>9. CASE n # EmptyString
  <2>1. x.rest # <<>> /\ n = Head(x.rest) /\ n # EmptyString  BY <1>7, <1>9
  <2>2. PICK t, pn, d : t = Tail(x.rest) /\ pn = Step(f, ns[x.at].pn, n) /\ d = Goal(f, x.path)  OBVIOUS
  <2>3. n \in Name /\ t \in Seq(Name) /\ d = IF pn = None THEN None ELSE Follow(f, pn, Cut(t))
    BY <1>4, <1>6, <2>1, <2>2, Looks
  <2>4. NodeSound(ns, f, x.at)  BY <1>6 DEF TreeSound
  <2>5. CASE n \in DOMAIN ns[x.at].child
    <3>1. PICK i : i = ns[x.at].child[n]  OBVIOUS
    <3>2. i \in DOMAIN ns /\ ns[i].pn = pn /\ pn # None  BY <2>2, <2>4, <2>5, <3>1 DEF NodeSound, CacheSound
    <3>3. PICK c : c = [x EXCEPT !.at = i, !.rest = t]  OBVIOUS
    <3>4. i \in Nat
      <4>1. ns \in Seq(NodeType)  BY <1>3, <1>5, Known
      <4> QED  BY <3>2, <4>1
    <3>5. c \in CallType /\ c.pc = "lookup" /\ c.at = i /\ c.path = x.path /\ c.rest = t
      BY <1>2, <1>4, <2>3, <3>3, <3>4 DEF CallType
    <3>6. LookupSound(ns, f, c)  BY <2>2, <2>3, <3>2, <3>5 DEF LookupSound, OnTheWay
    <3>7. syscall' = [syscall EXCEPT ![p] = c]
      <4>1. syscall' = [syscall EXCEPT ![p].at = i, ![p].rest = Tail(@)]
        BY <1>1, <1>5, <1>7, <1>9, <2>5, <3>1 DEF LookupNode
      <4>2. syscall \in [Proc -> CallType]  BY DEF FilesInv, FilesType
      <4> QED  BY <1>1, <1>4, <2>2, <3>3, <4>1, <4>2 DEF CallType
    <3> QED  BY <1>2, <1>3, <1>5, <3>5, <3>6, <3>7, CallGoesOn
  <2>6. CASE n \notin DOMAIN ns[x.at].child
    <3>1. get_child(nodes[x.at].pn, n) = pn /\ (pn # None => ns[x.at].pn # <<"tmpfs">>)
      <4>1. PICK i \in DOMAIN ns : i = x.at  BY <1>6
      <4>2. get_child(ns[i].pn, n) = Step(f, ns[i].pn, n) /\ (get_child(ns[i].pn, n) # None => ns[i].pn # <<"tmpfs">>)
        BY <1>4, <1>6, <2>3, <2>6, <4>1, MissIs
      <4> QED  BY <1>5, <2>2, <4>1, <4>2
    <3>2. syscall' = IF pn = None THEN [syscall EXCEPT ![p].pc = "found", ![p].at = 0]
                     ELSE [syscall EXCEPT ![p].pc = "add", ![p].pn = pn]
      BY <1>1, <1>5, <1>7, <1>9, <2>6, <3>1 DEF LookupNode
    <3>3. syscall \in [Proc -> CallType]  BY DEF FilesInv, FilesType
    <3>4. CASE pn = None
      <4>1. PICK c : c = [x EXCEPT !.pc = "found", !.at = 0]  OBVIOUS
      <4>2. c \in CallType /\ c.pc = "found" /\ c.at = 0 /\ c.path = x.path  BY <1>4, <4>1 DEF CallType
      <4>3. LookupSound(ns, f, c)  BY <2>2, <2>3, <3>4, <4>2 DEF LookupSound
      <4>4. syscall' = [syscall EXCEPT ![p] = c]  BY <1>1, <1>4, <3>2, <3>3, <3>4, <4>1 DEF CallType
      <4> QED  BY <1>2, <1>3, <1>5, <4>2, <4>3, <4>4, CallGoesOn
    <3>5. CASE pn # None
      <4>1. PICK c : c = [x EXCEPT !.pc = "add", !.pn = pn]  OBVIOUS
      <4>2. pn \in Seq(Name)
        <5>1. PICK e : e = ns[x.at].pn  OBVIOUS
        <5>2. Good(e)  BY <2>4, <5>1 DEF NodeSound
        <5>3. Good(pn)  BY <1>6, <2>2, <2>3, <3>5, <5>1, <5>2, StepGood
        <5> QED  BY <5>3 DEF Good
      <4>3. c \in CallType /\ c.pc = "add" /\ c.at = x.at /\ c.path = x.path /\ c.rest = x.rest /\ c.pn = pn
        BY <1>4, <4>1, <4>2 DEF CallType
      <4>4. OnTheWay(ns, f, c)  BY <1>6, <4>3 DEF OnTheWay
      <4>5. LookupSound(ns, f, c)  BY <2>1, <2>2, <3>1, <3>5, <4>3, <4>4 DEF LookupSound
      <4>6. syscall' = [syscall EXCEPT ![p] = c]  BY <1>1, <1>4, <3>2, <3>3, <3>5, <4>1 DEF CallType
      <4> QED  BY <1>2, <1>3, <1>5, <4>3, <4>5, <4>6, CallGoesOn
    <3> QED  BY <3>4, <3>5
  <2> QED  BY <2>5, <2>6
<1> QED  BY <1>8, <1>9

\* The node that is added is the one that the name leads to, whoever added one before.
LEMMA AddChildKeeps ==
    ASSUME FilesInv, NEW p \in Proc, AddChild(p)
    PROVE  FilesInv'
<1>1. PICK x : x = syscall[p]  OBVIOUS
<1>2. x.pc = "add" /\ UNCHANGED <<boot, tmpdirs, objects, listed>>  BY <1>1 DEF AddChild
<1>3. boot.pc = "up"  BY <1>1, <1>2, Calling
<1>4. /\ x \in CallType /\ LookupSound(nodes, BootFs, x) /\ TreeSound(nodes, BootFs) /\ nodes \in Seq(NodeType)
      /\ boot \in BootType
  BY <1>1, <1>3, Known
<1>5. PICK ns, f : ns = nodes /\ f = BootFs  OBVIOUS
<1>6. PICK i, n, pn, t : i = x.at /\ n = Head(x.rest) /\ pn = x.pn /\ t = Tail(x.rest)  OBVIOUS
<1>7. /\ OnTheWay(ns, f, x) /\ i \in DOMAIN ns /\ x.rest # <<>> /\ n # EmptyString
      /\ pn = Step(f, ns[i].pn, n) /\ pn # None
  BY <1>2, <1>4, <1>5, <1>6 DEF LookupSound, OnTheWay
<1>8. f \in BootRoots /\ ns \in Seq(NodeType) /\ TreeSound(ns, f)  BY <1>4, <1>5, BootFsRoot
<1>9. n \in Name /\ t \in Seq(Name) /\ Goal(f, x.path) = Follow(f, pn, Cut(t))
  <2>1. /\ Head(x.rest) \in Name /\ Tail(x.rest) \in Seq(Name)
        /\ Goal(f, x.path) = IF Step(f, ns[x.at].pn, Head(x.rest)) = None THEN None
                             ELSE Follow(f, Step(f, ns[x.at].pn, Head(x.rest)), Cut(Tail(x.rest)))
    BY <1>4, <1>6, <1>7, <1>8, Looks
  <2> QED  BY <1>6, <1>7, <2>1
<1>10. i \in 1..Len(ns) /\ pn \in Seq(Name)
  <2>1. pn \in Seq(Name)  BY <1>4, <1>6 DEF CallType
  <2> QED  BY <1>7, <1>8, <2>1
<1>11. PICK m : m = WithChild(ns, i, n, pn)  OBVIOUS
<1>12. Extends(m, ns, i, n, pn)  BY <1>8, <1>9, <1>10, <1>11, WithChildExtends
<1>13. TreeSound(m, f)  BY <1>7, <1>8, <1>9, <1>10, <1>12, TreeGrows
<1>14. m \in Seq(NodeType) /\ Len(m) = Len(ns) + 1 /\ m[Len(ns) + 1] = Node(pn)  BY <1>12 DEF Extends
<1>15. Grown(ns, m)
  <2>1. DOMAIN ns = 1..Len(ns) /\ DOMAIN m = 1..Len(m) /\ Len(ns) \in Nat  BY <1>8, <1>14
  <2>2. \A j \in 1..Len(ns) : m[j].pn = ns[j].pn  BY <1>12 DEF Extends
  <2> QED  BY <1>14, <2>1, <2>2 DEF Grown
<1>16. PICK k : k = Len(m)  OBVIOUS
<1>17. k \in DOMAIN m /\ m[k].pn = pn /\ k \in Nat
  <2>1. Len(ns) \in Nat /\ DOMAIN m = 1..Len(m)  BY <1>8, <1>14
  <2>2. Node(pn).pn = pn  BY DEF Node
  <2> QED  BY <1>14, <1>16, <2>1, <2>2
<1>18. PICK c : c = [x EXCEPT !.pc = "lookup", !.at = k, !.rest = t]  OBVIOUS
<1>19. c \in CallType /\ c.pc = "lookup" /\ c.at = k /\ c.rest = t /\ c.path = x.path
  BY <1>4, <1>9, <1>17, <1>18 DEF CallType
<1>20. LookupSound(m, f, c)  BY <1>9, <1>17, <1>19 DEF LookupSound, OnTheWay
<1>21. nodes' = m  BY <1>1, <1>5, <1>6, <1>11 DEF AddChild
<1>22. syscall' = [syscall EXCEPT ![p] = c]
  <2>1. syscall' = [syscall EXCEPT ![p].pc = "lookup", ![p].at = k, ![p].rest = Tail(@)]
    BY <1>16, <1>21 DEF AddChild
  <2>2. syscall \in [Proc -> CallType]  BY DEF FilesInv, FilesType
  <2> QED  BY <1>1, <1>4, <1>6, <1>18, <2>1, <2>2 DEF CallType
<1>23. boot' \in BootType /\ boot'.pc = "up" /\ boot'.fstype = boot.fstype  BY <1>2, <1>3, <1>4
<1>24. /\ nodes' \in Seq(NodeType) /\ Grown(nodes, nodes') /\ TreeSound(nodes', BootFs)
       /\ LookupSound(nodes', BootFs, c)
  BY <1>5, <1>13, <1>14, <1>15, <1>20, <1>21
<1>25. UNCHANGED <<tmpdirs, objects, listed>> /\ c.pc # "register"  BY <1>2, <1>19
<1> QED  BY <1>3, <1>19, <1>22, <1>23, <1>24, <1>25, CallMoves

\* The object of a path is opened at the node that the path leads to.
LEMMA OpenNodeKeeps ==
    ASSUME FilesInv, NEW p \in Proc, OpenNode(p)
    PROVE  FilesInv'
<1>1. PICK x : x = syscall[p]  OBVIOUS
<1>2. x.pc = "found" /\ UNCHANGED <<boot, nodes, tmpdirs, objects, listed>>  BY <1>1 DEF OpenNode
<1>3. boot.pc = "up"  BY <1>1, <1>2, Calling
<1>4. /\ x \in CallType /\ LookupSound(nodes, BootFs, x) /\ tmpdirs = TmpAll
      /\ \A i \in DOMAIN nodes : Good(nodes[i].pn)
  BY <1>1, <1>3, Known
<1>5. PICK pn : pn = nodes[x.at].pn  OBVIOUS
<1>6. x.at # 0 => Good(pn)  BY <1>2, <1>4, <1>5 DEF LookupSound
<1>7. PICK o : o = IF x.at = 0 THEN NoObject ELSE IF x.op = "open" THEN open(pn)
                   ELSE IF x.op = "opendir" THEN opendir(pn) ELSE Launch(pn)
  OBVIOUS
<1>8. o \in ObjType /\ OpenSound(o)
  <2>1. CASE x.at = 0  BY <1>7, <2>1, NoObjectSound
  <2>2. CASE x.at # 0
    <3>1. Good(pn)  BY <1>6, <2>2
    <3>2. o \in {open(pn), opendir(pn), Launch(pn)}  BY <1>7, <2>2
    <3>3. /\ open(pn) \in ObjType /\ OpenSound(open(pn)) /\ Launch(pn) \in ObjType /\ OpenSound(Launch(pn))
      BY <3>1, OpenedSound
    <3>4. opendir(pn) \in ObjType /\ OpenSound(opendir(pn))  BY <1>4, <3>1, OpendirSound
    <3> QED  BY <3>2, <3>3, <3>4
  <2> QED  BY <2>1, <2>2
<1>9. PICK s : s = IF o = NoObject THEN "done" ELSE "register"  OBVIOUS
<1>10. PICK c : c = [x EXCEPT !.object = o, !.pc = s]  OBVIOUS
<1>11. s \in {"done", "register"}  BY <1>9
<1>12. c \in CallType /\ c.pc = s /\ c.object = o  BY <1>4, <1>8, <1>10, <1>11 DEF CallType
<1>13. syscall' = [syscall EXCEPT ![p] = c]
  <2>1. syscall' = [syscall EXCEPT ![p].object = o, ![p].pc = s]  BY <1>1, <1>5, <1>7, <1>9 DEF OpenNode
  <2>2. syscall \in [Proc -> CallType]  BY DEF FilesInv, FilesType
  <2> QED  BY <1>1, <1>4, <1>10, <2>1, <2>2 DEF CallType
<1>14. LookupSound(nodes, BootFs, c)
  <2>1. PICK ns, f : ns = nodes /\ f = BootFs  OBVIOUS
  <2> QED  BY <1>11, <1>12, <2>1, QuietCall
<1> QED  BY <1>2, <1>3, <1>8, <1>12, <1>13, <1>14, CallGoesOn

\* Objects change, and what was read from them with them.
ObjectRec == [owner : Proc, object : ObjType]
ListRec == [all : Seq(Name), seen : Seq(Name)]

LEMMA ObjectsMove ==
    ASSUME FilesInv, boot.pc = "up", UNCHANGED <<boot, nodes, tmpdirs>>,
           NEW p \in Proc, syscall' = syscall \/ Return(p),
           objects' \in Seq(ObjectRec), listed' \in Seq(ListRec), Len(objects') = Len(listed'),
           \A h \in 1..Len(objects') : ListedSound(objects'[h].object, listed'[h])
    PROVE  FilesInv'
<1>1. boot \in BootType /\ nodes \in Seq(NodeType) /\ TreeSound(nodes, BootFs)  BY Known
<1>2. BootSound' /\ BootFs' = BootFs  BY <1>1, StaysUp
<1>3. syscall \in [Proc -> CallType]  BY DEF FilesInv, FilesType
<1>4. syscall' \in [Proc -> CallType] /\ \A q \in Proc : syscall'[q] = syscall[q] \/ syscall'[q].pc = "done"
  <2>1. CASE syscall' = syscall  BY <1>3, <2>1
  <2>2. CASE Return(p)
    <3>1. syscall[p] \in CallType  BY <1>3
    <3>2. PICK x : x = syscall[p]  OBVIOUS
    <3>3. PICK c : c = [x EXCEPT !.pc = "done"]  OBVIOUS
    <3>4. c \in CallType /\ c.pc = "done"  BY <3>1, <3>2, <3>3 DEF CallType
    <3>5. syscall' = [syscall EXCEPT ![p] = c]  BY <2>2, <3>2, <3>3 DEF Return
    <3> QED  BY <1>3, <3>4, <3>5
  <2> QED  BY <2>1, <2>2
<1>5. FilesType'  BY <1>1, <1>4 DEF FilesType, ObjectRec, ListRec
<1>6. CallsSound'
  <2>1. ASSUME NEW q \in Proc
        PROVE  /\ LookupSound(nodes, BootFs, syscall'[q])
               /\ syscall'[q].pc = "register" => OpenSound(syscall'[q].object)
    <3>1. CASE syscall'[q] = syscall[q]  BY <3>1 DEF FilesInv, FilesSound, CallsSound
    <3>2. CASE syscall'[q].pc = "done"
      <4>1. PICK ns, f, d : ns = nodes /\ f = BootFs /\ d = syscall'[q]  OBVIOUS
      <4>2. LookupSound(ns, f, d)  BY <3>2, <4>1, QuietCall
      <4> QED  BY <3>2, <4>1, <4>2
    <3> QED  BY <1>4, <3>1, <3>2
  <2> QED  BY <1>2, <2>1 DEF CallsSound
<1>7. ObjectsSound'
  <2>1. DOMAIN objects' = 1..Len(objects')  OBVIOUS
  <2> QED  BY <2>1 DEF ObjectsSound
<1>8. (boot.pc = "up" => TreeSound(nodes, BootFs))'  BY <1>1, <1>2
<1> QED  BY <1>2, <1>5, <1>6, <1>7, <1>8 DEF FilesInv, FilesSound

LEMMA ObjectsKnown ==
    ASSUME FilesInv
    PROVE  /\ objects \in Seq(ObjectRec) /\ listed \in Seq(ListRec) /\ Len(listed) = Len(objects)
           /\ DOMAIN objects = 1..Len(objects) /\ DOMAIN listed = 1..Len(objects) /\ Len(objects) \in Nat
           /\ \A h \in 1..Len(objects) : /\ objects[h] \in ObjectRec /\ listed[h] \in ListRec
                                         /\ ListedSound(objects[h].object, listed[h])
<1>1. objects \in Seq(ObjectRec) /\ listed \in Seq(ListRec)  BY DEF FilesInv, FilesType, ObjectRec, ListRec
<1>2. Len(listed) = Len(objects) /\ \A h \in DOMAIN objects : ListedSound(objects[h].object, listed[h])
  BY DEF FilesInv, FilesSound, ObjectsSound
<1>3. DOMAIN objects = 1..Len(objects) /\ DOMAIN listed = 1..Len(objects) /\ Len(objects) \in Nat  BY <1>1, <1>2
<1> QED  BY <1>1, <1>2, <1>3

LEMMA RegisterKeeps ==
    ASSUME FilesInv, NEW p \in Proc, register_object(p)
    PROVE  FilesInv'
<1>1. PICK o : o = syscall[p].object  OBVIOUS
<1>2. syscall[p].pc = "register" /\ Return(p) /\ UNCHANGED <<boot, nodes, tmpdirs>>  BY DEF register_object
<1>3. boot.pc = "up"  BY <1>2, Calling
<1>4. o \in ObjType /\ OpenSound(o)
  <2>1. syscall[p] \in CallType  BY <1>3, Known
  <2>2. OpenSound(o)  BY <1>1, <1>2 DEF FilesInv, FilesSound, CallsSound
  <2> QED  BY <1>1, <2>1, <2>2 DEF CallType
<1>5. PICK r, l : r = [owner |-> p, object |-> o] /\ l = [all |-> o.entries, seen |-> <<>>]  OBVIOUS
<1>6. r \in ObjectRec /\ l \in ListRec /\ r.object = o /\ l.all = o.entries /\ l.seen = <<>>
  BY <1>4, <1>5 DEF ObjectRec, ListRec, ObjType
<1>7. ListedSound(r.object, l)
  <2>1. o.entries \in Seq(Name) /\ o.pos = 0  BY <1>4 DEF OpenSound, ObjType
  <2>2. Len(o.entries) \in Nat /\ Len(<<>>) = 0  BY <2>1
  <2>3. o.kind \notin Dirs => o.entries = <<>>  BY <1>4 DEF OpenSound
  <2>4. EntriesLead(o.of, o.entries)  BY <1>4 DEF OpenSound
  <2> QED  BY <1>6, <2>1, <2>2, <2>3, <2>4 DEF ListedSound
<1>8. objects' = Append(objects, r) /\ listed' = Append(listed, l)  BY <1>1, <1>5 DEF register_object
<1>9. /\ objects' \in Seq(ObjectRec) /\ Len(objects') = Len(objects) + 1
      /\ (\A h \in 1..Len(objects) : objects'[h] = objects[h]) /\ objects'[Len(objects) + 1] = r
  <2>1. PICK os : os = objects  OBVIOUS
  <2>2. os \in Seq(ObjectRec)  BY <2>1, ObjectsKnown
  <2> QED  BY <1>6, <1>8, <2>1, <2>2, AppendProperties
<1>10. /\ listed' \in Seq(ListRec) /\ Len(listed') = Len(objects) + 1
       /\ (\A h \in 1..Len(objects) : listed'[h] = listed[h]) /\ listed'[Len(objects) + 1] = l
  <2>1. PICK ls : ls = listed  OBVIOUS
  <2>2. ls \in Seq(ListRec) /\ Len(ls) = Len(objects)  BY <2>1, ObjectsKnown
  <2> QED  BY <1>6, <1>8, <2>1, <2>2, AppendProperties
<1>11. ASSUME NEW h \in 1..Len(objects') PROVE ListedSound(objects'[h].object, listed'[h])
  <2>1. h \in 1..Len(objects) \/ h = Len(objects) + 1  BY <1>9, ObjectsKnown
  <2>2. CASE h \in 1..Len(objects)  BY <1>9, <1>10, <2>2, ObjectsKnown
  <2>3. CASE h = Len(objects) + 1  BY <1>7, <1>9, <1>10, <2>3
  <2> QED  BY <2>1, <2>2, <2>3
<1>12. Len(objects') = Len(listed')  BY <1>9, <1>10
<1> QED  BY <1>2, <1>3, <1>9, <1>10, <1>11, <1>12, ObjectsMove

\* One object, and what was read from it, changes.
LEMMA OneObject ==
    ASSUME FilesInv, UNCHANGED <<boot, nodes, tmpdirs>>, NEW p \in Proc, syscall' = syscall \/ Return(p),
           NEW h \in 1..Len(objects), NEW r \in ObjectRec, NEW l \in ListRec,
           objects' = [objects EXCEPT ![h] = r], listed' = [listed EXCEPT ![h] = l], ListedSound(r.object, l)
    PROVE  FilesInv'
<1>1. boot.pc = "up"  BY Calling, ObjectsKnown
<1>2. /\ objects' \in Seq(ObjectRec) /\ Len(objects') = Len(objects)
      /\ \A j \in 1..Len(objects) : objects'[j] = IF j = h THEN r ELSE objects[j]
  <2>1. PICK os : os = objects  OBVIOUS
  <2>2. os \in Seq(ObjectRec)  BY <2>1, ObjectsKnown
  <2> QED  BY <2>1, <2>2, ExceptSeq
<1>3. /\ listed' \in Seq(ListRec) /\ Len(listed') = Len(objects)
      /\ \A j \in 1..Len(objects) : listed'[j] = IF j = h THEN l ELSE listed[j]
  <2>1. PICK ls : ls = listed  OBVIOUS
  <2>2. ls \in Seq(ListRec) /\ Len(ls) = Len(objects)  BY <2>1, ObjectsKnown
  <2> QED  BY <2>1, <2>2, ExceptSeq
<1>4. ASSUME NEW j \in 1..Len(objects') PROVE ListedSound(objects'[j].object, listed'[j])
  <2>1. j \in 1..Len(objects)  BY <1>2
  <2>2. CASE j = h  BY <1>2, <1>3, <2>1, <2>2
  <2>3. CASE j # h  BY <1>2, <1>3, <2>1, <2>3, ObjectsKnown
  <2> QED  BY <2>2, <2>3
<1> QED  BY <1>1, <1>2, <1>3, <1>4, ObjectsMove

\* A part of an object changes.
LEMMA SameList ==
    ASSUME FilesInv, NEW h \in 1..Len(objects)
    PROVE  [listed EXCEPT ![h] = listed[h]] = listed /\ [objects EXCEPT ![h] = objects[h]] = objects
<1>1. listed \in Seq(ListRec) /\ objects \in Seq(ObjectRec) /\ h \in DOMAIN listed /\ h \in DOMAIN objects
  BY ObjectsKnown
<1> QED  BY <1>1

LEMMA ReadKeeps ==
    ASSUME FilesInv, NEW p \in Proc, sys_read(p)
    PROVE  FilesInv'
<1>1. PICK h \in Secure(p, {"file", "device"}) :
          objects' = IF objects[h].object.kind = "file" THEN [objects EXCEPT ![h].object.pos = 1] ELSE objects
  BY DEF sys_read
<1>2. UNCHANGED <<boot, nodes, tmpdirs, syscall, listed>>  BY DEF sys_read
<1>3. h \in 1..Len(objects) /\ objects[h].object.kind \notin Dirs  BY <1>1, ObjectsKnown DEF Secure, Dirs
<1>4. PICK x, l : x = objects[h] /\ l = listed[h]  OBVIOUS
<1>5. x \in ObjectRec /\ l \in ListRec /\ ListedSound(x.object, l)  BY <1>3, <1>4, ObjectsKnown
<1>6. PICK d : d = x.object  OBVIOUS
<1>7. d \in ObjType /\ d.kind \notin Dirs  BY <1>3, <1>4, <1>5, <1>6 DEF ObjectRec
<1>8. PICK e : e = [d EXCEPT !.pos = 1]  OBVIOUS
<1>9. e \in ObjType /\ e.kind = d.kind /\ e.of = d.of  BY <1>7, <1>8 DEF ObjType
<1>10. PICK r : r = [x EXCEPT !.object = e]  OBVIOUS
<1>11. r \in ObjectRec /\ r.object = e  BY <1>5, <1>9, <1>10 DEF ObjectRec
<1>12. ListedSound(e, l)  BY <1>5, <1>6, <1>7, <1>9 DEF ListedSound
<1>13. listed' = [listed EXCEPT ![h] = l]  BY <1>2, <1>3, <1>4, SameList
<1>14. CASE objects[h].object.kind = "file"
  <2>1. objects' = [objects EXCEPT ![h] = r]  BY <1>1, <1>4, <1>6, <1>8, <1>10, <1>14
  <2> QED  BY <1>2, <1>3, <1>5, <1>11, <1>12, <1>13, <2>1, OneObject
<1>15. CASE objects[h].object.kind # "file"
  <2>1. objects' = [objects EXCEPT ![h] = x]  BY <1>1, <1>3, <1>4, <1>15, SameList
  <2> QED  BY <1>2, <1>3, <1>5, <1>13, <2>1, OneObject
<1> QED  BY <1>14, <1>15

\* read_entry gives the next of the entries, or none.
LEMMA EntryRead ==
    ASSUME NEW d \in ObjType, d.kind \in Dirs, NEW l \in ListRec, ListedSound(d, l), d.pos < Len(d.entries),
           NEW e, e = [d EXCEPT !.pos = d.pos + 1],
           NEW k, k = [l EXCEPT !.seen = Append(l.seen, d.entries[d.pos + 1])]
    PROVE  e \in ObjType /\ k \in ListRec /\ ListedSound(e, k)
<1>1. PICK n, es, all, seen : n = d.pos /\ es = d.entries /\ all = l.all /\ seen = l.seen  OBVIOUS
<1>2. n \in Nat /\ es \in Seq(Name) /\ all \in Seq(Name) /\ seen \in Seq(Name)  BY <1>1 DEF ObjType, ListRec
<1>3. /\ es \in {all, <<>>} /\ Len(seen) = n /\ n <= Len(all) /\ n < Len(es)
      /\ (\A j \in 1..n : seen[j] = all[j]) /\ EntriesLead(d.of, all)
  BY <1>1 DEF ListedSound
<1>4. es = all /\ n + 1 \in 1..Len(all) /\ n + 1 <= Len(all)
  <2>1. Len(<<>>) = 0 /\ ~(n < 0)  BY <1>2
  <2>2. es = all  BY <1>3, <2>1
  <2> QED  BY <1>2, <1>3, <2>2
<1>5. PICK x : x = all[n + 1]  OBVIOUS
<1>6. x \in Name  BY <1>2, <1>4, <1>5, ElementOfSeq
<1>7. PICK more : more = Append(seen, x)  OBVIOUS
<1>8. /\ more \in Seq(Name) /\ Len(more) = n + 1 /\ more[n + 1] = x /\ \A j \in 1..n : more[j] = seen[j]
  BY <1>2, <1>3, <1>6, <1>7, AppendProperties
<1>9. e \in ObjType /\ e.pos = n + 1 /\ e.kind = d.kind /\ e.of = d.of /\ e.entries = all
  <2>1. PICK w \in Nat : w = n + 1  BY <1>2
  <2>2. e = [d EXCEPT !.pos = w]  BY <1>1, <2>1
  <2>3. e \in ObjType /\ e.pos = w /\ e.kind = d.kind /\ e.of = d.of /\ e.entries = d.entries
    BY <2>2 DEF ObjType
  <2> QED  BY <1>1, <1>4, <2>1, <2>3
<1>10. k = [l EXCEPT !.seen = more]  BY <1>1, <1>4, <1>5, <1>7
<1>11. k \in ListRec /\ k.all = all /\ k.seen = more  BY <1>1, <1>8, <1>10 DEF ListRec
<1>12. \A j \in 1..(n + 1) : more[j] = all[j]
  <2>1. \A j \in 1..(n + 1) : j \in 1..n \/ j = n + 1  BY <1>2
  <2> QED  BY <1>3, <1>5, <1>8, <2>1
<1>13. ListedSound(e, k)  BY <1>3, <1>4, <1>8, <1>9, <1>11, <1>12 DEF ListedSound
<1> QED  BY <1>9, <1>11, <1>13

LEMMA ReaddirKeeps ==
    ASSUME FilesInv, NEW p \in Proc, sys_readdir(p)
    PROVE  FilesInv'
<1>1. PICK h \in Secure(p, {"simple", "tar"}) :
          LET d == objects[h].object
              r == read_entry(d)
          IN /\ objects' = [objects EXCEPT ![h].object.pos = r.pos]
             /\ listed' = IF r.some THEN [listed EXCEPT ![h].seen = append(@, at(d.entries, r.entry - 1))]
                          ELSE listed
             /\ syscall' = IF r.some THEN syscall ELSE [syscall EXCEPT ![p].pc = "done"]
  BY DEF sys_readdir
<1>2. UNCHANGED <<boot, nodes, tmpdirs>>  BY DEF sys_readdir
<1>3. h \in 1..Len(objects) /\ objects[h].object.kind \in Dirs  BY <1>1, ObjectsKnown DEF Secure, Dirs
<1>4. PICK x, l : x = objects[h] /\ l = listed[h]  OBVIOUS
<1>5. x \in ObjectRec /\ l \in ListRec /\ ListedSound(x.object, l)  BY <1>3, <1>4, ObjectsKnown
<1>6. PICK d : d = x.object  OBVIOUS
<1>7. d \in ObjType /\ d.kind \in Dirs /\ ListedSound(d, l)  BY <1>3, <1>4, <1>5, <1>6 DEF ObjectRec
<1>8. d.pos \in Nat /\ Len(d.entries) \in Nat  BY <1>7 DEF ObjType
<1>9. CASE d.pos < Len(d.entries)
  <2>1. PICK e : e = [d EXCEPT !.pos = d.pos + 1]  OBVIOUS
  <2>2. PICK y : y = d.entries[d.pos + 1]  OBVIOUS
  <2>3. PICK k : k = [l EXCEPT !.seen = Append(l.seen, y)]  OBVIOUS
  <2>4. e \in ObjType /\ k \in ListRec /\ ListedSound(e, k)  BY <1>5, <1>7, <1>9, <2>1, <2>2, <2>3, EntryRead
  <2>5. PICK r : r = [x EXCEPT !.object = e]  OBVIOUS
  <2>6. r \in ObjectRec /\ r.object = e  BY <1>5, <2>4, <2>5 DEF ObjectRec
  <2>7. /\ objects' = [objects EXCEPT ![h].object.pos = d.pos + 1]
        /\ listed' = [listed EXCEPT ![h].seen = Append(@, d.entries[(d.pos + 1) - 1 + 1])]
        /\ syscall' = syscall
    BY <1>1, <1>4, <1>6, <1>9 DEF read_entry, append, at
  <2>8. objects' = [objects EXCEPT ![h] = r]  BY <1>4, <1>6, <2>1, <2>5, <2>7
  <2>9. listed' = [listed EXCEPT ![h] = k]
    <3>1. (d.pos + 1) - 1 + 1 = d.pos + 1  BY <1>8
    <3> QED  BY <1>4, <2>2, <2>3, <2>7, <3>1
  <2> QED  BY <1>2, <1>3, <2>4, <2>6, <2>7, <2>8, <2>9, OneObject
<1>10. CASE ~(d.pos < Len(d.entries))
  <2>1. /\ objects' = [objects EXCEPT ![h].object.pos = d.pos]
        /\ listed' = listed /\ syscall' = [syscall EXCEPT ![p].pc = "done"]
    BY <1>1, <1>4, <1>6, <1>10 DEF read_entry
  <2>2. objects' = [objects EXCEPT ![h] = x]
    <3>1. [d EXCEPT !.pos = d.pos] = d  BY <1>7 DEF ObjType
    <3>2. [x EXCEPT !.object = d] = x  BY <1>5, <1>6 DEF ObjectRec
    <3>3. objects' = [objects EXCEPT ![h] = [x EXCEPT !.object = [d EXCEPT !.pos = d.pos]]]  BY <1>4, <1>6, <2>1
    <3> QED  BY <3>1, <3>2, <3>3
  <2>3. listed' = [listed EXCEPT ![h] = l]  BY <1>3, <1>4, <2>1, SameList
  <2>4. Return(p)  BY <2>1 DEF Return
  <2> QED  BY <1>2, <1>3, <1>5, <2>2, <2>3, <2>4, OneObject
<1> QED  BY <1>9, <1>10

LEMMA ClosedirKeeps ==
    ASSUME FilesInv, NEW p \in Proc, sys_closedir(p)
    PROVE  FilesInv'
<1>1. PICK h \in Secure(p, {"simple", "tar"}) :
          objects' = IF objects[h].object.kind = "simple"
                     THEN [objects EXCEPT ![h].object.entries = clear(@)] ELSE objects
  BY DEF sys_closedir
<1>2. UNCHANGED <<boot, nodes, tmpdirs, syscall, listed>>  BY DEF sys_closedir
<1>3. h \in 1..Len(objects) /\ objects[h].object.kind \in Dirs  BY <1>1, ObjectsKnown DEF Secure, Dirs
<1>4. PICK x, l : x = objects[h] /\ l = listed[h]  OBVIOUS
<1>5. x \in ObjectRec /\ l \in ListRec /\ ListedSound(x.object, l)  BY <1>3, <1>4, ObjectsKnown
<1>6. PICK d : d = x.object  OBVIOUS
<1>7. d \in ObjType /\ d.kind \in Dirs /\ ListedSound(d, l)  BY <1>3, <1>4, <1>5, <1>6 DEF ObjectRec
<1>8. PICK e : e = [d EXCEPT !.entries = <<>>]  OBVIOUS
<1>9. e \in ObjType /\ e.kind = d.kind /\ e.of = d.of /\ e.pos = d.pos /\ e.entries = <<>>
  <2>1. PICK z \in Seq(Name) : z = <<>>  BY EmptySeq
  <2>2. e = [d EXCEPT !.entries = z]  BY <1>8, <2>1
  <2>3. e \in ObjType /\ e.kind = d.kind /\ e.of = d.of /\ e.pos = d.pos /\ e.entries = z  BY <1>7, <2>2 DEF ObjType
  <2> QED  BY <2>1, <2>3
<1>10. PICK r : r = [x EXCEPT !.object = e]  OBVIOUS
<1>11. r \in ObjectRec /\ r.object = e  BY <1>5, <1>9, <1>10 DEF ObjectRec
<1>12. ListedSound(e, l)  BY <1>7, <1>9 DEF ListedSound
<1>13. listed' = [listed EXCEPT ![h] = l]  BY <1>2, <1>3, <1>4, SameList
<1>14. CASE objects[h].object.kind = "simple"
  <2>1. objects' = [objects EXCEPT ![h] = r]  BY <1>1, <1>4, <1>6, <1>8, <1>10, <1>14 DEF clear
  <2> QED  BY <1>2, <1>3, <1>5, <1>11, <1>12, <1>13, <2>1, OneObject
<1>15. CASE objects[h].object.kind # "simple"
  <2>1. objects' = [objects EXCEPT ![h] = x]  BY <1>1, <1>3, <1>4, <1>15, SameList
  <2> QED  BY <1>2, <1>3, <1>5, <1>13, <2>1, OneObject
<1> QED  BY <1>14, <1>15

LEMMA RefusedKeeps ==
    ASSUME FilesInv, NEW p \in Proc, Refused(p)
    PROVE  FilesInv'
<1>1. Return(p) /\ UNCHANGED <<boot, nodes, tmpdirs, objects, listed>>  BY DEF Refused
<1>2. boot.pc = "up"
  <2>1. CASE Disturbed(p)
    <3>1. PICK q \in Proc : syscall[q].pc = "register"  BY <2>1 DEF Disturbed
    <3> QED  BY <3>1, Calling
  <2>2. CASE \E h \in DOMAIN objects : objects[h].owner # p  BY <2>2, Calling
  <2> QED  BY <2>1, <2>2 DEF Refused
<1> QED  BY <1>1, <1>2, ReturnKeeps

LEMMA DoneKeeps ==
    ASSUME FilesInv, NEW p \in Proc, Done(p)
    PROVE  FilesInv'
<1>1. /\ syscall[p].pc = "done" /\ syscall' = [syscall EXCEPT ![p] = NoCall]
      /\ UNCHANGED <<boot, nodes, tmpdirs, objects, listed>>
  BY DEF Done
<1>2. boot.pc = "up"  BY <1>1, Calling
<1>3. PICK c : c = NoCall  OBVIOUS
<1>4. c \in CallType /\ c.pc = "idle" /\ LookupSound(nodes, BootFs, c)  BY <1>3, NoCallSound
<1> QED  BY <1>1, <1>2, <1>3, <1>4, CallGoesOn

LEMMA FilesStep ==
    ASSUME FilesInv, [FilesNext]_fileVars
    PROVE  FilesInv'
<1>1. CASE UNCHANGED fileVars
  BY <1>1 DEF fileVars, FilesInv, FilesType, FilesSound, BootSound, CallsSound, ObjectsSound, BootFs
<1>2. CASE VfsInit \/ MountRoot \/ MkdirDev \/ MountDev \/ MkdirUsr \/ MountUsr
  BY <1>2, VfsInitKeeps, MountRootKeeps, MkdirDevKeeps, MountDevKeeps, MkdirUsrKeeps, MountUsrKeeps
<1>3. ASSUME NEW p \in Proc, sys_open(p) \/ sys_opendir(p) \/ sys_exec(p) PROVE FilesInv'
  BY <1>3, CallKeeps DEF sys_open, sys_opendir, sys_exec
<1>4. ASSUME NEW p \in Proc, LookupNode(p) \/ AddChild(p) \/ OpenNode(p) \/ register_object(p) \/ Done(p)
      PROVE FilesInv'
  BY <1>4, LookupNodeKeeps, AddChildKeeps, OpenNodeKeeps, RegisterKeeps, DoneKeeps
<1>5. ASSUME NEW p \in Proc, sys_read(p) \/ sys_readdir(p) \/ sys_closedir(p) \/ Refused(p) PROVE FilesInv'
  BY <1>5, ReadKeeps, ReaddirKeeps, ClosedirKeeps, RefusedKeeps
<1> QED  BY <1>1, <1>2, <1>3, <1>4, <1>5 DEF FilesNext

LEMMA FilesAlways ==
    ASSUME BootFsOnDevice
    PROVE  FilesSpec => []FilesInv
<1>1. FilesInit => FilesInv  BY FilesStart
<1>2. FilesInv /\ [FilesNext]_fileVars => FilesInv'  BY FilesStep
<1> QED  BY <1>1, <1>2, PTL DEF FilesSpec

LEMMA InvResolves ==
    ASSUME FilesInv
    PROVE  PathsResolve
<1> SUFFICES ASSUME NEW p \in Proc, syscall[p].pc = "found"
             PROVE  (IF syscall[p].at = 0 THEN None ELSE nodes[syscall[p].at].pn) = Target(syscall[p].path)
  BY DEF PathsResolve
<1>1. boot.pc = "up"  BY Calling
<1>2. PICK c : c = syscall[p]  OBVIOUS
<1>3. c \in CallType /\ LookupSound(nodes, BootFs, c)  BY <1>1, <1>2, Known
<1>4. (IF c.at = 0 THEN None ELSE nodes[c.at].pn) = Goal(BootFs, c.path)  BY <1>2, <1>3 DEF LookupSound
<1>5. PICK path \in PathType : path = c.path  BY <1>3 DEF CallType
<1>6. Target(path) = Goal(BootFs, path)  BY TargetIs
<1> QED  BY <1>2, <1>4, <1>5, <1>6

\* The files that objects are opened at are nodes.
LEMMA InvLists ==
    ASSUME FilesInv
    PROVE  ListingIsExact
<1> SUFFICES ASSUME NEW h \in DOMAIN objects
             PROVE  /\ IsPrefix(listed[h].seen, listed[h].all)
                    /\ \A k \in DOMAIN listed[h].seen : get_child(objects[h].object.of, listed[h].seen[k]) # None
  BY DEF ListingIsExact
<1>1. boot.pc = "up"  BY Calling
<1>2. h \in 1..Len(objects)  BY ObjectsKnown
<1>3. PICK o, all, seen : o = objects[h].object /\ all = listed[h].all /\ seen = listed[h].seen  OBVIOUS
<1>4. o \in ObjType /\ all \in Seq(Name) /\ seen \in Seq(Name) /\ ListedSound(o, listed[h])
  BY <1>2, <1>3, ObjectsKnown DEF ObjectRec, ListRec
<1>5. Len(seen) <= Len(all) /\ (\A k \in 1..Len(seen) : seen[k] = all[k]) /\ EntriesLead(o.of, all)
  <2>1. CASE o.kind \notin Dirs  BY <1>3, <1>4, <2>1 DEF ListedSound
  <2>2. CASE o.kind \in Dirs  BY <1>3, <1>4, <2>2 DEF ListedSound
  <2> QED  BY <2>1, <2>2
<1>6. IsPrefix(seen, all)
  <2>1. Len(seen) \in 0..Len(seen) /\ Len(seen) \in 0..Len(all)  BY <1>4, <1>5
  <2>2. SubSeq(seen, 1, Len(seen)) = [k \in 1..Len(seen) |-> seen[k]]
    BY <1>4, <2>1, SubSeqRestrict DEF Restrict
  <2>3. SubSeq(all, 1, Len(seen)) = [k \in 1..Len(seen) |-> all[k]]
    BY <1>4, <2>1, SubSeqRestrict DEF Restrict
  <2> QED  BY <1>5, <2>2, <2>3 DEF IsPrefix
<1>7. ASSUME NEW k \in DOMAIN seen PROVE get_child(o.of, seen[k]) # None
  <2>1. k \in 1..Len(seen) /\ k \in DOMAIN all  BY <1>4, <1>5
  <2>2. Child(o.of, seen[k]) # None  BY <1>5, <2>1 DEF EntriesLead
  <2>3. tmpdirs = TmpAll  BY <1>1, Known
  <2> QED  BY <2>2, <2>3, ChildIs
<1> QED  BY <1>3, <1>6, <1>7

\* For any processes, paths, devices and boot file system: a path leads every caller of
\* VirtualFilesystem::lookup_node to the node it names, whatever the others add to the
\* nodes between a miss and the addition in VFSNode::get_child.
THEOREM PathsResolveAlways ==
    ASSUME BootFsOnDevice
    PROVE  FilesSpec => []PathsResolve
<1>1. FilesSpec => []FilesInv  BY FilesAlways
<1>2. FilesInv => PathsResolve  BY InvResolves
<1> QED  BY <1>1, <1>2, PTL

\* For any of them: sys_readdir gives the entries of a directory once each and in order,
\* whatever closes it in between, and every one leads from the directory to a node.
THEOREM ListingAlwaysExact ==
    ASSUME BootFsOnDevice
    PROVE  FilesSpec => []ListingIsExact
<1>1. FilesSpec => []FilesInv  BY FilesAlways
<1>2. FilesInv => ListingIsExact  BY InvLists
<1> QED  BY <1>1, <1>2, PTL

----------------------------------------------------------------------------
(* The TAR file system. *)

\* The entry i is in force among the first k.
InForceOf(E, i, k) == E[i].regular /\ \A j \in (i + 1)..k : E[j].regular => E[j].path # E[i].path
\* The tree t is that of the first k entries.
TreeHolds(E, t, k) ==
    /\ \A p \in DOMAIN t : t[p].file => \E i \in 1..k : InForceOf(E, i, k) /\ E[i].path = p
    /\ \A i \in 1..k : InForceOf(E, i, k) =>
          /\ E[i].path \in DOMAIN t /\ t[E[i].path].file
          /\ t[E[i].path].block = E[i].block /\ t[E[i].path].size = E[i].size
    /\ \A p \in DOMAIN t : ~t[p].file =>
          p = <<>> \/ \E i \in 1..k : InForceOf(E, i, k) /\ IsStrictPrefix(p, E[i].path)
\* build_tree has passed some of the entries.
MountInv ==
    /\ archive \in Archives
    /\ \E k \in 0..Len(archive.entries) :
          /\ next = BlockAfter(archive, k) /\ TreeHolds(archive.entries, tree, k)
          /\ mounted => k = Len(archive.entries)
FileInv ==
    /\ DOMAIN file = {"start", "size", "pos", "open"} /\ file.size \in Nat /\ file.pos \in Nat
    /\ DOMAIN io = {"busy", "want", "done", "off", "from", "buffer"}
    /\ io.want \in Nat /\ io.done \in Nat /\ io.off \in Nat
TarInv == MountInv /\ FileInv

LEMMA PrefixesOf ==
    ASSUME NEW S, NEW path \in Seq(S)
    PROVE  path \in Prefixes(path) /\ \A p \in Prefixes(path) : p # path => IsStrictPrefix(p, path)
<1>1. Len(path) \in Nat  BY LenProperties
<1>2. ASSUME NEW l \in 0..Len(path)
      PROVE  SubSeq(path, 1, l) = [k \in 1..l |-> path[k]] /\ SubSeq(path, 1, l) \in Seq(S) /\ Len(SubSeq(path, 1, l)) = l
  <2>1. SubSeq(path, 1, l) = [k \in 1..l |-> path[k]]  BY <1>1, SubSeqRestrict DEF Restrict
  <2>2. \A k \in 1..l : path[k] \in S  BY <1>1, ElementOfSeq
  <2>3. [k \in 1..l |-> path[k]] \in Seq(S) /\ Len([k \in 1..l |-> path[k]]) = l  BY <1>1, <2>2
  <2> QED  BY <2>1, <2>3
<1>3. path \in Prefixes(path)
  <2>1. PICK q : q = SubSeq(path, 1, Len(path))  OBVIOUS
  <2>2. q \in Seq(S) /\ Len(q) = Len(path) /\ \A k \in 1..Len(path) : q[k] = path[k]
    <3>1. Len(path) \in 0..Len(path)  BY <1>1
    <3> QED  BY <1>2, <2>1, <3>1
  <2>3. q = path  BY <2>2, SeqEqual
  <2>4. Len(path) \in 0..Len(path)  BY <1>1
  <2> QED  BY <2>1, <2>3, <2>4 DEF Prefixes
<1>4. ASSUME NEW p \in Prefixes(path), p # path PROVE IsStrictPrefix(p, path)
  <2>1. PICK l \in 0..Len(path) : p = SubSeq(path, 1, l)  BY DEF Prefixes
  <2>2. p \in Seq(S) /\ Len(p) = l /\ p = [k \in 1..l |-> path[k]]  BY <1>2, <2>1
  <2>3. SubSeq(p, 1, Len(p)) = [k \in 1..Len(p) |-> p[k]]
    <3>1. Len(p) \in 0..Len(p)  BY <2>1, <2>2, <1>1
    <3> QED  BY <2>2, <3>1, SubSeqRestrict DEF Restrict
  <2>4. [k \in 1..l |-> p[k]] = [k \in 1..l |-> path[k]]  BY <2>2
  <2>5. SubSeq(p, 1, Len(p)) = SubSeq(path, 1, Len(p)) /\ Len(p) <= Len(path)
    BY <1>1, <2>1, <2>2, <2>3, <2>4
  <2> QED  BY <1>4, <2>5 DEF IsStrictPrefix, IsPrefix
<1> QED  BY <1>3, <1>4

LEMMA InForceNext ==
    ASSUME NEW E, NEW k \in Nat, NEW i \in 1..(k + 1)
    PROVE  InForceOf(E, i, k + 1) <=>
              \/ i = k + 1 /\ E[i].regular
              \/ i \in 1..k /\ InForceOf(E, i, k) /\ (E[k + 1].regular => E[k + 1].path # E[i].path)
<1>1. CASE i = k + 1
  <2>1. (i + 1)..(k + 1) = {} /\ i \notin 1..k  BY <1>1
  <2> QED  BY <1>1, <2>1 DEF InForceOf
<1>2. CASE i # k + 1
  <2>1. i \in 1..k /\ (i + 1)..(k + 1) = (i + 1)..k \cup {k + 1}  BY <1>2
  <2> QED  BY <1>2, <2>1 DEF InForceOf
<1> QED  BY <1>1, <1>2

\* What BuildTreeRecursive does to the nodes.
MadeIn(u, t, path, node) ==
    /\ path \in DOMAIN u /\ u[path] = node /\ DOMAIN t \subseteq DOMAIN u
    /\ \A p \in DOMAIN t : p # path => u[p] = t[p]
    /\ \A p \in DOMAIN u : p # path /\ p \notin DOMAIN t => u[p].file = FALSE /\ IsStrictPrefix(p, path)
LEMMA NodesMade ==
    ASSUME NEW S, NEW path \in Seq(S), path # <<>>, NEW t, NEW node
    PROVE  MadeIn(BuildTreeRecursive(t, path, node), t, path, node)
<1>0. PICK u : u = BuildTreeRecursive(t, path, node)  OBVIOUS
<1> DEFINE made == {p \in Prefixes(path) : p # <<>>} \ DOMAIN t
<1>1. PICK none : none = [size |-> 0, file |-> FALSE, block |-> 0]  OBVIOUS
<1>2. none.file = FALSE  BY <1>1
<1>3. PICK M : M = made  OBVIOUS
<1>4. path \in DOMAIN t \cup M /\ M \cap DOMAIN t = {} /\ \A p \in M : p # path => IsStrictPrefix(p, path)
  <2>1. path \in Prefixes(path) /\ \A p \in Prefixes(path) : p # path => IsStrictPrefix(p, path)  BY PrefixesOf
  <2>2. \A p : p \in M <=> p \in Prefixes(path) /\ p # <<>> /\ p \notin DOMAIN t  BY <1>3
  <2> HIDE DEF made
  <2> QED  BY <2>1, <2>2
<1>5. u = [p \in DOMAIN t \cup M |-> IF p = path THEN node ELSE IF p \in M THEN none ELSE t[p]]
  BY <1>0, <1>1, <1>3 DEF BuildTreeRecursive
<1> HIDE DEF made
<1>6. DOMAIN u = DOMAIN t \cup M  BY <1>5
<1>7. \A p \in DOMAIN t \cup M : u[p] = IF p = path THEN node ELSE IF p \in M THEN none ELSE t[p]  BY <1>5
<1>8. MadeIn(u, t, path, node)  BY <1>2, <1>4, <1>6, <1>7 DEF MadeIn
<1> QED  BY <1>0, <1>8

\* One more entry: its node replaces what was at its path, and makes the parents.
LEMMA OneMoreEntry ==
    ASSUME NEW E, NEW k \in Nat, NEW t, TreeHolds(E, t, k), E[k + 1].regular, NEW S, E[k + 1].path \in Seq(S),
           E[k + 1].path # <<>>, NEW u, NEW node, u = BuildTreeRecursive(t, E[k + 1].path, node),
           node.file = TRUE, node.size = E[k + 1].size, node.block = E[k + 1].block
    PROVE  TreeHolds(E, u, k + 1)
<1>1. PICK path \in Seq(S) : path = E[k + 1].path /\ path # <<>>  OBVIOUS
<1>2. /\ path \in DOMAIN u /\ u[path] = node /\ DOMAIN t \subseteq DOMAIN u
      /\ \A p \in DOMAIN t : p # path => u[p] = t[p]
      /\ \A p \in DOMAIN u : p # path /\ p \notin DOMAIN t => u[p].file = FALSE /\ IsStrictPrefix(p, path)
  <2>1. MadeIn(BuildTreeRecursive(t, path, node), t, path, node)  BY <1>1, NodesMade
  <2>2. MadeIn(u, t, path, node)  BY <1>1, <2>1
  <2> QED  BY <2>2 DEF MadeIn
<1>3. k + 1 \in 1..(k + 1) /\ InForceOf(E, k + 1, k + 1)
  <2>1. k + 1 \in 1..(k + 1) /\ (k + 1 + 1)..(k + 1) = {}  OBVIOUS
  <2> QED  BY <2>1 DEF InForceOf
<1>4. ASSUME NEW i \in 1..k, InForceOf(E, i, k), E[i].path # path PROVE i \in 1..(k + 1) /\ InForceOf(E, i, k + 1)
  <2>1. i \in 1..(k + 1)  OBVIOUS
  <2> QED  BY <1>1, <1>4, <2>1, InForceNext
<1>5. ASSUME NEW p \in DOMAIN u, u[p].file
      PROVE  \E i \in 1..(k + 1) : InForceOf(E, i, k + 1) /\ E[i].path = p
  <2>1. CASE p = path  BY <1>1, <1>3, <2>1
  <2>2. CASE p # path
    <3>1. p \in DOMAIN t /\ t[p].file  BY <1>2, <1>5, <2>2
    <3>2. PICK i \in 1..k : InForceOf(E, i, k) /\ E[i].path = p  BY <3>1 DEF TreeHolds
    <3> QED  BY <1>4, <2>2, <3>2
  <2> QED  BY <2>1, <2>2
<1>6. ASSUME NEW i \in 1..(k + 1), InForceOf(E, i, k + 1)
      PROVE  /\ E[i].path \in DOMAIN u /\ u[E[i].path].file
             /\ u[E[i].path].block = E[i].block /\ u[E[i].path].size = E[i].size
  <2>1. CASE i = k + 1  BY <1>1, <1>2, <2>1
  <2>2. CASE i # k + 1
    <3>1. i \in 1..k /\ InForceOf(E, i, k) /\ E[i].path # path  BY <1>1, <1>6, <2>2, InForceNext
    <3> QED  BY <1>2, <3>1 DEF TreeHolds
  <2> QED  BY <2>1, <2>2
<1>7. ASSUME NEW p \in DOMAIN u, ~u[p].file
      PROVE  p = <<>> \/ \E i \in 1..(k + 1) : InForceOf(E, i, k + 1) /\ IsStrictPrefix(p, E[i].path)
  <2>1. p # path  BY <1>2, <1>7
  <2>2. CASE p \notin DOMAIN t  BY <1>1, <1>2, <1>3, <2>1, <2>2
  <2>3. CASE p \in DOMAIN t
    <3>1. ~t[p].file  BY <1>2, <1>7, <2>1, <2>3
    <3>2. SUFFICES ASSUME p # <<>> PROVE \E i \in 1..(k + 1) : InForceOf(E, i, k + 1) /\ IsStrictPrefix(p, E[i].path)
      OBVIOUS
    <3>3. PICK i \in 1..k : InForceOf(E, i, k) /\ IsStrictPrefix(p, E[i].path)  BY <2>3, <3>1, <3>2 DEF TreeHolds
    <3>4. CASE E[i].path = path  BY <1>1, <1>3, <3>3, <3>4
    <3>5. CASE E[i].path # path  BY <1>4, <3>3, <3>5
    <3> QED  BY <3>4, <3>5
  <2> QED  BY <2>2, <2>3
<1> QED  BY <1>5, <1>6, <1>7 DEF TreeHolds

\* Entries that are not files change nothing.
LEMMA OneEntrySkipped ==
    ASSUME NEW E, NEW k \in Nat, NEW t, TreeHolds(E, t, k), ~E[k + 1].regular
    PROVE  TreeHolds(E, t, k + 1)
<1>1. \A i \in 1..(k + 1) : InForceOf(E, i, k + 1) => i \in 1..k /\ InForceOf(E, i, k)  BY InForceNext
<1>2. \A i \in 1..k : InForceOf(E, i, k) => i \in 1..(k + 1) /\ InForceOf(E, i, k + 1)
  <2>1. \A i \in 1..k : i \in 1..(k + 1)  OBVIOUS
  <2> QED  BY <2>1, InForceNext
<1> QED  BY <1>1, <1>2 DEF TreeHolds

LEMMA PackedEntries ==
    ASSUME ArchivesArePacked, archive \in Archives
    PROVE  /\ Len(archive.entries) \in Nat /\ Len(archive.blocks) \in Nat
           /\ \A i \in 1..Len(archive.entries) :
                 Holds(archive, archive.entries[i]) /\ archive.entries[i].block = BlockAfter(archive, i - 1)
           /\ BlockAfter(archive, Len(archive.entries)) < BlockCount
                 => BlockAt(BlockAfter(archive, Len(archive.entries))) = Zero
<1>1. archive.entries \in Seq(Range(archive.entries)) /\ archive.blocks \in Seq(Range(archive.blocks))
  BY DEF ArchivesArePacked
<1>2. DOMAIN archive.entries = 1..Len(archive.entries) /\ Len(archive.entries) \in Nat /\ Len(archive.blocks) \in Nat
  BY <1>1, LenProperties
<1> QED  BY <1>2 DEF ArchivesArePacked, BlockCount, BlockAt

LEMMA QuotientIs ==
    ASSUME NEW B \in Nat \ {0}, NEW q \in Nat, NEW r \in 0..(B - 1)
    PROVE  (q * B + r) \div B = q
OBVIOUS

LEMMA Division ==
    ASSUME NEW B \in Nat \ {0}, NEW n \in Nat
    PROVE  n \div B \in Nat /\ n % B \in 0..(B - 1) /\ n = (n \div B) * B + (n % B)
OBVIOUS

\* The blocks that build_tree skips are those that the data takes.
LEMMA BlocksCounted ==
    ASSUME NEW n \in Nat
    PROVE  DataBlocks(n) \in Nat /\ DataBlocks(n) = RoundUp(n)
<1>1. PICK B \in Nat \ {0} : B = BlockSize  BY TarAssumption
<1>2. PICK q \in Nat, r \in 0..(B - 1) : q = n \div B /\ r = n % B /\ n = (n \div B) * B + (n % B)  BY Division
<1>3. PICK m \in Nat : m = q * B /\ n = m + r  BY <1>2
<1>4. CASE r = 0
  <2>1. B - 1 \in 0..(B - 1) /\ n + B - 1 = m + (B - 1)  BY <1>3, <1>4
  <2>2. (m + (B - 1)) \div B = q  BY <1>3, <2>1, QuotientIs
  <2>3. (n + B - 1) \div B = q  BY <2>1, <2>2
  <2> QED  BY <1>1, <1>2, <1>4, <2>3 DEF DataBlocks, RoundUp
<1>5. CASE r # 0
  <2>1. (q + 1) * B = m + B  BY <1>3
  <2>2. r - 1 \in 0..(B - 1) /\ n + B - 1 = m + B + (r - 1)  BY <1>3, <1>5
  <2>3. ((q + 1) * B + (r - 1)) \div B = q + 1
    <3>1. q + 1 \in Nat  OBVIOUS
    <3> QED  BY <2>2, <3>1, QuotientIs
  <2>4. (n + B - 1) \div B = q + 1  BY <2>1, <2>2, <2>3
  <2> QED  BY <1>1, <1>2, <1>5, <2>4 DEF DataBlocks, RoundUp
<1> QED  BY <1>4, <1>5

\* A file that is opened has the size that its entry has.
LEMMA OpenedSize ==
    ASSUME ArchivesArePacked, TarInv, mounted, NEW p \in DOMAIN tree, tree[p].file
    PROVE  Octal2ui(BlockAt(tree[p].block).size) \in Nat
<1>1. PICK i \in 1..Len(archive.entries) : InForceOf(archive.entries, i, Len(archive.entries)) /\ archive.entries[i].path = p
  BY DEF TarInv, MountInv, TreeHolds
<1>2. tree[p].block = archive.entries[i].block  BY <1>1 DEF TarInv, MountInv, TreeHolds
<1>3. archive \in Archives  BY DEF TarInv, MountInv
<1>4. Holds(archive, archive.entries[i])  BY <1>3, PackedEntries
<1> QED  BY <1>2, <1>4 DEF Holds, BlockAt

LEMMA MountStep ==
    ASSUME ArchivesArePacked, MountInv, BuildTree
    PROVE  MountInv'
<1> DEFINE E == archive.entries
           header == BlockAt(next)
           size == Octal2ui(header.size)
<1>1. archive \in Archives /\ archive' = archive  BY DEF MountInv, BuildTree
<1>2. PICK k \in 0..Len(E) : next = BlockAfter(archive, k) /\ TreeHolds(E, tree, k) /\ (mounted => k = Len(E))
  BY DEF MountInv
<1>3. /\ Len(E) \in Nat /\ Len(archive.blocks) \in Nat
      /\ \A i \in 1..Len(E) : Holds(archive, E[i]) /\ E[i].block = BlockAfter(archive, i - 1)
      /\ BlockAfter(archive, Len(E)) < BlockCount => BlockAt(BlockAfter(archive, Len(E))) = Zero
  BY <1>1, PackedEntries
<1>4. CASE k = Len(E)
  <2>1. next \in Nat
    <3>1. CASE k = 0  BY <1>2, <3>1 DEF BlockAfter
    <3>2. CASE k # 0
      <4>1. k \in 1..Len(E)  BY <1>3, <3>2
      <4>2. PICK e : e = E[k] /\ e.size \in Nat /\ e.block \in Nat  BY <1>3, <4>1 DEF Holds
      <4>3. RoundUp(e.size) \in Nat  BY <4>2, BlocksCounted
      <4>4. next = e.block + RoundUp(e.size) + 1  BY <1>2, <3>2, <4>2 DEF BlockAfter
      <4> QED  BY <4>2, <4>3, <4>4
    <3> QED  BY <3>1, <3>2
  <2>2. next >= BlockCount \/ (next < BlockCount /\ BlockAt(next) = Zero)
    BY <1>2, <1>3, <1>4, <2>1 DEF BlockCount
  <2>3. mounted' = TRUE /\ UNCHANGED <<tree, next, archive>>  BY <2>2 DEF BuildTree
  <2>4. \E j \in 0..Len(archive'.entries) : next' = BlockAfter(archive', j) /\ TreeHolds(archive'.entries, tree', j)
            /\ (mounted' => j = Len(archive'.entries))
    BY <1>2, <1>4, <2>3
  <2> QED  BY <1>1, <2>4 DEF MountInv
<1>5. CASE k # Len(E)
  <2>1. k \in Nat /\ k + 1 \in 1..Len(E) /\ (k + 1) - 1 = k  BY <1>2, <1>3, <1>5
  <2>2. PICK e : e = E[k + 1]  OBVIOUS
  <2>3. Holds(archive, e) /\ e.block = next
    <3>1. Holds(archive, E[k + 1]) /\ E[k + 1].block = BlockAfter(archive, (k + 1) - 1)  BY <1>3, <2>1
    <3> QED  BY <1>2, <2>1, <2>2, <3>1
  <2>4. next < BlockCount /\ next \in Nat /\ header.path = e.path /\ e.path # <<>> /\ (header.type = 1 <=> e.regular)
        /\ size = e.size /\ e.path \in Seq(Range(e.path))
    BY <1>3, <2>3 DEF Holds, BlockAt, BlockCount
  <2>5. header # Zero
    <3>1. Zero.path = <<>>  BY DEF Zero
    <3> HIDE DEF header
    <3> QED  BY <2>4, <3>1
  <2>6. /\ tree' = IF header.type = 1 THEN BuildTreeRecursive(tree, header.path, [size |-> size, file |-> TRUE, block |-> next])
                   ELSE tree
        /\ next' = next + DataBlocks(size) + 1 /\ mounted' = mounted
    <3>1. ~(next >= BlockCount \/ (next < BlockCount /\ BlockAt(next) = Zero))
      BY <1>3, <2>4, <2>5 DEF BlockCount
    <3> QED  BY <3>1 DEF BuildTree
  <2>7. next' = BlockAfter(archive, k + 1)
    <3>0. DataBlocks(e.size) = RoundUp(e.size)  BY <2>3, BlocksCounted DEF Holds
    <3>1. next' = e.block + RoundUp(e.size) + 1  BY <2>3, <2>4, <2>6, <3>0
    <3>2. k + 1 # 0  BY <2>1
    <3> QED  BY <2>2, <3>1, <3>2 DEF BlockAfter
  <2>8. TreeHolds(E, tree', k + 1)
    <3>1. CASE e.regular
      <4>1. PICK node : node = [size |-> size, file |-> TRUE, block |-> next]  OBVIOUS
      <4>2. node.file = TRUE /\ node.size = e.size /\ node.block = e.block  BY <2>3, <2>4, <4>1
      <4>3. tree' = BuildTreeRecursive(tree, e.path, node)  BY <2>4, <2>6, <3>1, <4>1
      <4> HIDE DEF E
      <4> QED  BY <1>2, <2>1, <2>2, <2>4, <3>1, <4>2, <4>3, OneMoreEntry
    <3>2. CASE ~e.regular
      <4>1. tree' = tree  BY <2>4, <2>6, <3>2
      <4> HIDE DEF E
      <4> QED  BY <1>2, <2>1, <2>2, <3>2, <4>1, OneEntrySkipped
    <3> QED  BY <3>1, <3>2
  <2>9. k + 1 \in 0..Len(E) /\ (mounted' => k + 1 = Len(E))  BY <1>2, <1>3, <1>5, <2>1, <2>6
  <2>10. \E j \in 0..Len(E) : next' = BlockAfter(archive, j) /\ TreeHolds(E, tree', j) /\ (mounted' => j = Len(E))
    BY <2>7, <2>8, <2>9
  <2> QED  BY <1>1, <2>10 DEF MountInv
<1> QED  BY <1>4, <1>5

LEMMA ClampedPosition ==
    ASSUME NEW pos \in Nat, NEW size \in Nat
    PROVE  Clamp(pos, size) \in Nat /\ (size > 0 => Clamp(pos, size) < size)
<1>1. Wrap \in Nat /\ Wrap > 0  BY DEF Wrap
<1>2. (size - 1) % Wrap \in Nat /\ (size > 0 => (size - 1) % Wrap <= size - 1)
  <2>1. (size - 1) % Wrap \in Nat  BY <1>1
  <2>2. ASSUME size > 0 PROVE (size - 1) % Wrap <= size - 1  BY <1>1, <2>2 DEF Wrap
  <2> QED  BY <2>1, <2>2
<1> QED  BY <1>2 DEF Clamp

LEMMA SeekStep ==
    ASSUME FileInv, Seek
    PROVE  /\ file'.pos \in Nat /\ file'.size = file.size /\ DOMAIN file' = DOMAIN file
           /\ file.size > 0 => file'.pos < file'.size
<1>1. PICK offset \in Offsets, base \in {0, file.pos} :
        file' = [file EXCEPT !.pos = Clamp((base + offset) % Wrap, file.size)]
  BY DEF Seek
<1>2. PICK to : to = (base + offset) % Wrap  OBVIOUS
<1>3. to \in Nat
  <2>1. base \in Nat /\ offset \in Nat  BY TarAssumption DEF FileInv
  <2> QED  BY <1>2, <2>1 DEF Wrap
<1>4. PICK pos : pos = Clamp(to, file.size)  OBVIOUS
<1>5. pos \in Nat /\ (file.size > 0 => pos < file.size)  BY <1>3, <1>4, ClampedPosition DEF FileInv
<1>6. file' = [file EXCEPT !.pos = pos]  BY <1>1, <1>2, <1>4
<1>7. DOMAIN file' = DOMAIN file /\ file'.pos = pos /\ file'.size = file.size  BY <1>6 DEF FileInv
<1> QED  BY <1>5, <1>7

LEMMA LeastOfTwo ==
    ASSUME NEW a \in Int, NEW b \in Int
    PROVE  Min({a, b}) \in {a, b}
<1>1. \E x \in {a, b} : \A y \in {a, b} : x <= y  OBVIOUS
<1> QED  BY <1>1 DEF Min

LEMMA TarInitially ==
    ASSUME ArchivesArePacked
    PROVE  TarInit => TarInv
<1> SUFFICES ASSUME TarInit PROVE TarInv  OBVIOUS
<1>1. archive \in Archives  BY DEF TarInit
<1>2. 0 \in 0..Len(archive.entries) /\ next = BlockAfter(archive, 0) /\ mounted = FALSE
  <2>1. Len(archive.entries) \in Nat  BY <1>1, PackedEntries
  <2> QED  BY <2>1 DEF TarInit, BlockAfter
<1>3. TreeHolds(archive.entries, tree, 0)
  <2>1. DOMAIN tree = {<<>>} /\ tree[<<>>].file = FALSE
    <3>1. PICK node : node = [size |-> 0, file |-> FALSE, block |-> 0]  OBVIOUS
    <3>2. tree = [p \in {<<>>} |-> node]  BY <3>1 DEF TarInit
    <3> QED  BY <3>1, <3>2
  <2>2. 1..0 = {}  OBVIOUS
  <2> QED  BY <2>1, <2>2 DEF TreeHolds
<1>4. FileInv  BY DEF TarInit, FileInv, NoFile, NoIo
<1> QED  BY <1>1, <1>2, <1>3, <1>4 DEF TarInv, MountInv

LEMMA MountKept ==
    ASSUME MountInv, UNCHANGED <<archive, next, mounted, tree>>
    PROVE  MountInv'
BY DEF MountInv

LEMMA OpenStep ==
    ASSUME ArchivesArePacked, TarInv, Open
    PROVE  FileInv'
<1>1. PICK p \in DOMAIN tree :
        file' = IF tree[p].file
                THEN [start |-> tree[p].block + 1, size |-> Octal2ui(BlockAt(tree[p].block).size), pos |-> 0, open |-> TRUE]
                ELSE NoFile
  BY DEF Open
<1>2. mounted /\ UNCHANGED io  BY DEF Open
<1>3. DOMAIN file' = {"start", "size", "pos", "open"} /\ file'.size \in Nat /\ file'.pos \in Nat
  <2>1. CASE tree[p].file
    <3>1. PICK size, start : size = Octal2ui(BlockAt(tree[p].block).size) /\ start = tree[p].block + 1  OBVIOUS
    <3>2. size \in Nat  BY <1>2, <2>1, <3>1, OpenedSize
    <3>3. file' = [start |-> start, size |-> size, pos |-> 0, open |-> TRUE]  BY <1>1, <2>1, <3>1
    <3> QED  BY <3>2, <3>3
  <2>2. CASE ~tree[p].file  BY <1>1, <2>2 DEF NoFile
  <2> QED  BY <2>1, <2>2
<1> QED  BY <1>2, <1>3 DEF TarInv, FileInv

LEMMA ReadStep ==
    ASSUME FileInv, Read
    PROVE  FileInv'
<1>1. PICK size \in ReadSizes :
        io' = IF file.pos >= file.size
              THEN [NoIo EXCEPT !.from = file.pos, !.want = size]
              ELSE [busy |-> TRUE, want |-> size, done |-> 0, off |-> file.pos, from |-> file.pos,
                    buffer |-> [i \in 1..size |-> Junk]]
  BY DEF Read
<1>2. size \in Nat /\ file.pos \in Nat /\ UNCHANGED file  BY TarAssumption DEF FileInv, Read
<1>3. PICK buffer : buffer = [i \in 1..size |-> Junk]  OBVIOUS
<1>4. /\ DOMAIN io' = {"busy", "want", "done", "off", "from", "buffer"}
      /\ io'.want \in Nat /\ io'.done \in Nat /\ io'.off \in Nat
  <2>1. CASE file.pos >= file.size
    <3>1. io' = [NoIo EXCEPT !.from = file.pos, !.want = size]  BY <1>1, <2>1
    <3> QED  BY <1>2, <3>1 DEF NoIo
  <2>2. CASE ~(file.pos >= file.size)
    <3>1. io' = [busy |-> TRUE, want |-> size, done |-> 0, off |-> file.pos, from |-> file.pos, buffer |-> buffer]
      BY <1>1, <1>3, <2>2
    <3> QED  BY <1>2, <3>1
  <2> QED  BY <2>1, <2>2
<1> QED  BY <1>2, <1>4 DEF FileInv

LEMMA PreadStep ==
    ASSUME FileInv, Pread
    PROVE  FileInv'
<1>1. CASE io.done >= io.want \/ file.start + io.off \div BlockSize >= BlockCount
  <2>1. io' = [io EXCEPT !.busy = FALSE] /\ file' = [file EXCEPT !.pos = @ + io.done]  BY <1>1 DEF Pread
  <2>2. PICK pos : pos = file.pos + io.done /\ pos \in Nat  BY DEF FileInv
  <2>3. file' = [file EXCEPT !.pos = pos]  BY <2>1, <2>2
  <2>4. DOMAIN file' = DOMAIN file /\ file'.size = file.size /\ file'.pos = pos  BY <2>3 DEF FileInv
  <2>5. DOMAIN io' = DOMAIN io /\ io'.want = io.want /\ io'.done = io.done /\ io'.off = io.off  BY <2>1 DEF FileInv
  <2> QED  BY <2>2, <2>4, <2>5 DEF FileInv
<1>2. CASE ~(io.done >= io.want \/ file.start + io.off \div BlockSize >= BlockCount)
  <2> DEFINE n == Min({BlockSize - (io.off % BlockSize), io.want - io.done})
             block == file.start + io.off \div BlockSize
  <2>1. io' = [io EXCEPT !.buffer = [i \in DOMAIN @ |-> IF i \in (io.done + 1)..(io.done + n) THEN Junk
                                                      ELSE IF i <= BlockSize THEN <<block, i - 1>> ELSE @[i]],
                        !.done = @ + n, !.off = @ + n]
        /\ file' = file
    BY <1>2 DEF Pread
  <2>2. n \in Nat
    <3>0. BlockSize \in Nat \ {0} /\ io.off \in Nat /\ io.want \in Nat /\ io.done \in Nat /\ ~(io.done >= io.want)
      BY <1>2, TarAssumption DEF FileInv
    <3>1. PICK rest : rest = io.off % BlockSize /\ rest \in 0..(BlockSize - 1)
      <4>1. io.off % BlockSize \in 0..(BlockSize - 1)  BY <3>0, Division
      <4> QED  BY <4>1
    <3>a. BlockSize - rest \in Nat  BY <3>0, <3>1
    <3>b. io.want - io.done \in Nat  BY <3>0
    <3>2. PICK a, b : a = BlockSize - (io.off % BlockSize) /\ b = io.want - io.done /\ a \in Nat /\ b \in Nat
      BY <3>1, <3>a, <3>b
    <3>3. n \in {a, b}
      <4>1. Min({a, b}) \in {a, b}  BY <3>2, LeastOfTwo
      <4> QED  BY <3>2, <4>1
    <3> QED  BY <3>2, <3>3
  <2>3. PICK buffer : buffer = [i \in DOMAIN io.buffer |-> IF i \in (io.done + 1)..(io.done + n) THEN Junk
                                                         ELSE IF i <= BlockSize THEN <<block, i - 1>> ELSE io.buffer[i]]
    OBVIOUS
  <2>4. PICK done, off : done = io.done + n /\ off = io.off + n  OBVIOUS
  <2>5. io' = [io EXCEPT !.buffer = buffer, !.done = done, !.off = off]  BY <2>1, <2>3, <2>4
  <2> HIDE DEF n
  <2>6. done \in Nat /\ off \in Nat  BY <2>2, <2>4 DEF FileInv
  <2>7. DOMAIN io' = DOMAIN io /\ io'.want = io.want /\ io'.done = done /\ io'.off = off  BY <2>5 DEF FileInv
  <2> QED  BY <2>1, <2>6, <2>7 DEF FileInv
<1> QED  BY <1>1, <1>2

LEMMA TarSteps ==
    ASSUME ArchivesArePacked, TarInv, [TarNext]_tarVars
    PROVE  TarInv'
<1> USE DEF TarInv
<1>1. CASE BuildTree
  <2>1. FileInv'  BY <1>1 DEF BuildTree, FileInv
  <2> QED  BY <1>1, <2>1, MountStep
<1>2. CASE Open
  <2>1. MountInv'  BY <1>2, MountKept DEF Open
  <2> QED  BY <1>2, <2>1, OpenStep
<1>3. CASE Close
  <2>1. MountInv'  BY <1>3, MountKept DEF Close
  <2>2. FileInv'  BY <1>3 DEF Close, FileInv, NoFile, NoIo
  <2> QED  BY <2>1, <2>2
<1>4. CASE Seek
  <2>1. MountInv'  BY <1>4, MountKept DEF Seek
  <2>2. UNCHANGED io  BY <1>4 DEF Seek
  <2>3. FileInv'  BY <1>4, <2>2, SeekStep DEF FileInv
  <2> QED  BY <2>1, <2>3
<1>5. CASE Read
  <2>1. MountInv'  BY <1>5, MountKept DEF Read
  <2> QED  BY <1>5, <2>1, ReadStep
<1>6. CASE Pread
  <2>1. MountInv'  BY <1>6, MountKept DEF Pread
  <2> QED  BY <1>6, <2>1, PreadStep
<1>7. CASE UNCHANGED tarVars
  <2>1. MountInv'  BY <1>7, MountKept DEF tarVars
  <2>2. FileInv'  BY <1>7 DEF tarVars, FileInv
  <2> QED  BY <2>1, <2>2
<1> QED  BY <1>1, <1>2, <1>3, <1>4, <1>5, <1>6, <1>7 DEF TarNext

LEMMA TarAlways ==
    ASSUME ArchivesArePacked
    PROVE  TarSpec => []TarInv
<1>1. TarInit => TarInv  BY TarInitially
<1>2. TarInv /\ [TarNext]_tarVars => TarInv'  BY TarSteps
<1> QED  BY <1>1, <1>2, PTL DEF TarSpec

LEMMA TreeOfAll ==
    ASSUME ArchivesArePacked, TarInv
    PROVE  TreeMatchesArchive
<1> SUFFICES ASSUME mounted PROVE TreeMatchesArchive  BY DEF TreeMatchesArchive
<1>1. PICK k : k = Len(archive.entries)  OBVIOUS
<1>2. PICK E : E = archive.entries  OBVIOUS
<1>3. TreeHolds(E, tree, k)  BY <1>1, <1>2 DEF TarInv, MountInv
<1>4. DOMAIN E = 1..k /\ k \in Nat
  <2>1. archive \in Archives  BY DEF TarInv, MountInv
  <2>2. E \in Seq(Range(E))  BY <1>2, <2>1 DEF ArchivesArePacked
  <2> QED  BY <1>1, <1>2, <2>2, LenProperties
<1>5. \A i \in 1..k : InForce(i) <=> InForceOf(E, i, k)
  <2> TAKE i \in 1..k
  <2>1. \A j : j \in DOMAIN E /\ j > i <=> j \in (i + 1)..k  BY <1>4
  <2> QED  BY <1>2, <2>1 DEF InForce, InForceOf
<1>6. {p \in DOMAIN tree : tree[p].file} = {E[i].path : i \in {j \in DOMAIN E : InForce(j)}}
  BY <1>3, <1>4, <1>5 DEF TreeHolds
<1>7. \A i \in DOMAIN E : InForce(i) => tree[E[i].path].block = E[i].block /\ tree[E[i].path].size = E[i].size
  BY <1>3, <1>4, <1>5 DEF TreeHolds
<1>8. \A p \in DOMAIN tree : ~tree[p].file =>
        p = <<>> \/ \E i \in DOMAIN E : InForce(i) /\ IsStrictPrefix(p, E[i].path)
  BY <1>3, <1>4, <1>5 DEF TreeHolds
<1> QED  BY <1>2, <1>6, <1>7, <1>8 DEF TreeMatchesArchive

\* For any packed archive and any size of blocks: TarFS::build_tree gives every regular entry
\* its node, with the block and the size of the last header of its name, makes the parents of
\* these and nothing else, and takes no data for a header.
THEOREM TreeAlwaysMatches ==
    ASSUME ArchivesArePacked
    PROVE  TarSpec => []TreeMatchesArchive
<1>1. TarSpec => []TarInv  BY TarAlways
<1>2. TarInv => TreeMatchesArchive  BY TreeOfAll
<1> QED  BY <1>1, <1>2, PTL

\* TarFSFile::seek leaves the position inside a file that has a byte, for any offsets.
THEOREM SeekAlwaysInFile ==
    ASSUME ArchivesArePacked
    PROVE  TarSpec => SeekStaysInNonemptyFile
<1> DEFINE Inside == file.open /\ file'.open /\ file.size > 0 /\ io' = io /\ ~io.busy => file'.pos < file'.size
<1>1. TarSpec => []TarInv  BY TarAlways
<1>2. ASSUME TarInv, [TarNext]_tarVars PROVE [Inside]_file
  <2>1. CASE Seek
    <3>1. FileInv  BY <1>2 DEF TarInv
    <3> QED  BY <2>1, <3>1, SeekStep
  <2>2. CASE Open  BY <2>2 DEF Open
  <2>3. CASE Close  BY <2>3 DEF Close, NoFile
  <2>4. CASE Pread  BY <2>4 DEF Pread
  <2>5. CASE UNCHANGED file  BY <2>5
  <2> QED  BY <1>2, <2>1, <2>2, <2>3, <2>4, <2>5 DEF TarNext, tarVars, BuildTree, Read
<1>3. TarSpec => [][Inside]_file
  <2>1. TarInv /\ [TarNext]_tarVars => [Inside]_file  BY <1>2
  <2> HIDE DEF Inside
  <2> QED  BY <1>1, <2>1, PTL DEF TarSpec
<1> QED  BY <1>3 DEF SeekStaysInNonemptyFile
=============================================================================
