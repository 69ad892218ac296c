---------------------------- MODULE ProcessImage ----------------------------
(***************************************************************************)
(* The memory of user processes: ElfLoader::load behind sys_exec            *)
(* (infos/fs/exec/elf-loader.cpp, infos/kernel/kernel.cpp), the page tables *)
(* of a VMA (infos/mm/vma.cpp), and the stacks that sys_create_thread maps  *)
(* (infos/kernel/syscall.cpp, infos/kernel/thread.cpp) at an address made   *)
(* from the handle that the object manager gives out.                       *)
(*                                                                         *)
(* Every process is loaded by a task of its own, and when it runs its       *)
(* Creators create threads; all of them interleave, since nothing but the   *)
(* page allocator holds a lock.  An address counts cells, of which a page   *)
(* holds PageSize; a table has as many entries, and one level of tables     *)
(* below the root stands for three.                                         *)
(***************************************************************************)
EXTENDS Integers, Sequences, FiniteSets, FiniteSetsExt

CONSTANTS
    PageSize,       \* cells of a page, and entries of a table
    NrFrames,       \* page frames
    NrPages,        \* user pages that are looked at
    Procs,          \* the processes that are launched, 1..n
    Creators,       \* how many threads of a process create threads
    Launches,       \* which executables, with which command lines, are launched together
    StackPage,      \* 0x100000
    ArgsPage,       \* 0x102000
    ThreadStacks,   \* 0x7fff00000000
    MaxHandle,      \* bound: no more handles than this are given out
    HandleWrap      \* 2^19: 0x2000 * h is computed in 32 bits

StackPages == 2

ASSUME ImageAssumption ==
    /\ PageSize \in Nat \ {0, 1} /\ NrFrames \in Nat \ {0}
    /\ NrPages \in 1..(PageSize * PageSize)
    /\ Procs \subseteq Nat \ {0} /\ Creators \in Nat
    /\ \A l \in Launches : DOMAIN l = Procs
    /\ MaxHandle \in Nat \ {0} /\ HandleWrap \in Nat \ {0}
    /\ StackPage \in Nat /\ StackPage + StackPages <= ArgsPage /\ ArgsPage < ThreadStacks
    /\ {ArgsPage, ThreadStacks} \subseteq Nat /\ ThreadStacks + StackPages * (MaxHandle + 1) < NrPages
\* Arithmetic that the provers do not know: 2 ^ n is not less than n.
ASSUME PowerAssumption ==
    2 ^ 0 = 1 /\ 2 ^ 1 = 2 /\ \A n \in 0..NrPages : 2 ^ n \in Nat \ {0} /\ n <= 2 ^ n

Frame == 0..(NrFrames - 1)
Offset == 0..(PageSize - 1)
Page == 0..(NrPages - 1)
Task == Procs \X (0..Creators)
None == -1

\* What a cell holds: a cell of an entry of an executable (0 is the command
\* line), zero, what the frame's last user left there, or a page table entry.
Data(p, s, i) == <<p, s, i>>
Zero == <<0, 0, 0>>
Junk == <<0, 0, 1>>
Entry(f) == <<-1, f, 0>>
IsEntry(c) == c[1] = -1

VARIABLES
    image,          \* the executable of each process
    avail,          \* the free frames
    mem,            \* the contents of the frames
    root,           \* VMA::_pgt_virt_base
    held,           \* VMA::_page_allocations
    task,           \* where each task is, and its locals
    nextHandle,     \* ObjectManager::_next_handle
    threads,        \* the process and the handle of each thread started
    halted          \* the page allocator has dereferenced a NULL

vars == <<image, avail, mem, root, held, task, nextHandle, threads, halted>>

\* pc: the next statement.  allocate_virt maps left pages from page va to frame
\* pa on, and goes on at ret.  seg: the program header entry.  h: the handle.
Locals == [pc : {"idle", "header", "vma", "kstack", "entry", "phys", "map", "table",
                 "copy", "args", "copyargs", "start", "handle", "started",
                 "running", "refused"},
           va : Page, pa : Frame \cup {None}, left : Nat, seg : Nat,
           ret : {"idle", "copy", "args", "copyargs", "started"}, h : 0..MaxHandle]

TypeOK ==
    /\ image \in Launches
    /\ avail \subseteq Frame
    /\ DOMAIN mem = Frame /\ \A f \in Frame : DOMAIN mem[f] = Offset
    /\ root \in [Procs -> Frame \cup {None}]
    /\ held \in [Procs -> SUBSET Frame]
    /\ task \in [Task -> Locals]
    /\ nextHandle \in 1..(MaxHandle + 1)
    /\ threads \subseteq Procs \X (1..MaxHandle)
    /\ halted \in BOOLEAN

Init ==
    /\ image \in Launches
    /\ avail = Frame
    /\ mem = [f \in Frame |-> [o \in Offset |-> Junk]]
    /\ root = [p \in Procs |-> None]
    /\ held = [p \in Procs |-> {}]
    /\ task = [t \in Task |-> [pc |-> IF t[2] = 0 THEN "header" ELSE "idle", va |-> 0,
                               pa |-> None, left |-> 0, seg |-> 0, ret |-> "idle", h |-> 0]]
    /\ nextHandle = 1 /\ threads = {} /\ halted = FALSE

----------------------------------------------------------------------------
(* The page allocator, as any VMA uses it. *)

Block(f, order) == f..(f + 2 ^ order - 1)
Fits(order) == {f \in Frame : Block(f, order) \subseteq avail}
FirstFit(f, order) == f \in Fits(order) /\ \A g \in Fits(order) : f <= g

\* Variant: the remainder of the division is lost.
OrderFloor(n) == Max({o \in 0..n : 2 ^ o <= n})

\* __log2ceil.
Order(n) == Min({o \in 0..n : 2 ^ o >= n})

\* The memory with cells, a function on 0..(n - 1), stored from base on.
Written(base, cells) ==
    [f \in Frame |-> [o \in Offset |->
        LET i == f * PageSize + o - base
        IN  IF i \in DOMAIN cells THEN cells[i] ELSE mem[f][o]]]

\* Variant: only the first page is taken off the free pages.
AllocateFirst(p, order, f) ==
    /\ FirstFit(f, order)
    /\ avail' = avail \ {f}
    /\ held' = [held EXCEPT ![p] = @ \cup Block(f, order)]
    /\ mem' = Written(f * PageSize, [i \in 0..(2 ^ order * PageSize - 1) |-> Zero])

\* VMA::allocate_phys gives process p the block of frame f, filled with zeros.
AllocatePhys(p, order, f) ==
    /\ FirstFit(f, order)
    /\ avail' = avail \ Block(f, order)
    /\ held' = [held EXCEPT ![p] = @ \cup Block(f, order)]
    /\ mem' = Written(f * PageSize, [i \in 0..(2 ^ order * PageSize - 1) |-> Zero])

----------------------------------------------------------------------------
(* The page tables. *)

\* The entry of the root for page v, and that of the table it points to.
RootEntry(p, v) == IF root[p] = None THEN Zero ELSE mem[root[p]][v \div PageSize]
LeafEntry(p, v) == IF IsEntry(RootEntry(p, v)) THEN mem[RootEntry(p, v)[2]][v % PageSize]
                                               ELSE Zero

IsMapped(p, v) == IsEntry(LeafEntry(p, v))
FrameOf(p, v) == LeafEntry(p, v)[2]

\* VMA::get_mapping: the physical address of virtual address va.
GetMapping(p, va) == FrameOf(p, va \div PageSize) * PageSize + (va % PageSize)

At(t, l) == task[t].pc = l /\ ~halted
Goto(t, l) == task' = [task EXCEPT ![t].pc = l]

\* VMA::allocate_virt of n pages from page v on.
AllocateVirt(t, v, n, return) ==
    task' = [task EXCEPT ![t].pc = IF n = 0 THEN return ELSE "phys",
                         ![t].va = v, ![t].left = n, ![t].ret = return]

Blocks(t) ==
    /\ At(t, "phys")
    /\ \E f \in Frame :
          /\ AllocatePhys(t[1], Order(task[t].left), f)
          /\ task' = [task EXCEPT ![t].pc = "map", ![t].pa = f,
                                  ![t].left = 2 ^ Order(task[t].left)]
    /\ UNCHANGED <<image, root, nextHandle, threads, halted>>

\* VMA::insert_mapping finds no table for the page; it allocates one.
MissTable(t) ==
    /\ At(t, "map") /\ ~IsEntry(RootEntry(t[1], task[t].va))
    /\ Goto(t, "table")
    /\ UNCHANGED <<image, avail, mem, root, held, nextHandle, threads, halted>>

MakeTable(t) ==
    /\ At(t, "table")
    /\ \E f \in Frame :
          /\ FirstFit(f, 0)
          /\ avail' = avail \ {f} /\ held' = [held EXCEPT ![t[1]] = @ \cup {f}]
          /\ mem' = [mem EXCEPT ![f] = [o \in Offset |-> Zero],
                                ![root[t[1]]][task[t].va \div PageSize] = Entry(f)]
    /\ Goto(t, "map")
    /\ UNCHANGED <<image, root, nextHandle, threads, halted>>

\* The rest of insert_mapping, and the next turn of allocate_virt's loop.
MapPage(t) ==
    /\ At(t, "map") /\ IsEntry(RootEntry(t[1], task[t].va))
    /\ mem' = [mem EXCEPT ![RootEntry(t[1], task[t].va)[2]][task[t].va % PageSize] =
                               Entry(task[t].pa)]
    /\ task' = [task EXCEPT ![t].pc = IF task[t].left = 1 THEN task[t].ret ELSE "map",
                            ![t].va = @ + 1, ![t].left = @ - 1,
                            ![t].pa = IF task[t].left = 1 THEN None ELSE @ + 1]
    /\ UNCHANGED <<image, avail, root, held, nextHandle, threads, halted>>

----------------------------------------------------------------------------
(* sys_exec. *)

Loader(p) == <<p, 0>>

\* launch_process and ElfLoader::load check the header.
ReadHeader(p) ==
    /\ At(Loader(p), "header")
    /\ Goto(Loader(p), IF image[p].header THEN "vma" ELSE "refused")
    /\ UNCHANGED <<image, avail, mem, root, held, nextHandle, threads, halted>>

\* The constructor of the process: the root of its page tables...
MakeVMA(p) ==
    /\ At(Loader(p), "vma")
    /\ \E f \in Frame : AllocatePhys(p, 0, f) /\ root' = [root EXCEPT ![p] = f]
    /\ Goto(Loader(p), "kstack")
    /\ UNCHANGED <<image, nextHandle, threads, halted>>

\* ...and the kernel stack of its main thread.
MainThread(p) ==
    /\ At(Loader(p), "kstack")
    /\ \E f \in Frame : AllocatePhys(p, 1, f)
    /\ task' = [task EXCEPT ![Loader(p)].pc = "entry", ![Loader(p)].seg = 1]
    /\ UNCHANGED <<image, root, nextHandle, threads, halted>>

Ent(p) == image[p].entries[task[Loader(p)].seg]
PagesOf(n) == (n + PageSize - 1) \div PageSize

\* The program header entries, of which a truncated file holds only some.
SkipEntry(p) ==
    /\ At(Loader(p), "entry") /\ task[Loader(p)].seg <= image[p].readable
    /\ ~Ent(p).load
    /\ task' = [task EXCEPT ![Loader(p)].seg = @ + 1]
    /\ UNCHANGED <<image, avail, mem, root, held, nextHandle, threads, halted>>

LoadEntry(p) ==
    /\ At(Loader(p), "entry") /\ task[Loader(p)].seg <= image[p].readable
    /\ Ent(p).load
    /\ IF IsMapped(p, Ent(p).vaddr \div PageSize) THEN Goto(Loader(p), "copy")
       ELSE AllocateVirt(Loader(p), Ent(p).vaddr \div PageSize, PagesOf(Ent(p).memsz), "copy")
    /\ UNCHANGED <<image, avail, mem, root, held, nextHandle, threads, halted>>

\* pread of an entry fails and the process is deleted.  ~VMA releases nothing.
Truncated(p) ==
    /\ At(Loader(p), "entry")
    /\ task[Loader(p)].seg \in (image[p].readable + 1)..Len(image[p].entries)
    /\ Goto(Loader(p), "refused")
    /\ UNCHANGED <<image, avail, mem, root, held, nextHandle, threads, halted>>

\* VMA::copy_to translates the first address only.
CopySegment(p) ==
    /\ At(Loader(p), "copy")
    /\ mem' = IF IsMapped(p, Ent(p).vaddr \div PageSize)
              THEN Written(GetMapping(p, Ent(p).vaddr),
                           [i \in 0..(Ent(p).filesz - 1) |-> Data(p, task[Loader(p)].seg, i)])
              ELSE mem
    /\ task' = [task EXCEPT ![Loader(p)].pc = "entry", ![Loader(p)].seg = @ + 1]
    /\ UNCHANGED <<image, avail, root, held, nextHandle, threads, halted>>

MainStack(p) ==
    /\ At(Loader(p), "entry") /\ task[Loader(p)].seg > Len(image[p].entries)
    /\ AllocateVirt(Loader(p), StackPage, StackPages, "args")
    /\ UNCHANGED <<image, avail, mem, root, held, nextHandle, threads, halted>>

MapArgs(p) ==
    /\ At(Loader(p), "args")
    /\ IF image[p].args = 0 THEN Goto(Loader(p), "start")
       ELSE AllocateVirt(Loader(p), ArgsPage, 1, "copyargs")
    /\ UNCHANGED <<image, avail, mem, root, held, nextHandle, threads, halted>>

CopyArgs(p) ==
    /\ At(Loader(p), "copyargs")
    /\ mem' = Written(GetMapping(p, ArgsPage * PageSize),
                      [i \in 0..(image[p].args - 1) |-> Data(p, 0, i)])
    /\ Goto(Loader(p), "start")
    /\ UNCHANGED <<image, avail, root, held, nextHandle, threads, halted>>

\* Process::start, after which register_object gives the process a handle.
Start(p) ==
    /\ At(Loader(p), "start") /\ nextHandle <= MaxHandle
    /\ Goto(Loader(p), "running") /\ nextHandle' = nextHandle + 1
    /\ UNCHANGED <<image, avail, mem, root, held, threads, halted>>

----------------------------------------------------------------------------
(* sys_create_thread. *)

\* The constructor of the thread allocates its kernel stack.
MayCreate(t) ==
    /\ t[2] # 0 /\ At(t, "idle") /\ task[Loader(t[1])].pc = "running"
    /\ nextHandle + Cardinality({u \in Task : task[u].pc = "handle"}) <= MaxHandle

CreateThread(t) ==
    /\ MayCreate(t)
    /\ \E f \in Frame : AllocatePhys(t[1], 1, f)
    /\ Goto(t, "handle")
    /\ UNCHANGED <<image, root, nextHandle, threads, halted>>

\* Variant: the stacks are one page apart.
StackOfHalf(h) == ThreadStacks + (h % HandleWrap)

\* The first page of the stack of the thread with handle h.
StackOf(h) == ThreadStacks + StackPages * (h % HandleWrap)

RegisterThread(t) ==
    /\ At(t, "handle") /\ nextHandle <= MaxHandle
    /\ nextHandle' = nextHandle + 1
    /\ task' = [task EXCEPT ![t].pc = "phys", ![t].va = StackOf(nextHandle),
                            ![t].left = StackPages, ![t].ret = "started",
                            ![t].h = nextHandle]
    /\ UNCHANGED <<image, avail, mem, root, held, threads, halted>>

StartThread(t) ==
    /\ At(t, "started")
    /\ threads' = threads \cup {<<t[1], task[t].h>>}
    /\ Goto(t, "idle")
    /\ UNCHANGED <<image, avail, mem, root, held, nextHandle, halted>>

----------------------------------------------------------------------------
\* A task asks for a block that is not there: the page allocator goes on with NULL.
Request(t) == CASE task[t].pc \in {"vma", "table"} -> 0
                [] task[t].pc = "phys" -> Order(task[t].left)
                [] task[t].pc = "kstack" \/ MayCreate(t) -> 1
                [] OTHER -> None

OutOfMemory(t) ==
    /\ ~halted /\ Request(t) # None /\ Fits(Request(t)) = {}
    /\ halted' = TRUE
    /\ UNCHANGED <<image, avail, mem, root, held, task, nextHandle, threads>>

\* Every process runs or was refused, and the bound on the handles is reached; or
\* the kernel is dead.
Rest ==
    /\ halted \/ \A p \in Procs : task[Loader(p)].pc \in {"running", "refused", "start"}
    /\ UNCHANGED vars

Exec(p) ==
    \/ ReadHeader(p) \/ MakeVMA(p) \/ MainThread(p) \/ SkipEntry(p) \/ LoadEntry(p)
    \/ Truncated(p) \/ CopySegment(p) \/ MainStack(p) \/ MapArgs(p) \/ CopyArgs(p) \/ Start(p)

Next ==
    \/ \E p \in Procs : Exec(p)
    \/ \E t \in Task :
          Blocks(t) \/ MissTable(t) \/ MakeTable(t) \/ MapPage(t)
          \/ CreateThread(t) \/ RegisterThread(t) \/ StartThread(t) \/ OutOfMemory(t)
    \/ Rest

Spec == Init /\ [][Next]_vars

----------------------------------------------------------------------------
(* Properties. *)

\* What a process reads at a virtual address.
Read(p, va) == mem[GetMapping(p, va) \div PageSize][GetMapping(p, va) % PageSize]

Running(p) == task[Loader(p)].pc = "running"

\* A running process finds every loadable entry of its executable where the entry
\* says, zeros behind it up to its size in memory, its command line with a zero
\* behind it, and a stack; whatever else is loaded or created in the meantime.
ImageIsLoaded ==
    \A p \in Procs : Running(p) =>
        /\ \A s \in DOMAIN image[p].entries :
              LET e == image[p].entries[s]
              IN  e.load => \A i \in 0..(e.memsz - 1) :
                    /\ IsMapped(p, (e.vaddr + i) \div PageSize)
                    /\ Read(p, e.vaddr + i) = IF i < e.filesz THEN Data(p, s, i) ELSE Zero
        /\ \A v \in StackPage..(StackPage + StackPages - 1) : IsMapped(p, v)
        /\ image[p].args # 0 =>
              /\ IsMapped(p, ArgsPage)
              /\ \A i \in 0..image[p].args :
                    Read(p, ArgsPage * PageSize + i) = IF i < image[p].args THEN Data(p, 0, i)
                                                                            ELSE Zero

\* The stack of a thread that was started is mapped.
ThreadsHaveStacks ==
    \A th \in threads : \A v \in StackOf(th[2])..(StackOf(th[2]) + StackPages - 1) :
        IsMapped(th[1], v)

\* What sys_exec and create_thread leave lets the program start: its image, its command line
\* and a stack for each thread are in its address space.
ProgramsStart == TypeOK /\ ImageIsLoaded /\ ThreadsHaveStacks

\* A page that is mapped stays mapped to the same frame: no segment, stack or table
\* of a later call takes the place of an earlier one.
MappingsStay ==
    [][\A p \in Procs : \A v \in Page :
          IsMapped(p, v) => IsMapped(p, v)' /\ FrameOf(p, v)' = FrameOf(p, v)]_vars

Tables(p) == {root[p]} \cup {RootEntry(p, v)[2] : v \in {w \in Page : IsEntry(RootEntry(p, w))}}

\* No two pages, of one process or of two, share a frame; no page is backed by a
\* free frame or by a page table, or by one its process did not allocate; and no
\* frame was allocated to two processes.
MemoryIsPrivate ==
    LET mapped == {x \in Procs \X Page : IsMapped(x[1], x[2])}
    IN  /\ \A x \in mapped : FrameOf(x[1], x[2]) \in held[x[1]] \ (Tables(x[1]) \cup avail)
        /\ Cardinality({FrameOf(x[1], x[2]) : x \in mapped}) = Cardinality(mapped)
        /\ \A p, q \in Procs : p # q => held[p] \cap held[q] = {}

\* A process that could not be loaded holds no memory.
RefusedHoldNothing ==
    \A p \in Procs : task[Loader(p)].pc = "refused" => held[p] \subseteq avail

----------------------------------------------------------------------------
(* Executables for which the properties hold: as a linker makes them. *)

FirstPage(e) == e.vaddr \div PageSize
Rounded(n) == 2 ^ Order(n)
Takes(e) == e.load /\ e.memsz > 0
\* The pages of an entry, and those that allocate_virt maps for it.
Extent(e) == FirstPage(e)..(FirstPage(e) + PagesOf(e.memsz) - 1)
Region(e) == FirstPage(e)..(FirstPage(e) + Rounded(PagesOf(e.memsz)) - 1)

Executables == [header : BOOLEAN, readable : Nat, args : Nat,
               entries : Seq([load : BOOLEAN, vaddr : Nat, filesz : Nat, memsz : Nat])]

\* An entry begins on a page, and lies between or above the main stack and the command line.
EntryFits(e) ==
    /\ e.vaddr % PageSize = 0 /\ e.filesz <= e.memsz
    /\ FirstPage(e) \in Page /\ FirstPage(e) + PagesOf(e.memsz) <= NrPages
    /\ e.memsz > 0 =>
          /\ \A v \in Region(e) : v + 1 \in Page /\ v < ThreadStacks + StackPages
          /\ \A v \in Region(e) : v # ArgsPage /\ v \notin StackPage..(StackPage + StackPages - 1)

\* An entry lies in pages mapped for an earlier one, or apart from them, and their cells are others.
EntriesAgree(d, e) ==
    /\ Region(d) \cap Region(e) = {} \/ Extent(e) \subseteq Region(d)
    /\ d.vaddr + d.memsz <= e.vaddr \/ e.vaddr + e.memsz <= d.vaddr

ExecutableFits(x) ==
    /\ x \in Executables /\ x.readable <= Len(x.entries) /\ x.args < PageSize
    /\ \A s \in DOMAIN x.entries : x.entries[s].load => EntryFits(x.entries[s])
    /\ \A s, t \in DOMAIN x.entries :
          s < t /\ Takes(x.entries[s]) /\ Takes(x.entries[t]) => EntriesAgree(x.entries[s], x.entries[t])

\* What the theorems assume: executables as a linker makes them, one thread of a process that
\* creates threads, and handles that do not wrap.
ImagesFit ==
    /\ \A l \in Launches : \A p \in Procs : ExecutableFits(l[p])
    /\ Creators <= 1
    /\ MaxHandle < HandleWrap
=============================================================================
