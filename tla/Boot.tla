-------------------------------- MODULE Boot --------------------------------
(***************************************************************************)
(* Start-up of the kernel: the first page tables (start32.S), the order of   *)
(* initialisation (start.cpp), the descriptor tables (dt.cpp), the memory    *)
(* map and the page descriptors (mm.cpp, page-allocator.cpp), the kernel's   *)
(* page tables, ACPI (acpi.cpp), the platform's devices (devices.cpp), then  *)
(* the probing of DeviceTree and the boot device (kernel.cpp).  A step that  *)
(* fails ends in early_abort or arch_abort.                                  *)
(*                                                                         *)
(* A page table is the mapping it makes, from indices of three levels to a   *)
(* large page; addresses of the memory map are in halves of a page.          *)
(***************************************************************************)
EXTENDS DeviceTree

CONSTANTS
    Firmwares,      \* what the loader and the firmware leave: memory map, ACPI, modules
    TableSize,      \* 512: the entries of a table
    MaxBlocks,      \* 16: the memory blocks kept
    BootTables,     \* 6: the pages of the first tables, which are 1..BootTables
    Image, Stack,   \* the pages of the kernel and of its stack
    HeapStart, PerPage,     \* where the page descriptors begin, and how many fill a page
    KernelTables    \* 16: the pages of the kernel's tables

Entry == [base : Nat, len : Nat, type : {"available", "reserved", "nvs"}]
AcpiTable == [valid : BOOLEAN, madt : BOOLEAN, records : Seq(Nat)]
IsFirmware(f) ==
    /\ f.map \in Seq(Entry) /\ f.tables \in Seq(AcpiTable)
    /\ f.modules \in Nat /\ f.algorithm \in BOOLEAN /\ f.apic \in BOOLEAN

ASSUME BootAssumption ==
    /\ TableSize \in Nat /\ TableSize >= 4 /\ BootTables \in Nat /\ HeapStart \in Nat
    /\ PerPage \in Nat \ {0} /\ KernelTables \in Nat \ {0}
    /\ \A f \in Firmwares : IsFirmware(f)

\* Available memory begins on a page.
MemoryIsAligned ==
    \A f \in Firmwares : \A k \in DOMAIN f.map : f.map[k].type = "available" => f.map[k].base % 2 = 0

Index == 0..(TableSize - 1)
Absent == -1

VARIABLES
    stage,          \* the next step, "running", or "aborted"
    cause,          \* history: what the abort was for
    firmware,       \* the firmware there is
    pgt,            \* the mapping in use: <<i4, i3, i2>> -> large page
    gdt,            \* the descriptors, in order
    mem,            \* blocks of memory, and the types of pages
    acpi            \* where parsing is, and the address of the I/O APIC found

bootVars == <<stage, cause, firmware, pgt, gdt, mem, acpi, treeVars>>
Rest == UNCHANGED <<Machine, firmware>>

BootInit ==
    /\ TreeInit /\ firmware \in Firmwares /\ stage = "start32" /\ cause = "none"
    /\ pgt = [i \in Index \X Index \X Index |-> i[3]] /\ gdt = <<>>
    /\ mem = [k |-> 1, blocks |-> <<>>, page |-> <<>>, tables |-> {}]
    /\ acpi = [table |-> 1, record |-> 1, ioapic |-> 0]

GoOn(s) == stage' = s /\ UNCHANGED cause
Abort(why) == stage' = "aborted" /\ cause' = why
Unless(failure, why, next) == IF failure THEN Abort(why) ELSE GoOn(next)
KeepTree == UNCHANGED <<device, names, calls, answer>>

----------------------------------------------------------------------------
(* Page tables. *)

High == TableSize - 1
KernelMapping(i) == (i[2] - (TableSize - 2)) * TableSize + i[3]

\* start32.S: 2 MB where they are, and 2 GB at the top.  The last table is not zeroed and
\* gets only the low halves of its entries: the high halves stay what they were.
Start32 ==
    /\ stage = "start32" /\ GoOn("fixup")
    /\ \E left \in {0, 1} :
          pgt' = [i \in DOMAIN pgt |->
                    CASE i = <<0, 0, 0>> -> 0
                      [] i[1] = High /\ i[2] = TableSize - 2 -> KernelMapping(i)
                      [] i[1] = High /\ i[2] = TableSize - 1 -> KernelMapping(i) + left * 1000
                      [] OTHER -> Absent]
    /\ KeepTree /\ UNCHANGED <<gdt, mem, acpi>> /\ Rest

\* x86_init_top up to early_init.
Fixup ==
    /\ stage = "fixup" /\ GoOn("platform")
    /\ pgt' = [i \in DOMAIN pgt |-> IF i[1] = 0 THEN Absent ELSE pgt[i]]
    /\ KeepTree /\ UNCHANGED <<gdt, mem, acpi>> /\ Rest

\* reinitialise_pgt: the kernel's 2 GB and 4 GB of physical memory.
NewTables ==
    [i \in DOMAIN pgt |->
        CASE i[1] = High /\ i[2] >= TableSize - 2 -> KernelMapping(i)
          [] i[1] = TableSize \div 2 /\ i[2] < 4 -> i[2] * TableSize + i[3]
          [] OTHER -> Absent]

----------------------------------------------------------------------------
(* Descriptors: the bits from a first one up, without addresses and limits. *)

From(first, bits) == [b \in first..(first + Len(bits) - 1) |-> bits[b - first + 1]]
data_segment(dpl) == From(40, <<0, 1, 0, 0, 1, dpl % 2, dpl \div 2, 1, 0, 0, 0, 0, 0, 0, 1, 0>>)
code_segment(dpl) == From(40, <<0, 1, 0, 1, 1, dpl % 2, dpl \div 2, 1, 0, 0, 0, 0, 0, 1, 0, 0>>)
tss_low == From(40, <<1, 0, 0, 1, 0, 0, 0, 1, 0, 0, 0, 0, 0, 0, 1, 0>>)
null == From(40, [b \in 1..16 |-> 0])
tss_high == null
interrupt_gate(dpl) == From(32, <<0, 0, 0, 0, 0, 0, 0, 0, 0, 1, 1, 1, 0, dpl % 2, dpl \div 2, 1>>)

\* GDT::init, and TSS::init with selector 0x28.
Platform ==
    /\ stage = "platform" /\ GoOn("memory")
    /\ gdt' = <<null, code_segment(0), data_segment(0), code_segment(3), data_segment(3), tss_low, tss_high>>
    /\ KeepTree /\ UNCHANGED <<pgt, mem, acpi>> /\ Rest

\* What a selector names.
Selected(sel) == gdt[(sel \div 8) + 1]

----------------------------------------------------------------------------
(* Memory: mm_init and add_physical_memory, initialise_allocators, PageAllocator::init. *)

\* An entry of the loader's map becomes a block unless it is too small, of another type,
\* or there are too many.
Kept(e) == e.len >= 2 /\ e.type \in {"available", "reserved"} /\ Len(mem.blocks) < MaxBlocks
AddBlock ==
    LET e == firmware.map[mem.k] IN
    /\ stage = "memory" /\ mem.k <= Len(firmware.map)
    /\ mem' = [mem EXCEPT !.k = @ + 1,
                 !.blocks = IF ~Kept(e) THEN @
                            ELSE Append(@, [base |-> e.base \div 2, pages |-> e.len \div 2, normal |-> e.type = "available"])]
    /\ UNCHANGED <<stage, cause, pgt, gdt, acpi>> /\ KeepTree /\ Rest

PagesOf(b) == b.base..(b.base + b.pages - 1)
BlockSet == {mem.blocks[k] : k \in DOMAIN mem.blocks}
NormalPages == UNION {PagesOf(b) : b \in {c \in BlockSet : c.normal}}
\* _last_pfn: the greatest page of normal memory, 0 without any.
last_pfn == CHOOSE p \in NormalPages \cup {0} : \A q \in NormalPages : q <= p
DescriptorPages == HeapStart..(HeapStart + (last_pfn + 1) \div PerPage)

\* Variant: the page after the last whole page of descriptors is not counted.
MarkedShort == {0} \cup (1..BootTables) \cup Image \cup Stack \cup (HeapStart..(HeapStart + (last_pfn + 1) \div PerPage - 1))
\* What mark_page_range takes away.
Marked == {0} \cup (1..BootTables) \cup Image \cup Stack \cup DescriptorPages

lookup_phys_block(p) == \E b \in BlockSet : p \in PagesOf(b)

\* The algorithm is the one named on the command line.  The kernel's page tables are the
\* first pages allocated: an aligned run of available pages.
InitPages ==
    LET free == NormalPages \ Marked IN
    /\ stage = "memory" /\ mem.k > Len(firmware.map)
    /\ \/ /\ ~firmware.algorithm \/ ~lookup_phys_block(HeapStart)
          /\ Abort("memory") /\ UNCHANGED <<mem, pgt>>
       \/ /\ firmware.algorithm /\ lookup_phys_block(HeapStart)
          /\ \E p \in {q \in free : q % KernelTables = 0 /\ q..(q + KernelTables - 1) \subseteq free} :
                mem' = [mem EXCEPT !.page = [q \in 0..last_pfn |-> q \in free \ (p..(p + KernelTables - 1))],
                                   !.tables = p..(p + KernelTables - 1)]
          /\ pgt' = NewTables /\ GoOn("acpi")
    /\ KeepTree /\ UNCHANGED <<gdt, acpi>> /\ Rest

----------------------------------------------------------------------------
(* ACPI.  (init_irq comes before it, and cannot fail.) *)

\* locate_rsdp: the first area that has the signature, whatever its checksum.
rsdp == IF firmware.ebda # "none" THEN firmware.ebda ELSE firmware.bios
\* acpi_init and acpi_parse up to its loop.
LocateTables ==
    /\ stage = "acpi" /\ Unless(rsdp # "good", "acpi", "tables")
    /\ KeepTree /\ UNCHANGED <<pgt, gdt, mem, acpi>> /\ Rest

Table == firmware.tables[acpi.table]
\* The next record of an MADT; a second I/O APIC fails an assertion.
ParseRecord ==
    /\ stage = "tables" /\ acpi.table <= Len(firmware.tables)
    /\ Table.valid /\ Table.madt /\ acpi.record <= Len(Table.records)
    /\ LET r == Table.records[acpi.record] IN
       /\ Unless(r # 0 /\ acpi.ioapic # 0, "acpi", "tables")
       /\ acpi' = [acpi EXCEPT !.record = @ + 1, !.ioapic = IF r # 0 /\ @ = 0 THEN r ELSE @]
    /\ KeepTree /\ UNCHANGED <<pgt, gdt, mem>> /\ Rest
\* The next table: after its records, or at once if it is not an MADT or not valid.
ParseTable ==
    /\ stage = "tables"
    /\ \/ /\ acpi.table <= Len(firmware.tables)
          /\ Table.valid /\ Table.madt => acpi.record > Len(Table.records)
          /\ acpi' = [acpi EXCEPT !.table = @ + 1, !.record = 1] /\ GoOn("tables")
       \/ acpi.table > Len(firmware.tables) /\ GoOn("modules") /\ UNCHANGED acpi
    /\ KeepTree /\ UNCHANGED <<pgt, gdt, mem>> /\ Rest

----------------------------------------------------------------------------
(* Modules, the platform's devices, the scheduler, the kernel's own thread. *)

\* modules_init: LoadModule fails for every module.
InitModules ==
    /\ stage = "modules" /\ Unless(firmware.modules > 0, "modules", "timer")
    /\ KeepTree /\ UNCHANGED <<pgt, gdt, mem, acpi>> /\ Rest

\* The devices of timer_init and console_init, with the classes their init looks up.
PlatformDevices ==
    [timer |-> <<[class |-> "lapic", needs |-> {}], [class |-> "ioapic", needs |-> {}], [class |-> "pit", needs |-> {}],
                 [class |-> "lapic-timer", needs |-> {"lapic", "pit"}]>>,
     console |-> <<[class |-> "vga", needs |-> {}], [class |-> "kbd", needs |-> {"ioapic"}], [class |-> "tty", needs |-> {}],
                   [class |-> "tty", needs |-> {}], [class |-> "vc", needs |-> {}], [class |-> "vc", needs |-> {}]>>]
AfterDevices == [timer |-> "sched", console |-> "activate"]

Done(s) == Cardinality({d \in DOMAIN device : device[d].hw = s})
\* The next device of a stage; the first terminal is also called console.
RegisterPlatform(s) ==
    LET next == PlatformDevices[s][Done(s) + 1] IN
    /\ stage = s /\ Done(s) < Len(PlatformDevices[s])
    /\ IF s = "timer" /\ ~firmware.apic THEN Abort("apic") /\ KeepTree
       ELSE IF \E c \in next.needs : ~try_get_device_by_class(c) THEN Abort("missing device") /\ KeepTree
       ELSE /\ GoOn(IF Done(s) + 1 = Len(PlatformDevices[s]) THEN AfterDevices[s] ELSE s)
            /\ RegisterPlain(next.class, s, 0, IF next.class = "tty" /\ acquire_instance("tty") = 0 THEN {<<"console">>} ELSE {})
            /\ UNCHANGED <<calls, answer>>
    /\ UNCHANGED <<pgt, gdt, mem, acpi>> /\ Rest

\* sched_init and Kernel::start, up to the kernel's thread.
InitScheduler ==
    /\ stage = "sched" /\ Unless(~firmware.algorithm, "scheduler", "console")
    /\ KeepTree /\ UNCHANGED <<pgt, gdt, mem, acpi>> /\ Rest

\* activate_console.
ActivateConsole ==
    /\ stage = "activate"
    /\ Unless(\/ \E c \in {"vga", "kbd"} : ~try_get_device_by_class(c)
              \/ \E n \in {"vc", "tty"} \X {0, 1} : ~try_get_device_by_name(n), "missing device", "devices")
    /\ KeepTree /\ UNCHANGED <<pgt, gdt, mem, acpi>> /\ Rest

\* devices_init: bus 0 is probed, then the drivers that need no probing are registered.
ProbeBus ==
    /\ stage = "devices" /\ GoOn("probing")
    /\ calls' = <<[kind |-> "bus", hw |-> 0, dev |-> 0, at |-> 0, fn |-> 0, ok |-> TRUE]>>
    /\ UNCHANGED <<device, names, answer, pgt, gdt, mem, acpi>> /\ Rest
Probe == stage = "probing" /\ TreeStep /\ Rest /\ UNCHANGED <<stage, cause, pgt, gdt, mem, acpi>>
ProbedBus ==
    /\ stage = "probing" /\ calls = <<>>
    /\ Unless(answer = "no", "devices", "kernel")
    /\ IF answer = "no" THEN UNCHANGED <<device, names>> ELSE RegisterPlain("rtc", "extra", 0, {})
    /\ UNCHANGED <<calls, answer, pgt, gdt, mem, acpi>> /\ Rest

\* start_kernel_threadproc as far as the boot device.
StartKernel ==
    /\ stage = "kernel" /\ Unless(~try_get_device_by_name(firmware.boot), "boot device", "running")
    /\ KeepTree /\ UNCHANGED <<pgt, gdt, mem, acpi>> /\ Rest

BootNext ==
    \/ Start32 \/ Fixup \/ Platform \/ AddBlock \/ InitPages \/ LocateTables \/ ParseRecord \/ ParseTable
    \/ InitModules \/ (\E s \in DOMAIN AfterDevices : RegisterPlatform(s)) \/ InitScheduler \/ ActivateConsole
    \/ ProbeBus \/ Probe \/ ProbedBus \/ StartKernel

BootSpec == BootInit /\ [][BootNext]_bootVars

----------------------------------------------------------------------------
Early == {"start32", "fixup", "platform", "memory"}
PastMemory == stage \notin Early /\ cause # "memory"

\* The kernel's code stays where it is mapped while the tables change under it; the user
\* half is empty when processes copy the tables; physical memory is mapped in order.
KernelStaysMapped ==
    /\ stage # "start32" => \A j \in Index : pgt[<<High, TableSize - 2, j>>] = j
    /\ stage \notin {"start32", "fixup"} => \A i \in DOMAIN pgt : i[1] < TableSize \div 2 => pgt[i] = Absent
    /\ PastMemory => \A j \in Index : /\ pgt[<<High, High, j>>] = TableSize + j
                                      /\ \A g \in 0..3 : pgt[<<TableSize \div 2, g, j>>] = g * TableSize + j

\* The pages to be allocated lie wholly in memory that the loader's map says is available,
\* and outside the kernel, its stack, its tables and the page descriptors.
HasPage(e, p) == e.base <= 2 * p /\ 2 * p + 2 <= e.base + e.len
FreePagesAreFree ==
    PastMemory => \A p \in DOMAIN mem.page : mem.page[p] =>
        /\ \E k \in DOMAIN firmware.map : firmware.map[k].type = "available" /\ HasPage(firmware.map[k], p)
        /\ p \notin Image \cup Stack \cup (0..BootTables) \cup mem.tables
        /\ p < HeapStart \/ (p - HeapStart) * PerPage > last_pfn

\* The processor's reading of a descriptor: its ring, and what it is of.
Ring(d) == d[45] + 2 * d[46]
IsCode(d) == d[43] = 1 /\ d[44] = 1 /\ d[47] = 1 /\ d[53] = 1 /\ d[54] = 0
IsData(d) == d[41] = 1 /\ d[42] = 0 /\ d[43] = 0 /\ d[44] = 1 /\ d[47] = 1
IsTaskState(d) == d[40] = 1 /\ d[41] = 0 /\ d[42] = 0 /\ d[43] = 1 /\ d[44] = 0 /\ d[47] = 1
IsInterruptGate(d) == d[40] = 0 /\ d[41] = 1 /\ d[42] = 1 /\ d[43] = 1 /\ d[44] = 0 /\ d[47] = 1

\* The selectors in the code name the segments it means, in the ring they ask for: 0x08 and
\* 0x1b code, 0x10 and 0x23 data, 0x28 the task state; gates are interrupt gates.
SelectorsAreRight ==
    gdt # <<>> =>
        /\ \A s \in {8, 27} : IsCode(Selected(s)) /\ Ring(Selected(s)) = s % 8
        /\ \A s \in {16, 35} : IsData(Selected(s)) /\ Ring(Selected(s)) = s % 8
        /\ IsTaskState(Selected(40))
        /\ \A dpl \in {0, 3} : IsInterruptGate(interrupt_gate(dpl)) /\ Ring(interrupt_gate(dpl)) = dpl

\* The records of I/O APICs: table and place in it.
Madts == {t \in DOMAIN firmware.tables : firmware.tables[t].valid /\ firmware.tables[t].madt}
IoApics == UNION {{t} \X {r \in DOMAIN firmware.tables[t].records : firmware.tables[t].records[r] # 0} : t \in Madts}

\* The kernel runs only on a machine that has what it needs: one I/O APIC, whose address
\* it has, no module, and a boot device that is found; and no step asks for a device that
\* an earlier step should have registered.
StartsWhenItCan ==
    /\ cause # "missing device"
    /\ stage = "running" =>
          /\ firmware.algorithm /\ firmware.apic /\ firmware.modules = 0 /\ Cardinality(IoApics) <= 1
          /\ \A x \in IoApics : acpi.ioapic = firmware.tables[x[1]].records[x[2]]
    /\ stage \in {"kernel", "running"} => ProbingIsComplete

\* Start-up keeps the kernel mapped, describes its segments as the code uses them, and hands
\* out only free memory.
StartIsSound == KernelStaysMapped /\ FreePagesAreFree /\ SelectorsAreRight
\* Probing finds the disks, by their names, and nothing is missing when it is needed.
DevicesAreFound == NamesLead /\ StartsWhenItCan
=============================================================================
