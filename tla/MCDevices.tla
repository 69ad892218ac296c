------------------------------ MODULE MCDevices ------------------------------
(* The drivers and the clocks on small hardware: a behaviour is of one part, which Init chooses. *)
EXTENDS Disk, Interrupts, Boot, Clock, Accounting, TLC

VARIABLE part

\* A read is of the disk itself or of a partition that begins at block 2; a count is
\* below, at and above what the register holds.
SomeRequests ==
    {[op |-> "read", drive |-> "master", first |-> 2, offset |-> 1, count |-> 2],
     [op |-> "read", drive |-> "slave", first |-> 0, offset |-> 6, count |-> 1],
     [op |-> "read", drive |-> "slave", first |-> 0, offset |-> 0, count |-> 5],
     [op |-> "read", drive |-> "master", first |-> 0, offset |-> 0, count |-> 4],
     [op |-> "write", drive |-> "master", first |-> 2, offset |-> 0, count |-> 1]}

Bridge(sub, multi) == [class |-> "bridge", sub |-> sub, multi |-> multi]
BehindBridge(header, bus) == [class |-> "bridge", sub |-> "pci-to-pci", multi |-> FALSE, header |-> header, bus |-> bus]
Other(class) == [class |-> class, multi |-> TRUE]
Storage(sub, irq, drives, entries) ==
    [class |-> "storage", sub |-> sub, multi |-> FALSE, irq |-> irq, drive |-> drives, table |-> entries]
OnBus(bus, nodes) == [n \in 0..Len(nodes) |-> IF n = 0 THEN [class |-> "bus", bus |-> bus] ELSE nodes[n]]

\* A PC; one with a failing disk and a second controller behind a bridge; one with nothing
\* at function 0; and machines of which a device fails or is not supported.
SomeMachines ==
    {OnBus((<<0, 0>> :> 1) @@ (<<1, 0>> :> 2) @@ (<<1, 1>> :> 3),
           <<Bridge("host", FALSE), Bridge("isa", TRUE), Storage("ide", TRUE, <<"table", "absent", "blank">>, <<1, 0>>)>>),
     OnBus((<<0, 0>> :> 1) @@ (<<1, 0>> :> 2),
           <<Storage("ide", TRUE, <<"no lba", "table", "error">>, <<0, 1>>),
             BehindBridge(TRUE, (<<0, 0>> :> 3) @@ (<<1, 0>> :> 4)), Other("plain"),
             Storage("ide", TRUE, <<"unreadable", "absent", "table">>, <<1, 1>>)>>),
     OnBus((<<0, 1>> :> 1) @@ (<<1, 0>> :> 2),
           <<Storage("ide", TRUE, <<"table", "absent", "absent">>, <<1, 0>>), Storage("sata", TRUE, <<>>, <<>>)>>),
     OnBus((<<0, 0>> :> 1) @@ (<<1, 0>> :> 2), <<BehindBridge(FALSE, <<>>), Other("unsupported")>>),
     OnBus((<<0, 0>> :> 1), <<Storage("ide", FALSE, <<"table", "absent", "absent">>, <<1, 0>>)>>),
     OnBus((<<1, 0>> :> 1), <<Storage("raid", TRUE, <<>>, <<>>)>>)}

Region(base, len, type) == [base |-> base, len |-> len, type |-> type]
MemoryMap(last) == <<Region(0, 9, "available"), Region(9, 3, "reserved"), Region(12, last, "available")>>
Madt(records) == [valid |-> TRUE, madt |-> TRUE, records |-> records]
PC == [map |-> MemoryMap(36), algorithm |-> TRUE, ebda |-> "none", bios |-> "good", modules |-> 0, apic |-> TRUE,
       tables |-> <<Madt(<<0, 7>>)>>, boot |-> <<"ata", 0, 0>>]
\* An ordinary PC, and machines that differ from it in a respect each.
SomeFirmwares ==
    {PC, [PC EXCEPT !.map = MemoryMap(38)],
     [PC EXCEPT !.map = <<Region(0, 1, "available")>> \o MemoryMap(37) \o <<Region(60, 8, "available")>>],
     [PC EXCEPT !.map = <<Region(0, 9, "available"), Region(20, 30, "nvs")>>],
     [PC EXCEPT !.algorithm = FALSE], [PC EXCEPT !.ebda = "bad"], [PC EXCEPT !.bios = "none"],
     [PC EXCEPT !.tables = <<[Madt(<<5>>) EXCEPT !.valid = FALSE], [Madt(<<6>>) EXCEPT !.madt = FALSE], Madt(<<7, 0>>)>>],
     [PC EXCEPT !.tables = <<Madt(<<7>>), Madt(<<8>>)>>], [PC EXCEPT !.tables = <<>>],
     [PC EXCEPT !.modules = 1], [PC EXCEPT !.apic = FALSE], [PC EXCEPT !.boot = <<"ata", 1, 1>>]}

Moment(h, m, s) == [seconds |-> s, minutes |-> m, hours |-> h, day |-> 14, month |-> 11, year |-> 2021]

\* Hours on both sides of noon, of midnight and of each digit of a register, around the carries.
AroundTheClock ==
    {Moment(h, m, s) : h \in {0, 9, 12, 20}, m \in {9}, s \in {0, 58}}
        \cup {Moment(11, 59, 58), Moment(12, 9, 59), Moment(19, 59, 58), Moment(23, 59, 58), Moment(23, 58, 59)}

TwentyFourHours == [bcd : BOOLEAN, twelve : {FALSE}, century : BOOLEAN]

\* The machines and the memory maps are as the theorems on start-up need them.
ASSUME OrdinaryMachines == MachinesConform /\ MemoryIsAligned

allVars == <<diskVars, irqVars, bootVars, clockVars, accountVars, part>>

DevicesInit ==
    /\ part \in {"disk", "interrupts", "boot", "clock", "accounting"}
    /\ DiskInit /\ InterruptInit /\ BootInit /\ ClockInit /\ AccountInit
    /\ part # "boot" => firmware = PC /\ Machine = CHOOSE m \in Machines : TRUE
    /\ part # "clock" => now = Moment(0, 9, 0) /\ mode = CHOOSE m \in Modes : TRUE

Others(p) ==
    /\ part = p /\ UNCHANGED part
    /\ p # "disk" => UNCHANGED diskVars
    /\ p # "interrupts" => UNCHANGED irqVars
    /\ p # "boot" => UNCHANGED bootVars
    /\ p # "clock" => UNCHANGED clockVars
    /\ p # "accounting" => UNCHANGED accountVars

DevicesNext ==
    \/ DiskNext /\ Others("disk")
    \/ InterruptNext /\ Others("interrupts")
    \/ BootNext /\ Others("boot")
    \/ ClockNext /\ Others("clock")
    \/ AccountNext /\ Others("accounting")

DevicesSpec == DevicesInit /\ [][DevicesNext]_allVars /\ DiskFairness /\ InterruptFairness
=============================================================================
