----------------------------- MODULE DeviceTree -----------------------------
(***************************************************************************)
(* The device manager (infos/kernel/device-manager.cpp) and the probing that *)
(* fills it: PCI buses and bridges, IDE controllers, disks and partitions.  *)
(* register_device calls the init of the device, which registers the devices *)
(* behind it, so the calls in progress are a stack.  One thread does all of  *)
(* this.  A name is a class with an instance number, or the name of a disk   *)
(* with the index of a partition; equal hashes of different names are left  *)
(* out.                                                                      *)
(***************************************************************************)
EXTENDS Integers, Sequences, FiniteSets

CONSTANTS
    Machines,       \* hardware: node -> what the drivers read from it; node 0 is PCI bus 0
    Slots, Funcs,   \* 32 and 8: the slots of a bus and the functions of a slot
    Drives,         \* 4: the drives of a controller, two on each channel
    Entries         \* 4: the entries of a partition table

\* PCI bus 0 and the buses behind the bridges to PCI.
Buses(m) == {n \in DOMAIN m : n = 0 \/ (m[n].class = "bridge" /\ m[n].sub = "pci-to-pci" /\ m[n].header)}
IdeControllers(m) == {n \in DOMAIN m : m[n].class = "storage" /\ m[n].sub = "ide"}

\* What the drivers may read from a machine: functions of a bus are nodes, drives are in
\* one of the states that identification tells apart.
IsMachine(m) ==
    /\ 0 \in DOMAIN m /\ m[0].class = "bus"
    /\ \A n \in Buses(m) : \A x \in DOMAIN m[n].bus :
          x \in (0..(Slots - 1)) \X (0..(Funcs - 1)) /\ m[n].bus[x] \in DOMAIN m \ {0}
    /\ \A n \in IdeControllers(m) : \A k \in 1..Drives :
          m[n].drive[k] \in {"absent", "error", "no lba", "unreadable", "blank", "table"}

ASSUME TreeAssumption ==
    /\ Slots \in Nat /\ Funcs \in Nat \ {0} /\ Drives \in Nat /\ Entries \in Nat
    /\ \A m \in Machines : IsMachine(m)

\* Machines as the PCI standard has them: a slot with a function other than 0 says so in
\* function 0, if that is there, and every node is behind bus 0.
MachinesConform ==
    \A m \in Machines :
        /\ \A n \in Buses(m) : \A x \in DOMAIN m[n].bus :
              x[2] # 0 /\ <<x[1], 0>> \in DOMAIN m[n].bus => m[m[n].bus[<<x[1], 0>>]].multi
        /\ \A S \in SUBSET DOMAIN m :
              0 \in S /\ (\A n \in S \cap Buses(m) : \A x \in DOMAIN m[n].bus : m[n].bus[x] \in S) => S = DOMAIN m

VARIABLES
    Machine,        \* the hardware there is, which does not change
    device,         \* the objects registered, in order: class, hardware, number, state
    names,          \* DeviceManager::_devices: name -> object
    calls,          \* the calls of init in progress, the innermost first
    answer          \* what the call that has just returned, returned

treeVars == <<Machine, device, names, calls, answer>>

TreeInit == Machine \in Machines /\ device = <<>> /\ names = <<>> /\ calls = <<>> /\ answer = "none"

----------------------------------------------------------------------------
(* DeviceManager. *)

\* DeviceClass::acquire_instance: every registration takes a number, failed or not.
acquire_instance(class) == Cardinality({d \in DOMAIN device : device[d].class = class})

\* _devices with some names of an object added.
WithNames(added, d) == [n \in added \cup DOMAIN names |-> IF n \in added THEN d ELSE names[n]]

\* register_device up to the call of init: the object is in the map from here on.
Registered(class, hw, of) ==
    /\ device' = Append(device, [class |-> class, hw |-> hw, of |-> of, nr |-> acquire_instance(class), st |-> "init"])
    /\ names' = WithNames({<<class, acquire_instance(class)>>}, Len(device) + 1)

try_get_device_by_name(name) == name \in DOMAIN names
try_get_device_by_class(class) == \E d \in DOMAIN device : device[d].class = class

NameOf(d) == <<device[d].class, device[d].nr>>

\* A device whose init does nothing that can fail, with its alias if it has one.
RegisterPlain(class, hw, of, alias) ==
    /\ device' = Append(device, [class |-> class, hw |-> hw, of |-> of, nr |-> acquire_instance(class), st |-> "ok"])
    /\ names' = WithNames(alias \cup {<<class, acquire_instance(class)>>}, Len(device) + 1)

----------------------------------------------------------------------------
(* Calls. *)

Call(kind, hw, at) == <<[kind |-> kind, hw |-> hw, dev |-> Len(device) + 1, at |-> at, fn |-> 0, ok |-> TRUE]>>
In(kind) == calls # <<>> /\ Head(calls).kind = kind /\ answer = "none"
Back(kind) == calls # <<>> /\ Head(calls).kind = kind /\ answer # "none"
Become(call) == calls' = <<call>> \o Tail(calls)

\* register_device(new ...) from a driver: init of the new device goes first.
RegisterBelow(class, kind, hw) ==
    /\ Registered(class, hw, Head(calls).dev)
    /\ calls' = Call(kind, hw, 0) \o calls /\ UNCHANGED answer

\* init returns: the caller deletes a device that has failed, which stays in the map.
Return(ok) ==
    LET d == Head(calls).dev IN
    /\ device' = IF d = 0 THEN device ELSE [device EXCEPT ![d].st = IF ok THEN "ok" ELSE "deleted"]
    /\ calls' = Tail(calls) /\ answer' = IF ok THEN "yes" ELSE "no"
    /\ UNCHANGED names

----------------------------------------------------------------------------
(* PCI. *)

FunctionsOf(call) == Machine[call.hw].bus
Present(call, slot, fn) == <<slot, fn>> \in DOMAIN FunctionsOf(call)
NodeAt(call) == FunctionsOf(call)[<<call.at, call.fn>>]
\* The header type; where there is no function all bits read as ones.
Multi(call) == Present(call, call.at, 0) => Machine[FunctionsOf(call)[<<call.at, 0>>]].multi

Supported == {"bridge", "plain", "storage"}

\* Variant: an empty function 0 ends the probing of the slot.
NextOnlyIfPresent(call) ==
    IF Present(call, call.at, 0) /\ Multi(call) /\ call.fn < Funcs - 1 THEN [call EXCEPT !.fn = @ + 1]
    ELSE [call EXCEPT !.at = @ + 1, !.fn = 0]
\* probe_slot after a function that is fine.
NextFunction(call) ==
    IF Multi(call) /\ call.fn < Funcs - 1 THEN [call EXCEPT !.fn = @ + 1]
    ELSE [call EXCEPT !.at = @ + 1, !.fn = 0]
\* ... and after one that is not: the rest of the slot is left out.
NextSlot(call) == [call EXCEPT !.at = @ + 1, !.fn = 0, !.ok = FALSE]

\* probe_func.
ProbeFunc ==
    LET call == Head(calls) IN
    /\ In("bus") /\ call.at < Slots
    /\ \/ /\ Present(call, call.at, call.fn) => Machine[NodeAt(call)].class \notin Supported
          /\ Become(NextFunction(call)) /\ UNCHANGED <<device, names, answer>>
       \/ /\ Present(call, call.at, call.fn) /\ Machine[NodeAt(call)].class \in Supported
          /\ RegisterBelow("pci", Machine[NodeAt(call)].class, NodeAt(call))
ProbedFunc ==
    /\ Back("bus") /\ answer' = "none"
    /\ Become(IF answer = "yes" THEN NextFunction(Head(calls)) ELSE NextSlot(Head(calls)))
    /\ UNCHANGED <<device, names>>
EndOfBus == In("bus") /\ Head(calls).at = Slots /\ Return(Head(calls).ok)

\* Display and Network have no init of their own.
InitPlain == In("plain") /\ Return(TRUE)

\* Bridge::init: probing the bus behind it is what the init goes on with.
InitBridge ==
    LET call == Head(calls)
        hw == Machine[call.hw]
    IN /\ In("bridge")
       /\ \/ hw.sub = "pci-to-pci" /\ hw.header
             /\ Become([call EXCEPT !.kind = "bus"]) /\ UNCHANGED <<device, names, answer>>
          \/ hw.sub = "pci-to-pci" /\ ~hw.header /\ Return(FALSE)
          \/ hw.sub # "pci-to-pci" /\ Return(TRUE)

\* Storage::init and init_ide_controller.
InitStorage ==
    LET hw == Machine[Head(calls).hw] IN
    /\ In("storage")
    /\ \/ hw.sub = "ide" /\ hw.irq /\ RegisterBelow("atactl", "controller", Head(calls).hw)
       \/ hw.sub = "ide" /\ ~hw.irq /\ Return(FALSE)
       \/ hw.sub = "sata" /\ Return(TRUE)
       \/ hw.sub \notin {"ide", "sata"} /\ Return(FALSE)
ControllerReady ==
    /\ Back("storage") /\ Return(answer = "yes")

----------------------------------------------------------------------------
(* ATA. *)

\* probe_device for each drive; a drive that fails does not fail the channel.
ProbeDevice ==
    LET call == Head(calls)
        drive == Machine[call.hw].drive[call.at + 1]
    IN /\ In("controller") /\ call.at < Drives
       /\ \/ drive \in {"absent", "error"}
             /\ Become([call EXCEPT !.at = @ + 1]) /\ UNCHANGED <<device, names, answer>>
          \/ drive \notin {"absent", "error"} /\ RegisterBelow("ata", "disk", <<call.hw, call.at + 1>>)
ProbedDevice ==
    /\ Back("controller") /\ answer' = "none"
    /\ Become([Head(calls) EXCEPT !.at = @ + 1]) /\ UNCHANGED <<device, names>>
EndOfController == In("controller") /\ Head(calls).at = Drives /\ Return(TRUE)

\* The partition table of a disk: the types of its entries, none without a signature.
Disk(hw) == Machine[hw[1]].drive[hw[2]]
DiskFails(hw) == Disk(hw) \in {"no lba", "unreadable"}
TableOf(hw) == Machine[hw[1]].table

\* ATADevice::init and check_for_partitions.
InitDisk ==
    LET call == Head(calls) IN
    /\ In("disk") /\ call.at = 0
    /\ \/ DiskFails(call.hw) /\ Return(FALSE)
       \/ Disk(call.hw) = "blank" /\ Return(TRUE)
       \/ ~DiskFails(call.hw) /\ Disk(call.hw) # "blank"
          /\ Become([call EXCEPT !.at = 1]) /\ UNCHANGED <<device, names, answer>>

\* create_partitions: the object, its own name and the name of the disk with the index.
CreatePartition ==
    LET call == Head(calls) IN
    /\ In("disk") /\ call.at \in 1..Entries
    /\ Become([call EXCEPT !.at = @ + 1]) /\ UNCHANGED answer
    /\ IF TableOf(call.hw)[call.at] = 0 THEN UNCHANGED <<device, names>>
       ELSE RegisterPlain("block-partition", <<call.hw, call.at>>, call.dev, {Append(NameOf(call.dev), call.at - 1)})
EndOfPartitions == In("disk") /\ Head(calls).at > Entries /\ Return(TRUE)

TreeStep ==
    \/ ProbeFunc \/ ProbedFunc \/ EndOfBus \/ InitPlain \/ InitBridge \/ InitStorage \/ ControllerReady
    \/ ProbeDevice \/ ProbedDevice \/ EndOfController \/ InitDisk \/ CreatePartition \/ EndOfPartitions

----------------------------------------------------------------------------
Live(d) == device[d].st # "deleted"
DrivesThere == IdeControllers(Machine) \X (1..Drives)
FoundDisks == {d \in DOMAIN device : device[d].class = "ata" /\ Live(d)}

\* A device is known by its own name; the name of a disk with an index leads to that
\* partition of that disk, and neither it nor its disk has been deleted, whatever other
\* devices have failed.
NamesLead ==
    /\ \A d \in DOMAIN device : names[NameOf(d)] = d
    /\ \A n \in DOMAIN names : Len(n) = 3 =>
          LET p == device[names[n]] IN
          /\ p.st = "ok" /\ Live(p.of) /\ NameOf(p.of) = SubSeq(n, 1, 2)
          /\ p.hw = <<device[p.of].hw, n[3] + 1>>

\* When probing has succeeded, the healthy disks of the machine and their partitions have
\* all been found, and only a disk that failed has been deleted.
ProbingIsComplete ==
    /\ {device[d].hw : d \in FoundDisks} = {h \in DrivesThere : Disk(h) \in {"blank", "table"}}
    /\ \A d \in DOMAIN device : Live(d) \/ device[d].class = "ata"
    /\ \A d \in FoundDisks : \A k \in 1..Entries :
          Disk(device[d].hw) = "table" =>
             (TableOf(device[d].hw)[k] # 0 <=> Append(NameOf(d), k - 1) \in DOMAIN names)
=============================================================================
