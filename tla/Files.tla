------------------------------- MODULE Files -------------------------------
(***************************************************************************)
(* The virtual file system (infos/fs), the mounting of the file systems at  *)
(* start-up (Kernel::start_kernel_threadproc) and the system calls on files, *)
(* directories and programs, by which processes use it.                     *)
(*                                                                         *)
(* A physical node is named by its file system and its path in it.  A VFS   *)
(* node caches its children by the hash of their names; hashes are taken to *)
(* be distinct.  No lock protects the nodes: between a miss in the cache    *)
(* and the addition of the node, other threads run.                         *)
(***************************************************************************)
EXTENDS UtilList, Integers, FiniteSets, SequencesExt

CONSTANTS
    Proc,           \* processes, each with one thread that makes system calls
    Path,           \* paths: whether the path is absolute, and its components
    BootArgs,       \* what the command line says: boot-device and boot-fs-type
    DeviceOf,       \* names and aliases of devices -> the device
    BlockDevice,    \* the devices that are disks or partitions
    FileDevice,     \* the devices that can be opened as files
    BootTree,       \* the paths of the file system on the boot device
    BootFile,       \* those that are files
    Program,        \* those that are ELF images
    MaxCalls        \* bound: calls that look up a path

\* The names on the boot device form a finite tree, and a device has its own name
\* among the names it is found by.
ASSUME FilesAssumption ==
    /\ BootTree \subseteq Seq(STRING) /\ IsFiniteSet(BootTree)
    /\ <<>> \in BootTree /\ Program \subseteq BootFile /\ BootFile \subseteq BootTree
    /\ \A p \in BootTree : p # <<>> => Front(p) \in BootTree \ BootFile
    /\ DeviceOf \in [DOMAIN DeviceOf -> DOMAIN DeviceOf]
    /\ DOMAIN DeviceOf \subseteq STRING /\ IsFiniteSet(DOMAIN DeviceOf)
    /\ \A a \in BootArgs : a.device \in STRING /\ a.fstype \in STRING
    /\ Path \subseteq [abs : BOOLEAN, comps : Seq(STRING)]

\* A boot file system that the command line names lives on a device.
BootFsOnDevice == \A a \in BootArgs : a.fstype \notin {"rootfs", "tmpfs", "devfs"}

VARIABLES
    boot,           \* where the start-up is, the boot arguments, the calls since
    nodes,          \* the VFS nodes: the physical node and the cached children
    tmpdirs,        \* the physical nodes of the tmpfs
    objects,        \* ObjectManager::_objects
    syscall,        \* Proc -> the system call it is in
    listed          \* history: handle -> the entries read from it, its directory

fileVars == <<boot, nodes, tmpdirs, objects, syscall, listed>>

None == <<>>        \* NULL for a physical node
EmptyString == ""
NoCall == [op |-> "none", pc |-> "idle", path |-> [abs |-> FALSE, comps |-> <<>>], at |-> 0,
           rest |-> <<>>, pn |-> None, object |-> [kind |-> "none", of |-> None, entries |-> <<>>, pos |-> 0]]

FilesInit ==
    /\ \E a \in BootArgs : boot = [pc |-> "vfs", device |-> a.device, fstype |-> a.fstype, calls |-> 0]
    /\ nodes = <<>> /\ tmpdirs = {} /\ objects = <<>> /\ listed = <<>>
    /\ syscall = [p \in Proc |-> NoCall]

----------------------------------------------------------------------------
(* Physical nodes. *)

TmpChild(pn, name) == IF Append(pn, name) \in tmpdirs THEN Append(pn, name) ELSE None
DevChild(pn, name) ==
    IF pn = <<"devfs">> /\ name \in DOMAIN DeviceOf THEN <<"devfs", DeviceOf[name]>> ELSE None
BootChild(pn, name) == IF Append(Tail(pn), name) \in BootTree THEN Append(pn, name) ELSE None

\* PFSNode::get_child; nodes of rootfs and of vfat have no children.
get_child(pn, name) ==
    CASE Head(pn) = "tmpfs" -> TmpChild(pn, name)
      [] Head(pn) = "devfs" -> DevChild(pn, name)
      [] Head(pn) = "bootfs" -> BootChild(pn, name)
      [] OTHER -> None

NoObject == NoCall.object
File(pn, kind) == [NoObject EXCEPT !.kind = kind, !.of = pn]
\* PFSNode::open.
DevOpen(pn) == IF Len(pn) = 2 /\ pn[2] \in FileDevice THEN File(pn, "device") ELSE NoObject
BootOpen(pn) == IF Tail(pn) \in BootFile THEN File(pn, "file") ELSE NoObject
open(pn) ==
    CASE Head(pn) = "devfs" -> DevOpen(pn)
      [] Head(pn) = "bootfs" -> BootOpen(pn)
      [] OTHER -> NoObject

Directory(pn, kind, entries) == [kind |-> kind, of |-> pn, entries |-> entries, pos |-> 0]
\* TempFSDirectory, DeviceFSDirectory and TarFSDirectory: the entries when it is opened.
TempFSDirectory(pn) ==
    Directory(pn, "simple", SetToSeq({Last(d) : d \in {c \in tmpdirs : Len(c) > 1 /\ Front(c) = pn}}))
\* An alias is listed by the name of its device.
DeviceFSDirectory(pn) ==
    LET names == SetToSeq(DOMAIN DeviceOf) IN
    Directory(pn, "simple", [k \in DOMAIN names |-> DeviceOf[names[k]]])
TarFSDirectory(pn) ==
    Directory(pn, "tar", SetToSeq({Last(c) : c \in {b \in BootTree : b # <<>> /\ Front(b) = Tail(pn)}}))
opendir(pn) ==
    CASE Head(pn) = "tmpfs" -> TempFSDirectory(pn)
      [] pn = <<"devfs">> -> DeviceFSDirectory(pn)
      [] Head(pn) = "bootfs" /\ Tail(pn) \notin BootFile -> TarFSDirectory(pn)
      [] OTHER -> NoObject

----------------------------------------------------------------------------
(* VFS nodes and mounting. *)

Node(pn) == [pn |-> pn, child |-> <<>>]
WithChild(ns, id, name, pn) ==
    LET new == Len(ns) + 1 IN
    append([ns EXCEPT ![id].child = [n \in (DOMAIN @) \cup {name} |-> IF n = name THEN new ELSE @[n]]],
           Node(pn))

\* lookup_fs, the creation function and mount of the file system: its root or NULL.
\* vfat reads the first block and refuses one without a signature.
rootfs_create(dev) == <<"rootfs">>
tmpfs_create(dev) == <<"tmpfs">>
devfs_create(dev) == <<"devfs">>
tarfs_create(dev) == IF dev \in BlockDevice THEN <<"bootfs">> ELSE None
vfat_create(dev, signed) == IF dev \in BlockDevice /\ signed THEN <<"vfat">> ELSE None
MountFs(fstype, dev, signed) ==
    CASE fstype = "rootfs" -> rootfs_create(dev)
      [] fstype = "tmpfs" -> tmpfs_create(dev)
      [] fstype = "devfs" -> devfs_create(dev)
      [] fstype \in {"tarfs", "internal_driver"} -> tarfs_create(dev)
      [] fstype = "vfat" -> vfat_create(dev, signed)
      [] OTHER -> None

\* Variant: the node keeps the physical node that it had.
MountKeepsNode(id, pn) == [nodes EXCEPT ![id].child = <<>>]
\* VFSNode::mount, on the node id.
Mounted(id, pn) == [nodes EXCEPT ![id] = [pn |-> pn, child |-> <<>>]]

BootStep(from, to) == boot.pc = from /\ boot' = [boot EXCEPT !.pc = to]
Abort == boot' = [boot EXCEPT !.pc = "aborted"] /\ UNCHANGED <<nodes, tmpdirs>>
Idle == UNCHANGED <<objects, syscall, listed>>

VfsInit ==
    /\ BootStep("vfs", "root") /\ nodes' = <<Node(MountFs("rootfs", "none", FALSE))>>
    /\ UNCHANGED tmpdirs /\ Idle

MountRoot ==
    /\ BootStep("root", "dev") /\ nodes' = Mounted(1, MountFs("tmpfs", "none", FALSE))
    /\ tmpdirs' = {<<"tmpfs">>} /\ Idle

\* VFSNode::mkdir on the root, whose new child is looked up and so cached.
Mkdir(name) ==
    /\ tmpdirs' = tmpdirs \cup {Append(nodes[1].pn, name)}
    /\ nodes' = WithChild(nodes, 1, name, Append(nodes[1].pn, name))

MkdirDev == BootStep("dev", "devfs") /\ Mkdir("dev") /\ Idle
MountDev ==
    /\ BootStep("devfs", "usr") /\ nodes' = Mounted(nodes[1].child["dev"], MountFs("devfs", "none", FALSE))
    /\ UNCHANGED tmpdirs /\ Idle
MkdirUsr == BootStep("usr", "bootfs") /\ Mkdir("usr") /\ Idle

\* Without a boot device, or when its file system cannot be mounted, the start-up ends.
MountUsr ==
    /\ boot.pc = "bootfs"
    /\ \/ boot.device \notin DOMAIN DeviceOf /\ Abort
       \/ /\ boot.device \in DOMAIN DeviceOf
          /\ \E signed \in BOOLEAN :
                LET fstype == IF boot.fstype = EmptyString THEN "internal_driver" ELSE boot.fstype
                    pn == MountFs(fstype, DeviceOf[boot.device], signed)
                IN \/ pn = None /\ Abort
                   \/ /\ pn # None /\ BootStep("bootfs", "up")
                      /\ nodes' = Mounted(nodes[1].child["usr"], pn) /\ UNCHANGED tmpdirs
    /\ Idle

----------------------------------------------------------------------------
(* System calls. *)

Return(p) == syscall' = [syscall EXCEPT ![p].pc = "done"]
Call(p, op, path) ==
    /\ boot.pc = "up" /\ syscall[p].pc = "idle" /\ boot.calls < MaxCalls
    /\ boot' = [boot EXCEPT !.calls = @ + 1]
    /\ syscall' = [syscall EXCEPT ![p] = [NoCall EXCEPT !.op = op, !.path = path, !.rest = path.comps,
                                          !.at = IF path.abs THEN 1 ELSE 0,
                                          !.pc = IF path.abs THEN "lookup" ELSE "found"]]
    /\ UNCHANGED <<nodes, tmpdirs, objects, listed>>
sys_open(p) == \E path \in Path : Call(p, "open", path)
sys_opendir(p) == \E path \in Path : Call(p, "opendir", path)
sys_exec(p) == \E path \in Path : Call(p, "exec", path)

\* lookup_node, component by component: an empty one ends it.
LookupNode(p) ==
    LET c == syscall[p]
        cached == nodes[c.at].child
        name == IF c.rest = <<>> THEN EmptyString ELSE Head(c.rest)
    IN /\ c.pc = "lookup"
       /\ \/ /\ name = EmptyString
             /\ syscall' = [syscall EXCEPT ![p].pc = "found"]
          \/ /\ name # EmptyString /\ name \in DOMAIN cached
             /\ syscall' = [syscall EXCEPT ![p].at = cached[name], ![p].rest = Tail(@)]
          \/ /\ name # EmptyString /\ name \notin DOMAIN cached
             /\ LET pn == get_child(nodes[c.at].pn, name) IN
                syscall' = IF pn = None THEN [syscall EXCEPT ![p].pc = "found", ![p].at = 0]
                           ELSE [syscall EXCEPT ![p].pc = "add", ![p].pn = pn]
       /\ UNCHANGED <<boot, nodes, tmpdirs, objects, listed>>

\* VFSNode::get_child after a miss; a node that was added meanwhile is replaced.
AddChild(p) ==
    LET c == syscall[p] IN
    /\ c.pc = "add" /\ nodes' = WithChild(nodes, c.at, Head(c.rest), c.pn)
    /\ syscall' = [syscall EXCEPT ![p].pc = "lookup", ![p].at = Len(nodes'), ![p].rest = Tail(@)]
    /\ UNCHANGED <<boot, tmpdirs, objects, listed>>

\* launch_process: only an ELF image becomes a process; the file is deleted again.
Launch(pn) ==
    IF open(pn).kind # "none" /\ Head(pn) = "bootfs" /\ Tail(pn) \in Program THEN File(pn, "process")
    ELSE NoObject

OpenNode(p) ==
    LET c == syscall[p]
        object == IF c.at = 0 THEN NoObject
                  ELSE IF c.op = "open" THEN open(nodes[c.at].pn)
                  ELSE IF c.op = "opendir" THEN opendir(nodes[c.at].pn) ELSE Launch(nodes[c.at].pn)
    IN /\ c.pc = "found"
       /\ syscall' = [syscall EXCEPT ![p].object = object,
                                     ![p].pc = IF object = NoObject THEN "done" ELSE "register"]
       /\ UNCHANGED <<boot, nodes, tmpdirs, objects, listed>>

register_object(p) ==
    LET c == syscall[p] IN
    /\ c.pc = "register"
    /\ objects' = Append(objects, [owner |-> p, object |-> c.object])
    /\ listed' = Append(listed, [all |-> c.object.entries, seen |-> <<>>])
    /\ Return(p) /\ UNCHANGED <<boot, nodes, tmpdirs>>

\* The objects that get_object_secure can return.  While another thread is in
\* register_object, the look-up may miss an object that is there (module ObjectMap).
Secure(p, kinds) ==
    {h \in DOMAIN objects : objects[h].owner = p /\ objects[h].object.kind \in kinds}
Disturbed(p) == \E q \in Proc \ {p} : syscall[q].pc = "register"

\* read of a file moves its position; the devices' files have none.
sys_read(p) ==
    /\ syscall[p].pc = "idle"
    /\ \E h \in Secure(p, {"file", "device"}) :
          objects' = IF objects[h].object.kind = "file" THEN [objects EXCEPT ![h].object.pos = 1] ELSE objects
    /\ UNCHANGED <<boot, nodes, tmpdirs, syscall, listed>>

\* Variant: the position moves before the entry is read.
ReadEntryLate(d) == [some |-> d.pos + 1 < Len(d.entries), entry |-> d.pos + 2, pos |-> d.pos + 1]
\* SimpleDirectory::read_entry and TarFSDirectory::read_entry.
read_entry(d) == [some |-> d.pos < Len(d.entries), entry |-> d.pos + 1,
                  pos |-> IF d.pos < Len(d.entries) THEN d.pos + 1 ELSE d.pos]

sys_readdir(p) ==
    /\ syscall[p].pc = "idle"
    /\ \E h \in Secure(p, {"simple", "tar"}) :
          LET d == objects[h].object
              r == read_entry(d)
          IN /\ objects' = [objects EXCEPT ![h].object.pos = r.pos]
             /\ listed' = IF r.some THEN [listed EXCEPT ![h].seen = append(@, at(d.entries, r.entry - 1))]
                          ELSE listed
             /\ syscall' = IF r.some THEN syscall ELSE [syscall EXCEPT ![p].pc = "done"]
    /\ UNCHANGED <<boot, nodes, tmpdirs>>

\* closedir: SimpleDirectory::close clears the entries, TarFSDirectory::close does nothing.
sys_closedir(p) ==
    /\ syscall[p].pc = "idle"
    /\ \E h \in Secure(p, {"simple", "tar"}) :
          objects' = IF objects[h].object.kind = "simple"
                     THEN [objects EXCEPT ![h].object.entries = clear(@)] ELSE objects
    /\ UNCHANGED <<boot, nodes, tmpdirs, syscall, listed>>

\* A call on an object that get_object_secure does not return gives -1.
Refused(p) ==
    /\ syscall[p].pc = "idle" /\ (Disturbed(p) \/ \E h \in DOMAIN objects : objects[h].owner # p)
    /\ Return(p) /\ UNCHANGED <<boot, nodes, tmpdirs, objects, listed>>

Done(p) ==
    /\ syscall[p].pc = "done" /\ syscall' = [syscall EXCEPT ![p] = NoCall]
    /\ UNCHANGED <<boot, nodes, tmpdirs, objects, listed>>

FilesNext ==
    \/ VfsInit \/ MountRoot \/ MkdirDev \/ MountDev \/ MkdirUsr \/ MountUsr
    \/ \E p \in Proc :
          \/ sys_open(p) \/ sys_opendir(p) \/ sys_exec(p) \/ LookupNode(p) \/ AddChild(p)
          \/ OpenNode(p) \/ register_object(p) \/ Done(p)
          \/ sys_read(p) \/ sys_readdir(p) \/ sys_closedir(p) \/ Refused(p)

FilesSpec == FilesInit /\ [][FilesNext]_fileVars

----------------------------------------------------------------------------
\* Where a path leads when the mounts are as start_kernel_threadproc makes them.
BootFs == IF boot.fstype = "vfat" THEN <<"vfat">> ELSE <<"bootfs">>
Target(path) ==
    LET end == SelectInSeq(path.comps, LAMBDA c : c = EmptyString)
        comps == IF end = 0 THEN path.comps ELSE SubSeq(path.comps, 1, end - 1)
    IN CASE ~path.abs -> None
         [] path.abs /\ comps = <<>> -> <<"tmpfs">>
         [] path.abs /\ comps = <<"dev">> -> <<"devfs">>
         [] path.abs /\ Len(comps) = 2 /\ comps[1] = "dev" /\ comps[2] \in DOMAIN DeviceOf ->
               <<"devfs", DeviceOf[comps[2]]>>
         [] path.abs /\ Len(comps) > 0 /\ comps[1] = "usr" /\ (Len(comps) = 1 \/
               (BootFs = <<"bootfs">> /\ Tail(comps) \in BootTree)) -> BootFs \o Tail(comps)
         [] OTHER -> None

\* A path leads every caller to the object it names, whatever other look-ups add to the
\* nodes meanwhile; a path that names nothing leads nowhere.
PathsResolve ==
    \A p \in Proc :
        LET c == syscall[p] IN
        c.pc = "found" => (IF c.at = 0 THEN None ELSE nodes[c.at].pn) = Target(c.path)

\* Reading a directory gives its entries once each and in order, and every name it gives
\* leads from that directory to a node.
ListingIsExact ==
    \A h \in DOMAIN objects :
        /\ IsPrefix(listed[h].seen, listed[h].all)
        /\ \A k \in DOMAIN listed[h].seen : get_child(objects[h].object.of, listed[h].seen[k]) # None

\* A name has one VFS node.  Not kept by the code: two look-ups that both miss in
\* VFSNode::get_child each make one.
NodesAreUnique ==
    \A i, j \in DOMAIN nodes : i # j => nodes[i].pn # nodes[j].pn
=============================================================================
