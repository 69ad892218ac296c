------------------------------ MODULE MCFiles ------------------------------
(* The TAR file system with small archives, and the virtual file system with a few
   devices and files: a behaviour is of one part, which Init chooses. *)
EXTENDS TarFS, Files

VARIABLE part

\* An entry to be archived: path, whether it is a regular file, size.
Item(p, r, n) == [path |-> p, regular |-> r, size |-> n]

\* A header has its size in octal.
Header(it) == [path |-> it.path, type |-> IF it.regular THEN 1 ELSE 5,
               size |-> <<0, it.size \div 8, it.size % 8>>]

\* The data of a file looks like the header of yet another file.
Data == [path |-> <<"x">>, type |-> 1, size |-> <<0, 0, 1>>]

BlockOf(items, i) == i - 1 + FoldLeft(LAMBDA v, it : v + RoundUp(it.size), 0, SubSeq(items, 1, i - 1))

\* The archive of some items, with blocks behind it.
Pack(items, end) ==
    [blocks |-> FoldLeft(LAMBDA bs, it : bs \o <<Header(it)>> \o [k \in 1..RoundUp(it.size) |-> Data],
                         <<>>, items) \o end,
     entries |-> [i \in DOMAIN items |->
                    [path |-> items[i].path, regular |-> items[i].regular,
                     size |-> items[i].size, block |-> BlockOf(items, i)]]]

Paths == {<<"a">>, <<"a", "b">>, <<"c", "b">>}
Items == {Item(p, TRUE, n) : p \in Paths, n \in {0, 1, 2, 3}} \cup {Item(<<"c">>, FALSE, 0)}
Ends == {<<>>, <<Zero, Zero>>, <<Zero, Data>>}

Small == {Pack(<<>>, <<Zero>>)} \cup {Pack(s, e) : s \in {<<i>> : i \in Items} \cup (Items \X Items), e \in Ends}
         \cup {Pack(<<Item(<<"a">>, TRUE, n)>>, <<Zero>>) : n \in 4..5}

----------------------------------------------------------------------------
P(comps) == [abs |-> TRUE, comps |-> comps]
SomePaths == {P(<<"dev">>), P(<<"dev", "console", "">>), P(<<"usr", "sh">>), P(<<"usr", "", "sh">>),
              [abs |-> FALSE, comps |-> <<"usr">>]}
Args == {[device |-> "ata0", fstype |-> f] : f \in {"", "vfat", "ext2"}}
        \cup {[device |-> d, fstype |-> ""] : d \in {"tty0", "none"}}
Devices == [n \in {"tty0", "console", "ata0"} |-> IF n = "ata0" THEN n ELSE "tty0"]
Tree == {<<>>, <<"sh">>, <<"lib">>}
PlainFiles == {<<"sh">>}
Programs == {<<"sh">>}

ASSUME ArgsOnDevice == BootFsOnDevice
ASSUME SmallArePacked == ArchivesArePacked

allVars == <<tarVars, fileVars, part>>

TarPart == part = "tar" /\ TarInit /\ FilesInit /\ boot.device = "tty0" /\ boot.fstype = ""
VfsPart == part = "vfs" /\ FilesInit /\ TarInit /\ archive = Pack(<<>>, <<Zero>>)

PartsInit == TarPart \/ VfsPart
PartsNext ==
    /\ \/ part = "tar" /\ TarNext /\ UNCHANGED fileVars
       \/ part = "vfs" /\ FilesNext /\ UNCHANGED tarVars
    /\ UNCHANGED part
PartsSpec == PartsInit /\ [][PartsNext]_allVars
=============================================================================
