------------------------------- MODULE TarFS -------------------------------
(***************************************************************************)
(* The TAR file system driver (coursework/tarfs.cpp): mounting walks the    *)
(* headers of the archive and builds the tree of nodes in memory; a file    *)
(* opened from a node reads its data blocks from the device.                *)
(*                                                                         *)
(* The device is a sequence of blocks, block 0 first.  A block that is not  *)
(* all zero is a record of what its bytes say when they are taken for a     *)
(* header; a data block may say anything, a file can itself be an archive.  *)
(***************************************************************************)
EXTENDS Integers, Sequences, SequencesExt, FiniteSets

CONSTANTS
    Archives,       \* the archives that may be on the device
    BlockSize,      \* 512
    ReadSizes,      \* the sizes and offsets that programs ask for
    Offsets,
    Junk            \* a byte of memory that was never written

Zero == [path |-> <<>>, type |-> 0, size |-> <<>>]

ASSUME TarAssumption ==
    /\ BlockSize \in Nat \ {0}
    /\ ReadSizes \subseteq Nat \ {0} /\ Offsets \subseteq Nat
    /\ \A a \in Archives : Len(a.blocks) > 0

VARIABLES
    archive,        \* [blocks, entries]: the device, and what was archived where
    next,           \* blockCount, the block that build_tree looks at next
    mounted,        \* build_tree has returned
    tree,           \* the nodes: path -> [size, file (_has_block_offset), block]
    file,           \* the open file: [start, size, pos], or none
    io              \* the read in progress and the outcome of the last one

tarVars == <<archive, next, mounted, tree, file, io>>

NoFile == [start |-> 0, size |-> 0, pos |-> 0, open |-> FALSE]
NoIo == [busy |-> FALSE, want |-> 0, done |-> 0, off |-> 0, from |-> 0, buffer |-> <<>>]
Wrap == 1073741824      \* 2^30, stands for 2^32, out of the range of TLC's integers

BlockAt(n) == archive.blocks[n + 1]
BlockCount == Len(archive.blocks)

\* octal2ui: the loop ends before it comes to the first digit.
Octal2ui(d) == FoldLeft(LAMBDA v, x : 8 * v + x, 0, SubSeq(d, 2, Len(d)))

\* Variant: a partial block is not counted.
WholeBlocks(n) == n \div BlockSize

DataBlocks(n) == n \div BlockSize + (IF n % BlockSize # 0 THEN 1 ELSE 0)

----------------------------------------------------------------------------
(* build_tree *)

\* BuildTreeRecursive: make the nodes on the path that are missing, and let the
\* last one be the file.
BuildTreeRecursive(t, path, node) ==
    LET made == {p \in Prefixes(path) : p # <<>>} \ DOMAIN t
    IN  [p \in DOMAIN t \cup made |->
            IF p = path THEN node
            ELSE IF p \in made THEN [size |-> 0, file |-> FALSE, block |-> 0] ELSE t[p]]

\* One turn of the loop over the headers; every kind of entry is skipped by its
\* size, only regular files get a node.
BuildTree ==
    /\ ~mounted
    /\ IF next >= BlockCount \/ (next < BlockCount /\ BlockAt(next) = Zero)
       THEN mounted' = TRUE /\ UNCHANGED <<tree, next>>
       ELSE LET header == BlockAt(next)
                size == Octal2ui(header.size)
            IN  /\ tree' = IF header.type = 1
                           THEN BuildTreeRecursive(tree, header.path,
                                                   [size |-> size, file |-> TRUE, block |-> next])
                           ELSE tree
                /\ next' = next + DataBlocks(size) + 1
                /\ UNCHANGED mounted
    /\ UNCHANGED <<archive, file, io>>

----------------------------------------------------------------------------
(* Files *)

\* TarFSNode::open and the constructor of TarFSFile, which reads the header again.
\* A node without a block is not opened.
Open ==
    /\ mounted /\ ~file.open
    /\ \E p \in DOMAIN tree :
          file' = IF tree[p].file
                  THEN [start |-> tree[p].block + 1, size |-> Octal2ui(BlockAt(tree[p].block).size),
                        pos |-> 0, open |-> TRUE]
                  ELSE NoFile
    /\ UNCHANGED <<archive, next, mounted, tree, io>>

\* close and the destructor.
Close ==
    /\ file.open /\ ~io.busy
    /\ file' = NoFile
    /\ io' = NoIo
    /\ UNCHANGED <<archive, next, mounted, tree>>

\* Variants: a position behind the end is not corrected; the position is signed.
NotClamped(pos, size) == pos
ClampSigned(pos, size) == IF pos >= size THEN size - 1 ELSE pos

\* The end of seek: a position behind the last byte becomes the last byte.
Clamp(pos, size) == IF pos >= size THEN (size - 1) % Wrap ELSE pos

Seek ==
    /\ file.open /\ ~io.busy
    /\ \E offset \in Offsets, base \in {0, file.pos} :
          file' = [file EXCEPT !.pos = Clamp((base + offset) % Wrap, file.size)]
    /\ UNCHANGED <<archive, next, mounted, tree, io>>

\* read: pread from the current position.
Read ==
    /\ file.open /\ ~io.busy
    /\ \E size \in ReadSizes :
          io' = IF file.pos >= file.size
                THEN [NoIo EXCEPT !.from = file.pos, !.want = size]
                ELSE [busy |-> TRUE, want |-> size, done |-> 0, off |-> file.pos, from |-> file.pos,
                      buffer |-> [i \in 1..size |-> Junk]]
    /\ UNCHANGED <<archive, next, mounted, tree, file>>

\* One turn of the loop of pread: the block goes to the start of the caller's
\* buffer, then bytes of the local array, which nothing was read into, follow the
\* ones read before.
Pread ==
    /\ io.busy
    /\ IF io.done >= io.want \/ file.start + io.off \div BlockSize >= BlockCount
       THEN /\ io' = [io EXCEPT !.busy = FALSE]
            /\ file' = [file EXCEPT !.pos = @ + io.done]
       ELSE LET block == file.start + io.off \div BlockSize
                n == Min({BlockSize - (io.off % BlockSize), io.want - io.done})
            IN  /\ io' = [io EXCEPT
                     !.buffer = [i \in DOMAIN @ |->
                                   IF i \in (io.done + 1)..(io.done + n) THEN Junk
                                   ELSE IF i <= BlockSize THEN <<block, i - 1>> ELSE @[i]],
                     !.done = @ + n, !.off = @ + n]
                /\ UNCHANGED file
    /\ UNCHANGED <<archive, next, mounted, tree>>

TarInit ==
    /\ archive \in Archives
    /\ next = 0 /\ mounted = FALSE
    /\ tree = [p \in {<<>>} |-> [size |-> 0, file |-> FALSE, block |-> 0]]
    /\ file = NoFile
    /\ io = NoIo

TarNext == BuildTree \/ Open \/ Close \/ Seek \/ Read \/ Pread

TarSpec == TarInit /\ [][TarNext]_tarVars

----------------------------------------------------------------------------
(* Properties. *)

TarTypeOK ==
    /\ next \in Nat /\ mounted \in BOOLEAN
    /\ \A p \in DOMAIN tree : tree[p] \in [size : Nat, file : BOOLEAN, block : Nat]
    /\ file \in [start : Nat, size : Nat, pos : Nat, open : BOOLEAN]
    /\ io.done \in 0..io.want /\ (io.busy => Len(io.buffer) = io.want)

\* An entry of the archive is in force unless a later one has the same path.
InForce(i) ==
    /\ archive.entries[i].regular
    /\ \A j \in DOMAIN archive.entries :
          j > i /\ archive.entries[j].regular => archive.entries[j].path # archive.entries[i].path

\* After mounting, the files of the tree are the regular entries of the archive, at
\* the block of their last header and with their true size, and the other nodes are
\* their parents: no entry is missed and no data taken for a header, whatever the
\* sizes and wherever the archive ends.
TreeMatchesArchive ==
    mounted =>
        /\ {p \in DOMAIN tree : tree[p].file} =
              {archive.entries[i].path : i \in {k \in DOMAIN archive.entries : InForce(k)}}
        /\ \A i \in DOMAIN archive.entries : InForce(i) =>
              LET e == archive.entries[i]
              IN  tree[e.path].block = e.block /\ tree[e.path].size = e.size
        /\ \A p \in DOMAIN tree : ~tree[p].file =>
              p = <<>> \/ \E i \in DOMAIN archive.entries :
                              InForce(i) /\ IsStrictPrefix(p, archive.entries[i].path)

\* Archives as they are made: a header with the blocks of its data behind it for each entry,
\* one after the other, then the end of the device or a block of zeros.  octal2ui reads from
\* each header the size that the entry has.
RoundUp(n) == (n + BlockSize - 1) \div BlockSize
BlockAfter(a, i) == IF i = 0 THEN 0 ELSE a.entries[i].block + RoundUp(a.entries[i].size) + 1
Holds(a, e) ==
    /\ e.size \in Nat /\ e.block \in 0..(Len(a.blocks) - 1)
    /\ e.path # <<>> /\ e.path \in Seq(Range(e.path))
    /\ LET header == a.blocks[e.block + 1] IN
       header.path = e.path /\ (header.type = 1 <=> e.regular) /\ Octal2ui(header.size) = e.size
ArchivesArePacked ==
    \A a \in Archives :
        /\ a.entries \in Seq(Range(a.entries)) /\ a.blocks \in Seq(Range(a.blocks))
        /\ \A i \in DOMAIN a.entries : Holds(a, a.entries[i]) /\ a.entries[i].block = BlockAfter(a, i - 1)
        /\ LET end == BlockAfter(a, Len(a.entries)) IN end < Len(a.blocks) => a.blocks[end + 1] = Zero

\* "set the current file position to the given offset (subject to the file size)": a
\* seek leaves the position inside the file.
SeekStaysInFile ==
    [][file.open /\ file'.open /\ io' = io /\ ~io.busy => file'.pos < file'.size]_file

\* The same for files that have a last byte to be clamped to.
SeekStaysInNonemptyFile ==
    [][file.open /\ file'.open /\ file.size > 0 /\ io' = io /\ ~io.busy => file'.pos < file'.size]_file

\* What pread should return: the bytes of the file from the offset, as many as were
\* asked for and there are.
Contents(from, want) ==
    [i \in 1..Min({want, Max({0, file.size - from})}) |->
        <<file.start + (from + i - 1) \div BlockSize, (from + i - 1) % BlockSize>>]

\* pread "Reads the contents of the file into the buffer, from the specified file
\* offset" and "Returns the number of bytes read into the buffer".
ReadReturnsContents ==
    file.open /\ ~io.busy /\ io.done > 0 =>
        SubSeq(io.buffer, 1, io.done) = Contents(io.from, io.want)
=============================================================================
