---------------------------- MODULE DeviceProofs ----------------------------
(***************************************************************************)
(* Proofs about Disk, Interrupts, Clock and Boot (with DeviceTree).  For   *)
(* any number of threads and drives, any width of the registers and any    *)
(* requests, a read that reports success has read the blocks it was asked  *)
(* for; for any numbers of threads, vectors, pins and interrupts, every    *)
(* interrupt reaches its handler and every context that a thread returns   *)
(* to is a program or a system call; for any start time and rate of ticks  *)
(* the time of day is right; for any memory map start-up keeps the kernel  *)
(* mapped and gives out free pages only; and on any machine that conforms  *)
(* to PCI the probing finds every healthy disk and partition by its name.  *)
(***************************************************************************)
EXTENDS Disk, Interrupts, Clock, Boot, FiniteSetTheorems, SequenceTheorems, WellFoundedInduction, TLAPS

Status == {"idle", "busy", "drq", "err", "df", "data"}
\* A thread has the channel, and has selected its drive.
Has == {"ready", "select", "high", "low", "command", "poll", "insw", "return"}
DriveSelected == {"high", "low", "command", "poll", "insw"}
BeforeCommand == {"idle", "lock", "ready", "select", "high", "low", "command"}
TakesBlocks == {"poll", "insw"}

Place == Has \cup {"idle", "lock", "done"}
Transfer == [pc : Place, req : Request \cup {NoTransfer.req}, buffer : Seq(Drive \X Int), ok : BOOLEAN]
Channel == [sel : Drive, cnt : Nat \X Nat, lba : Nat \X Nat]

DiskTypes ==
    /\ mtx \in Thread \cup {Nobody} /\ spoilt \in BOOLEAN
    /\ chan \in Channel
    /\ drive \in [Drive -> [st : Status, lba : Int, left : Int]]
    /\ xfer \in [Thread -> Transfer]

\* The thread that holds _mtx is the one between taking the channel and returning, and the
\* registers hold what it has written.
ChannelOf(t) ==
    LET x == xfer[t]
        b == Block(x.req, 0)
    IN /\ x.pc \in Has <=> mtx = t
       /\ x.pc # "idle" => x.req \in Request
       /\ x.pc \in DriveSelected => chan.sel = x.req.drive
       /\ x.pc = "low" => chan.cnt[1] = 0 /\ chan.lba[1] = (b \div Byte) % Byte
       /\ x.pc = "command" => /\ chan.cnt[1] = x.req.count % Byte /\ chan.cnt[2] = 0
                              /\ chan.lba[1] = b % Byte /\ chan.lba[2] = (b \div Byte) % Byte

\* What a thread has read are the first blocks of its request, all of them if it succeeded.
BufferOf(t) ==
    LET x == xfer[t] IN
    /\ x.pc \in BeforeCommand => x.buffer = <<>>
    /\ x.ok => x.pc \in {"return", "done"}
    /\ ~spoilt => /\ \A k \in 1..Len(x.buffer) : x.buffer[k] = <<x.req.drive, Block(x.req, k - 1)>>
                  /\ x.ok => Len(x.buffer) = x.req.count

\* A drive that is busy or has data executes the command of the thread that reads: it is at
\* the next block of that request, and has as many left as the command asked for.
DriveServes(d) ==
    ~spoilt /\ drive[d].st \in {"busy", "drq", "data"} =>
        \E t \in Thread :
            /\ mtx = t /\ xfer[t].pc \in TakesBlocks /\ xfer[t].req.drive = d /\ drive[d].st # "data"
            /\ drive[d].lba = Block(xfer[t].req, Len(xfer[t].buffer))
            /\ drive[d].left > 0 /\ drive[d].left + Len(xfer[t].buffer) = xfer[t].req.count % Byte

DiskInv ==
    /\ DiskTypes
    /\ \A t \in Thread : ChannelOf(t) /\ BufferOf(t)
    /\ \A d \in Drive : DriveServes(d)
    /\ \A t \in Thread : xfer[t].pc = "insw" /\ ~spoilt => drive[chan.sel].st = "drq"

\* A block address is put together again from its high and its low part.
LEMMA Halves ==
    ASSUME NEW x \in Nat, NEW B \in Nat \ {0}, x < B * B
    PROVE  ((x \div B) % B) * B + (x % B) = x
OBVIOUS

LEMMA RemainderBounds ==
    ASSUME NEW x \in Nat, NEW B \in Nat \ {0}
    PROVE  x % B \in Nat /\ x % B <= x
OBVIOUS

LEMMA RequestFacts ==
    ASSUME NEW r \in Request
    PROVE  /\ r.op \in {"read", "write"} /\ r.drive \in Drive /\ r.count \in Nat
           /\ Block(r, 0) \in Nat /\ Block(r, 0) < Byte * Byte
           /\ \A k \in Int : Block(r, k) = Block(r, 0) + k
BY DiskAssumption DEF Block

\* What the other threads of a step of t find: t holds the channel if the step touches it.
OthersOf(t) ==
    /\ \A u \in Thread \ {t} : xfer'[u] = xfer[u]
    /\ \A u \in Thread \ {t} : mtx' = u <=> mtx = u
    /\ mtx = t \/ UNCHANGED <<chan, drive>>
    /\ spoilt => spoilt'

LEMMA OthersKeep ==
    ASSUME DiskInv, NEW t \in Thread, OthersOf(t), NEW u \in Thread, u # t
    PROVE  /\ ChannelOf(u)' /\ BufferOf(u)'
           /\ xfer'[u].pc = "insw" /\ ~spoilt' => drive'[chan'.sel].st = "drq"
<1>1. xfer'[u] = xfer[u] /\ (mtx' = u <=> mtx = u) /\ (spoilt => spoilt')
  BY DEF OthersOf
<1>2. xfer[u].pc \in Has => UNCHANGED <<chan, drive>>
  BY DEF OthersOf, DiskInv, ChannelOf
<1>3. DriveSelected \subseteq Has /\ "low" \in Has /\ "command" \in Has /\ "insw" \in Has
  BY DEF DriveSelected, Has
<1>4. ChannelOf(u)'
  BY <1>1, <1>2, <1>3 DEF DiskInv, ChannelOf
<1>5. BufferOf(u)'
  BY <1>1 DEF DiskInv, BufferOf
<1> QED  BY <1>1, <1>2, <1>3, <1>4, <1>5 DEF DiskInv

\* A step of a thread that does not read leaves the drives to the one that does.
LEMMA DrivesKeep ==
    ASSUME DiskInv, NEW t \in Thread, OthersOf(t), xfer[t].pc \notin TakesBlocks,
           UNCHANGED <<drive, spoilt>>, NEW d \in Drive
    PROVE  DriveServes(d)'
<1> SUFFICES ASSUME ~spoilt, drive[d].st \in {"busy", "drq", "data"}
             PROVE  \E v \in Thread :
                      /\ mtx' = v /\ xfer'[v].pc \in TakesBlocks /\ xfer'[v].req.drive = d /\ drive[d].st # "data"
                      /\ drive[d].lba = Block(xfer'[v].req, Len(xfer'[v].buffer))
                      /\ drive[d].left > 0
                      /\ drive[d].left + Len(xfer'[v].buffer) = xfer'[v].req.count % Byte
  BY DEF DriveServes
<1>1. PICK v \in Thread :
        /\ mtx = v /\ xfer[v].pc \in TakesBlocks /\ xfer[v].req.drive = d /\ drive[d].st # "data"
        /\ drive[d].lba = Block(xfer[v].req, Len(xfer[v].buffer))
        /\ drive[d].left > 0 /\ drive[d].left + Len(xfer[v].buffer) = xfer[v].req.count % Byte
  BY DEF DiskInv, DriveServes
<1>2. xfer'[v] = xfer[v] /\ mtx' = v
  BY <1>1 DEF OthersOf
<1> QED  BY <1>1, <1>2

\* So a step is safe when what it does to its own thread and to the drives is.
LEMMA StepKeeps ==
    ASSUME DiskInv, NEW t \in Thread, OthersOf(t), DiskTypes', ChannelOf(t)', BufferOf(t)',
           xfer'[t].pc = "insw" /\ ~spoilt' => drive'[chan'.sel].st = "drq",
           \A d \in Drive : DriveServes(d)'
    PROVE  DiskInv'
<1>1. ASSUME NEW u \in Thread
      PROVE  /\ ChannelOf(u)' /\ BufferOf(u)'
             /\ xfer'[u].pc = "insw" /\ ~spoilt' => drive'[chan'.sel].st = "drq"
  <2>1. CASE u = t  BY <2>1
  <2>2. CASE u # t  BY <2>2, OthersKeep
  <2> QED  BY <2>1, <2>2
<1> QED  BY <1>1 DEF DiskInv

LEMMA CallKeeps ==
    ASSUME DiskInv, NEW t \in Thread, NEW req \in Request, read_blocks(t, req)
    PROVE  DiskInv'
<1>0. PICK x : x = [NoTransfer EXCEPT !.pc = "lock", !.req = req]  OBVIOUS
<1>1. xfer' = [xfer EXCEPT ![t] = x] /\ xfer[t].pc = "idle" /\ UNCHANGED <<mtx, chan, drive, spoilt>>
  BY <1>0 DEF read_blocks, At
<1>2. /\ DiskTypes' /\ \A u \in Thread \ {t} : xfer'[u] = xfer[u]
      /\ xfer'[t].pc = "lock" /\ xfer'[t].req = req /\ xfer'[t].buffer = <<>> /\ xfer'[t].ok = FALSE
  <2>1. x \in Transfer /\ x.pc = "lock" /\ x.req = req /\ x.buffer = <<>> /\ x.ok = FALSE
    <3>1. NoTransfer \in Transfer /\ NoTransfer.buffer = <<>> /\ NoTransfer.ok = FALSE /\ "lock" \in Place
      BY DEF NoTransfer, Transfer, Place
    <3> QED  BY <1>0, <3>1 DEF Transfer
  <2> QED  BY <1>1, <2>1 DEF DiskInv, DiskTypes
<1>3. OthersOf(t)  BY <1>1, <1>2 DEF OthersOf
<1>4. ChannelOf(t)'
  <2>1. mtx # t  BY <1>1 DEF DiskInv, ChannelOf, Has
  <2> QED  BY <1>1, <1>2, <2>1 DEF ChannelOf, Has, DriveSelected
<1>5. BufferOf(t)'  BY <1>2 DEF BufferOf
<1>6. \A d \in Drive : DriveServes(d)'  BY <1>1, <1>3, DrivesKeep DEF TakesBlocks
<1> QED  BY <1>2, <1>3, <1>4, <1>5, <1>6, StepKeeps

\* Steps that only change where a thread is, and the channel or its lock.
LEMMA GoKeeps ==
    ASSUME DiskInv, NEW t \in Thread, NEW pc \in Has \cup {"done"}, Go(t, pc),
           UNCHANGED <<drive, spoilt>>, DiskTypes',
           \A u \in Thread \ {t} : mtx' = u <=> mtx = u, mtx = t \/ UNCHANGED chan,
           xfer[t].pc \notin TakesBlocks, pc \notin TakesBlocks, xfer[t].pc # "idle",
           xfer[t].pc \notin BeforeCommand => pc \notin BeforeCommand,
           xfer[t].pc \in {"return", "done"} => pc = "done",
           pc \in Has <=> mtx' = t,
           pc \in DriveSelected => chan'.sel = xfer[t].req.drive,
           pc = "low" => chan'.cnt[1] = 0 /\ chan'.lba[1] = (Block(xfer[t].req, 0) \div Byte) % Byte,
           pc = "command" => /\ chan'.cnt[1] = xfer[t].req.count % Byte /\ chan'.cnt[2] = 0
                             /\ chan'.lba[1] = Block(xfer[t].req, 0) % Byte
                             /\ chan'.lba[2] = (Block(xfer[t].req, 0) \div Byte) % Byte
    PROVE  DiskInv'
<1>1. /\ xfer'[t] = [xfer[t] EXCEPT !.pc = pc]
      /\ \A u \in Thread \ {t} : xfer'[u] = xfer[u]
  BY DEF Go, DiskInv, DiskTypes
<1>2. /\ xfer'[t].pc = pc /\ xfer'[t].req = xfer[t].req /\ xfer'[t].buffer = xfer[t].buffer
      /\ xfer'[t].ok = xfer[t].ok
  BY <1>1 DEF DiskInv, DiskTypes, Transfer
<1>3. OthersOf(t)  BY <1>1 DEF OthersOf
<1>4. ChannelOf(t)'
  <2>1. xfer[t].req \in Request  BY DEF DiskInv, ChannelOf
  <2> QED  BY <1>2, <2>1 DEF ChannelOf
<1>5. BufferOf(t)'
  BY <1>2 DEF DiskInv, BufferOf
<1>6. \A d \in Drive : DriveServes(d)'  BY <1>3, DrivesKeep
<1>7. xfer'[t].pc # "insw"  BY <1>2 DEF TakesBlocks
<1> QED  BY <1>3, <1>4, <1>5, <1>6, <1>7, StepKeeps

\* What the lock and the place of the thread that holds it say.
LEMMA OwnerFacts ==
    ASSUME DiskInv, NEW t \in Thread, xfer[t].pc \in Has
    PROVE  /\ mtx = t /\ xfer[t].req \in Request /\ xfer[t].pc # "idle"
           /\ \A u \in Thread \ {t} : mtx # u
BY DEF DiskInv, ChannelOf, Has

LEMMA ChannelStepsKeep ==
    ASSUME DiskInv, NEW t \in Thread,
           TakeChannel(t) \/ WaitReady(t) \/ SelectDrive(t) \/ WriteHigh(t) \/ WriteLow(t) \/ ReturnTransfer(t)
    PROVE  DiskInv'
<1> USE DEF At
<1>0. /\ Has \cup {"done"} = {"ready", "select", "high", "low", "command", "poll", "insw", "return", "done"}
      /\ \A pc \in Has \cup {"done"} : Go(t, pc) =>
            xfer' \in [Thread -> Transfer]
  <2>1. Has \cup {"done"} = {"ready", "select", "high", "low", "command", "poll", "insw", "return", "done"}
    BY DEF Has
  <2>2. ASSUME NEW pc \in Has \cup {"done"}, Go(t, pc) PROVE xfer' \in [Thread -> Transfer]
    <3>1. xfer \in [Thread -> Transfer] /\ pc \in Place  BY DEF DiskInv, DiskTypes, Place
    <3>2. [xfer[t] EXCEPT !.pc = pc] \in Transfer  BY <3>1 DEF Transfer
    <3>3. xfer' = [xfer EXCEPT ![t] = [xfer[t] EXCEPT !.pc = pc]]  BY <2>2, <3>1 DEF Go
    <3> QED  BY <3>1, <3>2, <3>3
  <2> QED  BY <2>1, <2>2
<1>1. CASE TakeChannel(t)
  <2>1. /\ xfer[t].pc = "lock" /\ mtx = Nobody /\ mtx' = t /\ Go(t, "ready")
        /\ UNCHANGED <<chan, drive, spoilt>>
    BY <1>1 DEF TakeChannel
  <2>2. DiskTypes'  BY <1>0, <2>1 DEF DiskInv, DiskTypes
  <2>3. \A u \in Thread \ {t} : mtx' = u <=> mtx = u  BY <2>1, DiskAssumption
  <2> QED  BY <2>1, <2>2, <2>3, GoKeeps DEF Has, TakesBlocks, DriveSelected, BeforeCommand
<1>2. CASE WaitReady(t)
  <2>1. xfer[t].pc = "ready" /\ Go(t, "select") /\ UNCHANGED <<mtx, chan, drive, spoilt>>
    BY <1>2 DEF WaitReady
  <2>2. DiskTypes'  BY <1>0, <2>1 DEF DiskInv, DiskTypes
  <2>3. mtx = t  BY <2>1, OwnerFacts DEF Has
  <2> QED  BY <2>1, <2>2, <2>3, GoKeeps DEF Has, TakesBlocks, DriveSelected, BeforeCommand
<1>3. CASE SelectDrive(t)
  <2>1. /\ xfer[t].pc = "select" /\ Go(t, "high") /\ UNCHANGED <<mtx, drive, spoilt>>
        /\ chan' = [chan EXCEPT !.sel = xfer[t].req.drive]
    BY <1>3 DEF SelectDrive
  <2>2. mtx = t /\ xfer[t].req.drive \in Drive  BY <2>1, OwnerFacts, RequestFacts DEF Has
  <2>3. DiskTypes' /\ chan'.sel = xfer[t].req.drive  BY <1>0, <2>1, <2>2 DEF DiskInv, DiskTypes, Channel
  <2> QED  BY <2>1, <2>2, <2>3, GoKeeps DEF Has, TakesBlocks, DriveSelected, BeforeCommand
<1>4. CASE WriteHigh(t)
  <2>1. /\ xfer[t].pc = "high" /\ Go(t, "low") /\ UNCHANGED <<mtx, drive, spoilt>>
        /\ chan' = [chan EXCEPT !.cnt = <<0 % Byte, chan.cnt[1]>>,
                                !.lba = <<(Block(xfer[t].req, 0) \div Byte) % Byte, chan.lba[1]>>]
    BY <1>4 DEF WriteHigh, Written
  <2>2. mtx = t /\ xfer[t].req \in Request  BY <2>1, OwnerFacts DEF Has
  <2>3. PICK b \in Nat : b = Block(xfer[t].req, 0)  BY <2>2, RequestFacts
  <2>4. 0 % Byte = 0 /\ (b \div Byte) % Byte \in Nat  BY <2>3, DiskAssumption
  <2>8. PICK h \in Nat : h = (b \div Byte) % Byte  BY <2>4
  <2>9. chan' = [chan EXCEPT !.cnt = <<0, chan.cnt[1]>>, !.lba = <<h, chan.lba[1]>>]
    BY <2>1, <2>3, <2>4, <2>8
  <2>5. /\ chan' \in Channel
        /\ chan'.sel = chan.sel /\ chan'.cnt[1] = 0 /\ chan'.lba[1] = (b \div Byte) % Byte
    BY <2>8, <2>9 DEF DiskInv, DiskTypes, Channel
  <2>6. DiskTypes'  BY <1>0, <2>1, <2>5 DEF DiskInv, DiskTypes
  <2>7. chan'.sel = xfer[t].req.drive  BY <2>1, <2>5 DEF DiskInv, ChannelOf, DriveSelected
  <2> QED  BY <2>1, <2>2, <2>3, <2>5, <2>6, <2>7, GoKeeps DEF Has, TakesBlocks, DriveSelected, BeforeCommand
<1>5. CASE WriteLow(t)
  <2>1. /\ xfer[t].pc = "low" /\ Go(t, "command") /\ UNCHANGED <<mtx, drive, spoilt>>
        /\ chan' = [chan EXCEPT !.cnt = <<xfer[t].req.count % Byte, chan.cnt[1]>>,
                                !.lba = <<Block(xfer[t].req, 0) % Byte, chan.lba[1]>>]
    BY <1>5 DEF WriteLow, Written
  <2>2. mtx = t /\ xfer[t].req \in Request  BY <2>1, OwnerFacts DEF Has
  <2>3. PICK b \in Nat, n \in Nat : b = Block(xfer[t].req, 0) /\ n = xfer[t].req.count
    BY <2>2, RequestFacts
  <2>4. b % Byte \in Nat /\ n % Byte \in Nat  BY <2>3, RemainderBounds, DiskAssumption
  <2>5. /\ chan' \in Channel
        /\ chan'.sel = chan.sel /\ chan'.cnt[1] = n % Byte /\ chan'.lba[1] = b % Byte
        /\ chan'.cnt[2] = chan.cnt[1] /\ chan'.lba[2] = chan.lba[1]
    BY <2>1, <2>3, <2>4 DEF DiskInv, DiskTypes, Channel
  <2>6. DiskTypes'  BY <1>0, <2>1, <2>5 DEF DiskInv, DiskTypes
  <2>7. /\ chan'.sel = xfer[t].req.drive /\ chan'.cnt[2] = 0
        /\ chan'.lba[2] = (b \div Byte) % Byte
    BY <2>1, <2>3, <2>5 DEF DiskInv, ChannelOf, DriveSelected
  <2> QED  BY <2>1, <2>2, <2>3, <2>5, <2>6, <2>7, GoKeeps DEF Has, TakesBlocks, DriveSelected, BeforeCommand
<1>6. CASE ReturnTransfer(t)
  <2>1. /\ xfer[t].pc = "return" /\ Go(t, "done") /\ mtx' = Nobody
        /\ UNCHANGED <<chan, drive, spoilt>>
    BY <1>6 DEF ReturnTransfer
  <2>2. DiskTypes'  BY <1>0, <2>1 DEF DiskInv, DiskTypes
  <2>3. mtx = t /\ \A u \in Thread \ {t} : mtx' = u <=> mtx = u
    BY <2>1, OwnerFacts, DiskAssumption DEF Has
  <2>4. mtx' # t  BY <2>1, DiskAssumption
  <2> QED  BY <2>1, <2>2, <2>3, <2>4, GoKeeps DEF Has, TakesBlocks, DriveSelected, BeforeCommand
<1> QED  BY <1>1, <1>2, <1>3, <1>4, <1>5, <1>6

LEMMA TakeResultKeeps ==
    ASSUME DiskInv, NEW t \in Thread, TakeResult(t)
    PROVE  DiskInv'
<1>1. /\ xfer[t].pc = "done" /\ xfer' = [xfer EXCEPT ![t] = NoTransfer]
      /\ UNCHANGED <<mtx, chan, drive, spoilt>>
  BY DEF TakeResult, At
<1>2. /\ xfer'[t] = NoTransfer /\ \A u \in Thread \ {t} : xfer'[u] = xfer[u]
      /\ DiskTypes'
  <2>1. NoTransfer \in Transfer
    BY DEF NoTransfer, Transfer, Place
  <2> QED  BY <1>1, <2>1 DEF DiskInv, DiskTypes
<1>3. /\ xfer'[t].pc = "idle" /\ xfer'[t].buffer = <<>> /\ xfer'[t].ok = FALSE
  BY <1>2 DEF NoTransfer
<1>4. OthersOf(t)  BY <1>1, <1>2 DEF OthersOf
<1>5. mtx # t  BY <1>1 DEF DiskInv, ChannelOf, Has
<1>6. ChannelOf(t)'  BY <1>1, <1>3, <1>5 DEF ChannelOf, Has, DriveSelected
<1>7. BufferOf(t)'  BY <1>3 DEF BufferOf
<1>8. \A d \in Drive : DriveServes(d)'  BY <1>1, <1>4, DrivesKeep DEF TakesBlocks
<1> QED  BY <1>2, <1>3, <1>4, <1>6, <1>7, <1>8, StepKeeps

\* A drive finds its block or fails: it stays at the block it was at.
LEMMA DriveStepKeeps ==
    ASSUME DiskInv, NEW d \in Drive, DriveStep(d)
    PROVE  DiskInv'
<1>1. PICK st \in {"drq", "err", "df"} :
        /\ drive' = [drive EXCEPT ![d].st = st] /\ drive[d].st = "busy"
        /\ UNCHANGED <<mtx, chan, xfer, spoilt>>
  BY DEF DriveStep
<1>2. /\ drive'[d].st = st /\ drive'[d].lba = drive[d].lba /\ drive'[d].left = drive[d].left
      /\ \A e \in Drive \ {d} : drive'[e] = drive[e]
      /\ DiskTypes'
  BY <1>1 DEF DiskInv, DiskTypes, Status
<1>3. ASSUME NEW t \in Thread PROVE ChannelOf(t)' /\ BufferOf(t)'
  <2>1. ChannelOf(t) /\ BufferOf(t)  BY DEF DiskInv
  <2> QED  BY <2>1, <1>1 DEF ChannelOf, BufferOf
<1>4. ASSUME NEW e \in Drive PROVE DriveServes(e)'
  <2>1. DriveServes(e)  BY DEF DiskInv
  <2>2. CASE e # d  BY <2>1, <2>2, <1>1, <1>2 DEF DriveServes
  <2>3. CASE e = d  BY <2>1, <2>3, <1>1, <1>2 DEF DriveServes
  <2> QED  BY <2>2, <2>3
<1>5. ASSUME NEW t \in Thread, xfer[t].pc = "insw", ~spoilt PROVE drive'[chan.sel].st = "drq"
  <2>1. drive[chan.sel].st = "drq" /\ chan.sel \in Drive  BY <1>5 DEF DiskInv, DiskTypes, Channel
  <2> QED  BY <2>1, <1>1, <1>2
<1> QED  BY <1>1, <1>2, <1>3, <1>4, <1>5 DEF DiskInv

\* The command is given to a drive that is ready for it, with the whole block address.
LEMMA WriteCommandKeeps ==
    ASSUME DiskInv, NEW t \in Thread, WriteCommand(t)
    PROVE  DiskInv'
<1>1. PICK r \in Request : r = xfer[t].req /\ mtx = t /\ xfer[t].pc = "command"
  BY OwnerFacts DEF WriteCommand, At, Has
<1>2. PICK b \in Nat : b = Block(r, 0) /\ b < Byte * Byte  BY RequestFacts
<1>3. r.op \in {"read", "write"} /\ r.count \in Nat /\ r.drive \in Drive  BY RequestFacts
<1>4. PICK pc \in {"return", "poll"}, ok \in BOOLEAN :
        /\ pc = IF r.op = "write" \/ r.count = 0 THEN "return" ELSE "poll"
        /\ ok = (r.op = "write" \/ r.count = 0)
        /\ xfer' = [xfer EXCEPT ![t].pc = pc, ![t].ok = ok]
  BY <1>1 DEF WriteCommand
<1>5. /\ drive' = Commanded(r.op) /\ spoilt' = (spoilt \/ r.op = "write" \/ r.count % Byte = 0)
      /\ UNCHANGED <<mtx, chan>>
  BY <1>1 DEF WriteCommand
<1>6. /\ xfer'[t].pc = pc /\ xfer'[t].ok = ok /\ xfer'[t].req = r /\ xfer'[t].buffer = xfer[t].buffer
      /\ \A u \in Thread \ {t} : xfer'[u] = xfer[u]
      /\ xfer' \in [Thread -> Transfer]
  <2>1. xfer \in [Thread -> Transfer] /\ pc \in Place  BY <1>4 DEF DiskInv, DiskTypes, Place, Has
  <2>2. PICK x : x = [xfer[t] EXCEPT !.pc = pc, !.ok = ok]  OBVIOUS
  <2>3. x \in Transfer /\ x.pc = pc /\ x.ok = ok /\ x.req = r /\ x.buffer = xfer[t].buffer
    BY <2>1, <2>2, <1>1 DEF Transfer
  <2>4. xfer' = [xfer EXCEPT ![t] = x]  BY <2>1, <2>2, <1>4
  <2> QED  BY <2>1, <2>3, <2>4
<1>7. xfer[t].buffer = <<>>  BY <1>1 DEF DiskInv, BufferOf, BeforeCommand
<1>8. /\ chan.sel = r.drive /\ chan.cnt[1] = r.count % Byte /\ chan.cnt[2] = 0
      /\ chan.lba[1] = b % Byte /\ chan.lba[2] = (b \div Byte) % Byte
  BY <1>1, <1>2 DEF DiskInv, ChannelOf, DriveSelected
<1>9. AddressOf(chan.lba) = b
  BY <1>2, <1>8, Halves, DiskAssumption DEF AddressOf
<1>10. AddressOf(chan.cnt) = r.count % Byte
  <2>1. r.count % Byte \in Nat  BY <1>3, RemainderBounds, DiskAssumption
  <2> QED  BY <1>8, <2>1, DiskAssumption DEF AddressOf
<1>11. CountOfSectors(chan.cnt) \in Int /\ (r.count % Byte # 0 => CountOfSectors(chan.cnt) = r.count % Byte)
  <2>1. r.count % Byte \in Nat  BY <1>3, RemainderBounds, DiskAssumption
  <2>2. Byte * Byte \in Int  BY DiskAssumption
  <2> QED  BY <1>10, <2>1, <2>2 DEF CountOfSectors
<1>12. /\ drive' \in [Drive -> [st : Status, lba : Int, left : Int]]
       /\ \A d \in Drive \ {r.drive} : drive'[d] = drive[d]
       /\ drive[r.drive].st \notin {"drq", "data"} =>
             drive'[r.drive] = [st |-> IF r.op = "read" THEN "busy" ELSE "data",
                                lba |-> b, left |-> CountOfSectors(chan.cnt)]
  BY <1>3, <1>5, <1>8, <1>9, <1>11 DEF DiskInv, DiskTypes, Commanded, Status, ata_read_status
<1>13. DiskTypes'
  BY <1>1, <1>5, <1>6, <1>12 DEF DiskInv, DiskTypes
<1>14. OthersOf(t)  BY <1>1, <1>5, <1>6 DEF OthersOf
<1>15. ChannelOf(t)'
  BY <1>1, <1>4, <1>5, <1>6, <1>8 DEF ChannelOf, Has, DriveSelected
<1>16. BufferOf(t)'
  <2>1. ok => spoilt' /\ pc = "return"  
    <3>1. 0 % Byte = 0  BY DiskAssumption
    <3> QED  BY <3>1, <1>4, <1>5
  <2> QED  BY <2>1, <1>4, <1>6, <1>7 DEF BufferOf, BeforeCommand
<1>17. ASSUME NEW d \in Drive PROVE DriveServes(d)'
  <2> SUFFICES ASSUME ~spoilt', drive'[d].st \in {"busy", "drq", "data"}
               PROVE  /\ mtx' = t /\ xfer'[t].pc \in TakesBlocks /\ xfer'[t].req.drive = d /\ drive'[d].st # "data"
                      /\ drive'[d].lba = Block(xfer'[t].req, Len(xfer'[t].buffer))
                      /\ drive'[d].left > 0
                      /\ drive'[d].left + Len(xfer'[t].buffer) = xfer'[t].req.count % Byte
    BY DEF DriveServes
  <2>1. ~spoilt /\ r.op = "read" /\ r.count % Byte # 0  BY <1>3, <1>5
  <2>2. \A e \in Drive : drive[e].st \notin {"busy", "drq", "data"}
    BY <2>1, <1>1 DEF DiskInv, DriveServes, TakesBlocks
  <2>3. d = r.drive  BY <2>2, <1>12
  <2>4. /\ drive'[d].st = "busy" /\ drive'[d].lba = b /\ drive'[d].left = r.count % Byte
    BY <2>1, <2>2, <2>3, <1>3, <1>11, <1>12
  <2>5. r.count # 0
    <3>1. 0 % Byte = 0  BY DiskAssumption
    <3> QED  BY <2>1, <3>1
  <2>6. pc = "poll"  BY <2>1, <2>5, <1>4
  <2>7. Len(xfer'[t].buffer) = 0  BY <1>6, <1>7
  <2>8. r.count % Byte > 0 /\ (r.count % Byte) + 0 = r.count % Byte
    BY <2>1, <1>3, RemainderBounds, DiskAssumption
  <2> QED  BY <1>1, <1>2, <1>5, <1>6, <2>3, <2>4, <2>6, <2>7, <2>8 DEF TakesBlocks
<1>18. xfer'[t].pc # "insw"  BY <1>6
<1> QED  BY <1>13, <1>14, <1>15, <1>16, <1>17, <1>18, StepKeeps

\* ata_poll: with data the thread goes on to read it, and without the drive owes it nothing.
LEMMA PollDriveKeeps ==
    ASSUME DiskInv, NEW t \in Thread, PollDrive(t)
    PROVE  DiskInv'
<1>1. PICK pc \in {"insw", "return"} :
        /\ pc = IF drive[chan.sel].st \in {"drq", "data"} THEN "insw" ELSE "return"
        /\ xfer' = [xfer EXCEPT ![t].pc = pc] /\ xfer[t].pc = "poll" /\ drive[chan.sel].st # "busy"
        /\ UNCHANGED <<mtx, chan, drive, spoilt>>
  BY DEF PollDrive, At, Go, ata_read_status
<1>2. mtx = t /\ xfer[t].req \in Request /\ chan.sel = xfer[t].req.drive
  <2>1. xfer[t].pc \in Has /\ xfer[t].pc \in DriveSelected  BY <1>1 DEF Has, DriveSelected
  <2> QED  BY <2>1, OwnerFacts DEF DiskInv, ChannelOf
<1>3. /\ xfer'[t].pc = pc /\ xfer'[t].req = xfer[t].req /\ xfer'[t].buffer = xfer[t].buffer
      /\ xfer'[t].ok = xfer[t].ok /\ \A u \in Thread \ {t} : xfer'[u] = xfer[u]
      /\ DiskTypes'
  <2>1. xfer \in [Thread -> Transfer] /\ pc \in Place  BY DEF DiskInv, DiskTypes, Place, Has
  <2>2. PICK x : x = [xfer[t] EXCEPT !.pc = pc]  OBVIOUS
  <2>3. x \in Transfer /\ x.pc = pc /\ x.ok = xfer[t].ok /\ x.req = xfer[t].req /\ x.buffer = xfer[t].buffer
    BY <2>1, <2>2 DEF Transfer
  <2>4. xfer' = [xfer EXCEPT ![t] = x]  BY <2>1, <2>2, <1>1
  <2> QED  BY <2>1, <2>3, <2>4, <1>1 DEF DiskInv, DiskTypes
<1>4. OthersOf(t)  BY <1>1, <1>3 DEF OthersOf
<1>5. ChannelOf(t)'
  BY <1>1, <1>2, <1>3 DEF ChannelOf, Has, DriveSelected
<1>6. BufferOf(t)'
  <2>1. BufferOf(t)  BY DEF DiskInv
  <2> QED  BY <2>1, <1>1, <1>3 DEF BufferOf, BeforeCommand
<1>7. ASSUME NEW d \in Drive PROVE DriveServes(d)'
  <2> SUFFICES ASSUME ~spoilt, drive[d].st \in {"busy", "drq", "data"}
               PROVE  /\ mtx' = t /\ xfer'[t].pc \in TakesBlocks /\ xfer'[t].req.drive = d /\ drive[d].st # "data"
                      /\ drive[d].lba = Block(xfer'[t].req, Len(xfer'[t].buffer))
                      /\ drive[d].left > 0
                      /\ drive[d].left + Len(xfer'[t].buffer) = xfer'[t].req.count % Byte
    BY <1>1 DEF DriveServes
  <2>1. /\ xfer[t].req.drive = d /\ drive[d].st # "data"
        /\ drive[d].lba = Block(xfer[t].req, Len(xfer[t].buffer))
        /\ drive[d].left > 0 /\ drive[d].left + Len(xfer[t].buffer) = xfer[t].req.count % Byte
    BY <1>2 DEF DiskInv, DriveServes
  <2>2. pc = "insw"  BY <2>1, <1>1, <1>2
  <2> QED  BY <2>1, <2>2, <1>1, <1>2, <1>3 DEF TakesBlocks
<1>8. xfer'[t].pc = "insw" /\ ~spoilt' => drive'[chan'.sel].st = "drq"
  <2> SUFFICES ASSUME pc = "insw", ~spoilt PROVE drive[chan.sel].st = "drq"
    BY <1>1, <1>3
  <2>1. chan.sel \in Drive /\ drive[chan.sel].st \in {"drq", "data"}
    BY <1>1 DEF DiskInv, DiskTypes, Channel
  <2> QED  BY <2>1 DEF DiskInv, DriveServes
<1> QED  BY <1>3, <1>4, <1>5, <1>6, <1>7, <1>8, StepKeeps

\* insw: the block that the drive hands over is the next one of the request, and with the
\* last one the drive is ready again.
LEMMA ReadBlockKeeps ==
    ASSUME DiskInv, NEW t \in Thread, ReadBlock(t)
    PROVE  DiskInv'
<1>0. Len(xfer[t].buffer) \in Nat  BY DEF DiskInv, DiskTypes, Transfer
<1>a. PICK e, d : d = chan.sel /\ e = NextBlock(d)  OBVIOUS
<1>1. PICK n \in Nat, last \in BOOLEAN :
        /\ n = Len(xfer[t].buffer) /\ last = (n + 1 = xfer[t].req.count)
        /\ d = chan.sel /\ e = NextBlock(d)
  BY <1>0, <1>a
<1>2. PICK pc \in {"return", "poll"} : pc = IF last THEN "return" ELSE "poll"  OBVIOUS
<1>3. /\ xfer[t].pc = "insw" /\ UNCHANGED <<mtx, chan, spoilt>>
      /\ xfer' = [xfer EXCEPT ![t].buffer = Append(@, e), ![t].ok = last, ![t].pc = pc]
      /\ drive' = IF drive[d].st # "drq" THEN drive
                  ELSE IF drive[d].left = 1 THEN [drive EXCEPT ![d] = Ready]
                  ELSE [drive EXCEPT ![d] = [st |-> "busy", lba |-> @.lba + 1, left |-> @.left - 1]]
  BY <1>1, <1>2 DEF ReadBlock, At
<1>4. mtx = t /\ xfer[t].req \in Request /\ d = xfer[t].req.drive /\ d \in Drive
  <2>1. xfer[t].pc \in Has /\ xfer[t].pc \in DriveSelected  BY <1>3 DEF Has, DriveSelected
  <2> QED  BY <2>1, <1>1, OwnerFacts, RequestFacts DEF DiskInv, ChannelOf
<1>5. e \in Drive \X Int
  BY <1>1, <1>4 DEF NextBlock, DiskInv, DiskTypes
<1>6. /\ xfer[t].buffer \in Seq(Drive \X Int)
      /\ Append(xfer[t].buffer, e) \in Seq(Drive \X Int) /\ Len(Append(xfer[t].buffer, e)) = n + 1
      /\ Append(xfer[t].buffer, e)[n + 1] = e
      /\ \A k \in 1..n : Append(xfer[t].buffer, e)[k] = xfer[t].buffer[k]
  BY <1>1, <1>5 DEF DiskInv, DiskTypes, Transfer
<1>7. /\ xfer'[t].pc = pc /\ xfer'[t].req = xfer[t].req /\ xfer'[t].ok = last
      /\ xfer'[t].buffer = Append(xfer[t].buffer, e)
      /\ \A u \in Thread \ {t} : xfer'[u] = xfer[u]
      /\ xfer' \in [Thread -> Transfer]
  <2>1. xfer \in [Thread -> Transfer] /\ pc \in Place  BY <1>2 DEF DiskInv, DiskTypes, Place, Has
  <2>2. PICK b \in Seq(Drive \X Int) : b = Append(xfer[t].buffer, e)  BY <1>6
  <2>3. PICK x : x = [xfer[t] EXCEPT !.buffer = b, !.ok = last, !.pc = pc]  OBVIOUS
  <2>4. x \in Transfer /\ x.pc = pc /\ x.ok = last /\ x.req = xfer[t].req /\ x.buffer = b
    BY <2>1, <2>3 DEF Transfer
  <2>5. xfer' = [xfer EXCEPT ![t] = x]  BY <2>1, <2>2, <2>3, <1>3
  <2> QED  BY <2>1, <2>2, <2>4, <2>5
<1>8. /\ drive' \in [Drive -> [st : Status, lba : Int, left : Int]]
      /\ \A f \in Drive \ {d} : drive'[f] = drive[f]
      /\ drive[d].st = "drq" /\ drive[d].left = 1 => drive'[d].st = "idle"
      /\ drive[d].st = "drq" /\ drive[d].left # 1 =>
            drive'[d].st = "busy" /\ drive'[d].lba = drive[d].lba + 1 /\ drive'[d].left = drive[d].left - 1
  <2>1. drive \in [Drive -> [st : Status, lba : Int, left : Int]] /\ d \in Drive
    BY <1>4 DEF DiskInv, DiskTypes
  <2>2. CASE drive[d].st # "drq"  BY <1>3, <2>1, <2>2
  <2>3. CASE drive[d].st = "drq" /\ drive[d].left = 1
    <3>1. drive' = [drive EXCEPT ![d] = Ready]  BY <1>3, <2>3
    <3>2. Ready \in [st : Status, lba : Int, left : Int] /\ Ready.st = "idle"  BY DEF Ready, Status
    <3> QED  BY <2>1, <2>3, <3>1, <3>2
  <2>4. CASE drive[d].st = "drq" /\ drive[d].left # 1
    <3>1. PICK r : r = [st |-> "busy", lba |-> drive[d].lba + 1, left |-> drive[d].left - 1]  OBVIOUS
    <3>2. drive[d].lba \in Int /\ drive[d].left \in Int  BY <2>1
    <3>3. /\ r \in [st : Status, lba : Int, left : Int]
          /\ r.st = "busy" /\ r.lba = drive[d].lba + 1 /\ r.left = drive[d].left - 1
      BY <3>1, <3>2 DEF Status
    <3>4. drive' = [drive EXCEPT ![d] = r]  BY <1>3, <2>1, <2>4, <3>1
    <3> QED  BY <2>1, <2>4, <3>3, <3>4
  <2> QED  BY <2>2, <2>3, <2>4
<1>9. DiskTypes'  BY <1>3, <1>7, <1>8 DEF DiskInv, DiskTypes
<1>10. OthersOf(t)  BY <1>3, <1>4, <1>7 DEF OthersOf
<1>11. ChannelOf(t)'
  BY <1>1, <1>2, <1>3, <1>4, <1>7 DEF ChannelOf, Has, DriveSelected
<1>12. ASSUME ~spoilt
       PROVE  /\ drive[d].st = "drq" /\ drive[d].lba = Block(xfer[t].req, n)
              /\ drive[d].left \in Int /\ drive[d].left > 0 /\ drive[d].left + n = xfer[t].req.count % Byte
  <2>1. drive[d].st = "drq" /\ drive[d].left \in Int
    BY <1>1, <1>3, <1>4, <1>12 DEF DiskInv, DiskTypes
  <2> QED  BY <2>1, <1>1, <1>4, <1>12 DEF DiskInv, DriveServes
<1>13. BufferOf(t)'
  <2>1. ASSUME ~spoilt, NEW k \in 1..(n + 1)
        PROVE  xfer'[t].buffer[k] = <<xfer[t].req.drive, Block(xfer[t].req, k - 1)>>
    <3>1. CASE k \in 1..n
      <4>1. xfer[t].buffer[k] = <<xfer[t].req.drive, Block(xfer[t].req, k - 1)>>
        BY <2>1, <3>1, <1>1 DEF DiskInv, BufferOf
      <4> QED  BY <4>1, <3>1, <1>6, <1>7
    <3>2. CASE k = n + 1
      <4>1. e = <<d, Block(xfer[t].req, n)>>  BY <1>1, <1>12, <2>1 DEF NextBlock
      <4>2. k - 1 = n  BY <3>2
      <4> QED  BY <4>1, <4>2, <3>2, <1>4, <1>6, <1>7
    <3> QED  BY <3>1, <3>2
  <2>2. last => pc = "return" /\ n + 1 = xfer[t].req.count  BY <1>1, <1>2
  <2>3. pc \notin BeforeCommand  BY DEF BeforeCommand
  <2>4. Len(xfer'[t].buffer) = n + 1  BY <1>6, <1>7
  <2> QED  BY <2>1, <2>2, <2>3, <2>4, <1>3, <1>7 DEF BufferOf
<1>14. ASSUME NEW f \in Drive PROVE DriveServes(f)'
  <2> SUFFICES ASSUME ~spoilt, drive'[f].st \in {"busy", "drq", "data"}
               PROVE  /\ mtx' = t /\ xfer'[t].pc \in TakesBlocks /\ xfer'[t].req.drive = f /\ drive'[f].st # "data"
                      /\ drive'[f].lba = Block(xfer'[t].req, Len(xfer'[t].buffer))
                      /\ drive'[f].left > 0
                      /\ drive'[f].left + Len(xfer'[t].buffer) = xfer'[t].req.count % Byte
    BY <1>3 DEF DriveServes
  <2>1. f = d
    <3> SUFFICES ASSUME f # d PROVE FALSE  OBVIOUS
    <3>1. drive[f].st \in {"busy", "drq", "data"}  BY <1>8
    <3>2. xfer[t].req.drive = f  BY <3>1, <1>4 DEF DiskInv, DriveServes
    <3> QED  BY <3>2, <1>4
  <2>2. drive[d].left # 1  BY <2>1, <1>8, <1>12
  <2>3. /\ drive'[f].st = "busy" /\ drive'[f].lba = drive[d].lba + 1 /\ drive'[f].left = drive[d].left - 1
    BY <2>1, <2>2, <1>8, <1>12
  <2>4. drive'[f].left > 0 /\ drive'[f].left + (n + 1) = xfer[t].req.count % Byte
    BY <2>2, <2>3, <1>12
  <2>5. ~last
    <3>1. xfer[t].req.count \in Nat  BY <1>4, RequestFacts
    <3>2. xfer[t].req.count % Byte <= xfer[t].req.count /\ xfer[t].req.count % Byte \in Nat
      BY <3>1, RemainderBounds, DiskAssumption
    <3>3. PICK c \in Nat, r \in Nat : c = xfer[t].req.count /\ r = xfer[t].req.count % Byte  BY <3>1, <3>2
    <3>4. drive[d].left >= 2 /\ drive[d].left + n = r /\ r <= c  BY <2>2, <3>2, <3>3, <1>12
    <3>5. n + 1 # c  BY <3>4, <1>12
    <3> QED  BY <3>3, <3>5, <1>1
  <2>6. drive'[f].lba = Block(xfer[t].req, n + 1)
    <3>1. Block(xfer[t].req, n) = Block(xfer[t].req, 0) + n /\ Block(xfer[t].req, n + 1) = Block(xfer[t].req, 0) + (n + 1)
      BY <1>4, RequestFacts
    <3>2. Block(xfer[t].req, 0) \in Nat  BY <1>4, RequestFacts
    <3> QED  BY <3>1, <3>2, <2>3, <1>12
  <2>7. Len(xfer'[t].buffer) = n + 1  BY <1>6, <1>7
  <2> QED  BY <2>1, <2>3, <2>4, <2>5, <2>6, <2>7, <1>2, <1>3, <1>4, <1>7 DEF TakesBlocks
<1>15. xfer'[t].pc # "insw"  BY <1>2, <1>7
<1> QED  BY <1>9, <1>10, <1>11, <1>13, <1>14, <1>15, StepKeeps

\* BlocksAreRight for any threads, drives, requests and register width.
THEOREM BlocksRight == DiskSpec => []BlocksAreRight
<1>1. DiskInit => DiskInv
  <2> SUFFICES ASSUME DiskInit PROVE DiskInv  OBVIOUS
  <2>1. /\ chan.sel \in Drive /\ chan \in Channel
    <3>1. PICK s \in Drive : s = CHOOSE d \in Drive : TRUE  BY DiskAssumption
    <3>2. chan = [sel |-> s, cnt |-> <<0, 0>>, lba |-> <<0, 0>>]  BY <3>1 DEF DiskInit
    <3> QED  BY <3>2 DEF Channel
  <2>2. NoTransfer \in Transfer  BY DEF NoTransfer, Transfer, Place
  <2>3. DiskTypes
    <3>1. Ready \in [st : Status, lba : Int, left : Int]  BY DEF Ready, Status
    <3> QED  BY <2>1, <2>2, <3>1 DEF DiskInit, DiskTypes
  <2>4. ASSUME NEW t \in Thread PROVE ChannelOf(t) /\ BufferOf(t) /\ xfer[t].pc # "insw"
    <3>1. xfer[t].pc = "idle" /\ xfer[t].buffer = <<>> /\ xfer[t].ok = FALSE /\ mtx # t
      BY DiskAssumption DEF DiskInit, NoTransfer
    <3> QED  BY <3>1 DEF ChannelOf, BufferOf, Has, DriveSelected
  <2>5. \A d \in Drive : DriveServes(d)  BY DEF DiskInit, DriveServes, Ready
  <2> QED  BY <2>3, <2>4, <2>5 DEF DiskInv
<1>2. DiskInv /\ [DiskNext]_diskVars => DiskInv'
  <2> SUFFICES ASSUME DiskInv, [DiskNext]_diskVars PROVE DiskInv'  OBVIOUS
  <2>1. CASE UNCHANGED diskVars
    BY <2>1 DEF diskVars, DiskInv, DiskTypes, ChannelOf, BufferOf, DriveServes
  <2> QED
    BY <2>1, CallKeeps, ChannelStepsKeep, TakeResultKeeps, DriveStepKeeps, WriteCommandKeeps,
       PollDriveKeeps, ReadBlockKeeps DEF DiskNext, TransferStep
<1>3. DiskInv => BlocksAreRight
  <2> SUFFICES ASSUME DiskInv, NEW t \in Thread, xfer[t].ok, ~spoilt
               PROVE  xfer[t].buffer = [k \in 1..xfer[t].req.count |-> <<xfer[t].req.drive, Block(xfer[t].req, k - 1)>>]
    BY DEF BlocksAreRight
  <2>1. PICK b \in Seq(Drive \X Int) : b = xfer[t].buffer  BY DEF DiskInv, DiskTypes, Transfer
  <2>2. PICK r, n : n \in Nat /\ r = xfer[t].req /\ n = r.count /\ n = Len(b)
    <3>1. Len(b) \in Nat /\ Len(b) = xfer[t].req.count  BY <2>1 DEF DiskInv, BufferOf
    <3> QED  BY <3>1
  <2>3. \A k \in 1..n : b[k] = <<r.drive, Block(r, k - 1)>>
    BY <2>1, <2>2 DEF DiskInv, BufferOf
  <2>4. b = [k \in 1..n |-> b[k]]  BY <2>2
  <2> QED  BY <2>1, <2>2, <2>3, <2>4
<1> QED  BY <1>1, <1>2, <1>3, PTL DEF DiskSpec

----------------------------------------------------------------------------
(* Interrupts.  The local APIC gets the first vector behind the exceptions and the keyboard
   the second. *)

TimerVector == Exceptions
KeyVector == Exceptions + 1
Late == {"devices", "attach", "up"}
Phases == {"gates", "handlers", "lapic", "ioapic", "timer", "calibrate", "periodic", "run"} \cup Late
IRQ(class, handler) == [class |-> class, handler |-> handler]
IRQs == [class : {"none", "exception", "software", "lapic", "ioapic"},
         handler : {"none", "trap", "fault", "ksys", "usys", "timer", "keyboard"}]
SyscallCode == [vec |-> UserSyscall, pc |-> "call"]
Code == [vec : Vector \cup {-1}, pc : {"user", "dispatch", "body", "call", "eoi", "restore"}]
Frame == [run : Code, if : BOOLEAN, words : {FrameWords}]
Timer == [masked : BOOLEAN, vector : Nat, initial : Nat, periodic : BOOLEAN, elapsed : Nat, frequency : Nat]

IrqTypes ==
    /\ phase \in Phases /\ desc \in [Vector -> IRQs]
    /\ redir \in [0..Pins -> [vector : Nat, masked : BOOLEAN]]
    /\ lapic \in [irr : SUBSET Vector, isr : SUBSET Vector, timer : Timer]
    /\ cpu \in [if : BOOLEAN, thread : CpuThread, run : Code]
    /\ ctx \in [CpuThread -> Seq(Frame)] /\ stopped \subseteq CpuThread

\* Which vectors have a handler in each phase of the start-up.
VectorsAreSet ==
    /\ phase = "gates" => \A v \in Vector : desc[v] = NoIRQ
    /\ phase = "handlers" => \A v \in Vector : v >= Exceptions => desc[v] = NoIRQ
    /\ phase \notin {"gates", "handlers"} =>
          /\ desc[PageFault].handler = "fault"
          /\ desc[KernelSyscall] = IRQ("software", "ksys") /\ desc[UserSyscall] = IRQ("software", "usys")
          /\ phase = "lapic" => desc[TimerVector] = NoIRQ
          /\ phase \in {"ioapic", "timer"} => desc[TimerVector] = IRQ("lapic", "none")
          /\ phase \notin {"lapic", "ioapic", "timer"} => desc[TimerVector] = IRQ("lapic", "timer")
          /\ phase \notin {"attach", "up"} => desc[KeyVector] = NoIRQ
          /\ phase = "attach" => desc[KeyVector] = IRQ("ioapic", "none")
          /\ phase = "up" => desc[KeyVector] = IRQ("ioapic", "keyboard")

\* Only the timer and, once its pin is routed, the keyboard can interrupt.
SourcesAreRouted ==
    /\ \A p \in 0..Pins : redir[p].vector = 0 \/ (phase \in {"attach", "up"} /\ redir[p].vector = KeyVector)
    /\ phase \in {"attach", "up"} => redir[KeyboardPin].vector = KeyVector
    /\ lapic.irr \subseteq {TimerVector} \cup (IF phase \in {"attach", "up"} THEN {KeyVector} ELSE {})
    /\ phase \notin {"gates", "handlers", "lapic"} => lapic.timer.vector = TimerVector
    /\ lapic.timer.periodic => phase \in {"run"} \cup Late
    /\ phase = "periodic" => lapic.timer.frequency = Frequency(lapic.timer.elapsed)
    /\ phase \in {"run"} \cup Late => lapic.timer.initial = PeriodOf(Frequency(lapic.timer.elapsed))

\* What the processor can be executing: a program, a device's handler, a page fault, the
\* kernel's system call, or a user's, which alone runs with interrupts enabled.
CodeIsKnown ==
    LET r == cpu.run IN
    \/ r = User /\ (cpu.if <=> phase \in Late)
    \/ r.vec \in {TimerVector, KeyVector} /\ r.pc \in {"dispatch", "body", "eoi", "restore"} /\ ~cpu.if
         /\ phase \in Late /\ (r.vec = KeyVector => phase \in {"attach", "up"})
    \/ r.vec = PageFault /\ r.pc \in {"dispatch", "body"} /\ ~cpu.if /\ phase = "up"
    \/ r.vec \in {KernelSyscall, UserSyscall} /\ r.pc \in {"dispatch", "body", "restore"} /\ ~cpu.if /\ phase = "up"
    \/ r = SyscallCode /\ cpu.if /\ phase = "up"

\* In service is the device whose handler has not acknowledged it; a thread that faulted is
\* current only until the kernel's system call has chosen another.
ServiceIsRight ==
    /\ lapic.isr = IF cpu.run.vec \in {TimerVector, KeyVector} /\ cpu.run.pc # "restore" THEN {cpu.run.vec} ELSE {}
    /\ cpu.thread \in stopped => cpu.run.vec = KernelSyscall /\ cpu.run.pc \in {"dispatch", "body"}

\* Below a system call on a chain is the program that made it.
ChainOf(t) ==
    /\ t # cpu.thread \/ cpu.run # User => ctx[t] # <<>>
    /\ t \notin stopped =>
          \A k \in 1..Len(ctx[t]) :
              ctx[t][k].if /\ (ctx[t][k].run = User \/ (ctx[t][k].run = SyscallCode /\ k < Len(ctx[t]) /\ phase = "up"))

IrqInv == IrqTypes /\ VectorsAreSet /\ SourcesAreRouted /\ CodeIsKnown /\ ServiceIsRight /\ \A t \in CpuThread : ChainOf(t)

\* The vectors in use are different ones.
LEMMA VectorFacts ==
    /\ {TimerVector, KeyVector, PageFault, Trap, KernelSyscall, UserSyscall} \subseteq Vector
    /\ TimerVector \in Nat /\ KeyVector \in Nat /\ -1 \notin Vector
    /\ TimerVector # KeyVector /\ KernelSyscall # UserSyscall
    /\ {TimerVector, KeyVector} \cap {PageFault, KernelSyscall, UserSyscall} = {}
    /\ PageFault \notin {KernelSyscall, UserSyscall}
    /\ TimerVector >= Exceptions /\ KeyVector >= Exceptions /\ KernelSyscall >= Exceptions /\ UserSyscall >= Exceptions
    /\ 0 < Exceptions /\ 0 \notin {TimerVector, KeyVector}
BY InterruptAssumption DEF TimerVector, KeyVector, Vector

\* install_handler changes one entry.
LEMMA Installed ==
    ASSUME NEW d \in [Vector -> IRQs], NEW v \in Vector, NEW class \in {"exception", "software"},
           NEW handler \in {"trap", "fault", "ksys", "usys"}
    PROVE  /\ install_handler(d, class, v, handler) \in [Vector -> IRQs]
           /\ install_handler(d, class, v, handler)[v].handler = handler
           /\ d[v] = NoIRQ => install_handler(d, class, v, handler)[v] = IRQ(class, handler)
           /\ \A w \in Vector \ {v} : install_handler(d, class, v, handler)[w] = d[w]
<1>1. PICK e : e = [class |-> IF d[v].class = "none" THEN class ELSE d[v].class, handler |-> handler]
  OBVIOUS
<1>2. e \in IRQs /\ e.handler = handler /\ (d[v] = NoIRQ => e = IRQ(class, handler))
  BY <1>1 DEF IRQs, NoIRQ, IRQ
<1>3. install_handler(d, class, v, handler) = [d EXCEPT ![v] = e]
  BY <1>1 DEF install_handler
<1> QED  BY <1>2, <1>3

\* attach_irq finds the first free vector.
LEMMA AttachFirst ==
    ASSUME IrqInv, phase = "lapic"
    PROVE  attach_irq = TimerVector
<1>1. desc[TimerVector] = NoIRQ  BY DEF IrqInv, VectorsAreSet
<1>2. TimerVector \in Exceptions..MaxVector /\ \A w \in Exceptions..(TimerVector - 1) : desc[w] # NoIRQ
  BY InterruptAssumption DEF TimerVector
<1>3. ASSUME NEW v \in Exceptions..MaxVector, \A w \in Exceptions..(v - 1) : desc[w] # NoIRQ
      PROVE  v = TimerVector
  BY <1>1, <1>3, InterruptAssumption DEF TimerVector
<1> QED  BY <1>1, <1>2, <1>3 DEF attach_irq

LEMMA AttachSecond ==
    ASSUME IrqInv, phase = "devices"
    PROVE  attach_irq = KeyVector
<1>1. desc[TimerVector] # NoIRQ /\ desc[KeyVector] = NoIRQ
  BY DEF IrqInv, VectorsAreSet, NoIRQ, IRQ
<1>2. KeyVector \in Exceptions..MaxVector /\ \A w \in Exceptions..(KeyVector - 1) : desc[w] # NoIRQ
  BY <1>1, InterruptAssumption DEF TimerVector, KeyVector
<1>3. ASSUME NEW v \in Exceptions..MaxVector, desc[v] = NoIRQ, \A w \in Exceptions..(v - 1) : desc[w] # NoIRQ
      PROVE  v = KeyVector
  <2>1. v # TimerVector  BY <1>1, <1>3
  <2>2. ~(KeyVector \in Exceptions..(v - 1))  BY <1>1, <1>3
  <2> QED  BY <2>1, <2>2, InterruptAssumption DEF TimerVector, KeyVector
<1> QED  BY <1>1, <1>2, <1>3 DEF attach_irq

\* Steps of the start-up happen in a thread's own code, and leave the chains alone.
LEMMA StartKeeps ==
    ASSUME IrqInv, cpu.run = User, phase # "up", phase' \in Late <=> phase \in Late,
           UNCHANGED <<cpu, ctx, stopped>>, lapic'.isr = {}
    PROVE  CodeIsKnown' /\ ServiceIsRight' /\ \A t \in CpuThread : ChainOf(t)'
<1>1. cpu.if <=> phase \in Late
  BY VectorFacts DEF IrqInv, CodeIsKnown, User, SyscallCode
<1>2. CodeIsKnown'  BY <1>1 DEF CodeIsKnown
<1>3. cpu.run.vec \notin {TimerVector, KeyVector}  BY VectorFacts DEF User
<1>4. ServiceIsRight'  BY <1>3 DEF IrqInv, ServiceIsRight
<1>5. \A t \in CpuThread : ChainOf(t)'  BY DEF IrqInv, ChainOf
<1> QED  BY <1>2, <1>4, <1>5

LEMMA Earlier ==
    ASSUME IrqInv, phase \notin Late
    PROVE  cpu.run = User /\ lapic.isr = {}
<1>1. cpu.run = User  BY DEF IrqInv, CodeIsKnown, Late
<1> QED  BY <1>1, VectorFacts DEF IrqInv, ServiceIsRight, User

LEMMA InUserCode ==
    ASSUME IrqInv, cpu.run = User
    PROVE  lapic.isr = {} /\ (cpu.if <=> phase \in Late)
BY VectorFacts DEF IrqInv, ServiceIsRight, CodeIsKnown, User, SyscallCode

\* Handlers and devices do not change the vectors.
LEMMA SetupKeeps ==
    ASSUME IrqInv, UNCHANGED <<phase, desc, redir>>, lapic'.timer = lapic.timer,
           lapic'.irr \subseteq lapic.irr \cup {redir[p].vector : p \in 0..Pins} \cup
              (IF phase \in {"run"} \cup Late THEN {TimerVector} ELSE {}),
           0 \notin lapic'.irr
    PROVE  VectorsAreSet' /\ SourcesAreRouted'
<1>1. VectorsAreSet'  BY DEF IrqInv, VectorsAreSet
<1>2. lapic'.irr \subseteq {TimerVector} \cup (IF phase \in {"attach", "up"} THEN {KeyVector} ELSE {})
  BY DEF IrqInv, SourcesAreRouted
<1>3. SourcesAreRouted'
  <2>1. SourcesAreRouted  BY DEF IrqInv
  <2> QED  BY <1>2, <2>1 DEF SourcesAreRouted, Frequency, PeriodOf
<1> QED  BY <1>1, <1>3

----------------------------------------------------------------------------
(* The start-up. *)

LEMMA InitGatesKeeps ==
    ASSUME IrqInv, InitGates
    PROVE  IrqInv'
<1>1. /\ phase = "gates" /\ phase' = "handlers"
      /\ desc' = [v \in Vector |-> IF v < Exceptions THEN IRQ("exception", "none") ELSE NoIRQ]
      /\ UNCHANGED <<redir, lapic, cpu, ctx, stopped>>
  BY DEF InitGates, Phase, IRQ
<1>2. cpu.run = User /\ lapic.isr = {}  BY <1>1, Earlier DEF Late
<1>3. IrqTypes'
  <2>1. IRQ("exception", "none") \in IRQs /\ NoIRQ \in IRQs  BY DEF IRQ, NoIRQ, IRQs
  <2> QED  BY <1>1, <2>1 DEF IrqInv, IrqTypes, Phases
<1>4. VectorsAreSet'
  <2>1. \A v \in Vector : v >= Exceptions => desc'[v] = NoIRQ
    BY <1>1, InterruptAssumption DEF Vector
  <2> QED  BY <1>1, <2>1 DEF VectorsAreSet
<1>5. SourcesAreRouted'
  BY <1>1 DEF IrqInv, SourcesAreRouted, Late
<1> QED  BY <1>1, <1>2, <1>3, <1>4, <1>5, StartKeeps DEF IrqInv, Late

LEMMA InstallHandlersKeeps ==
    ASSUME IrqInv, InstallHandlers
    PROVE  IrqInv'
<1> DEFINE d1 == install_handler(desc, "exception", Trap, "trap")
           d2 == install_handler(d1, "software", KernelSyscall, "ksys")
           d3 == install_handler(d2, "software", UserSyscall, "usys")
           d4 == install_handler(d3, "exception", PageFault, "fault")
<1>1. /\ phase = "handlers" /\ phase' = "lapic" /\ desc' = d4
      /\ UNCHANGED <<redir, lapic, cpu, ctx, stopped>>
  BY DEF InstallHandlers, Phase
<1>2. cpu.run = User /\ lapic.isr = {}  BY <1>1, Earlier DEF Late
<1>3. desc \in [Vector -> IRQs] /\ \A v \in Vector : v >= Exceptions => desc[v] = NoIRQ
  BY <1>1 DEF IrqInv, IrqTypes, VectorsAreSet
<1>4. Trap < Exceptions  BY InterruptAssumption
<1> HIDE DEF d1, d2, d3, d4
<1>5. d1 \in [Vector -> IRQs] /\ \A w \in Vector \ {Trap} : d1[w] = desc[w]
  BY <1>3, Installed, VectorFacts DEF d1
<1>6. /\ Trap \notin {KernelSyscall, UserSyscall, TimerVector, KeyVector}
      /\ d1[KernelSyscall] = NoIRQ /\ d1[UserSyscall] = NoIRQ /\ d1[TimerVector] = NoIRQ /\ d1[KeyVector] = NoIRQ
  <2>1. Trap \notin {KernelSyscall, UserSyscall, TimerVector, KeyVector}
    BY InterruptAssumption DEF TimerVector, KeyVector
  <2> QED  BY <1>3, <1>5, <2>1, VectorFacts
<1>7. /\ d2 \in [Vector -> IRQs] /\ d2[KernelSyscall] = IRQ("software", "ksys")
      /\ \A w \in Vector \ {KernelSyscall} : d2[w] = d1[w]
  BY <1>5, <1>6, Installed, VectorFacts DEF d2
<1>8. /\ d3 \in [Vector -> IRQs] /\ d3[UserSyscall] = IRQ("software", "usys")
      /\ \A w \in Vector \ {UserSyscall} : d3[w] = d2[w]
  <2>1. d2[UserSyscall] = NoIRQ  BY <1>6, <1>7, VectorFacts
  <2> QED  BY <1>7, <2>1, Installed, VectorFacts DEF d3
<1>9. /\ d4 \in [Vector -> IRQs] /\ d4[PageFault].handler = "fault"
      /\ \A w \in Vector \ {PageFault} : d4[w] = d3[w]
  BY <1>8, Installed, VectorFacts DEF d4
<1>10. /\ d4[KernelSyscall] = IRQ("software", "ksys") /\ d4[UserSyscall] = IRQ("software", "usys")
       /\ d4[TimerVector] = NoIRQ /\ d4[KeyVector] = NoIRQ
  BY <1>6, <1>7, <1>8, <1>9, VectorFacts
<1>11. IrqTypes'  BY <1>1, <1>9 DEF IrqInv, IrqTypes, Phases
<1>12. VectorsAreSet'  BY <1>1, <1>9, <1>10 DEF VectorsAreSet
<1>13. SourcesAreRouted'  BY <1>1 DEF IrqInv, SourcesAreRouted, Late
<1> QED  BY <1>1, <1>2, <1>11, <1>12, <1>13, StartKeeps DEF IrqInv, Late

LEMMA InitLAPICKeeps ==
    ASSUME IrqInv, InitLAPIC
    PROVE  IrqInv'
<1>1. /\ phase = "lapic" /\ phase' = "ioapic"
      /\ desc' = [desc EXCEPT ![TimerVector] = IRQ("lapic", "none")]
      /\ lapic' = [lapic EXCEPT !.isr = {}, !.timer.masked = TRUE, !.timer.vector = TimerVector]
      /\ UNCHANGED <<redir, cpu, ctx, stopped>>
  <2>1. phase = "lapic"  BY DEF InitLAPIC, Phase
  <2> QED  BY <2>1, AttachFirst DEF InitLAPIC, Phase, IRQ
<1>2. cpu.run = User /\ lapic.isr = {}  BY <1>1, Earlier DEF Late
<1>3. /\ lapic' \in [irr : SUBSET Vector, isr : SUBSET Vector, timer : Timer] /\ lapic'.isr = {}
      /\ lapic'.irr = lapic.irr /\ lapic'.timer.vector = TimerVector /\ lapic'.timer.periodic = lapic.timer.periodic
  <2>1. lapic \in [irr : SUBSET Vector, isr : SUBSET Vector, timer : Timer]  BY DEF IrqInv, IrqTypes
  <2> QED  BY <1>1, <2>1, VectorFacts DEF Timer
<1>4. /\ desc' \in [Vector -> IRQs] /\ desc'[TimerVector] = IRQ("lapic", "none")
      /\ \A w \in Vector \ {TimerVector} : desc'[w] = desc[w]
  <2>1. IRQ("lapic", "none") \in IRQs  BY DEF IRQ, IRQs
  <2> QED  BY <1>1, <2>1, VectorFacts DEF IrqInv, IrqTypes
<1>5. IrqTypes'  BY <1>1, <1>3, <1>4 DEF IrqInv, IrqTypes, Phases
<1>6. VectorsAreSet'
  <2>1. VectorsAreSet  BY DEF IrqInv
  <2> QED  BY <1>1, <1>4, <2>1, VectorFacts DEF VectorsAreSet
<1>7. SourcesAreRouted'
  <2>1. SourcesAreRouted  BY DEF IrqInv
  <2> QED  BY <1>1, <1>3, <2>1 DEF SourcesAreRouted, Late
<1> QED  BY <1>1, <1>2, <1>3, <1>5, <1>6, <1>7, StartKeeps DEF IrqInv, Late

LEMMA InitIOAPICKeeps ==
    ASSUME IrqInv, InitIOAPIC
    PROVE  IrqInv'
<1>1. /\ phase = "ioapic" /\ phase' = "timer"
      /\ redir' = [p \in 0..Pins |-> IF p < Pins THEN [vector |-> 0, masked |-> FALSE] ELSE redir[p]]
      /\ UNCHANGED <<desc, lapic, cpu, ctx, stopped>>
  BY DEF InitIOAPIC, Phase
<1>2. cpu.run = User /\ lapic.isr = {}  BY <1>1, Earlier DEF Late
<1>3. /\ redir' \in [0..Pins -> [vector : Nat, masked : BOOLEAN]]
      /\ \A p \in 0..Pins : redir'[p].vector = 0
  <2>1. ASSUME NEW p \in 0..Pins PROVE redir[p].vector = 0 /\ redir[p] \in [vector : Nat, masked : BOOLEAN]
    BY <1>1 DEF IrqInv, IrqTypes, SourcesAreRouted
  <2> QED  BY <1>1, <2>1
<1>4. IrqTypes'  BY <1>1, <1>3 DEF IrqInv, IrqTypes, Phases
<1>5. VectorsAreSet'
  <2>1. VectorsAreSet  BY DEF IrqInv
  <2> QED  BY <1>1, <2>1 DEF VectorsAreSet
<1>6. SourcesAreRouted'
  <2>1. SourcesAreRouted  BY DEF IrqInv
  <2> QED  BY <1>1, <1>3, <2>1 DEF SourcesAreRouted, Late
<1> QED  BY <1>1, <1>2, <1>4, <1>5, <1>6, StartKeeps DEF IrqInv, Late

\* A step of the start-up that programs the timer, with vectors in between.
LEMMA TimerSteps ==
    ASSUME IrqInv, BeginCalibration \/ EndCalibration \/ StartTimer
    PROVE  IrqInv'
<1>0. lapic \in [irr : SUBSET Vector, isr : SUBSET Vector, timer : Timer]  BY DEF IrqInv, IrqTypes
<1>1. CASE BeginCalibration
  <2>1. /\ phase = "timer" /\ phase' = "calibrate" /\ lapic.timer.vector = TimerVector
        /\ desc' = [desc EXCEPT ![lapic.timer.vector].handler = "timer"]
        /\ lapic' = [lapic EXCEPT !.timer = [Programmed(@, FALSE, Word32 - 1) EXCEPT !.masked = FALSE]]
        /\ UNCHANGED <<redir, cpu, ctx, stopped>>
    BY <1>1 DEF BeginCalibration, Phase, IrqInv, SourcesAreRouted
  <2>2. cpu.run = User /\ lapic.isr = {}  BY <2>1, Earlier DEF Late
  <2>3. /\ lapic' \in [irr : SUBSET Vector, isr : SUBSET Vector, timer : Timer] /\ lapic'.isr = {}
        /\ lapic'.irr = lapic.irr /\ lapic'.timer.vector = TimerVector /\ lapic'.timer.periodic = FALSE
    <3>1. Word32 - 1 \in Nat  BY InterruptAssumption
    <3>2. PICK n \in Nat : n = Word32 - 1  BY <3>1
    <3> QED  BY <1>0, <2>1, <2>2, <3>2 DEF Programmed, Timer
  <2>4. /\ desc' \in [Vector -> IRQs] /\ desc'[TimerVector] = IRQ("lapic", "timer")
        /\ \A w \in Vector \ {TimerVector} : desc'[w] = desc[w]
    <3>1. desc \in [Vector -> IRQs] /\ desc[TimerVector] = IRQ("lapic", "none")
      BY <2>1 DEF IrqInv, IrqTypes, VectorsAreSet
    <3>2. PICK e : e = [desc[TimerVector] EXCEPT !.handler = "timer"]  OBVIOUS
    <3>3. e = IRQ("lapic", "timer") /\ e \in IRQs  BY <3>1, <3>2 DEF IRQ, IRQs
    <3>4. desc' = [desc EXCEPT ![TimerVector] = e]  BY <2>1, <3>2
    <3> QED  BY <3>1, <3>3, <3>4, VectorFacts
  <2>5. IrqTypes'  BY <2>1, <2>3, <2>4 DEF IrqInv, IrqTypes, Phases
  <2>6. VectorsAreSet'
    <3>1. VectorsAreSet  BY DEF IrqInv
    <3> QED  BY <2>1, <2>4, <3>1, VectorFacts DEF VectorsAreSet
  <2>7. SourcesAreRouted'
    <3>1. SourcesAreRouted  BY DEF IrqInv
    <3> QED  BY <2>1, <2>3, <3>1 DEF SourcesAreRouted, Late
  <2> QED  BY <2>1, <2>2, <2>3, <2>5, <2>6, <2>7, StartKeeps DEF IrqInv, Late
<1>2. CASE EndCalibration
  <2>1. PICK n \in Ticks :
          /\ phase = "calibrate" /\ phase' = "periodic" /\ lapic.timer.vector = TimerVector
          /\ lapic' = [lapic EXCEPT !.timer.masked = TRUE, !.timer.elapsed = n, !.timer.frequency = Frequency(n)]
          /\ UNCHANGED <<desc, redir, cpu, ctx, stopped>>
    BY <1>2 DEF EndCalibration, Phase, IrqInv, SourcesAreRouted
  <2>2. cpu.run = User /\ lapic.isr = {}  BY <2>1, Earlier DEF Late
  <2>3. n \in Nat /\ Frequency(n) \in Nat
    <3>1. n * Divide \in Nat  BY InterruptAssumption
    <3>2. ((n * Divide) % Word32) \in Nat  BY <3>1, InterruptAssumption
    <3>3. ((n * Divide) % Word32) * Periods \in Nat  BY <3>2, InterruptAssumption
    <3> QED  BY <3>3, InterruptAssumption DEF Frequency
  <2>4. /\ lapic' \in [irr : SUBSET Vector, isr : SUBSET Vector, timer : Timer] /\ lapic'.isr = {}
        /\ lapic'.irr = lapic.irr /\ lapic'.timer.vector = TimerVector
        /\ lapic'.timer.periodic = lapic.timer.periodic
        /\ lapic'.timer.elapsed = n /\ lapic'.timer.frequency = Frequency(n)
    <3>1. PICK f \in Nat : f = Frequency(n)  BY <2>3
    <3> QED  BY <1>0, <2>1, <2>2, <2>3, <3>1 DEF Timer
  <2>5. IrqTypes'  BY <2>1, <2>4 DEF IrqInv, IrqTypes, Phases
  <2>6. VectorsAreSet'
    <3>1. VectorsAreSet  BY DEF IrqInv
    <3> QED  BY <2>1, <3>1, VectorFacts DEF VectorsAreSet
  <2>7. SourcesAreRouted'
    <3>1. SourcesAreRouted  BY DEF IrqInv
    <3>2. (lapic.timer.periodic => FALSE) /\ Frequency(lapic.timer.elapsed)' = Frequency(n)
      BY <2>1, <2>4, <3>1 DEF SourcesAreRouted, Late, Frequency
    <3> QED  BY <2>1, <2>4, <3>1, <3>2 DEF SourcesAreRouted, Late
  <2> QED  BY <2>1, <2>2, <2>4, <2>5, <2>6, <2>7, StartKeeps DEF IrqInv, Late
<1>3. CASE StartTimer
  <2>1. /\ phase = "periodic" /\ phase' = "run" /\ lapic.timer.vector = TimerVector
        /\ lapic.timer.frequency = Frequency(lapic.timer.elapsed)
        /\ lapic' = [lapic EXCEPT !.timer = [Programmed(@, TRUE, PeriodOf(@.frequency)) EXCEPT !.masked = FALSE]]
        /\ UNCHANGED <<desc, redir, cpu, ctx, stopped>>
    BY <1>3 DEF StartTimer, Phase, IrqInv, SourcesAreRouted
  <2>2. cpu.run = User /\ lapic.isr = {}  BY <2>1, Earlier DEF Late
  <2>3. PICK n \in Nat : n = PeriodOf(lapic.timer.frequency)
    <3>1. lapic.timer.frequency \in Nat  BY <1>0 DEF Timer
    <3>2. lapic.timer.frequency \div Divide \in Nat  BY <3>1, InterruptAssumption
    <3> QED  BY <3>2, InterruptAssumption DEF PeriodOf
  <2>4. /\ lapic' \in [irr : SUBSET Vector, isr : SUBSET Vector, timer : Timer] /\ lapic'.isr = {}
        /\ lapic'.irr = lapic.irr /\ lapic'.timer.vector = TimerVector
        /\ lapic'.timer.elapsed = lapic.timer.elapsed /\ lapic'.timer.initial = n
    BY <1>0, <2>1, <2>2, <2>3 DEF Programmed, Timer
  <2>5. IrqTypes'  BY <2>1, <2>4 DEF IrqInv, IrqTypes, Phases
  <2>6. VectorsAreSet'
    <3>1. VectorsAreSet  BY DEF IrqInv
    <3> QED  BY <2>1, <3>1, VectorFacts DEF VectorsAreSet
  <2>7. SourcesAreRouted'
    <3>1. SourcesAreRouted  BY DEF IrqInv
    <3>2. PeriodOf(Frequency(lapic.timer.elapsed))' = n
      BY <2>1, <2>3, <2>4 DEF Frequency, PeriodOf
    <3> QED  BY <2>1, <2>4, <3>1, <3>2 DEF SourcesAreRouted, Late
  <2> QED  BY <2>1, <2>2, <2>4, <2>5, <2>6, <2>7, StartKeeps DEF IrqInv, Late
<1> QED  BY <1>1, <1>2, <1>3

LEMMA RunSchedulerKeeps ==
    ASSUME IrqInv, RunScheduler
    PROVE  IrqInv'
<1>1. /\ phase = "run" /\ phase' = "devices" /\ cpu' = [cpu EXCEPT !.if = TRUE]
      /\ UNCHANGED <<desc, redir, lapic, ctx, stopped>>
  BY DEF RunScheduler, Phase
<1>2. cpu.run = User /\ lapic.isr = {}  BY <1>1, Earlier DEF Late
<1>3. /\ cpu' \in [if : BOOLEAN, thread : CpuThread, run : Code]
      /\ cpu'.if = TRUE /\ cpu'.thread = cpu.thread /\ cpu'.run = User
  BY <1>1, <1>2 DEF IrqInv, IrqTypes
<1>4. IrqTypes'  BY <1>1, <1>3 DEF IrqInv, IrqTypes, Phases, Late
<1>5. VectorsAreSet'
  <2>1. VectorsAreSet  BY DEF IrqInv
  <2> QED  BY <1>1, <2>1 DEF VectorsAreSet
<1>6. SourcesAreRouted'
  <2>1. SourcesAreRouted  BY DEF IrqInv
  <2>2. PeriodOf(Frequency(lapic.timer.elapsed))' = PeriodOf(Frequency(lapic.timer.elapsed))
    BY <1>1 DEF PeriodOf, Frequency
  <2> QED  BY <1>1, <2>1, <2>2 DEF SourcesAreRouted, Late
<1>7. CodeIsKnown'  BY <1>1, <1>3 DEF CodeIsKnown, Late
<1>8. ServiceIsRight'
  <2>1. User.vec \notin {TimerVector, KeyVector}  BY VectorFacts DEF User
  <2> QED  BY <1>1, <1>2, <1>3, <2>1 DEF IrqInv, ServiceIsRight
<1>9. \A t \in CpuThread : ChainOf(t)'  BY <1>1, <1>2, <1>3 DEF IrqInv, ChainOf
<1> QED  BY <1>4, <1>5, <1>6, <1>7, <1>8, <1>9 DEF IrqInv

\* The keyboard's vector is routed, and then gets its handler.
LEMMA KeyboardSteps ==
    ASSUME IrqInv, RequestPin \/ AttachKeyboard
    PROVE  IrqInv'
<1>1. CASE RequestPin
  <2>1. /\ phase = "devices" /\ phase' = "attach" /\ cpu.run = User
        /\ desc' = [desc EXCEPT ![KeyVector] = IRQ("ioapic", "none")]
        /\ redir' = [redir EXCEPT ![KeyboardPin] = [vector |-> KeyVector, masked |-> FALSE]]
        /\ UNCHANGED <<lapic, cpu, ctx, stopped>>
    <3>1. phase = "devices"  BY <1>1 DEF RequestPin, Phase
    <3> QED  BY <1>1, <3>1, AttachSecond DEF RequestPin, Phase, IRQ
  <2>2. lapic.isr = {}  BY <2>1, InUserCode
  <2>3. /\ desc' \in [Vector -> IRQs] /\ desc'[KeyVector] = IRQ("ioapic", "none")
        /\ \A w \in Vector \ {KeyVector} : desc'[w] = desc[w]
    <3>1. IRQ("ioapic", "none") \in IRQs  BY DEF IRQ, IRQs
    <3> QED  BY <2>1, <3>1, VectorFacts DEF IrqInv, IrqTypes
  <2>4. /\ redir' \in [0..Pins -> [vector : Nat, masked : BOOLEAN]]
        /\ redir'[KeyboardPin].vector = KeyVector
        /\ \A p \in 0..Pins : p # KeyboardPin => redir'[p] = redir[p]
    <3>1. [vector |-> KeyVector, masked |-> FALSE] \in [vector : Nat, masked : BOOLEAN]  BY VectorFacts
    <3> QED  BY <2>1, <3>1, InterruptAssumption DEF IrqInv, IrqTypes
  <2>5. IrqTypes'  BY <2>1, <2>3, <2>4 DEF IrqInv, IrqTypes, Phases, Late
  <2>6. VectorsAreSet'
    <3>1. VectorsAreSet  BY DEF IrqInv
    <3> QED  BY <2>1, <2>3, <3>1, VectorFacts DEF VectorsAreSet
  <2>7. SourcesAreRouted'
    <3>1. SourcesAreRouted  BY DEF IrqInv
    <3>2. PeriodOf(Frequency(lapic.timer.elapsed))' = PeriodOf(Frequency(lapic.timer.elapsed))
      BY <2>1 DEF PeriodOf, Frequency
    <3>3. \A p \in 0..Pins : redir'[p].vector = 0 \/ redir'[p].vector = KeyVector
      BY <2>1, <2>4, <3>1 DEF SourcesAreRouted
    <3> QED  BY <2>1, <2>4, <3>1, <3>2, <3>3 DEF SourcesAreRouted, Late
  <2> QED  BY <2>1, <2>2, <2>5, <2>6, <2>7, StartKeeps DEF IrqInv, Late
<1>2. CASE AttachKeyboard
  <2>1. /\ phase = "attach" /\ phase' = "up" /\ cpu.run = User /\ redir[KeyboardPin].vector = KeyVector
        /\ desc' = [desc EXCEPT ![KeyVector].handler = "keyboard"]
        /\ UNCHANGED <<redir, lapic, cpu, ctx, stopped>>
    BY <1>2 DEF AttachKeyboard, Phase, IrqInv, SourcesAreRouted
  <2>2. lapic.isr = {}  BY <2>1, InUserCode
  <2>3. /\ desc' \in [Vector -> IRQs] /\ desc'[KeyVector] = IRQ("ioapic", "keyboard")
        /\ \A w \in Vector \ {KeyVector} : desc'[w] = desc[w]
    <3>1. desc \in [Vector -> IRQs] /\ desc[KeyVector] = IRQ("ioapic", "none")
      BY <2>1 DEF IrqInv, IrqTypes, VectorsAreSet
    <3>2. PICK e : e = [desc[KeyVector] EXCEPT !.handler = "keyboard"]  OBVIOUS
    <3>3. e = IRQ("ioapic", "keyboard") /\ e \in IRQs  BY <3>1, <3>2 DEF IRQ, IRQs
    <3>4. desc' = [desc EXCEPT ![KeyVector] = e]  BY <2>1, <3>2
    <3> QED  BY <3>1, <3>3, <3>4, VectorFacts
  <2>4. IrqTypes'  BY <2>1, <2>3 DEF IrqInv, IrqTypes, Phases, Late
  <2>5. VectorsAreSet'
    <3>1. VectorsAreSet  BY DEF IrqInv
    <3> QED  BY <2>1, <2>3, <3>1, VectorFacts DEF VectorsAreSet
  <2>6. SourcesAreRouted'
    <3>1. SourcesAreRouted  BY DEF IrqInv
    <3>2. PeriodOf(Frequency(lapic.timer.elapsed))' = PeriodOf(Frequency(lapic.timer.elapsed))
      BY <2>1 DEF PeriodOf, Frequency
    <3> QED  BY <2>1, <3>1, <3>2 DEF SourcesAreRouted, Late
  <2> QED  BY <2>1, <2>2, <2>4, <2>5, <2>6, StartKeeps DEF IrqInv, Late
<1> QED  BY <1>1, <1>2
----------------------------------------------------------------------------
(* Devices and handlers. *)

\* What a step that leaves the vectors and the start-up alone has to show.
LEMMA Steady ==
    ASSUME IrqInv, UNCHANGED <<phase, desc, redir>>, lapic'.timer = lapic.timer, lapic'.irr \subseteq lapic.irr,
           lapic' \in [irr : SUBSET Vector, isr : SUBSET Vector, timer : Timer],
           cpu' \in [if : BOOLEAN, thread : CpuThread, run : Code],
           ctx' \in [CpuThread -> Seq(Frame)], stopped' \subseteq CpuThread,
           CodeIsKnown', ServiceIsRight', \A t \in CpuThread : ChainOf(t)'
    PROVE  IrqInv'
<1>1. IrqTypes'  BY DEF IrqInv, IrqTypes
<1>2. 0 \notin lapic'.irr
  <2>1. lapic.irr \subseteq {TimerVector, KeyVector}  BY DEF IrqInv, SourcesAreRouted
  <2> QED  BY <2>1, VectorFacts
<1>3. VectorsAreSet' /\ SourcesAreRouted'  BY <1>2, SetupKeeps
<1> QED  BY <1>1, <1>3 DEF IrqInv

\* A step of a handler that leaves the chains alone.
LEMMA SteadyChains ==
    ASSUME IrqInv, UNCHANGED <<phase, ctx, stopped>>, cpu.run # User
    PROVE  \A t \in CpuThread : ChainOf(t)'
BY DEF IrqInv, ChainOf

LEMMA RaiseKeeps ==
    ASSUME IrqInv, TimerFires \/ \E p \in 0..Pins : RaisePin(p)
    PROVE  IrqInv'
<1>0. /\ lapic \in [irr : SUBSET Vector, isr : SUBSET Vector, timer : Timer]
      /\ SourcesAreRouted
  BY DEF IrqInv, IrqTypes
<1>1. UNCHANGED <<phase, desc, redir, cpu, ctx, stopped>>
  BY DEF TimerFires, RaisePin
<1>2. /\ lapic' \in [irr : SUBSET Vector, isr : SUBSET Vector, timer : Timer]
      /\ lapic'.timer = lapic.timer /\ lapic'.isr = lapic.isr
      /\ lapic'.irr \subseteq lapic.irr \cup {redir[p].vector : p \in 0..Pins} \cup
            (IF phase \in {"run"} \cup Late THEN {TimerVector} ELSE {})
      /\ 0 \notin lapic'.irr
  <2>0. lapic.irr \subseteq {TimerVector, KeyVector} /\ 0 \notin lapic.irr
    BY <1>0, VectorFacts DEF SourcesAreRouted
  <2>1. CASE TimerFires
    <3>1. /\ lapic.timer.vector = TimerVector /\ phase \in {"run"} \cup Late
          /\ lapic' = [lapic EXCEPT !.irr = @ \cup {TimerVector}]
      BY <1>0, <2>1 DEF TimerFires, SourcesAreRouted, Late
    <3> QED  BY <1>0, <2>0, <3>1, VectorFacts
  <2>2. CASE \E p \in 0..Pins : RaisePin(p)
    <3>1. PICK p \in 0..Pins : RaisePin(p)  BY <2>2
    <3>2. CASE redir[p].vector < Exceptions
      BY <1>0, <2>0, <3>1, <3>2 DEF RaisePin
    <3>3. CASE ~(redir[p].vector < Exceptions)
      <4>1. redir[p].vector = KeyVector
        BY <1>0, <3>3, VectorFacts DEF SourcesAreRouted
      <4>2. lapic' = [lapic EXCEPT !.irr = @ \cup {redir[p].vector}]  BY <3>1, <3>3 DEF RaisePin
      <4> QED  BY <1>0, <2>0, <4>1, <4>2, VectorFacts
    <3> QED  BY <3>2, <3>3
  <2> QED  BY <2>1, <2>2
<1>3. IrqTypes'  BY <1>1, <1>2 DEF IrqInv, IrqTypes
<1>4. VectorsAreSet' /\ SourcesAreRouted'  BY <1>1, <1>2, SetupKeeps
<1>5. CodeIsKnown'  BY <1>1 DEF IrqInv, CodeIsKnown
<1>6. ServiceIsRight'  BY <1>1, <1>2 DEF IrqInv, ServiceIsRight
<1>7. \A t \in CpuThread : ChainOf(t)'  BY <1>1 DEF IrqInv, ChainOf
<1> QED  BY <1>3, <1>4, <1>5, <1>6, <1>7 DEF IrqInv

\* save_context: the code that is interrupted is a program or a system call, with
\* interrupts enabled, or its thread has been stopped.
LEMMA EnterKeeps ==
    ASSUME IrqInv, NEW v \in Vector, Enter(v),
           stopped \subseteq stopped', stopped' \subseteq CpuThread,
           \/ cpu.thread \in stopped'
           \/ cpu.if /\ (cpu.run = User \/ (cpu.run = SyscallCode /\ phase = "up"))
    PROVE  /\ cpu' \in [if : BOOLEAN, thread : CpuThread, run : Code]
           /\ cpu'.if = FALSE /\ cpu'.thread = cpu.thread /\ cpu'.run = [vec |-> v, pc |-> "dispatch"]
           /\ ctx' \in [CpuThread -> Seq(Frame)] /\ \A t \in CpuThread : ChainOf(t)'
           /\ UNCHANGED <<phase, desc, redir>>
<1>0. /\ cpu \in [if : BOOLEAN, thread : CpuThread, run : Code] /\ ctx \in [CpuThread -> Seq(Frame)]
      /\ \A t \in CpuThread : ChainOf(t)
  BY DEF IrqInv, IrqTypes
<1>1. PICK f : f = [run |-> cpu.run, if |-> cpu.if, words |-> Pushed(v)]  OBVIOUS
<1>2. PICK c : c = <<f>> \o ctx[cpu.thread]  OBVIOUS
<1>3. Pushed(v) = FrameWords  BY DEF Pushed, FrameWords, has_arg
<1>4. f \in Frame /\ f.run = cpu.run /\ f.if = cpu.if  BY <1>0, <1>1, <1>3 DEF Frame
<1>5. ctx[cpu.thread] \in Seq(Frame) /\ Len(ctx[cpu.thread]) \in Nat  BY <1>0
<1>6. /\ c \in Seq(Frame) /\ Len(c) = Len(ctx[cpu.thread]) + 1 /\ c[1] = f
      /\ \A k \in 2..Len(c) : c[k] = ctx[cpu.thread][k - 1]
  BY <1>2, <1>4, <1>5
<1>7. ctx' = [ctx EXCEPT ![cpu.thread] = c]  BY <1>1, <1>2 DEF Enter
<1>8. PICK r : r = [vec |-> v, pc |-> "dispatch"]  OBVIOUS
<1>9. r \in Code /\ r # User  BY <1>8, VectorFacts DEF Code, User
<1>10. /\ cpu' \in [if : BOOLEAN, thread : CpuThread, run : Code]
       /\ cpu'.if = FALSE /\ cpu'.thread = cpu.thread /\ cpu'.run = r
  <2>1. cpu' = [cpu EXCEPT !.if = FALSE, !.run = r]  BY <1>8 DEF Enter
  <2> QED  BY <1>0, <1>9, <2>1
<1>11. ctx' \in [CpuThread -> Seq(Frame)]  BY <1>0, <1>6, <1>7
<1>12. UNCHANGED <<phase, desc, redir>>  BY DEF Enter
<1>13. ASSUME NEW t \in CpuThread PROVE ChainOf(t)'
  <2>1. CASE t # cpu.thread
    <3>1. ctx'[t] = ctx[t]  BY <1>0, <1>7, <2>1
    <3> QED  BY <1>0, <1>12, <2>1, <3>1 DEF ChainOf
  <2>2. CASE t = cpu.thread
    <3>1. ctx'[t] = c  BY <1>0, <1>7, <2>2
    <3>2. c # <<>>  BY <1>5, <1>6
    <3>3. ASSUME t \notin stopped', NEW k \in 1..Len(c)
          PROVE  c[k].if /\ (c[k].run = User \/ (c[k].run = SyscallCode /\ k < Len(c) /\ phase = "up"))
      <4>1. cpu.if /\ (cpu.run = User \/ (cpu.run = SyscallCode /\ phase = "up"))  BY <2>2, <3>3
      <4>2. CASE k = 1
        <5>1. cpu.run = SyscallCode => ctx[t] # <<>>
          <6>1. SyscallCode # User  BY VectorFacts DEF SyscallCode, User
          <6> QED  BY <1>0, <6>1 DEF ChainOf
        <5>2. cpu.run = SyscallCode => Len(ctx[t]) > 0  BY <1>5, <2>2, <5>1
        <5>3. cpu.run = SyscallCode => k < Len(c)  BY <1>5, <1>6, <2>2, <4>2, <5>2
        <5>4. c[k] = f  BY <1>6, <4>2
        <5>5. c[k].run = cpu.run /\ c[k].if = cpu.if  BY <1>4, <5>4
        <5>6. c[k].if  BY <4>1, <5>5
        <5> QED  BY <4>1, <5>3, <5>5, <5>6
      <4>3. CASE k # 1
        <5>1. k - 1 \in 1..Len(ctx[t]) /\ c[k] = ctx[t][k - 1]  BY <1>5, <1>6, <2>2, <3>3, <4>3
        <5>2. t \notin stopped  BY <3>3
        <5>3. ctx[t][k - 1].if /\ (ctx[t][k - 1].run = User \/ (ctx[t][k - 1].run = SyscallCode /\ k - 1 < Len(ctx[t]) /\ phase = "up"))
          BY <1>0, <5>1, <5>2 DEF ChainOf
        <5> QED  BY <1>5, <1>6, <2>2, <5>1, <5>3
      <4> QED  BY <4>2, <4>3
    <3> QED  BY <1>12, <3>1, <3>2, <3>3 DEF ChainOf
  <2> QED  BY <2>1, <2>2
<1> QED  BY <1>8, <1>10, <1>11, <1>12, <1>13

\* Interrupts are enabled in programs and in system calls.
LEMMA Enabled ==
    ASSUME IrqInv, cpu.if
    PROVE  /\ cpu.run = User \/ (cpu.run = SyscallCode /\ phase = "up")
           /\ phase \in Late /\ lapic.isr = {} /\ cpu.thread \notin stopped
<1>1. cpu.run = User \/ (cpu.run = SyscallCode /\ phase = "up")
  BY DEF IrqInv, CodeIsKnown
<1>2. cpu.run.vec \notin {TimerVector, KeyVector} /\ cpu.run.vec # KernelSyscall
  <2>1. cpu.run.vec = -1 \/ cpu.run.vec = UserSyscall  BY <1>1 DEF User, SyscallCode
  <2>2. -1 \notin {TimerVector, KeyVector, KernelSyscall}  BY VectorFacts
  <2>3. UserSyscall \notin {TimerVector, KeyVector, KernelSyscall}  BY VectorFacts
  <2> QED  BY <2>1, <2>2, <2>3
<1>3. phase \in Late  BY <1>1, InUserCode DEF Late
<1>4. ServiceIsRight  BY DEF IrqInv
<1>5. lapic.isr = {}  BY <1>2, <1>4 DEF ServiceIsRight
<1>6. cpu.thread \notin stopped  BY <1>2, <1>4 DEF ServiceIsRight
<1> QED  BY <1>1, <1>3, <1>5, <1>6

LEMMA AcceptKeeps ==
    ASSUME IrqInv, NEW v \in Vector, Accept(v)
    PROVE  IrqInv'
<1>0. lapic \in [irr : SUBSET Vector, isr : SUBSET Vector, timer : Timer] /\ SourcesAreRouted /\ stopped \subseteq CpuThread
  BY DEF IrqInv, IrqTypes
<1>1. /\ cpu.if /\ v \in lapic.irr /\ Enter(v) /\ stopped' = stopped
      /\ lapic' = [lapic EXCEPT !.irr = @ \ {v}, !.isr = @ \cup {v}]
  BY DEF Accept
<1>2. /\ cpu.run = User \/ (cpu.run = SyscallCode /\ phase = "up")
      /\ phase \in Late /\ lapic.isr = {} /\ cpu.thread \notin stopped
  BY <1>1, Enabled
<1>3. /\ cpu' \in [if : BOOLEAN, thread : CpuThread, run : Code]
      /\ cpu'.if = FALSE /\ cpu'.thread = cpu.thread /\ cpu'.run = [vec |-> v, pc |-> "dispatch"]
      /\ ctx' \in [CpuThread -> Seq(Frame)] /\ \A t \in CpuThread : ChainOf(t)'
      /\ UNCHANGED <<phase, desc, redir>>
  BY <1>0, <1>1, <1>2, EnterKeeps
<1>4. /\ lapic' \in [irr : SUBSET Vector, isr : SUBSET Vector, timer : Timer]
      /\ lapic'.timer = lapic.timer /\ lapic'.irr \subseteq lapic.irr /\ lapic'.isr = {v}
  BY <1>0, <1>1, <1>2
<1>5. v = TimerVector \/ (v = KeyVector /\ phase \in {"attach", "up"})
  BY <1>0, <1>1 DEF SourcesAreRouted
<1>6. cpu'.run.vec = v /\ cpu'.run.pc = "dispatch"  BY <1>3
<1>7. CodeIsKnown'
  BY <1>2, <1>3, <1>5, <1>6, VectorFacts DEF CodeIsKnown, TimerVector, KeyVector
<1>8. ServiceIsRight'
  BY <1>1, <1>2, <1>3, <1>4, <1>5, <1>6 DEF ServiceIsRight, TimerVector, KeyVector
<1> QED  BY <1>0, <1>1, <1>3, <1>4, <1>7, <1>8, Steady

LEMMA ExceptionsKeep ==
    ASSUME IrqInv, Fault \/ SystemCall \/ Yield \/ HandleFault
    PROVE  IrqInv'
<1>0. /\ lapic \in [irr : SUBSET Vector, isr : SUBSET Vector, timer : Timer] /\ stopped \subseteq CpuThread
      /\ cpu.thread \in CpuThread /\ VectorsAreSet /\ CodeIsKnown /\ ServiceIsRight
  BY DEF IrqInv, IrqTypes
<1>1. PICK v : /\ v \in {PageFault, KernelSyscall, UserSyscall} /\ Enter(v) /\ lapic' = lapic
               /\ phase = "up" /\ lapic.isr = {}
               /\ stopped \subseteq stopped' /\ stopped' \subseteq CpuThread
               /\ cpu.thread \in stopped' => v = KernelSyscall
               /\ \/ cpu.thread \in stopped'
                  \/ cpu.if /\ (cpu.run = User \/ (cpu.run = SyscallCode /\ phase = "up"))
  <2>1. CASE Fault \/ SystemCall
    <3>1. cpu.run = User /\ phase = "up" /\ UNCHANGED <<lapic, stopped>>  BY <2>1 DEF Fault, SystemCall
    <3>2. cpu.if  BY <3>1, InUserCode DEF Late
    <3>3. cpu.thread \notin stopped /\ lapic.isr = {}  BY <3>2, Enabled
    <3>4. PICK v \in {PageFault, UserSyscall} : Enter(v)  BY <2>1 DEF Fault, SystemCall
    <3> QED  BY <1>0, <3>1, <3>2, <3>3, <3>4
  <2>2. CASE Yield
    <3>1. cpu.run.pc = "call" /\ UNCHANGED <<lapic, stopped>> /\ Enter(KernelSyscall)  BY <2>2 DEF Yield
    <3>2. cpu.run = SyscallCode /\ cpu.if /\ phase = "up"
      BY <1>0, <3>1 DEF CodeIsKnown, User
    <3>3. lapic.isr = {}  BY <3>2, Enabled
    <3> QED  BY <1>0, <3>1, <3>2, <3>3
  <2>3. CASE HandleFault
    <3>1. /\ cpu.run.pc = "body" /\ desc[cpu.run.vec].handler = "fault" /\ lapic' = lapic
          /\ stopped' = stopped \cup {cpu.thread} /\ Enter(KernelSyscall)
      BY <2>3 DEF HandleFault, Running
    <3>2. cpu.run.vec \in {TimerVector, KeyVector, PageFault, KernelSyscall, UserSyscall} /\ phase \in Late
          /\ (cpu.run.vec = KeyVector => phase \in {"attach", "up"})
      BY <1>0, <3>1 DEF CodeIsKnown, User, SyscallCode, Late
    <3>3. cpu.run.vec \notin {TimerVector, KeyVector, KernelSyscall, UserSyscall}
      <4>1. /\ desc[TimerVector].handler = "timer" /\ desc[KernelSyscall].handler = "ksys"
            /\ desc[UserSyscall].handler = "usys"
        BY <1>0, <3>2 DEF VectorsAreSet, Late, IRQ
      <4>2. phase \in {"attach", "up"} => desc[KeyVector].handler \in {"none", "keyboard"}
        BY <1>0 DEF VectorsAreSet, IRQ
      <4> QED  BY <3>1, <3>2, <4>1, <4>2
    <3>4. cpu.run.vec = PageFault /\ phase = "up"
      <4>1. cpu.run.vec = PageFault  BY <3>2, <3>3
      <4>2. cpu.run.vec # -1  BY <4>1, VectorFacts
      <4>3. cpu.run # User /\ cpu.run # SyscallCode  BY <3>1 DEF User, SyscallCode
      <4> QED  BY <1>0, <3>3, <4>1, <4>3 DEF CodeIsKnown
    <3>5. lapic.isr = {}  BY <1>0, <3>3 DEF ServiceIsRight
    <3> QED  BY <1>0, <3>1, <3>4, <3>5
  <2> QED  BY <2>1, <2>2, <2>3
<1>2. v \in Vector /\ v \notin {TimerVector, KeyVector}  BY <1>1, VectorFacts
<1>3. /\ cpu' \in [if : BOOLEAN, thread : CpuThread, run : Code]
      /\ cpu'.if = FALSE /\ cpu'.thread = cpu.thread /\ cpu'.run = [vec |-> v, pc |-> "dispatch"]
      /\ ctx' \in [CpuThread -> Seq(Frame)] /\ \A t \in CpuThread : ChainOf(t)'
      /\ UNCHANGED <<phase, desc, redir>>
  BY <1>1, <1>2, EnterKeeps
<1>4. cpu'.run.vec = v /\ cpu'.run.pc = "dispatch"  BY <1>3
<1>5. CodeIsKnown'  BY <1>1, <1>3, <1>4 DEF CodeIsKnown
<1>6. ServiceIsRight'
  BY <1>1, <1>2, <1>3, <1>4 DEF ServiceIsRight, TimerVector, KeyVector
<1> QED  BY <1>0, <1>1, <1>3, <1>5, <1>6, Steady

\* A handler does not run a program, and its vector has a handler.
LEMMA InHandler ==
    ASSUME IrqInv, cpu.run.pc \in {"dispatch", "body", "eoi", "restore"}
    PROVE  /\ cpu.run # User /\ cpu.run # SyscallCode /\ ~cpu.if /\ phase \in Late
           /\ cpu.run.vec \in {TimerVector, KeyVector, PageFault, KernelSyscall, UserSyscall}
           /\ cpu.run.vec = KeyVector => phase \in {"attach", "up"}
           /\ cpu.run.vec = PageFault => cpu.run.pc \in {"dispatch", "body"}
           /\ cpu.run.vec \in {PageFault, KernelSyscall, UserSyscall} => cpu.run.pc # "eoi" /\ phase = "up"
<1>1. cpu.run # User /\ cpu.run # SyscallCode  BY DEF User, SyscallCode
<1>2. CodeIsKnown  BY DEF IrqInv
<1> QED  BY <1>1, <1>2, VectorFacts DEF CodeIsKnown, Late

\* The handlers of the vectors in use.
LEMMA HandlersKnown ==
    ASSUME IrqInv, phase \in Late
    PROVE  /\ desc[TimerVector] = IRQ("lapic", "timer")
           /\ desc[KernelSyscall] = IRQ("software", "ksys") /\ desc[UserSyscall] = IRQ("software", "usys")
           /\ desc[PageFault].handler = "fault"
           /\ phase = "attach" => desc[KeyVector] = IRQ("ioapic", "none")
           /\ phase = "up" => desc[KeyVector] = IRQ("ioapic", "keyboard")
BY DEF IrqInv, VectorsAreSet, Late

\* A step of a handler: its program counter, and what is in service.
LEMMA HandlerMoves ==
    ASSUME IrqInv, UNCHANGED <<phase, desc, redir, ctx, stopped>>,
           cpu.run.pc \in {"dispatch", "body", "eoi", "restore"},
           NEW pc \in {"dispatch", "body", "eoi", "restore"}, NEW u \in CpuThread,
           cpu' = [cpu EXCEPT !.thread = u, !.run.pc = pc],
           lapic'.timer = lapic.timer, lapic'.irr \subseteq lapic.irr,
           lapic' \in [irr : SUBSET Vector, isr : SUBSET Vector, timer : Timer],
           lapic'.isr = IF cpu.run.vec \in {TimerVector, KeyVector} /\ pc # "restore" THEN {cpu.run.vec} ELSE {},
           cpu.run.vec = PageFault => pc \in {"dispatch", "body"},
           cpu.run.vec \in {KernelSyscall, UserSyscall} => pc # "eoi",
           u \in stopped => cpu.run.vec = KernelSyscall /\ pc \in {"dispatch", "body"}
    PROVE  IrqInv'
<1>0. cpu \in [if : BOOLEAN, thread : CpuThread, run : Code] /\ stopped \subseteq CpuThread
      /\ ctx \in [CpuThread -> Seq(Frame)]
  BY DEF IrqInv, IrqTypes
<1>1. PICK r : r = [cpu.run EXCEPT !.pc = pc]  OBVIOUS
<1>2. r \in Code /\ r.vec = cpu.run.vec /\ r.pc = pc  BY <1>0, <1>1 DEF Code
<1>3. /\ cpu' \in [if : BOOLEAN, thread : CpuThread, run : Code]
      /\ cpu'.if = cpu.if /\ cpu'.thread = u /\ cpu'.run = r
  <2>1. cpu' = [cpu EXCEPT !.thread = u, !.run = r]  BY <1>0, <1>1
  <2> QED  BY <1>0, <1>2, <2>1
<1>4. /\ ~cpu.if /\ phase \in Late /\ cpu.run # User
      /\ cpu.run.vec \in {TimerVector, KeyVector, PageFault, KernelSyscall, UserSyscall}
      /\ cpu.run.vec = KeyVector => phase \in {"attach", "up"}
      /\ cpu.run.vec \in {PageFault, KernelSyscall, UserSyscall} => phase = "up"
  BY InHandler
<1>5. CodeIsKnown'
  <2>1. /\ cpu'.run.vec = cpu.run.vec /\ cpu'.run.pc = pc /\ ~cpu'.if /\ phase' = phase  BY <1>2, <1>3, <1>4
  <2> QED  BY <1>4, <2>1 DEF CodeIsKnown, TimerVector, KeyVector
<1>6. ServiceIsRight'
  BY <1>2, <1>3 DEF ServiceIsRight, TimerVector, KeyVector
<1>7. \A t \in CpuThread : ChainOf(t)'  BY <1>4, SteadyChains
<1> QED  BY <1>0, <1>3, <1>5, <1>6, <1>7, Steady

LEMMA HandlersKeep ==
    ASSUME IrqInv, Dispatch \/ Schedule \/ HandleKey \/ Eoi
    PROVE  IrqInv'
<1>0. /\ cpu \in [if : BOOLEAN, thread : CpuThread, run : Code] /\ ServiceIsRight
      /\ lapic \in [irr : SUBSET Vector, isr : SUBSET Vector, timer : Timer]
  BY DEF IrqInv, IrqTypes
<1>1. cpu.run.pc \in {"dispatch", "body", "eoi"} /\ UNCHANGED <<phase, desc, redir, ctx, stopped>>
  BY DEF Dispatch, Schedule, HandleKey, Eoi, Running
<1>2. /\ cpu.run.vec \in {TimerVector, KeyVector, PageFault, KernelSyscall, UserSyscall} /\ phase \in Late
      /\ cpu.run.vec = KeyVector => phase \in {"attach", "up"}
      /\ cpu.run.vec \in {PageFault, KernelSyscall, UserSyscall} => cpu.run.pc # "eoi"
  BY <1>1, InHandler
<1>3. /\ lapic.isr = IF cpu.run.vec \in {TimerVector, KeyVector} THEN {cpu.run.vec} ELSE {}
      /\ cpu.thread \in stopped => cpu.run.vec = KernelSyscall
  BY <1>0, <1>1 DEF ServiceIsRight
<1>4. ASSUME NEW pc PROVE [cpu EXCEPT !.thread = cpu.thread, !.run.pc = pc] = [cpu EXCEPT !.run.pc = pc]
  BY <1>0
<1>5. /\ desc[TimerVector] = IRQ("lapic", "timer")
      /\ desc[KernelSyscall] = IRQ("software", "ksys") /\ desc[UserSyscall] = IRQ("software", "usys")
      /\ desc[PageFault].handler = "fault"
      /\ phase = "attach" => desc[KeyVector] = IRQ("ioapic", "none")
      /\ phase = "up" => desc[KeyVector] = IRQ("ioapic", "keyboard")
  BY <1>2, HandlersKnown
<1>6. CASE Dispatch
  <2>1. lapic' = lapic /\ cpu.run.pc = "dispatch"  BY <1>6 DEF Dispatch, Running
  <2>2. PICK pc \in {"body", "eoi"} :
          /\ cpu' = [cpu EXCEPT !.run.pc = pc]
          /\ pc = "eoi" => desc[cpu.run.vec].handler = "none"
    BY <1>6 DEF Dispatch, GoTo
  <2>3. cpu.run.vec \in {PageFault, KernelSyscall, UserSyscall} => pc # "eoi"
    BY <1>5, <2>2 DEF IRQ
  <2>4. cpu.run.vec = KernelSyscall => pc = "body"  BY <2>2, <2>3
  <2>5. cpu.run.vec = PageFault => pc = "body"  BY <2>2, <2>3
  <2>6. cpu' = [cpu EXCEPT !.thread = cpu.thread, !.run.pc = pc]  BY <1>4, <2>2
  <2>7. cpu.thread \in CpuThread  BY <1>0
  <2> QED  BY <1>0, <1>1, <1>3, <2>1, <2>2, <2>3, <2>4, <2>5, <2>6, <2>7, HandlerMoves
<1>7. CASE Schedule
  <2>1. PICK t \in CpuThread \ stopped :
          cpu' = [cpu EXCEPT !.thread = t, !.run.pc = AfterHandler(desc[cpu.run.vec].class)]
    BY <1>7 DEF Schedule
  <2>2. lapic' = lapic /\ cpu.run.pc = "body" /\ desc[cpu.run.vec].handler \in {"timer", "ksys"}
    BY <1>7 DEF Schedule, Running
  <2>3. cpu.run.vec \in {TimerVector, KernelSyscall}
    BY <1>2, <1>5, <2>2 DEF IRQ
  <2>4. PICK pc : pc = AfterHandler(desc[cpu.run.vec].class)  OBVIOUS
  <2>5. pc = IF cpu.run.vec = TimerVector THEN "eoi" ELSE "restore"
    BY <1>5, <2>3, <2>4, VectorFacts DEF AfterHandler, IRQ
  <2>6. cpu.run.vec \notin {PageFault, UserSyscall} /\ (cpu.run.vec = KernelSyscall => pc = "restore")
    BY <2>3, <2>5, VectorFacts
  <2>7. lapic'.isr = IF cpu.run.vec \in {TimerVector, KeyVector} /\ pc # "restore" THEN {cpu.run.vec} ELSE {}
    BY <1>3, <2>2, <2>3, <2>5, VectorFacts
  <2> QED  BY <1>0, <1>1, <2>1, <2>2, <2>4, <2>5, <2>6, <2>7, HandlerMoves
<1>8. CASE HandleKey
  <2>1. /\ lapic' = lapic /\ desc[cpu.run.vec].handler = "keyboard" /\ cpu' = [cpu EXCEPT !.run.pc = "eoi"]
    BY <1>8 DEF HandleKey, Running, GoTo
  <2>2. cpu.run.vec = KeyVector  BY <1>2, <1>5, <2>1 DEF IRQ
  <2>3. cpu.run.vec \notin {PageFault, KernelSyscall, UserSyscall} /\ cpu.thread \notin stopped
    BY <1>3, <2>2, VectorFacts
  <2>4. cpu' = [cpu EXCEPT !.thread = cpu.thread, !.run.pc = "eoi"]  BY <1>4, <2>1
  <2>5. cpu.thread \in CpuThread  BY <1>0
  <2> QED  BY <1>0, <1>1, <1>3, <2>1, <2>2, <2>3, <2>4, <2>5, HandlerMoves
<1>9. CASE Eoi
  <2>1. /\ cpu.run.pc = "eoi" /\ cpu' = [cpu EXCEPT !.run.pc = "restore"]
        /\ lapic' = [lapic EXCEPT !.isr = {v \in @ : \E w \in @ : w > v}]
    BY <1>9 DEF Eoi, Running, GoTo
  <2>2. cpu.run.vec \in {TimerVector, KeyVector}  BY <1>2, <2>1
  <2>3. cpu.run.vec \notin {PageFault, KernelSyscall, UserSyscall} /\ cpu.thread \notin stopped
    BY <1>3, <2>2, VectorFacts
  <2>4. {v \in lapic.isr : \E w \in lapic.isr : w > v} = {}
    <3>1. lapic.isr = {cpu.run.vec}  BY <1>3, <2>2
    <3>2. cpu.run.vec \in Nat  BY <2>2, VectorFacts
    <3>3. ~(cpu.run.vec > cpu.run.vec)  BY <3>2
    <3> QED  BY <3>1, <3>3
  <2>5. /\ lapic' \in [irr : SUBSET Vector, isr : SUBSET Vector, timer : Timer]
        /\ lapic'.isr = {} /\ lapic'.irr = lapic.irr /\ lapic'.timer = lapic.timer
    BY <1>0, <2>1, <2>4
  <2>6. cpu' = [cpu EXCEPT !.thread = cpu.thread, !.run.pc = "restore"]  BY <1>4, <2>1
  <2>7. cpu.thread \in CpuThread  BY <1>0
  <2> QED  BY <1>1, <2>1, <2>3, <2>5, <2>6, <2>7, HandlerMoves
<1> QED  BY <1>6, <1>7, <1>8, <1>9

LEMMA CallsKeep ==
    ASSUME IrqInv, BeginCall \/ EndCall
    PROVE  IrqInv'
<1>0. /\ cpu \in [if : BOOLEAN, thread : CpuThread, run : Code] /\ ServiceIsRight /\ CodeIsKnown
      /\ lapic \in [irr : SUBSET Vector, isr : SUBSET Vector, timer : Timer]
      /\ stopped \subseteq CpuThread /\ ctx \in [CpuThread -> Seq(Frame)]
  BY DEF IrqInv, IrqTypes
<1>1. UNCHANGED <<phase, desc, redir, lapic, ctx, stopped>>  BY DEF BeginCall, EndCall
<1>2. /\ cpu.run # User /\ cpu.run.vec = UserSyscall /\ phase = "up"
      /\ \E b \in BOOLEAN : \E pc \in {"call", "restore"} :
            cpu' = [cpu EXCEPT !.if = b, !.run.pc = pc] /\ (b <=> pc = "call")
  <2>1. CASE BeginCall
    <3>1. /\ cpu.run.pc = "body" /\ desc[cpu.run.vec].handler = "usys"
          /\ cpu' = [cpu EXCEPT !.if = TRUE, !.run.pc = "call"]
      BY <2>1 DEF BeginCall, Running
    <3>2. /\ cpu.run.vec \in {TimerVector, KeyVector, PageFault, KernelSyscall, UserSyscall} /\ phase \in Late
          /\ cpu.run.vec = KeyVector => phase \in {"attach", "up"}
          /\ cpu.run.vec = UserSyscall => phase = "up"
          /\ cpu.run # User
      BY <3>1, InHandler
    <3>3. cpu.run.vec = UserSyscall
      BY <3>1, <3>2, HandlersKnown DEF IRQ
    <3> QED  BY <3>1, <3>2, <3>3
  <2>2. CASE EndCall
    <3>1. cpu.run.pc = "call" /\ cpu' = [cpu EXCEPT !.if = FALSE, !.run.pc = "restore"]
      BY <2>2 DEF EndCall, Running
    <3>2. cpu.run = SyscallCode /\ phase = "up"  BY <1>0, <3>1 DEF CodeIsKnown, User
    <3>3. cpu.run # User /\ cpu.run.vec = UserSyscall  BY <3>1, <3>2 DEF User, SyscallCode
    <3> QED  BY <3>1, <3>2, <3>3
  <2> QED  BY <2>1, <2>2
<1>3. PICK b \in BOOLEAN, pc \in {"call", "restore"} :
        cpu' = [cpu EXCEPT !.if = b, !.run.pc = pc] /\ (b <=> pc = "call")
  BY <1>2
<1>4. PICK r : r = [cpu.run EXCEPT !.pc = pc]  OBVIOUS
<1>5. r \in Code /\ r.vec = UserSyscall /\ r.pc = pc /\ (pc = "call" => r = SyscallCode)
  BY <1>0, <1>2, <1>4 DEF Code, SyscallCode
<1>6. /\ cpu' \in [if : BOOLEAN, thread : CpuThread, run : Code]
      /\ cpu'.if = b /\ cpu'.thread = cpu.thread /\ cpu'.run = r
  <2>1. cpu' = [cpu EXCEPT !.if = b, !.run = r]  BY <1>0, <1>3, <1>4
  <2> QED  BY <1>0, <1>5, <2>1
<1>7. CodeIsKnown'
  <2>1. CASE pc = "call"
    <3>1. cpu'.run = SyscallCode /\ cpu'.if /\ phase' = "up"  BY <1>1, <1>2, <1>3, <1>5, <1>6, <2>1
    <3> QED  BY <3>1 DEF CodeIsKnown, SyscallCode
  <2>2. CASE pc = "restore"
    <3>1. cpu'.run.vec = UserSyscall /\ cpu'.run.pc = "restore" /\ ~cpu'.if /\ phase' = "up"
      BY <1>1, <1>2, <1>3, <1>5, <1>6, <2>2
    <3> QED  BY <3>1 DEF CodeIsKnown
  <2> QED  BY <2>1, <2>2
<1>8. ServiceIsRight'
  <2>1. cpu.run.vec \notin {TimerVector, KeyVector, KernelSyscall}  BY <1>2, VectorFacts
  <2>2. lapic'.isr = {} /\ cpu'.thread \notin stopped'
    BY <1>0, <1>1, <1>6, <2>1 DEF ServiceIsRight
  <2> QED  BY <1>2, <1>5, <1>6, <2>1, <2>2 DEF ServiceIsRight, TimerVector, KeyVector
<1>9. \A t \in CpuThread : ChainOf(t)'  BY <1>1, <1>2, SteadyChains
<1> QED  BY <1>0, <1>1, <1>6, <1>7, <1>8, <1>9, Steady

\* restore_context: what the chain's last context holds runs again.
LEMMA RestoreKeeps ==
    ASSUME IrqInv, Restore
    PROVE  IrqInv'
<1>0. /\ cpu \in [if : BOOLEAN, thread : CpuThread, run : Code] /\ ServiceIsRight
      /\ lapic \in [irr : SUBSET Vector, isr : SUBSET Vector, timer : Timer]
      /\ stopped \subseteq CpuThread /\ ctx \in [CpuThread -> Seq(Frame)] /\ \A t \in CpuThread : ChainOf(t)
  BY DEF IrqInv, IrqTypes
<1>1. PICK s : s = ctx[cpu.thread]  OBVIOUS
<1>2. /\ UNCHANGED <<phase, desc, redir, lapic, stopped>> /\ cpu.run.pc = "restore" /\ s # <<>>
      /\ cpu' = [cpu EXCEPT !.if = Head(s).if, !.run = Head(s).run]
      /\ ctx' = [ctx EXCEPT ![cpu.thread] = Tail(s)]
  BY <1>1 DEF Restore, Running
<1>3. cpu.run # User /\ phase \in Late  BY <1>2, InHandler
<1>4. cpu.thread \notin stopped /\ lapic.isr = {}  BY <1>0, <1>2 DEF ServiceIsRight
<1>5. s \in Seq(Frame) /\ Len(s) \in Nat /\ Len(s) > 0  BY <1>0, <1>1, <1>2
<1>6. \A k \in 1..Len(s) : s[k].if /\ (s[k].run = User \/ (s[k].run = SyscallCode /\ k < Len(s) /\ phase = "up"))
  BY <1>0, <1>1, <1>4 DEF ChainOf
<1>7. PICK f, q : f = s[1] /\ q = Tail(s)  OBVIOUS
<1>8. /\ f \in Frame /\ f = Head(s) /\ f.if
      /\ f.run = User \/ (f.run = SyscallCode /\ 1 < Len(s) /\ phase = "up")
  <2>1. 1 \in 1..Len(s)  BY <1>5
  <2>2. f \in Frame /\ f = Head(s)  BY <1>5, <1>7, <2>1
  <2> QED  BY <1>6, <1>7, <2>1, <2>2
<1>9. q \in Seq(Frame) /\ Len(q) = Len(s) - 1 /\ \A k \in 1..Len(q) : q[k] = s[k + 1]
  BY <1>5, <1>7
<1>10. /\ cpu' \in [if : BOOLEAN, thread : CpuThread, run : Code]
       /\ cpu'.if = TRUE /\ cpu'.thread = cpu.thread /\ cpu'.run = f.run
  <2>1. f.run \in Code /\ f.if = TRUE  BY <1>8 DEF Frame
  <2>2. PICK r : r = f.run  OBVIOUS
  <2>3. cpu' = [cpu EXCEPT !.if = TRUE, !.run = r]  BY <1>2, <1>8, <2>1, <2>2
  <2> QED  BY <1>0, <2>1, <2>2, <2>3
<1>11. ctx' = [ctx EXCEPT ![cpu.thread] = q]  BY <1>2, <1>7
<1>12. ctx' \in [CpuThread -> Seq(Frame)]  BY <1>0, <1>9, <1>11
<1>13. CodeIsKnown'
  BY <1>2, <1>3, <1>8, <1>10 DEF CodeIsKnown, User, SyscallCode
<1>14. ServiceIsRight'
  <2>1. -1 \notin {TimerVector, KeyVector} /\ UserSyscall \notin {TimerVector, KeyVector}  BY VectorFacts
  <2>2. cpu'.run.vec \notin {TimerVector, KeyVector}  BY <1>8, <1>10, <2>1 DEF User, SyscallCode
  <2> QED  BY <1>2, <1>4, <1>10, <2>2 DEF ServiceIsRight, TimerVector, KeyVector
<1>15. ASSUME NEW t \in CpuThread PROVE ChainOf(t)'
  <2>1. CASE t # cpu.thread
    <3>1. ctx'[t] = ctx[t]  BY <1>0, <1>11, <2>1
    <3> QED  BY <1>0, <1>2, <1>3, <2>1, <3>1 DEF ChainOf
  <2>2. CASE t = cpu.thread
    <3>1. ctx'[t] = q  BY <1>0, <1>11, <2>2
    <3>2. cpu'.run # User => q # <<>>
      <4>1. ASSUME cpu'.run # User PROVE Len(q) > 0  BY <1>5, <1>8, <1>9, <1>10, <4>1
      <4> QED  BY <1>9, <4>1
    <3>3. ASSUME NEW k \in 1..Len(q)
          PROVE  q[k].if /\ (q[k].run = User \/ (q[k].run = SyscallCode /\ k < Len(q) /\ phase = "up"))
      <4>1. k + 1 \in 1..Len(s) /\ q[k] = s[k + 1] /\ (k + 1 < Len(s) <=> k < Len(q))
        BY <1>5, <1>9
      <4>2. s[k + 1].if /\ (s[k + 1].run = User \/ (s[k + 1].run = SyscallCode /\ k + 1 < Len(s) /\ phase = "up"))
        BY <1>6, <4>1
      <4> QED  BY <4>1, <4>2
    <3> QED  BY <1>2, <1>10, <2>2, <3>1, <3>2, <3>3 DEF ChainOf
  <2> QED  BY <2>1, <2>2
<1> QED  BY <1>0, <1>2, <1>10, <1>12, <1>13, <1>14, <1>15, Steady
----------------------------------------------------------------------------
(* The theorem. *)

LEMMA IrqStarts ==
    ASSUME InterruptInit
    PROVE  IrqInv
<1>1. PICK u \in CpuThread : cpu = [if |-> FALSE, thread |-> u, run |-> User]
  <2>1. (CHOOSE t \in CpuThread : TRUE) \in CpuThread  BY InterruptAssumption
  <2> QED  BY <2>1 DEF InterruptInit
<1>2. PICK f : f = [run |-> User, if |-> TRUE, words |-> FrameWords]  OBVIOUS
<1>3. User \in Code  BY DEF User, Code
<1>4. f \in Frame /\ f.if /\ f.run = User  BY <1>2, <1>3 DEF Frame
<1>5. /\ ctx = [t \in CpuThread |-> <<f>>] /\ phase = "gates" /\ stopped = {}
      /\ desc = [v \in Vector |-> NoIRQ]
      /\ redir = [p \in 0..Pins |-> [vector |-> 0, masked |-> TRUE]]
      /\ lapic = [irr |-> {}, isr |-> {}, timer |-> NoTimer]
  BY <1>2 DEF InterruptInit
<1>6. IrqTypes
  <2>1. NoIRQ \in IRQs  BY DEF NoIRQ, IRQs
  <2>2. NoTimer \in Timer /\ ~NoTimer.periodic  BY DEF NoTimer, Timer
  <2>3. <<f>> \in Seq(Frame)  BY <1>4
  <2>4. cpu \in [if : BOOLEAN, thread : CpuThread, run : Code]  BY <1>1, <1>3
  <2> QED  BY <1>5, <2>1, <2>2, <2>3, <2>4 DEF IrqTypes, Phases
<1>7. VectorsAreSet  BY <1>5 DEF VectorsAreSet
<1>8. SourcesAreRouted  BY <1>5 DEF SourcesAreRouted, Late, NoTimer
<1>9. CodeIsKnown  BY <1>1, <1>5 DEF CodeIsKnown, Late
<1>10. ServiceIsRight
  <2>1. User.vec \notin {TimerVector, KeyVector}  BY VectorFacts DEF User
  <2> QED  BY <1>1, <1>5, <2>1 DEF ServiceIsRight
<1>11. ASSUME NEW t \in CpuThread PROVE ChainOf(t)
  <2>1. PICK c : c = <<f>>  OBVIOUS
  <2>2. c # <<>> /\ Len(c) = 1 /\ c[1] = f  BY <2>1
  <2>3. ctx[t] = c  BY <1>5, <2>1
  <2>4. ASSUME NEW k \in 1..Len(c) PROVE c[k].if /\ c[k].run = User
    <3>1. k = 1  BY <2>2, <2>4
    <3>2. c[k] = f  BY <2>2, <3>1
    <3> QED  BY <1>4, <3>2
  <2> QED  BY <2>2, <2>3, <2>4 DEF ChainOf
<1> QED  BY <1>6, <1>7, <1>8, <1>9, <1>10, <1>11 DEF IrqInv

LEMMA IrqKeeps ==
    ASSUME IrqInv, [InterruptNext]_irqVars
    PROVE  IrqInv'
<1>1. CASE UNCHANGED irqVars
  <2>0. UNCHANGED <<phase, desc, redir, lapic, cpu, ctx, stopped>>  BY <1>1 DEF irqVars
  <2>1. IrqTypes' /\ VectorsAreSet' BY <2>0 DEF IrqInv, IrqTypes, VectorsAreSet
  <2>2. SourcesAreRouted'
    <3>1. SourcesAreRouted  BY DEF IrqInv
    <3> QED  BY <2>0, <3>1 DEF SourcesAreRouted, PeriodOf, Frequency
  <2>3. CodeIsKnown' /\ ServiceIsRight'  BY <2>0 DEF IrqInv, CodeIsKnown, ServiceIsRight
  <2>4. \A t \in CpuThread : ChainOf(t)'  BY <2>0 DEF IrqInv, ChainOf
  <2> QED  BY <2>1, <2>2, <2>3, <2>4 DEF IrqInv
<1>2. CASE StartUp
  BY <1>2, InitGatesKeeps, InstallHandlersKeeps, InitLAPICKeeps, InitIOAPICKeeps, TimerSteps, RunSchedulerKeeps,
     KeyboardSteps DEF StartUp
<1>3. CASE HandlerStep \/ SystemCall \/ Yield \/ Fault
  BY <1>3, HandlersKeep, ExceptionsKeep, CallsKeep, RestoreKeeps DEF HandlerStep
<1>4. CASE \E v \in Vector : Accept(v)  BY <1>4, AcceptKeeps
<1>5. CASE TimerFires \/ \E p \in 0..Pins : RaisePin(p)  BY <1>5, RaiseKeeps
<1> QED  BY <1>1, <1>2, <1>3, <1>4, <1>5 DEF InterruptNext

\* The arithmetic of the calibration, as long as 32 bits hold the frequency.
LEMMA Small == ASSUME NEW a \in Nat, NEW w \in Nat \ {0}, a < w PROVE a % w = a
OBVIOUS
LEMMA DivideBack == ASSUME NEW a \in Nat, NEW d \in Nat \ {0} PROVE (a * d) \div d = a
OBVIOUS
LEMMA Grows == ASSUME NEW a \in Nat, NEW d \in Nat \ {0} PROVE a * d \in Nat /\ a <= a * d
OBVIOUS
LEMMA Calibrated ==
    ASSUME NEW n \in Nat, n * Divide * Periods < Word32
    PROVE  PeriodOf(Frequency(n)) = n
<1>0. Divide \in Nat \ {0} /\ Periods \in Nat \ {0} /\ Word32 \in Nat \ {0}  BY InterruptAssumption
<1>1. PICK a : a = n * Divide  OBVIOUS
<1>2. PICK b : b = a * Periods  OBVIOUS
<1>3. a \in Nat /\ n <= a  BY <1>0, <1>1, Grows
<1>4. b \in Nat /\ a <= b  BY <1>0, <1>2, <1>3, Grows
<1>5. b < Word32  BY <1>1, <1>2
<1>6. a < Word32  BY <1>0, <1>3, <1>4, <1>5
<1>7. a % Word32 = a  BY <1>0, <1>3, <1>6, Small
<1>8. b % Word32 = b  BY <1>0, <1>4, <1>5, Small
<1>9. Frequency(n) = b  BY <1>1, <1>2, <1>7, <1>8 DEF Frequency
<1>10. b = (n * Periods) * Divide  BY <1>0, <1>1, <1>2
<1>11. b \div Divide = n * Periods
  <2>1. n * Periods \in Nat  BY <1>0, Grows
  <2> QED  BY <1>0, <1>10, <2>1, DivideBack
<1>12. (n * Periods) \div Periods = n  BY <1>0, DivideBack
<1> QED  BY <1>9, <1>11, <1>12 DEF PeriodOf

LEMMA IrqImplies ==
    ASSUME IrqInv
    PROVE  InterruptsAreRouted
<1>0. /\ IrqTypes /\ VectorsAreSet /\ SourcesAreRouted /\ CodeIsKnown /\ ServiceIsRight
      /\ \A t \in CpuThread : ChainOf(t)
  BY DEF IrqInv
<1>1. ASSUME NEW t \in CpuThread, NEW f \in Frames(t)
      PROVE  /\ f.words = FrameWords
             /\ t \notin stopped => f.if /\ (f.run = User \/ f.run.vec = UserSyscall)
  <2>1. ctx[t] \in Seq(Frame)  BY <1>0 DEF IrqTypes
  <2>2. PICK k \in 1..Len(ctx[t]) : f = ctx[t][k]  BY <1>1, <2>1 DEF Frames
  <2>3. f \in Frame  BY <2>1, <2>2
  <2>4. f.words = FrameWords  BY <2>3 DEF Frame
  <2>5. f.run = SyscallCode => f.run.vec = UserSyscall  BY DEF SyscallCode
  <2>6. t \notin stopped => f.if /\ (f.run = User \/ f.run = SyscallCode)  BY <1>0, <2>2 DEF ChainOf
  <2> QED  BY <2>4, <2>5, <2>6
<1>2. cpu.thread \in stopped => cpu.run.vec = KernelSyscall  BY <1>0 DEF ServiceIsRight
<1>3. ASSUME NEW t \in CpuThread, cpu.thread # t \/ Running("restore") PROVE ctx[t] # <<>>
  <2>1. cpu.thread # t \/ cpu.run # User  BY <1>3 DEF Running, User
  <2> QED  BY <1>0, <2>1 DEF ChainOf
<1>4. /\ lapic.isr # {} => lapic.isr = {cpu.run.vec} /\ ~cpu.if
      /\ Running("eoi") => lapic.isr # {}
  <2>1. lapic.isr # {} => lapic.isr = {cpu.run.vec}  BY <1>0 DEF ServiceIsRight
  <2>2. lapic.isr # {} => ~cpu.if  BY Enabled
  <2>3. ASSUME Running("eoi") PROVE lapic.isr # {}
    <3>1. cpu.run.pc = "eoi"  BY <2>3 DEF Running
    <3>2. cpu.run.vec \in {TimerVector, KeyVector}  BY <3>1, InHandler
    <3> QED  BY <1>0, <3>1, <3>2 DEF ServiceIsRight
  <2> QED  BY <2>1, <2>2, <2>3
<1>5. phase = "up" => desc[redir[KeyboardPin].vector] = [class |-> "ioapic", handler |-> "keyboard"]
  BY <1>0, HandlersKnown DEF SourcesAreRouted, Late, IRQ
<1>6. phase \in Late => desc[lapic.timer.vector] = [class |-> "lapic", handler |-> "timer"]
  <2>1. ASSUME phase \in Late PROVE lapic.timer.vector = TimerVector  BY <1>0, <2>1 DEF SourcesAreRouted, Late
  <2> QED  BY <2>1, HandlersKnown DEF IRQ
<1>7. \A v \in {KernelSyscall, UserSyscall} : desc[v].class \in {"none", "software"}
  BY <1>0, VectorFacts DEF VectorsAreSet, IRQ, NoIRQ
<1>8. ASSUME phase \notin {"gates", "handlers", "lapic", "ioapic", "timer", "calibrate", "periodic"},
             lapic.timer.elapsed * Divide * Periods < Word32
      PROVE  lapic.timer.initial = lapic.timer.elapsed
  <2>1. phase \in {"run"} \cup Late  BY <1>0, <1>8 DEF IrqTypes, Phases
  <2>2. lapic.timer.initial = PeriodOf(Frequency(lapic.timer.elapsed))  BY <1>0, <2>1 DEF SourcesAreRouted
  <2>3. lapic.timer.elapsed \in Nat  BY <1>0 DEF IrqTypes, Timer
  <2> QED  BY <1>8, <2>2, <2>3, Calibrated
<1>9. phase \in {"devices", "attach", "up"} => phase \in Late  BY DEF Late
<1> QED  BY <1>1, <1>2, <1>3, <1>4, <1>5, <1>6, <1>7, <1>8, <1>9 DEF InterruptsAreRouted

\* Through the whole start-up, with devices that interrupt at any time, system calls that
\* yield and page faults that stop threads: save_context and restore_context of trap.S keep
\* every thread's chain one of programs and system calls, at most one vector is in service,
\* and the vectors that attach_irq gave out lead to the handlers of the timer and the keyboard.
THEOREM InterruptsRouted == InterruptSpec => []InterruptsAreRouted
<1>1. InterruptInit => IrqInv  BY IrqStarts
<1>2. IrqInv /\ [InterruptNext]_irqVars => IrqInv'  BY IrqKeeps
<1>3. IrqInv => InterruptsAreRouted  BY IrqImplies
<1> QED  BY <1>1, <1>2, <1>3, PTL DEF InterruptSpec

(***************************************************************************)
(* Clock.                                                                   *)
(***************************************************************************)

\* Seconds since the month began.
SecondOfMonth(t) == t.day * SecondsPerDay + SecondOfDay(t)

\* The chip does not advance in the middle of a read, counts hours to 24, stays within a month,
\* and keeps a year whose century the driver knows or can read.
ChipIsRegular ==
    /\ ~UpdatesDuringRead
    /\ \A m \in Modes : ~m.twelve
    /\ \A t \in StartTimes :
          /\ SecondOfMonth(t) + MaxUpdates < 32 * SecondsPerDay
          /\ t.year \div 100 # 0
          /\ (\E m \in Modes : ~m.century) => t.year \div 100 = ThisCentury

\* The chip is as many seconds past a start time as it has advanced.
ChipInv ==
    /\ Legal(now) /\ mode \in Modes /\ updates \in 0..MaxUpdates
    /\ \E t \in StartTimes :
          SecondOfMonth(now) = SecondOfMonth(t) + updates /\ now.year = t.year

\* The registers read so far are those of the one time that the read has seen.
ReadInv ==
    /\ raw \in Seq(Int) /\ Len(raw) <= Len(ReadOrder)
    /\ raw # <<>> /\ Reading =>
          span = {now} /\ \A i \in 1..Len(raw) : raw[i] = Register(ReadOrder[i])
    /\ ~Reading => time \in span
    /\ Legal(time)

\* The seconds that have fallen due after n ticks, the first of them a tick late.
DueAfter(n) == IF n = 0 THEN 0 ELSE (n - 1) \div TicksPerSecond

\* Ticks are left over from the seconds that fell due; the fields that resync_tod has assigned
\* are those read, as long as no second fell due; and then the time of day runs with the ticks.
TodInv ==
    /\ Legal(tod) /\ assigned \in 0..Len(AssignOrder) /\ elapsed \in Nat /\ missed \in Nat
    /\ ticks \in 0..TicksPerSecond /\ elapsed = DueAfter(elapsed) * TicksPerSecond + ticks
    /\ DueAfter(elapsed) \in Nat /\ (elapsed # 0 => ticks # 0)
    /\ Reading => assigned = 0
    /\ assigned < Len(AssignOrder) /\ elapsed <= TicksPerSecond =>
          \A i \in 1..assigned : tod[AssignOrder[i]] = time[AssignOrder[i]]
    /\ TodKeepsPace

ClockInv == ChipInv /\ ReadInv /\ TodInv

\* A number is read back from its binary coded decimal.
LEMMA DecimalBack ==
    ASSUME NEW n \in Nat
    PROVE  ToBcd(n) \in Nat /\ ConvertToBinary(ToBcd(n)) = n
<1>1. PICK a \in Nat, b \in Nat : a = n \div 10 /\ b = n % 10 /\ n = a * 10 + b /\ b <= 9  OBVIOUS
<1>2. ToBcd(n) = a * 16 + b  BY <1>1 DEF ToBcd
<1>3. (a * 16 + b) % 16 = b /\ (a * 16 + b) \div 16 = a  BY <1>1
<1> QED  BY <1>1, <1>2, <1>3 DEF ConvertToBinary

\* The last tick of a second is the one that makes it due.
LEMMA QuotientIs ==
    ASSUME NEW d \in Nat \ {0}, NEW k \in Nat, NEW r \in 0..(d - 1)
    PROVE  (k * d + r) \div d = k
<1>1. k * d \in Nat /\ k * d = d * k  OBVIOUS
<1>2. PICK n \in Nat : n = k * d + r  BY <1>1
<1>3. PICK q \in Int : q = n \div d  OBVIOUS
<1>4. d * q <= n /\ n < d * q + d  BY <1>2, <1>3
<1>5. d * (q - k) <= r /\ r < d * (q - k) + d  BY <1>1, <1>2, <1>3, <1>4
<1>6. PICK e \in Int : e = q - k  BY <1>3
<1>7. d * e <= r /\ r < d * e + d /\ d \in Int /\ r < d /\ r >= 0  BY <1>5, <1>6
<1>8. ~(e >= 1)
  <2>1. e >= 1 => d * e >= d  BY <1>6, <1>7
  <2> QED  BY <1>7, <2>1
<1>9. ~(e <= -1)
  <2>1. e <= -1 => d * e <= -d  BY <1>6, <1>7
  <2> QED  BY <1>7, <2>1
<1>10. e = 0  BY <1>6, <1>8, <1>9
<1> QED  BY <1>2, <1>3, <1>6, <1>10

LEMMA DueNext ==
    ASSUME NEW n \in Nat, NEW r \in 0..TicksPerSecond, NEW k \in Nat, k = DueAfter(n),
           n = k * TicksPerSecond + r, n # 0 => r # 0
    PROVE  /\ r + 1 > TicksPerSecond => DueAfter(n + 1) = k + 1
           /\ ~(r + 1 > TicksPerSecond) => DueAfter(n + 1) = k
           /\ k = 0 <=> n <= TicksPerSecond
<1>0. PICK d \in Nat \ {0} : d = TicksPerSecond  BY ClockAssumption
<1>1. DueAfter(n + 1) = n \div d  BY <1>0 DEF DueAfter
<1>2. ASSUME r + 1 > d PROVE DueAfter(n + 1) = k + 1
  <2>1. r = d  BY <1>0, <1>2
  <2>2. n = (k + 1) * d + 0  BY <1>0, <2>1
  <2>3. n \div d = k + 1
    <3>1. k + 1 \in Nat /\ 0 \in 0..(d - 1)  BY <1>0
    <3>2. ((k + 1) * d + 0) \div d = k + 1  BY <3>1, QuotientIs
    <3> QED  BY <2>2, <3>2
  <2> QED  BY <1>1, <2>3
<1>3. ASSUME ~(r + 1 > d) PROVE DueAfter(n + 1) = k
  <2>1. r \in 0..(d - 1)  BY <1>0, <1>3
  <2>2. n \div d = k  BY <1>0, <2>1, QuotientIs
  <2> QED  BY <1>1, <2>2
<1>4. k = 0 <=> n <= TicksPerSecond
  <2>1. k = 0 => n <= d  BY <1>0
  <2>2. k >= 1 => k * d >= d  BY <1>0
  <2>3. n <= d => k = 0
    <3>1. ASSUME k >= 1 PROVE n > d
      <4>1. n >= d + r  BY <1>0, <2>2, <3>1
      <4>2. n # 0  BY <1>0, <4>1
      <4> QED  BY <1>0, <4>1, <4>2
    <3> QED  BY <1>0, <3>1
  <2> QED  BY <1>0, <2>1, <2>3
<1> QED  BY <1>0, <1>2, <1>3, <1>4

\* A time from its fields.
Sixty == 0..59
HourOfDay == 0..23
DayOfMonth == 1..31
MonthOfYear == 1..12
Stamp(s, m, h, d, o, y) == [seconds |-> s, minutes |-> m, hours |-> h, day |-> d, month |-> o, year |-> y]
Seconds(s, m, h) == 3600 * h + 60 * m + s

LEMMA FieldsOf ==
    ASSUME NEW t, Legal(t)
    PROVE  /\ t.seconds \in Sixty /\ t.minutes \in Sixty /\ t.hours \in HourOfDay /\ t.day \in DayOfMonth
           /\ t.month \in MonthOfYear /\ t.year \in Nat
           /\ t = Stamp(t.seconds, t.minutes, t.hours, t.day, t.month, t.year)
<1>1. /\ t.seconds \in Sixty /\ t.minutes \in Sixty /\ t.hours \in HourOfDay /\ t.day \in DayOfMonth
      /\ t.month \in MonthOfYear /\ t.year \in Nat
  BY DEF Legal, Sixty, HourOfDay, DayOfMonth, MonthOfYear
<1>2. t = Stamp(t.seconds, t.minutes, t.hours, t.day, t.month, t.year)  BY DEF Legal, Stamp
<1> QED  BY <1>1, <1>2

LEMMA RecordIn ==
    ASSUME NEW A, NEW B, NEW C, NEW D, NEW E, NEW F, NEW s \in A, NEW m \in B, NEW h \in C, NEW d \in D,
           NEW o \in E, NEW y \in F
    PROVE  [seconds |-> s, minutes |-> m, hours |-> h, day |-> d, month |-> o, year |-> y]
              \in [seconds : A, minutes : B, hours : C, day : D, month : E, year : F]
OBVIOUS

LEMMA SecondsOf ==
    ASSUME NEW s \in Sixty, NEW m \in Sixty, NEW h \in HourOfDay
    PROVE  /\ (h * 60 + m) * 60 + s = Seconds(s, m, h)
           /\ Seconds(s, m, h) \in Nat /\ Seconds(s, m, h) < SecondsPerDay
BY SMT DEF Seconds, Sixty, HourOfDay, SecondsPerDay

LEMMA StampIs ==
    ASSUME NEW s \in Sixty, NEW m \in Sixty, NEW h \in HourOfDay, NEW d \in DayOfMonth, NEW o \in MonthOfYear, NEW y \in Nat
    PROVE  /\ Legal(Stamp(s, m, h, d, o, y)) /\ Stamp(s, m, h, d, o, y).year = y
           /\ SecondOfDay(Stamp(s, m, h, d, o, y)) = Seconds(s, m, h)
           /\ SecondOfMonth(Stamp(s, m, h, d, o, y)) = d * SecondsPerDay + Seconds(s, m, h)
<1>1. PICK t : t = Stamp(s, m, h, d, o, y)  OBVIOUS
<1>2. t.seconds = s /\ t.minutes = m /\ t.hours = h /\ t.day = d /\ t.year = y  BY <1>1 DEF Stamp
<1>3. Legal(t)
  <2>1. Stamp(s, m, h, d, o, y)
          \in [seconds : Sixty, minutes : Sixty, hours : HourOfDay, day : DayOfMonth, month : MonthOfYear, year : Nat]
    BY RecordIn, Zenon DEF Stamp
  <2> QED  BY <1>1, <2>1, Zenon DEF Legal, Sixty, HourOfDay, DayOfMonth, MonthOfYear
<1>4. SecondOfDay(t) = Seconds(s, m, h)
  <2>1. (h * 60 + m) * 60 + s = Seconds(s, m, h)  BY SecondsOf
  <2>2. SecondOfDay(t) = (h * 60 + m) * 60 + s  BY <1>2, Zenon DEF SecondOfDay
  <2> QED  BY <2>1, <2>2, Zenon
<1>5. SecondOfMonth(t) = d * SecondsPerDay + Seconds(s, m, h)  BY <1>2, <1>4, Zenon DEF SecondOfMonth
<1> QED  BY <1>1, <1>2, <1>3, <1>4, <1>5

\* A time with its lower fields changed.
WithSecond(t, a) == [t EXCEPT !.seconds = a]
WithMinute(t, a, b) == [t EXCEPT !.seconds = a, !.minutes = b]
WithHour(t, a, b, c) == [t EXCEPT !.seconds = a, !.minutes = b, !.hours = c]
WithDay(t, a, b, c, e) == [t EXCEPT !.seconds = a, !.minutes = b, !.hours = c, !.day = e]

LEMMA WithSecondIs ==
    ASSUME NEW t, Legal(t), NEW a \in Sixty
    PROVE  WithSecond(t, a) = Stamp(a, t.minutes, t.hours, t.day, t.month, t.year)
<1>1. t \in [seconds : Sixty, minutes : Sixty, hours : HourOfDay, day : DayOfMonth, month : MonthOfYear, year : Nat]
  BY Zenon DEF Legal, Sixty, HourOfDay, DayOfMonth, MonthOfYear
<1>2. PICK u : u = WithSecond(t, a)  OBVIOUS
<1>3. u \in [seconds : Sixty, minutes : Sixty, hours : HourOfDay, day : DayOfMonth, month : MonthOfYear, year : Nat]
  BY <1>1, <1>2 DEF WithSecond
<1>4. /\ u.seconds = a /\ u.minutes = t.minutes /\ u.hours = t.hours /\ u.day = t.day
      /\ u.month = t.month /\ u.year = t.year
  BY <1>1, <1>2 DEF WithSecond
<1> QED  BY <1>2, <1>3, <1>4 DEF Stamp

LEMMA WithMinuteIs ==
    ASSUME NEW t, Legal(t), NEW a \in Sixty, NEW b \in Sixty
    PROVE  WithMinute(t, a, b) = Stamp(a, b, t.hours, t.day, t.month, t.year)
<1>1. t \in [seconds : Sixty, minutes : Sixty, hours : HourOfDay, day : DayOfMonth, month : MonthOfYear, year : Nat]
  BY Zenon DEF Legal, Sixty, HourOfDay, DayOfMonth, MonthOfYear
<1>2. PICK u : u = WithMinute(t, a, b)  OBVIOUS
<1>3. u \in [seconds : Sixty, minutes : Sixty, hours : HourOfDay, day : DayOfMonth, month : MonthOfYear, year : Nat]
  BY <1>1, <1>2 DEF WithMinute
<1>4. /\ u.seconds = a /\ u.minutes = b /\ u.hours = t.hours /\ u.day = t.day
      /\ u.month = t.month /\ u.year = t.year
  BY <1>1, <1>2 DEF WithMinute
<1> QED  BY <1>2, <1>3, <1>4 DEF Stamp

LEMMA WithHourIs ==
    ASSUME NEW t, Legal(t), NEW a \in Sixty, NEW b \in Sixty, NEW c \in HourOfDay
    PROVE  WithHour(t, a, b, c) = Stamp(a, b, c, t.day, t.month, t.year)
<1>1. t \in [seconds : Sixty, minutes : Sixty, hours : HourOfDay, day : DayOfMonth, month : MonthOfYear, year : Nat]
  BY Zenon DEF Legal, Sixty, HourOfDay, DayOfMonth, MonthOfYear
<1>2. PICK u : u = WithHour(t, a, b, c)  OBVIOUS
<1>3. u \in [seconds : Sixty, minutes : Sixty, hours : HourOfDay, day : DayOfMonth, month : MonthOfYear, year : Nat]
  BY <1>1, <1>2 DEF WithHour
<1>4. /\ u.seconds = a /\ u.minutes = b /\ u.hours = c /\ u.day = t.day
      /\ u.month = t.month /\ u.year = t.year
  BY <1>1, <1>2 DEF WithHour
<1> QED  BY <1>2, <1>3, <1>4 DEF Stamp

LEMMA WithDayIs ==
    ASSUME NEW t, Legal(t), NEW a \in Sixty, NEW b \in Sixty, NEW c \in HourOfDay, NEW e \in DayOfMonth
    PROVE  WithDay(t, a, b, c, e) = Stamp(a, b, c, e, t.month, t.year)
<1>1. t \in [seconds : Sixty, minutes : Sixty, hours : HourOfDay, day : DayOfMonth, month : MonthOfYear, year : Nat]
  BY Zenon DEF Legal, Sixty, HourOfDay, DayOfMonth, MonthOfYear
<1>2. PICK u : u = WithDay(t, a, b, c, e)  OBVIOUS
<1>3. u \in [seconds : Sixty, minutes : Sixty, hours : HourOfDay, day : DayOfMonth, month : MonthOfYear, year : Nat]
  BY <1>1, <1>2 DEF WithDay
<1>4. /\ u.seconds = a /\ u.minutes = b /\ u.hours = c /\ u.day = e
      /\ u.month = t.month /\ u.year = t.year
  BY <1>1, <1>2 DEF WithDay
<1> QED  BY <1>2, <1>3, <1>4 DEF Stamp

LEMMA SecondsAre ==
    ASSUME NEW t, Legal(t)
    PROVE  SecondOfDay(t) \in Nat /\ SecondOfDay(t) < SecondsPerDay /\ SecondOfMonth(t) \in Nat
<1>0. PICK s \in Sixty : s = t.seconds  BY FieldsOf
<1>a. PICK m \in Sixty : m = t.minutes  BY FieldsOf
<1>b. PICK h \in HourOfDay : h = t.hours  BY FieldsOf
<1>c. PICK d \in DayOfMonth : d = t.day  BY FieldsOf
<1>d. PICK o \in MonthOfYear : o = t.month  BY FieldsOf
<1>e. PICK y \in Nat : y = t.year  BY FieldsOf
<1>1. t = Stamp(s, m, h, d, o, y)  BY <1>0, <1>a, <1>b, <1>c, <1>d, <1>e, FieldsOf
<1>2. PICK x \in Nat : x = Seconds(s, m, h) /\ x < SecondsPerDay  BY SecondsOf
<1>3. SecondOfDay(t) = x /\ SecondOfMonth(t) = d * SecondsPerDay + x  BY <1>1, <1>2, StampIs
<1>4. d * SecondsPerDay + x \in Nat  BY SMT DEF DayOfMonth, SecondsPerDay
<1> QED  BY <1>2, <1>3, <1>4

\* A second later a legal time is legal and a second later, as long as the month lasts.
LEMMA LaterIs ==
    ASSUME NEW t, Legal(t), SecondOfMonth(t) + 1 < 32 * SecondsPerDay
    PROVE  Legal(Later(t)) /\ SecondOfMonth(Later(t)) = SecondOfMonth(t) + 1 /\ Later(t).year = t.year
<1>0. PICK s \in Sixty : s = t.seconds  BY FieldsOf
<1>a. PICK m \in Sixty : m = t.minutes  BY FieldsOf
<1>b. PICK h \in HourOfDay : h = t.hours  BY FieldsOf
<1>c. PICK d \in DayOfMonth : d = t.day  BY FieldsOf
<1>d. PICK o \in MonthOfYear : o = t.month  BY FieldsOf
<1>e. PICK y \in Nat : y = t.year  BY FieldsOf
<1>1. t = Stamp(s, m, h, d, o, y)  BY <1>0, <1>a, <1>b, <1>c, <1>d, <1>e, FieldsOf
<1>2. SecondOfMonth(t) = d * SecondsPerDay + Seconds(s, m, h) /\ t.year = y  BY <1>1, StampIs
<1>f. PICK a \in Nat : a = d * SecondsPerDay  BY SMT DEF SecondsPerDay, DayOfMonth
<1>g. t.seconds = s /\ t.minutes = m /\ t.hours = h /\ t.day = d  BY <1>0, <1>a, <1>b, <1>c
<1>3. CASE s < 59
  <2>1. Later(t) = Stamp(s + 1, m, h, d, o, y)
    <3>1. Later(t) = WithSecond(t, s + 1)
      BY <1>g, <1>3 DEF Later, WithSecond, Sixty, HourOfDay
    <3>2. s + 1 \in Sixty /\ m \in Sixty /\ h \in HourOfDay /\ d \in DayOfMonth  BY <1>3 DEF Sixty, HourOfDay, DayOfMonth, MonthOfYear
    <3>3. WithSecond(t, s + 1) = Stamp(s + 1, t.minutes, t.hours, t.day, t.month, t.year)
      BY <3>2, WithSecondIs
    <3> QED  BY <1>0, <1>a, <1>b, <1>c, <1>d, <1>e, <3>1, <3>3, Zenon
  <2>2. Seconds(s + 1, m, h) = Seconds(s, m, h) + 1 /\ Seconds(s, m, h) \in Int  BY DEF Seconds, Sixty, HourOfDay
  <2>3. s + 1 \in Sixty  BY <1>3 DEF Sixty, HourOfDay, DayOfMonth, MonthOfYear
  <2>4. /\ Legal(Later(t)) /\ Later(t).year = y
        /\ SecondOfMonth(Later(t)) = d * SecondsPerDay + Seconds(s + 1, m, h)
    BY <2>1, <2>3, StampIs
  <2> QED  BY <1>2, <1>f, <2>2, <2>4
<1>4. CASE s = 59 /\ m < 59
  <2>1. Later(t) = Stamp(0, m + 1, h, d, o, y)
    <3>1. Later(t) = WithMinute(t, 0, m + 1)
      BY <1>g, <1>4 DEF Later, WithMinute, Sixty, HourOfDay
    <3>2. 0 \in Sixty /\ m + 1 \in Sixty /\ h \in HourOfDay /\ d \in DayOfMonth  BY <1>4 DEF Sixty, HourOfDay, DayOfMonth, MonthOfYear
    <3>3. WithMinute(t, 0, m + 1) = Stamp(0, m + 1, t.hours, t.day, t.month, t.year)
      BY <3>2, WithMinuteIs
    <3> QED  BY <1>0, <1>a, <1>b, <1>c, <1>d, <1>e, <3>1, <3>3, Zenon
  <2>2. Seconds(0, m + 1, h) = Seconds(s, m, h) + 1 /\ Seconds(s, m, h) \in Int  BY <1>4 DEF Seconds, Sixty, HourOfDay
  <2>3. 0 \in Sixty /\ m + 1 \in Sixty  BY <1>4 DEF Sixty, HourOfDay, DayOfMonth, MonthOfYear
  <2>4. /\ Legal(Later(t)) /\ Later(t).year = y
        /\ SecondOfMonth(Later(t)) = d * SecondsPerDay + Seconds(0, m + 1, h)
    BY <2>1, <2>3, StampIs
  <2> QED  BY <1>2, <1>f, <2>2, <2>4
<1>5. CASE s = 59 /\ m = 59 /\ h < 23
  <2>1. Later(t) = Stamp(0, 0, h + 1, d, o, y)
    <3>1. Later(t) = WithHour(t, 0, 0, h + 1)
      BY <1>g, <1>5 DEF Later, WithHour, Sixty, HourOfDay
    <3>2. 0 \in Sixty /\ 0 \in Sixty /\ h + 1 \in HourOfDay /\ d \in DayOfMonth  BY <1>5 DEF Sixty, HourOfDay, DayOfMonth, MonthOfYear
    <3>3. WithHour(t, 0, 0, h + 1) = Stamp(0, 0, h + 1, t.day, t.month, t.year)
      BY <3>2, WithHourIs
    <3> QED  BY <1>0, <1>a, <1>b, <1>c, <1>d, <1>e, <3>1, <3>3, Zenon
  <2>2. Seconds(0, 0, h + 1) = Seconds(s, m, h) + 1 /\ Seconds(s, m, h) \in Int  BY <1>5 DEF Seconds, Sixty, HourOfDay
  <2>3. 0 \in Sixty /\ h + 1 \in HourOfDay  BY <1>5 DEF Sixty, HourOfDay, DayOfMonth, MonthOfYear
  <2>4. /\ Legal(Later(t)) /\ Later(t).year = y
        /\ SecondOfMonth(Later(t)) = d * SecondsPerDay + Seconds(0, 0, h + 1)
    BY <2>1, <2>3, StampIs
  <2> QED  BY <1>2, <1>f, <2>2, <2>4
<1>6. CASE s = 59 /\ m = 59 /\ h = 23
  <2>2. Seconds(0, 0, 0) = 0 /\ Seconds(s, m, h) = SecondsPerDay - 1  BY <1>6, SMT DEF Seconds, Sixty, HourOfDay, SecondsPerDay
  <2>a. d < 31  BY <1>2, <2>2, SMT DEF DayOfMonth, SecondsPerDay
  <2>1. Later(t) = Stamp(0, 0, 0, d + 1, o, y)
    <3>1. Later(t) = WithDay(t, 0, 0, 0, d + 1)
      BY <1>g, <1>6 DEF Later, WithDay, Sixty, HourOfDay
    <3>2. 0 \in Sixty /\ 0 \in Sixty /\ 0 \in HourOfDay /\ d + 1 \in DayOfMonth  BY <1>6, <2>a DEF Sixty, HourOfDay, DayOfMonth, MonthOfYear
    <3>3. WithDay(t, 0, 0, 0, d + 1) = Stamp(0, 0, 0, d + 1, t.month, t.year)
      BY <3>2, WithDayIs
    <3> QED  BY <1>0, <1>a, <1>b, <1>c, <1>d, <1>e, <3>1, <3>3, Zenon
  <2>4. 0 \in Sixty /\ 0 \in HourOfDay /\ d + 1 \in DayOfMonth  BY <2>a DEF Sixty, HourOfDay, DayOfMonth, MonthOfYear
  <2>5. /\ Legal(Later(t)) /\ Later(t).year = y
        /\ SecondOfMonth(Later(t)) = (d + 1) * SecondsPerDay + Seconds(0, 0, 0)
    BY <2>1, <2>4, StampIs
  <2>6. (d + 1) * SecondsPerDay + 0 = (d * SecondsPerDay + SecondsPerDay - 1) + 1  BY SMT DEF DayOfMonth, SecondsPerDay
  <2> QED  BY <1>2, <2>2, <2>5, <2>6
<1> QED  BY <1>3, <1>4, <1>5, <1>6 DEF Sixty, HourOfDay

\* increment_tod adds a second to the time of day.
LEMMA IncrementIs ==
    ASSUME NEW t, Legal(t)
    PROVE  Legal(IncrementTod(t)) /\ SecondOfDay(IncrementTod(t)) = (SecondOfDay(t) + 1) % SecondsPerDay
<1>0. PICK s \in Sixty : s = t.seconds  BY FieldsOf
<1>a. PICK m \in Sixty : m = t.minutes  BY FieldsOf
<1>b. PICK h \in HourOfDay : h = t.hours  BY FieldsOf
<1>c. PICK d \in DayOfMonth : d = t.day  BY FieldsOf
<1>d. PICK o \in MonthOfYear : o = t.month  BY FieldsOf
<1>e. PICK y \in Nat : y = t.year  BY FieldsOf
<1>1. t = Stamp(s, m, h, d, o, y)  BY <1>0, <1>a, <1>b, <1>c, <1>d, <1>e, FieldsOf
<1>2. PICK x \in Nat : x = Seconds(s, m, h) /\ x < SecondsPerDay  BY SecondsOf
<1>3. SecondOfDay(t) = x  BY <1>1, <1>2, StampIs
<1>4. PICK n : n = s + 1  OBVIOUS
<1>5. PICK p : p = IF n > 59 THEN m + 1 ELSE m  OBVIOUS
<1>6. PICK q : q = IF p > 59 THEN h + 1 ELSE h  OBVIOUS
<1>7. PICK a : a = IF n > 59 THEN 0 ELSE n  OBVIOUS
<1>8. PICK b : b = IF p > 59 THEN 0 ELSE p  OBVIOUS
<1>9. PICK c : c = IF q > 23 THEN 0 ELSE q  OBVIOUS
<1>10. IncrementTod(t) = WithHour(t, a, b, c)
  BY <1>0, <1>a, <1>b, <1>4, <1>5, <1>6, <1>7, <1>8, <1>9, Zenon DEF IncrementTod, WithHour
<1>11. /\ a \in Sixty /\ b \in Sixty /\ c \in HourOfDay
       /\ Seconds(a, b, c) = IF x + 1 = SecondsPerDay THEN 0 ELSE x + 1
  <2>1. CASE s < 59
    <3>1. a = s + 1 /\ b = m /\ c = h  BY <1>4, <1>5, <1>6, <1>7, <1>8, <1>9, <2>1 DEF Sixty, HourOfDay
    <3>2. Seconds(s + 1, m, h) = x + 1 /\ x + 1 # SecondsPerDay  BY <1>2, <2>1, SMT DEF Seconds, Sixty, HourOfDay, SecondsPerDay
    <3>3. s + 1 \in Sixty  BY <2>1 DEF Sixty
    <3> QED  BY <3>1, <3>2, <3>3
  <2>2. CASE s = 59 /\ m < 59
    <3>1. a = 0 /\ b = m + 1 /\ c = h  BY <1>4, <1>5, <1>6, <1>7, <1>8, <1>9, <2>2 DEF Sixty, HourOfDay
    <3>2. Seconds(0, m + 1, h) = x + 1 /\ x + 1 # SecondsPerDay  BY <1>2, <2>2, SMT DEF Seconds, Sixty, HourOfDay, SecondsPerDay
    <3>3. 0 \in Sixty /\ m + 1 \in Sixty  BY <2>2 DEF Sixty
    <3> QED  BY <3>1, <3>2, <3>3
  <2>3. CASE s = 59 /\ m = 59 /\ h < 23
    <3>1. a = 0 /\ b = 0 /\ c = h + 1  BY <1>4, <1>5, <1>6, <1>7, <1>8, <1>9, <2>3 DEF Sixty, HourOfDay
    <3>2. Seconds(0, 0, h + 1) = x + 1 /\ x + 1 # SecondsPerDay  BY <1>2, <2>3, SMT DEF Seconds, Sixty, HourOfDay, SecondsPerDay
    <3>3. 0 \in Sixty /\ h + 1 \in HourOfDay  BY <2>3 DEF Sixty, HourOfDay
    <3> QED  BY <3>1, <3>2, <3>3
  <2>4. CASE s = 59 /\ m = 59 /\ h = 23
    <3>1. a = 0 /\ b = 0 /\ c = 0  BY <1>4, <1>5, <1>6, <1>7, <1>8, <1>9, <2>4 DEF Sixty, HourOfDay
    <3>2. Seconds(0, 0, 0) = 0 /\ x + 1 = SecondsPerDay  BY <1>2, <2>4, SMT DEF Seconds, Sixty, HourOfDay, SecondsPerDay
    <3>3. 0 \in Sixty /\ 0 \in HourOfDay  BY DEF Sixty, HourOfDay
    <3> QED  BY <3>1, <3>2, <3>3
  <2> QED  BY <2>1, <2>2, <2>3, <2>4 DEF Sixty, HourOfDay
<1>12. IncrementTod(t) = Stamp(a, b, c, d, o, y)
  <2>1. WithHour(t, a, b, c) = Stamp(a, b, c, t.day, t.month, t.year)  BY <1>11, WithHourIs
  <2> QED  BY <1>c, <1>d, <1>e, <1>10, <2>1
<1>13. Legal(IncrementTod(t)) /\ SecondOfDay(IncrementTod(t)) = Seconds(a, b, c)  BY <1>11, <1>12, StampIs
<1>14. (x + 1) % SecondsPerDay = IF x + 1 = SecondsPerDay THEN 0 ELSE x + 1  BY <1>2, SMT DEF SecondsPerDay
<1> QED  BY <1>3, <1>11, <1>13, <1>14

\* What the driver makes of the registers is the time the chip has.
LEMMA DecodedIs ==
    ASSUME ChipIsRegular, ChipInv, NEW r \in Seq(Int), Len(r) = Len(ReadOrder),
           \A i \in 1..Len(r) : r[i] = Register(ReadOrder[i])
    PROVE  Decode(r) = now
<1>0. /\ mode \in [bcd : BOOLEAN, twelve : BOOLEAN, century : BOOLEAN] /\ ~mode.twelve
      /\ now.year \div 100 # 0 /\ (~mode.century => now.year \div 100 = ThisCentury)
  BY ClockAssumption DEF ChipIsRegular, ChipInv
<1>1. /\ now.seconds \in 0..59 /\ now.minutes \in 0..59 /\ now.hours \in 0..23 /\ now.day \in 1..31
      /\ now.month \in 1..12 /\ now.year \in Nat
  BY DEF ChipInv, Legal
<1>2. /\ r[1] = Register("seconds") /\ r[2] = Register("minutes") /\ r[3] = Register("hours")
      /\ r[4] = Register("day") /\ r[5] = Register("month") /\ r[6] = Register("year")
      /\ r[7] = Register("century")
  BY DEF ReadOrder
<1>3. ASSUME NEW n \in Nat PROVE GetRtcValue(IF mode.bcd THEN ToBcd(n) ELSE n) = n
  BY DecimalBack DEF GetRtcValue
<1>4. /\ GetRtcValue(r[1]) = now.seconds /\ GetRtcValue(r[2]) = now.minutes
      /\ GetRtcValue(r[4]) = now.day /\ GetRtcValue(r[5]) = now.month
  <2>1. /\ r[1] = (IF mode.bcd THEN ToBcd(now.seconds) ELSE now.seconds)
        /\ r[2] = (IF mode.bcd THEN ToBcd(now.minutes) ELSE now.minutes)
        /\ r[4] = (IF mode.bcd THEN ToBcd(now.day) ELSE now.day)
        /\ r[5] = (IF mode.bcd THEN ToBcd(now.month) ELSE now.month)
    BY <1>0, <1>2 DEF Register
  <2>2. now.seconds \in Nat /\ now.minutes \in Nat /\ now.day \in Nat /\ now.month \in Nat
    <3>1. \A n \in 0..59 : n \in Nat  OBVIOUS
    <3>2. \A n \in 1..31 : n \in Nat  OBVIOUS
    <3>3. \A n \in 1..12 : n \in Nat  OBVIOUS
    <3> QED  BY <1>1, <3>1, <3>2, <3>3
  <2> QED  BY <1>3, <2>1, <2>2
<1>5. GetRtcHourValue(r[3]) = now.hours
  <2>1. PICK h \in 0..23 : h = now.hours  BY <1>1
  <2>2. r[3] = (IF mode.bcd THEN ToBcd(h) ELSE h)  BY <1>0, <1>2, <2>1 DEF Register
  <2>3. CASE mode.bcd
    <3>1. PICK v \in 0..127 : v = ToBcd(h)
      <4>1. (h \div 10) * 16 + (h % 10) \in 0..127  OBVIOUS
      <4> QED  BY <4>1 DEF ToBcd
    <3>2. ConvertToBinary(v) = h
      <4>1. h \in Nat  OBVIOUS
      <4> QED  BY <3>1, <4>1, DecimalBack
    <3>3. v % 128 = v /\ v \div 128 = 0  OBVIOUS
    <3> QED  BY <1>0, <2>1, <2>2, <2>3, <3>1, <3>2, <3>3 DEF GetRtcHourValue
  <2>4. CASE ~mode.bcd  BY <1>0, <2>1, <2>2, <2>4 DEF GetRtcHourValue
  <2> QED  BY <2>3, <2>4
<1>6. GetRtcYearValue(r[6], r[7]) = now.year
  <2>1. PICK y \in Nat, c \in Nat : y = now.year % 100 /\ c = now.year \div 100 /\ now.year = c * 100 + y
    BY <1>1
  <2>a. now.year = c * 100 + y  BY <2>1, Zenon
  <2>b. y + 100 * c = c * 100 + y  OBVIOUS
  <2>2. r[6] = (IF mode.bcd THEN ToBcd(y) ELSE y)  BY <1>2, <2>1 DEF Register
  <2>3. GetRtcValue(r[6]) = y  BY <1>3, <2>2
  <2>4. CASE mode.century
    <3>1. r[7] = (IF mode.bcd THEN ToBcd(c) ELSE c)  BY <1>2, <2>1, <2>4 DEF Register
    <3>2. GetRtcValue(r[7]) = c  BY <1>3, <3>1
    <3>3. GetRtcYearValue(r[6], r[7]) = y + 100 * (IF c = 0 THEN ThisCentury ELSE c)
      BY <2>3, <3>2 DEF GetRtcYearValue
    <3>4. c # 0  BY <1>0, <2>1
    <3>5. GetRtcYearValue(r[6], r[7]) = y + 100 * c  BY <3>3, <3>4
    <3> QED  BY <2>a, <2>b, <3>5, Zenon
  <2>5. CASE ~mode.century
    <3>1. r[7] = 0  BY <1>2, <2>5 DEF Register
    <3>2. GetRtcValue(r[7]) = 0  BY <3>1 DEF GetRtcValue, ConvertToBinary
    <3>3. GetRtcYearValue(r[6], r[7]) = y + 100 * ThisCentury  BY <2>3, <3>2 DEF GetRtcYearValue
    <3>4. c = ThisCentury  BY <1>0, <2>1, <2>5
    <3>5. GetRtcYearValue(r[6], r[7]) = y + 100 * c  BY <3>3, <3>4
    <3> QED  BY <2>a, <2>b, <3>5, Zenon
  <2> QED  BY <2>4, <2>5
<1>7. now = [seconds |-> now.seconds, minutes |-> now.minutes, hours |-> now.hours,
             day |-> now.day, month |-> now.month, year |-> now.year]
  BY DEF ChipInv, Legal
<1> QED  BY <1>4, <1>5, <1>6, <1>7 DEF Decode

LEMMA ClockStarts ==
    ASSUME ChipIsRegular, ClockInit
    PROVE  ClockInv
<1>1. ChipInv
  <2>1. now \in StartTimes /\ Legal(now) /\ SecondOfMonth(now) \in Nat
    <3>1. now \in StartTimes /\ Legal(now)  BY ClockAssumption DEF ClockInit
    <3> QED  BY <3>1, SecondsAre
  <2>2. updates = 0 /\ MaxUpdates \in Nat /\ mode \in Modes  BY ClockAssumption DEF ClockInit
  <2>3. SecondOfMonth(now) = SecondOfMonth(now) + updates  BY <2>1, <2>2
  <2> QED  BY <2>1, <2>2, <2>3 DEF ChipInv
<1>2. Legal(Epoch)  BY DEF Epoch, Legal
<1>3. Len(ReadOrder) = 7 /\ Len(AssignOrder) = 6  BY DEF ReadOrder, AssignOrder
<1>4. raw = <<>> /\ Len(raw) = 0 /\ raw \in Seq(Int) /\ Reading  BY <1>3 DEF ClockInit, Reading
<1>5. ReadInv  BY <1>2, <1>3, <1>4 DEF ClockInit, ReadInv
<1>6. DueAfter(0) = 0 /\ TicksPerSecond \in Nat  BY ClockAssumption DEF DueAfter
<1>7. 0 * TicksPerSecond = 0  BY <1>6
<1>8. TodInv  BY <1>2, <1>3, <1>4, <1>6, <1>7 DEF ClockInit, TodInv, TodKeepsPace
<1> QED  BY <1>1, <1>5, <1>8 DEF ClockInv

\* Registers show the time that the chip keeps.
LEMMA RegistersStay ==
    ASSUME UNCHANGED <<now, mode>>, NEW f
    PROVE  Register(f)' = Register(f)
BY DEF Register

LEMMA UpdateKeeps ==
    ASSUME ChipIsRegular, ClockInv, Update
    PROVE  ClockInv'
<1>1. /\ updates < MaxUpdates /\ now' = Later(now) /\ updates' = updates + 1
      /\ UNCHANGED <<mode, raw, time, tod, assigned, ticks, elapsed, missed>>
      /\ ~(Reading /\ raw # <<>>) /\ span' = span
  BY DEF Update, ChipIsRegular
<1>2. ChipInv'
  <2>1. PICK t \in StartTimes : SecondOfMonth(now) = SecondOfMonth(t) + updates /\ now.year = t.year
    BY DEF ClockInv, ChipInv
  <2>2. PICK a \in Nat, b \in Nat : a = SecondOfMonth(t) /\ b = SecondOfMonth(now)
    <3>1. Legal(t) /\ Legal(now)  BY ClockAssumption DEF ClockInv, ChipInv
    <3> QED  BY <3>1, SecondsAre
  <2>3. a + MaxUpdates < 32 * SecondsPerDay /\ MaxUpdates \in Nat /\ updates \in 0..MaxUpdates /\ b = a + updates
    BY <2>1, <2>2, ClockAssumption DEF ChipIsRegular, ClockInv, ChipInv
  <2>4. b + 1 < 32 * SecondsPerDay /\ updates + 1 \in 0..MaxUpdates /\ b + 1 = a + (updates + 1)  BY <1>1, <2>2, <2>3, SMT DEF SecondsPerDay
  <2>5. Legal(now)  BY DEF ClockInv, ChipInv
  <2>6. /\ Legal(Later(now)) /\ SecondOfMonth(Later(now)) = SecondOfMonth(now) + 1
        /\ Later(now).year = now.year
    BY <2>2, <2>4, <2>5, LaterIs
  <2>7. mode \in Modes  BY DEF ClockInv, ChipInv
  <2>8. SecondOfMonth(now') = SecondOfMonth(t) + updates' /\ now'.year = t.year
    BY <1>1, <2>1, <2>2, <2>4, <2>6
  <2>9. Legal(now') /\ mode' \in Modes /\ updates' \in 0..MaxUpdates  BY <1>1, <2>4, <2>6, <2>7
  <2> QED  BY <2>8, <2>9 DEF ChipInv
<1>3. ReadInv'  BY <1>1 DEF ClockInv, ReadInv, Reading
<1>4. TodInv'  BY <1>1 DEF ClockInv, TodInv, Reading, TodKeepsPace
<1> QED  BY <1>2, <1>3, <1>4 DEF ClockInv

LEMMA ReadRegisterKeeps ==
    ASSUME ChipIsRegular, ClockInv, ReadRegister
    PROVE  ClockInv'
<1>0. Len(ReadOrder) = 7 /\ Len(AssignOrder) = 6  BY DEF ReadOrder, AssignOrder
<1>a. PICK n \in Nat : n = Len(raw)  BY DEF ClockInv, ReadInv
<1>b. PICK v : v = Register(ReadOrder[n + 1])  OBVIOUS
<1>1. n = Len(raw) /\ v = Register(ReadOrder[n + 1]) /\ raw \in Seq(Int)  BY <1>a, <1>b DEF ClockInv, ReadInv
<1>2. /\ n < 7 /\ raw' = Append(raw, v) /\ span' = (IF raw = <<>> THEN {now} ELSE span)
      /\ time' = (IF Len(raw') = 7 THEN Decode(raw') ELSE time)
      /\ UNCHANGED <<now, updates, mode, tod, assigned, ticks, elapsed, missed>>
  BY <1>0, <1>1 DEF ReadRegister, Reading
<1>3. v \in Int
  <2>1. /\ now.seconds \in Nat /\ now.minutes \in Nat /\ now.hours \in Nat /\ now.day \in Nat
        /\ now.month \in Nat /\ now.year \in Nat
    BY DEF ClockInv, ChipInv, Legal
  <2>2. ~mode.twelve  BY DEF ChipIsRegular, ClockInv, ChipInv
  <2>3. \A k \in Nat : (IF mode.bcd THEN ToBcd(k) ELSE k) \in Int  BY DecimalBack
  <2>4. now.year % 100 \in Nat /\ now.year \div 100 \in Nat  BY <2>1
  <2>5. n + 1 \in 1..7  BY <1>2
  <2>6. ReadOrder[n + 1] \in {"seconds", "minutes", "hours", "day", "month", "year", "century"}
    BY <2>5 DEF ReadOrder
  <2>7. PICK f : f = ReadOrder[n + 1]  OBVIOUS
  <2>8. Register(f) \in Int
    <3>1. CASE f = "seconds"  BY <2>1, <2>3, <3>1 DEF Register
    <3>2. CASE f = "minutes"  BY <2>1, <2>3, <3>2 DEF Register
    <3>3. CASE f = "hours"  BY <2>1, <2>2, <2>3, <3>3 DEF Register
    <3>4. CASE f = "day"  BY <2>1, <2>3, <3>4 DEF Register
    <3>5. CASE f = "month"  BY <2>1, <2>3, <3>5 DEF Register
    <3>6. CASE f = "year"  BY <2>3, <2>4, <3>6 DEF Register
    <3>7. CASE f = "century"  BY <2>3, <2>4, <3>7 DEF Register
    <3> QED  BY <2>6, <2>7, <3>1, <3>2, <3>3, <3>4, <3>5, <3>6, <3>7
  <2> QED  BY <1>1, <2>7, <2>8
<1>4. PICK r : r = raw'  OBVIOUS
<1>5. r \in Seq(Int) /\ Len(r) = n + 1 /\ r[n + 1] = v /\ r # <<>> /\ \A i \in 1..n : r[i] = raw[i]
  <2>1. r = Append(raw, v) /\ raw \in Seq(Int) /\ n = Len(raw)  BY <1>1, <1>2, <1>4
  <2>2. Append(raw, v) \in Seq(Int) /\ Len(Append(raw, v)) = Len(raw) + 1 /\ Append(raw, v)[Len(raw) + 1] = v
    BY <1>3, <2>1
  <2>3. \A i \in 1..Len(raw) : Append(raw, v)[i] = raw[i]  BY <1>3, <2>1
  <2>4. n + 1 # 0  OBVIOUS
  <2> QED  BY <2>1, <2>2, <2>3, <2>4
<1>6. span' = {now} /\ \A i \in 1..(n + 1) : r[i] = Register(ReadOrder[i])
  <2>1. CASE n = 0
    <3>1. raw = <<>>  BY <1>1, <2>1, EmptySeq
    <3>2. \A i \in 1..(n + 1) : i = n + 1  BY <2>1
    <3> QED  BY <1>1, <1>2, <1>5, <3>1, <3>2
  <2>2. CASE n # 0
    <3>1. raw # <<>> /\ Reading  BY <1>0, <1>1, <1>2, <2>2 DEF Reading
    <3>2. span = {now} /\ \A i \in 1..n : raw[i] = Register(ReadOrder[i])
      BY <1>1, <3>1 DEF ClockInv, ReadInv
    <3>3. \A i \in 1..(n + 1) : i \in 1..n \/ i = n + 1  OBVIOUS
    <3> QED  BY <1>1, <1>2, <1>5, <3>1, <3>2, <3>3
  <2> QED  BY <2>1, <2>2
<1>7. ChipInv'  BY <1>2 DEF ClockInv, ChipInv
<1>8. ReadInv'
  <2>1. CASE n + 1 = 7
    <3>1. Decode(r) = now  BY <1>0, <1>5, <1>6, <2>1, DecodedIs DEF ClockInv
    <3>2. time' = now  BY <1>2, <1>4, <1>5, <2>1, <3>1
    <3>3. ~Reading'  BY <1>0, <1>4, <1>5, <2>1 DEF Reading
    <3>4. Legal(now)  BY DEF ClockInv, ChipInv
    <3> QED  BY <1>0, <1>4, <1>5, <1>6, <2>1, <3>2, <3>3, <3>4 DEF ReadInv
  <2>2. CASE n + 1 # 7
    <3>1. time' = time /\ Legal(time)  BY <1>2, <1>4, <1>5, <2>2 DEF ClockInv, ReadInv
    <3>2. Reading'  BY <1>0, <1>2, <1>4, <1>5, <2>2 DEF Reading
    <3>3. \A i \in 1..(n + 1) : r[i] = Register(ReadOrder[i])'
      BY <1>2, <1>6, RegistersStay DEF ReadOrder
    <3>4. raw' \in Seq(Int) /\ Len(raw') = n + 1 /\ Len(raw') <= 7 /\ span' = {now'}  BY <1>2, <1>4, <1>5, <1>6
    <3> QED  BY <1>0, <1>4, <3>1, <3>2, <3>3, <3>4 DEF ReadInv, ReadOrder
  <2> QED  BY <2>1, <2>2
<1>9. TodInv'
  <2>1. Reading  BY <1>0, <1>1, <1>2 DEF Reading
  <2>2. assigned = 0  BY <2>1 DEF ClockInv, TodInv
  <2> QED  BY <1>0, <1>2, <2>2 DEF ClockInv, TodInv, TodKeepsPace
<1> QED  BY <1>7, <1>8, <1>9 DEF ClockInv

LEMMA AssignFieldKeeps ==
    ASSUME ClockInv, AssignField
    PROVE  ClockInv'
<1>0. Len(AssignOrder) = 6 /\ TicksPerSecond \in Nat  BY ClockAssumption DEF AssignOrder
<1>a. PICK n \in 1..6 : n = assigned + 1 /\ assigned \in Nat
  BY <1>0 DEF ClockInv, TodInv, AssignField, Assigning
<1>b. PICK f : f = AssignOrder[n]  OBVIOUS
<1>1. n = assigned + 1 /\ assigned \in Nat /\ f = AssignOrder[n]  BY <1>a, <1>b
<1>2. /\ ~Reading /\ n = assigned + 1 /\ tod' = [tod EXCEPT ![f] = time[f]] /\ assigned' = n /\ missed' = elapsed
      /\ UNCHANGED <<now, updates, mode, raw, time, span, ticks, elapsed>>
  BY <1>1 DEF AssignField, Assigning
<1>3. f \in {"day", "hours", "minutes", "month", "seconds", "year"}  BY <1>1 DEF AssignOrder
<1>4. Legal(tod) /\ Legal(time)  BY DEF ClockInv, ReadInv, TodInv
<1>5. Legal(tod')
  <2>1. PICK u : u = tod'  OBVIOUS
  <2>2. Legal(u)
    <3>1. CASE f = "day"  BY <1>2, <1>4, <2>1, <3>1 DEF Legal
    <3>2. CASE f = "hours"  BY <1>2, <1>4, <2>1, <3>2 DEF Legal
    <3>3. CASE f = "minutes"  BY <1>2, <1>4, <2>1, <3>3 DEF Legal
    <3>4. CASE f = "month"  BY <1>2, <1>4, <2>1, <3>4 DEF Legal
    <3>5. CASE f = "seconds"  BY <1>2, <1>4, <2>1, <3>5 DEF Legal
    <3>6. CASE f = "year"  BY <1>2, <1>4, <2>1, <3>6 DEF Legal
    <3> QED  BY <1>3, <3>1, <3>2, <3>3, <3>4, <3>5, <3>6
  <2> QED  BY <2>1, <2>2
<1>6. ASSUME elapsed <= TicksPerSecond, NEW i \in 1..n
      PROVE  tod'[AssignOrder[i]] = time[AssignOrder[i]]
  <2>1. f \in DOMAIN tod  BY <1>3, <1>4 DEF Legal
  <2>2. CASE i = n  BY <1>1, <1>2, <2>1, <2>2
  <2>3. CASE i # n
    <3>1. i \in 1..assigned /\ assigned < 6  BY <1>1, <2>3
    <3>2. tod[AssignOrder[i]] = time[AssignOrder[i]]  BY <1>0, <1>6, <3>1 DEF ClockInv, TodInv
    <3>3. AssignOrder[i] # f  BY <1>1, <2>3 DEF AssignOrder
    <3>4. AssignOrder[i] \in DOMAIN tod
      <4>1. AssignOrder[i] \in {"day", "hours", "minutes", "month", "seconds", "year"}  BY <1>1 DEF AssignOrder
      <4> QED  BY <1>4, <4>1 DEF Legal
    <3> QED  BY <1>2, <3>2, <3>3, <3>4
  <2> QED  BY <2>2, <2>3
<1>7. TodKeepsPace'
  <2> SUFFICES ASSUME n = 6, elapsed <= TicksPerSecond
               PROVE  SecondOfDay(tod') = (SecondOfDay(time) + DueAfter(elapsed)) % SecondsPerDay
    BY <1>0, <1>2 DEF TodKeepsPace, DueAfter
  <2>1. tod'.hours = time.hours /\ tod'.minutes = time.minutes /\ tod'.seconds = time.seconds
    <3>1. \A i \in 1..6 : tod'[AssignOrder[i]] = time[AssignOrder[i]]  BY <1>6
    <3> QED  BY <3>1 DEF AssignOrder
  <2>2. DueAfter(elapsed) = 0
    <3>1. /\ elapsed \in Nat /\ ticks \in 0..TicksPerSecond /\ DueAfter(elapsed) \in Nat
          /\ elapsed = DueAfter(elapsed) * TicksPerSecond + ticks /\ (elapsed # 0 => ticks # 0)
      BY DEF ClockInv, TodInv
    <3> QED  BY <3>1, DueNext
  <2>3. PICK x \in Nat : x = SecondOfDay(time) /\ x < SecondsPerDay  BY <1>4, SecondsAre
  <2>4. SecondOfDay(tod') = x  BY <2>1, <2>3 DEF SecondOfDay
  <2> QED  BY <2>2, <2>3, <2>4, SMT DEF SecondsPerDay
<1>8. TodInv'
  <2>1. ~Reading'  BY <1>2 DEF Reading
  <2>2. elapsed <= TicksPerSecond => \A i \in 1..assigned' : tod'[AssignOrder[i]] = time'[AssignOrder[i]]
    BY <1>2, <1>6
  <2>3. /\ elapsed' \in Nat /\ missed' \in Nat /\ ticks' \in 0..TicksPerSecond /\ assigned' \in 0..6
        /\ elapsed' = DueAfter(elapsed') * TicksPerSecond + ticks'
        /\ DueAfter(elapsed') \in Nat /\ (elapsed' # 0 => ticks' # 0)
    BY <1>1, <1>2 DEF ClockInv, TodInv
  <2> QED  BY <1>0, <1>2, <1>5, <1>7, <2>1, <2>2, <2>3 DEF TodInv, AssignOrder, DueAfter
<1>9. ChipInv' /\ ReadInv'
  <2>1. ~Reading /\ ~Reading'  BY <1>2 DEF Reading
  <2> QED  BY <1>2, <2>1 DEF ClockInv, ChipInv, ReadInv
<1> QED  BY <1>8, <1>9 DEF ClockInv

LEMMA ClockTickKeeps ==
    ASSUME ClockInv, ClockTick
    PROVE  ClockInv'
<1>0. PICK d \in Nat \ {0} : d = TicksPerSecond  BY ClockAssumption
<1>1. /\ raw = <<>> \/ ~Reading
      /\ elapsed' = elapsed + 1
      /\ UNCHANGED <<now, updates, mode, raw, time, span, assigned, missed>>
  BY DEF ClockTick
<1>2. PICK k \in Nat : k = DueAfter(elapsed)  BY DEF ClockInv, TodInv
<1>3. /\ elapsed \in Nat /\ ticks \in 0..d /\ elapsed = k * d + ticks /\ (elapsed # 0 => ticks # 0)
  BY <1>0, <1>2 DEF ClockInv, TodInv
<1>4. /\ ticks + 1 > d => DueAfter(elapsed + 1) = k + 1
      /\ ~(ticks + 1 > d) => DueAfter(elapsed + 1) = k
      /\ k = 0 <=> elapsed <= d
  BY <1>0, <1>2, <1>3, DueNext
<1>5. Legal(tod) /\ Legal(time)  BY DEF ClockInv, TodInv, ReadInv
<1>6. PICK x \in Nat, y \in Nat : x = SecondOfDay(tod) /\ y = SecondOfDay(time)
  BY <1>5, SecondsAre
<1>7. assigned = Len(AssignOrder) /\ missed <= d => x = (y + k) % SecondsPerDay
  BY <1>0, <1>2, <1>6 DEF ClockInv, TodInv, TodKeepsPace, DueAfter
<1>8. CASE ticks + 1 > d
  <2>1. ticks' = ticks + 1 - d /\ tod' = IncrementTod(tod) /\ ticks = d
    BY <1>0, <1>3, <1>8 DEF ClockTick, Due
  <2>2. Legal(tod') /\ SecondOfDay(tod') = (x + 1) % SecondsPerDay  BY <1>5, <1>6, <2>1, IncrementIs
  <2>3. ticks' = 1  BY <1>0, <2>1
  <2>4. elapsed + 1 = (k + 1) * d + 1  BY <1>0, <1>3, <2>1
  <2>5. ~(elapsed + 1 <= d)  BY <1>0, <1>3, <2>1, <2>4
  <2>6. TodKeepsPace'
    <3>1. x = (y + k) % SecondsPerDay => (x + 1) % SecondsPerDay = (y + (k + 1)) % SecondsPerDay  BY <1>6, SMT DEF SecondsPerDay
    <3>2. DueAfter(elapsed') = k + 1  BY <1>1, <1>4, <1>8
    <3>3. SecondOfDay(time') = y  BY <1>1, <1>6
    <3>4. assigned' = Len(AssignOrder) /\ missed' <= d =>
             SecondOfDay(tod') = (SecondOfDay(time') + DueAfter(elapsed')) % SecondsPerDay
      BY <1>1, <1>7, <2>2, <3>1, <3>2, <3>3
    <3> QED  BY <1>0, <3>4 DEF TodKeepsPace, DueAfter, AssignOrder
  <2>7. DueAfter(elapsed') = k + 1  BY <1>1, <1>4, <1>8
  <2>8. ticks' \in 0..d /\ ticks' # 0 /\ elapsed' \in Nat /\ k + 1 \in Nat  BY <1>0, <1>1, <1>3, <2>3
  <2> QED
    <3>1. TodInv'  BY <1>0, <1>1, <2>2, <2>3, <2>4, <2>5, <2>6, <2>7, <2>8 DEF ClockInv, TodInv, Reading, DueAfter, AssignOrder
    <3>2. ChipInv' /\ ReadInv'  BY <1>1 DEF ClockInv, ChipInv, ReadInv, Reading, ReadOrder
    <3> QED  BY <3>1, <3>2 DEF ClockInv
<1>9. CASE ~(ticks + 1 > d)
  <2>1. ticks' = ticks + 1 /\ tod' = tod
    BY <1>0, <1>3, <1>9 DEF ClockTick, Due
  <2>2. elapsed + 1 = k * d + (ticks + 1) /\ ticks' \in 0..d /\ ticks' # 0 /\ elapsed + 1 \in Nat
    BY <1>0, <1>3, <1>9, <2>1
  <2>3. DueAfter(elapsed') = k  BY <1>1, <1>4, <1>9
  <2>4. TodKeepsPace'  BY <1>0, <1>1, <1>4, <1>6, <1>7, <1>9, <2>1, <2>3 DEF TodKeepsPace, DueAfter, AssignOrder
  <2>5. elapsed + 1 <= d => elapsed <= d  BY <1>0, <1>3
  <2> QED
    <3>1. TodInv'  BY <1>0, <1>1, <2>1, <2>2, <2>3, <2>4, <2>5 DEF ClockInv, TodInv, Reading, DueAfter, AssignOrder
    <3>2. ChipInv' /\ ReadInv'  BY <1>1 DEF ClockInv, ChipInv, ReadInv, Reading, ReadOrder
    <3> QED  BY <3>1, <3>2 DEF ClockInv
<1> QED  BY <1>8, <1>9

\* CMOSRTC::read_timepoint and Kernel::update_runtime for any start time, mode, rate of ticks
\* and interleaving of the chip, the copy and the timer: what is read is a time the chip had,
\* and the time of day is legal and keeps pace with the ticks through every carry.
THEOREM TimeRight ==
    ASSUME ChipIsRegular
    PROVE  ClockSpec => []TimeIsRight
<1>1. ClockInit => ClockInv  BY ClockStarts
<1>2. ClockInv /\ [ClockNext]_clockVars => ClockInv'
  <2> SUFFICES ASSUME ClockInv, [ClockNext]_clockVars PROVE ClockInv'  OBVIOUS
  <2>1. CASE UNCHANGED clockVars
    <3>1. ChipInv'  BY <2>1 DEF clockVars, ClockInv, ChipInv
    <3>2. ReadInv'
      <4>1. \A f : Register(f)' = Register(f)  BY <2>1, RegistersStay DEF clockVars
      <4> QED  BY <2>1, <4>1 DEF clockVars, ClockInv, ReadInv, Reading, ReadOrder
    <3>3. TodInv'  BY <2>1 DEF clockVars, ClockInv, TodInv, TodKeepsPace, Reading
    <3> QED  BY <3>1, <3>2, <3>3 DEF ClockInv
  <2>2. CASE Update  BY <2>2, UpdateKeeps
  <2>3. CASE ReadRegister  BY <2>3, ReadRegisterKeeps
  <2>4. CASE AssignField  BY <2>4, AssignFieldKeeps
  <2>5. CASE ClockTick  BY <2>5, ClockTickKeeps
  <2> QED  BY <2>1, <2>2, <2>3, <2>4, <2>5 DEF ClockNext
<1>3. ClockInv => TimeIsRight
  BY DEF ClockInv, ReadInv, TodInv, TimeIsRight, ReadIsCurrent, TodIsLegal
<1> QED  BY <1>1, <1>2, <1>3, PTL DEF ClockSpec
----------------------------------------------------------------------------
(* Start-up: devices.                                                       *)

Class == {"pci", "atactl", "ata", "block-partition", "rtc", "lapic", "ioapic", "pit", "lapic-timer",
          "vga", "kbd", "tty", "vc"}
Kinds == {"bus", "bridge", "plain", "storage", "controller", "disk"}
NamePart == Class \cup Nat \cup {"console"}
Hardware(m) ==
    DOMAIN m \cup ((DOMAIN m) \X Nat) \cup (((DOMAIN m) \X Nat) \X Nat) \cup {"timer", "console", "extra"}
DeviceType(m) == [class : Class, hw : Hardware(m), of : Nat, nr : Nat, st : {"init", "ok", "deleted"}]
FrameType(m) == [kind : Kinds, hw : Hardware(m), dev : Nat, at : Nat, fn : Nat, ok : BOOLEAN]
TreeTypes(m, dv, nm, cs, an) ==
    /\ dv \in Seq(DeviceType(m)) /\ cs \in Seq(FrameType(m)) /\ an \in {"none", "yes", "no"}
    /\ \A n \in DOMAIN nm : n \in Seq(NamePart) /\ nm[n] \in DOMAIN dv

\* The devices of a class have different numbers, below the next one.
OfClass(dv, c) == {d \in DOMAIN dv : dv[d].class = c}
Numbered(dv) ==
    /\ \A d \in DOMAIN dv : dv[d].nr < Cardinality(OfClass(dv, dv[d].class))
    /\ \A d, e \in DOMAIN dv : dv[d].class = dv[e].class /\ dv[d].nr = dv[e].nr => d = e
NameIn(dv, d) == <<dv[d].class, dv[d].nr>>

\* Where a name with an index leads: to a partition of the disk that is named.
PartitionOf(dv, d, k, p) ==
    /\ dv[p].class = "block-partition" /\ dv[p].st = "ok" /\ dv[p].of = d
    /\ d \in DOMAIN dv /\ dv[d].class = "ata" /\ dv[d].st # "deleted" /\ dv[p].hw = <<dv[d].hw, k>>
NamesOk(dv, nm) ==
    /\ \A d \in DOMAIN dv : NameIn(dv, d) \in DOMAIN nm /\ nm[NameIn(dv, d)] = d
    /\ \A n \in DOMAIN nm : Len(n) = 3 =>
          \E d \in DOMAIN dv : \E k \in Nat \ {0} : n = Append(NameIn(dv, d), k - 1) /\ PartitionOf(dv, d, k, nm[n])

DriveOf(m, h) == m[h[1]].drive[h[2]]
Failing == {"no lba", "unreadable"}
NotThere == {"absent", "error"}
EntryOf(m, h, k) == m[h[1]].table[k]

\* A function, a drive, a controller, a bus that has been dealt with.
PciDone(dv, n) == \E d \in DOMAIN dv : dv[d].class = "pci" /\ dv[d].hw = n /\ dv[d].st = "ok"
DiskDone(m, dv, h) ==
    \E d \in DOMAIN dv : /\ dv[d].class = "ata" /\ dv[d].hw = h
                         /\ dv[d].st = IF DriveOf(m, h) \in Failing THEN "deleted" ELSE "ok"
UpToDrive(m, dv, n, at) == \A k \in 1..Drives : k <= at /\ DriveOf(m, <<n, k>>) \notin NotThere => DiskDone(m, dv, <<n, k>>)
BeforeSlot(m, dv, n, at, fn) ==
    \A x \in DOMAIN m[n].bus :
        (x[1] < at \/ (x[1] = at /\ x[2] < fn)) /\ m[m[n].bus[x]].class \in Supported => PciDone(dv, m[n].bus[x])
BeforeEntry(m, dv, nm, d, h, at) ==
    \A k \in 1..Entries : k < at /\ EntryOf(m, h, k) # 0 => Append(NameIn(dv, d), k - 1) \in DOMAIN nm

\* A device that is ready has had everything behind it dealt with.
DeviceSound(m, dv, nm, d) ==
    /\ dv[d].class = "pci" => dv[d].hw \in DOMAIN m \ {0} /\ m[dv[d].hw].class \in Supported
    /\ dv[d].class = "pci" /\ dv[d].st = "ok" =>
          /\ m[dv[d].hw].class = "bridge" /\ m[dv[d].hw].sub = "pci-to-pci" =>
                dv[d].hw \in Buses(m) /\ BeforeSlot(m, dv, dv[d].hw, Slots, 0)
          /\ dv[d].hw \in IdeControllers(m) => UpToDrive(m, dv, dv[d].hw, Drives)
    /\ dv[d].class = "ata" =>
          /\ dv[d].hw \in IdeControllers(m) \X (1..Drives) /\ DriveOf(m, dv[d].hw) \notin NotThere
          /\ dv[d].st = "ok" => /\ DriveOf(m, dv[d].hw) \in {"blank", "table"}
                                /\ DriveOf(m, dv[d].hw) = "table" => BeforeEntry(m, dv, nm, d, dv[d].hw, Entries + 1)
    /\ dv[d].class = "block-partition" =>
          /\ dv[d].st = "ok" /\ dv[d].of \in DOMAIN dv /\ dv[dv[d].of].class = "ata"
          /\ \E k \in 1..Entries : dv[d].hw = <<dv[dv[d].of].hw, k>> /\ EntryOf(m, dv[dv[d].of].hw, k) # 0
    /\ dv[d].class \notin {"pci", "ata", "atactl"} => dv[d].st = "ok"

\* A call of init: what it is of, how far it has come.
ClassOfKind(kind) == IF kind = "controller" THEN "atactl" ELSE IF kind = "disk" THEN "ata" ELSE "pci"
FrameSound(m, dv, nm, f) ==
    /\ f.dev # 0 => /\ f.dev \in DOMAIN dv /\ dv[f.dev].hw = f.hw /\ dv[f.dev].st = "init"
                    /\ dv[f.dev].class = ClassOfKind(f.kind)
    /\ f.dev = 0 => f.kind = "bus" /\ f.hw = 0
    /\ f.kind = "bus" => /\ f.hw \in Buses(m) /\ f.at <= Slots /\ f.fn < Funcs
                         /\ f.ok => BeforeSlot(m, dv, f.hw, f.at, f.fn)
    /\ f.kind \in {"bridge", "plain", "storage"} => f.hw \in DOMAIN m /\ m[f.hw].class = f.kind /\ f.at = 0 /\ f.fn = 0 /\ f.ok
    /\ f.kind = "controller" => f.hw \in IdeControllers(m) /\ f.at <= Drives /\ UpToDrive(m, dv, f.hw, f.at)
    /\ f.kind = "disk" =>
          /\ f.hw \in IdeControllers(m) \X (1..Drives) /\ DriveOf(m, f.hw) \notin NotThere
          /\ f.at <= Entries + 1 /\ BeforeEntry(m, dv, nm, f.dev, f.hw, f.at)
          /\ f.at > 0 => DriveOf(m, f.hw) = "table"
          /\ f.at = 0 => \A p \in DOMAIN dv : dv[p].class = "block-partition" => dv[p].of # f.dev

\* A call of init was made by the one below it, at the place where that one is.
AtFunction(m, g) == g.at < Slots /\ <<g.at, g.fn>> \in DOMAIN m[g.hw].bus
MadeBy(m, f, g) ==
    /\ f.kind \in {"bus", "bridge", "plain", "storage"} =>
          g.kind = "bus" /\ AtFunction(m, g) /\ f.hw = m[g.hw].bus[<<g.at, g.fn>>] /\ f.hw # 0
    /\ f.kind = "controller" => g.kind = "storage" /\ g.hw = f.hw
    /\ f.kind = "disk" => g.kind = "controller" /\ g.at < Drives /\ f.hw = <<g.hw, g.at + 1>>

CallsSound(m, dv, nm, cs) ==
    /\ \A i \in DOMAIN cs : FrameSound(m, dv, nm, cs[i]) /\ (cs[i].dev = 0 <=> i = Len(cs))
    /\ \A i \in DOMAIN cs : i + 1 \in DOMAIN cs => MadeBy(m, cs[i], cs[i + 1])
    /\ \A i, j \in DOMAIN cs : cs[i].dev = cs[j].dev => i = j
    /\ \A d \in DOMAIN dv : dv[d].st = "init" => \E i \in DOMAIN cs : cs[i].dev = d

\* What the call that has returned leaves for its caller.
AnswerSound(m, dv, cs, an) ==
    /\ an # "none" /\ cs # <<>> =>
          LET f == cs[1] IN
          /\ f.kind \in {"bus", "storage", "controller"}
          /\ f.kind = "bus" => AtFunction(m, f) /\ (an = "yes" => PciDone(dv, m[f.hw].bus[<<f.at, f.fn>>]))
          /\ f.kind = "storage" => f.hw \in IdeControllers(m) /\ UpToDrive(m, dv, f.hw, Drives)
          /\ f.kind = "controller" => f.at < Drives /\ DiskDone(m, dv, <<f.hw, f.at + 1>>)
    /\ an = "yes" /\ cs = <<>> => BeforeSlot(m, dv, 0, Slots, 0)

\* If a device other than a disk has failed, a bus knows, or will as soon as it goes on.
FailureKnown(dv, cs, an) ==
    (\E d \in DOMAIN dv : dv[d].st = "deleted" /\ dv[d].class # "ata") =>
        \/ \E i \in DOMAIN cs : cs[i].kind = "bus" /\ ~cs[i].ok
        \/ an = "no" /\ (cs = <<>> \/ cs[1].kind = "bus")

TreeOk(m, dv, nm, cs, an) ==
    /\ TreeTypes(m, dv, nm, cs, an)
    /\ Numbered(dv)
    /\ NamesOk(dv, nm)
    /\ \A d \in DOMAIN dv : DeviceSound(m, dv, nm, d)
    /\ CallsSound(m, dv, nm, cs)
    /\ AnswerSound(m, dv, cs, an)
    /\ FailureKnown(dv, cs, an)
TreeInv == TreeOk(Machine, device, names, calls, answer)

\* The devices of the platform: as many as a stage has come to, in order.
TimerClass == <<"lapic", "ioapic", "pit", "lapic-timer">>
ConsoleClass == <<"vga", "kbd", "tty", "tty", "vc", "vc">>
BeforeConsole == Early \cup {"acpi", "tables", "modules"}
PastTables == {"modules", "timer", "sched", "console", "activate", "devices", "probing", "kernel", "running"}
PastTimer == {"sched", "console", "activate", "devices", "probing", "kernel", "running"}
StagesOfProbing == {"probing", "kernel", "running"}
Stages == BeforeConsole \cup PastTables \cup {"aborted"}
FirstAre(dv, k, l) ==
    /\ \A d \in 1..k : dv[d].class = TimerClass[d] /\ dv[d].hw = "timer"
    /\ \A d \in 1..l : dv[d + 4].class = ConsoleClass[d] /\ dv[d + 4].hw = "console"
StageInv ==
    /\ stage \in Stages /\ cause \in {"none", "memory", "acpi", "modules", "apic", "scheduler", "devices", "boot device"}
    /\ stage # "aborted" => cause = "none"
    /\ stage \notin {"aborted"} \cup StagesOfProbing => calls = <<>> /\ answer = "none"
    /\ stage \in {"kernel", "running"} => calls = <<>> /\ answer = "yes"
    /\ stage = "probing" /\ calls = <<>> => answer # "none"
    /\ stage \in BeforeConsole => device = <<>>
    /\ stage = "timer" => Len(device) < 4 /\ FirstAre(device, Len(device), 0)
    /\ stage \in {"sched", "console"} => Len(device) >= 4 /\ Len(device) < 10 /\ FirstAre(device, 4, Len(device) - 4)
    /\ stage = "sched" => Len(device) = 4
    /\ stage \in {"activate", "devices"} => Len(device) = 10 /\ FirstAre(device, 4, 6)
    /\ stage = "activate" => \A x \in {"vc", "tty"} \X {0, 1} : x \in DOMAIN names
    /\ stage = "console" => \A d \in 7..Len(device) : device[d].nr = IF d \in {7, 9} THEN 0 ELSE 1
    /\ stage \notin Early \cup {"aborted"} => firmware.algorithm
    /\ stage \in PastTimer => firmware.apic
    /\ stage \in PastTables \ {"modules"} => firmware.modules = 0

\* The records of ACPI that have been seen: at most one is of an I/O APIC.
Seen(x) == x[1] < acpi.table \/ (x[1] = acpi.table /\ x[2] < acpi.record)
AcpiInv ==
    /\ acpi \in [table : Nat \ {0}, record : Nat \ {0}, ioapic : Nat]
    /\ stage # "aborted" =>
          \/ acpi.ioapic = 0 /\ \A x \in IoApics : ~Seen(x)
          \/ \E y \in IoApics : /\ acpi.ioapic = firmware.tables[y[1]].records[y[2]]
                                /\ \A x \in IoApics : Seen(x) => x = y
    /\ stage \in PastTables => acpi.table > Len(firmware.tables)

DevicesInv == TreeInv /\ StageInv /\ AcpiInv

----------------------------------------------------------------------------
(* Start-up: memory.                                                        *)

BlockType == [base : Nat, pages : Nat, normal : BOOLEAN]
\* A block of normal memory is an entry that says so.
FromMap(b) ==
    \E k \in DOMAIN firmware.map : LET e == firmware.map[k] IN
        b.base = e.base \div 2 /\ b.pages = e.len \div 2 /\ (b.normal => e.type = "available")
MemoryInv ==
    /\ mem \in [k : Nat \ {0}, blocks : Seq(BlockType), page : UNION {[D -> BOOLEAN] : D \in SUBSET Int}, tables : SUBSET Int]
    /\ firmware \in Firmwares
    /\ \A j \in DOMAIN mem.blocks : FromMap(mem.blocks[j])
    /\ \E bound \in Nat : \A j \in DOMAIN mem.blocks : mem.blocks[j].base + mem.blocks[j].pages <= bound
    /\ stage # "aborted" => cause = "none"
TablesInv ==
    /\ DOMAIN pgt = Index \X Index \X Index
    /\ stage = "fixup" => \A i \in DOMAIN pgt : i[1] # 0 /\ i[1] < TableSize \div 2 => pgt[i] = Absent
    /\ KernelStaysMapped
StartInv == MemoryInv /\ TablesInv /\ FreePagesAreFree /\ SelectorsAreRight

LEMMA LeastNumber ==
    ASSUME NEW S, S \subseteq Nat, S # {}
    PROVE  \E n \in S : \A k \in S : n <= k
<1>1. PICK n \in S : \A k \in S : ~(<<k, n>> \in OpToRel(<, Nat))
  BY NatLessThanWellFounded, WFMin
<1>2. ASSUME NEW k \in S PROVE n <= k
  <2>1. n \in Nat /\ k \in Nat  OBVIOUS
  <2>2. k < n => <<k, n>> \in OpToRel(<, Nat)
    <3>1. <<k, n>> \in Nat \X Nat  BY <2>1
    <3> QED  BY <3>1 DEF OpToRel
  <2>3. ~(k < n)  BY <1>1, <2>2
  <2> QED  BY <2>1, <2>3
<1> QED  BY <1>2

\* There is a last page.
LEMMA LastPage ==
    ASSUME MemoryInv
    PROVE  last_pfn \in Nat
<1> DEFINE S == NormalPages \cup {0}
<1>1. mem.blocks \in Seq(BlockType)  BY DEF MemoryInv
<1>0. \A p \in NormalPages : \E j \in DOMAIN mem.blocks :
        p \in mem.blocks[j].base..(mem.blocks[j].base + mem.blocks[j].pages - 1)
  BY DEF NormalPages, BlockSet, PagesOf
<1>a. \A j \in DOMAIN mem.blocks : mem.blocks[j].base \in Nat /\ mem.blocks[j].pages \in Nat
  <2>1. \A j \in DOMAIN mem.blocks : mem.blocks[j] \in BlockType  BY <1>1, LenProperties, ElementOfSeq
  <2> QED  BY <2>1 DEF BlockType
<1>2. S \subseteq Nat  BY <1>0, <1>a
<1>3. PICK bound \in Nat : \A j \in DOMAIN mem.blocks : mem.blocks[j].base + mem.blocks[j].pages <= bound
  BY DEF MemoryInv
<1>4. \A p \in S : p <= bound
  <2>1. \A p \in NormalPages : p <= bound  BY <1>0, <1>a, <1>3
  <2> QED  BY <2>1
<1> DEFINE U == {n \in Nat : \A p \in S : p <= n}
<1>5. PICK n \in U : \A k \in U : n <= k
  <2>1. bound \in U  BY <1>4
  <2> HIDE DEF U
  <2>2. U \subseteq Nat  BY DEF U
  <2> QED  BY <2>1, <2>2, LeastNumber
<1>6. n \in S
  <2>1. SUFFICES ASSUME n \notin S PROVE FALSE  OBVIOUS
  <2>2. 0 \in S  OBVIOUS
  <2> HIDE DEF S
  <2>3. n # 0 /\ n \in Nat  BY <2>1, <2>2
  <2>4. \A p \in S : p <= n - 1  BY <1>2, <1>5, <2>1
  <2>5. n - 1 \in U  BY <2>3, <2>4
  <2> QED  BY <1>5, <2>3, <2>5
<1>7. \E p \in NormalPages \cup {0} : \A q \in NormalPages : q <= p  BY <1>5, <1>6
<1>8. last_pfn \in NormalPages \cup {0}  BY <1>7 DEF last_pfn
<1> QED  BY <1>2, <1>8

LEMMA PageTail ==
    ASSUME NEW l \in Nat, NEW P \in Nat \ {0}, NEW d \in Nat, d > (l + 1) \div P
    PROVE  d * P > l
<1> DEFINE q == (l + 1) \div P
<1>1. q \in Nat /\ l + 1 < (q + 1) * P
  BY SMTT(30)
<1>2. PICK e \in Nat : d = q + 1 + e  
  <2> HIDE DEF q
  <2>1. d >= q + 1  BY <1>1 DEF q
  <2>2. d - (q + 1) \in Nat /\ d = q + 1 + (d - (q + 1))  BY <1>1, <2>1
  <2> QED  BY <2>2
<1>3. d * P = (q + 1) * P + e * P  BY <1>1, <1>2, SMTT(30)
<1>4. e * P >= 0 /\ (q + 1) * P \in Nat /\ e * P \in Nat  BY <1>1, <1>2, SMTT(30)
<1> QED  BY <1>1, <1>3, <1>4

\* A page of a block that comes from an aligned entry lies in that entry.
LEMMA PageInEntry ==
    ASSUME NEW e \in Entry, e.base % 2 = 0, NEW p \in Nat, p >= e.base \div 2, p <= e.base \div 2 + (e.len \div 2) - 1
    PROVE  HasPage(e, p)
BY DEF Entry, HasPage

\* A descriptor given by its bits from a first one up.
LEMMA BitsOf ==
    ASSUME NEW first \in Nat, NEW q, Len(q) = 16
    PROVE  \A k \in 0..15 : From(first, q)[first + k] = q[k + 1]
<1> TAKE k \in 0..15
<1>1. PICK n \in Nat : n = first + k /\ n \in first..(first + Len(q) - 1) /\ n - first + 1 = k + 1  OBVIOUS
<1>2. From(first, q)[n] = q[n - first + 1]  BY <1>1 DEF From
<1> QED  BY <1>1, <1>2

LEMMA CodeIsCode ==
    ASSUME NEW dpl \in {0, 3}
    PROVE  IsCode(code_segment(dpl)) /\ Ring(code_segment(dpl)) = dpl
<1>1. PICK q : q = <<0, 1, 0, 1, 1, dpl % 2, dpl \div 2, 1, 0, 0, 0, 0, 0, 1, 0, 0>>  OBVIOUS
<1>2. /\ Len(q) = 16 /\ q[4] = 1 /\ q[5] = 1 /\ q[6] = dpl % 2 /\ q[7] = dpl \div 2
      /\ q[8] = 1 /\ q[14] = 1 /\ q[15] = 0
  BY <1>1
<1>3. PICK d : d = code_segment(dpl)  OBVIOUS
<1>4. \A k \in 0..15 : d[40 + k] = q[k + 1]  BY <1>1, <1>2, <1>3, BitsOf DEF code_segment
<1>5. IsCode(d)  BY <1>2, <1>4 DEF IsCode
<1>6. d[45] = dpl % 2 /\ d[46] = dpl \div 2  BY <1>2, <1>4
<1>7. Ring(d) = dpl  BY <1>6 DEF Ring
<1> QED  BY <1>3, <1>5, <1>7

LEMMA DataIsData ==
    ASSUME NEW dpl \in {0, 3}
    PROVE  IsData(data_segment(dpl)) /\ Ring(data_segment(dpl)) = dpl
<1>1. PICK q : q = <<0, 1, 0, 0, 1, dpl % 2, dpl \div 2, 1, 0, 0, 0, 0, 0, 0, 1, 0>>  OBVIOUS
<1>2. /\ Len(q) = 16 /\ q[2] = 1 /\ q[3] = 0 /\ q[4] = 0 /\ q[5] = 1
      /\ q[6] = dpl % 2 /\ q[7] = dpl \div 2 /\ q[8] = 1
  BY <1>1
<1>3. PICK d : d = data_segment(dpl)  OBVIOUS
<1>4. \A k \in 0..15 : d[40 + k] = q[k + 1]  BY <1>1, <1>2, <1>3, BitsOf DEF data_segment
<1>5. IsData(d)  BY <1>2, <1>4 DEF IsData
<1>6. d[45] = dpl % 2 /\ d[46] = dpl \div 2  BY <1>2, <1>4
<1>7. Ring(d) = dpl  BY <1>6 DEF Ring
<1> QED  BY <1>3, <1>5, <1>7

LEMMA TaskIsTask ==
    IsTaskState(tss_low)
<1>1. PICK q : q = <<1, 0, 0, 1, 0, 0, 0, 1, 0, 0, 0, 0, 0, 0, 1, 0>>  OBVIOUS
<1>2. Len(q) = 16 /\ q[1] = 1 /\ q[2] = 0 /\ q[3] = 0 /\ q[4] = 1 /\ q[5] = 0 /\ q[8] = 1  BY <1>1
<1>3. PICK d : d = tss_low  OBVIOUS
<1>4. \A k \in 0..15 : d[40 + k] = q[k + 1]  BY <1>1, <1>2, <1>3, BitsOf DEF tss_low
<1>5. IsTaskState(d)  BY <1>2, <1>4 DEF IsTaskState
<1> QED  BY <1>3, <1>5

LEMMA GateIsGate ==
    ASSUME NEW dpl \in {0, 3}
    PROVE  IsInterruptGate(interrupt_gate(dpl)) /\ Ring(interrupt_gate(dpl)) = dpl
<1>1. PICK q : q = <<0, 0, 0, 0, 0, 0, 0, 0, 0, 1, 1, 1, 0, dpl % 2, dpl \div 2, 1>>  OBVIOUS
<1>2. /\ Len(q) = 16 /\ q[9] = 0 /\ q[10] = 1 /\ q[11] = 1 /\ q[12] = 1 /\ q[13] = 0
      /\ q[14] = dpl % 2 /\ q[15] = dpl \div 2 /\ q[16] = 1
  BY <1>1
<1>3. PICK d : d = interrupt_gate(dpl)  OBVIOUS
<1>4. \A k \in 0..15 : d[32 + k] = q[k + 1]  BY <1>1, <1>2, <1>3, BitsOf DEF interrupt_gate
<1>5. IsInterruptGate(d)  BY <1>2, <1>4 DEF IsInterruptGate
<1>6. d[45] = dpl % 2 /\ d[46] = dpl \div 2  BY <1>2, <1>4
<1>7. Ring(d) = dpl  BY <1>6 DEF Ring
<1> QED  BY <1>3, <1>5, <1>7

\* The order GDT::init adds the descriptors in is the order the selectors count on.
LEMMA PlatformSegments ==
    ASSUME Platform
    PROVE  SelectorsAreRight'
<1>1. PICK a, c0, d0, c3, d3, t, h :
        /\ a = null /\ c0 = code_segment(0) /\ d0 = data_segment(0) /\ c3 = code_segment(3)
        /\ d3 = data_segment(3) /\ t = tss_low /\ h = tss_high
  OBVIOUS
<1>2. gdt' = <<a, c0, d0, c3, d3, t, h>>  BY <1>1 DEF Platform
<1>3. gdt'[2] = c0 /\ gdt'[3] = d0 /\ gdt'[4] = c3 /\ gdt'[5] = d3 /\ gdt'[6] = t  BY <1>2
<1>4. (8 \div 8) + 1 = 2 /\ (16 \div 8) + 1 = 3 /\ (27 \div 8) + 1 = 4 /\ (35 \div 8) + 1 = 5 /\ (40 \div 8) + 1 = 6
  OBVIOUS
<1>5. /\ Selected(8)' = c0 /\ Selected(16)' = d0 /\ Selected(27)' = c3 /\ Selected(35)' = d3 /\ Selected(40)' = t
  BY <1>3, <1>4 DEF Selected
<1>6. 8 % 8 = 0 /\ 16 % 8 = 0 /\ 27 % 8 = 3 /\ 35 % 8 = 3  OBVIOUS
<1>7. /\ IsCode(c0) /\ Ring(c0) = 0 /\ IsCode(c3) /\ Ring(c3) = 3
      /\ IsData(d0) /\ Ring(d0) = 0 /\ IsData(d3) /\ Ring(d3) = 3 /\ IsTaskState(t)
  BY <1>1, CodeIsCode, DataIsData, TaskIsTask
<1>8. \A s \in {8, 27} : (IsCode(Selected(s)) /\ Ring(Selected(s)) = s % 8)'
  BY <1>5, <1>6, <1>7
<1>9. \A s \in {16, 35} : (IsData(Selected(s)) /\ Ring(Selected(s)) = s % 8)'
  BY <1>5, <1>6, <1>7
<1>10. IsTaskState(Selected(40))'  BY <1>5, <1>7
<1>11. \A dpl \in {0, 3} : IsInterruptGate(interrupt_gate(dpl)) /\ Ring(interrupt_gate(dpl)) = dpl  BY GateIsGate
<1> QED  BY <1>8, <1>9, <1>10, <1>11 DEF SelectorsAreRight

LEMMA SegmentsKept ==
    ASSUME SelectorsAreRight, UNCHANGED gdt
    PROVE  SelectorsAreRight'
BY DEF SelectorsAreRight, Selected

LEMMA StartInitially ==
    BootInit => StartInv
<1> SUFFICES ASSUME BootInit PROVE StartInv  OBVIOUS
<1>1. MemoryInv
  <2>1. mem = [k |-> 1, blocks |-> <<>>, page |-> <<>>, tables |-> {}]  BY DEF BootInit
  <2>2. <<>> \in [{} -> BOOLEAN]  OBVIOUS
  <2>3. <<>> \in UNION {[D -> BOOLEAN] : D \in SUBSET Int}  BY <2>2
  <2>4. mem \in [k : Nat \ {0}, blocks : Seq(BlockType), page : UNION {[D -> BOOLEAN] : D \in SUBSET Int}, tables : SUBSET Int]
    BY <2>1, <2>3
  <2>5. mem.blocks = <<>> /\ DOMAIN mem.blocks = {}  BY <2>1
  <2> QED  BY <2>4, <2>5 DEF BootInit, MemoryInv
<1>2. TablesInv
  BY DEF BootInit, TablesInv, KernelStaysMapped, PastMemory, Early
<1>3. FreePagesAreFree
  BY DEF BootInit, FreePagesAreFree, PastMemory, Early
<1>4. SelectorsAreRight  BY DEF BootInit, SelectorsAreRight
<1> QED  BY <1>1, <1>2, <1>3, <1>4 DEF StartInv

\* Most steps leave the memory, the tables and the firmware alone.
LEMMA MemoryKept ==
    ASSUME StartInv, SelectorsAreRight', UNCHANGED <<pgt, mem, firmware>>, stage \notin {"start32", "fixup"},
           stage' \notin {"start32", "fixup"},
           PastMemory' => PastMemory, stage' # "aborted" => cause' = "none"
    PROVE  StartInv'
<1>1. MemoryInv'
  BY DEF StartInv, MemoryInv, FromMap
<1>2. TablesInv'
  <2>1. KernelStaysMapped'  BY DEF StartInv, TablesInv, KernelStaysMapped
  <2> QED  BY <2>1 DEF StartInv, TablesInv
<1>3. FreePagesAreFree'
  <2>1. last_pfn' = last_pfn  BY DEF last_pfn, NormalPages, BlockSet
  <2> QED  BY <2>1 DEF StartInv, FreePagesAreFree
<1> QED  BY <1>1, <1>2, <1>3 DEF StartInv

LEMMA StartSteps ==
    ASSUME MemoryIsAligned, StartInv, [BootNext]_bootVars
    PROVE  StartInv'
<1> USE DEF StartInv
<1>a. TableSize \in Nat /\ TableSize >= 4 /\ High \in Nat /\ High >= TableSize \div 2 + 1 /\ TableSize - 2 \in Index /\ High \in Index
      /\ TableSize \div 2 \in Index /\ TableSize \div 2 >= 2 /\ 0..3 \subseteq Index /\ 0 \in Index /\ Index \subseteq Nat
  BY BootAssumption DEF High, Index
<1>t. \A i \in Index \X Index \X Index : i[1] \in Nat /\ i[2] \in Nat /\ i[3] \in Nat  BY <1>a
<1>k. \A j \in Index : KernelMapping(<<High, TableSize - 2, j>>) = j /\ KernelMapping(<<High, High, j>>) = TableSize + j
  <2> TAKE j \in Index
  <2>1. j \in Nat  BY <1>a
  <2>2. (TableSize - 2 - (TableSize - 2)) * TableSize = 0 /\ (High - (TableSize - 2)) * TableSize = TableSize  BY <1>a DEF High
  <2> QED  BY <2>1, <2>2 DEF KernelMapping
<1>s. SelectorsAreRight'
  <2>1. CASE Platform  BY <2>1, PlatformSegments
  <2>2. CASE ~Platform
    <3>1. \A r \in DOMAIN AfterDevices : RegisterPlatform(r) => UNCHANGED gdt  BY DEF RegisterPlatform
    <3>2. UNCHANGED gdt
      BY <2>2, <3>1 DEF BootNext, bootVars, Start32, Fixup, AddBlock, InitPages, LocateTables, ParseRecord, ParseTable,
         InitModules, InitScheduler, ActivateConsole, ProbeBus, Probe, ProbedBus, StartKernel
    <3> QED  BY <3>2, SegmentsKept
  <2> QED  BY <2>1, <2>2
<1>1. CASE Start32
  <2>1. PICK left \in {0, 1} :
          pgt' = [i \in DOMAIN pgt |->
                    CASE i = <<0, 0, 0>> -> 0
                      [] i[1] = High /\ i[2] = TableSize - 2 -> KernelMapping(i)
                      [] i[1] = High /\ i[2] = TableSize - 1 -> KernelMapping(i) + left * 1000
                      [] OTHER -> Absent]
    BY <1>1 DEF Start32
  <2>2. UNCHANGED <<mem, firmware>> /\ stage' = "fixup" /\ cause' = cause /\ stage = "start32"  BY <1>1 DEF Start32, Rest, GoOn
  <2>3. MemoryInv'  BY <2>2 DEF MemoryInv, FromMap
  <2>4. \A i \in DOMAIN pgt : i[1] # 0 /\ i[1] < TableSize \div 2 => pgt'[i] = Absent
    <3> TAKE i \in DOMAIN pgt
    <3> HAVE i[1] # 0 /\ i[1] < TableSize \div 2
    <3>1. i # <<0, 0, 0>> /\ i[1] # High  BY <1>a, <1>t DEF TablesInv
    <3> QED  BY <2>1, <3>1
  <2>5. \A j \in Index : pgt'[<<High, TableSize - 2, j>>] = j
    <3> TAKE j \in Index
    <3>1. PICK i : i = <<High, TableSize - 2, j>>  OBVIOUS
    <3>2. i \in DOMAIN pgt /\ i # <<0, 0, 0>> /\ i[1] = High /\ i[2] = TableSize - 2  BY <1>a, <3>1 DEF TablesInv
    <3>3. pgt'[i] = KernelMapping(i)  BY <1>a, <1>t, <2>1, <3>2 DEF KernelMapping, TablesInv
    <3> QED  BY <1>k, <3>1, <3>3
  <2>6. TablesInv'
    BY <2>1, <2>2, <2>4, <2>5 DEF TablesInv, KernelStaysMapped, PastMemory, Early
  <2> QED  BY <1>s, <2>2, <2>3, <2>6 DEF FreePagesAreFree, PastMemory, Early
<1>2. CASE Fixup
  <2>1. pgt' = [i \in DOMAIN pgt |-> IF i[1] = 0 THEN Absent ELSE pgt[i]] /\ stage = "fixup" /\ stage' = "platform"
        /\ UNCHANGED <<mem, firmware, cause>>
    BY <1>2 DEF Fixup, Rest, GoOn
  <2>2. MemoryInv'  BY <2>1 DEF MemoryInv, FromMap
  <2>3. \A j \in Index : pgt'[<<High, TableSize - 2, j>>] = j
    <3> TAKE j \in Index
    <3>1. PICK i : i = <<High, TableSize - 2, j>>  OBVIOUS
    <3>2. i \in DOMAIN pgt /\ i[1] # 0  BY <1>a, <3>1 DEF TablesInv
    <3> QED  BY <2>1, <3>1, <3>2 DEF TablesInv, KernelStaysMapped
  <2>4. \A i \in DOMAIN pgt : i[1] < TableSize \div 2 => pgt'[i] = Absent
    BY <2>1 DEF TablesInv
  <2>5. TablesInv'  BY <2>1, <2>3, <2>4 DEF TablesInv, KernelStaysMapped, PastMemory, Early
  <2> QED  BY <1>s, <2>1, <2>2, <2>5 DEF FreePagesAreFree, PastMemory, Early
<1>3. CASE AddBlock
  <2> DEFINE e == firmware.map[mem.k]
             b == [base |-> e.base \div 2, pages |-> e.len \div 2, normal |-> e.type = "available"]
  <2>1. stage = "memory" /\ stage' = "memory" /\ UNCHANGED <<firmware, cause, pgt>> /\ mem.k <= Len(firmware.map)
        /\ mem' = [mem EXCEPT !.k = @ + 1, !.blocks = IF ~Kept(e) THEN @ ELSE Append(@, b)]
    BY <1>3 DEF AddBlock, Rest
  <2>2. firmware.map \in Seq(Entry) /\ mem.blocks \in Seq(BlockType) /\ mem.k \in Nat \ {0}
    BY BootAssumption DEF MemoryInv, IsFirmware
  <2>3. mem.k \in DOMAIN firmware.map /\ e \in Entry  BY <2>1, <2>2, LenProperties, ElementOfSeq
  <2>4. b \in BlockType  BY <2>3 DEF Entry, BlockType
  <2>5. mem' \in [k : Nat \ {0}, blocks : Seq(BlockType), page : UNION {[D -> BOOLEAN] : D \in SUBSET Int}, tables : SUBSET Int]
        /\ mem'.blocks \in {mem.blocks, Append(mem.blocks, b)}
    <3>1. PICK c : c = b  OBVIOUS
    <3>2. mem' = [mem EXCEPT !.k = mem.k + 1, !.blocks = IF ~Kept(e) THEN mem.blocks ELSE Append(mem.blocks, c)]  BY <2>1, <3>1
    <3>3. PICK s : s = IF ~Kept(e) THEN mem.blocks ELSE Append(mem.blocks, c)  OBVIOUS
    <3>4. s \in Seq(BlockType) /\ s \in {mem.blocks, Append(mem.blocks, c)}  BY <2>2, <2>4, <3>1, <3>3, AppendProperties
    <3>5. mem' = [mem EXCEPT !.k = mem.k + 1, !.blocks = s]  BY <3>2, <3>3
    <3> HIDE DEF b
    <3>6. mem'.blocks = s  BY <3>5 DEF MemoryInv
    <3>7. mem' \in [k : Nat \ {0}, blocks : Seq(BlockType), page : UNION {[D -> BOOLEAN] : D \in SUBSET Int}, tables : SUBSET Int]
      <4>1. mem.k + 1 \in Nat \ {0}  BY <2>2
      <4> HIDE DEF e
      <4> QED  BY <3>4, <3>5, <4>1 DEF MemoryInv
    <3> QED  BY <3>1, <3>4, <3>6, <3>7
  <2>6. \A j \in DOMAIN mem'.blocks : mem'.blocks[j] = b \/ (j \in DOMAIN mem.blocks /\ mem'.blocks[j] = mem.blocks[j])
    <3>1. PICK c : c = b  OBVIOUS
    <3> HIDE DEF b
    <3>2. c \in BlockType /\ mem'.blocks \in {mem.blocks, Append(mem.blocks, c)}  BY <2>4, <2>5, <3>1
    <3>3. DOMAIN mem.blocks = 1..Len(mem.blocks) /\ Len(mem.blocks) \in Nat  BY <2>2, LenProperties
    <3>4. CASE mem'.blocks = mem.blocks  BY <3>4
    <3>5. CASE mem'.blocks = Append(mem.blocks, c)
      <4>1. mem'.blocks \in Seq(BlockType) /\ Len(mem'.blocks) = Len(mem.blocks) + 1
            /\ (\A i \in 1..Len(mem.blocks) : mem'.blocks[i] = mem.blocks[i]) /\ mem'.blocks[Len(mem.blocks) + 1] = c
        BY <2>2, <3>2, <3>5, AppendProperties
      <4>2. DOMAIN mem'.blocks = 1..(Len(mem.blocks) + 1)  BY <4>1, LenProperties
      <4> QED  BY <3>1, <3>3, <4>1, <4>2
    <3> QED  BY <3>2, <3>4, <3>5
  <2>7. (\A j \in DOMAIN mem.blocks : FromMap(mem.blocks[j]))'
    <3>1. b.base = e.base \div 2 /\ b.pages = e.len \div 2 /\ (b.normal => e.type = "available")  OBVIOUS
    <3>2. FromMap(b)  BY <2>3, <3>1 DEF FromMap
    <3> HIDE DEF b
    <3>3. \A j \in DOMAIN mem'.blocks : FromMap(mem'.blocks[j])  BY <2>6, <3>2 DEF MemoryInv
    <3> QED  BY <2>1, <3>3 DEF FromMap
  <2>8. \E bound \in Nat : \A j \in DOMAIN mem'.blocks : mem'.blocks[j].base + mem'.blocks[j].pages <= bound
    <3>1. PICK bound \in Nat : \A j \in DOMAIN mem.blocks : mem.blocks[j].base + mem.blocks[j].pages <= bound  BY DEF MemoryInv
    <3>2. b.base \in Nat /\ b.pages \in Nat  BY <2>4 DEF BlockType
    <3> HIDE DEF b
    <3>3. bound + b.base + b.pages \in Nat /\ bound <= bound + b.base + b.pages /\ b.base + b.pages <= bound + b.base + b.pages  BY <3>2
    <3>4. \A j \in DOMAIN mem.blocks : mem.blocks[j].base \in Nat /\ mem.blocks[j].pages \in Nat
      <4>1. \A j \in DOMAIN mem.blocks : mem.blocks[j] \in BlockType  BY <2>2, LenProperties, ElementOfSeq
      <4> QED  BY <4>1 DEF BlockType
    <3> DEFINE B == bound + b.base + b.pages
    <3>5. \A j \in DOMAIN mem'.blocks : mem'.blocks[j].base + mem'.blocks[j].pages <= B
      BY <2>6, <3>1, <3>2, <3>3, <3>4
    <3> QED  BY <3>3, <3>5
  <2>9. MemoryInv'
    <3>1. firmware' \in Firmwares /\ (stage' # "aborted" => cause' = "none")  BY <2>1 DEF MemoryInv
    <3> HIDE DEF b
    <3> QED  BY <2>5, <2>7, <2>8, <3>1 DEF MemoryInv
  <2>10. TablesInv'  BY <2>1 DEF TablesInv, KernelStaysMapped, PastMemory, Early
  <2> QED  BY <1>s, <2>1, <2>9, <2>10 DEF FreePagesAreFree, PastMemory, Early
<1>4. CASE InitPages
  <2>1. CASE Abort("memory") /\ UNCHANGED <<mem, pgt>>
    <3>1. UNCHANGED firmware /\ stage = "memory"  BY <1>4 DEF InitPages, Rest
    <3> QED  BY <1>s, <2>1, <3>1, MemoryKept DEF Abort, PastMemory, Early
  <2>2. CASE ~(Abort("memory") /\ UNCHANGED <<mem, pgt>>)
    <3> DEFINE free == NormalPages \ Marked
    <3>1. /\ stage = "memory" /\ stage' = "acpi" /\ UNCHANGED <<firmware, cause>> /\ pgt' = NewTables
          /\ \E p \in {q \in free : q % KernelTables = 0 /\ q..(q + KernelTables - 1) \subseteq free} :
                mem' = [mem EXCEPT !.page = [q \in 0..last_pfn |-> q \in free \ (p..(p + KernelTables - 1))],
                                   !.tables = p..(p + KernelTables - 1)]
      BY <1>4, <2>2 DEF InitPages, Rest, GoOn
    <3>2. PICK p \in free : mem' = [mem EXCEPT !.page = [q \in 0..last_pfn |-> q \in free \ (p..(p + KernelTables - 1))],
                                               !.tables = p..(p + KernelTables - 1)]
      BY <3>1
    <3>3. last_pfn \in Nat  BY LastPage
    <3>4. \A q \in NormalPages : \E j \in DOMAIN mem.blocks : mem.blocks[j].normal /\
              q \in mem.blocks[j].base..(mem.blocks[j].base + mem.blocks[j].pages - 1)
      BY DEF NormalPages, BlockSet, PagesOf
    <3>5. \A j \in DOMAIN mem.blocks : mem.blocks[j].base \in Nat /\ mem.blocks[j].pages \in Nat
      <4>0. mem.blocks \in Seq(BlockType)  BY DEF MemoryInv
      <4>1. \A j \in DOMAIN mem.blocks : mem.blocks[j] \in BlockType  BY <4>0, LenProperties, ElementOfSeq
      <4> QED  BY <4>1 DEF BlockType
    <3>6. NormalPages \subseteq Nat  BY <3>4, <3>5
    <3>7. PICK page, tables : page = [q \in 0..last_pfn |-> q \in free \ (p..(p + KernelTables - 1))] /\ tables = p..(p + KernelTables - 1)
      OBVIOUS
    <3>8. page \in UNION {[D -> BOOLEAN] : D \in SUBSET Int} /\ tables \in SUBSET Int
      <4>0. page \in [0..last_pfn -> BOOLEAN]  BY <3>7
      <4>1. 0..last_pfn \in SUBSET Int  BY <3>3
      <4>2. p + KernelTables - 1 \in Int /\ p \in Int  BY <3>2, <3>6, BootAssumption
      <4> QED  BY <3>7, <4>0, <4>1, <4>2
    <3>9. mem' = [mem EXCEPT !.page = page, !.tables = tables]  BY <3>2, <3>7
    <3>10. mem' \in [k : Nat \ {0}, blocks : Seq(BlockType), page : UNION {[D -> BOOLEAN] : D \in SUBSET Int}, tables : SUBSET Int]
           /\ mem'.blocks = mem.blocks /\ mem'.page = page /\ mem'.tables = tables
      BY <3>8, <3>9 DEF MemoryInv
    <3>11. MemoryInv'
      <4>1. mem'.blocks = mem.blocks /\ firmware' = firmware  BY <3>1, <3>10
      <4>2. (\A j \in DOMAIN mem.blocks : FromMap(mem.blocks[j]))'
        BY <4>1 DEF MemoryInv, FromMap
      <4>3. (\E bound \in Nat : \A j \in DOMAIN mem.blocks : mem.blocks[j].base + mem.blocks[j].pages <= bound)'
        BY <4>1 DEF MemoryInv
      <4>4. firmware' \in Firmwares /\ (stage' # "aborted" => cause' = "none")  BY <3>1, <4>1 DEF MemoryInv
      <4> QED  BY <3>10, <4>2, <4>3, <4>4 DEF MemoryInv
    <3>12. TablesInv'
      <4>1. /\ DOMAIN pgt' = DOMAIN pgt
            /\ \A i \in DOMAIN pgt : pgt'[i] = CASE i[1] = High /\ i[2] >= TableSize - 2 -> KernelMapping(i)
                                                 [] i[1] = TableSize \div 2 /\ i[2] < 4 -> i[2] * TableSize + i[3]
                                                 [] OTHER -> Absent
        BY <3>1 DEF NewTables
      <4>2. \A j \in Index : pgt'[<<High, TableSize - 2, j>>] = j /\ pgt'[<<High, High, j>>] = TableSize + j
        <5> TAKE j \in Index
        <5>1. PICK i, h : i = <<High, TableSize - 2, j>> /\ h = <<High, High, j>>  OBVIOUS
        <5>2. /\ i \in DOMAIN pgt /\ i[1] = High /\ i[2] >= TableSize - 2
              /\ h \in DOMAIN pgt /\ h[1] = High /\ h[2] >= TableSize - 2
          BY <1>a, <5>1 DEF TablesInv, High
        <5>3. pgt'[i] = KernelMapping(i) /\ pgt'[h] = KernelMapping(h)  BY <1>a, <1>t, <4>1, <5>2 DEF KernelMapping, TablesInv
        <5> QED  BY <1>k, <5>1, <5>3
      <4>3. \A j \in Index : \A g \in 0..3 : pgt'[<<TableSize \div 2, g, j>>] = g * TableSize + j
        <5> TAKE j \in Index
        <5> TAKE g \in 0..3
        <5>1. PICK i : i = <<TableSize \div 2, g, j>>  OBVIOUS
        <5>2. i \in DOMAIN pgt /\ i[1] # High /\ i[1] = TableSize \div 2 /\ i[2] < 4 /\ i[2] = g /\ i[3] = j
          BY <1>a, <5>1 DEF TablesInv
        <5>3. pgt'[i] = i[2] * TableSize + i[3]  BY <4>1, <5>2
        <5> QED  BY <5>1, <5>2, <5>3
      <4>4. \A i \in DOMAIN pgt : i[1] < TableSize \div 2 => pgt'[i] = Absent
        <5> TAKE i \in DOMAIN pgt
        <5> HAVE i[1] < TableSize \div 2
        <5>1. i[1] # High /\ i[1] # TableSize \div 2  BY <1>a, <1>t DEF TablesInv
        <5> QED  BY <4>1, <5>1
      <4>5. KernelStaysMapped'
        BY <4>1, <4>2, <4>3, <4>4 DEF KernelStaysMapped
      <4> QED  BY <3>1, <4>1, <4>5 DEF TablesInv
    <3>13. FreePagesAreFree'
      <4>1. last_pfn' = last_pfn  BY <3>10 DEF last_pfn, NormalPages, BlockSet
      <4>2. SUFFICES ASSUME NEW q \in DOMAIN page, page[q]
                     PROVE  /\ \E k \in DOMAIN firmware.map : firmware.map[k].type = "available" /\ HasPage(firmware.map[k], q)
                            /\ q \notin Image \cup Stack \cup (0..BootTables) \cup tables
                            /\ q < HeapStart \/ (q - HeapStart) * PerPage > last_pfn
        BY <3>1, <3>10, <4>1 DEF FreePagesAreFree, HasPage
      <4>3. q \in NormalPages /\ q \notin Marked /\ q \notin tables /\ q \in Nat
        BY <3>6, <3>7, <4>2
      <4>4. \E k \in DOMAIN firmware.map : firmware.map[k].type = "available" /\ HasPage(firmware.map[k], q)
        <5>1. PICK j \in DOMAIN mem.blocks : mem.blocks[j].normal /\
                  q \in mem.blocks[j].base..(mem.blocks[j].base + mem.blocks[j].pages - 1)
          BY <3>4, <4>3
        <5>2. PICK k \in DOMAIN firmware.map : mem.blocks[j].base = firmware.map[k].base \div 2
                  /\ mem.blocks[j].pages = firmware.map[k].len \div 2 /\ firmware.map[k].type = "available"
          BY <5>1 DEF MemoryInv, FromMap
        <5>3. firmware.map[k] \in Entry /\ firmware.map[k].base % 2 = 0
          <6>1. firmware \in Firmwares /\ firmware.map \in Seq(Entry)  BY BootAssumption DEF MemoryInv, IsFirmware
          <6> QED  BY <5>2, <6>1, LenProperties, ElementOfSeq DEF MemoryIsAligned
        <5>4. q >= firmware.map[k].base \div 2 /\ q <= firmware.map[k].base \div 2 + (firmware.map[k].len \div 2) - 1
          BY <3>5, <4>3, <5>1, <5>2
        <5>5. HasPage(firmware.map[k], q)  BY <4>3, <5>3, <5>4, PageInEntry
        <5> QED  BY <5>2, <5>5
      <4>5. q \notin Image \cup Stack \cup (0..BootTables) \cup tables
        BY <4>3, BootAssumption DEF Marked
      <4>6. q < HeapStart \/ (q - HeapStart) * PerPage > last_pfn
        <5>1. q \notin HeapStart..(HeapStart + (last_pfn + 1) \div PerPage)  BY <4>3 DEF Marked, DescriptorPages
        <5>2. SUFFICES ASSUME q >= HeapStart PROVE (q - HeapStart) * PerPage > last_pfn  BY <4>3, BootAssumption
        <5>3. q - HeapStart \in Nat /\ q - HeapStart > (last_pfn + 1) \div PerPage
          <6>1. (last_pfn + 1) \div PerPage \in Int  BY <3>3, BootAssumption
          <6> QED  BY <4>3, <5>1, <5>2, <6>1, BootAssumption
        <5> QED  BY <3>3, <5>3, PageTail, BootAssumption
      <4> QED  BY <4>4, <4>5, <4>6
    <3> QED  BY <1>s, <3>11, <3>12, <3>13
  <2> QED  BY <2>1, <2>2
<1>5. CASE UNCHANGED bootVars
  <2>1. UNCHANGED <<pgt, mem, firmware, stage, cause>>  BY <1>5 DEF bootVars
  <2>2. last_pfn' = last_pfn  BY <2>1 DEF last_pfn, NormalPages, BlockSet
  <2>3. MemoryInv'  BY <2>1 DEF MemoryInv, FromMap
  <2>4. TablesInv'  BY <2>1 DEF TablesInv, KernelStaysMapped, PastMemory
  <2>5. FreePagesAreFree'  BY <2>1, <2>2 DEF FreePagesAreFree, PastMemory
  <2> QED  BY <1>s, <2>3, <2>4, <2>5
<1>6. ASSUME ~Start32, ~Fixup, ~AddBlock, ~InitPages, BootNext PROVE StartInv'
  <2>1. /\ UNCHANGED <<pgt, mem, firmware>> /\ stage \notin {"start32", "fixup"} /\ stage' \notin {"start32", "fixup"}
        /\ (PastMemory' => PastMemory) /\ (stage' # "aborted" => cause' = "none")
    <3> USE DEF KeepTree, Rest, GoOn, Abort, Unless, PastMemory, Early
    <3>0. stage # "aborted" => cause = "none"  BY DEF MemoryInv
    <3>1. CASE Platform  BY <3>0, <3>1 DEF Platform
    <3>2. CASE LocateTables  BY <3>0, <3>2 DEF LocateTables
    <3>3. CASE ParseRecord  BY <3>0, <3>3 DEF ParseRecord
    <3>4. CASE ParseTable  BY <3>0, <3>4 DEF ParseTable
    <3>5. CASE InitModules  BY <3>0, <3>5 DEF InitModules
    <3>6. ASSUME NEW s \in DOMAIN AfterDevices, RegisterPlatform(s) PROVE <2>1
      <4>1. s \in {"timer", "console"} /\ AfterDevices[s] \in {"sched", "activate"}  BY DEF AfterDevices
      <4> QED  BY <3>0, <3>6, <4>1 DEF RegisterPlatform
    <3>7. CASE InitScheduler  BY <3>0, <3>7 DEF InitScheduler
    <3>8. CASE ActivateConsole  BY <3>0, <3>8 DEF ActivateConsole
    <3>9. CASE ProbeBus  BY <3>0, <3>9 DEF ProbeBus
    <3>10. CASE Probe  BY <3>0, <3>10 DEF Probe
    <3>11. CASE ProbedBus  BY <3>0, <3>11 DEF ProbedBus
    <3>12. CASE StartKernel  BY <3>0, <3>12 DEF StartKernel
    <3> QED  BY <1>6, <3>1, <3>2, <3>3, <3>4, <3>5, <3>6, <3>7, <3>8, <3>9, <3>10, <3>11, <3>12 DEF BootNext
  <2> QED  BY <1>s, <2>1, MemoryKept
<1> QED  BY <1>1, <1>2, <1>3, <1>4, <1>5, <1>6 DEF BootNext

\* For any memory map whose available entries begin on a page, and tables of any size: the
\* kernel stays mapped from start32.S on, the selectors in the code name the segments it
\* means once GDT::init has filled the table, and InitPages leaves to the allocator only pages
\* that are wholly available and hold neither the kernel, nor its stack, its tables or a
\* page descriptor that is used.
THEOREM StartAlwaysSound ==
    ASSUME MemoryIsAligned
    PROVE  BootSpec => []StartIsSound
<1>1. BootInit => StartInv  BY StartInitially
<1>2. StartInv /\ [BootNext]_bootVars => StartInv'  BY StartSteps
<1>3. StartInv => StartIsSound  BY DEF StartInv, TablesInv, StartIsSound
<1> QED  BY <1>1, <1>2, <1>3, PTL DEF BootSpec

LEMMA TwoPart ==
    ASSUME NEW c \in Class, NEW nr \in Nat
    PROVE  <<c, nr>> \in Seq(NamePart) /\ Len(<<c, nr>>) = 2 /\ <<c, nr>>[1] = c /\ <<c, nr>>[2] = nr
<1>1. c \in NamePart /\ nr \in NamePart  BY DEF NamePart
<1> QED  BY <1>1

LEMMA ThreePart ==
    ASSUME NEW c \in Class, NEW nr \in Nat, NEW k \in Nat
    PROVE  /\ Append(<<c, nr>>, k) \in Seq(NamePart) /\ Len(Append(<<c, nr>>, k)) = 3
           /\ Append(<<c, nr>>, k)[3] = k /\ SubSeq(Append(<<c, nr>>, k), 1, 2) = <<c, nr>>
<1>1. PICK s : s = <<c, nr>>  OBVIOUS
<1>2. s \in Seq(NamePart) /\ Len(s) = 2 /\ s[1] = c /\ s[2] = nr /\ k \in NamePart  BY <1>1, TwoPart DEF NamePart
<1>3. PICK t : t = Append(s, k)  OBVIOUS
<1>4. t \in Seq(NamePart) /\ Len(t) = 3 /\ t[1] = c /\ t[2] = nr /\ t[3] = k
  BY <1>2, <1>3, AppendProperties
<1>5. SubSeq(t, 1, 2) = s
  <2>1. \A i \in 1..2 : t[i] \in NamePart  BY <1>2, <1>4 DEF NamePart
  <2>2. PICK u : u = SubSeq(t, 1, 2)  OBVIOUS
  <2>3. u \in Seq(NamePart) /\ Len(u) = 2 /\ u[1] = t[1] /\ u[2] = t[2]
    BY <2>1, <2>2, SubSeqProperties
  <2>4. \A i \in 1..Len(u) : u[i] = s[i]  BY <1>2, <1>4, <2>3
  <2> QED  BY <1>2, <2>2, <2>3, <2>4, SeqEqual
<1> QED  BY <1>1, <1>3, <1>4, <1>5

ConsoleName == <<"console">>
LEMMA OnePart ==
    ConsoleName \in Seq(NamePart) /\ Len(ConsoleName) = 1
<1>1. "console" \in NamePart  BY DEF NamePart
<1> QED  BY <1>1 DEF ConsoleName

\* One more device: the others stay, and its number is new in its class.
Grown(m, dv, r, dv2) ==
    /\ dv2 \in Seq(DeviceType(m)) /\ Len(dv) \in Nat /\ Len(dv2) = Len(dv) + 1
    /\ DOMAIN dv = 1..Len(dv) /\ DOMAIN dv2 = 1..(Len(dv) + 1) /\ dv2[Len(dv) + 1] = r
    /\ \A d \in DOMAIN dv : dv2[d] = dv[d]
    /\ \A d \in DOMAIN dv : dv[d].class = r.class => dv[d].nr # r.nr
    /\ Numbered(dv2)

LEMMA AddDevice ==
    ASSUME NEW m, NEW dv \in Seq(DeviceType(m)), Numbered(dv), NEW r \in DeviceType(m),
           r.nr = Cardinality(OfClass(dv, r.class)), NEW dv2, dv2 = Append(dv, r)
    PROVE  Grown(m, dv, r, dv2)
<1>1. /\ dv2 \in Seq(DeviceType(m)) /\ Len(dv) \in Nat /\ Len(dv2) = Len(dv) + 1 /\ dv2[Len(dv) + 1] = r
      /\ DOMAIN dv = 1..Len(dv) /\ \A d \in DOMAIN dv : dv2[d] = dv[d]
  BY AppendProperties, LenProperties
<1>2. DOMAIN dv2 = 1..(Len(dv) + 1)  BY <1>1, LenProperties
<1>3. \A d \in DOMAIN dv : dv[d] \in DeviceType(m)  BY <1>1, ElementOfSeq
<1>4. \A c : IsFiniteSet(OfClass(dv, c)) /\ Cardinality(OfClass(dv, c)) \in Nat
  <2> TAKE c
  <2>1. IsFiniteSet(1..Len(dv))  BY <1>1, FS_Interval
  <2>2. OfClass(dv, c) \in SUBSET (1..Len(dv))  BY <1>1 DEF OfClass
  <2>3. IsFiniteSet(OfClass(dv, c))  BY <2>1, <2>2, FS_Subset
  <2> QED  BY <2>3, FS_CardinalityType
<1>5. OfClass(dv2, r.class) = OfClass(dv, r.class) \cup {Len(dv) + 1}
  BY <1>1, <1>2 DEF OfClass
<1>6. \A c : c # r.class => OfClass(dv2, c) = OfClass(dv, c)
  BY <1>1, <1>2 DEF OfClass
<1>7. Cardinality(OfClass(dv2, r.class)) = Cardinality(OfClass(dv, r.class)) + 1
  <2>1. Len(dv) + 1 \notin OfClass(dv, r.class)  BY <1>1 DEF OfClass
  <2> QED  BY <1>4, <1>5, <2>1, FS_AddElement
<1>8. \A d \in DOMAIN dv : dv[d].class = r.class => dv[d].nr # r.nr
  <2> TAKE d \in DOMAIN dv
  <2> HAVE dv[d].class = r.class
  <2>1. dv[d].nr < r.nr /\ dv[d].nr \in Nat /\ r.nr \in Nat  BY <1>3, <1>4 DEF Numbered, DeviceType
  <2> QED  BY <2>1
<1>9. Numbered(dv2)
  <2>1. ASSUME NEW d \in DOMAIN dv2 PROVE dv2[d].nr < Cardinality(OfClass(dv2, dv2[d].class))
    <3>1. CASE d = Len(dv) + 1  BY <1>1, <1>4, <1>7, <3>1
    <3>2. CASE d # Len(dv) + 1
      <4>1. d \in DOMAIN dv /\ dv2[d] = dv[d]  BY <1>1, <1>2, <3>2
      <4>2. dv[d].nr < Cardinality(OfClass(dv, dv[d].class)) /\ dv[d].nr \in Nat  BY <1>3, <4>1 DEF Numbered, DeviceType
      <4> QED  BY <1>4, <1>6, <1>7, <4>1, <4>2
    <3> QED  BY <3>1, <3>2
  <2>2. ASSUME NEW d \in DOMAIN dv2, NEW e \in DOMAIN dv2, dv2[d].class = dv2[e].class, dv2[d].nr = dv2[e].nr PROVE d = e
    <3>1. CASE d \in DOMAIN dv /\ e \in DOMAIN dv  BY <1>1, <2>2, <3>1 DEF Numbered
    <3>2. CASE d \notin DOMAIN dv \/ e \notin DOMAIN dv  BY <1>1, <1>2, <1>8, <2>2, <3>2
    <3> QED  BY <3>1, <3>2
  <2> QED  BY <2>1, <2>2 DEF Numbered
<1> QED  BY <1>1, <1>2, <1>8, <1>9 DEF Grown

LEMMA Lengths ==
    ASSUME NEW s, NEW t, NEW i \in Nat, NEW j \in Nat, Len(s) = i, Len(t) = j, i # j
    PROVE  s # t
OBVIOUS

LEMMA LengthsThree ==
    \A s, t : Len(s) = 2 /\ (Len(t) = 1 \/ Len(t) = 3) => s # t
BY Lengths

LEMMA LengthsOne ==
    \A s, t : Len(s) = 3 /\ (Len(t) = 1 \/ Len(t) = 2) => s # t
BY Lengths

NamesWith(nm, added, d) == [n \in added \cup DOMAIN nm |-> IF n \in added THEN d ELSE nm[n]]
NamesPartition(dv, dv2, a) ==
    /\ a \in Seq(NamePart) /\ Len(a) = 3
    /\ \E d \in DOMAIN dv : \E k \in Nat \ {0} :
          a = Append(NameIn(dv, d), k - 1) /\ PartitionOf(dv2, d, k, Len(dv) + 1)

NamesGrown(dv2, nm, added, nm2) ==
    /\ \A n \in DOMAIN nm2 : n \in Seq(NamePart) /\ nm2[n] \in DOMAIN dv2
    /\ DOMAIN nm2 = added \cup DOMAIN nm
    /\ NamesOk(dv2, nm2)

\* Its names are added: the one of its class and number, and others that are no such names.
LEMMA AddNames ==
    ASSUME NEW m, NEW dv \in Seq(DeviceType(m)), Numbered(dv), NEW r \in DeviceType(m),
           r.nr = Cardinality(OfClass(dv, r.class)), NEW dv2, dv2 = Append(dv, r),
           NEW nm, NamesOk(dv, nm), \A n \in DOMAIN nm : n \in Seq(NamePart) /\ nm[n] \in DOMAIN dv,
           NEW added, <<r.class, r.nr>> \in added,
           \A a \in added : a = <<r.class, r.nr>> \/ a = ConsoleName \/ NamesPartition(dv, dv2, a),
           NEW nm2, nm2 = NamesWith(nm, added, Len(dv) + 1)
    PROVE  NamesGrown(dv2, nm, added, nm2)
<1>1. /\ dv2 \in Seq(DeviceType(m)) /\ Len(dv) \in Nat /\ Len(dv2) = Len(dv) + 1
      /\ DOMAIN dv = 1..Len(dv) /\ DOMAIN dv2 = 1..(Len(dv) + 1) /\ dv2[Len(dv) + 1] = r
      /\ \A d \in DOMAIN dv : dv2[d] = dv[d]
      /\ \A d \in DOMAIN dv : dv[d].class = r.class => dv[d].nr # r.nr
  <2>1. Grown(m, dv, r, dv2)  BY AddDevice
  <2> QED  BY <2>1 DEF Grown
<1>2. r.class \in Class /\ r.nr \in Nat /\ \A d \in DOMAIN dv : dv[d].class \in Class /\ dv[d].nr \in Nat
  <2>1. \A d \in DOMAIN dv : dv[d] \in DeviceType(m)  BY <1>1, ElementOfSeq
  <2> QED  BY <2>1 DEF DeviceType
<1>0. ConsoleName \in Seq(NamePart) /\ Len(ConsoleName) = 1  BY OnePart
<1>b. \A a \in added : NamesPartition(dv, dv2, a) => a \in Seq(NamePart) /\ Len(a) = 3  BY DEF NamesPartition
<1>3. \A a \in added : a \in Seq(NamePart)  BY <1>0, <1>b, <1>2, TwoPart
<1>4. DOMAIN nm2 = added \cup DOMAIN nm /\ \A n \in DOMAIN nm2 : nm2[n] = IF n \in added THEN Len(dv) + 1 ELSE nm[n]
  BY DEF NamesWith
<1>5. \A n \in DOMAIN nm2 : n \in Seq(NamePart) /\ nm2[n] \in DOMAIN dv2  BY <1>1, <1>3, <1>4
<1>6. ASSUME NEW d \in DOMAIN dv2 PROVE NameIn(dv2, d) \in DOMAIN nm2 /\ nm2[NameIn(dv2, d)] = d
  <2>1. CASE d = Len(dv) + 1  BY <1>1, <1>4, <2>1 DEF NameIn
  <2>2. CASE d # Len(dv) + 1
    <3>1. d \in DOMAIN dv /\ NameIn(dv2, d) = NameIn(dv, d)  BY <1>1, <2>2 DEF NameIn
    <3>2. PICK n : n = NameIn(dv, d)  OBVIOUS
    <3>3. n \in Seq(NamePart) /\ Len(n) = 2 /\ n[1] = dv[d].class /\ n[2] = dv[d].nr  BY <1>2, <3>1, <3>2, TwoPart DEF NameIn
    <3>4. n # <<r.class, r.nr>>
      <4>1. PICK q : q = <<r.class, r.nr>>  OBVIOUS
      <4>2. q[1] = r.class /\ q[2] = r.nr  BY <1>2, <4>1, TwoPart
      <4> QED  BY <1>1, <3>1, <3>3, <4>1, <4>2
    <3>5. n \notin added
      <4>1. PICK con : con = ConsoleName  OBVIOUS
      <4>2. n # con  BY <1>0, <3>3, <4>1, LengthsThree
      <4>3. ASSUME n \in added PROVE ~NamesPartition(dv, dv2, n)  BY <1>b, <3>3, <4>3, LengthsThree
      <4> QED  BY <3>4, <4>1, <4>2, <4>3
    <3>6. n \in DOMAIN nm /\ nm[n] = d  BY <3>1, <3>2 DEF NamesOk
    <3> QED  BY <1>4, <3>1, <3>2, <3>5, <3>6
  <2> QED  BY <2>1, <2>2
<1>7. ASSUME NEW n \in DOMAIN nm2, Len(n) = 3
      PROVE  \E d \in DOMAIN dv2 : \E k \in Nat \ {0} : n = Append(NameIn(dv2, d), k - 1) /\ PartitionOf(dv2, d, k, nm2[n])
  <2>0. n \in Seq(NamePart)  BY <1>5
  <2>1. \A d \in DOMAIN dv : d \in DOMAIN dv2 /\ NameIn(dv2, d) = NameIn(dv, d)  BY <1>1 DEF NameIn
  <2>2. CASE n \in added
    <3>1. n # <<r.class, r.nr>>
      <4>1. PICK q : q = <<r.class, r.nr>>  OBVIOUS
      <4>2. q \in Seq(NamePart) /\ Len(q) = 2  BY <1>2, <4>1, TwoPart
      <4> QED  BY <1>7, <4>1, <4>2, LengthsOne
    <3>2. PICK d \in DOMAIN dv : \E k \in Nat \ {0} : n = Append(NameIn(dv, d), k - 1) /\ PartitionOf(dv2, d, k, Len(dv) + 1)
      <4>1. PICK con : con = ConsoleName  OBVIOUS
      <4>2. n # con  BY <1>0, <1>7, <4>1, LengthsOne
      <4>3. NamesPartition(dv, dv2, n)  BY <2>2, <3>1, <4>1, <4>2
      <4> QED  BY <4>3 DEF NamesPartition
    <3> QED  BY <1>4, <2>1, <2>2, <3>2
  <2>3. CASE n \notin added
    <3>1. n \in DOMAIN nm /\ nm2[n] = nm[n] /\ nm[n] \in DOMAIN dv  BY <1>4, <2>3
    <3>2. PICK d \in DOMAIN dv, k \in Nat \ {0} : n = Append(NameIn(dv, d), k - 1) /\ PartitionOf(dv, d, k, nm[n])
      BY <1>7, <3>1 DEF NamesOk
    <3>3. PartitionOf(dv2, d, k, nm2[n])  BY <1>1, <2>1, <3>1, <3>2 DEF PartitionOf
    <3> QED  BY <2>1, <3>2, <3>3
  <2> QED  BY <2>2, <2>3
<1> QED  BY <1>4, <1>5, <1>6, <1>7 DEF NamesOk, NamesGrown

\* Devices only get ready or fail, and names are only added.
LaterTree(dv, nm, dv2, nm2) ==
    /\ \A d \in DOMAIN dv : /\ d \in DOMAIN dv2 /\ dv2[d].class = dv[d].class /\ dv2[d].hw = dv[d].hw
                            /\ dv2[d].nr = dv[d].nr /\ dv2[d].of = dv[d].of
                            /\ dv[d].st = "init" \/ dv2[d].st = dv[d].st
    /\ \A n \in DOMAIN nm : n \in DOMAIN nm2

LEMMA LaterDone ==
    ASSUME NEW m, NEW dv, NEW nm, NEW dv2, NEW nm2, LaterTree(dv, nm, dv2, nm2)
    PROVE  /\ \A n : PciDone(dv, n) => PciDone(dv2, n)
           /\ \A h : DiskDone(m, dv, h) => DiskDone(m, dv2, h)
           /\ \A n, at : UpToDrive(m, dv, n, at) => UpToDrive(m, dv2, n, at)
           /\ \A n, at, fn : BeforeSlot(m, dv, n, at, fn) => BeforeSlot(m, dv2, n, at, fn)
           /\ \A d \in DOMAIN dv : \A h, at : BeforeEntry(m, dv, nm, d, h, at) => BeforeEntry(m, dv2, nm2, d, h, at)
<1>1. \A n : PciDone(dv, n) => PciDone(dv2, n)  BY DEF LaterTree, PciDone
<1>2. \A h : DiskDone(m, dv, h) => DiskDone(m, dv2, h)  BY DEF LaterTree, DiskDone
<1>3. \A n, at : UpToDrive(m, dv, n, at) => UpToDrive(m, dv2, n, at)  BY <1>2 DEF UpToDrive
<1>4. \A n, at, fn : BeforeSlot(m, dv, n, at, fn) => BeforeSlot(m, dv2, n, at, fn)  BY <1>1 DEF BeforeSlot
<1>5. \A d \in DOMAIN dv : NameIn(dv2, d) = NameIn(dv, d)  BY DEF LaterTree, NameIn
<1>6. \A d \in DOMAIN dv : \A h, at : BeforeEntry(m, dv, nm, d, h, at) => BeforeEntry(m, dv2, nm2, d, h, at)
  BY <1>5 DEF LaterTree, BeforeEntry
<1> QED  BY <1>1, <1>2, <1>3, <1>4, <1>6

LEMMA LaterDevice ==
    ASSUME NEW m, NEW dv, NEW nm, NEW dv2, NEW nm2, LaterTree(dv, nm, dv2, nm2),
           NEW d \in DOMAIN dv, DeviceSound(m, dv, nm, d), dv2[d].st = dv[d].st
    PROVE  DeviceSound(m, dv2, nm2, d)
<1>1. dv2[d].class = dv[d].class /\ dv2[d].hw = dv[d].hw /\ dv2[d].of = dv[d].of  BY DEF LaterTree
<1>2. dv[d].class = "block-partition" => dv2[dv[d].of].class = dv[dv[d].of].class /\ dv2[dv[d].of].hw = dv[dv[d].of].hw
                                         /\ dv[d].of \in DOMAIN dv2
  BY DEF LaterTree, DeviceSound
<1>3. /\ dv2[d].class = "pci" => dv2[d].hw \in DOMAIN m \ {0} /\ m[dv2[d].hw].class \in Supported
      /\ dv2[d].class \notin {"pci", "ata", "atactl"} => dv2[d].st = "ok"
  BY <1>1 DEF DeviceSound
<1>4. ASSUME dv2[d].class = "pci", dv2[d].st = "ok"
      PROVE  /\ m[dv2[d].hw].class = "bridge" /\ m[dv2[d].hw].sub = "pci-to-pci" =>
                   dv2[d].hw \in Buses(m) /\ BeforeSlot(m, dv2, dv2[d].hw, Slots, 0)
             /\ dv2[d].hw \in IdeControllers(m) => UpToDrive(m, dv2, dv2[d].hw, Drives)
  <2>1. PICK h : h = dv[d].hw /\ h = dv2[d].hw  BY <1>1
  <2>2. /\ m[h].class = "bridge" /\ m[h].sub = "pci-to-pci" => h \in Buses(m) /\ BeforeSlot(m, dv, h, Slots, 0)
        /\ h \in IdeControllers(m) => UpToDrive(m, dv, h, Drives)
    BY <1>1, <1>4, <2>1 DEF DeviceSound
  <2> QED  BY <2>1, <2>2, LaterDone
<1>5. ASSUME dv2[d].class = "ata"
      PROVE  /\ dv2[d].hw \in IdeControllers(m) \X (1..Drives) /\ DriveOf(m, dv2[d].hw) \notin NotThere
             /\ dv2[d].st = "ok" => /\ DriveOf(m, dv2[d].hw) \in {"blank", "table"}
                                    /\ DriveOf(m, dv2[d].hw) = "table" => BeforeEntry(m, dv2, nm2, d, dv2[d].hw, Entries + 1)
  <2>1. PICK h, e : h = dv[d].hw /\ h = dv2[d].hw /\ e = Entries + 1  BY <1>1
  <2>2. /\ h \in IdeControllers(m) \X (1..Drives) /\ DriveOf(m, h) \notin NotThere
        /\ dv2[d].st = "ok" => /\ DriveOf(m, h) \in {"blank", "table"}
                               /\ DriveOf(m, h) = "table" => BeforeEntry(m, dv, nm, d, h, e)
    BY <1>1, <1>5, <2>1 DEF DeviceSound
  <2> QED  BY <2>1, <2>2, LaterDone
<1>6. ASSUME dv2[d].class = "block-partition"
      PROVE  /\ dv2[d].st = "ok" /\ dv2[d].of \in DOMAIN dv2 /\ dv2[dv2[d].of].class = "ata"
             /\ \E k \in 1..Entries : dv2[d].hw = <<dv2[dv2[d].of].hw, k>> /\ EntryOf(m, dv2[dv2[d].of].hw, k) # 0
  BY <1>1, <1>2, <1>6 DEF DeviceSound
<1> QED  BY <1>3, <1>4, <1>5, <1>6 DEF DeviceSound

LEMMA LaterFrame ==
    ASSUME NEW m, NEW dv, NEW nm, NEW dv2, NEW nm2, LaterTree(dv, nm, dv2, nm2),
           NEW f, FrameSound(m, dv, nm, f), f.dev = 0 \/ dv2[f.dev].st = dv[f.dev].st,
           \A p \in DOMAIN dv2 : dv2[p].class = "block-partition" /\ p \notin DOMAIN dv => dv2[p].of # f.dev \/ f.at # 0
    PROVE  FrameSound(m, dv2, nm2, f)
<1>1. f.dev # 0 => f.dev \in DOMAIN dv2 /\ dv2[f.dev].class = dv[f.dev].class /\ dv2[f.dev].hw = dv[f.dev].hw
                   /\ dv2[f.dev].st = dv[f.dev].st /\ f.dev \in DOMAIN dv
  BY DEF LaterTree, FrameSound
<1>2. f.kind = "disk" /\ f.at = 0 => \A p \in DOMAIN dv2 : dv2[p].class = "block-partition" => dv2[p].of # f.dev
  BY DEF LaterTree, FrameSound
<1>3. f.kind = "disk" => f.dev # 0  BY DEF FrameSound
<1>4. (f.kind = "bus" /\ f.ok => BeforeSlot(m, dv2, f.hw, f.at, f.fn))
      /\ (f.kind = "controller" => UpToDrive(m, dv2, f.hw, f.at))
      /\ (f.kind = "disk" => BeforeEntry(m, dv2, nm2, f.dev, f.hw, f.at))
  BY <1>1, <1>3, LaterDone DEF FrameSound
<1> QED  BY <1>1, <1>2, <1>4 DEF FrameSound

LEMMA LaterAnswer ==
    ASSUME NEW m, NEW dv, NEW nm, NEW dv2, NEW nm2, LaterTree(dv, nm, dv2, nm2), NEW cs, NEW an, AnswerSound(m, dv, cs, an)
    PROVE  AnswerSound(m, dv2, cs, an)
<1>1. an = "yes" /\ cs = <<>> => BeforeSlot(m, dv2, 0, Slots, 0)
  BY LaterDone DEF AnswerSound
<1>2. ASSUME an # "none", cs # <<>>
      PROVE  LET f == cs[1] IN
             /\ f.kind \in {"bus", "storage", "controller"}
             /\ f.kind = "bus" => AtFunction(m, f) /\ (an = "yes" => PciDone(dv2, m[f.hw].bus[<<f.at, f.fn>>]))
             /\ f.kind = "storage" => f.hw \in IdeControllers(m) /\ UpToDrive(m, dv2, f.hw, Drives)
             /\ f.kind = "controller" => f.at < Drives /\ DiskDone(m, dv2, <<f.hw, f.at + 1>>)
  <2>1. PICK f, x, y : f = cs[1] /\ x = m[f.hw].bus[<<f.at, f.fn>>] /\ y = <<f.hw, f.at + 1>>  OBVIOUS
  <2>2. /\ f.kind \in {"bus", "storage", "controller"}
        /\ f.kind = "bus" => AtFunction(m, f) /\ (an = "yes" => PciDone(dv, x))
        /\ f.kind = "storage" => f.hw \in IdeControllers(m) /\ UpToDrive(m, dv, f.hw, Drives)
        /\ f.kind = "controller" => f.at < Drives /\ DiskDone(m, dv, y)
    BY <1>2, <2>1 DEF AnswerSound
  <2>3. /\ f.kind = "bus" => AtFunction(m, f) /\ (an = "yes" => PciDone(dv2, x))
        /\ f.kind = "storage" => f.hw \in IdeControllers(m) /\ UpToDrive(m, dv2, f.hw, Drives)
        /\ f.kind = "controller" => f.at < Drives /\ DiskDone(m, dv2, y)
    BY <2>2, LaterDone
  <2> QED  BY <2>1, <2>2, <2>3
<1> QED  BY <1>1, <1>2 DEF AnswerSound

\* Stacks of calls.
LEMMA PushedCall ==
    ASSUME NEW S, NEW f \in S, NEW cs \in Seq(S), NEW cs2, cs2 = <<f>> \o cs
    PROVE  /\ cs2 \in Seq(S) /\ Len(cs) \in Nat /\ Len(cs2) = Len(cs) + 1 /\ cs2 # <<>> /\ cs2[1] = f
           /\ DOMAIN cs = 1..Len(cs) /\ DOMAIN cs2 = 1..(Len(cs) + 1)
           /\ \A i \in DOMAIN cs : cs2[i + 1] = cs[i]
           /\ \A i \in DOMAIN cs2 : i # 1 => i - 1 \in DOMAIN cs /\ cs2[i] = cs[i - 1]
<1>1. PICK o : o = <<f>>  OBVIOUS
<1>2. o \in Seq(S) /\ Len(o) = 1 /\ o[1] = f  BY <1>1
<1>3. cs2 = o \o cs  BY <1>1
<1>4. /\ cs2 \in Seq(S) /\ Len(cs2) = 1 + Len(cs) /\ Len(cs) \in Nat
      /\ \A i \in 1..(1 + Len(cs)) : cs2[i] = IF i <= 1 THEN o[i] ELSE cs[i - 1]
  BY <1>2, <1>3, ConcatProperties, LenProperties
<1>5. DOMAIN cs = 1..Len(cs) /\ DOMAIN cs2 = 1..(Len(cs) + 1)  BY <1>4, LenProperties
<1>6. cs2 # <<>>  BY <1>4
<1>7. cs2[1] = f  BY <1>2, <1>4
<1>8. \A i \in DOMAIN cs2 : i # 1 => i - 1 \in DOMAIN cs /\ cs2[i] = cs[i - 1]  BY <1>4, <1>5
<1>9. \A i \in DOMAIN cs : cs2[i + 1] = cs[i]  BY <1>4, <1>5
<1> QED  BY <1>4, <1>5, <1>6, <1>7, <1>8, <1>9

LEMMA PoppedCall ==
    ASSUME NEW S, NEW cs \in Seq(S), cs # <<>>
    PROVE  /\ Tail(cs) \in Seq(S) /\ Len(cs) \in Nat /\ Len(cs) >= 1 /\ Len(Tail(cs)) = Len(cs) - 1
           /\ cs[1] \in S /\ Head(cs) = cs[1]
           /\ DOMAIN cs = 1..Len(cs) /\ DOMAIN Tail(cs) = 1..(Len(cs) - 1)
           /\ \A i \in DOMAIN Tail(cs) : Tail(cs)[i] = cs[i + 1] /\ i + 1 \in DOMAIN cs
           /\ \A i \in DOMAIN cs : i # 1 => i - 1 \in DOMAIN Tail(cs)
<1>1. Len(cs) \in Nat /\ DOMAIN cs = 1..Len(cs) /\ Len(cs) # 0  BY LenProperties, EmptySeq
<1>2. PICK t : t = Tail(cs)  OBVIOUS
<1>3. t \in Seq(S) /\ Len(t) = Len(cs) - 1 /\ \A i \in 1..Len(t) : t[i] = cs[i + 1]  BY <1>2, HeadTailProperties
<1>4. DOMAIN t = 1..(Len(cs) - 1)  BY <1>3, LenProperties
<1>5. cs[1] \in S /\ Head(cs) = cs[1]  BY <1>1, ElementOfSeq
<1> QED  BY <1>1, <1>2, <1>3, <1>4, <1>5

\* The innermost call goes on.
LEMMA BecomeOk ==
    ASSUME NEW m, NEW dv, NEW nm, NEW cs, NEW an, TreeOk(m, dv, nm, cs, an), cs # <<>>,
           NEW f \in FrameType(m), FrameSound(m, dv, nm, f), f.dev = cs[1].dev,
           \A g : MadeBy(m, cs[1], g) => MadeBy(m, f, g),
           cs[1].kind = "bus" /\ (~cs[1].ok \/ an = "no") => f.kind = "bus" /\ ~f.ok,
           NEW cs2, cs2 = <<f>> \o Tail(cs)
    PROVE  TreeOk(m, dv, nm, cs2, "none")
<1>1. cs \in Seq(FrameType(m)) /\ dv \in Seq(DeviceType(m))  BY DEF TreeOk, TreeTypes
<1>2. PICK t : t = Tail(cs)  OBVIOUS
<1>3. /\ t \in Seq(FrameType(m)) /\ Len(cs) \in Nat /\ Len(cs) >= 1 /\ Len(t) = Len(cs) - 1
      /\ DOMAIN cs = 1..Len(cs) /\ \A i \in DOMAIN t : t[i] = cs[i + 1]
  BY <1>1, <1>2, PoppedCall
<1>4. /\ cs2 \in Seq(FrameType(m)) /\ Len(cs2) = Len(t) + 1 /\ cs2 # <<>> /\ cs2[1] = f
      /\ DOMAIN cs2 = 1..(Len(t) + 1) /\ \A i \in DOMAIN cs2 : i # 1 => i - 1 \in DOMAIN t /\ cs2[i] = t[i - 1]
  BY <1>2, <1>3, PushedCall
<1>5. DOMAIN cs2 = DOMAIN cs /\ Len(cs2) = Len(cs) /\ 1 \in DOMAIN cs /\ \A i \in DOMAIN cs : i # 1 => cs2[i] = cs[i]
  BY <1>3, <1>4
<1>6. \A i \in DOMAIN cs : cs2[i].dev = cs[i].dev  BY <1>4, <1>5
<1>7. CallsSound(m, dv, nm, cs2)
  <2>0. CallsSound(m, dv, nm, cs)  BY DEF TreeOk
  <2>1. \A i \in DOMAIN cs2 : FrameSound(m, dv, nm, cs2[i]) /\ (cs2[i].dev = 0 <=> i = Len(cs2))
    BY <1>4, <1>5, <1>6, <2>0 DEF CallsSound
  <2>2. ASSUME NEW i \in DOMAIN cs2, i + 1 \in DOMAIN cs2 PROVE MadeBy(m, cs2[i], cs2[i + 1])
    <3>1. MadeBy(m, cs[i], cs[i + 1]) /\ cs2[i + 1] = cs[i + 1]
      <4>1. i + 1 # 1  BY <1>3, <1>5
      <4> QED  BY <1>5, <2>0, <2>2, <4>1 DEF CallsSound
    <3> QED  BY <1>4, <1>5, <3>1
  <2>3. \A i, j \in DOMAIN cs2 : cs2[i].dev = cs2[j].dev => i = j  BY <1>5, <1>6, <2>0 DEF CallsSound
  <2>4. \A d \in DOMAIN dv : dv[d].st = "init" => \E i \in DOMAIN cs2 : cs2[i].dev = d
    <3>1. \A d \in DOMAIN dv : dv[d].st = "init" => \E i \in DOMAIN cs : cs[i].dev = d  BY <2>0 DEF CallsSound
    <3> TAKE d \in DOMAIN dv
    <3>2. SUFFICES ASSUME dv[d].st = "init" PROVE \E i \in DOMAIN cs2 : cs2[i].dev = d  OBVIOUS
    <3>3. PICK i \in DOMAIN cs : cs[i].dev = d  BY <3>1, <3>2
    <3>4. i \in DOMAIN cs2 /\ cs2[i].dev = d  BY <1>5, <1>6, <3>3
    <3> QED  BY <3>4
  <2> QED  BY <2>1, <2>2, <2>3, <2>4 DEF CallsSound
<1>8. FailureKnown(dv, cs2, "none")
  <2>0. FailureKnown(dv, cs, an)  BY DEF TreeOk
  <2>1. SUFFICES ASSUME \E d \in DOMAIN dv : dv[d].st = "deleted" /\ dv[d].class # "ata"
                 PROVE  \E i \in DOMAIN cs2 : cs2[i].kind = "bus" /\ ~cs2[i].ok
    BY DEF FailureKnown
  <2>2. CASE \E i \in DOMAIN cs : cs[i].kind = "bus" /\ ~cs[i].ok
    <3>1. PICK i \in DOMAIN cs : cs[i].kind = "bus" /\ ~cs[i].ok  BY <2>2
    <3>2. CASE i = 1
      <4>1. f.kind = "bus" /\ ~f.ok  BY <3>1, <3>2
      <4> QED  BY <1>4, <1>5, <4>1
    <3>3. CASE i # 1
      <4>1. i \in DOMAIN cs2 /\ cs2[i] = cs[i]  BY <1>5, <3>1, <3>3
      <4> QED  BY <3>1, <4>1
    <3> QED  BY <3>2, <3>3
  <2>3. CASE an = "no" /\ (cs = <<>> \/ cs[1].kind = "bus")
    <3>1. f.kind = "bus" /\ ~f.ok  BY <2>3
    <3> QED  BY <1>4, <1>5, <3>1
  <2> QED  BY <2>0, <2>1, <2>2, <2>3 DEF FailureKnown
<1>9. AnswerSound(m, dv, cs2, "none")  BY DEF AnswerSound
<1>10. TreeTypes(m, dv, nm, cs2, "none")  BY <1>1, <1>4 DEF TreeTypes, TreeOk
<1> QED  BY <1>7, <1>8, <1>9, <1>10 DEF TreeOk

\* A driver registers a device, whose init begins.
Registers(m, dv, nm, f, r, dv2, nm2) ==
    /\ f \in FrameType(m) /\ f.dev = Len(dv) + 1 /\ f.at = 0 /\ f.fn = 0 /\ f.ok
    /\ r \in DeviceType(m) /\ r.class = ClassOfKind(f.kind) /\ r.hw = f.hw /\ r.st = "init"
    /\ r.nr = Cardinality(OfClass(dv, r.class))
    /\ f.kind \in {"bridge", "plain", "storage", "controller", "disk"}
    /\ f.kind \in {"bridge", "plain", "storage"} => f.hw \in DOMAIN m \ {0} /\ m[f.hw].class = f.kind
    /\ f.kind = "controller" => f.hw \in IdeControllers(m)
    /\ f.kind = "disk" => f.hw \in IdeControllers(m) \X (1..Drives) /\ DriveOf(m, f.hw) \notin NotThere
    /\ dv2 = Append(dv, r)
    /\ \E added : added = {<<r.class, r.nr>>} /\ nm2 = NamesWith(nm, added, Len(dv) + 1)

LEMMA PushOk ==
    ASSUME NEW m, NEW dv, NEW nm, NEW cs, TreeOk(m, dv, nm, cs, "none"), cs # <<>>,
           NEW f, NEW r, NEW dv2, NEW nm2, Registers(m, dv, nm, f, r, dv2, nm2), MadeBy(m, f, cs[1]),
           NEW cs2, cs2 = <<f>> \o cs
    PROVE  TreeOk(m, dv2, nm2, cs2, "none")
<1>f. /\ f \in FrameType(m) /\ f.dev = Len(dv) + 1 /\ f.at = 0 /\ f.fn = 0 /\ f.ok
      /\ r.class = ClassOfKind(f.kind) /\ r.hw = f.hw /\ r.st = "init"
      /\ f.kind \in {"bridge", "plain", "storage", "controller", "disk"}
  BY DEF Registers
<1>h. /\ f.kind \in {"bridge", "plain", "storage"} => f.hw \in DOMAIN m \ {0} /\ m[f.hw].class = f.kind
      /\ f.kind = "controller" => f.hw \in IdeControllers(m)
      /\ f.kind = "disk" => f.hw \in IdeControllers(m) \X (1..Drives) /\ DriveOf(m, f.hw) \notin NotThere
  BY DEF Registers
<1>r. r \in DeviceType(m) /\ r.nr = Cardinality(OfClass(dv, r.class)) /\ dv2 = Append(dv, r)  BY DEF Registers
<1>n. PICK added : added = {<<r.class, r.nr>>} /\ nm2 = NamesWith(nm, added, Len(dv) + 1)  BY DEF Registers
<1>1. cs \in Seq(FrameType(m))  BY DEF TreeOk, TreeTypes
<1>d. dv \in Seq(DeviceType(m)) /\ Numbered(dv)  BY DEF TreeOk, TreeTypes
<1>m. NamesOk(dv, nm) /\ \A n \in DOMAIN nm : n \in Seq(NamePart) /\ nm[n] \in DOMAIN dv
  BY DEF TreeOk, TreeTypes
<1>2. /\ dv2 \in Seq(DeviceType(m)) /\ Len(dv) \in Nat /\ Len(dv2) = Len(dv) + 1
      /\ DOMAIN dv = 1..Len(dv) /\ DOMAIN dv2 = 1..(Len(dv) + 1) /\ dv2[Len(dv) + 1] = r
      /\ \A d \in DOMAIN dv : dv2[d] = dv[d]
      /\ Numbered(dv2)
  <2>1. Grown(m, dv, r, dv2)  BY <1>d, <1>r, AddDevice
  <2> QED  BY <2>1 DEF Grown
<1>3. /\ \A n \in DOMAIN nm2 : n \in Seq(NamePart) /\ nm2[n] \in DOMAIN dv2
      /\ \A n \in DOMAIN nm : n \in DOMAIN nm2
      /\ NamesOk(dv2, nm2)
  <2>3. <<r.class, r.nr>> \in added /\ \A a \in added : a = <<r.class, r.nr>> \/ a = ConsoleName \/ NamesPartition(dv, dv2, a)
    BY <1>n
  <2>4. NamesGrown(dv2, nm, added, nm2)
    BY <1>d, <1>m, <1>n, <1>r, <2>3, AddNames
  <2> QED  BY <2>4 DEF NamesGrown
<1>4. LaterTree(dv, nm, dv2, nm2)  BY <1>2, <1>3 DEF LaterTree
<1>5. r.class # "block-partition" /\ r.class \in {"pci", "ata", "atactl"} /\ (r.class = "pci" <=> f.kind \in {"bridge", "plain", "storage"})
      /\ (r.class = "ata" <=> f.kind = "disk")
  BY <1>f DEF ClassOfKind
<1>6. \A d \in DOMAIN dv2 : DeviceSound(m, dv2, nm2, d)
  <2>1. \A d \in DOMAIN dv : DeviceSound(m, dv2, nm2, d)  BY <1>2, <1>4, LaterDevice DEF TreeOk
  <2>2. DeviceSound(m, dv2, nm2, Len(dv) + 1)
    <3>1. dv2[Len(dv) + 1] = r /\ r.st = "init" /\ r.hw = f.hw  BY <1>2, <1>f
    <3> QED  BY <1>5, <1>h, <3>1 DEF DeviceSound, Supported
  <2> QED  BY <1>2, <2>1, <2>2
<1>7. /\ cs2 \in Seq(FrameType(m)) /\ Len(cs) \in Nat /\ Len(cs2) = Len(cs) + 1 /\ cs2 # <<>> /\ cs2[1] = f
      /\ DOMAIN cs = 1..Len(cs) /\ DOMAIN cs2 = 1..(Len(cs) + 1)
      /\ \A i \in DOMAIN cs : cs2[i + 1] = cs[i]
      /\ \A i \in DOMAIN cs2 : i # 1 => i - 1 \in DOMAIN cs /\ cs2[i] = cs[i - 1]
  BY <1>1, <1>f, PushedCall
<1>8. CallsSound(m, dv2, nm2, cs2)
  <2>0. CallsSound(m, dv, nm, cs) /\ Len(cs) >= 1 /\ 1 \in DOMAIN cs
    <3>1. Len(cs) # 0  BY <1>1, EmptySeq
    <3> QED  BY <1>7, <3>1 DEF TreeOk
  <2>1. \A i \in DOMAIN cs : FrameSound(m, dv2, nm2, cs[i])
    <3> TAKE i \in DOMAIN cs
    <3>1. FrameSound(m, dv, nm, cs[i])  BY <2>0 DEF CallsSound
    <3>2. cs[i].dev = 0 \/ dv2[cs[i].dev].st = dv[cs[i].dev].st  BY <1>2, <3>1 DEF FrameSound
    <3>3. \A p \in DOMAIN dv2 : dv2[p].class = "block-partition" /\ p \notin DOMAIN dv => dv2[p].of # cs[i].dev \/ cs[i].at # 0
      <4>1. \A p \in DOMAIN dv2 : p \notin DOMAIN dv => p = Len(dv) + 1  BY <1>2
      <4> QED  BY <1>2, <1>5, <4>1
    <3> QED  BY <1>4, <3>1, <3>2, <3>3, LaterFrame
  <2>2. FrameSound(m, dv2, nm2, f)
    <3>1. f.dev \in DOMAIN dv2 /\ f.dev # 0 /\ dv2[f.dev] = r  BY <1>2, <1>f
    <3>2. f.kind = "controller" => UpToDrive(m, dv2, f.hw, 0)  BY DEF UpToDrive
    <3>3. f.kind = "disk" => BeforeEntry(m, dv2, nm2, f.dev, f.hw, 0)  BY DEF BeforeEntry
    <3>4. \A p \in DOMAIN dv2 : dv2[p].class = "block-partition" => dv2[p].of # f.dev
      <4> TAKE p \in DOMAIN dv2
      <4> HAVE dv2[p].class = "block-partition"
      <4>1. p \in DOMAIN dv  BY <1>2, <1>5
      <4>2. dv2[p].of \in DOMAIN dv  BY <1>2, <4>1 DEF TreeOk, DeviceSound
      <4> QED  BY <1>2, <1>f, <4>2
    <3> QED  BY <1>f, <1>h, <3>1, <3>2, <3>3, <3>4, TreeAssumption DEF FrameSound
  <2>3. \A i \in DOMAIN cs2 : FrameSound(m, dv2, nm2, cs2[i]) /\ (cs2[i].dev = 0 <=> i = Len(cs2))
    <3> TAKE i \in DOMAIN cs2
    <3>1. CASE i = 1  BY <1>2, <1>7, <1>f, <2>0, <2>2, <3>1
    <3>2. CASE i # 1
      <4>1. i - 1 \in DOMAIN cs /\ cs2[i] = cs[i - 1]  BY <1>7, <3>2
      <4>2. cs[i - 1].dev = 0 <=> i - 1 = Len(cs)  BY <2>0, <4>1 DEF CallsSound
      <4> QED  BY <1>7, <2>1, <4>1, <4>2
    <3> QED  BY <3>1, <3>2
  <2>4. ASSUME NEW i \in DOMAIN cs2, i + 1 \in DOMAIN cs2 PROVE MadeBy(m, cs2[i], cs2[i + 1])
    <3>1. CASE i = 1  BY <1>7, <2>0, <3>1
    <3>2. CASE i # 1
      <4>1. i - 1 \in DOMAIN cs /\ cs2[i] = cs[i - 1] /\ i \in DOMAIN cs /\ cs2[i + 1] = cs[i]  BY <1>7, <2>4, <3>2
      <4>2. (i - 1) + 1 = i  BY <1>7
      <4>3. MadeBy(m, cs[i - 1], cs[i])  BY <2>0, <4>1, <4>2 DEF CallsSound
      <4> QED  BY <4>1, <4>3
    <3> QED  BY <3>1, <3>2
  <2>5. \A i \in DOMAIN cs : cs[i].dev # Len(dv) + 1
    <3> TAKE i \in DOMAIN cs
    <3>1. FrameSound(m, dv, nm, cs[i])  BY <2>0 DEF CallsSound
    <3> QED  BY <1>2, <3>1 DEF FrameSound
  <2>6. ASSUME NEW i \in DOMAIN cs2, NEW j \in DOMAIN cs2, cs2[i].dev = cs2[j].dev PROVE i = j
    <3>1. CASE i = 1 \/ j = 1  BY <1>7, <1>f, <2>5, <2>6, <3>1
    <3>2. CASE i # 1 /\ j # 1
      <4>1. i - 1 \in DOMAIN cs /\ cs2[i] = cs[i - 1] /\ j - 1 \in DOMAIN cs /\ cs2[j] = cs[j - 1]  BY <1>7, <3>2
      <4>2. i - 1 = j - 1  BY <2>0, <2>6, <4>1 DEF CallsSound
      <4> QED  BY <1>7, <4>2
    <3> QED  BY <3>1, <3>2
  <2>7. ASSUME NEW d \in DOMAIN dv2, dv2[d].st = "init" PROVE \E i \in DOMAIN cs2 : cs2[i].dev = d
    <3>1. CASE d = Len(dv) + 1  BY <1>7, <1>f, <2>0, <3>1
    <3>2. CASE d # Len(dv) + 1
      <4>1. d \in DOMAIN dv /\ dv[d].st = "init"  BY <1>2, <2>7, <3>2
      <4>2. PICK i \in DOMAIN cs : cs[i].dev = d  BY <2>0, <4>1 DEF CallsSound
      <4>3. i + 1 \in DOMAIN cs2 /\ cs2[i + 1] = cs[i]  BY <1>7
      <4> QED  BY <4>2, <4>3
    <3> QED  BY <3>1, <3>2
  <2> QED  BY <2>3, <2>4, <2>6, <2>7 DEF CallsSound
<1>9. FailureKnown(dv2, cs2, "none")
  <2>1. SUFFICES ASSUME NEW d \in DOMAIN dv2, dv2[d].st = "deleted", dv2[d].class # "ata"
                 PROVE  \E i \in DOMAIN cs2 : cs2[i].kind = "bus" /\ ~cs2[i].ok
    BY DEF FailureKnown
  <2>2. d \in DOMAIN dv /\ dv[d].st = "deleted" /\ dv[d].class # "ata"  BY <1>2, <1>f, <2>1
  <2>3. PICK i \in DOMAIN cs : cs[i].kind = "bus" /\ ~cs[i].ok  BY <2>2 DEF TreeOk, FailureKnown
  <2>4. i + 1 \in DOMAIN cs2 /\ cs2[i + 1] = cs[i]  BY <1>7
  <2> QED  BY <2>3, <2>4
<1>10. AnswerSound(m, dv2, cs2, "none")  BY DEF AnswerSound
<1>11. TreeTypes(m, dv2, nm2, cs2, "none")  BY <1>2, <1>3, <1>7 DEF TreeTypes
<1> QED  BY <1>2, <1>3, <1>6, <1>8, <1>9, <1>10, <1>11 DEF TreeOk

\* What a call of init has done when it returns.
Finished(m, dv, f, an2) ==
    /\ an2 \in {"yes", "no"}
    /\ f.kind = "bus" => f.at = Slots /\ (an2 = "yes" => f.ok)
    /\ f.kind = "bus" /\ ~f.ok => an2 = "no"
    /\ f.kind = "bridge" /\ an2 = "yes" => m[f.hw].sub # "pci-to-pci"
    /\ f.kind = "plain" => an2 = "yes"
    /\ f.kind = "storage" /\ an2 = "yes" /\ f.hw \in IdeControllers(m) => UpToDrive(m, dv, f.hw, Drives)
    /\ f.kind = "controller" => an2 = "yes" /\ f.at = Drives
    /\ f.kind = "disk" => /\ an2 = IF DriveOf(m, f.hw) \in Failing THEN "no" ELSE "yes"
                          /\ an2 = "no" => f.at = 0
                          /\ an2 = "yes" => DriveOf(m, f.hw) \in {"blank", "table"}
                          /\ an2 = "yes" /\ DriveOf(m, f.hw) = "table" => f.at = Entries + 1

Ended(m, dv, d, an2, dv2) ==
    /\ dv2 \in Seq(DeviceType(m)) /\ DOMAIN dv2 = DOMAIN dv /\ Len(dv2) = Len(dv)
    /\ \A e \in DOMAIN dv : /\ dv2[e].class = dv[e].class /\ dv2[e].hw = dv[e].hw /\ dv2[e].of = dv[e].of
                            /\ dv2[e].nr = dv[e].nr
                            /\ e # d => dv2[e].st = dv[e].st
    /\ d # 0 => dv2[d].st = IF an2 = "yes" THEN "ok" ELSE "deleted"

LEMMA EndDevice ==
    ASSUME NEW m, NEW dv \in Seq(DeviceType(m)), NEW d, d # 0 => d \in DOMAIN dv, NEW an2 \in {"yes", "no"}, NEW dv2,
           dv2 = IF d = 0 THEN dv ELSE [dv EXCEPT ![d].st = IF an2 = "yes" THEN "ok" ELSE "deleted"]
    PROVE  Ended(m, dv, d, an2, dv2)
<1>1. Len(dv) \in Nat /\ DOMAIN dv = 1..Len(dv) /\ \A e \in DOMAIN dv : dv[e] \in DeviceType(m)
  BY LenProperties, ElementOfSeq
<1>2. CASE d = 0  BY <1>1, <1>2 DEF Ended
<1>3. CASE d # 0
  <2>1. PICK s : s = IF an2 = "yes" THEN "ok" ELSE "deleted"  OBVIOUS
  <2>2. s \in {"init", "ok", "deleted"} /\ dv2 = [dv EXCEPT ![d].st = s] /\ d \in DOMAIN dv  BY <1>3, <2>1
  <2>3. PICK r : r = [dv[d] EXCEPT !.st = s]  OBVIOUS
  <2>4. /\ r \in DeviceType(m) /\ r.st = s /\ r.class = dv[d].class /\ r.hw = dv[d].hw /\ r.of = dv[d].of /\ r.nr = dv[d].nr
    <3>1. dv[d] \in [class : Class, hw : Hardware(m), of : Nat, nr : Nat, st : {"init", "ok", "deleted"}]
      BY <1>1, <2>2 DEF DeviceType
    <3> QED  BY <2>2, <2>3, <3>1 DEF DeviceType
  <2>5. dv2 = [dv EXCEPT ![d] = r]  BY <2>2, <2>3
  <2>6. dv2 \in Seq(DeviceType(m)) /\ Len(dv2) = Len(dv) /\ DOMAIN dv2 = DOMAIN dv
    BY <1>1, <2>2, <2>4, <2>5, ExceptSeq
  <2>7. dv2[d] = r /\ \A e \in DOMAIN dv : e # d => dv2[e] = dv[e]  BY <2>2, <2>5
  <2> QED  BY <1>3, <2>1, <2>4, <2>6, <2>7 DEF Ended
<1> QED  BY <1>2, <1>3

LEMMA EndedFacts ==
    ASSUME NEW m, NEW dv, NEW d, NEW an2, NEW dv2, Ended(m, dv, d, an2, dv2), Numbered(dv), NEW nm,
           d # 0 => d \in DOMAIN dv /\ dv[d].st = "init"
    PROVE  Numbered(dv2) /\ LaterTree(dv, nm, dv2, nm)
<1>1. \A c : OfClass(dv2, c) = OfClass(dv, c)  BY DEF Ended, OfClass
<1>2. Numbered(dv2)
  <2>1. \A e \in DOMAIN dv2 : dv2[e].nr < Cardinality(OfClass(dv2, dv2[e].class))  BY <1>1 DEF Ended, Numbered
  <2>2. \A e, g \in DOMAIN dv2 : dv2[e].class = dv2[g].class /\ dv2[e].nr = dv2[g].nr => e = g  BY DEF Ended, Numbered
  <2> QED  BY <2>1, <2>2 DEF Numbered
<1>3. LaterTree(dv, nm, dv2, nm)  BY DEF Ended, LaterTree
<1> QED  BY <1>2, <1>3

\* A call of init returns, and its device is ready or deleted.
LEMMA PopOk ==
    ASSUME NEW m, IsMachine(m), NEW dv, NEW nm, NEW cs, NEW an, TreeOk(m, dv, nm, cs, an), cs # <<>>,
           an = "none" \/ cs[1].kind # "bus", NEW an2, Finished(m, dv, cs[1], an2),
           NEW dv2, Ended(m, dv, cs[1].dev, an2, dv2), NEW cs2, cs2 = Tail(cs)
    PROVE  TreeOk(m, dv2, nm, cs2, an2)
<1> DEFINE f == cs[1]
<1>1. cs \in Seq(FrameType(m)) /\ dv \in Seq(DeviceType(m)) /\ CallsSound(m, dv, nm, cs) /\ Numbered(dv)
      /\ NamesOk(dv, nm) /\ an2 \in {"yes", "no"}
  BY DEF TreeOk, TreeTypes, Finished
<1>2. /\ cs2 \in Seq(FrameType(m)) /\ Len(cs) \in Nat /\ Len(cs) >= 1 /\ Len(cs2) = Len(cs) - 1
      /\ f \in FrameType(m)
      /\ DOMAIN cs = 1..Len(cs) /\ DOMAIN cs2 = 1..(Len(cs) - 1)
      /\ \A i \in DOMAIN cs2 : cs2[i] = cs[i + 1] /\ i + 1 \in DOMAIN cs
      /\ \A i \in DOMAIN cs : i # 1 => i - 1 \in DOMAIN cs2
  BY <1>1, PoppedCall
<1>3. 1 \in DOMAIN cs /\ FrameSound(m, dv, nm, f) /\ (f.dev = 0 <=> 1 = Len(cs))  BY <1>1, <1>2 DEF CallsSound
<1>4. f.dev # 0 => /\ f.dev \in DOMAIN dv /\ dv[f.dev].hw = f.hw /\ dv[f.dev].st = "init"
                   /\ dv[f.dev].class = ClassOfKind(f.kind)
  BY <1>3 DEF FrameSound
<1>5. Numbered(dv2) /\ LaterTree(dv, nm, dv2, nm)  BY <1>1, <1>4, EndedFacts
<1>z. \A d \in DOMAIN dv : d # 0
  <2>1. Len(dv) \in Nat /\ DOMAIN dv = 1..Len(dv)  BY <1>1, LenProperties
  <2> QED  BY <2>1
<1>x. \A n \in Buses(m) : \A x \in DOMAIN m[n].bus : x[1] \in Nat /\ x[2] \in Nat
  <2>1. \A n \in Buses(m) : \A x \in DOMAIN m[n].bus : x \in (0..(Slots - 1)) \X (0..(Funcs - 1))  BY DEF IsMachine
  <2> QED  BY <2>1, TreeAssumption
<1>l. /\ \A n, at : UpToDrive(m, dv, n, at) => UpToDrive(m, dv2, n, at)
      /\ \A n, at, fn : BeforeSlot(m, dv, n, at, fn) => BeforeSlot(m, dv2, n, at, fn)
      /\ \A d \in DOMAIN dv : \A h, at : BeforeEntry(m, dv, nm, d, h, at) => BeforeEntry(m, dv2, nm, d, h, at)
  <2>1. PICK nm2 : nm2 = nm  OBVIOUS
  <2>2. LaterTree(dv, nm, dv2, nm2)  BY <1>5, <2>1
  <2>3. /\ \A n, at : UpToDrive(m, dv, n, at) => UpToDrive(m, dv2, n, at)
        /\ \A n, at, fn : BeforeSlot(m, dv, n, at, fn) => BeforeSlot(m, dv2, n, at, fn)
        /\ \A d \in DOMAIN dv : \A h, at : BeforeEntry(m, dv, nm, d, h, at) => BeforeEntry(m, dv2, nm2, d, h, at)
    BY <2>2, LaterDone
  <2> QED  BY <2>1, <2>3
<1>6. /\ DOMAIN dv2 = DOMAIN dv
      /\ \A e \in DOMAIN dv : /\ dv2[e].class = dv[e].class /\ dv2[e].hw = dv[e].hw /\ dv2[e].of = dv[e].of
                              /\ dv2[e].nr = dv[e].nr
                              /\ e # f.dev => dv2[e].st = dv[e].st
      /\ f.dev # 0 => dv2[f.dev].st = IF an2 = "yes" THEN "ok" ELSE "deleted"
      /\ dv2 \in Seq(DeviceType(m))
  BY DEF Ended
<1>k. f.kind \in Kinds /\ f.at \in Nat /\ f.fn \in Nat  BY <1>2 DEF FrameType
<1>c. /\ ClassOfKind(f.kind) \in {"pci", "ata", "atactl"} /\ (ClassOfKind(f.kind) = "ata" <=> f.kind = "disk")
      /\ (ClassOfKind(f.kind) = "pci" <=> f.kind \in {"bus", "bridge", "plain", "storage"})
  BY <1>k DEF ClassOfKind, Kinds
<1>7. NamesOk(dv2, nm)
  <2>1. \A d \in DOMAIN dv : NameIn(dv2, d) = NameIn(dv, d)  BY <1>6 DEF NameIn
  <2>2. \A d \in DOMAIN dv2 : NameIn(dv2, d) \in DOMAIN nm /\ nm[NameIn(dv2, d)] = d
    BY <1>1, <1>6, <2>1 DEF NamesOk
  <2>3. ASSUME NEW n \in DOMAIN nm, Len(n) = 3
        PROVE  \E d \in DOMAIN dv2 : \E k \in Nat \ {0} : n = Append(NameIn(dv2, d), k - 1) /\ PartitionOf(dv2, d, k, nm[n])
    <3>1. PICK d \in DOMAIN dv, k \in Nat \ {0} : n = Append(NameIn(dv, d), k - 1) /\ PartitionOf(dv, d, k, nm[n])
      BY <1>1, <2>3 DEF NamesOk
    <3>2. PICK p : p = nm[n]  OBVIOUS
    <3>3. p \in DOMAIN dv  BY <3>2 DEF TreeOk, TreeTypes
    <3>4. p # f.dev  BY <1>4, <1>c, <1>z, <3>1, <3>2, <3>3 DEF PartitionOf
    <3>5. d = f.dev => an2 = "yes"
      <4>1. SUFFICES ASSUME d = f.dev, an2 = "no" PROVE FALSE  BY <1>1
      <4>2. f.dev # 0  BY <1>z, <4>1
      <4>3. f.kind = "disk"  BY <1>4, <1>c, <3>1, <4>1, <4>2 DEF PartitionOf
      <4>4. f.at = 0  BY <4>1, <4>3 DEF Finished
      <4> QED  BY <1>3, <3>1, <3>2, <3>3, <4>1, <4>3, <4>4 DEF FrameSound, PartitionOf
    <3>6. PartitionOf(dv2, d, k, p)  BY <1>6, <3>1, <3>2, <3>3, <3>4, <3>5 DEF PartitionOf
    <3> QED  BY <1>6, <2>1, <3>1, <3>2, <3>6
  <2> QED  BY <2>2, <2>3 DEF NamesOk
<1>8. \A d \in DOMAIN dv2 : DeviceSound(m, dv2, nm, d)
  <2> TAKE d \in DOMAIN dv2
  <2>0. DeviceSound(m, dv, nm, d) /\ d \in DOMAIN dv  BY <1>6 DEF TreeOk
  <2>1. CASE d # f.dev  BY <1>5, <1>6, <2>0, <2>1, LaterDevice
  <2>2. CASE d = f.dev
    <3>0. d # 0  BY <1>z, <2>0
    <3>1. /\ dv2[d].class = ClassOfKind(f.kind) /\ dv2[d].hw = f.hw
          /\ dv2[d].st = IF an2 = "yes" THEN "ok" ELSE "deleted"
      BY <1>4, <1>6, <2>0, <2>2, <3>0
    <3>2. dv2[d].class = "pci" => f.hw \in DOMAIN m \ {0} /\ m[f.hw].class \in Supported
      BY <1>4, <2>0, <2>2, <3>0, <3>1 DEF DeviceSound
    <3>3. ASSUME dv2[d].class = "pci", an2 = "yes", m[f.hw].class = "bridge", m[f.hw].sub = "pci-to-pci"
          PROVE  f.hw \in Buses(m) /\ BeforeSlot(m, dv2, f.hw, Slots, 0)
      <4>1. f.kind = "bus"
        <5>1. f.kind \in {"bus", "bridge", "plain", "storage"}  BY <1>c, <3>1, <3>3
        <5>2. f.kind # "bridge"  BY <3>3 DEF Finished
        <5>3. f.kind \notin {"plain", "storage"}  BY <1>3, <3>3 DEF FrameSound
        <5> QED  BY <5>1, <5>2, <5>3
      <4>2. f.hw \in Buses(m) /\ BeforeSlot(m, dv, f.hw, Slots, f.fn)  BY <1>3, <3>3, <4>1 DEF FrameSound, Finished
      <4>3. BeforeSlot(m, dv2, f.hw, Slots, f.fn)  BY <1>l, <4>2
      <4> QED  BY <1>k, <1>x, <4>2, <4>3, TreeAssumption DEF BeforeSlot
    <3>4. ASSUME dv2[d].class = "pci", an2 = "yes", f.hw \in IdeControllers(m)
          PROVE  UpToDrive(m, dv2, f.hw, Drives)
      <4>1. f.kind = "storage"
        <5>1. f.kind \in {"bus", "bridge", "plain", "storage"}  BY <1>c, <3>1, <3>4
        <5>2. f.kind \notin {"plain", "bridge"}  BY <1>3, <3>4 DEF FrameSound, IdeControllers
        <5>3. f.kind # "bus"  BY <1>3, <3>1, <3>2, <3>4 DEF FrameSound, IdeControllers, Buses
        <5> QED  BY <5>1, <5>2, <5>3
      <4>2. UpToDrive(m, dv, f.hw, Drives)  BY <3>4, <4>1 DEF Finished
      <4> QED  BY <1>l, <4>2
    <3>5. ASSUME dv2[d].class = "ata"
          PROVE  /\ f.hw \in IdeControllers(m) \X (1..Drives) /\ DriveOf(m, f.hw) \notin NotThere
                 /\ dv2[d].st = "ok" => /\ DriveOf(m, f.hw) \in {"blank", "table"}
                                        /\ DriveOf(m, f.hw) = "table" => BeforeEntry(m, dv2, nm, d, f.hw, Entries + 1)
      <4>1. f.kind = "disk"  BY <1>c, <3>1, <3>5
      <4>2. BeforeEntry(m, dv2, nm, d, f.hw, f.at)  BY <1>3, <1>l, <2>0, <2>2, <4>1 DEF FrameSound
      <4>3. dv2[d].st = "ok" => an2 = "yes"  BY <3>1, <1>1
      <4> QED  BY <1>3, <4>1, <4>2, <4>3 DEF FrameSound, Finished
    <3>6. dv2[d].class \in {"pci", "ata", "atactl"} /\ (dv2[d].st = "ok" => an2 = "yes")  BY <1>1, <1>c, <3>1
    <3> QED  BY <3>1, <3>2, <3>3, <3>4, <3>5, <3>6 DEF DeviceSound
  <2> QED  BY <2>1, <2>2
<1>9. CallsSound(m, dv2, nm, cs2)
  <2>1. \A i \in DOMAIN cs2 : cs2[i].dev # f.dev
    <3> TAKE i \in DOMAIN cs2
    <3>1. i + 1 # 1 /\ i + 1 \in DOMAIN cs /\ cs2[i] = cs[i + 1]  BY <1>2
    <3> QED  BY <1>1, <1>3, <3>1 DEF CallsSound
  <2>2. ASSUME NEW i \in DOMAIN cs2 PROVE FrameSound(m, dv2, nm, cs2[i]) /\ (cs2[i].dev = 0 <=> i = Len(cs2))
    <3>1. i + 1 \in DOMAIN cs /\ cs2[i] = cs[i + 1] /\ (i + 1 = Len(cs) <=> i = Len(cs2))  BY <1>2
    <3>2. FrameSound(m, dv, nm, cs2[i]) /\ (cs2[i].dev = 0 <=> i + 1 = Len(cs))  BY <1>1, <3>1 DEF CallsSound
    <3>3. cs2[i].dev = 0 \/ dv2[cs2[i].dev].st = dv[cs2[i].dev].st  BY <1>6, <2>1, <3>2 DEF FrameSound
    <3>4. FrameSound(m, dv2, nm, cs2[i])  BY <1>5, <1>6, <3>2, <3>3, LaterFrame
    <3> QED  BY <3>1, <3>2, <3>4
  <2>3. ASSUME NEW i \in DOMAIN cs2, i + 1 \in DOMAIN cs2 PROVE MadeBy(m, cs2[i], cs2[i + 1])
    <3>1. i + 1 \in DOMAIN cs /\ cs2[i] = cs[i + 1] /\ (i + 1) + 1 \in DOMAIN cs /\ cs2[i + 1] = cs[(i + 1) + 1]
      BY <1>2, <2>3
    <3> QED  BY <1>1, <3>1 DEF CallsSound
  <2>4. ASSUME NEW i \in DOMAIN cs2, NEW j \in DOMAIN cs2, cs2[i].dev = cs2[j].dev PROVE i = j
    <3>1. i + 1 \in DOMAIN cs /\ cs2[i] = cs[i + 1] /\ j + 1 \in DOMAIN cs /\ cs2[j] = cs[j + 1]  BY <1>2
    <3>2. i + 1 = j + 1  BY <1>1, <2>4, <3>1 DEF CallsSound
    <3> QED  BY <1>2, <3>2
  <2>5. ASSUME NEW d \in DOMAIN dv2, dv2[d].st = "init" PROVE \E i \in DOMAIN cs2 : cs2[i].dev = d
    <3>1. d \in DOMAIN dv /\ d # f.dev  BY <1>6, <1>z, <2>5
    <3>2. PICK i \in DOMAIN cs : cs[i].dev = d  BY <1>1, <1>6, <2>5, <3>1 DEF CallsSound
    <3>3. i # 1 /\ i - 1 \in DOMAIN cs2 /\ cs2[i - 1] = cs[(i - 1) + 1] /\ (i - 1) + 1 = i  BY <1>2, <3>1, <3>2
    <3> QED  BY <3>2, <3>3
  <2> QED  BY <2>2, <2>3, <2>4, <2>5 DEF CallsSound
<1>10. AnswerSound(m, dv2, cs2, an2)
  <2>1. ASSUME cs2 = <<>>, an2 = "yes" PROVE BeforeSlot(m, dv2, 0, Slots, 0)
    <3>1. f.dev = 0
      <4>1. Len(cs2) = 0  BY <1>2, <2>1, EmptySeq
      <4> QED  BY <1>2, <1>3, <4>1
    <3>2. f.kind = "bus" /\ f.hw = 0 /\ f.at = Slots /\ f.ok  BY <1>3, <2>1, <3>1 DEF FrameSound, Finished
    <3>3. BeforeSlot(m, dv, 0, Slots, f.fn) /\ 0 \in Buses(m)  BY <1>3, <3>2 DEF FrameSound
    <3>4. BeforeSlot(m, dv2, 0, Slots, f.fn)  BY <1>l, <3>3
    <3> QED  BY <1>k, <1>x, <3>3, <3>4, TreeAssumption DEF BeforeSlot
  <2>2. ASSUME cs2 # <<>>
        PROVE  LET g == cs2[1] IN
               /\ g.kind \in {"bus", "storage", "controller"}
               /\ g.kind = "bus" => AtFunction(m, g) /\ (an2 = "yes" => PciDone(dv2, m[g.hw].bus[<<g.at, g.fn>>]))
               /\ g.kind = "storage" => g.hw \in IdeControllers(m) /\ UpToDrive(m, dv2, g.hw, Drives)
               /\ g.kind = "controller" => g.at < Drives /\ DiskDone(m, dv2, <<g.hw, g.at + 1>>)
    <3>1. Len(cs) # 1 /\ 1 \in DOMAIN cs2 /\ cs2[1] = cs[2] /\ 1 + 1 \in DOMAIN cs /\ cs[1 + 1] = cs[2]
      <4>1. Len(cs2) # 0  BY <1>2, <2>2, EmptySeq
      <4> QED  BY <1>2, <4>1
    <3>2. MadeBy(m, f, cs[2]) /\ f.dev # 0  BY <1>1, <1>3, <3>1 DEF CallsSound
    <3>3. PICK g, x, y : g = cs2[1] /\ x = m[g.hw].bus[<<g.at, g.fn>>] /\ y = <<g.hw, g.at + 1>>  OBVIOUS
    <3>4. CASE f.kind \in {"bus", "bridge", "plain", "storage"}
      <4>1. g.kind = "bus" /\ AtFunction(m, g) /\ f.hw = x  BY <3>1, <3>2, <3>3, <3>4 DEF MadeBy
      <4>2. an2 = "yes" => PciDone(dv2, x)
        <5>1. f.dev \in DOMAIN dv2 /\ dv2[f.dev].class = "pci" /\ dv2[f.dev].hw = x  BY <1>4, <1>6, <1>c, <3>2, <3>4, <4>1
        <5> QED  BY <1>6, <3>2, <5>1 DEF PciDone
      <4> QED  BY <3>3, <4>1, <4>2
    <3>5. CASE f.kind = "controller"
      <4>1. g.kind = "storage" /\ g.hw = f.hw  BY <3>1, <3>2, <3>3, <3>5 DEF MadeBy
      <4>2. f.hw \in IdeControllers(m) /\ UpToDrive(m, dv, f.hw, Drives)  BY <1>3, <3>5 DEF FrameSound, Finished
      <4>3. UpToDrive(m, dv2, f.hw, Drives)  BY <1>l, <4>2
      <4> QED  BY <3>3, <4>1, <4>2, <4>3
    <3>6. CASE f.kind = "disk"
      <4>1. g.kind = "controller" /\ g.at < Drives /\ f.hw = y  BY <3>1, <3>2, <3>3, <3>6 DEF MadeBy
      <4>2. DiskDone(m, dv2, y)
        <5>1. f.dev \in DOMAIN dv2 /\ dv2[f.dev].class = "ata" /\ dv2[f.dev].hw = y  BY <1>4, <1>6, <1>c, <3>2, <3>6, <4>1
        <5>2. dv2[f.dev].st = IF DriveOf(m, y) \in Failing THEN "deleted" ELSE "ok"
          BY <1>6, <3>2, <3>6, <4>1 DEF Finished
        <5> QED  BY <5>1, <5>2 DEF DiskDone
      <4> QED  BY <3>3, <4>1, <4>2
    <3> QED  BY <1>k, <3>4, <3>5, <3>6 DEF Kinds
  <2> QED  BY <2>1, <2>2 DEF AnswerSound
<1>11. FailureKnown(dv2, cs2, an2)
  <2>1. SUFFICES ASSUME NEW e \in DOMAIN dv2, dv2[e].st = "deleted", dv2[e].class # "ata"
                 PROVE  \/ \E i \in DOMAIN cs2 : cs2[i].kind = "bus" /\ ~cs2[i].ok
                        \/ an2 = "no" /\ (cs2 = <<>> \/ cs2[1].kind = "bus")
    BY DEF FailureKnown
  <2>2. f.kind \in {"bus", "bridge", "plain", "storage"} => cs2 = <<>> \/ cs2[1].kind = "bus"
    <3>1. SUFFICES ASSUME f.kind \in {"bus", "bridge", "plain", "storage"}, cs2 # <<>> PROVE cs2[1].kind = "bus"  OBVIOUS
    <3>2. 1 \in DOMAIN cs2 /\ cs2[1] = cs[1 + 1] /\ 1 + 1 \in DOMAIN cs
      <4>1. Len(cs2) # 0  BY <1>2, <3>1, EmptySeq
      <4> QED  BY <1>2, <4>1
    <3> QED  BY <1>1, <1>3, <3>1, <3>2 DEF CallsSound, MadeBy
  <2>3. CASE e = f.dev
    <3>1. f.dev # 0  BY <1>6, <1>z, <2>3
    <3>2. an2 = "no"  BY <1>1, <1>6, <2>1, <2>3, <3>1
    <3>3. f.kind \notin {"controller", "disk"}  BY <1>4, <1>6, <1>c, <2>1, <2>3, <3>1, <3>2 DEF Finished
    <3> QED  BY <1>k, <2>2, <3>2, <3>3 DEF Kinds
  <2>4. CASE e # f.dev
    <3>1. e \in DOMAIN dv /\ dv[e].st = "deleted" /\ dv[e].class # "ata"  BY <1>6, <2>1, <2>4
    <3>2. PICK i \in DOMAIN cs : cs[i].kind = "bus" /\ ~cs[i].ok
      <4>1. FailureKnown(dv, cs, an)  BY DEF TreeOk
      <4> QED  BY <3>1, <4>1 DEF FailureKnown
    <3>3. CASE i = 1  BY <2>2, <3>2, <3>3 DEF Finished
    <3>4. CASE i # 1
      <4>1. i - 1 \in DOMAIN cs2 /\ cs2[i - 1] = cs[(i - 1) + 1] /\ (i - 1) + 1 = i  BY <1>2, <3>4
      <4> QED  BY <3>2, <4>1
    <3> QED  BY <3>3, <3>4
  <2> QED  BY <2>3, <2>4
<1>12. TreeTypes(m, dv2, nm, cs2, an2)  BY <1>1, <1>2, <1>6 DEF TreeTypes, TreeOk
<1> QED  BY <1>5, <1>7, <1>8, <1>9, <1>10, <1>11, <1>12 DEF TreeOk

\* A device is registered whose init cannot fail.
AddsPlain(m, dv, nm, r, added, dv2, nm2) ==
    /\ r \in DeviceType(m) /\ r.st = "ok" /\ r.class \notin {"pci", "ata", "atactl"}
    /\ r.nr = Cardinality(OfClass(dv, r.class)) /\ dv2 = Append(dv, r)
    /\ <<r.class, r.nr>> \in added
    /\ \A a \in added : a = <<r.class, r.nr>> \/ a = ConsoleName \/ NamesPartition(dv, dv2, a)
    /\ nm2 = NamesWith(nm, added, Len(dv) + 1)
\* A partition is of a disk whose call of init has come to the table.
PartitionFits(m, dv, r, cs) ==
    r.class = "block-partition" =>
        /\ r.of \in DOMAIN dv /\ dv[r.of].class = "ata"
        /\ \E k \in 1..Entries : r.hw = <<dv[r.of].hw, k>> /\ EntryOf(m, dv[r.of].hw, k) # 0
        /\ \A i \in DOMAIN cs : r.of # cs[i].dev \/ cs[i].at # 0

EntriesStay(m, dv, nm, dv2, nm2) ==
    \A d \in DOMAIN dv : \A h, at : BeforeEntry(m, dv, nm, d, h, at) => BeforeEntry(m, dv2, nm2, d, h, at)

PlainAdded(m, dv, nm, cs, an, r, added, dv2, nm2) ==
    /\ TreeOk(m, dv2, nm2, cs, an) /\ Grown(m, dv, r, dv2) /\ DOMAIN nm2 = added \cup DOMAIN nm
    /\ EntriesStay(m, dv, nm, dv2, nm2)

LEMMA PlainOk ==
    ASSUME NEW m, NEW dv, NEW nm, NEW cs, NEW an, TreeOk(m, dv, nm, cs, an),
           NEW r, NEW added, NEW dv2, NEW nm2, AddsPlain(m, dv, nm, r, added, dv2, nm2), PartitionFits(m, dv, r, cs)
    PROVE  PlainAdded(m, dv, nm, cs, an, r, added, dv2, nm2)
<1>r. r \in DeviceType(m) /\ r.st = "ok" /\ r.class \notin {"pci", "ata", "atactl"}
  BY DEF AddsPlain
<1>a. r.nr = Cardinality(OfClass(dv, r.class)) /\ dv2 = Append(dv, r) /\ nm2 = NamesWith(nm, added, Len(dv) + 1)
  BY DEF AddsPlain
<1>n. <<r.class, r.nr>> \in added /\ \A a \in added : a = <<r.class, r.nr>> \/ a = ConsoleName \/ NamesPartition(dv, dv2, a)
  BY DEF AddsPlain
<1>d. dv \in Seq(DeviceType(m)) /\ Numbered(dv)  BY DEF TreeOk, TreeTypes
<1>m. NamesOk(dv, nm) /\ \A n \in DOMAIN nm : n \in Seq(NamePart) /\ nm[n] \in DOMAIN dv
  BY DEF TreeOk, TreeTypes
<1>g. Grown(m, dv, r, dv2)  BY <1>a, <1>d, <1>r, AddDevice
<1>2. /\ dv2 \in Seq(DeviceType(m)) /\ Len(dv) \in Nat /\ Len(dv2) = Len(dv) + 1
      /\ DOMAIN dv = 1..Len(dv) /\ DOMAIN dv2 = 1..(Len(dv) + 1) /\ dv2[Len(dv) + 1] = r
      /\ \A d \in DOMAIN dv : dv2[d] = dv[d]
      /\ Numbered(dv2)
  BY <1>g DEF Grown
<1>3. /\ \A n \in DOMAIN nm2 : n \in Seq(NamePart) /\ nm2[n] \in DOMAIN dv2
      /\ DOMAIN nm2 = added \cup DOMAIN nm
      /\ NamesOk(dv2, nm2)
  <2>1. NamesGrown(dv2, nm, added, nm2)  BY <1>a, <1>d, <1>m, <1>n, <1>r, AddNames
  <2> QED  BY <2>1 DEF NamesGrown
<1>4. LaterTree(dv, nm, dv2, nm2)  BY <1>2, <1>3 DEF LaterTree
<1>5. \A d \in DOMAIN dv2 : DeviceSound(m, dv2, nm2, d)
  <2>1. \A d \in DOMAIN dv : DeviceSound(m, dv2, nm2, d)  BY <1>2, <1>4, LaterDevice DEF TreeOk
  <2>2. DeviceSound(m, dv2, nm2, Len(dv) + 1)
    <3>1. dv2[Len(dv) + 1] = r  BY <1>2
    <3>2. ASSUME r.class = "block-partition"
          PROVE  /\ r.of \in DOMAIN dv2 /\ dv2[r.of].class = "ata"
                 /\ \E k \in 1..Entries : r.hw = <<dv2[r.of].hw, k>> /\ EntryOf(m, dv2[r.of].hw, k) # 0
      BY <1>2, <3>2 DEF PartitionFits
    <3> QED  BY <1>r, <3>1, <3>2 DEF DeviceSound
  <2> QED  BY <1>2, <2>1, <2>2
<1>6. CallsSound(m, dv2, nm2, cs)
  <2>0. CallsSound(m, dv, nm, cs)  BY DEF TreeOk
  <2>1. ASSUME NEW i \in DOMAIN cs PROVE FrameSound(m, dv2, nm2, cs[i])
    <3>1. FrameSound(m, dv, nm, cs[i])  BY <2>0 DEF CallsSound
    <3>2. cs[i].dev = 0 \/ dv2[cs[i].dev].st = dv[cs[i].dev].st  BY <1>2, <3>1 DEF FrameSound
    <3>3. \A p \in DOMAIN dv2 : dv2[p].class = "block-partition" /\ p \notin DOMAIN dv => dv2[p].of # cs[i].dev \/ cs[i].at # 0
      <4>1. \A p \in DOMAIN dv2 : p \notin DOMAIN dv => dv2[p] = r  BY <1>2
      <4> QED  BY <4>1 DEF PartitionFits
    <3> QED  BY <1>4, <3>1, <3>2, <3>3, LaterFrame
  <2>2. \A d \in DOMAIN dv2 : dv2[d].st = "init" => \E i \in DOMAIN cs : cs[i].dev = d
    BY <1>2, <1>r, <2>0 DEF CallsSound
  <2> QED  BY <2>0, <2>1, <2>2 DEF CallsSound
<1>7. AnswerSound(m, dv2, cs, an)  BY <1>4, LaterAnswer DEF TreeOk
<1>8. FailureKnown(dv2, cs, an)
  <2>1. FailureKnown(dv, cs, an)  BY DEF TreeOk
  <2>2. \A d \in DOMAIN dv2 : dv2[d].st = "deleted" => d \in DOMAIN dv /\ dv2[d] = dv[d]  BY <1>2, <1>r
  <2> QED  BY <2>1, <2>2 DEF FailureKnown
<1>9. TreeTypes(m, dv2, nm2, cs, an)  BY <1>2, <1>3 DEF TreeTypes, TreeOk
<1>10. EntriesStay(m, dv, nm, dv2, nm2)  BY <1>4, LaterDone DEF EntriesStay
<1> QED  BY <1>2, <1>3, <1>5, <1>6, <1>7, <1>8, <1>9, <1>10, <1>g DEF TreeOk, PlainAdded

\* The function a bus is at has been dealt with, if it is there.
HereDone(m, dv, c) ==
    <<c.at, c.fn>> \in DOMAIN m[c.hw].bus /\ m[m[c.hw].bus[<<c.at, c.fn>>]].class \in Supported =>
        PciDone(dv, m[c.hw].bus[<<c.at, c.fn>>])
SlotsConform(m) ==
    \A n \in Buses(m) : \A x \in DOMAIN m[n].bus :
        x[2] # 0 /\ <<x[1], 0>> \in DOMAIN m[n].bus => m[m[n].bus[<<x[1], 0>>]].multi
MultiAt(m, c) == <<c.at, 0>> \in DOMAIN m[c.hw].bus => m[m[c.hw].bus[<<c.at, 0>>]].multi

FrameAfter(m, c) ==
    IF MultiAt(m, c) /\ c.fn < Funcs - 1 THEN [c EXCEPT !.fn = @ + 1] ELSE [c EXCEPT !.at = @ + 1, !.fn = 0]

LEMMA BusGoesOn ==
    ASSUME NEW m, IsMachine(m), SlotsConform(m), NEW dv, NEW nm, NEW c \in FrameType(m), FrameSound(m, dv, nm, c),
           c.kind = "bus", c.at < Slots, c.ok => HereDone(m, dv, c),
           NEW c2, c2 = FrameAfter(m, c)
    PROVE  c2 \in FrameType(m) /\ FrameSound(m, dv, nm, c2) /\ c2.kind = "bus" /\ c2.hw = c.hw /\ c2.dev = c.dev /\ c2.ok = c.ok
<1>1. c \in [kind : Kinds, hw : Hardware(m), dev : Nat, at : Nat, fn : Nat, ok : BOOLEAN]  BY DEF FrameType
<1>2. c.at \in Nat /\ c.fn \in Nat /\ c.hw \in Buses(m) /\ c.fn < Funcs /\ Slots \in Nat /\ Funcs \in Nat \ {0}
  BY <1>1, TreeAssumption DEF FrameSound
<1>3. c2 \in FrameType(m) /\ c2.kind = "bus" /\ c2.hw = c.hw /\ c2.dev = c.dev /\ c2.ok = c.ok
      /\ c2.at = (IF MultiAt(m, c) /\ c.fn < Funcs - 1 THEN c.at ELSE c.at + 1)
      /\ c2.fn = IF MultiAt(m, c) /\ c.fn < Funcs - 1 THEN c.fn + 1 ELSE 0
  <2>1. PICK b \in BOOLEAN : b = (MultiAt(m, c) /\ c.fn < Funcs - 1)  OBVIOUS
  <2>2. CASE b
    <3>1. c2 = [c EXCEPT !.fn = @ + 1]  BY <2>1, <2>2, Zenon DEF FrameAfter
    <3>2. PICK j \in Nat : j = c.fn + 1  BY <1>2
    <3>3. c2 = [c EXCEPT !.fn = j]  BY <3>1, <3>2
    <3> QED  BY <1>1, <2>1, <2>2, <3>2, <3>3 DEF FrameType
  <2>3. CASE ~b
    <3>1. c2 = [c EXCEPT !.at = @ + 1, !.fn = 0]  BY <2>1, <2>3, Zenon DEF FrameAfter
    <3>2. PICK j \in Nat : j = c.at + 1  BY <1>2
    <3>3. c2 = [c EXCEPT !.at = j, !.fn = 0]  BY <3>1, <3>2
    <3>4. c2 \in FrameType(m) /\ c2.kind = c.kind /\ c2.hw = c.hw /\ c2.dev = c.dev /\ c2.ok = c.ok /\ c2.at = j /\ c2.fn = 0
      <4>1. PICK c3 : c3 = [c EXCEPT !.at = j]  OBVIOUS
      <4>2. /\ c3 \in [kind : Kinds, hw : Hardware(m), dev : Nat, at : Nat, fn : Nat, ok : BOOLEAN]
            /\ c3.kind = c.kind /\ c3.hw = c.hw /\ c3.dev = c.dev /\ c3.ok = c.ok /\ c3.at = j
        BY <1>1, <4>1
      <4>3. c2 = [c3 EXCEPT !.fn = 0]  BY <3>3, <4>1, Zenon
      <4>4. c2 \in FrameType(m) /\ c2.kind = c3.kind /\ c2.hw = c3.hw /\ c2.dev = c3.dev /\ c2.ok = c3.ok /\ c2.at = c3.at /\ c2.fn = 0
        BY <4>2, <4>3 DEF FrameType
      <4> QED  BY <4>2, <4>4
    <3>5. c2.at = c.at + 1  BY <3>2, <3>4
    <3> QED  BY <2>1, <2>3, <3>4, <3>5
  <2> QED  BY <2>2, <2>3
<1>4. ASSUME c.ok, NEW x \in DOMAIN m[c.hw].bus, x[1] < c2.at \/ (x[1] = c2.at /\ x[2] < c2.fn),
             m[m[c.hw].bus[x]].class \in Supported
      PROVE  PciDone(dv, m[c.hw].bus[x])
  <2>1. x \in (0..(Slots - 1)) \X (0..(Funcs - 1))  BY <1>2 DEF IsMachine
  <2>2. x[1] \in Nat /\ x[2] \in Nat /\ x[2] <= Funcs - 1 /\ x = <<x[1], x[2]>>  BY <1>2, <2>1
  <2>3. CASE x[1] < c.at \/ (x[1] = c.at /\ x[2] < c.fn)
    BY <1>4, <2>3 DEF FrameSound, BeforeSlot
  <2>4. CASE x[1] = c.at /\ x[2] = c.fn
    <3>1. x = <<c.at, c.fn>>  BY <2>2, <2>4
    <3> QED  BY <1>4, <3>1 DEF HereDone
  <2>5. CASE x[1] = c.at /\ x[2] > c.fn
    <3>1. ~MultiAt(m, c)  BY <1>2, <1>3, <1>4, <2>2, <2>5
    <3>2. x[2] # 0  BY <1>2, <2>5
    <3> QED  BY <1>2, <2>2, <2>5, <3>1, <3>2 DEF MultiAt, SlotsConform
  <2>6. x[1] < c.at \/ x[1] = c.at  BY <1>2, <1>3, <1>4, <2>2
  <2> QED  BY <1>2, <2>2, <2>3, <2>4, <2>5, <2>6
<1>5. c2.ok => BeforeSlot(m, dv, c2.hw, c2.at, c2.fn)  BY <1>3, <1>4 DEF BeforeSlot
<1>6. c2.at <= Slots /\ c2.fn < Funcs  BY <1>2, <1>3
<1>7. c2.dev # 0 => /\ c2.dev \in DOMAIN dv /\ dv[c2.dev].hw = c2.hw /\ dv[c2.dev].st = "init"
                    /\ dv[c2.dev].class = ClassOfKind(c2.kind)
  BY <1>3 DEF FrameSound
<1>8. c2.dev = 0 => c2.kind = "bus" /\ c2.hw = 0  BY <1>3 DEF FrameSound
<1> QED  BY <1>2, <1>3, <1>5, <1>6, <1>7, <1>8 DEF FrameSound

LEMMA SlotFails ==
    ASSUME NEW m, NEW dv, NEW nm, NEW c \in FrameType(m), FrameSound(m, dv, nm, c), c.kind = "bus", c.at < Slots,
           NEW c2, c2 = [c EXCEPT !.at = @ + 1, !.fn = 0, !.ok = FALSE]
    PROVE  c2 \in FrameType(m) /\ FrameSound(m, dv, nm, c2) /\ c2.kind = "bus" /\ c2.hw = c.hw /\ c2.dev = c.dev /\ ~c2.ok
<1>1. c \in [kind : Kinds, hw : Hardware(m), dev : Nat, at : Nat, fn : Nat, ok : BOOLEAN]  BY DEF FrameType
<1>2. c.at \in Nat /\ c.hw \in Buses(m) /\ Slots \in Nat /\ Funcs \in Nat \ {0}  BY <1>1, TreeAssumption DEF FrameSound
<1>3. c2 \in FrameType(m) /\ c2.kind = "bus" /\ c2.hw = c.hw /\ c2.dev = c.dev /\ c2.ok = FALSE /\ c2.at = c.at + 1 /\ c2.fn = 0
  <2>1. c.at + 1 \in Nat  BY <1>2
  <2> QED  BY <1>1, <2>1 DEF FrameType
<1>4. c2.at <= Slots /\ c2.fn < Funcs  BY <1>2, <1>3
<1> QED  BY <1>2, <1>3, <1>4 DEF FrameSound

LEMMA TopCall ==
    ASSUME TreeInv, Machine \in Machines, calls # <<>>, NEW c, c = calls[1]
    PROVE  /\ Head(calls) = c /\ c \in FrameType(Machine) /\ FrameSound(Machine, device, names, c) /\ IsMachine(Machine)
           /\ c \in [kind : Kinds, hw : Hardware(Machine), dev : Nat, at : Nat, fn : Nat, ok : BOOLEAN]
           /\ (c.dev # 0 => c.dev \in DOMAIN device) /\ c.at \in Nat /\ c.fn \in Nat /\ c.kind \in Kinds
<1>1. calls \in Seq(FrameType(Machine)) /\ CallsSound(Machine, device, names, calls)  BY DEF TreeInv, TreeOk, TreeTypes
<1>2. Head(calls) = c /\ c \in FrameType(Machine) /\ 1 \in DOMAIN calls
  <2>1. /\ calls[1] \in FrameType(Machine) /\ Head(calls) = calls[1] /\ Len(calls) \in Nat /\ Len(calls) >= 1
        /\ DOMAIN calls = 1..Len(calls)
    BY <1>1, PoppedCall
  <2> QED  BY <2>1
<1>3. FrameSound(Machine, device, names, c)  BY <1>1, <1>2 DEF CallsSound
<1>4. c.dev # 0 => c.dev \in DOMAIN device  BY <1>3 DEF FrameSound
<1> QED  BY <1>2, <1>3, <1>4, TreeAssumption DEF FrameType

\* Return, given what the call has done.
LEMMA ReturnOk ==
    ASSUME TreeInv, Machine \in Machines, UNCHANGED Machine, calls # <<>>, answer = "none" \/ calls[1].kind # "bus",
           NEW ok \in BOOLEAN, Return(ok), NEW an2, an2 = (IF ok THEN "yes" ELSE "no"),
           Finished(Machine, device, calls[1], an2)
    PROVE  TreeInv'
<1>1. PICK c : c = calls[1]  OBVIOUS
<1>2. Head(calls) = c /\ IsMachine(Machine) /\ (c.dev # 0 => c.dev \in DOMAIN device)  BY <1>1, TopCall
<1>3. PICK d : d = c.dev  OBVIOUS
<1>4. an2 \in {"yes", "no"} /\ (ok <=> an2 = "yes") /\ answer' = an2  BY DEF Return
<1>5. /\ device' = IF d = 0 THEN device ELSE [device EXCEPT ![d].st = IF an2 = "yes" THEN "ok" ELSE "deleted"]
      /\ calls' = Tail(calls) /\ names' = names
  BY <1>2, <1>3, <1>4 DEF Return
<1>6. device \in Seq(DeviceType(Machine)) /\ TreeOk(Machine, device, names, calls, answer)  BY DEF TreeInv, TreeOk, TreeTypes
<1>7. PICK dv2 : dv2 = device'  OBVIOUS
<1>8. Ended(Machine, device, d, an2, dv2)  BY <1>2, <1>3, <1>4, <1>5, <1>6, <1>7, EndDevice
<1>9. PICK cs2 : cs2 = Tail(calls)  OBVIOUS
<1>10. Ended(Machine, device, calls[1].dev, an2, dv2)  BY <1>1, <1>3, <1>8
<1>11. TreeOk(Machine, dv2, names, cs2, an2)  BY <1>2, <1>6, <1>9, <1>10, PopOk
<1> QED  BY <1>4, <1>5, <1>7, <1>9, <1>11 DEF TreeInv

\* The innermost call goes on.
LEMMA GoesOnOk ==
    ASSUME TreeInv, Machine \in Machines, UNCHANGED <<Machine, device, names>>, calls # <<>>, answer' = "none",
           NEW f, Become(f), f \in FrameType(Machine), FrameSound(Machine, device, names, f), f.dev = calls[1].dev,
           \A g : MadeBy(Machine, calls[1], g) => MadeBy(Machine, f, g),
           calls[1].kind = "bus" /\ (~calls[1].ok \/ answer = "no") => f.kind = "bus" /\ ~f.ok
    PROVE  TreeInv'
<1>1. PICK cs2 : cs2 = <<f>> \o Tail(calls)  OBVIOUS
<1>2. TreeOk(Machine, device, names, cs2, "none")  BY <1>1, BecomeOk DEF TreeInv
<1> QED  BY <1>1, <1>2 DEF TreeInv, Become

\* A device is registered below the innermost call.
LEMMA BelowOk ==
    ASSUME TreeInv, Machine \in Machines, UNCHANGED Machine, calls # <<>>, answer = "none",
           NEW class \in {"pci", "atactl", "ata"}, NEW kind \in {"bridge", "plain", "storage", "controller", "disk"},
           NEW hw \in Hardware(Machine), class = ClassOfKind(kind), RegisterBelow(class, kind, hw),
           kind \in {"bridge", "plain", "storage"} => hw \in DOMAIN Machine \ {0} /\ Machine[hw].class = kind,
           kind = "controller" => hw \in IdeControllers(Machine),
           kind = "disk" => hw \in IdeControllers(Machine) \X (1..Drives) /\ DriveOf(Machine, hw) \notin NotThere,
           \A f : f.kind = kind /\ f.hw = hw => MadeBy(Machine, f, calls[1])
    PROVE  TreeInv'
<1>1. PICK c : c = calls[1]  OBVIOUS
<1>2. Head(calls) = c /\ c.dev \in Nat  BY <1>1, TopCall
<1>3. device \in Seq(DeviceType(Machine)) /\ Len(device) \in Nat  BY LenProperties DEF TreeInv, TreeOk, TreeTypes
<1>4. PICK nr : nr = acquire_instance(class)  OBVIOUS
<1>5. nr = Cardinality(OfClass(device, class)) /\ nr \in Nat
  <2>1. IsFiniteSet(OfClass(device, class))
    <3>1. IsFiniteSet(1..Len(device)) /\ DOMAIN device = 1..Len(device)  BY <1>3, FS_Interval, LenProperties
    <3> QED  BY <3>1, FS_Subset DEF OfClass
  <2> QED  BY <1>4, <2>1, FS_CardinalityType DEF acquire_instance, OfClass
<1>6. PICK f, r : /\ f = [kind |-> kind, hw |-> hw, dev |-> Len(device) + 1, at |-> 0, fn |-> 0, ok |-> TRUE]
                  /\ r = [class |-> class, hw |-> hw, of |-> c.dev, nr |-> nr, st |-> "init"]
  OBVIOUS
<1>7. device' = Append(device, r) /\ names' = WithNames({<<class, nr>>}, Len(device) + 1) /\ calls' = <<f>> \o calls /\ answer' = "none"
  BY <1>2, <1>4, <1>6 DEF RegisterBelow, Registered, Call
<1>8. Registers(Machine, device, names, f, r, device', names')
  <2>1. f \in FrameType(Machine) /\ f.dev = Len(device) + 1 /\ f.at = 0 /\ f.fn = 0 /\ f.ok /\ f.kind = kind /\ f.hw = hw
    BY <1>3, <1>6 DEF FrameType, Kinds
  <2>2. r \in DeviceType(Machine) /\ r.class = class /\ r.hw = hw /\ r.st = "init" /\ r.nr = nr
    BY <1>2, <1>5, <1>6 DEF DeviceType, Class
  <2>3. \E added : added = {<<r.class, r.nr>>} /\ names' = NamesWith(names, added, Len(device) + 1)
    BY <1>7, <2>2 DEF WithNames, NamesWith
  <2> QED  BY <1>5, <1>7, <2>1, <2>2, <2>3 DEF Registers
<1>9. MadeBy(Machine, f, calls[1])  BY <1>6
<1>10. PICK dv2, nm2, cs2 : dv2 = device' /\ nm2 = names' /\ cs2 = <<f>> \o calls  OBVIOUS
<1>11. Registers(Machine, device, names, f, r, dv2, nm2)  BY <1>8, <1>10
<1>12. TreeOk(Machine, device, names, calls, "none")  BY DEF TreeInv
<1>13. TreeOk(Machine, dv2, nm2, cs2, "none")  BY <1>9, <1>10, <1>11, <1>12, PushOk
<1> QED  BY <1>7, <1>10, <1>13 DEF TreeInv

DriveDone(m, dv, h) == DriveOf(m, h) \notin NotThere => DiskDone(m, dv, h)

LEMMA ControllerGoesOn ==
    ASSUME NEW m, NEW dv, NEW nm, NEW c \in FrameType(m), FrameSound(m, dv, nm, c), c.kind = "controller", c.at < Drives,
           NEW h, h = <<c.hw, c.at + 1>>, DriveDone(m, dv, h), NEW c2, c2 = [c EXCEPT !.at = @ + 1]
    PROVE  /\ c2 \in FrameType(m) /\ FrameSound(m, dv, nm, c2) /\ c2.kind = "controller" /\ c2.dev = c.dev
           /\ \A g : MadeBy(m, c, g) => MadeBy(m, c2, g)
<1>1. c \in [kind : Kinds, hw : Hardware(m), dev : Nat, at : Nat, fn : Nat, ok : BOOLEAN]  BY DEF FrameType
<1>2. c.at \in Nat /\ Drives \in Nat  BY <1>1, TreeAssumption
<1>3. PICK j \in Nat : j = c.at + 1  BY <1>2
<1>4. c2 = [c EXCEPT !.at = j]  BY <1>3
<1>5. c2 \in FrameType(m) /\ c2.kind = c.kind /\ c2.hw = c.hw /\ c2.dev = c.dev /\ c2.at = j
  BY <1>1, <1>4 DEF FrameType
<1>6. UpToDrive(m, dv, c.hw, j)
  <2>1. SUFFICES ASSUME NEW k \in 1..Drives, k <= j, DriveOf(m, <<c.hw, k>>) \notin NotThere PROVE DiskDone(m, dv, <<c.hw, k>>)
    BY DEF UpToDrive
  <2>2. UpToDrive(m, dv, c.hw, c.at)  BY DEF FrameSound
  <2>3. CASE k <= c.at  BY <2>1, <2>2, <2>3 DEF UpToDrive
  <2>4. CASE k = c.at + 1  BY <2>1, <2>4 DEF DriveDone
  <2> QED  BY <1>2, <1>3, <2>1, <2>3, <2>4
<1>7. c2.dev # 0 => c2.dev \in DOMAIN dv /\ dv[c2.dev].hw = c2.hw /\ dv[c2.dev].st = "init" /\ dv[c2.dev].class = ClassOfKind(c2.kind)
  BY <1>5 DEF FrameSound
<1>8. c2.dev # 0 /\ c2.hw \in IdeControllers(m) /\ c2.at <= Drives  BY <1>2, <1>3, <1>5 DEF FrameSound
<1>9. FrameSound(m, dv, nm, c2)  BY <1>5, <1>6, <1>7, <1>8 DEF FrameSound
<1>10. \A g : MadeBy(m, c, g) => MadeBy(m, c2, g)  BY <1>5 DEF MadeBy
<1> QED  BY <1>5, <1>9, <1>10

LEMMA DiskGoesOn ==
    ASSUME NEW m, NEW dv, NEW nm, NEW c \in FrameType(m), FrameSound(m, dv, nm, c), c.kind = "disk",
           NEW j \in Nat \ {0}, j <= Entries + 1, BeforeEntry(m, dv, nm, c.dev, c.hw, j), DriveOf(m, c.hw) = "table",
           NEW c2, c2 = [c EXCEPT !.at = j]
    PROVE  /\ c2 \in FrameType(m) /\ FrameSound(m, dv, nm, c2) /\ c2.kind = "disk" /\ c2.dev = c.dev
           /\ \A g : MadeBy(m, c, g) => MadeBy(m, c2, g)
<1>1. c \in [kind : Kinds, hw : Hardware(m), dev : Nat, at : Nat, fn : Nat, ok : BOOLEAN]  BY DEF FrameType
<1>5. c2 \in FrameType(m) /\ c2.kind = c.kind /\ c2.hw = c.hw /\ c2.dev = c.dev /\ c2.at = j
  BY <1>1 DEF FrameType
<1>7. c2.dev # 0 => c2.dev \in DOMAIN dv /\ dv[c2.dev].hw = c2.hw /\ dv[c2.dev].st = "init" /\ dv[c2.dev].class = ClassOfKind(c2.kind)
  BY <1>5 DEF FrameSound
<1>8. c2.dev # 0 /\ c2.hw \in IdeControllers(m) \X (1..Drives) /\ DriveOf(m, c2.hw) \notin NotThere  BY <1>5 DEF FrameSound
<1>9. FrameSound(m, dv, nm, c2)  BY <1>5, <1>7, <1>8 DEF FrameSound
<1>10. \A g : MadeBy(m, c, g) => MadeBy(m, c2, g)  BY <1>5 DEF MadeBy
<1> QED  BY <1>5, <1>9, <1>10

\* A partition of a disk: its two names, and its call of init goes on to the next entry.
LEMMA PartitionOk ==
    ASSUME TreeInv, Machine \in Machines, UNCHANGED Machine, CreatePartition
    PROVE  TreeInv'
<1>c. PICK c : c = calls[1]  OBVIOUS
<1>0. calls # <<>> /\ c.kind = "disk" /\ answer = "none" /\ Head(calls) = c
  BY <1>c, TopCall DEF CreatePartition, In
<1>t. /\ c \in FrameType(Machine) /\ FrameSound(Machine, device, names, c) /\ IsMachine(Machine)
      /\ c.at \in 1..Entries /\ c.at \in Nat \ {0} /\ Entries \in Nat
  BY <1>c, <1>0, TopCall, TreeAssumption DEF CreatePartition
<1>o. TreeOk(Machine, device, names, calls, "none")  BY <1>0 DEF TreeInv
<1>1. /\ c.dev \in DOMAIN device /\ device[c.dev].hw = c.hw /\ device[c.dev].st = "init" /\ device[c.dev].class = "ata"
      /\ c.hw \in IdeControllers(Machine) \X (1..Drives) /\ DriveOf(Machine, c.hw) = "table"
      /\ BeforeEntry(Machine, device, names, c.dev, c.hw, c.at)
  BY <1>0, <1>t DEF FrameSound, ClassOfKind
<1>2. PICK j \in Nat \ {0} : j = c.at + 1 /\ j <= Entries + 1  BY <1>t
<1>3. PICK f : f = [c EXCEPT !.at = j]  OBVIOUS
<1>4. calls' = <<f>> \o Tail(calls) /\ answer' = "none"
  BY <1>0, <1>2, <1>3 DEF CreatePartition, Become
<1>5. CASE EntryOf(Machine, c.hw, c.at) = 0
  <2>1. UNCHANGED <<device, names>>  BY <1>0, <1>5 DEF CreatePartition, TableOf, EntryOf
  <2>2. BeforeEntry(Machine, device, names, c.dev, c.hw, j)
    <3>1. \A k \in 1..Entries : k < j /\ EntryOf(Machine, c.hw, k) # 0 => k < c.at  BY <1>2, <1>5, <1>t
    <3> QED  BY <1>1, <3>1 DEF BeforeEntry
  <2>3. f \in FrameType(Machine) /\ FrameSound(Machine, device, names, f) /\ f.kind = "disk" /\ f.dev = c.dev
        /\ \A g : MadeBy(Machine, c, g) => MadeBy(Machine, f, g)
    BY <1>0, <1>1, <1>2, <1>3, <1>t, <2>2, DiskGoesOn
  <2>4. Become(f)  BY <1>4 DEF Become
  <2> QED  BY <1>0, <1>4, <1>c, <2>1, <2>3, <2>4, GoesOnOk
<1>6. CASE EntryOf(Machine, c.hw, c.at) # 0
  <2>1. RegisterPlain("block-partition", <<c.hw, c.at>>, c.dev, {Append(NameOf(c.dev), c.at - 1)})
    BY <1>0, <1>6 DEF CreatePartition, TableOf, EntryOf
  <2>2. device \in Seq(DeviceType(Machine)) /\ Len(device) \in Nat /\ DOMAIN device = 1..Len(device)
    BY LenProperties DEF TreeInv, TreeOk, TreeTypes
  <2>3. PICK nr : nr = acquire_instance("block-partition")  OBVIOUS
  <2>4. nr = Cardinality(OfClass(device, "block-partition")) /\ nr \in Nat
    <3>1. IsFiniteSet(OfClass(device, "block-partition"))
      <4>1. IsFiniteSet(1..Len(device))  BY <2>2, FS_Interval
      <4> QED  BY <2>2, <4>1, FS_Subset DEF OfClass
    <3> QED  BY <2>3, <3>1, FS_CardinalityType DEF acquire_instance, OfClass
  <2>5. PICK r : r = [class |-> "block-partition", hw |-> <<c.hw, c.at>>, of |-> c.dev, nr |-> nr, st |-> "ok"]  OBVIOUS
  <2>6. PICK a, own, added : a = Append(NameIn(device, c.dev), c.at - 1) /\ own = <<"block-partition", nr>> /\ added = {a} \cup {own}
    OBVIOUS
  <2>7. device' = Append(device, r) /\ names' = NamesWith(names, added, Len(device) + 1)
    BY <2>1, <2>3, <2>5, <2>6 DEF RegisterPlain, WithNames, NamesWith, NameOf, NameIn
  <2>8. /\ r \in DeviceType(Machine) /\ r.class = "block-partition" /\ r.st = "ok" /\ r.of = c.dev /\ r.nr = nr
        /\ r.hw = <<c.hw, c.at>>
    <3>1. <<c.hw, c.at>> \in Hardware(Machine)
      <4>1. c.hw \in (DOMAIN Machine) \X Nat  BY <1>1, TreeAssumption DEF IdeControllers
      <4> QED  BY <1>t, <4>1 DEF Hardware
    <3>2. c.dev \in Nat  BY <1>1, <2>2
    <3> QED  BY <2>4, <2>5, <3>1, <3>2 DEF DeviceType, Class
  <2>9. PICK dv2, nm2 : dv2 = device' /\ nm2 = names'  OBVIOUS
  <2>g. Grown(Machine, device, r, dv2)
    BY <1>o, <2>2, <2>4, <2>7, <2>8, <2>9, AddDevice DEF TreeOk
  <2>10. NamesPartition(device, dv2, a)
    <3>1. device[c.dev] \in DeviceType(Machine)  BY <1>1, <2>2, ElementOfSeq
    <3>2. device[c.dev].class \in Class /\ device[c.dev].nr \in Nat /\ c.at - 1 \in Nat  BY <1>t, <3>1 DEF DeviceType
    <3>3. a \in Seq(NamePart) /\ Len(a) = 3  BY <2>6, <3>2, ThreePart DEF NameIn
    <3>4. PartitionOf(dv2, c.dev, c.at, Len(device) + 1)  BY <1>1, <2>8, <2>g DEF PartitionOf, Grown
    <3> QED  BY <1>1, <1>t, <2>6, <3>3, <3>4 DEF NamesPartition
  <2>11. AddsPlain(Machine, device, names, r, added, dv2, nm2)
    <3>1. own = <<r.class, r.nr>>  BY <2>6, <2>8
    <3>2. \A b \in added : b = own \/ b = a  BY <2>6
    <3>3. own \in added  BY <2>6
    <3>4. r.class \notin {"pci", "ata", "atactl"} /\ r.nr = Cardinality(OfClass(device, r.class))  BY <2>4, <2>8
    <3>5. \A b \in added : b = <<r.class, r.nr>> \/ b = ConsoleName \/ NamesPartition(device, dv2, b)  BY <2>10, <3>1, <3>2
    <3> QED  BY <2>7, <2>8, <2>9, <3>1, <3>3, <3>4, <3>5 DEF AddsPlain
  <2>12. PartitionFits(Machine, device, r, calls)
    <3>1. \A i \in DOMAIN calls : c.dev # calls[i].dev \/ calls[i].at # 0
      <4>1. calls \in Seq(FrameType(Machine)) /\ CallsSound(Machine, device, names, calls)  BY <1>o DEF TreeOk, TreeTypes
      <4>2. 1 \in DOMAIN calls
        <5>1. Len(calls) \in Nat /\ Len(calls) >= 1 /\ DOMAIN calls = 1..Len(calls)  BY <1>0, <4>1, PoppedCall
        <5> QED  BY <5>1
      <4> QED  BY <1>c, <1>t, <4>1, <4>2 DEF CallsSound
    <3> QED  BY <1>1, <1>6, <1>t, <2>8, <3>1 DEF PartitionFits
  <2>13. /\ TreeOk(Machine, dv2, nm2, calls, "none") /\ DOMAIN nm2 = added \cup DOMAIN names
         /\ BeforeEntry(Machine, dv2, nm2, c.dev, c.hw, c.at)
    <3>1. PICK an : an = "none"  OBVIOUS
    <3>2. TreeOk(Machine, device, names, calls, an)  BY <1>o, <3>1
    <3>3. PlainAdded(Machine, device, names, calls, an, r, added, dv2, nm2)  BY <2>11, <2>12, <3>2, PlainOk
    <3> QED  BY <1>1, <3>1, <3>3 DEF EntriesStay, PlainAdded
  <2>14. FrameSound(Machine, dv2, nm2, c)
    <3>1. calls \in Seq(FrameType(Machine)) /\ CallsSound(Machine, dv2, nm2, calls)  BY <2>13 DEF TreeOk, TreeTypes
    <3>2. Len(calls) \in Nat /\ Len(calls) >= 1 /\ DOMAIN calls = 1..Len(calls)  BY <1>0, <3>1, PoppedCall
    <3>3. 1 \in DOMAIN calls  BY <3>2
    <3> QED  BY <1>c, <3>1, <3>3 DEF CallsSound
  <2>15. BeforeEntry(Machine, dv2, nm2, c.dev, c.hw, j)
    <3>1. SUFFICES ASSUME NEW k \in 1..Entries, k < j, EntryOf(Machine, c.hw, k) # 0
                   PROVE  Append(NameIn(dv2, c.dev), k - 1) \in DOMAIN nm2
      BY DEF BeforeEntry
    <3>2. CASE k < c.at  BY <2>13, <3>1, <3>2 DEF BeforeEntry
    <3>3. CASE k = c.at
      <4>1. NameIn(dv2, c.dev) = NameIn(device, c.dev)  BY <1>1, <2>g DEF Grown, NameIn
      <4>2. a \in DOMAIN nm2  BY <2>6, <2>13
      <4> QED  BY <2>6, <3>3, <4>1, <4>2
    <3> QED  BY <1>2, <1>t, <3>1, <3>2, <3>3
  <2>16. f \in FrameType(Machine) /\ FrameSound(Machine, dv2, nm2, f) /\ f.kind = "disk" /\ f.dev = c.dev
         /\ \A g : MadeBy(Machine, c, g) => MadeBy(Machine, f, g)
    BY <1>0, <1>1, <1>2, <1>3, <1>t, <2>14, <2>15, DiskGoesOn
  <2>17. PICK cs2 : cs2 = <<f>> \o Tail(calls)  OBVIOUS
  <2>18. TreeOk(Machine, dv2, nm2, cs2, "none")  BY <1>0, <1>c, <2>13, <2>16, <2>17, BecomeOk
  <2> QED  BY <1>4, <2>9, <2>17, <2>18 DEF TreeInv
<1> QED  BY <1>5, <1>6

LEMMA ProbingSteps ==
    ASSUME MachinesConform, TreeInv, Machine \in Machines, UNCHANGED Machine, TreeStep
    PROVE  TreeInv'
<1>c. PICK c : c = calls[1]  OBVIOUS
<1>t. calls # <<>> => /\ Head(calls) = c /\ c \in FrameType(Machine) /\ FrameSound(Machine, device, names, c) /\ IsMachine(Machine)
                      /\ c \in [kind : Kinds, hw : Hardware(Machine), dev : Nat, at : Nat, fn : Nat, ok : BOOLEAN]
                      /\ (c.dev # 0 => c.dev \in DOMAIN device) /\ c.at \in Nat /\ c.fn \in Nat /\ c.kind \in Kinds
  BY <1>c, TopCall
<1>a. Drives \in Nat /\ Entries \in Nat /\ Slots \in Nat /\ Funcs \in Nat \ {0}  BY TreeAssumption
<1>s. SlotsConform(Machine)  BY DEF MachinesConform, SlotsConform
<1>m. ASSUME NEW f, f.kind = "bus", c.kind \in {"bus", "bridge"}, f.hw = c.hw
      PROVE  \A g : MadeBy(Machine, c, g) => MadeBy(Machine, f, g)
  BY <1>m DEF MadeBy
<1>n. ASSUME calls # <<>>, c.kind = "bus" PROVE NextFunction(c) = FrameAfter(Machine, c)
  BY DEF NextFunction, FrameAfter, Multi, MultiAt, Present, FunctionsOf
<1>1. CASE ProbeFunc
  <2>1. calls # <<>> /\ c.kind = "bus" /\ answer = "none" /\ c.at < Slots /\ Head(calls) = c
    BY <1>t, <1>1 DEF ProbeFunc, In
  <2>b. c.hw \in Buses(Machine)  BY <1>t, <2>1 DEF FrameSound
  <2>2. CASE /\ Present(c, c.at, c.fn) => Machine[NodeAt(c)].class \notin Supported
             /\ Become(NextFunction(c)) /\ UNCHANGED <<device, names, answer>>
    <3>1. HereDone(Machine, device, c)  BY <2>2 DEF HereDone, Present, NodeAt, FunctionsOf
    <3>2. PICK f : f = FrameAfter(Machine, c)  OBVIOUS
    <3>3. f \in FrameType(Machine) /\ FrameSound(Machine, device, names, f) /\ f.kind = "bus" /\ f.hw = c.hw /\ f.dev = c.dev /\ f.ok = c.ok
      BY <1>s, <1>t, <2>1, <3>1, <3>2, BusGoesOn
    <3>4. Become(f)  BY <1>n, <2>1, <2>2, <3>2
    <3>5. \A g : MadeBy(Machine, c, g) => MadeBy(Machine, f, g)  BY <1>m, <2>1, <3>3
    <3> QED  BY <1>c, <2>1, <2>2, <3>3, <3>4, <3>5, GoesOnOk
  <2>3. CASE /\ Present(c, c.at, c.fn) /\ Machine[NodeAt(c)].class \in Supported
             /\ RegisterBelow("pci", Machine[NodeAt(c)].class, NodeAt(c))
    <3>1. PICK x, hw, kind : x = <<c.at, c.fn>> /\ hw = Machine[c.hw].bus[x] /\ kind = Machine[hw].class  OBVIOUS
    <3>2. hw = NodeAt(c) /\ x \in DOMAIN Machine[c.hw].bus /\ kind \in {"bridge", "plain", "storage"} /\ RegisterBelow("pci", kind, hw)
      BY <2>3, <3>1 DEF NodeAt, FunctionsOf, Present, Supported
    <3>3. hw \in DOMAIN Machine \ {0}
      <4>1. \A y \in DOMAIN Machine[c.hw].bus : Machine[c.hw].bus[y] \in DOMAIN Machine \ {0}  BY <1>t, <2>1, <2>b DEF IsMachine
      <4> QED  BY <3>1, <3>2, <4>1
    <3>4. hw \in Hardware(Machine) /\ "pci" = ClassOfKind(kind)  BY <3>2, <3>3 DEF Hardware, ClassOfKind
    <3>5. ASSUME NEW f, f.kind = kind, f.hw = hw PROVE MadeBy(Machine, f, c)
      BY <2>1, <3>1, <3>2, <3>3, <3>5 DEF MadeBy, AtFunction
    <3>6. PICK class \in {"pci", "atactl", "ata"} : class = "pci"  OBVIOUS
    <3>7. kind \in {"bridge", "plain", "storage", "controller", "disk"} /\ class = ClassOfKind(kind) /\ RegisterBelow(class, kind, hw)
          /\ (kind \in {"bridge", "plain", "storage"} => hw \in DOMAIN Machine \ {0} /\ Machine[hw].class = kind)
          /\ kind # "controller" /\ kind # "disk"
      BY <3>1, <3>2, <3>3, <3>4, <3>6
    <3>8. \A f : f.kind = kind /\ f.hw = hw => MadeBy(Machine, f, calls[1])  BY <1>c, <3>5
    <3> QED  BY <2>1, <3>4, <3>7, <3>8, BelowOk
  <2> QED  BY <1>1, <2>1, <2>2, <2>3 DEF ProbeFunc
<1>2. CASE ProbedFunc
  <2>1. calls # <<>> /\ c.kind = "bus" /\ answer # "none" /\ Head(calls) = c /\ answer' = "none" /\ UNCHANGED <<device, names>>
    BY <1>t, <1>2 DEF ProbedFunc, Back
  <2>2. AtFunction(Machine, c) /\ (answer = "yes" => PciDone(device, Machine[c.hw].bus[<<c.at, c.fn>>]))
    BY <1>c, <2>1 DEF TreeInv, TreeOk, AnswerSound
  <2>3. answer \in {"yes", "no"} /\ c.at < Slots  BY <2>1, <2>2 DEF TreeInv, TreeOk, TreeTypes, AtFunction
  <2>4. PICK f : f = IF answer = "yes" THEN NextFunction(c) ELSE NextSlot(c)  OBVIOUS
  <2>5. f \in FrameType(Machine) /\ FrameSound(Machine, device, names, f) /\ f.kind = "bus" /\ f.hw = c.hw /\ f.dev = c.dev
        /\ (~c.ok \/ answer = "no" => ~f.ok)
    <3>1. CASE answer = "yes"
      <4>1. f = FrameAfter(Machine, c)  BY <1>n, <2>1, <2>4, <3>1
      <4>2. HereDone(Machine, device, c)  BY <2>2, <3>1 DEF HereDone
      <4> QED  BY <1>s, <1>t, <2>1, <2>3, <3>1, <4>1, <4>2, BusGoesOn
    <3>2. CASE answer = "no"
      <4>1. f = [c EXCEPT !.at = @ + 1, !.fn = 0, !.ok = FALSE]  BY <2>4, <3>2 DEF NextSlot
      <4> QED  BY <1>t, <2>1, <2>3, <4>1, SlotFails
    <3> QED  BY <2>3, <3>1, <3>2
  <2>6. Become(f)  BY <1>2, <2>1, <2>4 DEF ProbedFunc
  <2>7. \A g : MadeBy(Machine, c, g) => MadeBy(Machine, f, g)  BY <1>m, <2>1, <2>5
  <2> QED  BY <1>c, <2>1, <2>5, <2>6, <2>7, GoesOnOk
<1>r. ASSUME NEW ok \in BOOLEAN, Return(ok), calls # <<>>, answer = "none" \/ c.kind # "bus",
             \A an2 : an2 = (IF ok THEN "yes" ELSE "no") => Finished(Machine, device, c, an2)
      PROVE  TreeInv'
  <2>1. PICK an2 : an2 = (IF ok THEN "yes" ELSE "no")  OBVIOUS
  <2>2. Finished(Machine, device, calls[1], an2) /\ (answer = "none" \/ calls[1].kind # "bus")  BY <1>c, <1>r, <2>1
  <2> QED  BY <1>r, <2>1, <2>2, ReturnOk
<1>3. CASE EndOfBus
  <2>1. calls # <<>> /\ c.kind = "bus" /\ answer = "none" /\ Head(calls) = c /\ c.at = Slots /\ Return(c.ok) /\ c.ok \in BOOLEAN
    BY <1>t, <1>3 DEF EndOfBus, In
  <2>2. \A an2 : an2 = (IF c.ok THEN "yes" ELSE "no") => Finished(Machine, device, c, an2)  BY <2>1 DEF Finished
  <2> QED  BY <1>r, <2>1, <2>2
<1>4. CASE InitPlain
  <2>1. calls # <<>> /\ c.kind = "plain" /\ answer = "none" /\ Return(TRUE)  BY <1>t, <1>4 DEF InitPlain, In
  <2>2. \A an2 : an2 = (IF TRUE THEN "yes" ELSE "no") => Finished(Machine, device, c, an2)  BY <2>1 DEF Finished
  <2> QED  BY <1>r, <2>1, <2>2
<1>5. CASE InitBridge
  <2>1. calls # <<>> /\ c.kind = "bridge" /\ answer = "none" /\ Head(calls) = c  BY <1>t, <1>5 DEF InitBridge, In
  <2>f. c.hw \in DOMAIN Machine /\ Machine[c.hw].class = "bridge" /\ c.at = 0 /\ c.fn = 0 /\ c.ok /\ c.dev # 0
    BY <1>t, <2>1 DEF FrameSound
  <2>2. CASE Machine[c.hw].sub = "pci-to-pci" /\ Machine[c.hw].header
             /\ Become([c EXCEPT !.kind = "bus"]) /\ UNCHANGED <<device, names, answer>>
    <3>1. PICK f : f = [c EXCEPT !.kind = "bus"]  OBVIOUS
    <3>2. f \in FrameType(Machine) /\ f.kind = "bus" /\ f.hw = c.hw /\ f.dev = c.dev /\ f.ok = c.ok /\ f.at = c.at /\ f.fn = c.fn
      BY <1>t, <2>1, <3>1 DEF FrameType, Kinds
    <3>3. FrameSound(Machine, device, names, f)
      <4>1. f.hw \in Buses(Machine)  BY <2>2, <2>f, <3>2 DEF Buses
      <4>2. BeforeSlot(Machine, device, f.hw, f.at, f.fn)
        <5>1. \A x \in DOMAIN Machine[f.hw].bus : x[1] \in Nat /\ x[2] \in Nat
          <6>1. \A x \in DOMAIN Machine[f.hw].bus : x \in (0..(Slots - 1)) \X (0..(Funcs - 1))  BY <1>t, <2>1, <4>1 DEF IsMachine
          <6> QED  BY <1>a, <6>1
        <5> QED  BY <2>f, <3>2, <5>1 DEF BeforeSlot
      <4>3. ClassOfKind("bus") = ClassOfKind("bridge")  BY DEF ClassOfKind
      <4>4. f.dev # 0 => f.dev \in DOMAIN device /\ device[f.dev].hw = f.hw /\ device[f.dev].st = "init" /\ device[f.dev].class = ClassOfKind(f.kind)
        BY <1>t, <2>1, <3>2, <4>3 DEF FrameSound
      <4> QED  BY <1>a, <2>f, <3>2, <4>1, <4>2, <4>4 DEF FrameSound
    <3>4. \A g : MadeBy(Machine, c, g) => MadeBy(Machine, f, g)  BY <1>m, <2>1, <3>2
    <3>5. Become(f)  BY <2>2, <3>1
    <3> QED  BY <1>c, <2>1, <2>2, <3>2, <3>3, <3>4, <3>5, GoesOnOk
  <2>3. CASE Machine[c.hw].sub = "pci-to-pci" /\ ~Machine[c.hw].header /\ Return(FALSE)
    <3>1. \A an2 : an2 = (IF FALSE THEN "yes" ELSE "no") => Finished(Machine, device, c, an2)  BY <2>1 DEF Finished
    <3> QED  BY <1>r, <2>1, <2>3, <3>1
  <2>4. CASE Machine[c.hw].sub # "pci-to-pci" /\ Return(TRUE)
    <3>1. \A an2 : an2 = (IF TRUE THEN "yes" ELSE "no") => Finished(Machine, device, c, an2)  BY <2>1, <2>4 DEF Finished
    <3> QED  BY <1>r, <2>1, <2>4, <3>1
  <2> QED  BY <1>5, <2>1, <2>2, <2>3, <2>4 DEF InitBridge
<1>6. CASE InitStorage
  <2>1. calls # <<>> /\ c.kind = "storage" /\ answer = "none" /\ Head(calls) = c  BY <1>t, <1>6 DEF InitStorage, In
  <2>f. c.hw \in DOMAIN Machine /\ Machine[c.hw].class = "storage"  BY <1>t, <2>1 DEF FrameSound
  <2>n. ASSUME Return(FALSE) PROVE TreeInv'
    <3>1. \A an2 : an2 = (IF FALSE THEN "yes" ELSE "no") => Finished(Machine, device, c, an2)  BY <2>1 DEF Finished
    <3> QED  BY <1>r, <2>1, <2>n, <3>1
  <2>2. CASE Machine[c.hw].sub = "ide" /\ Machine[c.hw].irq /\ RegisterBelow("atactl", "controller", c.hw)
    <3>1. PICK hw, kind, class : hw = c.hw /\ kind = "controller" /\ class = "atactl"  OBVIOUS
    <3>2. hw \in IdeControllers(Machine) /\ hw \in Hardware(Machine)  BY <2>2, <2>f, <3>1 DEF IdeControllers, Hardware
    <3>3. ASSUME NEW f, f.kind = kind, f.hw = hw PROVE MadeBy(Machine, f, c)  BY <2>1, <3>1, <3>3 DEF MadeBy
    <3>4. class \in {"pci", "atactl", "ata"} /\ kind \in {"bridge", "plain", "storage", "controller", "disk"} /\ class = ClassOfKind(kind)
          /\ kind \notin {"bridge", "plain", "storage"} /\ kind # "disk" /\ RegisterBelow(class, kind, hw)
      BY <2>2, <3>1 DEF ClassOfKind
    <3>5. \A f : f.kind = kind /\ f.hw = hw => MadeBy(Machine, f, calls[1])  BY <1>c, <3>3
    <3> QED  BY <2>1, <3>2, <3>4, <3>5, BelowOk
  <2>3. CASE Machine[c.hw].sub = "sata" /\ Return(TRUE)
    <3>1. c.hw \notin IdeControllers(Machine)  BY <2>3 DEF IdeControllers
    <3>2. \A an2 : an2 = (IF TRUE THEN "yes" ELSE "no") => Finished(Machine, device, c, an2)  BY <2>1, <3>1 DEF Finished
    <3> QED  BY <1>r, <2>1, <2>3, <3>2
  <2> QED  BY <1>6, <2>1, <2>2, <2>3, <2>n DEF InitStorage
<1>7. CASE ControllerReady
  <2>1. calls # <<>> /\ c.kind = "storage" /\ answer # "none" /\ Return(answer = "yes")  BY <1>t, <1>7 DEF ControllerReady, Back
  <2>2. UpToDrive(Machine, device, c.hw, Drives)  BY <1>c, <2>1 DEF TreeInv, TreeOk, AnswerSound
  <2>3. PICK ok \in BOOLEAN : ok = (answer = "yes")  OBVIOUS
  <2>4. \A an2 : an2 = (IF ok THEN "yes" ELSE "no") => Finished(Machine, device, c, an2)  BY <2>1, <2>2 DEF Finished
  <2>5. Return(ok)  BY <2>1, <2>3
  <2> QED  BY <1>r, <2>1, <2>4, <2>5
<1>8. CASE ProbeDevice
  <2>1. calls # <<>> /\ c.kind = "controller" /\ answer = "none" /\ Head(calls) = c /\ c.at < Drives  BY <1>t, <1>8 DEF ProbeDevice, In
  <2>2. CASE Machine[c.hw].drive[c.at + 1] \in {"absent", "error"}
             /\ Become([c EXCEPT !.at = @ + 1]) /\ UNCHANGED <<device, names, answer>>
    <3>1. PICK f : f = [c EXCEPT !.at = @ + 1]  OBVIOUS
    <3>h. PICK h : h = <<c.hw, c.at + 1>>  OBVIOUS
    <3>2. DriveDone(Machine, device, h)  BY <2>2, <3>h DEF DriveDone, DriveOf, NotThere
    <3>3. f \in FrameType(Machine) /\ FrameSound(Machine, device, names, f) /\ f.kind = "controller" /\ f.dev = c.dev
          /\ \A g : MadeBy(Machine, c, g) => MadeBy(Machine, f, g)
      BY <1>t, <2>1, <3>1, <3>2, <3>h, ControllerGoesOn
    <3>4. Become(f)  BY <2>2, <3>1
    <3> QED  BY <1>c, <2>1, <2>2, <3>3, <3>4, GoesOnOk
  <2>3. CASE Machine[c.hw].drive[c.at + 1] \notin {"absent", "error"} /\ RegisterBelow("ata", "disk", <<c.hw, c.at + 1>>)
    <3>1. PICK hw, kind, class : hw = <<c.hw, c.at + 1>> /\ kind = "disk" /\ class = "ata"  OBVIOUS
    <3>2. c.hw \in IdeControllers(Machine) /\ c.at + 1 \in 1..Drives  BY <1>a, <1>t, <2>1 DEF FrameSound
    <3>3. hw \in IdeControllers(Machine) \X (1..Drives) /\ DriveOf(Machine, hw) \notin NotThere
      BY <2>3, <3>1, <3>2 DEF DriveOf, NotThere
    <3>4. hw \in Hardware(Machine)  BY <1>a, <3>1, <3>2 DEF IdeControllers, Hardware
    <3>5. ASSUME NEW f, f.kind = kind, f.hw = hw PROVE MadeBy(Machine, f, c)  BY <2>1, <3>1, <3>5 DEF MadeBy
    <3>6. class \in {"pci", "atactl", "ata"} /\ kind \in {"bridge", "plain", "storage", "controller", "disk"} /\ class = ClassOfKind(kind)
          /\ kind \notin {"bridge", "plain", "storage"} /\ kind # "controller" /\ RegisterBelow(class, kind, hw)
      BY <2>3, <3>1 DEF ClassOfKind
    <3>7. \A f : f.kind = kind /\ f.hw = hw => MadeBy(Machine, f, calls[1])  BY <1>c, <3>5
    <3> QED  BY <2>1, <3>3, <3>4, <3>6, <3>7, BelowOk
  <2> QED  BY <1>8, <2>1, <2>2, <2>3 DEF ProbeDevice
<1>9. CASE ProbedDevice
  <2>1. calls # <<>> /\ c.kind = "controller" /\ answer # "none" /\ Head(calls) = c /\ answer' = "none" /\ UNCHANGED <<device, names>>
    BY <1>t, <1>9 DEF ProbedDevice, Back
  <2>2. c.at < Drives /\ DiskDone(Machine, device, <<c.hw, c.at + 1>>)  BY <1>c, <2>1 DEF TreeInv, TreeOk, AnswerSound
  <2>3. PICK f : f = [c EXCEPT !.at = @ + 1]  OBVIOUS
  <2>4. f \in FrameType(Machine) /\ FrameSound(Machine, device, names, f) /\ f.kind = "controller" /\ f.dev = c.dev
        /\ \A g : MadeBy(Machine, c, g) => MadeBy(Machine, f, g)
    <3>1. PICK h : h = <<c.hw, c.at + 1>>  OBVIOUS
    <3>2. DriveDone(Machine, device, h) /\ c.at < Drives  BY <2>2, <3>1 DEF DriveDone
    <3> QED  BY <1>t, <2>1, <2>3, <3>1, <3>2, ControllerGoesOn
  <2>5. Become(f)  BY <1>9, <2>1, <2>3 DEF ProbedDevice
  <2> QED  BY <1>c, <2>1, <2>4, <2>5, GoesOnOk
<1>10. CASE EndOfController
  <2>1. calls # <<>> /\ c.kind = "controller" /\ answer = "none" /\ Head(calls) = c /\ c.at = Drives /\ Return(TRUE)
    BY <1>t, <1>10 DEF EndOfController, In
  <2>2. \A an2 : an2 = (IF TRUE THEN "yes" ELSE "no") => Finished(Machine, device, c, an2)  BY <2>1 DEF Finished
  <2> QED  BY <1>r, <2>1, <2>2
<1>d. ASSUME calls # <<>>, c.kind = "disk"
      PROVE  /\ DriveOf(Machine, c.hw) \in {"no lba", "unreadable", "blank", "table"}
             /\ Disk(c.hw) = DriveOf(Machine, c.hw) /\ (DiskFails(c.hw) <=> DriveOf(Machine, c.hw) \in Failing)
             /\ c.at <= Entries + 1 /\ (c.at > 0 => DriveOf(Machine, c.hw) = "table")
  <2>1. c.hw \in IdeControllers(Machine) \X (1..Drives) /\ DriveOf(Machine, c.hw) \notin NotThere
        /\ c.at <= Entries + 1 /\ (c.at > 0 => DriveOf(Machine, c.hw) = "table")
    BY <1>d, <1>t DEF FrameSound
  <2>2. c.hw[1] \in IdeControllers(Machine) /\ c.hw[2] \in 1..Drives  BY <2>1
  <2>3. Machine[c.hw[1]].drive[c.hw[2]] \in {"absent", "error", "no lba", "unreadable", "blank", "table"}
    BY <1>d, <1>t, <2>2 DEF IsMachine
  <2> QED  BY <2>1, <2>3 DEF DriveOf, NotThere, Disk, DiskFails, Failing
<1>11. CASE InitDisk
  <2>1. calls # <<>> /\ c.kind = "disk" /\ answer = "none" /\ Head(calls) = c /\ c.at = 0  BY <1>t, <1>11 DEF InitDisk, In
  <2>2. CASE DiskFails(c.hw) /\ Return(FALSE)
    <3>1. \A an2 : an2 = (IF FALSE THEN "yes" ELSE "no") => Finished(Machine, device, c, an2)
      BY <1>d, <2>1, <2>2 DEF Finished
    <3> QED  BY <1>r, <2>1, <2>2, <3>1
  <2>3. CASE Disk(c.hw) = "blank" /\ Return(TRUE)
    <3>1. \A an2 : an2 = (IF TRUE THEN "yes" ELSE "no") => Finished(Machine, device, c, an2)
      BY <1>d, <2>1, <2>3 DEF Finished, Failing
    <3> QED  BY <1>r, <2>1, <2>3, <3>1
  <2>4. CASE ~DiskFails(c.hw) /\ Disk(c.hw) # "blank" /\ Become([c EXCEPT !.at = 1]) /\ UNCHANGED <<device, names, answer>>
    <3>1. PICK j \in Nat \ {0} : j = 1  OBVIOUS
    <3>2. PICK f : f = [c EXCEPT !.at = j]  OBVIOUS
    <3>3. DriveOf(Machine, c.hw) = "table"  BY <1>d, <2>1, <2>4 DEF Failing
    <3>4. BeforeEntry(Machine, device, names, c.dev, c.hw, j) /\ j <= Entries + 1  BY <1>a, <3>1 DEF BeforeEntry
    <3>5. f \in FrameType(Machine) /\ FrameSound(Machine, device, names, f) /\ f.kind = "disk" /\ f.dev = c.dev
          /\ \A g : MadeBy(Machine, c, g) => MadeBy(Machine, f, g)
      BY <1>t, <2>1, <3>2, <3>3, <3>4, DiskGoesOn
    <3>6. Become(f)  BY <2>4, <3>1, <3>2
    <3> QED  BY <1>c, <2>1, <2>4, <3>5, <3>6, GoesOnOk
  <2> QED  BY <1>11, <2>1, <2>2, <2>3, <2>4 DEF InitDisk
<1>12. CASE CreatePartition  BY <1>12, PartitionOk
<1>13. CASE EndOfPartitions
  <2>1. calls # <<>> /\ c.kind = "disk" /\ answer = "none" /\ Head(calls) = c /\ c.at > Entries /\ Return(TRUE)
    BY <1>t, <1>13 DEF EndOfPartitions, In
  <2>a. c.at \in Nat /\ c.at > 0 /\ c.at = Entries + 1
    <3>1. c.at \in Nat  BY <1>t, <2>1
    <3>2. c.at <= Entries + 1  BY <1>d, <2>1
    <3> QED  BY <1>a, <2>1, <3>1, <3>2
  <2>2. DriveOf(Machine, c.hw) = "table" /\ c.at = Entries + 1  BY <1>d, <2>1, <2>a
  <2>3. \A an2 : an2 = (IF TRUE THEN "yes" ELSE "no") => Finished(Machine, device, c, an2)  BY <2>1, <2>2 DEF Finished, Failing
  <2> QED  BY <1>r, <2>1, <2>3
<1> QED  BY <1>1, <1>2, <1>3, <1>4, <1>5, <1>6, <1>7, <1>8, <1>9, <1>10, <1>11, <1>12, <1>13 DEF TreeStep

\* Outside probing: a device of the platform.
PlainClass == Class \ {"pci", "ata", "atactl", "block-partition"}
OneMore(class, hw) ==
    /\ Len(device') = Len(device) + 1 /\ DOMAIN device' = 1..(Len(device) + 1) /\ DOMAIN device = 1..Len(device)
    /\ Len(device) \in Nat
    /\ \A d \in DOMAIN device : device'[d] = device[d]
    /\ device'[Len(device) + 1].class = class /\ device'[Len(device) + 1].hw = hw
    /\ device'[Len(device) + 1].nr = Cardinality(OfClass(device, class))

LEMMA PlatformOk ==
    ASSUME TreeInv, UNCHANGED <<Machine, calls, answer>>, NEW class \in PlainClass,
           NEW hw \in {"timer", "console", "extra"}, NEW alias, alias \subseteq {ConsoleName}, RegisterPlain(class, hw, 0, alias)
    PROVE  TreeInv' /\ OneMore(class, hw)
<1>1. device \in Seq(DeviceType(Machine)) /\ Len(device) \in Nat /\ DOMAIN device = 1..Len(device)
  BY LenProperties DEF TreeInv, TreeOk, TreeTypes
<1>2. PICK nr : nr = acquire_instance(class)  OBVIOUS
<1>3. nr = Cardinality(OfClass(device, class)) /\ nr \in Nat
  <2>1. IsFiniteSet(OfClass(device, class))
    <3>1. IsFiniteSet(1..Len(device))  BY <1>1, FS_Interval
    <3> QED  BY <1>1, <3>1, FS_Subset DEF OfClass
  <2> QED  BY <1>2, <2>1, FS_CardinalityType DEF acquire_instance, OfClass
<1>4. PICK r, own, added : /\ r = [class |-> class, hw |-> hw, of |-> 0, nr |-> nr, st |-> "ok"]
                           /\ own = <<class, nr>> /\ added = alias \cup {own}
  OBVIOUS
<1>5. device' = Append(device, r) /\ names' = NamesWith(names, added, Len(device) + 1)
  BY <1>2, <1>4 DEF RegisterPlain, WithNames, NamesWith
<1>6. r \in DeviceType(Machine) /\ r.class = class /\ r.st = "ok" /\ r.nr = nr /\ r.hw = hw
  <2>1. hw \in Hardware(Machine)  BY DEF Hardware
  <2> QED  BY <1>3, <1>4, <2>1 DEF DeviceType, PlainClass
<1>7. PICK dv2, nm2 : dv2 = device' /\ nm2 = names'  OBVIOUS
<1>8. AddsPlain(Machine, device, names, r, added, dv2, nm2)
  <2>1. own = <<r.class, r.nr>> /\ own \in added  BY <1>4, <1>6
  <2>2. \A b \in added : b = own \/ b = ConsoleName  BY <1>4
  <2>3. r.class \notin {"pci", "ata", "atactl"} /\ r.nr = Cardinality(OfClass(device, r.class))  BY <1>3, <1>6 DEF PlainClass
  <2>4. \A b \in added : b = <<r.class, r.nr>> \/ b = ConsoleName \/ NamesPartition(device, dv2, b)  BY <2>1, <2>2
  <2> QED  BY <1>5, <1>6, <1>7, <2>1, <2>3, <2>4 DEF AddsPlain
<1>9. PartitionFits(Machine, device, r, calls)  BY <1>6 DEF PartitionFits, PlainClass
<1>10. PlainAdded(Machine, device, names, calls, answer, r, added, dv2, nm2)  BY <1>8, <1>9, PlainOk DEF TreeInv
<1>11. OneMore(class, hw)  BY <1>1, <1>3, <1>6, <1>7, <1>10 DEF PlainAdded, Grown, OneMore
<1> QED  BY <1>7, <1>10, <1>11 DEF PlainAdded, TreeInv

\* The bus that probing begins with.
LEMMA FirstBus ==
    ASSUME NEW m, IsMachine(m), NEW dv, NEW nm, TreeOk(m, dv, nm, <<>>, "none"),
           NEW f, f = [kind |-> "bus", hw |-> 0, dev |-> 0, at |-> 0, fn |-> 0, ok |-> TRUE], NEW cs2, cs2 = <<f>>
    PROVE  TreeOk(m, dv, nm, cs2, "none")
<1>0. 0 \in DOMAIN m /\ 0 \in Buses(m) /\ 0 \in Hardware(m) /\ Slots \in Nat /\ Funcs \in Nat \ {0}
  BY TreeAssumption DEF IsMachine, Buses, Hardware
<1>1. /\ f \in FrameType(m) /\ f.kind = "bus" /\ f.hw = 0 /\ f.dev = 0 /\ f.at = 0 /\ f.fn = 0 /\ f.ok
  BY <1>0 DEF FrameType, Kinds
<1>2. cs2 \in Seq(FrameType(m)) /\ Len(cs2) = 1 /\ DOMAIN cs2 = {1} /\ cs2[1] = f /\ cs2 # <<>>
  BY <1>1
<1>3. FrameSound(m, dv, nm, f)
  <2>1. \A x \in DOMAIN m[0].bus : x[1] \in Nat /\ x[2] \in Nat
    <3>1. \A x \in DOMAIN m[0].bus : x \in (0..(Slots - 1)) \X (0..(Funcs - 1))  BY <1>0 DEF IsMachine
    <3> QED  BY <1>0, <3>1
  <2>2. BeforeSlot(m, dv, 0, 0, 0)  BY <2>1 DEF BeforeSlot
  <2> QED  BY <1>0, <1>1, <2>2 DEF FrameSound
<1>4. CallsSound(m, dv, nm, cs2)
  <2>1. \A d \in DOMAIN dv : dv[d].st # "init"
    <3>1. CallsSound(m, dv, nm, <<>>)  BY DEF TreeOk
    <3>2. PICK e : e = <<>>  OBVIOUS
    <3>3. DOMAIN e = {}  BY <3>2
    <3>4. CallsSound(m, dv, nm, e)  BY <3>1, <3>2
    <3> QED  BY <3>3, <3>4 DEF CallsSound
  <2>2. \A i \in DOMAIN cs2 : i = 1 /\ i + 1 \notin DOMAIN cs2  BY <1>2
  <2>3. \A i \in DOMAIN cs2 : cs2[i] = f /\ i = Len(cs2)  BY <1>2, <2>2
  <2>4. \A i \in DOMAIN cs2 : FrameSound(m, dv, nm, cs2[i]) /\ (cs2[i].dev = 0 <=> i = Len(cs2))  BY <1>1, <1>3, <2>3
  <2>5. \A i, j \in DOMAIN cs2 : cs2[i].dev = cs2[j].dev => i = j  BY <2>2
  <2> QED  BY <2>1, <2>2, <2>4, <2>5 DEF CallsSound
<1>5. FailureKnown(dv, cs2, "none")
  <2>1. \A d \in DOMAIN dv : ~(dv[d].st = "deleted" /\ dv[d].class # "ata")
    <3>1. FailureKnown(dv, <<>>, "none")  BY DEF TreeOk
    <3>2. PICK e : e = <<>>  OBVIOUS
    <3>3. DOMAIN e = {}  BY <3>2
    <3>4. FailureKnown(dv, e, "none")  BY <3>1, <3>2
    <3> QED  BY <3>3, <3>4 DEF FailureKnown
  <2> QED  BY <2>1 DEF FailureKnown
<1>6. AnswerSound(m, dv, cs2, "none")  BY DEF AnswerSound
<1>7. TreeTypes(m, dv, nm, cs2, "none")  BY <1>2 DEF TreeTypes, TreeOk
<1> QED  BY <1>4, <1>5, <1>6, <1>7 DEF TreeOk

\* The devices of the platform come in order.
PlatformNextIs(s, next) ==
    /\ s = "timer" => /\ Done(s) = Len(device) /\ Len(device) \in 0..3 /\ next.class = TimerClass[Len(device) + 1]
                      /\ Len(PlatformDevices[s]) = 4
    /\ s = "console" => /\ Done(s) = Len(device) - 4 /\ Len(device) \in 4..9 /\ next.class = ConsoleClass[Len(device) - 3]
                        /\ Len(PlatformDevices[s]) = 6
    /\ next.class \in PlainClass
    /\ \A c \in next.needs : try_get_device_by_class(c)

LEMMA PlatformNext ==
    ASSUME TreeInv, StageInv, NEW s \in {"timer", "console"}, stage = s, NEW next, next = PlatformDevices[s][Done(s) + 1]
    PROVE  PlatformNextIs(s, next)
<1>1. device \in Seq(DeviceType(Machine)) /\ Len(device) \in Nat /\ DOMAIN device = 1..Len(device)
  BY LenProperties DEF TreeInv, TreeOk, TreeTypes
<1>2. CASE s = "timer"
  <2>1. Len(device) < 4 /\ \A d \in 1..Len(device) : device[d].class = TimerClass[d] /\ device[d].hw = "timer"
    BY <1>2 DEF StageInv, FirstAre
  <2>2. Done(s) = Len(device)
    <3>1. {d \in DOMAIN device : device[d].hw = s} = 1..Len(device)  BY <1>1, <1>2, <2>1
    <3>2. Cardinality(1..Len(device)) = Len(device)
      <4>1. PICK b : b = Len(device)  OBVIOUS
      <4>2. b \in Nat /\ 1 \in Int /\ b \in Int  BY <1>1, <4>1
      <4>3. Cardinality(1..b) = IF 1 > b THEN 0 ELSE (b - 1) + 1  BY <4>2, FS_Interval
      <4> QED  BY <4>1, <4>2, <4>3
    <3> QED  BY <3>1, <3>2 DEF Done
  <2>3. PlatformDevices[s] = <<[class |-> "lapic", needs |-> {}], [class |-> "ioapic", needs |-> {}], [class |-> "pit", needs |-> {}],
                 [class |-> "lapic-timer", needs |-> {"lapic", "pit"}]>>
    BY <1>2 DEF PlatformDevices
  <2>4. PICK k \in 0..3 : k = Len(device)  BY <1>1, <2>1
  <2>5. next.class = TimerClass[k + 1] /\ next.class \in PlainClass /\ (k < 3 => next.needs = {}) /\ (k = 3 => next.needs = {"lapic", "pit"})
    <3>1. k = 0 \/ k = 1 \/ k = 2 \/ k = 3
      <4>1. \A j \in 0..3 : j = 0 \/ j = 1 \/ j = 2 \/ j = 3  OBVIOUS
      <4> QED  BY <2>4, <4>1
    <3>2. PICK seq : seq = PlatformDevices[s]  OBVIOUS
    <3>3. next = seq[k + 1]  BY <2>2, <2>4, <3>2
    <3> QED  BY <2>3, <3>1, <3>2, <3>3 DEF TimerClass, PlainClass, Class
  <2>6. \A c \in next.needs : try_get_device_by_class(c)
    <3>1. CASE k < 3  BY <2>5, <3>1
    <3>2. CASE k = 3
      <4>1. device[1].class = "lapic" /\ device[3].class = "pit" /\ 1 \in DOMAIN device /\ 3 \in DOMAIN device
        BY <1>1, <2>1, <2>4, <3>2 DEF TimerClass
      <4> QED  BY <2>5, <3>2, <4>1 DEF try_get_device_by_class
    <3> QED  BY <2>4, <3>1, <3>2
  <2> QED  BY <1>2, <2>2, <2>3, <2>4, <2>5, <2>6 DEF PlatformNextIs
<1>3. CASE s = "console"
  <2>1. /\ Len(device) >= 4 /\ Len(device) < 10
        /\ \A d \in 1..4 : device[d].class = TimerClass[d] /\ device[d].hw = "timer"
        /\ \A d \in 1..(Len(device) - 4) : device[d + 4].class = ConsoleClass[d] /\ device[d + 4].hw = "console"
    BY <1>3 DEF StageInv, FirstAre
  <2>2. Done(s) = Len(device) - 4
    <3>1. \A d \in 5..Len(device) : device[d].hw = "console"
      <4> TAKE d \in 5..Len(device)
      <4>1. PICK k \in 1..(Len(device) - 4) : k + 4 = d
        <5>1. Len(device) \in Nat /\ d \in Int /\ d >= 5 /\ d <= Len(device)  BY <1>1
        <5>2. PICK k \in Int : k = d - 4  BY <5>1
        <5> QED  BY <5>1, <5>2
      <4>2. device[k + 4].hw = "console"  BY <2>1, <4>1
      <4> QED  BY <4>1, <4>2
    <3>2. {d \in DOMAIN device : device[d].hw = s} = 5..Len(device)
      <4>1. \A d \in DOMAIN device : d \in 1..4 \/ d \in 5..Len(device)  BY <1>1
      <4>2. \A d \in DOMAIN device : device[d].hw = "console" <=> d \in 5..Len(device)  BY <1>1, <2>1, <3>1, <4>1
      <4>3. 5..Len(device) \subseteq DOMAIN device  BY <1>1
      <4> QED  BY <1>3, <4>2, <4>3
    <3>3. Cardinality(5..Len(device)) = Len(device) - 4
      <4>1. PICK b : b = Len(device)  OBVIOUS
      <4>2. b \in Int /\ 5 \in Int /\ b >= 4  BY <1>1, <2>1, <4>1
      <4>3. Cardinality(5..b) = IF 5 > b THEN 0 ELSE (b - 5) + 1  BY <4>2, FS_Interval
      <4> QED  BY <4>1, <4>2, <4>3
    <3> QED  BY <3>2, <3>3 DEF Done
  <2>3. PlatformDevices[s] = <<[class |-> "vga", needs |-> {}], [class |-> "kbd", needs |-> {"ioapic"}], [class |-> "tty", needs |-> {}],
                   [class |-> "tty", needs |-> {}], [class |-> "vc", needs |-> {}], [class |-> "vc", needs |-> {}]>>
    BY <1>3 DEF PlatformDevices
  <2>0. Len(device) >= 4 /\ Len(device) < 10 /\ Len(device) \in Nat  BY <1>1, <2>1
  <2>4. PICK k \in 0..5 : k = Len(device) - 4
    <3>1. PICK n \in Nat : n = Len(device)  BY <2>0
    <3>2. n >= 4 /\ n < 10  BY <2>0, <3>1
    <3>3. n - 4 \in 0..5  BY <3>2
    <3> QED  BY <3>1, <3>3
  <2>5. next.class = ConsoleClass[k + 1] /\ next.class \in PlainClass /\ next.needs \subseteq {"ioapic"}
    <3>1. k = 0 \/ k = 1 \/ k = 2 \/ k = 3 \/ k = 4 \/ k = 5
      <4>1. \A j \in 0..5 : j = 0 \/ j = 1 \/ j = 2 \/ j = 3 \/ j = 4 \/ j = 5  OBVIOUS
      <4> QED  BY <2>4, <4>1
    <3>2. PICK seq : seq = PlatformDevices[s]  OBVIOUS
    <3>3. next = seq[k + 1]  BY <2>2, <2>4, <3>2
    <3> QED  BY <2>3, <3>1, <3>2, <3>3 DEF ConsoleClass, PlainClass, Class
  <2>6. \A c \in next.needs : try_get_device_by_class(c)
    <3>1. device[2].class = "ioapic" /\ 2 \in DOMAIN device  BY <1>1, <2>1 DEF TimerClass
    <3> QED  BY <2>5, <3>1 DEF try_get_device_by_class
  <2>7. k + 1 = Len(device) - 3 /\ Len(device) \in 4..9  BY <2>0, <2>4
  <2> QED  BY <1>3, <2>2, <2>3, <2>5, <2>6, <2>7 DEF PlatformNextIs
<1> QED  BY <1>2, <1>3

MachineInv == Machine \in Machines /\ firmware \in Firmwares

LEMMA PlatformStep ==
    ASSUME TreeInv, StageInv, NEW s \in {"timer", "console"}, RegisterPlatform(s), NEW next, next = PlatformDevices[s][Done(s) + 1]
    PROVE  /\ stage = s /\ UNCHANGED <<Machine, firmware, acpi>> /\ PlatformNextIs(s, next)
           /\ \/ s = "timer" /\ stage' = "aborted" /\ cause' = "apic" /\ UNCHANGED <<device, names, calls, answer>>
              \/ /\ s = "timer" => firmware.apic
                 /\ stage' = (IF Done(s) + 1 = Len(PlatformDevices[s]) THEN AfterDevices[s] ELSE s) /\ cause' = cause
                 /\ UNCHANGED <<calls, answer>>
                 /\ TreeInv' /\ OneMore(next.class, s)
<1>1. stage = s /\ UNCHANGED <<Machine, firmware, acpi>>  BY DEF RegisterPlatform, Rest
<1>2. PlatformNextIs(s, next)  BY <1>1, PlatformNext
<1>3. CASE s = "timer" /\ ~firmware.apic
  BY <1>1, <1>2, <1>3 DEF RegisterPlatform, Abort, KeepTree
<1>4. CASE ~(s = "timer" /\ ~firmware.apic)
  <2>1. ~(\E c \in next.needs : ~try_get_device_by_class(c)) /\ next.class \in PlainClass  BY <1>2 DEF PlatformNextIs
  <2>2. PICK alias : alias = IF next.class = "tty" /\ acquire_instance("tty") = 0 THEN {<<"console">>} ELSE {}  OBVIOUS
  <2>3. alias \subseteq {ConsoleName}  BY <2>2 DEF ConsoleName
  <2>4. /\ GoOn(IF Done(s) + 1 = Len(PlatformDevices[s]) THEN AfterDevices[s] ELSE s)
        /\ RegisterPlain(next.class, s, 0, alias)
        /\ UNCHANGED <<calls, answer>>
    BY <1>4, <2>1, <2>2 DEF RegisterPlatform
  <2>5. PICK class \in PlainClass : class = next.class  BY <2>1
  <2>6. s \in {"timer", "console", "extra"} /\ RegisterPlain(class, s, 0, alias)  BY <2>4, <2>5
  <2>7. TreeInv' /\ OneMore(class, s)  BY <1>1, <2>3, <2>4, <2>6, PlatformOk
  <2> QED  BY <1>1, <1>2, <1>4, <2>4, <2>5, <2>7 DEF GoOn
<1> QED  BY <1>3, <1>4

LEMMA TreeSteps ==
    ASSUME MachinesConform, TreeInv, StageInv, MachineInv, [BootNext]_bootVars
    PROVE  TreeInv' /\ MachineInv'
<1>k. ASSUME UNCHANGED <<Machine, device, names, calls, answer>> PROVE TreeInv'  BY <1>k DEF TreeInv
<1>r. ASSUME Rest PROVE MachineInv'  BY <1>r DEF MachineInv, Rest
<1>1. CASE \/ Start32 \/ Fixup \/ Platform \/ AddBlock \/ InitPages \/ LocateTables \/ ParseRecord \/ ParseTable
           \/ InitModules \/ InitScheduler \/ ActivateConsole \/ StartKernel
  <2>1. Rest /\ UNCHANGED <<device, names, calls, answer>>
    BY <1>1 DEF Start32, Fixup, Platform, AddBlock, InitPages, LocateTables, ParseRecord, ParseTable, InitModules, InitScheduler,
                ActivateConsole, StartKernel, KeepTree
  <2> QED  BY <1>k, <1>r, <2>1 DEF Rest
<1>2. CASE \E s \in DOMAIN AfterDevices : RegisterPlatform(s)
  <2>1. PICK s \in {"timer", "console"} : RegisterPlatform(s)  BY <1>2 DEF AfterDevices
  <2>2. PICK next : next = PlatformDevices[s][Done(s) + 1]  OBVIOUS
  <2>3. TreeInv'
    <3>1. UNCHANGED <<Machine, device, names, calls, answer>> \/ TreeInv'  BY <2>1, <2>2, PlatformStep
    <3> QED  BY <1>k, <3>1
  <2>4. Rest  BY <2>1 DEF RegisterPlatform
  <2> QED  BY <1>r, <2>3, <2>4
<1>3. CASE ProbeBus
  <2>1. Rest /\ UNCHANGED <<device, names, answer>> /\ calls = <<>> /\ answer = "none"
    BY <1>3 DEF ProbeBus, StageInv, StagesOfProbing
  <2>2. PICK f, cs2 : f = [kind |-> "bus", hw |-> 0, dev |-> 0, at |-> 0, fn |-> 0, ok |-> TRUE] /\ cs2 = <<f>>  OBVIOUS
  <2>3. calls' = cs2  BY <1>3, <2>2 DEF ProbeBus
  <2>4. TreeOk(Machine, device, names, <<>>, "none") /\ IsMachine(Machine)  BY <2>1, TreeAssumption DEF TreeInv, MachineInv
  <2>5. TreeOk(Machine, device, names, cs2, "none")  BY <2>2, <2>4, FirstBus
  <2> QED  BY <1>r, <2>1, <2>3, <2>5 DEF TreeInv, Rest
<1>4. CASE Probe
  <2>1. Rest /\ TreeStep  BY <1>4 DEF Probe
  <2>2. TreeInv'  BY <2>1, ProbingSteps DEF Rest, MachineInv
  <2> QED  BY <1>r, <2>1, <2>2
<1>5. CASE ProbedBus
  <2>1. Rest /\ UNCHANGED <<calls, answer>>  BY <1>5 DEF ProbedBus
  <2>2. CASE answer = "no"
    <3>1. UNCHANGED <<device, names>>  BY <1>5, <2>2 DEF ProbedBus
    <3> QED  BY <1>k, <1>r, <2>1, <3>1 DEF Rest
  <2>3. CASE answer # "no"
    <3>1. PICK class, hw, alias : class = "rtc" /\ hw = "extra" /\ alias = {}  OBVIOUS
    <3>2. class \in PlainClass /\ hw \in {"timer", "console", "extra"} /\ alias \subseteq {ConsoleName}
      BY <3>1 DEF PlainClass, Class
    <3>3. RegisterPlain(class, hw, 0, alias)  BY <1>5, <2>3, <3>1 DEF ProbedBus
    <3>4. TreeInv'  BY <2>1, <3>2, <3>3, PlatformOk DEF Rest
    <3> QED  BY <1>r, <2>1, <3>4
  <2> QED  BY <2>2, <2>3
<1>6. CASE UNCHANGED bootVars  BY <1>6 DEF bootVars, treeVars, TreeInv, MachineInv
<1> QED  BY <1>1, <1>2, <1>3, <1>4, <1>5, <1>6 DEF BootNext

\* ACPI.
LEMMA AcpiSteps ==
    ASSUME AcpiInv, StageInv, MachineInv, [BootNext]_bootVars
    PROVE  AcpiInv'
<1>t. /\ acpi \in [table : Nat \ {0}, record : Nat \ {0}, ioapic : Nat] /\ acpi.table \in Nat \ {0}
      /\ acpi.record \in Nat \ {0} /\ acpi.ioapic \in Nat
  BY DEF AcpiInv
<1>f. /\ firmware.tables \in Seq(AcpiTable) /\ Len(firmware.tables) \in Nat /\ DOMAIN firmware.tables = 1..Len(firmware.tables)
      /\ \A t \in DOMAIN firmware.tables :
            /\ firmware.tables[t].records \in Seq(Nat)
            /\ DOMAIN firmware.tables[t].records = 1..Len(firmware.tables[t].records)
            /\ Len(firmware.tables[t].records) \in Nat
            /\ \A k \in DOMAIN firmware.tables[t].records : firmware.tables[t].records[k] \in Nat
  <2>1. firmware.tables \in Seq(AcpiTable)  BY BootAssumption DEF MachineInv, IsFirmware
  <2>2. Len(firmware.tables) \in Nat /\ DOMAIN firmware.tables = 1..Len(firmware.tables)  BY <2>1, LenProperties
  <2>3. \A t \in DOMAIN firmware.tables : firmware.tables[t].records \in Seq(Nat)
    <3>1. \A t \in DOMAIN firmware.tables : firmware.tables[t] \in AcpiTable  BY <2>1, <2>2, ElementOfSeq
    <3> QED  BY <3>1 DEF AcpiTable
  <2>4. ASSUME NEW t \in DOMAIN firmware.tables
        PROVE  /\ DOMAIN firmware.tables[t].records = 1..Len(firmware.tables[t].records)
               /\ Len(firmware.tables[t].records) \in Nat
               /\ \A k \in DOMAIN firmware.tables[t].records : firmware.tables[t].records[k] \in Nat
    <3>1. PICK u : u = firmware.tables[t].records  OBVIOUS
    <3>2. u \in Seq(Nat)  BY <2>3, <3>1
    <3>3. DOMAIN u = 1..Len(u) /\ Len(u) \in Nat  BY <3>2, LenProperties
    <3>4. \A k \in DOMAIN u : u[k] \in Nat  BY <3>2, <3>3, ElementOfSeq
    <3> QED  BY <3>1, <3>3, <3>4
  <2> QED  BY <2>1, <2>2, <2>3, <2>4
<1>i. \A x : x \in IoApics <=> /\ x[1] \in Madts /\ x = <<x[1], x[2]>>
                               /\ x[2] \in DOMAIN firmware.tables[x[1]].records /\ firmware.tables[x[1]].records[x[2]] # 0
  BY DEF IoApics
<1>n. \A x \in IoApics : x[1] \in Nat /\ x[2] \in Nat /\ x[2] >= 1 /\ x[1] \in DOMAIN firmware.tables
  BY <1>f, <1>i DEF Madts
<1>u. UNCHANGED firmware => IoApics' = IoApics /\ Madts' = Madts  BY DEF IoApics, Madts
<1>k. ASSUME UNCHANGED <<acpi, firmware>>, stage' \in PastTables => stage \in PastTables,
             stage' # "aborted" => stage # "aborted"
      PROVE  AcpiInv'
  BY <1>k, <1>u DEF AcpiInv, Seen
<1>1. CASE \/ Start32 \/ Fixup \/ Platform \/ AddBlock \/ InitPages \/ LocateTables
           \/ InitModules \/ InitScheduler \/ ActivateConsole \/ StartKernel \/ ProbeBus \/ Probe \/ ProbedBus
  <2>1. UNCHANGED <<acpi, firmware>>
    BY <1>1 DEF Start32, Fixup, Platform, AddBlock, InitPages, LocateTables, InitModules, InitScheduler,
                ActivateConsole, StartKernel, ProbeBus, Probe, ProbedBus, Rest
  <2>2. (stage' \in PastTables => stage \in PastTables) /\ stage # "aborted"
    BY <1>1 DEF Start32, Fixup, Platform, AddBlock, InitPages, LocateTables, InitModules, InitScheduler,
                ActivateConsole, StartKernel, ProbeBus, Probe, ProbedBus, GoOn, Abort, Unless, PastTables
  <2> QED  BY <1>k, <2>1, <2>2
<1>2. CASE \E s \in DOMAIN AfterDevices : RegisterPlatform(s)
  <2>1. PICK s \in {"timer", "console"} : RegisterPlatform(s)  BY <1>2 DEF AfterDevices
  <2>2. UNCHANGED <<acpi, firmware>> /\ stage = s  BY <2>1 DEF RegisterPlatform, Rest
  <2>3. stage \in PastTables /\ stage # "aborted"  BY <2>2 DEF PastTables
  <2> QED  BY <1>k, <2>2, <2>3
<1>3. CASE ParseRecord
  <2>1. /\ stage = "tables" /\ acpi.table <= Len(firmware.tables) /\ UNCHANGED firmware
        /\ Table.valid /\ Table.madt /\ acpi.record <= Len(Table.records)
    BY <1>3 DEF ParseRecord, Rest
  <2>2. PICK r, t, rc : r = Table.records[acpi.record] /\ t = acpi.table /\ rc = acpi.record  OBVIOUS
  <2>3. /\ t \in DOMAIN firmware.tables /\ rc \in DOMAIN firmware.tables[t].records /\ r = firmware.tables[t].records[rc] /\ r \in Nat
        /\ t \in Madts
    BY <1>f, <1>t, <2>1, <2>2 DEF Table, Madts
  <2>4. acpi' = [acpi EXCEPT !.record = @ + 1, !.ioapic = IF r # 0 /\ @ = 0 THEN r ELSE @]
    BY <1>3, <2>2 DEF ParseRecord
  <2>5. /\ acpi' \in [table : Nat \ {0}, record : Nat \ {0}, ioapic : Nat]
        /\ acpi'.table = t /\ acpi'.record = rc + 1 /\ acpi'.ioapic = IF r # 0 /\ acpi.ioapic = 0 THEN r ELSE acpi.ioapic
    <3>1. PICK j \in Nat \ {0} : j = acpi.record + 1  BY <1>t
    <3>2. PICK io \in Nat : io = IF r # 0 /\ acpi.ioapic = 0 THEN r ELSE acpi.ioapic  BY <1>t, <2>3
    <3>3. acpi' = [acpi EXCEPT !.record = j, !.ioapic = io]  BY <2>4, <3>1, <3>2
    <3>4. PICK a : a = [acpi EXCEPT !.record = j]  OBVIOUS
    <3>5. a \in [table : Nat \ {0}, record : Nat \ {0}, ioapic : Nat] /\ a.table = acpi.table /\ a.record = j  BY <1>t, <3>4
    <3>6. acpi' = [a EXCEPT !.ioapic = io]  BY <3>3, <3>4, Zenon
    <3>7. acpi' \in [table : Nat \ {0}, record : Nat \ {0}, ioapic : Nat] /\ acpi'.table = a.table /\ acpi'.record = j /\ acpi'.ioapic = io
      BY <3>5, <3>6
    <3> QED  BY <2>2, <3>1, <3>2, <3>5, <3>7
  <2>6. CASE r # 0 /\ acpi.ioapic # 0
    <3>1. stage' = "aborted"  BY <1>3, <2>2, <2>6 DEF ParseRecord, Unless, Abort
    <3> QED  BY <2>5, <3>1 DEF AcpiInv, PastTables
  <2>7. CASE ~(r # 0 /\ acpi.ioapic # 0)
    <3>1. stage' = "tables"  BY <1>3, <2>2, <2>7 DEF ParseRecord, Unless, GoOn
    <3>2. \A x \in IoApics : Seen(x)' => Seen(x) \/ (x = <<t, rc>> /\ r # 0)
      <4> TAKE x \in IoApics
      <4>1. x[1] \in Nat /\ x[2] \in Nat /\ x = <<x[1], x[2]>> /\ firmware.tables[x[1]].records[x[2]] # 0  BY <1>i, <1>n
      <4>2. Seen(x)' <=> (x[1] < t \/ (x[1] = t /\ x[2] < rc + 1))  BY <2>5 DEF Seen
      <4>3. Seen(x) <=> (x[1] < t \/ (x[1] = t /\ x[2] < rc))  BY <2>2 DEF Seen
      <4> QED  BY <1>t, <2>2, <2>3, <4>1, <4>2, <4>3
    <3>3. CASE r = 0
      <4>1. \A x \in IoApics : Seen(x)' => Seen(x)  BY <3>2, <3>3
      <4>2. acpi'.ioapic = acpi.ioapic  BY <2>5, <3>3
      <4>3. \/ acpi'.ioapic = 0 /\ \A x \in IoApics : ~Seen(x)'
            \/ \E y \in IoApics : acpi'.ioapic = firmware.tables[y[1]].records[y[2]] /\ \A x \in IoApics : Seen(x)' => x = y
        BY <2>1, <4>1, <4>2 DEF AcpiInv
      <4> QED  BY <1>u, <2>1, <2>5, <3>1, <4>3 DEF AcpiInv, PastTables
    <3>4. CASE r # 0
      <4>1. acpi.ioapic = 0 /\ acpi'.ioapic = r  BY <2>5, <2>7, <3>4
      <4>2. \A x \in IoApics : ~Seen(x)
        <5>1. \A y \in IoApics : firmware.tables[y[1]].records[y[2]] # 0  BY <1>i
        <5> QED  BY <2>1, <4>1, <5>1 DEF AcpiInv
      <4>3. PICK y : y = <<t, rc>>  OBVIOUS
      <4>4. y[1] = t /\ y[2] = rc  BY <4>3
      <4>5. y \in IoApics  BY <1>i, <2>3, <3>4, <4>3, <4>4
      <4>6. \A x \in IoApics : Seen(x)' => x = y  BY <3>2, <4>2, <4>3
      <4>7. \E z \in IoApics : acpi'.ioapic = firmware.tables[z[1]].records[z[2]] /\ \A x \in IoApics : Seen(x)' => x = z
        BY <2>3, <4>1, <4>4, <4>5, <4>6
      <4> QED  BY <1>u, <2>1, <2>5, <3>1, <4>7 DEF AcpiInv, PastTables
    <3> QED  BY <3>3, <3>4
  <2> QED  BY <2>6, <2>7
<1>4. CASE ParseTable
  <2>1. stage = "tables" /\ UNCHANGED firmware  BY <1>4 DEF ParseTable, Rest
  <2>2. CASE acpi.table > Len(firmware.tables) /\ GoOn("modules") /\ UNCHANGED acpi
    <3>1. stage' = "modules" /\ stage # "aborted" /\ acpi'.table > Len(firmware'.tables)  BY <2>1, <2>2 DEF GoOn
    <3> QED  BY <1>u, <2>1, <2>2, <3>1 DEF AcpiInv, Seen
  <2>3. CASE /\ acpi.table <= Len(firmware.tables)
             /\ Table.valid /\ Table.madt => acpi.record > Len(Table.records)
             /\ acpi' = [acpi EXCEPT !.table = @ + 1, !.record = 1] /\ GoOn("tables")
    <3>1. stage' = "tables"  BY <2>3 DEF GoOn
    <3>2. /\ acpi' \in [table : Nat \ {0}, record : Nat \ {0}, ioapic : Nat]
          /\ acpi'.table = acpi.table + 1 /\ acpi'.record = 1 /\ acpi'.ioapic = acpi.ioapic
      <4>1. PICK j \in Nat \ {0} : j = acpi.table + 1  BY <1>t
      <4>2. PICK a : a = [acpi EXCEPT !.table = j]  OBVIOUS
      <4>3. a \in [table : Nat \ {0}, record : Nat \ {0}, ioapic : Nat] /\ a.ioapic = acpi.ioapic /\ a.table = j  BY <1>t, <4>2
      <4>4. acpi' = [[acpi EXCEPT !.table = j] EXCEPT !.record = 1]  BY <2>3, <4>1
      <4>5. acpi' = [a EXCEPT !.record = 1]  BY <4>2, <4>4, Zenon
      <4>6. acpi' \in [table : Nat \ {0}, record : Nat \ {0}, ioapic : Nat] /\ acpi'.table = a.table /\ acpi'.record = 1
            /\ acpi'.ioapic = a.ioapic
        BY <4>3, <4>5
      <4> QED  BY <4>1, <4>3, <4>6
    <3>3. \A x \in IoApics : Seen(x)' => Seen(x)
      <4> TAKE x \in IoApics
      <4>1. /\ x[1] \in Nat /\ x[2] \in Nat /\ x[2] >= 1 /\ x[1] \in Madts /\ x[1] \in DOMAIN firmware.tables
            /\ x[2] \in DOMAIN firmware.tables[x[1]].records
        BY <1>i, <1>n
      <4>2. Seen(x)' <=> (x[1] < acpi.table + 1 \/ (x[1] = acpi.table + 1 /\ x[2] < 1))  BY <3>2 DEF Seen
      <4>3. x[1] = acpi.table => x[2] < acpi.record
        <5>1. SUFFICES ASSUME x[1] = acpi.table PROVE x[2] < acpi.record  OBVIOUS
        <5>2. acpi.record > Len(firmware.tables[x[1]].records)  BY <2>3, <4>1, <5>1 DEF Madts, Table
        <5>3. x[2] <= Len(firmware.tables[x[1]].records) /\ Len(firmware.tables[x[1]].records) \in Nat  BY <1>f, <4>1
        <5> QED  BY <1>t, <4>1, <5>2, <5>3
      <4> QED  BY <1>t, <4>1, <4>2, <4>3 DEF Seen
    <3>4. \/ acpi'.ioapic = 0 /\ \A x \in IoApics : ~Seen(x)'
          \/ \E y \in IoApics : acpi'.ioapic = firmware.tables[y[1]].records[y[2]] /\ \A x \in IoApics : Seen(x)' => x = y
      BY <2>1, <3>2, <3>3 DEF AcpiInv
    <3> QED  BY <1>u, <2>1, <3>1, <3>2, <3>4 DEF AcpiInv, PastTables
  <2> QED  BY <1>4, <2>2, <2>3 DEF ParseTable
<1>5. CASE UNCHANGED bootVars  BY <1>5, <1>u DEF bootVars, AcpiInv, Seen
<1> QED  BY <1>1, <1>2, <1>3, <1>4, <1>5 DEF BootNext

\* The stages.
LEMMA ProbingAnswers ==
    ASSUME TreeInv, Machine \in Machines, TreeStep, calls' = <<>>
    PROVE  answer' # "none"
<1>0. \A f, t : <<f>> \o t # <<>>  OBVIOUS
<1>1. ASSUME NEW f, Become(f) PROVE FALSE  BY <1>0, <1>1 DEF Become
<1>2. ASSUME NEW class, NEW kind, NEW hw, RegisterBelow(class, kind, hw) PROVE FALSE  BY <1>0, <1>2 DEF RegisterBelow, Call
<1>3. ASSUME NEW ok, Return(ok) PROVE answer' # "none"  BY <1>3 DEF Return
<1>4. CASE ProbeFunc  BY <1>1, <1>2, <1>4 DEF ProbeFunc
<1>5. CASE ProbedFunc  BY <1>1, <1>5 DEF ProbedFunc
<1>6. CASE EndOfBus \/ InitPlain \/ ControllerReady \/ EndOfController \/ EndOfPartitions
  BY <1>3, <1>6 DEF EndOfBus, InitPlain, ControllerReady, EndOfController, EndOfPartitions
<1>7. CASE InitBridge  BY <1>1, <1>3, <1>7 DEF InitBridge
<1>8. CASE InitStorage  BY <1>2, <1>3, <1>8 DEF InitStorage
<1>9. CASE ProbeDevice \/ ProbedDevice \/ CreatePartition
  BY <1>1, <1>2, <1>9 DEF ProbeDevice, ProbedDevice, CreatePartition
<1>10. CASE InitDisk  BY <1>1, <1>3, <1>10 DEF InitDisk
<1> QED  BY <1>4, <1>5, <1>6, <1>7, <1>8, <1>9, <1>10 DEF TreeStep

LEMMA Numbers ==
    ASSUME NEW dv, NEW n \in 6..9, DOMAIN dv = 1..n, FirstAre(dv, 4, n - 4)
    PROVE  Cardinality(OfClass(dv, ConsoleClass[n - 3])) = IF n + 1 \in {7, 9} THEN 0 ELSE 1
<1>1. /\ dv[1].class = "lapic" /\ dv[2].class = "ioapic" /\ dv[3].class = "pit" /\ dv[4].class = "lapic-timer"
  BY DEF FirstAre, TimerClass
<1>2. \A d \in 1..(n - 4) : dv[d + 4].class = ConsoleClass[d]  BY DEF FirstAre
<1>3. /\ dv[5].class = "vga" /\ dv[6].class = "kbd" /\ (n >= 7 => dv[7].class = "tty") /\ (n >= 8 => dv[8].class = "tty")
      /\ (n >= 9 => dv[9].class = "vc")
  <2>1. dv[1 + 4].class = ConsoleClass[1] /\ dv[2 + 4].class = ConsoleClass[2]  BY <1>2
  <2>2. n >= 7 => dv[3 + 4].class = ConsoleClass[3]  BY <1>2
  <2>3. n >= 8 => dv[4 + 4].class = ConsoleClass[4]  BY <1>2
  <2>4. n >= 9 => dv[5 + 4].class = ConsoleClass[5]  BY <1>2
  <2> QED  BY <2>1, <2>2, <2>3, <2>4 DEF ConsoleClass
<1>4. n = 6 \/ n = 7 \/ n = 8 \/ n = 9  OBVIOUS
<1>5. \A d \in 1..n : d = 1 \/ d = 2 \/ d = 3 \/ d = 4 \/ d = 5 \/ d = 6 \/ d = 7 \/ d = 8 \/ d = 9  BY <1>4
<1>6. CASE n = 6
  <2>1. OfClass(dv, "tty") = {}  BY <1>1, <1>3, <1>5, <1>6 DEF OfClass
  <2> QED  BY <1>6, <2>1, FS_EmptySet DEF ConsoleClass
<1>7. CASE n = 7
  <2>1. OfClass(dv, "tty") = {7}  BY <1>1, <1>3, <1>5, <1>7 DEF OfClass
  <2> QED  BY <1>7, <2>1, FS_Singleton DEF ConsoleClass
<1>8. CASE n = 8
  <2>1. OfClass(dv, "vc") = {}  BY <1>1, <1>3, <1>5, <1>8 DEF OfClass
  <2> QED  BY <1>8, <2>1, FS_EmptySet DEF ConsoleClass
<1>9. CASE n = 9
  <2>1. OfClass(dv, "vc") = {9}  BY <1>1, <1>3, <1>5, <1>9 DEF OfClass
  <2> QED  BY <1>9, <2>1, FS_Singleton DEF ConsoleClass
<1> QED  BY <1>4, <1>6, <1>7, <1>8, <1>9

LEMMA StageSteps ==
    ASSUME TreeInv, StageInv, MachineInv, TreeInv', [BootNext]_bootVars
    PROVE  StageInv'
<1> USE DEF Stages, PastTables, PastTimer, BeforeConsole, Early, StagesOfProbing
<1>f. firmware.modules \in Nat /\ firmware.algorithm \in BOOLEAN /\ firmware.apic \in BOOLEAN
  BY BootAssumption DEF MachineInv, IsFirmware
<1>1. CASE Start32 \/ Fixup \/ Platform \/ AddBlock
  <2>1. stage \in Early /\ stage' \in Early /\ UNCHANGED <<cause, firmware, device, names, calls, answer>>
    BY <1>1 DEF Start32, Fixup, Platform, AddBlock, GoOn, KeepTree, Rest
  <2> QED  BY <2>1 DEF StageInv
<1>a. ASSUME stage' = "aborted", cause' \in {"memory", "acpi", "modules", "apic", "scheduler", "devices", "boot device"} PROVE StageInv'
  BY <1>a DEF StageInv
<1>2. CASE InitPages
  <2>1. stage = "memory" /\ UNCHANGED <<firmware, device, names, calls, answer>>  BY <1>2 DEF InitPages, KeepTree, Rest
  <2>2. (stage' = "aborted" /\ cause' = "memory") \/ (stage' = "acpi" /\ cause' = cause /\ firmware.algorithm)
    BY <1>2 DEF InitPages, GoOn, Abort
  <2>3. CASE stage' = "acpi" /\ cause' = cause /\ firmware.algorithm  BY <2>1, <2>3 DEF StageInv
  <2> QED  BY <1>a, <2>2, <2>3
<1>3. CASE LocateTables \/ ParseRecord \/ ParseTable
  <2>1. stage \in {"acpi", "tables"} /\ UNCHANGED <<firmware, device, names, calls, answer>>
    BY <1>3 DEF LocateTables, ParseRecord, ParseTable, KeepTree, Rest
  <2>2. (stage' = "aborted" /\ cause' = "acpi") \/ (stage' \in {"tables", "modules"} /\ cause' = cause)
    BY <1>3 DEF LocateTables, ParseRecord, ParseTable, GoOn, Abort, Unless
  <2>3. CASE stage' \in {"tables", "modules"} /\ cause' = cause  BY <2>1, <2>3 DEF StageInv
  <2> QED  BY <1>a, <2>2, <2>3
<1>4. CASE InitModules
  <2>1. stage = "modules" /\ UNCHANGED <<firmware, device, names, calls, answer>>  BY <1>4 DEF InitModules, KeepTree, Rest
  <2>2. (stage' = "aborted" /\ cause' = "modules") \/ (stage' = "timer" /\ cause' = cause /\ firmware.modules = 0)
    BY <1>4, <1>f DEF InitModules, GoOn, Abort, Unless
  <2>3. CASE stage' = "timer" /\ cause' = cause /\ firmware.modules = 0
    <3>1. device = <<>>  BY <2>1 DEF StageInv
    <3>2. Len(device) = 0  BY <3>1
    <3>3. FirstAre(device, 0, 0)  BY DEF FirstAre
    <3>4. stage' = "timer" => Len(device') < 4 /\ FirstAre(device', Len(device'), 0)  BY <2>1, <3>2, <3>3
    <3> QED  BY <2>1, <2>3, <3>4 DEF StageInv
  <2> QED  BY <1>a, <2>2, <2>3
<1>5. CASE InitScheduler
  <2>1. stage = "sched" /\ UNCHANGED <<firmware, device, names, calls, answer>>  BY <1>5 DEF InitScheduler, KeepTree, Rest
  <2>2. (stage' = "aborted" /\ cause' = "scheduler") \/ (stage' = "console" /\ cause' = cause)
    BY <1>5 DEF InitScheduler, GoOn, Abort, Unless
  <2>3. CASE stage' = "console" /\ cause' = cause
    <3>1. Len(device) = 4 /\ FirstAre(device, 4, Len(device) - 4)  BY <2>1 DEF StageInv
    <3>2. \A d \in 7..Len(device) : FALSE  BY <3>1
    <3> QED  BY <2>1, <2>3, <3>1, <3>2 DEF StageInv
  <2> QED  BY <1>a, <2>2, <2>3
<1>6. CASE ActivateConsole
  <2>1. stage = "activate" /\ UNCHANGED <<firmware, device, names, calls, answer>>  BY <1>6 DEF ActivateConsole, KeepTree, Rest
  <2>2. FirstAre(device, 4, 6) /\ Len(device) = 10 /\ \A x \in {"vc", "tty"} \X {0, 1} : x \in DOMAIN names
    BY <2>1 DEF StageInv
  <2>3. 5 \in DOMAIN device /\ 6 \in DOMAIN device
    <3>1. DOMAIN device = 1..Len(device)  BY LenProperties DEF TreeInv, TreeOk, TreeTypes
    <3> QED  BY <2>2, <3>1
  <2>4. device[5].class = "vga" /\ device[6].class = "kbd"
    <3>1. device[1 + 4].class = ConsoleClass[1] /\ device[2 + 4].class = ConsoleClass[2]  BY <2>2 DEF FirstAre
    <3> QED  BY <3>1 DEF ConsoleClass
  <2>5. ~ \/ \E c \in {"vga", "kbd"} : ~try_get_device_by_class(c)
          \/ \E n \in {"vc", "tty"} \X {0, 1} : ~try_get_device_by_name(n)
    BY <2>2, <2>3, <2>4 DEF try_get_device_by_class, try_get_device_by_name
  <2>6. stage' = "devices" /\ cause' = cause  BY <1>6, <2>5 DEF ActivateConsole, Unless, GoOn
  <2> QED  BY <2>1, <2>2, <2>6 DEF StageInv
<1>7. CASE ProbeBus
  <2>1. stage = "devices" /\ stage' = "probing" /\ UNCHANGED <<cause, firmware, device, names, answer>> /\ calls' # <<>>
    BY <1>7 DEF ProbeBus, GoOn, Rest
  <2> QED  BY <2>1 DEF StageInv
<1>8. CASE Probe
  <2>1. stage = "probing" /\ UNCHANGED <<stage, cause, firmware>> /\ TreeStep  BY <1>8 DEF Probe, Rest
  <2>2. calls' = <<>> => answer' # "none"  BY <2>1, ProbingAnswers DEF MachineInv
  <2> QED  BY <2>1, <2>2 DEF StageInv
<1>9. CASE ProbedBus
  <2>1. stage = "probing" /\ calls = <<>> /\ UNCHANGED <<calls, answer, firmware>>  BY <1>9 DEF ProbedBus, Rest
  <2>2. answer \in {"yes", "no"}  BY <2>1 DEF StageInv, TreeInv, TreeOk, TreeTypes
  <2>3. (stage' = "aborted" /\ cause' = "devices") \/ (stage' = "kernel" /\ cause' = cause /\ answer = "yes")
    BY <1>9, <2>2 DEF ProbedBus, Unless, GoOn, Abort
  <2>4. CASE stage' = "kernel" /\ cause' = cause /\ answer = "yes"  BY <2>1, <2>4 DEF StageInv
  <2> QED  BY <1>a, <2>3, <2>4
<1>10. CASE StartKernel
  <2>1. stage = "kernel" /\ UNCHANGED <<firmware, device, names, calls, answer>>  BY <1>10 DEF StartKernel, KeepTree, Rest
  <2>2. (stage' = "aborted" /\ cause' = "boot device") \/ (stage' = "running" /\ cause' = cause)
    BY <1>10 DEF StartKernel, GoOn, Abort, Unless
  <2>3. CASE stage' = "running" /\ cause' = cause  BY <2>1, <2>3 DEF StageInv
  <2> QED  BY <1>a, <2>2, <2>3
<1>11. CASE \E s \in DOMAIN AfterDevices : RegisterPlatform(s)
  <2>1. PICK s \in {"timer", "console"} : RegisterPlatform(s)  BY <1>11 DEF AfterDevices
  <2>2. PICK next, n : next = PlatformDevices[s][Done(s) + 1] /\ n = Len(device)  OBVIOUS
  <2>3. stage = s /\ UNCHANGED firmware /\ PlatformNextIs(s, next)  BY <2>1, <2>2, PlatformStep
  <2>4. CASE s = "timer" /\ stage' = "aborted" /\ cause' = "apic"  BY <1>a, <2>4
  <2>5. CASE /\ s = "timer" => firmware.apic
             /\ stage' = (IF Done(s) + 1 = Len(PlatformDevices[s]) THEN AfterDevices[s] ELSE s) /\ cause' = cause
             /\ UNCHANGED <<calls, answer>> /\ OneMore(next.class, s)
    <3>1. /\ Len(device') = n + 1 /\ DOMAIN device' = 1..(n + 1) /\ DOMAIN device = 1..n /\ n \in Nat
          /\ \A d \in 1..n : device'[d] = device[d]
          /\ device'[n + 1].class = next.class /\ device'[n + 1].hw = s
          /\ device'[n + 1].nr = Cardinality(OfClass(device, next.class))
      BY <2>2, <2>5 DEF OneMore
    <3>2. CASE s = "timer"
      <4>1. n \in 0..3 /\ next.class = TimerClass[n + 1] /\ Done(s) = n /\ Len(PlatformDevices[s]) = 4
        BY <2>2, <2>3, <3>2 DEF PlatformNextIs
      <4>2. FirstAre(device, n, 0)  BY <2>2, <2>3, <3>2 DEF StageInv
      <4>3. FirstAre(device', n + 1, 0)
        <5>1. \A d \in 1..(n + 1) : d \in 1..n \/ d = n + 1  BY <3>1
        <5> QED  BY <3>1, <3>2, <4>1, <4>2, <5>1 DEF FirstAre
      <4>4. CASE n = 3
        <5>1. stage' = "sched"  BY <2>5, <3>2, <4>1, <4>4 DEF AfterDevices
        <5>2. Len(device') = 4 /\ FirstAre(device', 4, Len(device') - 4)
          <6>1. n + 1 = 4 /\ Len(device') = 4 /\ Len(device') - 4 = 0  BY <3>1, <4>4
          <6> QED  BY <4>3, <6>1
        <5> QED  BY <2>3, <2>5, <3>2, <5>1, <5>2 DEF StageInv
      <4>5. CASE n # 3
        <5>1. stage' = "timer"  BY <2>5, <3>2, <4>1, <4>5
        <5>2. Len(device') < 4 /\ FirstAre(device', Len(device'), 0)  BY <3>1, <4>1, <4>3, <4>5
        <5> QED  BY <2>3, <2>5, <3>2, <5>1, <5>2 DEF StageInv
      <4> QED  BY <4>4, <4>5
    <3>3. CASE s = "console"
      <4>1. n \in 4..9 /\ next.class = ConsoleClass[n - 3] /\ Done(s) = n - 4 /\ Len(PlatformDevices[s]) = 6
        BY <2>2, <2>3, <3>3 DEF PlatformNextIs
      <4>2. FirstAre(device, 4, n - 4)  BY <2>2, <2>3, <3>3 DEF StageInv
      <4>3. FirstAre(device', 4, n - 3)
        <5>1. \A d \in 1..4 : device'[d] = device[d]  BY <3>1, <4>1
        <5>2. ASSUME NEW d \in 1..(n - 3) PROVE device'[d + 4].class = ConsoleClass[d] /\ device'[d + 4].hw = "console"
          <6>1. CASE d = n - 3
            <7>1. d + 4 = n + 1  BY <3>1, <6>1
            <7> QED  BY <3>1, <3>3, <4>1, <6>1, <7>1
          <6>2. CASE d # n - 3
            <7>1. d \in 1..(n - 4) /\ d + 4 \in 1..n  BY <3>1, <6>2
            <7> QED  BY <3>1, <4>2, <7>1 DEF FirstAre
          <6> QED  BY <6>1, <6>2
        <5> QED  BY <4>2, <5>1, <5>2 DEF FirstAre
      <4>4. \A d \in 7..(n + 1) : device'[d].nr = IF d \in {7, 9} THEN 0 ELSE 1
        <5> TAKE d \in 7..(n + 1)
        <5>1. CASE d = n + 1
          <6>1. n \in 6..9  BY <4>1, <5>1
          <6>2. Cardinality(OfClass(device, ConsoleClass[n - 3])) = IF n + 1 \in {7, 9} THEN 0 ELSE 1
            BY <3>1, <4>2, <6>1, Numbers
          <6> QED  BY <3>1, <4>1, <5>1, <6>2
        <5>2. CASE d # n + 1
          <6>1. d \in 7..n /\ d \in 1..n  BY <3>1, <5>2
          <6>2. device[d].nr = IF d \in {7, 9} THEN 0 ELSE 1  BY <2>2, <2>3, <3>3, <6>1 DEF StageInv
          <6> QED  BY <3>1, <6>1, <6>2
        <5> QED  BY <5>1, <5>2
      <4>5. CASE n = 9
        <5>1. stage' = "activate"  BY <2>5, <3>3, <4>1, <4>5 DEF AfterDevices
        <5>2. Len(device') = 10 /\ FirstAre(device', 4, 6)
          <6>1. n - 3 = 6  BY <4>5
          <6> QED  BY <3>1, <4>3, <4>5, <6>1
        <5>3. \A x \in {"vc", "tty"} \X {0, 1} : x \in DOMAIN names'
          <6>1. \A d \in 7..10 : <<device'[d].class, device'[d].nr>> \in DOMAIN names'
            <7>1. NamesOk(device', names')  BY DEF TreeInv, TreeOk
            <7>2. 7..10 \subseteq DOMAIN device'  BY <3>1, <4>5
            <7>3. \A d \in DOMAIN device' : NameIn(device', d) \in DOMAIN names'  BY <7>1 DEF NamesOk
            <7> QED  BY <7>2, <7>3 DEF NameIn
          <6>2. /\ device'[7].class = "tty" /\ device'[8].class = "tty" /\ device'[9].class = "vc" /\ device'[10].class = "vc"
            <7>1. /\ device'[3 + 4].class = ConsoleClass[3] /\ device'[4 + 4].class = ConsoleClass[4]
                  /\ device'[5 + 4].class = ConsoleClass[5] /\ device'[6 + 4].class = ConsoleClass[6]
              BY <5>2 DEF FirstAre
            <7> QED  BY <7>1 DEF ConsoleClass
          <6>3. device'[7].nr = 0 /\ device'[8].nr = 1 /\ device'[9].nr = 0 /\ device'[10].nr = 1
            BY <4>4, <4>5
          <6>4. <<"tty", 0>> \in DOMAIN names' /\ <<"tty", 1>> \in DOMAIN names' /\ <<"vc", 0>> \in DOMAIN names' /\ <<"vc", 1>> \in DOMAIN names'
            BY <6>1, <6>2, <6>3
          <6> QED  BY <6>4
        <5> QED  BY <2>3, <2>5, <3>3, <5>1, <5>2, <5>3 DEF StageInv
      <4>6. CASE n # 9
        <5>1. stage' = "console"  BY <2>5, <3>3, <4>1, <4>6
        <5>2. Len(device') >= 4 /\ Len(device') < 10 /\ FirstAre(device', 4, Len(device') - 4)
          <6>1. Len(device') - 4 = n - 3  BY <3>1
          <6> QED  BY <3>1, <4>1, <4>3, <4>6, <6>1
        <5>3. \A d \in 7..Len(device') : device'[d].nr = IF d \in {7, 9} THEN 0 ELSE 1  BY <3>1, <4>4
        <5> QED  BY <2>3, <2>5, <3>3, <5>1, <5>2, <5>3 DEF StageInv
      <4> QED  BY <4>5, <4>6
    <3> QED  BY <3>2, <3>3
  <2> QED  BY <2>1, <2>2, <2>4, <2>5, PlatformStep
<1>12. CASE UNCHANGED bootVars  BY <1>12 DEF bootVars, treeVars, StageInv
<1> QED  BY <1>1, <1>2, <1>3, <1>4, <1>5, <1>6, <1>7, <1>8, <1>9, <1>10, <1>11, <1>12 DEF BootNext

LEMMA DevicesInitially ==
    BootInit => DevicesInv /\ MachineInv
<1> SUFFICES ASSUME BootInit PROVE DevicesInv /\ MachineInv  OBVIOUS
<1> USE DEF BootInit, TreeInit
<1>1. MachineInv  BY DEF MachineInv
<1>2. DOMAIN device = {} /\ DOMAIN names = {} /\ DOMAIN calls = {}  OBVIOUS
<1>3. TreeInv
  <2>1. device \in Seq(DeviceType(Machine)) /\ calls \in Seq(FrameType(Machine))  OBVIOUS
  <2>2. TreeTypes(Machine, device, names, calls, answer)  BY <1>2, <2>1 DEF TreeTypes
  <2>3. Numbered(device) /\ NamesOk(device, names)  BY <1>2 DEF Numbered, NamesOk
  <2>4. CallsSound(Machine, device, names, calls)  BY <1>2 DEF CallsSound
  <2>5. AnswerSound(Machine, device, calls, answer)  BY DEF AnswerSound
  <2>6. FailureKnown(device, calls, answer)  BY <1>2 DEF FailureKnown
  <2> QED  BY <1>2, <2>2, <2>3, <2>4, <2>5, <2>6 DEF TreeInv, TreeOk
<1>4. StageInv
  BY DEF StageInv, Stages, PastTables, PastTimer, BeforeConsole, Early, StagesOfProbing
<1>5. AcpiInv
  <2>1. acpi \in [table : Nat \ {0}, record : Nat \ {0}, ioapic : Nat] /\ acpi.table = 1 /\ acpi.record = 1 /\ acpi.ioapic = 0
    OBVIOUS
  <2>2. \A x \in IoApics : ~Seen(x)
    <3>1. firmware.tables \in Seq(AcpiTable)  BY BootAssumption DEF IsFirmware
    <3>2. DOMAIN firmware.tables \subseteq Nat \ {0}
      <4>1. DOMAIN firmware.tables = 1..Len(firmware.tables)  BY <3>1, LenProperties
      <4> QED  BY <4>1
    <3>3. \A t \in DOMAIN firmware.tables : firmware.tables[t].records \in Seq(Nat)
      <4>1. Len(firmware.tables) \in Nat /\ DOMAIN firmware.tables = 1..Len(firmware.tables)  BY <3>1, LenProperties
      <4>2. \A t \in DOMAIN firmware.tables : firmware.tables[t] \in AcpiTable  BY <3>1, <4>1, ElementOfSeq
      <4> QED  BY <4>2 DEF AcpiTable
    <3>4. ASSUME NEW t \in DOMAIN firmware.tables PROVE DOMAIN firmware.tables[t].records \subseteq Nat \ {0}
      <4>1. PICK u : u = firmware.tables[t].records  OBVIOUS
      <4>2. DOMAIN u = 1..Len(u)  BY <3>3, <4>1, LenProperties
      <4> QED  BY <4>1, <4>2
    <3>5. \A x \in IoApics : x[1] \in Nat \ {0} /\ x[2] \in Nat \ {0}  BY <3>2, <3>4 DEF IoApics, Madts
    <3> QED  BY <2>1, <3>5 DEF Seen
  <2>3. stage = "start32"  OBVIOUS
  <2> QED  BY <2>1, <2>2, <2>3 DEF AcpiInv, PastTables
<1> QED  BY <1>1, <1>3, <1>4, <1>5 DEF DevicesInv

LEMMA NamesDoLead ==
    ASSUME TreeInv
    PROVE  NamesLead
<1>1. NamesOk(device, names) /\ device \in Seq(DeviceType(Machine))  BY DEF TreeInv, TreeOk, TreeTypes
<1>2. \A d \in DOMAIN device : device[d].class \in Class /\ device[d].nr \in Nat
  <2>1. \A d \in DOMAIN device : device[d] \in DeviceType(Machine)  BY <1>1, LenProperties, ElementOfSeq
  <2> QED  BY <2>1 DEF DeviceType
<1>3. \A d : NameOf(d) = NameIn(device, d)  BY DEF NameOf, NameIn
<1>4. \A d \in DOMAIN device : names[NameOf(d)] = d  BY <1>1, <1>3 DEF NamesOk
<1>5. ASSUME NEW n \in DOMAIN names, Len(n) = 3
      PROVE  LET p == device[names[n]] IN
             /\ p.st = "ok" /\ Live(p.of) /\ NameOf(p.of) = SubSeq(n, 1, 2) /\ p.hw = <<device[p.of].hw, n[3] + 1>>
  <2>1. PICK d \in DOMAIN device, k \in Nat \ {0} : n = Append(NameIn(device, d), k - 1) /\ PartitionOf(device, d, k, names[n])
    BY <1>1, <1>5 DEF NamesOk
  <2>2. PICK j \in Nat : j = k - 1  OBVIOUS
  <2>3. n = Append(<<device[d].class, device[d].nr>>, j)  BY <2>1, <2>2 DEF NameIn
  <2>4. n[3] = j /\ SubSeq(n, 1, 2) = <<device[d].class, device[d].nr>>  BY <1>2, <2>3, ThreePart
  <2>5. n[3] + 1 = k  BY <2>2, <2>4
  <2>6. PICK p : p = device[names[n]]  OBVIOUS
  <2>7. p.st = "ok" /\ p.of = d /\ Live(d) /\ p.hw = <<device[d].hw, k>>  BY <2>1, <2>6 DEF PartitionOf, Live
  <2> QED  BY <2>4, <2>5, <2>6, <2>7 DEF NameOf
<1> QED  BY <1>4, <1>5 DEF NamesLead

LEMMA ProbingCompletes ==
    ASSUME MachinesConform, TreeInv, Machine \in Machines, calls = <<>>, answer = "yes"
    PROVE  ProbingIsComplete
<1>0. /\ IsMachine(Machine) /\ Slots \in Nat /\ Funcs \in Nat \ {0} /\ Drives \in Nat /\ Entries \in Nat
      /\ device \in Seq(DeviceType(Machine)) /\ Numbered(device) /\ NamesOk(device, names)
      /\ \A d \in DOMAIN device : DeviceSound(Machine, device, names, d)
  BY TreeAssumption DEF TreeInv, TreeOk, TreeTypes
<1>1. \A d \in DOMAIN device : device[d] \in DeviceType(Machine)  BY <1>0, LenProperties, ElementOfSeq
<1>2. \A d \in DOMAIN device : device[d].class \in Class /\ device[d].nr \in Nat /\ device[d].st \in {"init", "ok", "deleted"}
  BY <1>1 DEF DeviceType
<1>3. \A d \in DOMAIN device : device[d].st # "init"
  <2>1. CallsSound(Machine, device, names, calls) /\ DOMAIN calls = {}  BY DEF TreeInv, TreeOk
  <2> QED  BY <2>1 DEF CallsSound
<1>4. \A d \in DOMAIN device : Live(d) \/ device[d].class = "ata"
  <2>1. FailureKnown(device, calls, answer) /\ DOMAIN calls = {}  BY DEF TreeInv, TreeOk
  <2> QED  BY <2>1 DEF FailureKnown, Live
<1>5. BeforeSlot(Machine, device, 0, Slots, 0)  BY DEF TreeInv, TreeOk, AnswerSound
<1>6. ASSUME NEW n \in Buses(Machine), n = 0 \/ PciDone(device, n)
      PROVE  \A x \in DOMAIN Machine[n].bus : /\ Machine[n].bus[x] \in DOMAIN Machine
                                              /\ Machine[Machine[n].bus[x]].class \in Supported => PciDone(device, Machine[n].bus[x])
  <2>1. BeforeSlot(Machine, device, n, Slots, 0)
    <3>1. CASE n = 0  BY <1>5, <3>1
    <3>2. CASE n # 0
      <4>1. PICK d \in DOMAIN device : device[d].class = "pci" /\ device[d].hw = n /\ device[d].st = "ok"  BY <1>6, <3>2 DEF PciDone
      <4>2. Machine[n].class = "bridge" /\ Machine[n].sub = "pci-to-pci"  BY <3>2 DEF Buses
      <4> QED  BY <1>0, <4>1, <4>2 DEF DeviceSound
    <3> QED  BY <3>1, <3>2
  <2>2. \A x \in DOMAIN Machine[n].bus : x \in (0..(Slots - 1)) \X (0..(Funcs - 1)) /\ Machine[n].bus[x] \in DOMAIN Machine
    BY <1>0 DEF IsMachine
  <2>3. \A x \in DOMAIN Machine[n].bus : x[1] < Slots  BY <1>0, <2>2
  <2> QED  BY <2>1, <2>2, <2>3 DEF BeforeSlot
<1>7. \A n \in DOMAIN Machine : n = 0 \/ Machine[n].class \notin Supported \/ PciDone(device, n)
  <2>1. PICK S : S = {n \in DOMAIN Machine : n = 0 \/ Machine[n].class \notin Supported \/ PciDone(device, n)}  OBVIOUS
  <2>2. S \in SUBSET DOMAIN Machine /\ 0 \in S  BY <1>0, <2>1 DEF IsMachine
  <2>3. ASSUME NEW n \in S \cap Buses(Machine), NEW x \in DOMAIN Machine[n].bus PROVE Machine[n].bus[x] \in S
    <3>1. n = 0 \/ PciDone(device, n)  BY <2>1, <2>3 DEF Buses, Supported
    <3>2. /\ Machine[n].bus[x] \in DOMAIN Machine
          /\ Machine[Machine[n].bus[x]].class \in Supported => PciDone(device, Machine[n].bus[x])
      BY <1>6, <3>1
    <3> QED  BY <2>1, <3>2
  <2>4. S = DOMAIN Machine  BY <2>2, <2>3 DEF MachinesConform
  <2> QED  BY <2>1, <2>4
<1>8. \A h \in DrivesThere : DriveOf(Machine, h) \notin NotThere => DiskDone(Machine, device, h)
  <2> TAKE h \in DrivesThere
  <2> HAVE DriveOf(Machine, h) \notin NotThere
  <2>1. PICK n \in IdeControllers(Machine), k \in 1..Drives : h = <<n, k>>  BY DEF DrivesThere
  <2>2. PciDone(device, n) /\ n \in IdeControllers(Machine)
    <3>1. n \in DOMAIN Machine /\ Machine[n].class = "storage" /\ Machine[0].class = "bus"  BY <1>0 DEF IdeControllers, IsMachine
    <3> QED  BY <1>7, <3>1 DEF Supported
  <2>3. PICK d \in DOMAIN device : device[d].class = "pci" /\ device[d].hw = n /\ device[d].st = "ok"  BY <2>2 DEF PciDone
  <2>4. UpToDrive(Machine, device, n, Drives)  BY <1>0, <2>2, <2>3 DEF DeviceSound
  <2> QED  BY <1>0, <2>1, <2>4 DEF UpToDrive
<1>9. \A h : Disk(h) = DriveOf(Machine, h)  BY DEF Disk, DriveOf
<1>10. {device[d].hw : d \in FoundDisks} = {h \in DrivesThere : Disk(h) \in {"blank", "table"}}
  <2>1. ASSUME NEW d \in FoundDisks PROVE device[d].hw \in DrivesThere /\ Disk(device[d].hw) \in {"blank", "table"}
    <3>1. d \in DOMAIN device /\ device[d].class = "ata" /\ device[d].st = "ok"  BY <1>2, <1>3, <2>1 DEF FoundDisks, Live
    <3> QED  BY <1>0, <1>9, <3>1 DEF DeviceSound, DrivesThere
  <2>2. ASSUME NEW h \in DrivesThere, Disk(h) \in {"blank", "table"} PROVE \E d \in FoundDisks : device[d].hw = h
    <3>1. DiskDone(Machine, device, h)  BY <1>8, <1>9, <2>2 DEF NotThere
    <3>2. DriveOf(Machine, h) \notin Failing  BY <1>9, <2>2 DEF Failing
    <3>3. PICK d \in DOMAIN device : device[d].class = "ata" /\ device[d].hw = h /\ device[d].st = "ok"  BY <3>1, <3>2 DEF DiskDone
    <3> QED  BY <3>3 DEF FoundDisks, Live
  <2> QED  BY <2>1, <2>2
<1>11. ASSUME NEW d \in FoundDisks, NEW k \in 1..Entries, Disk(device[d].hw) = "table"
       PROVE  TableOf(device[d].hw)[k] # 0 <=> Append(NameOf(d), k - 1) \in DOMAIN names
  <2>1. d \in DOMAIN device /\ device[d].class = "ata" /\ device[d].st = "ok"  BY <1>2, <1>3, <1>11 DEF FoundDisks, Live
  <2>2. TableOf(device[d].hw)[k] = EntryOf(Machine, device[d].hw, k) /\ NameOf(d) = NameIn(device, d)
    BY DEF TableOf, EntryOf, NameOf, NameIn
  <2>3. BeforeEntry(Machine, device, names, d, device[d].hw, Entries + 1)  BY <1>0, <1>9, <1>11, <2>1 DEF DeviceSound
  <2>4. EntryOf(Machine, device[d].hw, k) # 0 => Append(NameIn(device, d), k - 1) \in DOMAIN names
    BY <1>0, <2>3 DEF BeforeEntry
  <2>5. ASSUME Append(NameIn(device, d), k - 1) \in DOMAIN names PROVE EntryOf(Machine, device[d].hw, k) # 0
    <3>1. PICK n, j : n = Append(NameIn(device, d), k - 1) /\ j = k - 1  OBVIOUS
    <3>2. j \in Nat /\ n = Append(<<device[d].class, device[d].nr>>, j)  BY <3>1 DEF NameIn
    <3>3. Len(n) = 3 /\ n[3] = j /\ SubSeq(n, 1, 2) = <<device[d].class, device[d].nr>>  BY <1>2, <2>1, <3>2, ThreePart
    <3>4. PICK e \in DOMAIN device, i \in Nat \ {0} : n = Append(NameIn(device, e), i - 1) /\ PartitionOf(device, e, i, names[n])
      BY <1>0, <2>5, <3>1, <3>3 DEF NamesOk
    <3>5. PICK l : l = i - 1  OBVIOUS
    <3>6. l \in Nat /\ n = Append(<<device[e].class, device[e].nr>>, l)  BY <3>4, <3>5 DEF NameIn
    <3>7. n[3] = l /\ SubSeq(n, 1, 2) = <<device[e].class, device[e].nr>>  BY <1>2, <3>6, ThreePart
    <3>8. i = k  BY <3>1, <3>3, <3>5, <3>7
    <3>9. e = d
      <4>1. <<device[e].class, device[e].nr>> = <<device[d].class, device[d].nr>>  BY <3>3, <3>7
      <4>2. device[e].class = device[d].class /\ device[e].nr = device[d].nr  BY <4>1
      <4> QED  BY <1>0, <2>1, <4>2 DEF Numbered
    <3>10. PICK p : p = names[n]  OBVIOUS
    <3>11. p \in DOMAIN device  BY <2>5, <3>1, <3>10 DEF TreeInv, TreeOk, TreeTypes
    <3>12. device[p].class = "block-partition" /\ device[p].of = d /\ device[p].hw = <<device[d].hw, k>>
      BY <3>4, <3>8, <3>9, <3>10 DEF PartitionOf
    <3>13. PICK q \in 1..Entries : device[p].hw = <<device[d].hw, q>> /\ EntryOf(Machine, device[d].hw, q) # 0
      BY <1>0, <3>11, <3>12 DEF DeviceSound
    <3> QED  BY <3>12, <3>13
  <2> QED  BY <2>2, <2>4, <2>5
<1> QED  BY <1>4, <1>10, <1>11 DEF ProbingIsComplete

LEMMA DevicesHold ==
    ASSUME MachinesConform, DevicesInv, MachineInv
    PROVE  DevicesAreFound
<1>1. TreeInv /\ StageInv /\ AcpiInv  BY DEF DevicesInv
<1>2. NamesLead  BY <1>1, NamesDoLead
<1>3. cause # "missing device"  BY <1>1 DEF StageInv
<1>4. stage \in {"kernel", "running"} => ProbingIsComplete
  BY <1>1, ProbingCompletes DEF StageInv, MachineInv
<1>5. ASSUME stage = "running"
      PROVE  /\ firmware.algorithm /\ firmware.apic /\ firmware.modules = 0 /\ Cardinality(IoApics) <= 1
             /\ \A x \in IoApics : acpi.ioapic = firmware.tables[x[1]].records[x[2]]
  <2>1. firmware.algorithm /\ firmware.apic /\ firmware.modules = 0
    BY <1>1, <1>5 DEF StageInv, PastTimer, PastTables, Early
  <2>2. acpi.table > Len(firmware.tables) /\ acpi.table \in Nat  BY <1>1, <1>5 DEF AcpiInv, PastTables
  <2>3. \A x \in IoApics : Seen(x)
    <3>1. firmware.tables \in Seq(AcpiTable)  BY BootAssumption DEF MachineInv, IsFirmware
    <3>2. DOMAIN firmware.tables = 1..Len(firmware.tables) /\ Len(firmware.tables) \in Nat  BY <3>1, LenProperties
    <3>3. \A x \in IoApics : x[1] \in DOMAIN firmware.tables  BY DEF IoApics, Madts
    <3> QED  BY <2>2, <3>2, <3>3 DEF Seen
  <2>4. CASE \A x \in IoApics : ~Seen(x)
    <3>1. IoApics = {}  BY <2>3, <2>4
    <3> QED  BY <2>1, <3>1, FS_EmptySet
  <2>5. CASE \E y \in IoApics : /\ acpi.ioapic = firmware.tables[y[1]].records[y[2]]
                                /\ \A x \in IoApics : Seen(x) => x = y
    <3>1. PICK y \in IoApics : /\ acpi.ioapic = firmware.tables[y[1]].records[y[2]]
                               /\ \A x \in IoApics : Seen(x) => x = y
      BY <2>5
    <3>2. IoApics = {y}  BY <2>3, <3>1
    <3>3. Cardinality(IoApics) = 1  BY <3>2, FS_Singleton
    <3> QED  BY <2>1, <3>1, <3>2, <3>3
  <2> QED  BY <1>1, <1>5, <2>4, <2>5 DEF AcpiInv
<1> QED  BY <1>2, <1>3, <1>4, <1>5 DEF DevicesAreFound, StartsWhenItCan

\* On every machine that conforms to PCI, with any buses, bridges, controllers, disks and
\* partitions: names lead to the devices they name, probing that succeeds has found every
\* healthy disk and partition, nothing is missing when it is needed, and the kernel runs
\* only on a machine it can run on.
THEOREM DevicesAlwaysFound ==
    ASSUME MachinesConform
    PROVE  BootSpec => []DevicesAreFound
<1>1. BootInit => DevicesInv /\ MachineInv  BY DevicesInitially
<1>2. DevicesInv /\ MachineInv /\ [BootNext]_bootVars => DevicesInv' /\ MachineInv'
  <2>1. SUFFICES ASSUME DevicesInv, MachineInv, [BootNext]_bootVars PROVE DevicesInv' /\ MachineInv'  OBVIOUS
  <2>2. TreeInv' /\ MachineInv'  BY <2>1, TreeSteps DEF DevicesInv
  <2>3. StageInv'  BY <2>1, <2>2, StageSteps DEF DevicesInv
  <2>4. AcpiInv'  BY <2>1, AcpiSteps DEF DevicesInv
  <2> QED  BY <2>2, <2>3, <2>4 DEF DevicesInv
<1>3. DevicesInv /\ MachineInv => DevicesAreFound  BY DevicesHold
<1> QED  BY <1>1, <1>2, <1>3, PTL DEF BootSpec

=============================================================================
