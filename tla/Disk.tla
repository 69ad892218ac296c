-------------------------------- MODULE Disk --------------------------------
(***************************************************************************)
(* Transfers by programmed I/O on one channel of an ATA controller           *)
(* (infos/drivers/ata), which two drives and any number of threads share.   *)
(* A register of the channel holds what was written to it last and before   *)
(* that, as the high bytes go through the ports of the low ones; a block    *)
(* address is a high and a low part, and Byte stands for the 256 values of  *)
(* the count.  The drives are external: a drive ignores a command while it  *)
(* has data to hand over.                                                   *)
(***************************************************************************)
EXTENDS Integers, Sequences

CONSTANTS
    Thread,         \* the threads that call the drivers
    Drive,          \* the drives of the channel
    Byte,           \* the number of values of an eight-bit register
    Request,        \* calls of read_blocks and write_blocks: [op, drive, first, offset, count]
    MaxTransfers    \* bound: the calls made

Nobody == "nobody"

\* The first block of a request has an address that the registers can hold.
ASSUME DiskAssumption ==
    /\ Byte \in Nat \ {0} /\ Drive # {} /\ Nobody \notin Thread
    /\ \A r \in Request :
          /\ r.op \in {"read", "write"} /\ r.drive \in Drive
          /\ r.first \in Nat /\ r.offset \in Nat /\ r.count \in Nat
          /\ r.first + r.offset < Byte * Byte

VARIABLES
    mtx,            \* ATAController::_mtx: the thread that has it
    chan,           \* the registers of the channel and the drive selected
    drive,          \* Drive -> its status, and the command it executes
    xfer,           \* Thread -> the call of transfer it is in
    spoilt,         \* history: a command was given whose data nobody takes
    transfers       \* the calls made so far

diskVars == <<mtx, chan, drive, xfer, spoilt, transfers>>

NoTransfer == [pc |-> "idle", req |-> [op |-> "none", drive |-> "none", first |-> 0, offset |-> 0, count |-> 0],
               buffer |-> <<>>, ok |-> FALSE]
Ready == [st |-> "idle", lba |-> 0, left |-> 0]

DiskInit ==
    /\ mtx = Nobody /\ spoilt = FALSE /\ transfers = 0
    /\ chan = [sel |-> CHOOSE d \in Drive : TRUE, cnt |-> <<0, 0>>, lba |-> <<0, 0>>]
    /\ drive = [d \in Drive |-> Ready] /\ xfer = [t \in Thread |-> NoTransfer]

----------------------------------------------------------------------------
(* The channel.  A pair is a register's last and its previous value. *)

Written(pair, data) == <<data % Byte, pair[1]>>
ata_read_status == drive[chan.sel].st
AddressOf(pair) == pair[2] * Byte + pair[1]
CountOfSectors(pair) == IF AddressOf(pair) = 0 THEN Byte * Byte ELSE AddressOf(pair)

\* What a drive makes of the registers when a command is written.
Commanded(op) ==
    IF ata_read_status \in {"drq", "data"} THEN drive
    ELSE [drive EXCEPT ![chan.sel] = [st |-> IF op = "read" THEN "busy" ELSE "data",
                                      lba |-> AddressOf(chan.lba), left |-> CountOfSectors(chan.cnt)]]

\* A drive finds a block, an error or a fault.
DriveStep(d) ==
    /\ drive[d].st = "busy"
    /\ \E st \in {"drq", "err", "df"} : drive' = [drive EXCEPT ![d].st = st]
    /\ UNCHANGED <<mtx, chan, xfer, spoilt, transfers>>

----------------------------------------------------------------------------
(* transfer. *)

At(t, pc) == xfer[t].pc = pc
Go(t, pc) == xfer' = [xfer EXCEPT ![t].pc = pc]

\* BlockDevicePartition adds the first block of the partition; a disk is its own from 0.
Block(req, k) == req.first + req.offset + k

read_blocks(t, req) ==
    /\ At(t, "idle") /\ transfers < MaxTransfers
    /\ transfers' = transfers + 1
    /\ xfer' = [xfer EXCEPT ![t] = [NoTransfer EXCEPT !.pc = "lock", !.req = req]]
    /\ UNCHANGED <<mtx, chan, drive, spoilt>>

\* Variant: the channel is taken by whoever comes.
TakeAnyway(t) ==
    /\ At(t, "lock") /\ mtx' = t /\ Go(t, "ready")
    /\ UNCHANGED <<chan, drive, spoilt, transfers>>

TakeChannel(t) ==
    /\ At(t, "lock") /\ mtx = Nobody
    /\ mtx' = t /\ Go(t, "ready")
    /\ UNCHANGED <<chan, drive, spoilt, transfers>>

\* The drive that is still selected must not be busy.
WaitReady(t) ==
    /\ At(t, "ready") /\ ata_read_status # "busy"
    /\ Go(t, "select") /\ UNCHANGED <<mtx, chan, drive, spoilt, transfers>>

SelectDrive(t) ==
    /\ At(t, "select")
    /\ chan' = [chan EXCEPT !.sel = xfer[t].req.drive]
    /\ Go(t, "high") /\ UNCHANGED <<mtx, drive, spoilt, transfers>>

WriteHigh(t) ==
    /\ At(t, "high")
    /\ chan' = [chan EXCEPT !.cnt = Written(@, 0), !.lba = Written(@, Block(xfer[t].req, 0) \div Byte)]
    /\ Go(t, "low") /\ UNCHANGED <<mtx, drive, spoilt, transfers>>

WriteLow(t) ==
    /\ At(t, "low")
    /\ chan' = [chan EXCEPT !.cnt = Written(@, xfer[t].req.count), !.lba = Written(@, Block(xfer[t].req, 0))]
    /\ Go(t, "command") /\ UNCHANGED <<mtx, drive, spoilt, transfers>>

\* A write command gets no data; a read whose count is a multiple of Byte asks for more
\* blocks than are taken.
WriteCommand(t) ==
    LET r == xfer[t].req IN
    /\ At(t, "command")
    /\ drive' = Commanded(r.op)
    /\ spoilt' = (spoilt \/ r.op = "write" \/ r.count % Byte = 0)
    /\ xfer' = [xfer EXCEPT ![t].pc = IF r.op = "write" \/ r.count = 0 THEN "return" ELSE "poll",
                            ![t].ok = r.op = "write" \/ r.count = 0]
    /\ UNCHANGED <<mtx, chan, transfers>>

\* ata_poll: an error, a fault and no data all end the transfer.
PollDrive(t) ==
    /\ At(t, "poll") /\ ata_read_status # "busy"
    /\ Go(t, IF ata_read_status \in {"drq", "data"} THEN "insw" ELSE "return")
    /\ UNCHANGED <<mtx, chan, drive, spoilt, transfers>>

\* The block that the drive hands over next; a drive that waits for data gives anything.
NextBlock(d) == IF drive[d].st = "drq" THEN <<d, drive[d].lba>> ELSE <<d, -1>>

ReadBlock(t) ==
    LET d == chan.sel
        last == Len(xfer[t].buffer) + 1 = xfer[t].req.count
    IN /\ At(t, "insw")
       /\ xfer' = [xfer EXCEPT ![t].buffer = Append(@, NextBlock(d)), ![t].ok = last,
                               ![t].pc = IF last THEN "return" ELSE "poll"]
       /\ drive' = IF drive[d].st # "drq" THEN drive
                   ELSE IF drive[d].left = 1 THEN [drive EXCEPT ![d] = Ready]
                   ELSE [drive EXCEPT ![d] = [st |-> "busy", lba |-> @.lba + 1, left |-> @.left - 1]]
       /\ UNCHANGED <<mtx, chan, spoilt, transfers>>

\* Variant: a transfer that fails keeps the channel.
ReturnKeepsChannel(t) ==
    /\ At(t, "return") /\ Go(t, "done") /\ mtx' = (IF xfer[t].ok THEN Nobody ELSE mtx)
    /\ UNCHANGED <<chan, drive, spoilt, transfers>>

ReturnTransfer(t) ==
    /\ At(t, "return") /\ Go(t, "done") /\ mtx' = Nobody
    /\ UNCHANGED <<chan, drive, spoilt, transfers>>

TakeResult(t) ==
    /\ At(t, "done") /\ xfer' = [xfer EXCEPT ![t] = NoTransfer]
    /\ UNCHANGED <<mtx, chan, drive, spoilt, transfers>>

TransferStep(t) ==
    \/ TakeChannel(t) \/ WaitReady(t) \/ SelectDrive(t) \/ WriteHigh(t) \/ WriteLow(t)
    \/ WriteCommand(t) \/ PollDrive(t) \/ ReadBlock(t) \/ ReturnTransfer(t) \/ TakeResult(t)

DiskNext ==
    \/ \E t \in Thread, req \in Request : read_blocks(t, req)
    \/ \E t \in Thread : TransferStep(t)
    \/ \E d \in Drive : DriveStep(d)

DiskSpec == DiskInit /\ [][DiskNext]_diskVars

\* A thread in a transfer runs on; a drive does not stay busy.
DiskFairness ==
    /\ \A t \in Thread : WF_diskVars(TransferStep(t))
    /\ \A d \in Drive : WF_diskVars(DriveStep(d))

----------------------------------------------------------------------------
\* A read that reports success has read the blocks that were asked for, from the drive
\* and the partition they were asked of and in order, whatever other threads read from
\* either drive and whatever failed before: as long as no command was given whose data
\* nobody takes.
BlocksAreRight ==
    \A t \in Thread :
        At(t, "done") /\ xfer[t].ok /\ ~spoilt =>
            xfer[t].buffer = [k \in 1..xfer[t].req.count |-> <<xfer[t].req.drive, Block(xfer[t].req, k - 1)>>]

\* Every transfer ends, failed or not, if the drives do not stay busy.
TransfersEnd == \A t \in Thread : At(t, "lock") ~> At(t, "done")
=============================================================================
