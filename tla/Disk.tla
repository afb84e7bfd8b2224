-------------------------------- MODULE Disk --------------------------------
(***************************************************************************)
(* Reads of nodes on several cores: Node::read_all and Ide::read_all, the  *)
(* loops of BlockIO one inside the other, above the one disk controller    *)
(* that all threads share (ide.cc).                                        *)
(***************************************************************************)
EXTENDS Ext2

CONSTANT Threads

VARIABLES
  lock,    \* the holder of Ide::lock
  drive,   \* the controller: status, the sector registers, the sector read
  job      \* job[t]: the read that thread t performs

diskVars == <<lock, drive, job>>

NoJob == [pc |-> "idle"]

DiskInit ==
  /\ lock = None
  /\ drive = [status |-> "idle", regs |-> 0, sector |-> 0]
  /\ job = [t \in Threads |-> NoJob]

(* ide->read_all(at, left): the device claims to have no end.              *)
IdeRead(j, at, left, why) ==
  [j EXCEPT !.at = at, !.left = left, !.buf = <<>>, !.why = why, !.pc = "spin"]

(* One round of read_all of the node, up to where it needs the device.     *)
Round(j) ==
  LET s == ReadStep(j.node.size_low, BlockSize, j.offset, j.n) IN
    IF j.n = 0 \/ s.count <= 0
    THEN [j EXCEPT !.pc = "done",
                   !.count = IF j.n > 0 /\ s.count < 0 THEN s.count ELSE Len(j.data)]
    ELSE IF IsDirect(s.block)
         THEN IdeRead(j, j.node.direct[s.block] * BlockSize, BlockSize, "block")
         ELSE IdeRead(j, PointerAt(j.node, s.block), 1, "pointer")

(* BlockIO::read of the node copies what it needs of the block.            *)
BlockRead(j) ==
  LET s == ReadStep(j.node.size_low, BlockSize, j.offset, j.n)
  IN Round([j EXCEPT !.data = @ \o SubSeq(j.buf, s.from + 1, s.from + s.count),
                     !.offset = @ + s.count, !.n = @ - s.count])

Sector(j) == j.at \div SectorSize

(* BlockIO::read of the device copies what it needs of the sector; once    *)
(* its read_all is done, a block number is followed by its block.          *)
SectorRead(j, sector) ==
  LET from == j.at % SectorSize
      count == Min({SectorSize - from, j.left})
      k == [j EXCEPT !.buf = @ \o [i \in 1..count |-> Cell(sector * SectorSize + from + i - 1)],
                     !.at = @ + count, !.left = @ - count, !.pc = "spin"]
  IN IF k.left > 0 THEN k
     ELSE IF k.why = "pointer" THEN IdeRead(k, k.buf[1] * BlockSize, BlockSize, "block")
          ELSE BlockRead(k)

StartRead(t, node, offset, n) ==
  job' = [job EXCEPT ![t] =
            Round([pc |-> "loop", node |-> node, start |-> offset, asked |-> n,
                   offset |-> offset, n |-> n, data |-> <<>>, count |-> 0,
                   at |-> 0, left |-> 0, buf |-> <<>>, why |-> "block"])]

-----------------------------------------------------------------------------
(* Ide::read_block.                                                        *)
LockFree == lock = None

LockIde(t) ==
  /\ job[t].pc = "spin" /\ LockFree
  /\ lock' = t
  /\ job' = [job EXCEPT ![t].pc = "registers"]
  /\ UNCHANGED drive

(* waitForDrive, then the outb of count, sector and drive.                 *)
Ready == drive.status # "busy"

WriteRegisters(t) ==
  /\ job[t].pc = "registers" /\ Ready
  /\ drive' = [drive EXCEPT !.regs = Sector(job[t])]
  /\ job' = [job EXCEPT ![t].pc = "command"]
  /\ UNCHANGED lock

(* outb of 0x20, read with retry                                           *)
Command(t) ==
  /\ job[t].pc = "command"
  /\ drive' = [drive EXCEPT !.status = "busy", !.sector = drive.regs]
  /\ job' = [job EXCEPT ![t].pc = "wait"]
  /\ UNCHANGED lock

(* The wait for DRQ and the loop of inl; the guard lets go of the lock.    *)
HasData == drive.status = "data"

Transfer(t) ==
  /\ job[t].pc = "wait" /\ HasData
  /\ drive' = [drive EXCEPT !.status = "idle"]
  /\ job' = [job EXCEPT ![t] = SectorRead(job[t], drive.sector)]
  /\ lock' = None

(* The device: external.  It is assumed not to fail.                       *)
DriveReads ==
  /\ drive.status = "busy"
  /\ drive' = [drive EXCEPT !.status = "data"]
  /\ UNCHANGED <<lock, job>>

DiskNext ==
  \/ DriveReads
  \/ \E t \in Threads : LockIde(t) \/ WriteRegisters(t) \/ Command(t) \/ Transfer(t)

=============================================================================
