-------------------------------- MODULE Ext2 --------------------------------
(***************************************************************************)
(* The read-only file system (ext2.h, ext2.cc, block_io.cc): how the       *)
(* structures on the disk are found and read.  The unit is the cell of     *)
(* four bytes, large enough for a block number, a size or a name; a path   *)
(* is a sequence of names, and so is the text of a symbolic link.          *)
(***************************************************************************)
EXTENDS Integers, Sequences, FiniteSetsExt, SequencesExt

CONSTANTS
  Disk,        \* the cells of the disk, from 0
  SuperAt,     \* where the superblock is: 1024 bytes, the least block size
  SectorSize,  \* of the device: 512 bytes
  GroupSize,   \* sizeof(BlockGroup)
  NDirect,     \* direct blocks of a node: 12
  InlineMax,   \* longest link that is kept in the node: 60 bytes
  MaxLinks,    \* bound of the model: links in a row
  None,        \* a null reference
  Panic,       \* the end of a call that panics
  Fault        \* the end of a call that uses a null reference: the process exits

Failures == {None, Panic, Fault}

Cell(at) == Disk[at]

(* The fields of SuperBlock that the mount reads.                          *)
SuperBlock ==
  [inodes_count |-> Cell(SuperAt), blocks_count |-> Cell(SuperAt + 1),
   log_block_size |-> Cell(SuperAt + 2), blocks_per_group |-> Cell(SuperAt + 3),
   inodes_per_group |-> Cell(SuperAt + 4), inode_size |-> Cell(SuperAt + 5)]

BlockSize == 2^SuperBlock.log_block_size * SuperAt
NGroups ==
  (SuperBlock.blocks_count + SuperBlock.blocks_per_group - 1) \div SuperBlock.blocks_per_group
GroupTable == (SuperAt \div BlockSize + 1) * BlockSize
INodeTable(group) == Cell(GroupTable + group * GroupSize + 2)

(* NodeData                                                                *)
Dir == 4
Regular == 8
Symlink == 10

NodeData(number, at) ==
  [number |-> number, type |-> Cell(at), size_low |-> Cell(at + 1), n_sectors |-> Cell(at + 2),
   direct |-> [i \in 0..(NDirect - 1) |-> Cell(at + 3 + i)], indirect_1 |-> Cell(at + 3 + NDirect),
   at |-> at]

GetNode(number) ==
  LET index == number - 1
      group == index \div SuperBlock.inodes_per_group
      indexInGroup == index % SuperBlock.inodes_per_group
  IN NodeData(number, INodeTable(group) * BlockSize + indexInGroup * SuperBlock.inode_size)

(* The asserts of get_node.                                                *)
ValidNumber(number) ==
  /\ 0 < number /\ number <= SuperBlock.inodes_count
  /\ (number - 1) \div SuperBlock.inodes_per_group < NGroups
  /\ INodeTable((number - 1) \div SuperBlock.inodes_per_group) <= SuperBlock.blocks_count

Root == GetNode(2)

-----------------------------------------------------------------------------
(* BlockIO::read on a device of sz cells in blocks of bs: the block it     *)
(* reads, the part of it that is wanted, and its result.                   *)
(* Mutated form: a read goes on past the end of the device.                *)
ReadStepPastEnd(sz, bs, offset, n) ==
  LET from == offset % bs IN
    [block |-> offset \div bs, from |-> from,
     count |-> IF offset > sz THEN -1 ELSE Min({n, bs - from})]
ReadStep(sz, bs, offset, n) ==
  LET from == offset % bs IN
    [block |-> offset \div bs, from |-> from,
     count |-> IF offset > sz THEN -1
               ELSE IF offset = sz THEN 0 ELSE Min({n, sz - offset, bs - from})]

(* Node::read_block: where the number of block index is kept, if not in    *)
(* the node, and which indices there are.                                  *)
IsDirect(index) == index < NDirect
PointerAt(node, index) == node.indirect_1 * BlockSize + (index - NDirect)
HasBlock(node, index) ==
  /\ index < node.n_sectors \div (BlockSize \div SectorSize)
  /\ index < NDirect + BlockSize

BlockNumber(node, index) ==
  IF IsDirect(index) THEN node.direct[index] ELSE Cell(PointerAt(node, index))

(* read_all(0, size) of a node: cell i of what it represents.              *)
CellOf(node, i) ==
  LET s == ReadStep(node.size_low, BlockSize, i, 1)
  IN Cell(BlockNumber(node, s.block) * BlockSize + s.from)

-----------------------------------------------------------------------------
(* Node::entries: the offsets of the entries of a directory.  An entry is  *)
(* the number of a node, its total size, the length of the name, the name. *)
EntrySize == 4
Entries(dir) ==
  LET at[k \in 0..(dir.size_low \div EntrySize)] ==
        IF k = 0 THEN 0
        ELSE IF at[k - 1] >= dir.size_low THEN dir.size_low
             ELSE at[k - 1] + CellOf(dir, at[k - 1] + 1)
  IN {at[k] : k \in DOMAIN at} \ {dir.size_low}

(* Node::find: the last entry that matches counts; 0 if there is none.     *)
FindEntry(dir, name) ==
  LET matches == {o \in Entries(dir) : CellOf(dir, o + 3) = name}
  IN IF matches = {} THEN 0 ELSE CellOf(dir, Max(matches))

(* One round of the loop of Ext2::find; entries() panics if the node is    *)
(* not a directory.                                                        *)
Step(node, name) ==
  IF node \in Failures THEN node
  ELSE IF node.type # Dir THEN Panic
  ELSE LET number == FindEntry(node, name)
       IN IF number = 0 THEN None ELSE GetNode(number)

(* Mutated form: the name that the end of the path ends is not looked up.  *)
FindButLast(path) == FoldLeft(Step, Root, Front(path))
Find(path) == FoldLeft(Step, Root, path)

(* Node::get_symbol                                                        *)
Symbol(node) ==
  [i \in 1..node.size_low |->
     IF node.size_low <= InlineMax THEN Cell(node.at + 3 + i - 1) ELSE CellOf(node, i - 1)]

(* The loop over symbolic links in open.  It does not test what find()     *)
(* returns: behind a link that leads nowhere it calls is_symlink() of a    *)
(* null node.                                                              *)
FollowOne(node, k) ==
  IF node \in Failures \/ node.type # Symlink THEN node
  ELSE IF Find(Symbol(node)) = None THEN Fault ELSE Find(Symbol(node))
Follow(node) == FoldLeft(FollowOne, node, [k \in 1..MaxLinks |-> k])

=============================================================================
