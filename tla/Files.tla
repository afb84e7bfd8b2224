-------------------------------- MODULE Files --------------------------------
(***************************************************************************)
(* Files and semaphores as system calls see them (sys.cc, process.h,       *)
(* process.cc): the tables of a process, the ids that name their entries,  *)
(* and the FileDescriptors that a parent and its child share.  A process   *)
(* has one thread, so its tables change by its own calls only; fork is     *)
(* the parent's call.  What a read does below the FileDescriptor is Disk.  *)
(***************************************************************************)
EXTENDS Disk, Semaphores

CONSTANTS
  First,              \* the process that runs at the start
  Descs, SemObjects,  \* the heap blocks for FileDescriptors, Semaphores
  Console,            \* the U8250File
  NFILE, NSEM, NCHILD,
  OffsetMod,          \* offset is a uint32_t: 2^32
  Paths, Lens, Offsets, \* arguments of open, read, seek
  KindMod,            \* ids: kind * KindMod + index, 2^28 in the code
  MaxCalls            \* bound of the model: calls per process

Procs == Threads

ASSUME FilesAssumption ==
  /\ {NFILE, NSEM, NCHILD, KindMod} \subseteq Nat
  /\ NFILE > 2 /\ NFILE <= KindMod /\ NSEM <= KindMod /\ NCHILD <= KindMod
  /\ First \in Procs /\ None \notin Procs \union Descs \union SemObjects \union {Console}
  /\ Console \notin Descs
  /\ OffsetMod \in Nat \ {0} /\ Lens \subseteq Nat /\ Offsets \subseteq Nat

VARIABLES
  alive,      \* the processes that exist
  files, sems, children,  \* their tables
  desc,       \* desc[d]: the node and the offset of a FileDescriptor (and, as
              \* history, the path it was opened with)
  sem,        \* sem[s]: a Semaphore
  reading,    \* reading[p]: the FileDescriptor that p reads, or None
  loaded,     \* loaded[p]: the offset that `offset += read' has loaded
  calls,      \* how many calls p has made
  granted,    \* history: the ids p has been given, with what they name
  panicked

fileVars == <<alive, files, sems, children, desc, sem, reading, loaded, calls, granted, panicked>>
vars == <<diskVars, fileVars>>

FL == 0
PROC == 1
SEM == 2
Id(kind, index) == kind * KindMod + index

NoTable(n) == [i \in 0..(n - 1) |-> None]

Init ==
  /\ DiskInit
  /\ alive = {First}
  /\ files = [p \in Procs |-> IF p = First
                THEN [i \in 0..(NFILE - 1) |-> IF i < 3 THEN Console ELSE None]
                ELSE NoTable(NFILE)]
  /\ sems = [p \in Procs |-> NoTable(NSEM)]
  /\ children = [p \in Procs |-> NoTable(NCHILD)]
  /\ desc = [d \in Descs |-> None]
  /\ sem = [s \in SemObjects |-> None]
  /\ reading = [p \in Procs |-> None]
  /\ loaded = [p \in Procs |-> 0]
  /\ calls = [p \in Procs |-> 0]
  /\ granted = [p \in Procs |-> IF p = First THEN {<<Id(FL, i), Console>> : i \in 0..2} ELSE {}]
  /\ panicked = FALSE

(* p is in user mode and makes a system call.                              *)
Enter(p) ==
  /\ ~panicked /\ p \in alive /\ reading[p] = None
  /\ \A s \in SemObjects : sem[s] # None => ~Waits(sem[s], p)
  /\ calls[p] < MaxCalls
  /\ calls' = [calls EXCEPT ![p] = @ + 1]

(* getFileIndex, getSemaphoreIndex and getChildIndex; -1 for a wrong kind  *)
(* or an index outside the table.  Mutated form: the kind is ignored.      *)
IndexOfAny(id, kind, size) == IF id % KindMod < size THEN id % KindMod ELSE -1
IndexOf(id, kind, size) ==
  IF id \div KindMod = kind /\ id % KindMod < size THEN id % KindMod ELSE -1
FileIndex(id) == IndexOf(id, FL, NFILE)
SemaphoreIndex(id) == IndexOf(id, SEM, NSEM)
ChildIndex(id) == IndexOf(id, PROC, NCHILD)

GetFile(p, fd) == IF FileIndex(fd) < 0 THEN None ELSE files[p][fd]
GetSemaphore(p, id) == IF SemaphoreIndex(id) < 0 THEN None ELSE sems[p][SemaphoreIndex(id)]

(* The loops that look for an empty entry of a table.                      *)
FirstFree(table) == Min({i \in DOMAIN table : table[i] = None} \union {Cardinality(DOMAIN table)})
Full(table) == FirstFree(table) = Cardinality(DOMAIN table)

(* Objects whose last Shared reference is gone have been deleted.          *)
Held(tables) == {tables[p][i] : p \in Procs, i \in DOMAIN tables[First]}
FreshDesc == {d \in Descs : d \notin Held(files) /\ \A p \in Procs : reading[p] # d}
FreshSem == {s \in SemObjects : s \notin Held(sems)
                                /\ (sem[s] = None \/ \A p \in Procs : ~Waits(sem[s], p))}

-----------------------------------------------------------------------------
(* open: what it finds at each path, None for a failure, or how it ends.   *)
Target == [path \in Paths |-> IF Find(path) = None THEN None ELSE Follow(Find(path))]

(* The blocks of a node are where its size says they are.                  *)
Sound(node) ==
  /\ node.size_low \in Nat
  /\ \A i \in 0..(node.size_low - 1) :
       LET index == i \div BlockSize IN
         /\ HasBlock(node, index) /\ BlockNumber(node, index) \in Nat
         /\ ~IsDirect(index) => PointerAt(node, index) \in Nat

(* A sound image: no ASSERT of Ext2 fails.                                 *)
ASSUME ImageAssumption ==
  /\ {BlockSize, SectorSize} \subseteq Nat \ {0} /\ NDirect \in Nat
  /\ \A n \in 1..SuperBlock.inodes_count :
       ValidNumber(n) /\ (GetNode(n).type \in {Dir, Regular} => Sound(GetNode(n)))
  /\ \A path \in Paths : Target[path] \notin Failures => Sound(Target[path])

(* A process is gone, and ~Process lets go of its tables.                  *)
Ends(p) ==
  /\ alive' = alive \ {p}
  /\ files' = [files EXCEPT ![p] = NoTable(NFILE)]
  /\ sems' = [sems EXCEPT ![p] = NoTable(NSEM)]
  /\ children' = [children EXCEPT ![p] = NoTable(NCHILD)]
  /\ granted' = [granted EXCEPT ![p] = {}]

Open(p, path) ==
  /\ Enter(p)
  /\ LET node == Target[path] IN
       \/ /\ node = Panic
          /\ panicked' = TRUE
          /\ UNCHANGED <<alive, files, sems, children, desc, granted>>
       \/ /\ node = Fault
          /\ Ends(p)
          /\ UNCHANGED <<desc, panicked>>
       \/ /\ node = None \/ (node \notin Failures /\ Full(files[p]))
          /\ UNCHANGED <<alive, files, sems, children, desc, granted, panicked>>
       \/ /\ node \notin Failures /\ ~Full(files[p])
          /\ \E d \in FreshDesc :
               /\ desc' = [desc EXCEPT ![d] = [node |-> node, offset |-> 0, path |-> path]]
               /\ files' = [files EXCEPT ![p][FirstFree(files[p])] = d]
               /\ granted' = [granted EXCEPT ![p] = @ \union {<<Id(FL, FirstFree(files[p])), d>>}]
          /\ UNCHANGED <<alive, sems, children, panicked>>
  /\ UNCHANGED <<diskVars, sem, reading, loaded>>

(* What has an offset: a FileDescriptor.  The console ignores a seek, and  *)
(* reads and writes characters, which the model leaves out.                *)
Seekable(file) == file \notin {None, Console}

(* seek: only fd 1 is refused.                                             *)
Seek(p, fd, offset) ==
  /\ Enter(p)
  /\ LET file == GetFile(p, fd) IN
       desc' = IF fd # 1 /\ Seekable(file) THEN [desc EXCEPT ![file].offset = offset] ELSE desc
  /\ UNCHANGED <<diskVars, alive, files, sems, children, sem, reading, loaded, granted, panicked>>

(* read of a FileDescriptor: read_all from offset, which is sampled here.  *)
Read(p, fd, n) ==
  /\ Enter(p)
  /\ fd # 1 /\ Seekable(GetFile(p, fd))
  /\ LET d == GetFile(p, fd) IN
       /\ StartRead(p, desc[d].node, desc[d].offset, n)
       /\ reading' = [reading EXCEPT ![p] = d]
  /\ UNCHANGED <<lock, drive, alive, files, sems, children, desc, sem, loaded, granted, panicked>>

(* The result is kept in a uint32_t, where -1 is positive.                 *)
Result(j) == j.count % OffsetMod

(* offset += read is a load and a store, on an offset that another         *)
(* process may share.                                                      *)
LoadOffset(p) ==
  /\ job[p].pc = "done" /\ Result(job[p]) > 0
  /\ loaded' = [loaded EXCEPT ![p] = desc[reading[p]].offset]
  /\ job' = [job EXCEPT ![p].pc = "store"]
  /\ UNCHANGED <<lock, drive, alive, files, sems, children, desc, sem, reading, calls, granted, panicked>>

ReadReturns(p) ==
  /\ \/ job[p].pc = "done" /\ Result(job[p]) = 0 /\ UNCHANGED desc
     \/ /\ job[p].pc = "store"
        /\ desc' = [desc EXCEPT ![reading[p]].offset = (loaded[p] + Result(job[p])) % OffsetMod]
  /\ job' = [job EXCEPT ![p] = NoJob]
  /\ reading' = [reading EXCEPT ![p] = None]
  /\ loaded' = [loaded EXCEPT ![p] = 0]
  /\ UNCHANGED <<lock, drive, alive, files, sems, children, sem, calls, granted, panicked>>

-----------------------------------------------------------------------------
(* sem                                                                     *)
NewSemaphore(p, init) ==
  /\ Enter(p) /\ ~Full(sems[p])
  /\ LET i == FirstFree(sems[p]) IN
       \E s \in FreshSem :
         /\ sem' = [sem EXCEPT ![s] = Semaphore(init)]
         /\ sems' = [sems EXCEPT ![p][i] = s]
         /\ granted' = [granted EXCEPT ![p] = @ \union {<<Id(SEM, i), s>>}]
  /\ UNCHANGED <<diskVars, alive, files, children, desc, reading, loaded, panicked>>

(* up and down                                                             *)
UseSemaphore(p, id) ==
  /\ Enter(p)
  /\ LET s == GetSemaphore(p, id) IN
       /\ s # None
       /\ sem' \in {[sem EXCEPT ![s] = Up(@)], [sem EXCEPT ![s] = Down(@, p)]}
  /\ UNCHANGED <<diskVars, alive, files, sems, children, desc, reading, loaded, granted, panicked>>

(* close: a semaphore, a child or a file.                                  *)
Forget(p, id) == granted' = [granted EXCEPT ![p] = {g \in @ : g[1] # id}]
Close(p, id) ==
  /\ Enter(p)
  /\ \/ /\ SemaphoreIndex(id) # -1 /\ sems[p][SemaphoreIndex(id)] # None
        /\ sems' = [sems EXCEPT ![p][SemaphoreIndex(id)] = None]
        /\ Forget(p, id)
        /\ UNCHANGED <<files, children>>
     \/ /\ ChildIndex(id) # -1 /\ children[p][ChildIndex(id)] # None
        /\ children' = [children EXCEPT ![p][ChildIndex(id)] = None]
        /\ Forget(p, id)
        /\ UNCHANGED <<files, sems>>
     \/ /\ FileIndex(id) # -1 /\ files[p][FileIndex(id)] # None
        /\ files' = [files EXCEPT ![p][FileIndex(id)] = None]
        /\ Forget(p, id)
        /\ UNCHANGED <<sems, children>>
  /\ UNCHANGED <<diskVars, alive, desc, sem, reading, loaded, panicked>>

(* wait: once the child has left its status, the slot is free again.       *)
Wait(p, id) ==
  /\ Enter(p)
  /\ ChildIndex(id) # -1
  /\ children[p][ChildIndex(id)] # None /\ children[p][ChildIndex(id)] \notin alive
  /\ children' = [children EXCEPT ![p][ChildIndex(id)] = None]
  /\ Forget(p, id)
  /\ UNCHANGED <<diskVars, alive, files, sems, desc, sem, reading, loaded, panicked>>

(* fork, as far as the tables go: the child gets the files and the         *)
(* semaphores, and no children.                                            *)
Fork(p, c) ==
  /\ Enter(p) /\ c \notin alive /\ \A q \in Procs : c \notin {children[q][i] : i \in 0..(NCHILD - 1)}
  /\ ~Full(children[p])
  /\ LET i == FirstFree(children[p]) IN
       /\ children' = [children EXCEPT ![p][i] = c]
       /\ granted' = [granted EXCEPT ![p] = @ \union {<<Id(PROC, i), c>>},
                                     ![c] = {g \in granted[p] : g[1] \div KindMod # PROC}]
  /\ alive' = alive \union {c}
  /\ files' = [files EXCEPT ![c] = files[p]]
  /\ sems' = [sems EXCEPT ![c] = sems[p]]
  /\ UNCHANGED <<diskVars, desc, sem, reading, loaded, panicked>>

(* exit.  (A fork that finds no free slot for a child ends the caller too: *)
(* ForkFails in Scheduler.)                                                *)
Exit(p) ==
  /\ Enter(p)
  /\ Ends(p)
  /\ UNCHANGED <<diskVars, desc, sem, reading, loaded, panicked>>

Ids == {Id(FL, i) : i \in 0..NFILE} \union {Id(PROC, i) : i \in 0..NCHILD}
       \union {Id(SEM, i) : i \in 0..NSEM}

Next ==
  \/ DiskNext /\ UNCHANGED fileVars
  \/ \E p \in Procs :
       \/ \E path \in Paths : Open(p, path)
       \/ \E fd \in 0..NFILE : \E n \in Lens : Read(p, fd, n)
       \/ \E fd \in 0..NFILE : \E offset \in Offsets : Seek(p, fd, offset)
       \/ LoadOffset(p) \/ ReadReturns(p)
       \/ \E init \in {0, 1} : NewSemaphore(p, init)
       \/ \E id \in Ids : UseSemaphore(p, id) \/ Close(p, id) \/ Wait(p, id)
       \/ \E c \in Procs : Fork(p, c)
       \/ Exit(p)

Spec == Init /\ [][Next]_vars

-----------------------------------------------------------------------------
CONSTANTS Holds,     \* Holds[n]: what node n holds, as the image was made
          Named      \* Named[path]: the number of the node at path, or None

(* A read gives the bytes of the file from the offset it started at, as    *)
(* many as there are, across sectors, blocks and the indirect block; past  *)
(* the end it gives -1.                                                    *)
ReadsTheFile ==
  \A p \in Procs : job[p].pc = "done" =>
    LET j == job[p]
        all == Holds[j.node.number]
        end == Min({j.start + j.asked, Len(all)})
    IN /\ j.data = SubSeq(all, j.start + 1, end)
       /\ j.count = IF j.start > Len(all) /\ j.asked > 0 THEN -1 ELSE Len(j.data)

(* open gives the file that the path names, through directories on either  *)
(* side of a group and a block, and through symbolic links.                *)
OpensTheNamedFile ==
  \A d \in Descs : desc[d] # None => desc[d].node.number = Named[desc[d].path]

Handles(kind, table) == {<<Id(kind, i), table[i]>> : i \in {k \in DOMAIN table : table[k] # None}}

(* An id that a process was given keeps naming the same file, semaphore or *)
(* child until that process closes it or waits for it, whatever it or its  *)
(* relatives do with other ids, and names nothing afterwards until it is   *)
(* given again.                                                            *)
HandlesStable ==
  \A p \in alive :
    granted[p] = Handles(FL, files[p]) \union Handles(SEM, sems[p]) \union Handles(PROC, children[p])

-----------------------------------------------------------------------------
(* What makes them inductive: the tables of a process, the FileDescriptors *)
(* they lead to, the reads under way and the drive.                        *)
TableInv ==
  /\ files \in [Procs -> [0..(NFILE - 1) -> Descs \union {None, Console}]]
  /\ sems \in [Procs -> [0..(NSEM - 1) -> SemObjects \union {None}]]
  /\ children \in [Procs -> [0..(NCHILD - 1) -> Procs \union {None}]]
  /\ granted = [p \in Procs |-> granted[p]]
  /\ alive \subseteq Procs
  /\ \A p \in Procs \ alive : children[p] = NoTable(NCHILD)
  /\ HandlesStable

OpenNodes == {Target[path] : path \in Paths} \ Failures
OpenDesc == [node : OpenNodes, offset : Nat, path : Paths]

DescInv ==
  /\ desc = [d \in Descs |-> desc[d]]
  /\ \A d \in Descs : (\E p \in Procs : reading[p] = d \/ \E i \in 0..(NFILE - 1) : files[p][i] = d)
                         => desc[d] \in OpenDesc

(* A read of a node has the cells from its start up to its offset.         *)
CellsOf(node, from, n) == [i \in 1..n |-> CellOf(node, from + i - 1)]

JobFields == {"pc", "node", "start", "asked", "offset", "n", "data", "count",
              "at", "left", "buf", "why"}
GoodRead(j) ==
  /\ DOMAIN j = JobFields
  /\ j.node \in OpenNodes
  /\ {j.start, j.asked, j.offset, j.n} \subseteq Nat
  /\ j.start <= j.offset /\ j.offset + j.n = j.start + j.asked
  /\ j.offset <= j.node.size_low \/ j.offset = j.start
  /\ j.data = CellsOf(j.node, j.start, j.offset - j.start)

(* A read of the device has the cells from where it began up to `at'.      *)
GoodDeviceRead(j) ==
  LET s == ReadStep(j.node.size_low, BlockSize, j.offset, j.n)
      begin == IF j.why = "block" THEN BlockNumber(j.node, s.block) * BlockSize
                                  ELSE PointerAt(j.node, s.block)
      size == IF j.why = "block" THEN BlockSize ELSE 1
  IN /\ j.n > 0 /\ s.count > 0
     /\ j.why \in {"block", "pointer"} /\ (j.why = "pointer" => ~IsDirect(s.block))
     /\ begin \in Nat /\ j.at \in Nat /\ j.left \in Nat \ {0}
     /\ begin <= j.at /\ j.at + j.left = begin + size
     /\ j.buf = [i \in 1..(j.at - begin) |-> Cell(begin + i - 1)]

Finished(j) ==
  /\ j.n = 0 \/ j.offset >= j.node.size_low
  /\ j.count = IF j.start > j.node.size_low /\ j.asked > 0 THEN -1 ELSE j.offset - j.start

ReadInv ==
  /\ job = [p \in Procs |-> job[p]] /\ loaded \in [Procs -> Nat]
  /\ reading \in [Procs -> Descs \union {None}]
  /\ \A p \in Procs :
       \/ reading[p] = None /\ job[p] = NoJob
       \/ /\ reading[p] \in Descs /\ GoodRead(job[p])
          /\ \/ job[p].pc \in {"done", "store"} /\ Finished(job[p])
             \/ job[p].pc \in {"spin", "registers", "command", "wait"} /\ GoodDeviceRead(job[p])

(* The drive works for who has the lock.                                   *)
DriveInv ==
  /\ DOMAIN drive = {"status", "regs", "sector"}
  /\ \A p \in Procs :
       /\ lock = p <=> job[p].pc \in {"registers", "command", "wait"}
       /\ job[p].pc = "command" => drive.regs = Sector(job[p])
       /\ job[p].pc = "wait" => drive.sector = Sector(job[p])

FilesInv == TableInv /\ DescInv /\ ReadInv /\ DriveInv

(* Holds is what the image says, cell by cell.                             *)
HoldsTheImage ==
  \A node \in OpenNodes : Holds[node.number] = CellsOf(node, 0, node.size_low)

=============================================================================
