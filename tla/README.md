# A TLA+ development of the MMap process scheduler kernel

The repository is a small x86 kernel: symmetric multiprocessing, preemptive
threads ordered by run time, processes with fork/exec/wait/kill, and an `mmap`
with shared file mappings. This directory holds TLA+ modules that model its
core, the TLC runs that check them on small instances, and TLAPS proofs of
what matters most. `PROJECT.json` lists the components, the source lines each
definition stands for, the runs, the mutants that show that each property can
fail, the hazards and the theorems.

## 1. The system

| Part (src/kernel) | State | Operations | Shared with |
|---|---|---|---|
| Ready queue (`priority_queue.h`) | list of TCBs by `run_time`, `size` | add, remove, monitor | all cores, under a spin lock |
| Scheduler (`threads.h/.cc`, `context.s`) | `activeThreads`, `idleThreads`, `no_preempt` of each TCB, zombies | block, yield, stop, thread, the reaper, the idle loop | the timer interrupt |
| Timer interrupt (`pit.cc`) | run times, kill flags | charge, preempt or kill the running thread | any instruction with interrupts on |
| `Semaphore`, `BlockingLock` | count, waiters, spin lock | down, up | keeps its lock across the context switch |
| `Future` | isReady, value, a semaphore | set, get | a process and its parent |
| `Process` (`process.h/.cc`) | files, semaphores, children and kill flags by slot, page directory, mappings | fork, wait, close, kill, exit | its parent's slots |
| Virtual memory (`vmm.h/.cc`) | page tables, `entry_list` of each process, the global `node_list` | mmap, munmap, page fault, make/delete of address spaces | `node_list` has no lock |
| Frames (`physmem.h/.cc`) | free list, `avail`, `limit` | alloc_frame, dealloc_frame | all processes, under a spin lock |
| `SYS`, ELF (`sys.cc`, `elf.cc`) | none of their own | the system calls, exec | all of the above |
| Spin locks (`atomic.h`) | `taken`, the saved interrupt flag, the flag of each core | lock, unlock, disable, restore, monitor/mwait | everything, interrupt handlers included |
| `Shared<T>` (`shared.h`) | a FatPointer with a counter per object | construct, copy, move, assign, destroy | everything |
| Heap (`heap.cc`) | boundary tags, free list | malloc, free | one BlockingLock |
| `Barrier`, `ReusableBarrier`, `Condition` | counters, epochs, waiters | sync, wait, notify | the last two share one InterruptSafeLock |
| `BoundedBuffer` (`bb.h`) | a ring, three semaphores | put, get | |
| Disk (`ide.cc`), block I/O, ext2 | the controller, the image | read_block, read_all, find | page faults, open, read; one lock |
| File table (`process.h`, `sys.cc`) | slots by id, shared offsets | open, read, seek, close, sem | inherited by fork |
| Boot (`mbr.S`, `init.cc`, `smp.cc`, `pit.cc`) | SMP::running, boot stacks, the idt | kernelInit on every core | ends in the scheduler |
| Config, console, formatting | set once | | |

What is hard in it. Several cores run threads that a timer may interrupt at
any instruction of kernel code; the switch from one stack to another is a
sequence of steps others can see; locks are held across it; flags and lists
are read without locks; an idle core sleeps until the lock word of the ready
queue is written; a kill makes a process exit wherever it stands; frames pass between
processes through fork, exec, faults and the reaper; shared file mappings are
counted by faults, forks and exits; one disk controller and one heap serve all
cores; the cores themselves come up through one stack. `PROJECT.json` lists each such hazard with
its line and the properties that would show it going wrong.

What makes the parts correct:

* scheduler: a thread is at one place (a core, one queue, one local variable),
  none is lost, none is deleted in use; ticks act on the thread that runs; idle
  threads stay home; no wake-up is lost; the queue is ordered and fair among
  equals; a killed process exits; a waiting parent is woken;
* locks: one holder, tokens neither lost nor made, the interrupt flag as it was,
  no release slept through;
* barriers and buffers: nobody runs ahead, nobody is left behind, a queue;
* pointers and heap: counts exact, one deletion, blocks apart, space not lost;
* files: the bytes of the file that the path names, ids that stay what they are;
* boot: everything there before it is used, one init;
* memory: a frame has one use, none is lost; mappings do not overlap; pages of
  a shared file are one frame with the contents of the file, freed with its
  last mapping.

## 2. The modules

| Module | What it is |
|---|---|
| `ReadyQueue` | the ordered insertion, as operators on sequences |
| `Scheduler` | threads, cores, semaphores, futures, process life cycle |
| `MCScheduler` | its instance for TLC (symmetry of the cores) |
| `SchedulerProofs` | lemmas about insertion and removal, the inductive invariants of `Scheduler` and the theorems |
| `SpinLocksProofs`, `BarriersProofs`, `BoundedBufferProofs`, `SharedPtrProofs`, `BootProofs`, `VMMProofs`, `FilesProofs` | the same for the module they are named after |
| `VMM`, `MCVMM` | frames, page tables, mappings, `node_list`, fork/exec/exit of address spaces; its instances |
| `SpinLocks`, `MCSpinLocks` | SpinLock, InterruptSafeLock, ISL with interrupts and mwait; what the other modules take as atomic |
| `Semaphores` | a semaphore as a value, for modules where its inside does not matter |
| `Barriers` | Barrier, ReusableBarrier, Condition |
| `BoundedBuffer`, `FIFO` | the ring, and the queue it implements |
| `SharedPtr`, `MCSharedPtr` | reference counting |
| `Heap`, `Allocator` | the heap word by word, and what malloc and free promise |
| `Ext2` | the file system as functions of the disk |
| `Disk` | reads of several threads over the one controller; extends `Ext2` |
| `Files`, `MCFiles` | file and semaphore tables above `Disk`; a small image |
| `Boot` | kernelInit on all cores, up to where `Scheduler` begins |

### Scheduler

A TCB is a member of `Threads` or, for the idle TCB of a core, the core's own
name. Every core executes on the stack of one TCB (`stack`), which differs from
`activeThreads` (`active`) between the two lines of `block()` that publish and
perform the switch. `pc` is the program point of a TCB, or, when no core runs
it, where it is kept ("ready", "picked", "leaving", "waiting", "woken",
"zombie", "parked"). `why` is the argument of the `block()` call it is in.

| Actions | Code |
|---|---|
| Block, Monitor, RemoveNext/Return/None, MonitorWake, TimerWake | `block()` up to the choice of the next TCB, the idle loop |
| Commit, Switch, HandleYield/Stop/Down | `activeThreads = next`, `gheith_contextSwitch`, the function it calls on the new stack |
| Down, Up, WakeWaiter, Lock, Unlock | `Semaphore`, `BlockingLock` |
| Fork, ForkFails, Spawn, Exit, SetFuture, SetUp, Stop | fork, `thread()`, exit, `Future::set`, `stop()` |
| Wait, GetDown, GetUp, WaitDone, Disown, Kill | wait with `Future::get`, close of a child, kill |
| ReaperLoop, Reap, Yield, Tick | the reaper, `yield()`, `apitHandler` |

The critical sections of spin locks run with interrupts off and are one step;
the slow path of `down()`, which keeps the lock across the switch, is not. A
thread that spins on a held lock simply does not step. A process does not run
user code step by step: at "run" it may make any system call or be interrupted.

What an idle core watches in mwait. `block()` calls `readyQ.monitor_add()`
(`threads.h:99`), which sets the monitor of the core on `size`, and then
`readyQ.remove()`, whose `InterruptSafeLock::lock()` sets it again, on the lock
word `taken` (`atomic.h:216`). A core has one monitor, so it is the lock word that
wakes it: every `add()`, wherever in the queue it inserts, and every `remove()`
stores to it. In the model `armed` says that the core's monitor is set and the
lock word not written since; an operation on the queue ends the monitors of the
other cores (`LockStored`), and a core that goes to mwait keeps its own
(`LockStoredBy`). `monitor_add()` has no effect, and idle cores wake each other
with their own looks into the queue, which costs power and breaks nothing. No
other store to the line and no spurious wake-up is modelled: they only help.

### VMM

Addresses are numbers modulo `Space`, above `Base` the user's. A process has a
directory (`pd`), tables and pages, each a frame or `None`, its mappings in the
order of the list, and the locals of the call it is in (`call`). Allocation,
the walk of `node_list`, linking the new node, reading the file and writing the
page table entry are separate steps, since a fault runs with interrupts on.
The frames that `alloc_frame()` will return next are one sequence, the free
list and then the untouched memory. What a frame shows is "zeroes", the link of
the free list, or a page of a file; stores by user programs are not modelled,
so the content property speaks of programs that read.

| Actions | Code |
|---|---|
| Mmap (Place, Insert, Accepts) | `VMM::mmap` |
| FaultFatal, FaultMiss, FaultHit, FaultAlloc, LinkNode, ReadFile, MapTable, MapPage | `vmm_pageFault`, `user_map` |
| Munmap, Unmap, Unlink | `VMM::munmap`: the entry leaves the list, `unmap` of a page, the node leaves `node_list` |
| Fork, ForkPd, ForkCopy, ForkEnd | `Process::fork`, `make_pd` |
| Exec, ExecClear, ExecLoad | `SYS::exec`, `delete_private`, `ELF::load` |
| Exit, Kill, DeletePd, OutOfFrames | exit, the kill tick, `delete_pd`, the panic of `alloc_frame` |

The constructor of `VMEntry` does not set `node` (`vmm.h:39`), and neither malloc
nor free clears a block. So the node of a new mapping, and of the mappings that
exec makes for image and stack, is whatever the block held (`Leftovers`): null in
fresh memory, or, once munmap has deleted a VMEntry (`vmm.cc:207`), the pointer to
its NodeEntry, which need not be out of use, since others may have the file
mapped or map it again. `freed` is the set of the nodes that such pointers are
left for; it never shrinks, so the model has every order in which the heap may
hand such blocks out, and some that it would not. The list keeps a pointer that
got there in this way as -k instead of k (`StaleIds`): fork, exit and munmap follow
it like any other (`Pointee`), and only properties and regimes tell the two
apart. What else a block may have held, such as the stack of a deleted thread, is
`UninitNode`; the runs take only null from it. NodeEntries are never deleted, so
a pointer to one never dangles.

A null pointer read in the kernel is a page fault below 0x80000000, which makes
the process exit: that is how a munmap of a mapping without a node ends. A write through a pointer
that was never set stops the model (`halt = "wild"`), since anything may follow.
Three constants choose a regime. `Preempt = FALSE` lets no process run while
another is inside a system call or a fault. `Tidy = TRUE` restricts programs to
fork, exec and exit without file mappings and to munmap only shared mappings
they have touched. `Early = TRUE` lets a process fork and exit only while none of
its mappings has a pointer that freed memory left there: its image and stack,
which nobody unmaps, were mapped before the first munmap of a file, or in memory
that no VMEntry had before. No program can know that; the constant says under
which condition the counts are right. They are used where the code is right only
under them; section 3 says what happens without. `Loaders` bounds the processes that call exec.

The faults that the kernel itself takes in exec, when it fills the image and
the stack, are the faults of the process afterwards. The page of the APIC is
not touched by programs (`Touches`), and to unmap it, or a page below `Base`,
ends in "wild" too.

### SpinLocks

A core has two contexts, its thread and its interrupt handler, and an interrupt
flag. Every access of `taken`, of `was` and of the flag is a step, and the
handler may come between any two while interrupts are on. `mon` is the armed
monitor of a core: mwait waits until a store of another core, or an interrupt,
has ended it. `outside` remembers the flag a context had before its locks.

### Barriers, BoundedBuffer

`Down` and `Up` of a semaphore are single steps here (`Scheduler` has what is
inside them); everything else is a step per shared access. In `Condition::wait`
the unlock and the function that block() runs on the other stack are two steps
and a notify may come between. `notifyOne` may also be called for no reason.
`BoundedBuffer` maps its ring to the queue of `FIFO`: a put takes effect when
it counts its item, a get when it loads one.

### SharedPtr

A variable of type `Shared` belongs to a thread or is a global that is only
copied; threads hand variables over. Increments, decrements, the deletes and
the assignment of the pointer are steps of their own. Null pointers are counted
as the code does: not at all, so that their FatPointers leak.

### Heap

The array of words with header, footer and links, and malloc and free as
functions on it, named as in `heap.cc`; each holds the lock from end to end.
Callers overwrite their whole block. Index 0 stands for "no block". A failed
`operator new` panics, so `OutOfMemory` leaves the heap as it is. The heap is
mapped to `Allocator`, which knows only blocks in use and gaps.

### Ext2, Disk, Files

The unit of the disk is a cell of four bytes; names are cells, paths sequences
of names. `Ext2` finds nodes, blocks, entries and link targets by the source's
arithmetic. `Disk` runs the two nested `read_all` loops of a thread, node over
device, down to lock, registers, command and transfer of every sector, with
other threads in between; the controller (`DriveReads`) is external. `Files`
adds the tables and ids of a process. `offset += read` is a load and a store.
`Wait` is the part of `Process::wait` that the tables show: once the child has
ended, its slot is empty and its id names nothing, without a close. An open
that meets a dangling link uses a null node and ends the process (`Fault`).
Buffers are memory that does not fault, console input and output, len and write
are left out.

### Boot

Core 0 initializes the parts in `Order`, each with what it `Needs`, then starts
the others one at a time; each goes from "reset" through "entry", where it is on
the common `tempStack`, to its own stack. The measured timer frequency is a
choice from `Diffs`, at least `Hz`. What core 0 prints, cpuid and the tables of
the firmware are left out. The end, all cores in stop() and the reaper and init
ready, is `Init` of `Scheduler`.

## 3. The runs

Two cores, the reaper, init and one child are the smallest system in which a
thread can be picked by another core while it is leaving its own, a core can
idle, and a parent can wait, kill and fork again. One lock is enough for
contention. `MaxRunTime` bounds the ticks counted for a process: 1 already makes
run times differ and 3 lets a thread be preempted in several places of one
call. `NCHILD = 1` reaches the full table of children.

| Run | Shows |
|---|---|
| `sched_smp` | the safety properties and the inductive invariant on two cores; init may kill its child, at any point |
| `sched_live` | two cores, no kill: no thread is lost, no Future set twice, an idle core takes up ready work without an interrupt's help |
| `sched_wait` | a parent in wait is woken once the child has exited |
| `vmm_frames` | frames keep one use through faults, mmap, munmap, fork, exec, exit, deletion and kills, none is lost but by a kill; mmap keeps mappings apart while there is room behind the address |
| `vmm_share` | one-page shared mappings of two files, while mappings are made in memory that has pointers to nodes: one frame each with the contents of the file, exact count, no early free |
| `spin` | one holder; no handler waits for its own core's thread; the interrupt flag comes back; nobody sleeps through a release |
| `barriers` | nobody is ahead of a round, no notification between unlock and enqueueing is missed, everybody gets through all of the rounds |
| `buffer` | the buffer implements `FIFO`; who waits is served |
| `shared` | counters are exact, an object is deleted once and after its last use |
| `heap` | tags, list and contents intact; the heap implements `Allocator` |
| `files` | a read gives the bytes of the file, open the file of the path, ids stay what they are |
| `boot` | stacks, parts, handlers and the heap are there before they are used; boot completes with one init |

`NoThreadLost` and `NoPanic` are checked without kills since a kill breaks them:
a thread killed inside `up()` takes the waiter it has removed with it.

The address space of the memory runs has pages of two bytes, so that an odd
address is an unaligned one: the image, the room for mmap, and the stack in the
table of the APIC's page (which exec must not free). `vmm_frames` has six pages,
two per table, and seven frames; `vmm_share`, which is about the files' frames
and not the tables, six pages in one table and six frames, so that both
processes have one or two files mapped. Both are enough for
two complete processes and let allocation fail at every place. `MaxEntries = 4` lets one exec follow another
and a process map two files, or one twice; in `vmm_share` only the child calls
exec, which is enough to have it make mappings after a munmap; `NumMod`, the width of the count,
exceeds the mappings there can be. `Touches` names the pages programs access.
`CHECK_DEADLOCK FALSE` appears where all processes may be gone.

The other instances. `spin`: one thread takes two nested locks, its handler one
and the other core's thread one (`Requests`), which has a handler meet its own
thread and another core, and a waiter with interrupts off; `Protect` stops when
the calls are used up. `barriers`: three workers, three rounds (a worker can be
a round behind one that has entered the next), two stray notifications.
`buffer`: a ring of `N = 2` wraps, three threads contend for both ends, and
there is no bound on calls. `shared`: four variables, three FatPointers, two
objects, no bound on operations. `heap`: 26 words hold the lock's block and up
to four more; the sizes reach the least block, an exact fit, a split and a
failure, and `Tries = 2` (20 in the code) cuts the search short. `files`: blocks
of two sectors, two direct blocks (12) and an indirect one, two groups, a dangling link, links in
the node and in a block (`InlineMax`, 60 bytes), `NFILE = 4` with one free slot,
`KindMod = 16` (2^28), `OffsetMod = 64` (2^32) above every offset reached but
the wrap of -1; `MaxCalls = 3` per process covers open, fork or seek, and read
in both. `MaxLinks` bounds the loop over links, which the code does not.
`boot`: four cores, so that one starts while others are at every later step.

Disagreements with comments and documents that the models follow. No run is kept
for them; where a recipe is given, TLC shows them in a few minutes.

* A kill that meets the exit of its victim sets the Future twice and panics
  (`pit.cc:149`, `future.h:28`, the ASSERT): `sched_live.cfg` with
  `Killable = {child}` and `MaxRunTime = 2` violates `NoPanic`.
* A kill may have no effect: `yield()` on an empty queue leaves `no_preempt` set
  (`threads.h:97`, `threads.h:102`, `pit.cc:147`; the repository's README, line
  62): `sched_live.cfg` with `Killable = {child}`, `MaxRunTime = 2`, no INVARIANTS
  and the one property `KillTakesEffect`.
* A process that ends frees frames of shared mappings that others use:
  `delete_pd` (`vmm.cc:124`) and `delete_private` (`vmm.cc:95`) do not look at
  `num_processes`, where `vmm.cc:182` says "Only deallocate from physical memory
  if this is the last process mapped to the file": `vmm_share.cfg` with
  `Tidy = FALSE` and the one invariant `NoDangling`.
* Page 1 of a mapping shows page 0 of the file (`vmm.cc:300`): `vmm_share.cfg`
  with `Requests <- LongRequests` violates `FilePageShown`.
* Two first touches at once make two frames (`vmm.cc:318`): `vmm_share.cfg` with
  `Preempt = TRUE` and the one invariant `SharedAsOne`; a node is in `node_list` before its
  page has been read, so another process may also see zeroes.
* fork without a free child slot makes the caller exit (`ForkFails`);
  `t0.dir/sbin/sys.h:72` promises a negative result.
* mmap without an address overlaps the last mapping when no gap is left
  (`Place`; `vmm.cc:219`, "default to first-fitting address").
  A mapping so placed is out of order in the list, and since the walk looks only
  at neighbours a later mmap may be put over it although a gap is left; the pages
  touched before then show the older one. TLC finds it in `vmm_share` with one
  process, `MaxEntries = 5`, the one invariant `SharedAsOne` and requests at
  addresses: a file at 14 and at 16, and four anonymous bytes at 16.
* fork copies pages of shared mappings (`ForkCopy`; `t0.dir/sbin/init.c:31`,
  "Another mapping of this file will be shared across processes").
* munmap of a private or never touched mapping ends the process
  (`Munmap`, `Unlink`; `vmm.cc:178`, `vmm.cc:193`).
* mmap at a high address of a length that wraps around 2^32 is put there although
  it overlaps the next mapping (`Fits`; `vmm.cc:238`, where `vmm.cc:228` says
  "Find best-fitting address"): the first conjunct of `Room` leaves it out of
  `MmapKeepsApart`, which is not provable without.
* A process without a mapping of a file lowers its count: it calls exec
  after a munmap, its image gets the pointer that the munmap left in freed memory,
  and at its exit `decrementFiles` counts that node down (`process.cc:241`). The
  file is mapped all the while by another process, twice, or by two, and the next
  munmap finds the count 0 and frees the frame that the other mapping still has in
  the page table, against `vmm.cc:182`, "Only deallocate from physical memory if
  this is the last process mapped to the file". There is one call at a time and
  every program unmaps its files before it forks, execs or ends; the uninitialised
  field (`vmm.h:50`) is all it takes: `vmm_share.cfg` with `Early = FALSE` and the
  one invariant `NoDangling`. fork counts up through the same pointers
  (`process.cc:134`), and then the frame is never freed.
* With `Junk` in `UninitNode`, what else a heap block may hold in the place of
  `VMEntry::node`, the first fork or exit writes through it (`Count`).
* A read behind the end of a file returns -1 through a `uint32_t` and moves the
  offset back by one (`Result`; `sys.cc:30`). len of the console is 0x7FFFFFFF
  where `t0.dir/sbin/sys.h:24` has a negative number, and seek refuses fd 1 and
  not the console (`sys.h:66`).
* open panics when a path goes through a file, and uses a null node when a link
  dangles (`Step`, `Follow`; `sys.cc:224`).

Fairness. In `Scheduler` a core executes its next kernel instruction, and its
timer keeps firing: weak fairness of the kernel steps and of the tick of every
core. No process is forced to make a system call, and spin locks are not assumed
fair. The liveness properties are stated up to the bound on counted ticks
(`TicksLeft`): beyond it the model has no preemption. In `Boot` and
`BoundedBuffer` weak fairness says that a core, or a thread inside a call, goes
on; nobody has to call put or get. In `SpinLocks` and `Barriers` it is strong:
the code does not queue for a spin lock, so who asks could lose for ever against
others that ask again and again; here these ask a bounded number of times, and
strong fairness is what it takes to get through between interrupts that come
for ever. It is no promise about locks under unending contention.

## 4. What is proved

Every theorem holds for all values of the constants that satisfy the ASSUME of
its module. Each rests on an inductive invariant, stated in the model's module
as a conjunction of named parts. `SwitchInv` is an invariant of a run; the
others were given to TLC by adding them to the INVARIANTS of the run's cfg
before they were proved, and anyone can repeat that. The proof of an invariant
has one lemma per action (or per group of actions that change the same thing),
preceded by lemmas about the helpers.

### Scheduler

From `SchedulerAssumption` (the names of cores, threads, locks and null differ,
the reaper and init are threads), for any number of cores, threads, locks, child
slots and ticks, with kills allowed unless a line says otherwise.

* `SwitchCorrect`: `SwitchInv` is an invariant. None of the properties below is
  inductive: that a TCB is in one queue only follows from what every step knows
  about where the TCB was before. `SwitchInv` makes `pc` the truth about that.
  Its parts say that a core is on the stack of an executing TCB and no two on
  the same (StackInv); that a choice is held by one core between `remove()` and
  the switch (ChosenInv); that the idle TCB is on its core or parked (IdleInv);
  that members of a queue are where `pc` says, once each (QueueInv); that a
  waiter taken by `up()` is in one hand (HandInv); that the locals of a system
  call refer to what they must (CallInv); and that `activeThreads` is ahead of
  the stack only with `no_preempt` set (ActiveInv).
* `PlaceCorrect`: no TCB is at two places, none at any once deleted.
* `TickCorrect`: a tick acts on the thread whose stack the core is on. This is
  the answer to the comment "Why is this safe?" (`threads.h:117`).
* `IdleCorrect`, `TypeCorrect`.
* `SortedCorrect`: the ready queue is ordered by run time, since only the
  running thread is charged and a thread is in the queue only when not running.
* `OrderCorrect`, an action property: no step lets a queued thread pass another,
  and one that joins goes behind all that ran as little. It needs the sorted
  queue, and the lemmas about the place where `add()` inserts.
* `SleepersCorrect`: no core sleeps with its monitor armed while there is work.
  Inductive relative to `SwitchInv`: a core goes to sleep when it has found the
  queue empty, with a monitor that is older than the look, and whoever inserts
  takes the lock and so writes the monitored word.
* `SemCorrect`: `SemInv` is an invariant. A thread that waits, or is on its way
  into the queue with the spin lock kept across the switch, has asked for that
  semaphore (QueuedInv); a token lies in a semaphore only when nobody waits or
  is about to, and who has a lock is between lock and unlock, or was killed
  there (TokenInv); the token of a Future comes after its status (StatusInv); a
  process that is not killed leaves its status once (KilledInv). What a thread
  does next is `Code`, which a preemption or a block does not change: so most
  steps change nothing of this (`Same` in the proofs).
* From it `LockTokensCorrect` (one holder or free, also during the hand-over),
  `NoMissedUpCorrect`, `WaitSeesStatusCorrect`, and `OnlyKilledPanic`: the
  assertion in `Future::set` fails at most for a process that may be killed.
* `FoundCorrect`: a thread is found where `pc` says it is kept (FoundInv, the
  converse of `SwitchInv`), and only `up()` has a waiter in its hand
  (HandsBusy). From it `LostOnlyInUp`: whoever is killed, the only thread that
  can be at no place at all is a waiter that an `up()` had taken out.
* `NoPanicCorrect` and `NoThreadLostCorrect` have the hypothesis
  `Killable = {}`, under which `sched_live` checks them too. It is a real
  restriction: section 3 describes how a kill breaks both. `OnlyKilledPanic` and
  `LostOnlyInUp` say how far the damage of a kill can go.

### The other modules

* `SpinLocks`, for any cores and locks of each of the three kinds, however
  nested, where a context takes its locks in one order, a handler takes no plain
  SpinLock (both as in the kernel) and each asks any bounded number of times
  (`MaxRequests`): `SpinCorrect`, and from it `ExclusionCorrect`, `NoSelfDeadlockCorrect`
  and `FlagRestoredCorrect`. The invariant follows the chain of saved flags:
  the flag that each held lock has in `was`, or its caller in a local, is the
  one before that lock, so unlocking brings it back although `was` is a field
  that every holder of the lock writes.
* `BoundedBuffer`, for any capacity `N > 0` and finitely many threads:
  `BufferCorrect`. Units of `nEmpty` and `nFull`, in the semaphore or with a
  thread, add up to the free and the filled slots (UnitInv, hence the finite
  set of threads, whose members are counted), and the lock has one owner.
  `BufferImplementsFIFO`: under that invariant every step is a step of `FIFO`
  or leaves the queue alone. The queue is the part of the ring from its tail to
  its head; the step that counts an item appends it, the step that loads one
  removes it, and no other changes what the mapping shows.
* `Barriers`, for any finite set of workers, any rounds and stray notifications:
  `BarriersCorrect`, `TogetherCorrect`, `NoMissedSignalCorrect` (the promise of
  `condition.h`) and `AssertionsHoldCorrect` (the panic of `Barrier`, the
  assertions of `ReusableBarrier` and `Condition`). RoundInv is what it takes: a
  worker in the barrier is in the current epoch or the one before, and `count`
  is the number that the current epoch still waits for.
* `SharedPtr`, for any threads, objects and blocks and a finite set of
  variables: `SharedCorrect`, `CountExactCorrect`, `DeletedOnceCorrect`. The
  invariant counts references that are still to be given up by an assignment in
  progress, and says that the thread which brought a counter to zero is the only
  one left to delete.
* `Boot`, for any number of cores and any measured frequency: `BootCorrect` and
  `BootSoundCorrect`. Core 0 waits for each core it starts, so all before it are
  late and all behind it off; the parts in `done` are a prefix of `Order`.

### VMM

From `VMMAssumption` (the sizes are positive, a table does not straddle `Base`,
requests and segments are numbers below 2^32 bytes), for any processes, files,
frames, pages and requests, with kills and preemption anywhere but in the last
item, which names its conditions.

* `SpaceInvariant`: `SpaceInv`, whatever programs do. Between the steps of a
  fault, a munmap, a fork or an exec other processes run, so what a step relies
  on must have survived them: the page of a fault is still unmapped and its entry
  still in the list (FaultInv), a page is in a table (TableInv), a child belongs
  to one fork and is not yet alive (ForkInv), and whoever does not exist has no
  memory. `VMMTypeCorrect` follows. It includes that `mmap` chooses an address
  below 2^32 and a place in the list, so what the walk computes is shown to exist
  and to be of that type by a least counterexample (`WalkExists`, `WalkType`):
  recursion over the list is within reach where a step of it is enough.
* `FramesOneOwner` and `FramesNoLeak`, where no program maps a file shared
  (`NoSharedFiles`; every other mapping, private ones of files included, is
  allowed). The invariant is `OwnInv` in `VMMProofs`: the supply has no frame
  twice, no slot has a frame of the supply, no two slots have the same
  (Exclusive), and all of it is there while no killable process has ended
  (Complete). Every action takes a frame from the supply into an empty slot,
  gives back that of a slot, moves one from a fault to a page, or leaves them
  alone; only a kill drops one (`FrameStep`). One lemma for each of these, and one
  per action that says which it is, make the proof.
* `MmapKeepsApartCorrect`, the action property: the walk finds the first gap,
  behind it stays where it is, and the new mapping lies between two others.
  An attempt without the bound on the end of the mapping failed for a good
  reason, the wrap-around that section 3 describes.
* `SharedNoDangling` and `SharedCountExact`, with shared mappings of files, for any
  processes, files, frames, nodes and requests that are `Disciplined`: one call or
  fault at a time (`Preempt = FALSE`), no fork, exec or exit while a file is mapped
  and no munmap but of shared mappings that were touched (`Tidy`), no fork or exit
  with a pointer that freed memory left in a mapping (`Early`), nobody killed,
  mappings at page boundaries and those of files of one
  page, a bound `MaxEntries` that leaves room for image and stack, and more room
  in `num_processes` than there are uses. These are the conditions of `vmm_share`,
  whose instance satisfies them; section 3 and the hazards say what goes wrong
  for programs that break the first ones. New mappings may have any node that
  `Leftovers` allows, pointers to nodes in use included: what is shown is that a
  fault overwrites them before munmap reads them, and that image and stack, which
  keep them, change no count until their process forks or exits. `Early` is what
  the code does not ensure and a program cannot see; without it the theorems are
  false: section 3 has the example. Page boundaries are where mmap puts
  mappings that leave the address to it, and page faults are about pages, so a
  mapping between boundaries covers none exactly. The invariant is `ShareInv`:
    * a mapping of a file is of one page, and one that has a node is the only one
      of that page with a node, which shows the node's frame, or is about to in
      the fault that has just linked it (EntryInv, MarkInv);
    * `num` is the number of uses, the mappings with the node and the fault that
      has made it or found it; the nodes in `node_list` are those in use, but for one that
      a fault has not yet linked or a munmap not yet taken out, and have different
      files (NodeInv), since the fault that makes one still sees none of its file
      (FaultShare);
    * a munmap frees exactly if no use is left, and the page it takes out still
      shows the node's frame (UnmapShare);
    * the frame of a node in use belongs to the node, the pages and faults that
      show it only borrow it, and so every frame again has at most one holder
      (Exclusive of `Holds`, the ownership of `OwnInv` with lending). Without
      lending the invariant could not be stated: two pages share a frame.
  Each action either touches no node and moves frames as in `OwnInv`
  (`QuietShare`), or adds or removes one use (`CountUp`, `CountDown`).

### Files

From `FilesAssumption` (tables no larger than `KindMod`, lengths and offsets are
numbers) and `ImageAssumption` (a sound image: every cell of a file that open can
find lies in a block that the node has, and block numbers are numbers; an image
that breaks this fails an ASSERT of `Ext2` or reads outside the disk), for any
processes, tables, descriptors, image, block and sector size and number of
calls. `FilesInvariant` proves `FilesInv`, which has four parts.

* TableInv. An id is `kind * KindMod + index` with the index below `KindMod`, so
  ids of different kinds or indices differ (`IdDiffers`), and what close forgets
  is what it clears. The child tables of processes that do not exist are empty:
  without that a fork would give the child ids it was never granted.
  `HandlesStableCorrect` follows: an id
  names the same until its process closes it or waits for it.
* DescInv. A FileDescriptor that a table or a read leads to is an open one; a
  descriptor that is reused is one that nothing leads to.
* ReadInv. A read of a node has the cells from its start to its offset
  (GoodRead), and the read of the device under it those from where it began up
  to `at` (GoodDeviceRead), be that a block or the entry of the indirect block.
  Each loop is one lemma: `SectorReadGood`, `BlockReadGood`, `RoundGood`.
* DriveInv. Who has the lock is the one whose sector is in the registers, then in
  the drive; so the sector that Transfer takes is its own.

`ReadsTheFileCorrect` has one hypothesis more, `HoldsTheImage`, which says what
the bytes of a file are: the cells at the place that the node's block numbers
give. TLC evaluates it, and the two assumptions, for the image of `MCFiles`,
where the contents of the files are written out by hand.

### Only model-checked

* Liveness: the prover has no fairness and no ENABLED.
* `SharedAsOne` and `FilePageShown` of `VMM`. `Disciplined` does not imply them: mmap
  may put a mapping over an older one after there was no gap (section 3), and a
  page that was touched before then shows the older one: an attempt to derive
  them from `ShareInv` failed for this reason. They need in addition
  that mappings never overlap, as in `vmm_share`.
* `HeapSound`, the refinement of `Allocator` by `Heap`, and `OpensTheNamedFile`:
  the walks of the free list, of directories and of links are recursive, and what
  they compute for every input takes an induction over data that the prover
  cannot do.

## 5. The plan

Modelled: everything that keeps state, but for what is listed below. Next, for
the prover, `SharedAsOne` and `FilePageShown`, with the hypothesis that mmap finds
a gap (`Room`) each time, under which mappings do not overlap (`InsertApart`).

A composition of `Files` and `VMM`, in which a read stores into a page that
faults, would reach the one hazard of section 1 that no module covers
(`ide.cc:87`).

Not modelled, and why: the boot sector and the firmware's tables (`config.cc`),
which run once and parse; `snprintf.cc`, `libk.cc`, `debug.cc` and the UART,
which format and print; `machine.S` and `crt`, single instructions and the call
of constructors; `random.h`, unused; the headers of ELF files and the layout of
argv; the user programs and their library in `t0.dir`, of which `heap.c` repeats
the kernel's heap without a lock.
