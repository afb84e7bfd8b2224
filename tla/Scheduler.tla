------------------------------ MODULE Scheduler ------------------------------
(***************************************************************************)
(* The thread scheduler of the kernel and what blocks and wakes threads:   *)
(*                                                                         *)
(*   kernel/threads.h, threads.cc   block, yield, stop, the reaper         *)
(*   kernel/context.s               gheith_contextSwitch                   *)
(*   kernel/priority_queue.h        readyQ (module ReadyQueue)             *)
(*   kernel/semaphore.h             Semaphore, BlockingLock                *)
(*   kernel/future.h                the Future a process leaves its exit   *)
(*                                  status in                              *)
(*   kernel/pit.cc                  apitHandler: preemption and kill       *)
(*   kernel/process.cc, sys.cc      exit, wait, kill, the threads of fork  *)
(*                                                                         *)
(* A TCB is a member of Threads or the idle TCB of a core, which is named  *)
(* by the core itself: idleThreads[c] = c.  Each process has one thread    *)
(* (fork makes one, nothing adds another), so Threads also names the       *)
(* processes.  Every core executes on the kernel stack of one TCB and      *)
(* steps that TCB's program counter.  Semaphores are the kernel's blocking *)
(* locks (Locks) and, for every process t, the semaphore `go' of its       *)
(* output Future, named t.                                                 *)
(*                                                                         *)
(* Critical sections of the spin locks of readyQ, zombies and of a         *)
(* Semaphore run with interrupts disabled and are single steps, except the *)
(* slow path of Semaphore::down, which keeps the semaphore's lock across   *)
(* the context switch.                                                     *)
(***************************************************************************)
EXTENDS ReadyQueue

CONSTANTS
  Cores,       (* the processors, and the names of their idle TCBs         *)
  Threads,     (* the other TCBs the kernel may ever create                *)
  Reaper,      (* the thread that deletes zombies                          *)
  FirstThread, (* the thread of the init process                           *)
  Locks,       (* BlockingLocks, e.g. the heap lock or a process mutex     *)
  Killable,    (* the processes some parent may kill                       *)
  NCHILD,      (* slots for children in a process (10 in process.h)        *)
  MaxRunTime,  (* bound on the ticks counted for one process               *)
  None         (* nullptr                                                  *)

TCBs == Cores \union Threads
Sems == Locks \union Threads
Slots == 1..NCHILD

ASSUME SchedulerAssumption ==
  /\ Reaper \in Threads
  /\ FirstThread \in Threads \ {Reaper}
  /\ Cores \cap Threads = {}
  /\ Locks \cap TCBs = {}
  /\ Killable \subseteq Threads \ {Reaper}
  /\ NCHILD \in Nat
  /\ MaxRunTime \in Nat
  /\ None \notin TCBs \union Locks
  /\ {"yield", "stop"} \cap (TCBs \union Locks) = {}

VARIABLES
  active,    (* [core] activeThreads[]                                     *)
  stack,     (* [core] the TCB on whose stack the core executes            *)
  chosen,    (* [core] next_tcb, between readyQ.remove() and the switch    *)
  prev,      (* [core] the TCB switched away from, until f(prev) has run   *)
  armed,     (* [core] its monitor is set, the word it watches not written *)
  pc,        (* [TCB] where it is in the code, or where it is kept         *)
  why,       (* [TCB] the block() call it is in: yield, stop or a down()   *)
  resume,    (* [TCB] where it continues when block() returns              *)
  ret,       (* [TCB] where it continues after up() or delete_zombies()    *)
  hand,      (* [TCB] the waiter up() has removed and not yet scheduled    *)
  noPreempt, (* [TCB] saveArea.no_preempt                                  *)
  irqOff,    (* [TCB] interrupts are disabled in its context               *)
  readyQ,    (* the ready queue                                            *)
  zombies,   (* stopped threads, first to be deleted first                 *)
  count,     (* [semaphore] Semaphore::count                               *)
  semLock,   (* [semaphore] the TCB whose down() keeps the ISL, or None    *)
  waiting,   (* [semaphore] Semaphore::waiting                             *)
  lockOf,    (* [thread] the BlockingLock it has asked for or holds        *)
  slot,      (* [thread] the child slot its fork or wait is about          *)
  runTime,   (* [thread] process->run_time                                 *)
  killFlag,  (* [thread] process->kill_flag                                *)
  isReady,   (* [thread] output->isReady                                   *)
  children,  (* [thread][slot] children[], the process whose Future it is  *)
  killFlags  (* [thread][slot] kill_flags[], the process whose flag it is  *)

cpuVars  == <<active, stack, chosen, prev>>
tcbVars  == <<why, resume, ret, hand, noPreempt, irqOff>>
semVars  == <<count, semLock, waiting>>
procVars == <<lockOf, slot, runTime, killFlag, isReady, children, killFlags>>
vars == <<cpuVars, armed, pc, tcbVars, readyQ, zombies, semVars, procVars>>

-----------------------------------------------------------------------------
(* Where a thread can be.                                                  *)

(* Executing its own code or a kernel primitive other than block().        *)
Working == {"run", "locked", "get", "got", "waited", "setting", "set", "stop",
            "wake", "reap", "spawn", "yield"}
(* Where up() and delete_zombies() return to.                              *)
Returns == {"run", "waited", "stop", "spawn", "setting", "yield"}
(* Inside block(), or arriving from a context switch.                      *)
Blocking == {"block", "remove", "commit", "switch", "mwait"}
OnCpu == Working \union Blocking \union {"landing", "panic"}
(* Kept somewhere: in a queue, in a local variable of another thread.      *)
Kept == {"ready", "picked", "leaving", "waiting", "woken", "zombie", "parked"}

Init ==
  /\ active = [c \in Cores |-> c]
  /\ stack = [c \in Cores |-> c]
  /\ chosen = [c \in Cores |-> None]
  /\ prev = [c \in Cores |-> None]
  /\ armed = [c \in Cores |-> FALSE]
  /\ pc = [t \in TCBs |-> IF t \in Cores THEN "stop"
                          ELSE IF t \in {Reaper, FirstThread} THEN "ready"
                          ELSE "new"]
  /\ why = [t \in TCBs |-> "stop"]
  /\ resume = [t \in TCBs |-> "run"]
  /\ ret = [t \in TCBs |-> "run"]
  /\ hand = [t \in TCBs |-> None]
  /\ noPreempt = [t \in TCBs |-> FALSE]
  /\ irqOff = [t \in TCBs |-> FALSE]
  /\ readyQ = <<Reaper, FirstThread>>
  /\ zombies = << >>
  /\ count = [s \in Sems |-> IF s \in Locks THEN 1 ELSE 0]
  /\ semLock = [s \in Sems |-> None]
  /\ waiting = [s \in Sems |-> << >>]
  /\ lockOf = [t \in Threads |-> None]
  /\ slot = [t \in Threads |-> 0]
  /\ runTime = [t \in Threads |-> 0]
  /\ killFlag = [t \in Threads |-> FALSE]
  /\ isReady = [t \in Threads |-> FALSE]
  /\ children = [t \in Threads |-> [i \in Slots |-> None]]
  /\ killFlags = [t \in Threads |-> [i \in Slots |-> None]]

(* Core c executes at program point p of the TCB it runs.                  *)
At(c, p) == prev[c] = None /\ pc[stack[c]] = p

(* ... of a process other than the reaper's.                               *)
InProcess(c, p) == At(c, p) /\ stack[c] \in Threads \ {Reaper}

Goto(t, p) == pc' = [pc EXCEPT ![t] = p]

-----------------------------------------------------------------------------
(* Every operation on readyQ takes and releases its lock, and so stores to *)
(* the lock word, which is what the other cores watch: it fires their      *)
(* monitors.  Core c keeps its own only if it is about to sleep.           *)
LockStored == armed' = [d \in Cores |-> FALSE]
LockStoredBy(c) == armed' = [d \in Cores |-> d = c /\ armed[d]]

(* schedule(): link t into readyQ.                                         *)
Schedule(t) ==
  /\ readyQ' = Add(readyQ, runTime, t)
  /\ LockStored

(* The call of block() up to the label again: thread t gives its reason    *)
(* and marks itself not preemptible.                                       *)
Block(t, reason, back) ==
  /\ Goto(t, "block")
  /\ why' = [why EXCEPT ![t] = reason]
  /\ resume' = [resume EXCEPT ![t] = back]
  /\ noPreempt' = [noPreempt EXCEPT ![t] = TRUE]

(* block() returns to thread t, where it was called and with the interrupt *)
(* state of its caller; pcs is pc with the other changes of the step made. *)
Continue(t, pcs) ==
  /\ pc' = [pcs EXCEPT ![t] = resume[t]]
  /\ why' = [why EXCEPT ![t] = "stop"]
  /\ resume' = [resume EXCEPT ![t] = "run"]
  /\ irqOff' = [irqOff EXCEPT ![t] = FALSE]

(* again: readyQ.monitor_add() sets the monitor of the core on `size', but *)
(* a core has one monitor and readyQ.remove() begins by taking the lock,   *)
(* whose lock() sets it again, on the word `taken'.  What the core watches *)
(* from here on is the lock word.                                          *)
Monitor(c) ==
  /\ At(c, "block")
  /\ Goto(stack[c], "remove")
  /\ armed' = [armed EXCEPT ![c] = TRUE]
  /\ UNCHANGED <<cpuVars, tcbVars, readyQ, zombies, semVars, procVars>>

(* readyQ.remove() finds a thread to run.                                  *)
RemoveNext(c) ==
  /\ At(c, "remove")
  /\ readyQ # << >>
  /\ readyQ' = Tail(readyQ)
  /\ chosen' = [chosen EXCEPT ![c] = Head(readyQ)]
  /\ pc' = [pc EXCEPT ![stack[c]] = "commit", ![Head(readyQ)] = "picked"]
  /\ LockStored
  /\ UNCHANGED <<active, stack, prev, tcbVars, zombies, semVars, procVars>>

(* readyQ is empty and the caller can do without blocking: block()         *)
(* returns, with no_preempt still set.  A timer tick that called yield()   *)
(* returns from its handler and with it interrupts are enabled again.      *)
RemoveReturn(c) ==
  /\ At(c, "remove")
  /\ readyQ = << >> /\ why[stack[c]] = "yield"
  /\ Continue(stack[c], pc)
  /\ LockStored
  /\ UNCHANGED <<cpuVars, ret, hand, noPreempt, readyQ, zombies, semVars, procVars>>

(* Mutated form: the idle TCB of any core is next.                         *)
RemoveNoneAnyIdle(c) ==
  /\ At(c, "remove")
  /\ readyQ = << >> /\ why[stack[c]] # "yield"
  /\ IF stack[c] \in Cores
     THEN Goto(stack[c], "mwait") /\ LockStoredBy(c) /\ UNCHANGED chosen
     ELSE /\ Goto(stack[c], "commit")
          /\ \E d \in Cores : pc[d] = "parked" /\ chosen' = [chosen EXCEPT ![c] = d]
          /\ LockStored
  /\ UNCHANGED <<active, stack, prev, tcbVars, readyQ, zombies, semVars, procVars>>

(* readyQ is empty and the caller must block: the idle TCB is next, unless *)
(* the caller is an idle TCB, which waits.                                 *)
RemoveNone(c) ==
  /\ At(c, "remove")
  /\ readyQ = << >> /\ why[stack[c]] # "yield"
  /\ IF stack[c] \in Cores
     THEN Goto(stack[c], "mwait") /\ LockStoredBy(c) /\ UNCHANGED chosen
     ELSE /\ Goto(stack[c], "commit")
          /\ chosen' = [chosen EXCEPT ![c] = c]
          /\ LockStored
  /\ UNCHANGED <<active, stack, prev, tcbVars, readyQ, zombies,
                 semVars, procVars>>

(* Mutated form: the idle loop sets the monitor only now, right before     *)
(* mwait, and a store since its look into the queue goes unnoticed.        *)
MonitorLate(c) ==
  /\ At(c, "mwait") /\ ~armed[c]
  /\ armed' = [armed EXCEPT ![c] = TRUE]
  /\ UNCHANGED <<cpuVars, pc, tcbVars, readyQ, zombies, semVars, procVars>>

(* mwait() returns: another core has taken or released the lock, ...       *)
MonitorWake(c) ==
  /\ At(c, "mwait") /\ ~armed[c]
  /\ Goto(stack[c], "block")
  /\ UNCHANGED <<cpuVars, armed, tcbVars, readyQ, zombies, semVars, procVars>>

(* ... or an interrupt arrived; apitHandler ignores idle threads.          *)
TimerWake(c) ==
  /\ At(c, "mwait") /\ armed[c]
  /\ Goto(stack[c], "block")
  /\ armed' = [armed EXCEPT ![c] = FALSE]
  /\ UNCHANGED <<cpuVars, tcbVars, readyQ, zombies, semVars, procVars>>

-----------------------------------------------------------------------------
(* Mutated forms of the switch.                                            *)

(* next_tcb->saveArea.no_preempt = 1 is missing.                           *)
CommitPreemptible(c) ==
  /\ At(c, "commit")
  /\ Goto(stack[c], "switch")
  /\ active' = [active EXCEPT ![c] = chosen[c]]
  /\ UNCHANGED <<stack, chosen, prev, armed, tcbVars, readyQ, zombies,
                 semVars, procVars>>

(* yield() links the thread in before it has left its stack.               *)
SwitchAfterSchedule(c) ==
  LET me == stack[c] next == chosen[c] IN
  /\ At(c, "switch")
  /\ stack' = [stack EXCEPT ![c] = next]
  /\ prev' = [prev EXCEPT ![c] = me]
  /\ chosen' = [chosen EXCEPT ![c] = None]
  /\ pc' = [pc EXCEPT ![me] = "leaving", ![next] = "landing"]
  /\ noPreempt' = [noPreempt EXCEPT ![me] = FALSE, ![next] = FALSE]
  /\ IF why[me] = "yield" THEN Schedule(me) ELSE UNCHANGED <<readyQ, armed>>
  /\ UNCHANGED <<active, why, resume, ret, hand, irqOff, zombies,
                 semVars, procVars>>

-----------------------------------------------------------------------------
(* The choice is published.                                                *)
Commit(c) ==
  /\ At(c, "commit")
  /\ Goto(stack[c], "switch")
  /\ noPreempt' = [noPreempt EXCEPT ![chosen[c]] = TRUE]
  /\ active' = [active EXCEPT ![c] = chosen[c]]
  /\ UNCHANGED <<stack, chosen, prev, armed, why, resume, ret, hand, irqOff,
                 readyQ, zombies, semVars, procVars>>

(* gheith_contextSwitch up to the call of the handler: interrupts go off,  *)
(* both no_preempt flags are cleared, the core is on the next TCB's stack. *)
Switch(c) ==
  LET me == stack[c] next == chosen[c] IN
  /\ At(c, "switch")
  /\ stack' = [stack EXCEPT ![c] = next]
  /\ prev' = [prev EXCEPT ![c] = me]
  /\ chosen' = [chosen EXCEPT ![c] = None]
  /\ pc' = [pc EXCEPT ![me] = "leaving", ![next] = "landing"]
  /\ noPreempt' = [noPreempt EXCEPT ![me] = FALSE, ![next] = FALSE]
  /\ UNCHANGED <<active, armed, why, resume, ret, hand, irqOff, readyQ, zombies,
                 semVars, procVars>>

(* The rest of the switch: the function passed to block() runs on the      *)
(* stack of the next TCB for the TCB that has left; then the next TCB      *)
(* continues where it called block(), its interrupt state restored.        *)
Arrive(c, kept) ==
  /\ prev' = [prev EXCEPT ![c] = None]
  /\ Continue(stack[c], [pc EXCEPT ![prev[c]] = kept])
  /\ UNCHANGED <<active, stack, chosen, ret, hand, noPreempt, procVars>>

HandleYield(c) ==
  /\ prev[c] # None /\ why[prev[c]] = "yield"
  /\ Arrive(c, "ready")
  /\ Schedule(prev[c])
  /\ UNCHANGED <<zombies, semVars>>

(* Mutated form: an idle TCB that stops is a zombie like any other.        *)
HandleStopAll(c) ==
  /\ prev[c] # None /\ why[prev[c]] = "stop"
  /\ Arrive(c, "zombie") /\ zombies' = Append(zombies, prev[c])
  /\ UNCHANGED <<armed, readyQ, semVars>>

HandleStop(c) ==
  /\ prev[c] # None /\ why[prev[c]] = "stop"
  /\ IF prev[c] \in Cores
     THEN Arrive(c, "parked") /\ UNCHANGED zombies
     ELSE Arrive(c, "zombie") /\ zombies' = Append(zombies, prev[c])
  /\ UNCHANGED <<armed, readyQ, semVars>>

HandleDown(c) ==
  LET s == why[prev[c]] IN
  /\ prev[c] # None /\ s \in Sems
  /\ Arrive(c, "waiting")
  /\ waiting' = [waiting EXCEPT ![s] = Append(@, prev[c])]
  /\ semLock' = [semLock EXCEPT ![s] = None]
  /\ UNCHANGED <<armed, readyQ, zombies, count>>

-----------------------------------------------------------------------------
(* Semaphores.                                                             *)

(* Mutated form: down() releases the lock before it calls block().         *)
DownUnlocks(t, s, back) ==
  /\ semLock[s] = None
  /\ \/ /\ count[s] > 0
        /\ count' = [count EXCEPT ![s] = @ - 1]
        /\ Goto(t, back)
        /\ UNCHANGED <<why, resume, noPreempt, irqOff, semLock>>
     \/ /\ count[s] = 0
        /\ irqOff' = [irqOff EXCEPT ![t] = TRUE]
        /\ Block(t, s, back)
        /\ UNCHANGED <<count, semLock>>
  /\ UNCHANGED <<cpuVars, armed, ret, hand, readyQ, zombies, waiting>>

(* down(): a token is there, or the thread blocks with the lock held.      *)
Down(t, s, back) ==
  /\ semLock[s] = None
  /\ \/ /\ count[s] > 0
        /\ count' = [count EXCEPT ![s] = @ - 1]
        /\ Goto(t, back)
        /\ UNCHANGED <<why, resume, noPreempt, irqOff, semLock>>
     \/ /\ count[s] = 0
        /\ semLock' = [semLock EXCEPT ![s] = t]
        /\ irqOff' = [irqOff EXCEPT ![t] = TRUE]
        /\ Block(t, s, back)
        /\ UNCHANGED count
  /\ UNCHANGED <<cpuVars, armed, ret, hand, readyQ, zombies, waiting>>

(* Mutated form: up() counts although it hands the token to a waiter.      *)
UpAlwaysCounts(t, s, back) ==
  /\ semLock[s] = None
  /\ count' = [count EXCEPT ![s] = @ + 1]
  /\ \/ /\ waiting[s] = << >>
        /\ Goto(t, back)
        /\ UNCHANGED <<ret, hand, waiting>>
     \/ /\ waiting[s] # << >>
        /\ hand' = [hand EXCEPT ![t] = Head(waiting[s])]
        /\ waiting' = [waiting EXCEPT ![s] = Tail(@)]
        /\ ret' = [ret EXCEPT ![t] = back]
        /\ pc' = [pc EXCEPT ![t] = "wake", ![Head(waiting[s])] = "woken"]
  /\ UNCHANGED <<cpuVars, armed, why, resume, noPreempt, irqOff, readyQ, zombies,
                 semLock>>

(* Mutated form: up() forgets the waiter it removed.                       *)
UpDropsWaiter(t, s, back) ==
  /\ semLock[s] = None
  /\ Goto(t, back)
  /\ \/ /\ waiting[s] = << >>
        /\ count' = [count EXCEPT ![s] = @ + 1]
        /\ UNCHANGED waiting
     \/ /\ waiting[s] # << >>
        /\ waiting' = [waiting EXCEPT ![s] = Tail(@)]
        /\ UNCHANGED count
  /\ UNCHANGED <<cpuVars, armed, why, resume, ret, hand, noPreempt, irqOff, readyQ,
                 zombies, semLock>>

(* up(): the token goes to the first waiter, if there is one.              *)
Up(t, s, back) ==
  /\ semLock[s] = None
  /\ \/ /\ waiting[s] = << >>
        /\ count' = [count EXCEPT ![s] = @ + 1]
        /\ Goto(t, back)
        /\ UNCHANGED <<ret, hand, waiting>>
     \/ /\ waiting[s] # << >>
        /\ hand' = [hand EXCEPT ![t] = Head(waiting[s])]
        /\ waiting' = [waiting EXCEPT ![s] = Tail(@)]
        /\ ret' = [ret EXCEPT ![t] = back]
        /\ pc' = [pc EXCEPT ![t] = "wake", ![Head(waiting[s])] = "woken"]
        /\ UNCHANGED count
  /\ UNCHANGED <<cpuVars, armed, why, resume, noPreempt, irqOff, readyQ, zombies,
                 semLock>>

(* up() has released the lock and schedules the waiter it removed.         *)
WakeWaiter(c) ==
  LET me == stack[c] IN
  /\ At(c, "wake")
  /\ Schedule(hand[me])
  /\ hand' = [hand EXCEPT ![me] = None]
  /\ ret' = [ret EXCEPT ![me] = "run"]
  /\ pc' = [pc EXCEPT ![me] = ret[me], ![hand[me]] = "ready"]
  /\ UNCHANGED <<cpuVars, why, resume, noPreempt, irqOff, zombies,
                 semVars, procVars>>

(* BlockingLock::lock() and unlock(), as LockGuard uses them.              *)
Lock(c, l) ==
  /\ InProcess(c, "run")
  /\ Down(stack[c], l, "locked")
  /\ lockOf' = [lockOf EXCEPT ![stack[c]] = l]
  /\ UNCHANGED <<slot, runTime, killFlag, isReady, children, killFlags>>

Unlock(c) ==
  /\ InProcess(c, "locked")
  /\ Up(stack[c], lockOf[stack[c]], "run")
  /\ lockOf' = [lockOf EXCEPT ![stack[c]] = None]
  /\ UNCHANGED <<slot, runTime, killFlag, isReady, children, killFlags>>

-----------------------------------------------------------------------------
(* Processes.                                                              *)

(* fork: the child u gets the first free slot, which keeps its Future and  *)
(* its kill flag; then thread() starts by deleting zombies.                *)
Fork(c, u) ==
  LET me   == stack[c]
      free == {i \in Slots : children[me][i] = None}
  IN
  /\ InProcess(c, "run")
  /\ pc[u] = "new"
  /\ \E i \in free :
       /\ \A j \in free : i <= j
       /\ slot' = [slot EXCEPT ![me] = i]
       /\ children' = [children EXCEPT ![me][i] = u]
       /\ killFlags' = [killFlags EXCEPT ![me][i] = u]
  /\ pc' = [pc EXCEPT ![me] = "reap", ![u] = "made"]
  /\ ret' = [ret EXCEPT ![me] = "spawn"]
  /\ UNCHANGED <<cpuVars, armed, why, resume, hand, noPreempt, irqOff, readyQ,
                 zombies, semVars, lockOf, runTime, killFlag, isReady>>

(* No slot is free: fork yields a null process, which sysHandler passes to *)
(* thread() all the same; the constructor of the TCB reads through the     *)
(* null pointer and the page fault makes the caller exit.                  *)
ForkFails(c) ==
  /\ InProcess(c, "run")
  /\ \A i \in Slots : children[stack[c]][i] # None
  /\ Goto(stack[c], "reap")
  /\ ret' = [ret EXCEPT ![stack[c]] = "setting"]
  /\ UNCHANGED <<cpuVars, armed, why, resume, hand, noPreempt, irqOff, readyQ,
                 zombies, semVars, procVars>>

(* thread(): the TCB of the child is scheduled.                            *)
Spawn(c) ==
  LET me == stack[c]
      u  == children[me][slot[me]]
  IN
  /\ At(c, "spawn")
  /\ pc' = [pc EXCEPT ![me] = "run", ![u] = "ready"]
  /\ Schedule(u)
  /\ slot' = [slot EXCEPT ![me] = 0]
  /\ UNCHANGED <<cpuVars, tcbVars, zombies, semVars,
                 lockOf, runTime, killFlag, isReady, children, killFlags>>

(* exit: the status goes into the output Future, then the thread stops.    *)
Exit(c) ==
  /\ InProcess(c, "run")
  /\ Goto(stack[c], "setting")
  /\ UNCHANGED <<cpuVars, armed, tcbVars, readyQ, zombies, semVars, procVars>>

(* Future::set up to go.up(); its assertion halts the processor.           *)
SetFuture(c) ==
  /\ At(c, "setting")
  /\ IF isReady[stack[c]]
     THEN Goto(stack[c], "panic") /\ UNCHANGED isReady
     ELSE Goto(stack[c], "set") /\ isReady' = [isReady EXCEPT ![stack[c]] = TRUE]
  /\ UNCHANGED <<cpuVars, armed, tcbVars, readyQ, zombies, semVars,
                 lockOf, slot, runTime, killFlag, children, killFlags>>

(* Mutated form: exit returns, stop() is missing.                          *)
SetUpReturns(c) ==
  /\ At(c, "set")
  /\ Up(stack[c], stack[c], "run")
  /\ UNCHANGED procVars

SetUp(c) ==
  /\ At(c, "set")
  /\ Up(stack[c], stack[c], "stop")
  /\ UNCHANGED procVars

(* stop()                                                                  *)
Stop(c) ==
  /\ At(c, "stop")
  /\ Block(stack[c], "stop", "stop")
  /\ UNCHANGED <<cpuVars, armed, ret, hand, irqOff, readyQ, zombies, semVars, procVars>>

(* Mutated form: get() tests isReady the wrong way round.                  *)
WaitInverted(c, i) ==
  LET me == stack[c] IN
  /\ InProcess(c, "run")
  /\ children[me][i] # None
  /\ slot' = [slot EXCEPT ![me] = i]
  /\ Goto(me, IF isReady[children[me][i]] THEN "get" ELSE "waited")
  /\ UNCHANGED <<cpuVars, armed, tcbVars, readyQ, zombies, semVars,
                 lockOf, runTime, killFlag, isReady, children, killFlags>>

(* wait: Future::get of a child reads isReady ...                          *)
Wait(c, i) ==
  LET me == stack[c] IN
  /\ InProcess(c, "run")
  /\ children[me][i] # None
  /\ slot' = [slot EXCEPT ![me] = i]
  /\ Goto(me, IF isReady[children[me][i]] THEN "waited" ELSE "get")
  /\ UNCHANGED <<cpuVars, armed, tcbVars, readyQ, zombies, semVars,
                 lockOf, runTime, killFlag, isReady, children, killFlags>>

(* ... and if it is not set, takes the token of go and puts it back.       *)
GetDown(c) ==
  /\ At(c, "get")
  /\ Down(stack[c], children[stack[c]][slot[stack[c]]], "got")
  /\ UNCHANGED procVars

GetUp(c) ==
  /\ At(c, "got")
  /\ Up(stack[c], children[stack[c]][slot[stack[c]]], "waited")
  /\ UNCHANGED procVars

WaitDone(c) ==
  LET me == stack[c] IN
  /\ At(c, "waited")
  /\ Goto(me, "run")
  /\ children' = [children EXCEPT ![me][slot[me]] = None]
  /\ slot' = [slot EXCEPT ![me] = 0]
  /\ UNCHANGED <<cpuVars, armed, tcbVars, readyQ, zombies, semVars,
                 lockOf, runTime, killFlag, isReady, killFlags>>

(* close of a child id: the slot is free again, its kill flag stays.       *)
Disown(c, i) ==
  LET me == stack[c] IN
  /\ InProcess(c, "run")
  /\ children[me][i] # None
  /\ children' = [children EXCEPT ![me][i] = None]
  /\ UNCHANGED <<cpuVars, armed, pc, tcbVars, readyQ, zombies, semVars,
                 lockOf, slot, runTime, killFlag, isReady, killFlags>>

(* kill: the flag in the slot is raised and the slot cleared.              *)
Kill(c, i) ==
  LET me == stack[c] IN
  /\ InProcess(c, "run")
  /\ killFlags[me][i] \in Killable
  /\ killFlag' = [killFlag EXCEPT ![killFlags[me][i]] = TRUE]
  /\ killFlags' = [killFlags EXCEPT ![me][i] = None]
  /\ UNCHANGED <<cpuVars, armed, pc, tcbVars, readyQ, zombies, semVars,
                 lockOf, slot, runTime, isReady, children>>

-----------------------------------------------------------------------------
(* The reaper: delete_zombies(), yield(), and again.                       *)
ReaperLoop(c) ==
  /\ At(c, "run") /\ stack[c] = Reaper
  /\ Goto(Reaper, "reap")
  /\ ret' = [ret EXCEPT ![Reaper] = "yield"]
  /\ UNCHANGED <<cpuVars, armed, why, resume, hand, noPreempt, irqOff, readyQ,
                 zombies, semVars, procVars>>

(* delete_zombies(): one TCB and its stack are deleted, or none is left.   *)
Reap(c) ==
  /\ At(c, "reap")
  /\ \/ /\ zombies # << >>
        /\ zombies' = Tail(zombies)
        /\ Goto(Head(zombies), "dead")
        /\ UNCHANGED ret
     \/ /\ zombies = << >>
        /\ Goto(stack[c], ret[stack[c]])
        /\ ret' = [ret EXCEPT ![stack[c]] = "run"]
        /\ UNCHANGED zombies
  /\ UNCHANGED <<cpuVars, armed, why, resume, hand, noPreempt, irqOff, readyQ,
                 semVars, procVars>>

(* yield()                                                                 *)
Yield(c) ==
  /\ At(c, "yield")
  /\ Block(stack[c], "yield", "run")
  /\ UNCHANGED <<cpuVars, armed, ret, hand, irqOff, readyQ, zombies, semVars, procVars>>

-----------------------------------------------------------------------------
(* apitHandler: a timer interrupt at core c, taken if interrupts are       *)
(* enabled there.  It charges the process of the active thread and either  *)
(* preempts the thread or, if the process was killed, makes it exit where  *)
(* it stands.  A tick that finds an idle thread or no_preempt set changes  *)
(* nothing.                                                                *)
Tick(c) ==
  LET me == active[c] IN
  /\ prev[c] = None /\ ~irqOff[stack[c]] /\ pc[stack[c]] # "panic"
  /\ me \notin Cores /\ ~noPreempt[me]
  /\ runTime[me] < MaxRunTime
  /\ runTime' = [runTime EXCEPT ![me] = @ + 1]
  /\ irqOff' = [irqOff EXCEPT ![me] = TRUE]
  /\ IF killFlag[me]
     THEN /\ Goto(me, "setting")
          /\ hand' = [hand EXCEPT ![me] = None]
          /\ ret' = [ret EXCEPT ![me] = "run"]
          /\ slot' = [slot EXCEPT ![me] = 0]
          /\ UNCHANGED <<why, resume, noPreempt>>
     ELSE Block(me, "yield", pc[me]) /\ UNCHANGED <<hand, ret, slot>>
  /\ UNCHANGED <<cpuVars, armed, readyQ, zombies, semVars,
                 lockOf, killFlag, isReady, children, killFlags>>

-----------------------------------------------------------------------------
(* The steps of block() and of the context switch.                         *)
SwitchStep(c) ==
  \/ Monitor(c) \/ RemoveNext(c) \/ RemoveReturn(c) \/ RemoveNone(c)
  \/ MonitorWake(c) \/ Commit(c) \/ Switch(c)
  \/ HandleYield(c) \/ HandleStop(c) \/ HandleDown(c)

(* Kernel code a thread runs through once it has entered it.               *)
KernelStep(c) ==
  \/ WakeWaiter(c) \/ Unlock(c) \/ Spawn(c)
  \/ SetFuture(c) \/ SetUp(c) \/ Stop(c) \/ GetDown(c) \/ GetUp(c) \/ WaitDone(c)
  \/ ReaperLoop(c) \/ Reap(c) \/ Yield(c)

(* System calls a process may make.                                        *)
SystemCall(c) ==
  \/ \E l \in Locks : Lock(c, l)
  \/ (\E u \in Threads : Fork(c, u)) \/ ForkFails(c) \/ Exit(c)
  \/ \E i \in Slots : Wait(c, i) \/ Disown(c, i) \/ Kill(c, i)

Next ==
  \E c \in Cores : SwitchStep(c) \/ KernelStep(c) \/ SystemCall(c)
                   \/ TimerWake(c) \/ Tick(c)

Spec == Init /\ [][Next]_vars

(* A core executes its instructions, and its timer keeps interrupting it.  *)
(* Nothing forces a process to make a system call.                         *)
Fairness ==
  \A c \in Cores : /\ WF_vars(SwitchStep(c) \/ KernelStep(c))
                   /\ WF_vars(Tick(c))

FairSpec == Spec /\ Fairness

-----------------------------------------------------------------------------
(***************************************************************************)
(* Properties.                                                             *)
(***************************************************************************)
PCs == OnCpu \union Kept \union {"new", "made", "dead"}

(* Every variable has the shape its declaration says.                      *)
TypeOK ==
  /\ active \in [Cores -> TCBs]
  /\ stack \in [Cores -> TCBs]
  /\ chosen \in [Cores -> TCBs \union {None}]
  /\ prev \in [Cores -> TCBs \union {None}]
  /\ armed \in [Cores -> BOOLEAN]
  /\ pc \in [TCBs -> PCs]
  /\ why \in [TCBs -> {"yield", "stop"} \union Sems]
  /\ resume \in [TCBs -> Working]
  /\ ret \in [TCBs -> Returns]
  /\ hand \in [TCBs -> Threads \union {None}]
  /\ noPreempt \in [TCBs -> BOOLEAN]
  /\ irqOff \in [TCBs -> BOOLEAN]
  /\ readyQ \in Seq(Threads)
  /\ zombies \in Seq(Threads)
  /\ count \in [Sems -> Nat]
  /\ semLock \in [Sems -> TCBs \union {None}]
  /\ waiting \in [Sems -> Seq(Threads)]
  /\ lockOf \in [Threads -> Locks \union {None}]
  /\ slot \in [Threads -> 0..NCHILD]
  /\ runTime \in [Threads -> 0..MaxRunTime]
  /\ killFlag \in [Threads -> BOOLEAN]
  /\ isReady \in [Threads -> BOOLEAN]
  /\ children \in [Threads -> [Slots -> Threads \union {None}]]
  /\ killFlags \in [Threads -> [Slots -> Threads \union {None}]]

(* The indices at which array or queue f refers to TCB t.                  *)
Entries(name, f, t) == {<<name, k>> : k \in {j \in DOMAIN f : f[j] = t}}
Waits(t) ==
  UNION {{<<"waiting", s, k>> : k \in {j \in DOMAIN waiting[s] : waiting[s][j] = t}} :
           s \in Sems}

(* The places that refer to TCB t: the stack of a core, a switch that has  *)
(* not finished leaving it, a core's choice, a queue, an up() under way.   *)
PlacesOf(t) ==
  Entries("stack", stack, t) \union Entries("leaving", prev, t)
    \union Entries("chosen", chosen, t) \union Entries("ready", readyQ, t)
    \union Entries("zombie", zombies, t) \union Waits(t)
    \union Entries("hand", hand, t)

(* A TCB is never at two places, and at none once it is deleted: no two    *)
(* cores run on one stack, a thread that yields or blocks is in no queue   *)
(* before block() has left its stack, none is queued twice through the one *)
(* link `next', and the reaper deletes no stack that is still in use.      *)
OnePlace ==
  \A t \in TCBs : /\ \A x, y \in PlacesOf(t) : x = y
                  /\ pc[t] = "dead" => PlacesOf(t) = {}

(***************************************************************************)
(* Why OnePlace and TickHitsRunning hold: pc tells where a TCB is kept,    *)
(* and every place agrees with it.  The parts of the inductive invariant:  *)
(***************************************************************************)
IdleStops == Blocking \union {"landing", "leaving", "parked"}

(* A core is on the stack of a TCB that executes; while the TCB it came    *)
(* from is still leaving, the new one is landing.                          *)
StackInv ==
  /\ \A c \in Cores : /\ pc[stack[c]] \in OnCpu
                      /\ prev[c] # None <=> pc[stack[c]] = "landing"
                      /\ prev[c] # None => pc[prev[c]] = "leaving"
  /\ \A c, d \in Cores : stack[c] = stack[d] => c = d
  /\ \A c, d \in Cores : prev[c] = prev[d] /\ prev[c] # None => c = d

(* A core holds a choice between remove() and the switch, and nobody else  *)
(* holds it.                                                               *)
ChosenInv ==
  /\ \A c \in Cores :
       /\ chosen[c] # None <=> pc[stack[c]] \in {"commit", "switch"}
       /\ chosen[c] \in Threads => pc[chosen[c]] = "picked"
       /\ chosen[c] \in Cores => chosen[c] = c /\ pc[c] = "parked"
  /\ \A c, d \in Cores : chosen[c] = chosen[d] /\ chosen[c] # None => c = d

(* The idle TCB of a core is on it, leaving it or parked, and is only ever *)
(* in stop().                                                              *)
IdleInv ==
  \A d \in Cores :
    /\ pc[d] \in IdleStops \union {"stop"}
    /\ pc[d] \in IdleStops => why[d] = "stop" /\ resume[d] = "stop"
    /\ pc[d] = "leaving" => prev[d] = d
    /\ pc[d] \notin {"leaving", "parked"} => stack[d] = d
    /\ hand[d] = None
    /\ \A c \in Cores : (stack[c] = d \/ prev[c] = d) => c = d

(* The members of each queue are where pc says, each linked in once.       *)
Keeps(q, place) ==
  /\ \A i \in 1..Len(q) : pc[q[i]] = place
  /\ NoDuplicates(q)
QueueInv ==
  /\ Keeps(readyQ, "ready")
  /\ Keeps(zombies, "zombie")
  /\ \A s \in Sems : /\ Keeps(waiting[s], "waiting")
                     /\ \A i \in 1..Len(waiting[s]) : why[waiting[s][i]] = s

(* A waiter that up() has removed is in the hand of one thread.            *)
HandInv ==
  /\ \A t \in TCBs : /\ hand[t] # None => pc[hand[t]] = "woken"
                     /\ "wake" \in {pc[t], resume[t]} => hand[t] # None
  /\ \A t, u \in TCBs : hand[t] = hand[u] /\ hand[t] # None => t = u

(* A thread on its way through fork has a child nobody else may start, one *)
(* on its way through wait has a child in its slot, one about to unlock    *)
(* has the lock.                                                           *)
Spawning(t) == "spawn" \in {pc[t], resume[t], ret[t]}
CallInv ==
  /\ \A t \in TCBs : /\ pc[t] \in Working => resume[t] = "run"
                     /\ ret[t] = "spawn" => "reap" \in {pc[t], resume[t]}
  /\ \A t \in Threads :
       /\ Spawning(t) => /\ slot[t] \in Slots /\ children[t][slot[t]] # None
                         /\ pc[children[t][slot[t]]] = "made"
       /\ {"get", "got"} \cap {pc[t], resume[t]} # {} =>
            slot[t] \in Slots /\ children[t][slot[t]] # None
       /\ "locked" \in {pc[t], resume[t]} => lockOf[t] # None
  /\ \A t, u \in Threads :
       Spawning(t) /\ Spawning(u)
         /\ children[t][slot[t]] = children[u][slot[u]] => t = u

(* activeThreads[c] is ahead of the stack only between Commit and Switch,  *)
(* and no_preempt is set from block() to the switch.                       *)
ActiveInv ==
  \A c \in Cores :
    /\ pc[stack[c]] # "switch" => active[c] = stack[c]
    /\ pc[stack[c]] = "switch" =>
         /\ active[c] = chosen[c]
         /\ noPreempt[chosen[c]]
    /\ pc[stack[c]] \in Blocking => noPreempt[stack[c]]

(* The inductive invariant.                                                *)
SwitchInv ==
  /\ TypeOK
  /\ StackInv /\ ChosenInv /\ IdleInv
  /\ QueueInv /\ HandInv /\ CallInv
  /\ ActiveInv

(* A thread that has been started and not deleted is always somewhere: no  *)
(* interleaving of up(), down(), yield() and stop() drops a TCB.           *)
NoThreadLost ==
  \A t \in Threads : pc[t] \notin {"new", "made", "dead"} => PlacesOf(t) # {}

(* Why: where pc says a thread is kept, it is found.  Only a process that  *)
(* is killed inside up() takes the waiter it had removed with it.          *)
Linked(q, t) == \E i \in 1..Len(q) : q[i] = t
Found(t) ==
  /\ pc[t] \in OnCpu => \E c \in Cores : stack[c] = t
  /\ pc[t] = "picked" => \E c \in Cores : chosen[c] = t
  /\ pc[t] = "leaving" => \E c \in Cores : prev[c] = t
  /\ pc[t] = "ready" => Linked(readyQ, t)
  /\ pc[t] = "zombie" => Linked(zombies, t)
  /\ pc[t] = "waiting" => why[t] \in Sems /\ Linked(waiting[why[t]], t)
  /\ pc[t] = "woken" => (\E u \in TCBs : hand[u] = t) \/ Killable # {}
  /\ pc[t] # "parked"
FoundInv == \A t \in Threads : Found(t)

(* A thread has a waiter in its hand only inside up().                     *)
HandsBusy == \A t \in TCBs : hand[t] # None => "wake" \in {pc[t], resume[t]}

(* threads.h:116 asks why it is safe to set activeThreads before the stack *)
(* has been switched: whenever a tick would not ignore the active thread,  *)
(* the core is on that thread's stack.                                     *)
TickHitsRunning ==
  \A c \in Cores :
    active[c] \notin Cores /\ ~noPreempt[active[c]] => active[c] = stack[c]

(* An idle TCB never hops to another core, whichever core switches to or   *)
(* away from it (the assertions of block(), threads.h:105-108).            *)
IdleAtHome ==
  \A c \in Cores : \A t \in {active[c], stack[c], chosen[c], prev[c]} :
    t \in Cores => t = c

(* readyQ stays ordered by run time, although run times grow while other   *)
(* threads are queued.                                                     *)
ReadySorted == Sorted(readyQ, runTime)

(* No lost wake-up: a core asleep in mwait with its monitor armed has no   *)
(* work.  An add() in the gap between the core's look into the queue and   *)
(* its mwait is not missed, for the monitor is older than the look: the    *)
(* lock() inside remove() has set it.                                      *)
SleepersSeeWork ==
  \A c \in Cores : At(c, "mwait") /\ armed[c] => readyQ = << >>

(* The threads that own BlockingLock l: not those still on their way into  *)
(* its queue or waiting in it.                                             *)
Holders(l) ==
  {t \in Threads :
     /\ lockOf[t] = l
     /\ ~(why[t] = l /\ pc[t] \in Blocking \union {"leaving", "waiting"})}

(* A BlockingLock is held by one thread or free, also while up() is        *)
(* handing it over to a waiter.                                            *)
LockTokens ==
  \A l \in Locks :
    \/ count[l] = 1 /\ Holders(l) = {}
    \/ count[l] = 0 /\ \E t \in Threads : Holders(l) = {t}

(* A waiter is queued only while the token is away: count > 0 with someone *)
(* waiting would be a missed wake-up of Semaphore.                         *)
NoMissedUp == \A s \in Sems : count[s] > 0 => waiting[s] = << >>

(* wait() does not return before the child has left its exit status.       *)
WaitSeesStatus ==
  \A t \in Threads :
    pc[t] = "waited" => isReady[children[t][slot[t]]]

(* ASSERT(!isReady) in Future::set (future.h:28) never fails.              *)
NoPanic == \A t \in TCBs : pc[t] # "panic"

(***************************************************************************)
(* Why LockTokens, NoMissedUp, WaitSeesStatus and NoPanic hold: whichever  *)
(* core runs or queue keeps a thread, what it does next in its own code    *)
(* agrees with the tokens and with the exit status it has seen.            *)
(***************************************************************************)
Code(t) == IF pc[t] \in Working \union {"panic"} THEN pc[t] ELSE resume[t]

(* t has found no token in down(): on its way to the queue, or in it.      *)
Queued(t) == why[t] \in Sems /\ pc[t] \in Blocking \union {"leaving", "waiting"}

Exits(t) == Code(t) \in {"set", "stop"} \/ (Code(t) = "wake" /\ ret[t] = "stop")
Served(t) == \/ Code(t) \in {"got", "waited"} /\ ~Queued(t)
             \/ Code(t) \in {"wake", "reap"} /\ ret[t] = "waited"

(* Who waits has asked for what it waits for, and keeps the semaphore's    *)
(* lock until it is in the queue.                                          *)
QueuedInv ==
  \A t \in TCBs : Queued(t) =>
    /\ t \in Threads
    /\ pc[t] # "waiting" => semLock[why[t]] = t
    /\ \/ why[t] \in Locks /\ Code(t) = "locked" /\ lockOf[t] = why[t]
       \/ Code(t) = "got" /\ slot[t] \in Slots /\ why[t] = children[t][slot[t]]

(* No token is there for somebody who waits or is about to, and only a     *)
(* thread between lock() and unlock(), or killed there, has a lock.        *)
TokenInv ==
  /\ LockTokens
  /\ \A s \in Sems : count[s] > 0 => waiting[s] = << >> /\ semLock[s] = None
  /\ \A t \in Threads : lockOf[t] # None =>
       Code(t) \in {"locked", "setting", "panic"} \/ Exits(t)

(* The token of a Future is made after its status is there.                *)
StatusInv ==
  \A t \in Threads :
    /\ count[t] > 0 \/ Code(t) = "set" => isReady[t]
    /\ Served(t) =>
         /\ slot[t] \in Slots /\ children[t][slot[t]] # None
         /\ isReady[children[t][slot[t]]]

(* A process that is not killed leaves its status once.                    *)
KilledInv ==
  \A t \in Threads :
    /\ killFlag[t] => t \in Killable
    /\ Code(t) = "panic" => killFlag[t]
    /\ isReady[t] /\ ~killFlag[t] => Exits(t)

SemInv == QueuedInv /\ TokenInv /\ StatusInv /\ KilledInv

(* The scheduler is fair among equals: a step never lets a queued thread   *)
(* pass another, and one that joins goes behind all that ran as little.    *)
OrderKept ==
  \A i \in 1..Len(readyQ) : \A k, l \in 1..Len(readyQ') :
    readyQ'[k] = readyQ[i] /\ l < k =>
      \/ \E j \in 1..(i - 1) : readyQ'[l] = readyQ[j]
      \/ /\ \A j \in 1..Len(readyQ) : readyQ'[l] # readyQ[j]
         /\ runTime[readyQ'[l]] < runTime[readyQ[i]]
NoOvertaking == [][OrderKept]_vars

(* The ticks the model counts are not used up: past MaxRunTime it has no   *)
(* preemption any more, and what follows says nothing about the code.      *)
TicksLeft == \A t \in Threads : runTime[t] < MaxRunTime

(* An idle core does not sleep on while a thread is ready, although no     *)
(* interrupt needs to wake it.                                             *)
IdleCoreTakesWork ==
  \A c \in Cores :
    (readyQ # << >> /\ stack[c] = c) ~> (readyQ = << >> \/ stack[c] # c)

(* A parent blocked in wait() is taken out of the Future's queue once the  *)
(* child has left its status, whatever preempts the child on its way from  *)
(* isReady = true to go.up().                                              *)
WaiterIsWoken ==
  []TicksLeft =>
    \A t \in Threads :
      (pc[t] = "waiting" /\ why[t] \in Threads /\ isReady[why[t]])
        ~> pc[t] # "waiting"

(* kill() takes effect (README:62, "implementing a way to kill a           *)
(* process"): the process exits, unless the counted ticks are used up.     *)
KillTakesEffect ==
  []TicksLeft => \A t \in Killable : killFlag[t] ~> isReady[t]

=============================================================================
