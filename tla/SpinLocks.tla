------------------------------ MODULE SpinLocks ------------------------------
(***************************************************************************)
(* SpinLock, InterruptSafeLock and ISL (atomic.h) with the interrupt flag  *)
(* of the cores, the timer interrupt and monitor/mwait.                    *)
(*                                                                         *)
(* A core has two contexts that take locks: the thread it runs ("task")    *)
(* and the interrupt handler ("irq") that stops it between any two of its  *)
(* steps while interrupts are enabled.  Scheduler, VMM and the other       *)
(* modules take the critical sections of these locks as single steps; this *)
(* module is about whether that is right.                                  *)
(***************************************************************************)
EXTENDS Naturals, Sequences, FiniteSets

CONSTANTS
  Cores,
  Locks,       \* a subset of Nat: a context nests locks in this order
  Kind,        \* Kind[l] is "spin", "isafe" or "isl"
  MaxRequests, \* how often each context calls lock()
  None

Contexts == Cores \X {"task", "irq"}

ASSUME SpinLocksAssumption ==
  /\ Locks \subseteq Nat
  /\ Kind \in [Locks -> {"spin", "isafe", "isl"}]
  /\ None \notin Locks
  /\ MaxRequests \in [Contexts -> Nat]

VARIABLES
  irqOff,  \* irqOff[c]: the interrupt flag of core c is clear
  inIrq,   \* inIrq[c]: core c executes the handler
  taken,   \* taken[l]
  was,     \* was[l], the field of an InterruptSafeLock
  mon,     \* mon[c]: the lock whose `taken' the core monitors, or None
  pc,      \* pc[x]: where context x is in lock() or unlock(), or "run"
  want,    \* want[x]: the lock it is called on
  local,   \* local[x]: the wasDisabled of that call
  held,    \* held[x]: the locks x has, each with the flag ISL::lock returned
  left,    \* left[x]: calls of lock() not yet made
  outside  \* outside[x]: the flag x runs with when it holds no lock (history)

vars == <<irqOff, inIrq, taken, was, mon, pc, want, local, held, left, outside>>

Core(x) == x[1]
Active(x) == (x[2] = "irq") = inIrq[Core(x)]
Holds(x, l) == \E i \in DOMAIN held[x] : held[x][i].lock = l
At(x, point) == pc[x] = point /\ Active(x)
Goto(x, point) == pc' = [pc EXCEPT ![x] = point]
(* The locals of the call die with it.                                     *)
Return(x) ==
  /\ Goto(x, "run")
  /\ want' = [want EXCEPT ![x] = None]
  /\ local' = [local EXCEPT ![x] = FALSE]

(* A store to taken[l] by core c ends the monitoring of the others.        *)
Store(c, l, value) ==
  /\ taken' = [taken EXCEPT ![l] = value]
  /\ mon' = [d \in Cores |-> IF d # c /\ mon[d] = l THEN None ELSE mon[d]]

Init ==
  /\ irqOff = [c \in Cores |-> FALSE]
  /\ inIrq = [c \in Cores |-> FALSE]
  /\ taken = [l \in Locks |-> FALSE]
  /\ was = [l \in Locks |-> FALSE]
  /\ mon = [c \in Cores |-> None]
  /\ pc = [x \in Contexts |-> "run"]
  /\ want = [x \in Contexts |-> None]
  /\ local = [x \in Contexts |-> FALSE]
  /\ held = [x \in Contexts |-> <<>>]
  /\ left = MaxRequests
  /\ outside = [x \in Contexts |-> x[2] = "irq"]

-----------------------------------------------------------------------------
(* lock().  The kernel takes a lock with interrupts on or off, in a fixed  *)
(* order, releases in the reverse order (LockGuard), and handlers take no  *)
(* SpinLock.                                                               *)
Request(x, l) ==
  /\ At(x, "run")
  /\ left[x] > 0
  /\ \A i \in DOMAIN held[x] : held[x][i].lock < l
  /\ x[2] = "irq" => Kind[l] # "spin"
  /\ left' = [left EXCEPT ![x] = @ - 1]
  /\ want' = [want EXCEPT ![x] = l]
  /\ Goto(x, "monitor")
  /\ UNCHANGED <<irqOff, inIrq, taken, was, mon, local, held, outside>>

(* taken.monitor_value()                                                   *)
Monitor(x) ==
  /\ At(x, "monitor")
  /\ mon' = [mon EXCEPT ![Core(x)] = want[x]]
  /\ Goto(x, IF Kind[want[x]] = "spin" THEN "exchange" ELSE "disable")
  /\ UNCHANGED <<irqOff, inIrq, taken, was, want, local, held, left, outside>>

(* Interrupts::disable().  Mutated form: it only looks.                    *)
NoCli(c) == UNCHANGED irqOff
Cli(c) == irqOff' = [irqOff EXCEPT ![c] = TRUE]

Disable(x) ==
  /\ At(x, "disable")
  /\ local' = [local EXCEPT ![x] = irqOff[Core(x)]]
  /\ Cli(Core(x))
  /\ Goto(x, "exchange")
  /\ UNCHANGED <<inIrq, taken, was, mon, want, held, left, outside>>

(* taken.exchange(true), which stores also when it fails.  An ISL returns  *)
(* wasDisabled to its caller, an InterruptSafeLock has yet to keep it.     *)
(* Mutated form: the result of the exchange is not looked at.              *)
AcquiredAlways(l) == TRUE
Acquired(l) == ~taken[l]

Exchange(x) ==
  /\ At(x, "exchange")
  /\ LET l == want[x] IN
       /\ Store(Core(x), l, TRUE)
       /\ \/ /\ Acquired(l)
             /\ held' = [held EXCEPT ![x] = Append(@, [lock |-> l, flag |-> local[x]])]
             /\ IF Kind[l] = "isafe" THEN Goto(x, "save") /\ UNCHANGED <<want, local>>
                                     ELSE Return(x)
          \/ /\ ~Acquired(l)
             /\ Goto(x, IF Kind[l] = "spin" THEN "mwait" ELSE "restore")
             /\ UNCHANGED <<held, want, local>>
  /\ UNCHANGED <<irqOff, inIrq, was, left, outside>>

(* was = wasDisabled                                                       *)
Save(x) ==
  /\ At(x, "save")
  /\ was' = [was EXCEPT ![want[x]] = local[x]]
  /\ Return(x)
  /\ UNCHANGED <<irqOff, inIrq, taken, mon, held, left, outside>>

(* Mutated form: the monitor is armed again, after the exchange.           *)
RestoreRearms(x) ==
  /\ At(x, "restore")
  /\ irqOff' = [irqOff EXCEPT ![Core(x)] = @ /\ local[x]]
  /\ mon' = [mon EXCEPT ![Core(x)] = want[x]]
  /\ Goto(x, "mwait")
  /\ UNCHANGED <<inIrq, taken, was, want, local, held, left, outside>>

(* Interrupts::restore(wasDisabled), in lock() before it waits.            *)
Restore(x) ==
  /\ At(x, "restore")
  /\ irqOff' = [irqOff EXCEPT ![Core(x)] = @ /\ local[x]]
  /\ Goto(x, "mwait")
  /\ UNCHANGED <<inIrq, taken, was, mon, want, local, held, left, outside>>

(* iAmStuckInALoop(true): mwait, which goes on when nothing is monitored.  *)
Mwait(x) ==
  /\ At(x, "mwait")
  /\ mon[Core(x)] = None
  /\ Goto(x, "monitor")
  /\ UNCHANGED <<irqOff, inIrq, taken, was, mon, want, local, held, left, outside>>

-----------------------------------------------------------------------------
(* unlock() of the lock taken last: wasDisabled is read from the lock      *)
(* (InterruptSafeLock) or is the caller's (ISL) before taken is cleared.   *)
Unlock(x) ==
  /\ At(x, "run")
  /\ held[x] # <<>>
  /\ LET top == held[x][Len(held[x])] IN
       /\ want' = [want EXCEPT ![x] = top.lock]
       /\ local' = [local EXCEPT ![x] =
                      IF Kind[top.lock] = "isafe" THEN was[top.lock] ELSE top.flag]
  /\ Goto(x, "clear")
  /\ UNCHANGED <<irqOff, inIrq, taken, was, mon, held, left, outside>>

(* taken.set(false)                                                        *)
Clear(x) ==
  /\ At(x, "clear")
  /\ Store(Core(x), want[x], FALSE)
  /\ held' = [held EXCEPT ![x] = SubSeq(@, 1, Len(@) - 1)]
  /\ IF Kind[want[x]] = "spin" THEN Return(x)
     ELSE Goto(x, "enable") /\ UNCHANGED <<want, local>>
  /\ UNCHANGED <<irqOff, inIrq, was, left, outside>>

(* The flag that unlock restores.  Mutated form: InterruptSafeLock reads   *)
(* it from the lock only now that the lock is free.                        *)
OldFlagRead(x) == IF Kind[want[x]] = "isafe" THEN was[want[x]] ELSE local[x]
OldFlag(x) == local[x]

(* The end of unlock: InterruptSafeLock restores, ISL sets the flag.       *)
Enable(x) ==
  /\ At(x, "enable")
  /\ irqOff' = [irqOff EXCEPT ![Core(x)] =
                  IF Kind[want[x]] = "isafe" THEN @ /\ OldFlag(x) ELSE OldFlag(x)]
  /\ Return(x)
  /\ UNCHANGED <<inIrq, taken, was, mon, held, left, outside>>

-----------------------------------------------------------------------------
(* The timer.  It ends an mwait; whether the thread had reached the mwait  *)
(* when it came cannot be told from where the model stops it.              *)
Interrupt(c) ==
  /\ ~irqOff[c] /\ ~inIrq[c]
  /\ inIrq' = [inIrq EXCEPT ![c] = TRUE]
  /\ irqOff' = [irqOff EXCEPT ![c] = TRUE]
  /\ mon' = [mon EXCEPT ![c] = None]
  /\ \/ UNCHANGED pc
     \/ pc[<<c, "task">>] = "mwait" /\ Goto(<<c, "task">>, "monitor")
  /\ UNCHANGED <<taken, was, want, local, held, left, outside>>

(* iret, which enables interrupts again.                                   *)
Iret(c) ==
  /\ At(<<c, "irq">>, "run")
  /\ held[<<c, "irq">>] = <<>>
  /\ inIrq' = [inIrq EXCEPT ![c] = FALSE]
  /\ irqOff' = [irqOff EXCEPT ![c] = FALSE]
  /\ UNCHANGED <<taken, was, mon, pc, want, local, held, left, outside>>

(* Code that disables interrupts itself (Interrupts::protect) and then may *)
(* call lock(); bound: not once the calls are used up.                     *)
Protect(c) ==
  LET x == <<c, "task">> IN
  /\ At(x, "run")
  /\ held[x] = <<>>
  /\ outside[x] \/ left[x] > 0
  /\ irqOff' = [irqOff EXCEPT ![c] = ~@]
  /\ outside' = [outside EXCEPT ![x] = ~@]
  /\ UNCHANGED <<inIrq, taken, was, mon, pc, want, local, held, left>>

Step(x) ==
  \/ \E l \in Locks : Request(x, l)
  \/ Monitor(x) \/ Disable(x) \/ Exchange(x) \/ Save(x) \/ Restore(x) \/ Mwait(x)
  \/ Unlock(x) \/ Clear(x) \/ Enable(x)

Next ==
  \/ \E x \in Contexts : Step(x)
  \/ \E c \in Cores : Interrupt(c) \/ Iret(c) \/ Protect(c)

Spec == Init /\ [][Next]_vars

(* Cores execute, the timer ticks, and it leaves the thread it interrupts  *)
(* time to run.                                                            *)
Fairness ==
  /\ \A x \in Contexts : SF_vars(Step(x))
  /\ \A c \in Cores : WF_vars(Interrupt(c)) /\ WF_vars(Iret(c))

FairSpec == Spec /\ Fairness

-----------------------------------------------------------------------------
(* Of all contexts one at most has a lock, and taken says whether one has. *)
(* (exchange in lock, set in unlock.)                                      *)
MutualExclusion ==
  \A l \in Locks :
    /\ \A x, y \in Contexts : Holds(x, l) /\ Holds(y, l) => x = y
    /\ taken[l] <=> \E x \in Contexts : Holds(x, l)

(* A handler never waits for a lock that the thread it has interrupted     *)
(* holds: interrupts are off from before the exchange to after the clear.  *)
NoSelfDeadlock ==
  \A c \in Cores, l \in Locks :
    ~ (Holds(<<c, "task">>, l) /\ want[<<c, "irq">>] = l)

(* Outside all critical sections a context has the interrupt flag it had   *)
(* before them, although InterruptSafeLock keeps that flag in the lock,    *)
(* where the next holder overwrites it ("Is this correct?").               *)
FlagRestored ==
  \A x \in Contexts :
    At(x, "run") /\ held[x] = <<>> => irqOff[Core(x)] = outside[x]

(* Whoever waits gets the lock once the others have stopped asking, also   *)
(* with interrupts off, when only a store to `taken' ends its mwait: a     *)
(* lock released between the exchange and the mwait is not slept through.  *)
EveryoneServed ==
  \A x \in Contexts : pc[x] = "monitor" ~> pc[x] = "run"

-----------------------------------------------------------------------------
(* What lies behind these properties: where a context is in lock() or      *)
(* unlock() determines which locks it has and which flag it runs with.     *)
Points == {"run", "monitor", "disable", "exchange", "save", "restore", "mwait",
           "clear", "enable"}

HeldLock == [lock : Locks, flag : BOOLEAN]

TypeOK ==
  /\ irqOff \in [Cores -> BOOLEAN] /\ inIrq \in [Cores -> BOOLEAN]
  /\ taken \in [Locks -> BOOLEAN] /\ was \in [Locks -> BOOLEAN]
  /\ mon \in [Cores -> Locks \union {None}]
  /\ pc \in [Contexts -> Points]
  /\ want \in [Contexts -> Locks \union {None}]
  /\ local \in [Contexts -> BOOLEAN]
  /\ held \in [Contexts -> Seq(HeldLock)]
  /\ left \in [Contexts -> Nat]
  /\ outside \in [Contexts -> BOOLEAN]

Masks(l) == Kind[l] # "spin"

(* The flag x ran with before it took the i-th of its locks.               *)
Before(x, i) == outside[x] \/ \E j \in 1..(i - 1) : Masks(held[x][j].lock)
Off(x) == Before(x, Len(held[x]) + 1)

(* The flag x runs with, or will when the handler has returned.            *)
Flag(x) == IF Active(x) THEN irqOff[Core(x)] ELSE x[2] = "irq"

(* x takes locks in order; the call it is in is about the lock on top or   *)
(* one above it.                                                           *)
Nested(x) ==
  /\ \A i, j \in 1..Len(held[x]) : i < j => held[x][i].lock < held[x][j].lock
  /\ want[x] = None <=> pc[x] = "run"
  /\ pc[x] \in {"save", "clear"} =>
       held[x] # <<>> /\ held[x][Len(held[x])].lock = want[x]
  /\ pc[x] \notin {"run", "save", "clear"} =>
       \A i \in 1..Len(held[x]) : held[x][i].lock < want[x]
  /\ pc[x] \in {"disable", "restore", "save", "enable"} => Masks(want[x])
  /\ pc[x] = "save" => Kind[want[x]] = "isafe"

(* Handlers run with interrupts off, have no SpinLock and nothing at all   *)
(* once they have returned.                                                *)
Handles(c) ==
  LET x == <<c, "irq">> IN
  /\ outside[x]
  /\ ~inIrq[c] => pc[x] = "run" /\ held[x] = <<>>
  /\ want[x] # None => Masks(want[x])
  /\ \A i \in 1..Len(held[x]) : Masks(held[x][i].lock)

(* The flag of x is what its locks and its call say; every lock that masks *)
(* interrupts keeps the flag from before it, an InterruptSafeLock in its   *)
(* field `was'.                                                            *)
Flagged(x) ==
  /\ Flag(x) <=> \/ Off(x)
                 \/ /\ pc[x] \in {"exchange", "save", "restore", "clear", "enable"}
                    /\ Masks(want[x])
  /\ pc[x] \in {"exchange", "restore", "enable"} /\ Masks(want[x]) => (local[x] <=> Off(x))
  /\ pc[x] \in {"save", "clear"} /\ Masks(want[x]) => (local[x] <=> Before(x, Len(held[x])))
  /\ \A i \in 1..Len(held[x]) :
       LET l == held[x][i].lock IN
       /\ Masks(l) => (held[x][i].flag <=> Before(x, i))
       /\ Kind[l] = "isafe" => \/ was[l] <=> Before(x, i)
                               \/ pc[x] = "save" /\ i = Len(held[x])

(* The invariant that the steps of lock(), unlock() and the timer keep, on *)
(* whichever core and however nested: the three properties above are parts *)
(* or consequences of it.                                                  *)
SpinInv ==
  /\ TypeOK
  /\ \A x \in Contexts : Nested(x) /\ Flagged(x)
  /\ \A c \in Cores : Handles(c)
  /\ MutualExclusion

=============================================================================
