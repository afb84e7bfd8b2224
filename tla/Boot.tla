-------------------------------- MODULE Boot --------------------------------
(***************************************************************************)
(* From reset to the first thread: mbr.S from resetEIP on, kernelInit      *)
(* (init.cc), SMP::init and Pit::calibrate.  Core 0 sets up what is global *)
(* and then starts the others one at a time; all of them enter through the *)
(* same code and, until they have picked a stack, the same tempStack.      *)
(***************************************************************************)
EXTENDS Naturals, FiniteSets, Sequences

CONSTANTS
  TotalProcs,   \* kConfig.totalProcs
  Hz,           \* the argument of Pit::calibrate
  Diffs,        \* ticks of the LAPIC timer in the second it is measured
  None

ASSUME BootAssumption ==
  /\ TotalProcs \in Nat \ {0}
  /\ Hz \in Nat \ {0}
  /\ Diffs # {} /\ \A d \in Diffs : d \in Nat /\ d >= Hz
  /\ None \notin Nat

Cores == 0..(TotalProcs - 1)

VARIABLES
  pc,            \* pc[c]: the next step of core c
  sp,            \* sp[c]: whose boot stack core c has picked
  done,          \* the parts of the kernel that core 0 has initialized
  vectors,       \* the entries of the idt that have a handler
  smpInitDone,
  apitCounter,
  running,       \* SMP::running
  id,            \* the loop variable of core 0
  on,            \* on[c]: what core c has switched on for itself
  arrived,       \* howManyAreHere
  threads        \* the threads made so far

vars == <<pc, sp, done, vectors, smpInitDone, apitCounter, running, id, on, arrived, threads>>
global == <<done, vectors, smpInitDone, apitCounter>>

Init ==
  /\ pc = [c \in Cores |-> IF c = 0 THEN "entry" ELSE "off"]
  /\ sp = [c \in Cores |-> None]
  /\ done = {} /\ vectors = {}
  /\ smpInitDone = FALSE
  /\ apitCounter = 0
  /\ running = 0
  /\ id = 1
  /\ on = [c \in Cores |-> {}]
  /\ arrived = 0
  /\ threads = <<>>

Goto(c, point) == pc' = [pc EXCEPT ![c] = point]

-----------------------------------------------------------------------------
(* kk: on tempStack, call pickKernelStack, then kernelInit on the result.  *)
PickKernelStack(c) ==
  /\ pc[c] = "entry"
  /\ sp' = [sp EXCEPT ![c] = IF smpInitDone THEN c ELSE 0]
  /\ Goto(c, IF smpInitDone THEN "announce" ELSE "init")
  /\ UNCHANGED <<global, running, id, on, arrived, threads>>

(* The calls of kernelInit on core 0.                                      *)
Order ==
  <<"heap", "frames", "paging", "globals", "syscalls", "threads", "apic", "timer">>

NextPart == Order[Cardinality(done) + 1]

(* What a call uses.  The global constructors make kernelProcess, which    *)
(* copies the shared page tables; an idle thread belongs to kernelProcess. *)
Needs(part) ==
  CASE part = "paging" -> {"frames"}
    [] part = "globals" -> {"heap", "paging"}
    [] part = "threads" -> {"heap", "globals"}
    [] part = "timer" -> {"heap", "apic"}
    [] OTHER -> {}

(* IDT::trap and IDT::interrupt, as the calls use them.                    *)
Vectors(part) ==
  CASE part = "frames" -> {14}
    [] part = "syscalls" -> {48}
    [] part = "apic" -> {255}
    [] part = "timer" -> {40}
    [] OTHER -> {}

(* Pit::calibrate: how often the LAPIC timer ticks in 1/Hz seconds.        *)
Calibrate ==
  IF NextPart = "timer"
  THEN \E diff \in Diffs : apitCounter' = diff \div Hz
  ELSE UNCHANGED apitCounter

InitPart ==
  /\ pc[0] = "init"
  /\ done' = done \union {NextPart}
  /\ vectors' = vectors \union Vectors(NextPart)
  /\ Calibrate
  /\ smpInitDone' = (smpInitDone \/ NextPart = "apic")
  /\ on' = IF NextPart = "apic" THEN [on EXCEPT ![0] = @ \union {"lapic"}] ELSE on
  /\ threads' = IF NextPart = "threads" THEN Append(threads, "reaper") ELSE threads
  /\ Goto(0, IF Cardinality(done') = Len(Order) THEN "announce" ELSE "init")
  /\ UNCHANGED <<sp, running, id, arrived>>

-----------------------------------------------------------------------------
(* SMP::running.fetch_add(1)                                               *)
Announce(c) ==
  /\ pc[c] = "announce"
  /\ running' = running + 1
  /\ Goto(c, IF c = 0 THEN "ipi" ELSE "lapic")
  /\ UNCHANGED <<sp, global, id, on, arrived, threads>>

(* The two SMP::ipi, which reset core id and let it start at resetEIP.     *)
SendIpi ==
  /\ pc[0] = "ipi" /\ id < TotalProcs
  /\ pc' = [pc EXCEPT ![0] = "wait", ![id] = "reset"]
  /\ UNCHANGED <<sp, global, running, id, on, arrived, threads>>

(* while (SMP::running <= id);  Mutated forms: `<', and one core too many. *)
ReleasedEarly == running >= id
ReleasedLate == running > id + 1
Released == running > id

NextId ==
  /\ pc[0] = "wait" /\ Released
  /\ id' = id + 1
  /\ Goto(0, "ipi")
  /\ UNCHANGED <<sp, global, running, on, arrived, threads>>

LastId ==
  /\ pc[0] = "ipi" /\ id >= TotalProcs
  /\ Goto(0, "paging")
  /\ UNCHANGED <<sp, global, running, id, on, arrived, threads>>

(* resetEIP, in its own time, up to the load of tempStack.                 *)
ResetEIP(c) ==
  /\ pc[c] = "reset"
  /\ Goto(c, "entry")
  /\ UNCHANGED <<sp, global, running, id, on, arrived, threads>>

-----------------------------------------------------------------------------
SwitchOn(c, what, point) ==
  /\ on' = [on EXCEPT ![c] = @ \union {what}]
  /\ Goto(c, point)
  /\ UNCHANGED <<sp, global, running, id, arrived, threads>>

(* SMP::init(false)                                                        *)
SmpInit(c) == pc[c] = "lapic" /\ SwitchOn(c, "lapic", "paging")

PerCoreInit(c) == pc[c] = "paging" /\ SwitchOn(c, "paging", "timer")

PitInit(c) ==
  /\ pc[c] = "timer"
  /\ apitCounter # 0    \* or panic("did you call Pit::calibrate?")
  /\ SwitchOn(c, "timer", "tss")

Tss(c) == pc[c] = "tss" /\ SwitchOn(c, "tss", "sti")

Sti(c) == pc[c] = "sti" /\ SwitchOn(c, "interrupts", "arrive")

(* howManyAreHere.add_fetch(1): the last one makes the first process.      *)
Arrive(c) ==
  /\ pc[c] = "arrive"
  /\ arrived' = arrived + 1
  /\ Goto(c, IF arrived' = TotalProcs THEN "make" ELSE "stop")
  /\ UNCHANGED <<sp, global, running, id, on, threads>>

MakeInit(c) ==
  /\ pc[c] = "make"
  /\ threads' = Append(threads, "init")
  /\ Goto(c, "stop")
  /\ UNCHANGED <<sp, global, running, id, on, arrived>>

(* stop() does not return: from there on the core is in Scheduler.         *)
Step(c) ==
  \/ PickKernelStack(c) \/ Announce(c) \/ ResetEIP(c) \/ SmpInit(c) \/ PerCoreInit(c)
  \/ PitInit(c) \/ Tss(c) \/ Sti(c) \/ Arrive(c) \/ MakeInit(c)

CoreZero == InitPart \/ SendIpi \/ NextId \/ LastId

Next == CoreZero \/ \E c \in Cores : Step(c)

(* A core that has been started executes its next instruction.             *)
Spec == Init /\ [][Next]_vars /\ WF_vars(CoreZero) /\ \A c \in Cores : WF_vars(Step(c))

-----------------------------------------------------------------------------
OneOnTempStack == \A c, d \in Cores : pc[c] = "entry" /\ pc[d] = "entry" => c = d

StacksApart == \A c, d \in Cores : sp[c] # None /\ sp[c] = sp[d] => c = d

(* Nothing is used before it is there, by core 0 or by the cores it has    *)
(* started; whoever can be interrupted has a handler and a stack for it.   *)
InOrder ==
  /\ pc[0] = "init" => Needs(NextPart) \subseteq done
  /\ \A c \in Cores \ {0} : pc[c] # "off" => Cardinality(done) = Len(Order) /\ apitCounter # 0
  /\ \A c \in Cores : "interrupts" \in on[c] =>
       {"lapic", "paging", "tss"} \subseteq on[c] /\ {14, 40, 48, 255} \subseteq vectors

(* The core that makes init runs as an idle thread, which must not block   *)
(* on the heap's lock: it is alone with it, since all the others have      *)
(* arrived and the only thread there is, the reaper, has nothing to free.  *)
AloneWithHeap ==
  \A c \in Cores : pc[c] = "make" =>
    threads = <<"reaper">> /\ \A d \in Cores \ {c} : pc[d] = "stop"

(* However the cores that have been started run: no two are on tempStack   *)
(* at once, although all of them go through it, each gets a stack of its   *)
(* own, everything is set up before it is used, and the first process is   *)
(* made when no other core can be in the heap.                             *)
BootSound == OneOnTempStack /\ StacksApart /\ InOrder /\ AloneWithHeap

(* All cores end up in stop(), where Scheduler begins, with the reaper and *)
(* one init ready.                                                         *)
BootCompletes ==
  <>[]((\A c \in Cores : pc[c] = "stop") /\ threads = <<"reaper", "init">>)

-----------------------------------------------------------------------------
(* Why: where the others can be, given where core 0 is.                    *)
Early == {"entry", "init", "announce"}
Starting == {"reset", "entry", "announce"}
Late == {"lapic", "paging", "timer", "tss", "sti", "arrive", "make", "stop"}
Parts(k) == {Order[i] : i \in 1..k}

TypeOK ==
  /\ pc \in [Cores -> Early \union Starting \union Late \union {"off", "ipi", "wait"}]
  /\ pc[0] \notin {"off", "reset", "lapic"}
  /\ id \in 1..TotalProcs /\ running \in Nat /\ arrived \in Nat
  /\ apitCounter \in Nat /\ smpInitDone \in BOOLEAN
  /\ sp \in [Cores -> Cores \union {None}]
  /\ on \in [Cores -> SUBSET {"lapic", "paging", "timer", "tss", "interrupts"}]

(* Core 0 starts them one at a time and waits for each to announce itself. *)
StartInv ==
  /\ pc[0] \in Early => id = 1 /\ running = 0
  /\ pc[0] = "ipi" => running = id
  /\ pc[0] = "wait" =>
       /\ id < TotalProcs
       /\ \/ running = id /\ pc[id] \in Starting
          \/ running = id + 1 /\ pc[id] \in Late
  /\ pc[0] \in Late => id = TotalProcs
  /\ \A c \in Cores \ {0} : /\ c < id => pc[c] \in Late
                            /\ c > id \/ (c = id /\ pc[0] # "wait") => pc[c] = "off"

(* How far the initialization is, and what it has left behind.             *)
PartsInv ==
  /\ \E k \in 0..Len(Order) : done = Parts(k)
  /\ pc[0] = "entry" => done = {}
  /\ pc[0] = "init" => done # Parts(Len(Order))
  /\ pc[0] \notin {"entry", "init"} => done = Parts(Len(Order))
  /\ vectors = UNION {Vectors(p) : p \in done}
  /\ smpInitDone <=> "apic" \in done
  /\ "apic" \in done => "lapic" \in on[0]
  /\ "timer" \in done => apitCounter # 0

StackInv == \A c \in Cores : sp[c] \in {None, c}

OnInv ==
  \A c \in Cores :
    /\ c # 0 /\ pc[c] \in Late \ {"lapic"} => "lapic" \in on[c]
    /\ pc[c] \in Late \ {"lapic", "paging"} => "paging" \in on[c]
    /\ pc[c] \in {"sti", "arrive", "make", "stop"} => "tss" \in on[c]
    /\ "interrupts" \in on[c] => pc[c] \in {"arrive", "make", "stop"}

(* Who has arrived; the last of them finds the others in stop().           *)
ArriveInv ==
  /\ arrived = Cardinality({c \in Cores : pc[c] \in {"make", "stop"}})
  /\ \A c \in Cores : pc[c] = "make" => \A d \in Cores \ {c} : pc[d] = "stop"
  /\ pc[0] \in {"entry", "init"} =>
       threads = IF "threads" \in done THEN <<"reaper">> ELSE <<>>
  /\ pc[0] \notin {"entry", "init"} /\ (\E c \in Cores : pc[c] # "stop") =>
       threads = <<"reaper">>

(* Where every core is while core 0 is where it is, and what is there by   *)
(* then, as one inductive invariant.                                       *)
BootInv == TypeOK /\ StartInv /\ PartsInv /\ StackInv /\ OnInv /\ ArriveInv

=============================================================================
