------------------------------ MODULE Barriers ------------------------------
(***************************************************************************)
(* Barrier, ReusableBarrier (barrier.h) and the Condition the second is    *)
(* made of (condition.h).  Every worker calls Barrier::sync once and then  *)
(* ReusableBarrier::sync Rounds times.  Somebody who shares the lock of    *)
(* the Condition may call notifyOne for no reason, which Condition says it *)
(* is immune to.                                                           *)
(*                                                                         *)
(* the_lock is an InterruptSafeLock: a step of its holder is atomic for    *)
(* the others, and whoever finds it taken does not step (SpinLocks).       *)
(***************************************************************************)
EXTENDS Semaphores, FiniteSets

CONSTANTS
  Workers,
  Rounds,     \* calls of ReusableBarrier::sync of each worker
  MaxStray,   \* stray calls of notifyOne
  None

ASSUME BarriersAssumption ==
  /\ IsFiniteSet(Workers) /\ Workers # {}
  /\ Rounds \in Nat /\ MaxStray \in Nat
  /\ None \notin Workers

N == Cardinality(Workers)

(* The argument of the constructors, kept as initial_count.                *)
(* Mutated form: one worker too few.                                       *)
OneTooFew == N - 1
InitialCount == N

VARIABLES
  left,     \* Barrier: count
  sem,      \* Barrier: sem
  holder,   \* the worker that has the_lock, or None
  count,    \* ReusableBarrier: count
  epoch,    \* ReusableBarrier: epoch
  notified, \* Condition: epoch
  queue,    \* Condition: queue
  pc,       \* pc[w]: the next step of worker w
  mine,     \* mine[w]: `t' in ReusableBarrier::sync
  old,      \* old[w]: old_epoch in Condition::wait
  passed,   \* passed[w]: calls of ReusableBarrier::sync that have returned
  stray     \* stray calls of notifyOne so far

first == <<left, sem>>
cond == <<notified, queue>>
vars == <<left, sem, holder, count, epoch, notified, queue, pc, mine, old, passed, stray>>

Init ==
  /\ left = InitialCount
  /\ sem = Semaphore(0)
  /\ holder = None
  /\ count = InitialCount
  /\ epoch = 0
  /\ notified = 0
  /\ queue = <<>>
  /\ pc = [w \in Workers |-> "start"]
  /\ mine = [w \in Workers |-> 0]
  /\ old = [w \in Workers |-> 0]
  /\ passed = [w \in Workers |-> 0]
  /\ stray = 0

Goto(w, point) == pc' = [pc EXCEPT ![w] = point]

-----------------------------------------------------------------------------
(* Barrier::sync.  The last to arrive opens; everyone who gets through     *)
(* lets the next one through.                                              *)
(* Mutated form: who arrives late finds it open.                           *)
OpensEarly(n) == n <= 1
Opens(n) == n = 0

Arrive(w) ==
  /\ pc[w] = "start"
  /\ left > 0    \* or panic("count went negative in barrier")
  /\ left' = left - 1
  /\ Goto(w, IF Opens(left') THEN "up" ELSE "down")
  /\ UNCHANGED <<sem, holder, count, epoch, cond, mine, old, passed, stray>>

BarrierDown(w) ==
  /\ pc[w] = "down"
  /\ sem' = Down(sem, w)
  /\ Goto(w, "up")
  /\ UNCHANGED <<left, holder, count, epoch, cond, mine, old, passed, stray>>

BarrierUp(w) ==
  /\ pc[w] = "up" /\ ~Waits(sem, w)
  /\ sem' = Up(sem)
  /\ Goto(w, "idle")
  /\ UNCHANGED <<left, holder, count, epoch, cond, mine, old, passed, stray>>

-----------------------------------------------------------------------------
(* Condition::notify, called with the lock.                                *)
Notify(limit) ==
  /\ notified' = notified + 1
  /\ queue' = SubSeq(queue, limit + 1, Len(queue))

(* wait() remembers the epoch, releases the lock and calls block().        *)
Wait(w) ==
  /\ old' = [old EXCEPT ![w] = notified]
  /\ holder' = None
  /\ Goto(w, "block")

(* The function block() calls once w has left its stack: w is queued, or   *)
(* ready again because of a notify in between.                             *)
(* Mutated form: it is queued in any case.                                 *)
EnqueueAlways(w) == Append(queue, w)
Enqueue(w) == IF notified = old[w] THEN Append(queue, w) ELSE queue

Block(w) ==
  /\ pc[w] = "block" /\ holder = None
  /\ queue' = Enqueue(w)
  /\ Goto(w, "wake")
  /\ UNCHANGED <<first, holder, count, epoch, notified, mine, old, passed, stray>>

(* The end of wait(): w runs again and takes the lock.                     *)
Wake(w) ==
  /\ pc[w] = "wake" /\ holder = None
  /\ \A i \in DOMAIN queue : queue[i] # w
  /\ holder' = w
  /\ Goto(w, "test")
  /\ UNCHANGED <<first, count, epoch, cond, mine, old, passed, stray>>

(* notifyOne by code that has nothing to say.                              *)
NotifyOne ==
  /\ stray < MaxStray /\ holder = None
  /\ Notify(1)
  /\ stray' = stray + 1
  /\ UNCHANGED <<first, holder, count, epoch, pc, mine, old, passed>>

-----------------------------------------------------------------------------
(* ReusableBarrier::sync                                                   *)
Lock(w) ==
  /\ pc[w] = "idle" /\ passed[w] < Rounds /\ holder = None
  /\ holder' = w
  /\ Goto(w, "enter")
  /\ UNCHANGED <<first, count, epoch, cond, mine, old, passed, stray>>

Enter(w) ==
  /\ pc[w] = "enter"
  /\ count # 0    \* ASSERT
  /\ mine' = [mine EXCEPT ![w] = epoch]
  /\ \/ /\ count = 1
        /\ epoch' = epoch + 1
        /\ count' = InitialCount
        /\ Notify(Len(queue))
        /\ Goto(w, "leave")
     \/ /\ count # 1
        /\ count' = count - 1
        /\ Goto(w, "test")
        /\ UNCHANGED <<epoch, cond>>
  /\ UNCHANGED <<first, holder, old, passed, stray>>

Test(w) ==
  /\ pc[w] = "test"
  /\ \/ epoch <= mine[w] /\ Wait(w)
     \/ epoch > mine[w] /\ Goto(w, "leave") /\ UNCHANGED <<holder, old>>
  /\ UNCHANGED <<first, count, epoch, cond, mine, passed, stray>>

Leave(w) ==
  /\ pc[w] = "leave"
  /\ holder' = None
  /\ passed' = [passed EXCEPT ![w] = @ + 1]
  /\ Goto(w, "idle")
  /\ UNCHANGED <<first, count, epoch, cond, mine, old, stray>>

Step(w) ==
  \/ Arrive(w) \/ BarrierDown(w) \/ BarrierUp(w)
  \/ Lock(w) \/ Enter(w) \/ Test(w) \/ Block(w) \/ Wake(w) \/ Leave(w)

Next == NotifyOne \/ \E w \in Workers : Step(w)

(* Threads are scheduled, and a lock that is free again and again is got:  *)
(* the others ask for it a bounded number of times.                        *)
Spec == Init /\ [][Next]_vars /\ \A w \in Workers : SF_vars(Step(w))

-----------------------------------------------------------------------------
(* Nobody is past Barrier::sync before everybody has arrived, and nobody   *)
(* has returned from a round of ReusableBarrier::sync that another has not *)
(* entered: a fast worker that comes round again is not counted for a slow *)
(* one, nor let through by the epoch of the round before.                  *)
Entered(w) == passed[w] + IF pc[w] \in {"test", "block", "wake", "leave"} THEN 1 ELSE 0

Together ==
  \A w, u \in Workers :
    /\ pc[w] \notin {"start", "down", "up"} => pc[u] # "start"
    /\ passed[w] <= Entered(u)

(* Every worker gets through all its calls: none misses the notification   *)
(* of its round ("Guarantee: no missed signals"), also if that comes       *)
(* between the unlock of wait() and its being queued, and none is stopped  *)
(* by an assertion or a panic.                                             *)
EveryonePasses == <>(\A w \in Workers : pc[w] = "idle" /\ passed[w] = Rounds)

-----------------------------------------------------------------------------
(* Why: what holds between any two steps.                                  *)
Points == {"start", "down", "up", "idle", "enter", "test", "block", "wake", "leave"}
InRound == {"test", "block", "wake"}

TypeOK ==
  /\ left \in Nat /\ sem \in [count : Nat, waiting : Seq(Workers)]
  /\ holder \in Workers \union {None}
  /\ count \in Nat /\ epoch \in Nat /\ notified \in Nat /\ queue \in Seq(Workers)
  /\ pc \in [Workers -> Points]
  /\ mine \in [Workers -> Nat] /\ old \in [Workers -> Nat] /\ passed \in [Workers -> Nat]
  /\ stray \in Nat

(* The gate of Barrier is shut while somebody has yet to arrive.           *)
GateInv ==
  /\ left = Cardinality({w \in Workers : pc[w] = "start"})
  /\ Orderly(sem)
  /\ \A w \in Workers : Waits(sem, w) => pc[w] = "up"
  /\ left > 0 =>
       /\ sem.count = 0
       /\ \A w \in Workers : pc[w] \in {"start", "down"} \/ Waits(sem, w)

HolderInv == \A w \in Workers : holder = w <=> pc[w] \in {"enter", "test", "leave"}

(* Workers are in the round of the current epoch, on their way out of the  *)
(* one before, or between the two; count is how many are to come.          *)
Counted == {w \in Workers : pc[w] \in InRound /\ mine[w] = epoch}
RoundInv ==
  /\ count + Cardinality(Counted) = N
  /\ \A w \in Workers :
       /\ pc[w] \in {"start", "down", "up", "idle", "enter"} => passed[w] = epoch
       /\ pc[w] \in InRound =>
            passed[w] = mine[w] /\ (mine[w] = epoch \/ mine[w] + 1 = epoch)
       /\ pc[w] = "leave" => passed[w] + 1 = epoch

(* "Guarantee: no missed signals" (condition.h): who is queued, or is      *)
(* going to be, waits for a round that has not ended, and so for a         *)
(* notification that is still to come.                                     *)
Queued(w) == \E i \in DOMAIN queue : queue[i] = w
NoMissedSignal ==
  \A w \in Workers :
    Queued(w) \/ (pc[w] = "block" /\ old[w] = notified) =>
      pc[w] \in {"block", "wake"} /\ mine[w] = epoch

SignalInv ==
  \A w \in Workers : /\ Queued(w) => pc[w] = "wake"
                     /\ pc[w] = "block" => old[w] <= notified

(* The panic of Barrier and the assertions of ReusableBarrier and          *)
(* Condition: nobody who is about to be counted finds the count used up    *)
(* ("count went negative in barrier", ASSERT(count != 0)), also when fast  *)
(* workers come round before slow ones have left, and the epoch a waiter   *)
(* compares with never runs ahead (ASSERT(epoch > old_epoch)).             *)
AssertionsHold ==
  \A w \in Workers : /\ pc[w] = "start" => left > 0
                     /\ pc[w] = "enter" => count # 0
                     /\ pc[w] = "block" => old[w] <= notified

(* The gate, the lock, the rounds and the queue of the condition, as one   *)
(* inductive invariant.                                                    *)
BarriersInv == TypeOK /\ GateInv /\ HolderInv /\ RoundInv /\ NoMissedSignal /\ SignalInv

=============================================================================
