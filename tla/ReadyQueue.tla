----------------------------- MODULE ReadyQueue -----------------------------
(***************************************************************************)
(* The ready queue of the scheduler (kernel/priority_queue.h) as operators *)
(* on sequences of threads.  The linked list first -> next -> ... is the   *)
(* sequence q; rt gives the run time of the process of every thread, the   *)
(* value t->process->run_time->get() that add() compares.  Every operation *)
(* runs under the queue's InterruptSafeLock with interrupts disabled, so   *)
(* each is one atomic step of the modules that use it.                     *)
(***************************************************************************)
EXTENDS Naturals, Sequences

-----------------------------------------------------------------------------
(* Mutated forms: plausible slips in add().                                *)

(* The walk stops at the first entry that is not smaller: `<' for `<='.    *)
PositionBeforeEquals(q, rt, t) ==
  CHOOSE i \in 1..(Len(q) + 1) :
    /\ \A j \in 1..(i - 1) : rt[q[j]] < rt[t]
    /\ i <= Len(q) => rt[q[i]] >= rt[t]

(* A plain FIFO append, as in kernel/queue.h.                              *)
PositionLast(q, rt, t) == Len(q) + 1

-----------------------------------------------------------------------------
(* Where add() links t in: past every leading entry whose run time is at   *)
(* most t's.  Position 1 is the head-insertion path.                       *)
Position(q, rt, t) ==
  CHOOSE i \in 1..(Len(q) + 1) :
    /\ \A j \in 1..(i - 1) : rt[q[j]] <= rt[t]
    /\ i <= Len(q) => rt[q[i]] > rt[t]

(* add(): link t in at its position.                                       *)
Add(q, rt, t) ==
  LET i == Position(q, rt, t)
  IN  [k \in 1..(Len(q) + 1) |->
         IF k < i THEN q[k] ELSE IF k = i THEN t ELSE q[k - 1]]

-----------------------------------------------------------------------------
(* The queue is ordered by run time, smallest first.                       *)
Sorted(q, rt) ==
  \A i, j \in 1..Len(q) : i < j => rt[q[i]] <= rt[q[j]]

(* No thread is linked in twice.                                           *)
NoDuplicates(q) ==
  \A i, j \in 1..Len(q) : q[i] = q[j] => i = j

=============================================================================
