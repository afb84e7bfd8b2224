----------------------------- MODULE MCSpinLocks -----------------------------
(***************************************************************************)
(* Model checking of SpinLocks: an InterruptSafeLock inside which an ISL   *)
(* may be taken, as Condition::notify takes the lock of the ready queue    *)
(* inside its own, and inside either a SpinLock, which only threads take.  *)
(***************************************************************************)
EXTENDS SpinLocks

CONSTANTS c1, c2

AllKinds == <<"isafe", "isl", "spin">>
(* The thread of one core takes two locks and its handler one; the other   *)
(* core has a thread that takes one.                                       *)
Requests ==
  [x \in Contexts |-> IF x = <<c1, "task">> THEN 2
                      ELSE IF x = <<c2, "irq">> THEN 0 ELSE 1]

=============================================================================
