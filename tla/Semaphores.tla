----------------------------- MODULE Semaphores -----------------------------
(***************************************************************************)
(* Semaphore (semaphore.h) as a value, for the modules of the primitives   *)
(* built on it.  Its steps on the cores, with the lock kept across the     *)
(* context switch, are in Scheduler; here down() and up() are atomic, and  *)
(* a thread that had to block is in `waiting' until an up() takes it out.  *)
(***************************************************************************)
EXTENDS Naturals, Sequences

Semaphore(n) == [count |-> n, waiting |-> <<>>]

(* down() by thread t: it has its unit, or it waits for one to be handed   *)
(* over.                                                                   *)
Down(s, t) ==
  IF s.count > 0 THEN [s EXCEPT !.count = @ - 1]
                 ELSE [s EXCEPT !.waiting = Append(@, t)]

(* up(): the thread that has waited longest gets the unit; the count only  *)
(* grows when nobody waits.                                                *)
Up(s) ==
  IF s.waiting = <<>> THEN [s EXCEPT !.count = @ + 1]
                      ELSE [s EXCEPT !.waiting = Tail(@)]

Waits(s, t) == \E i \in DOMAIN s.waiting : s.waiting[i] = t

(* Threads wait once each, and only while there is no unit.                *)
Orderly(s) ==
  /\ \A i, j \in DOMAIN s.waiting : s.waiting[i] = s.waiting[j] => i = j
  /\ s.waiting # <<>> => s.count = 0

=============================================================================
