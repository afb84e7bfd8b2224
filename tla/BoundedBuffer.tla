---------------------------- MODULE BoundedBuffer ----------------------------
(***************************************************************************)
(* BoundedBuffer (bb.h): a ring of N slots guarded by three semaphores.    *)
(* Between its calls of down() and up() a thread runs with interrupts on,  *)
(* so that every access of the shared fields is a step of its own.         *)
(***************************************************************************)
EXTENDS Semaphores, FiniteSets

CONSTANTS Threads, Items, N

ASSUME BufferAssumption == N \in Nat \ {0} /\ Items # {} /\ IsFiniteSet(Threads)

VARIABLES
  head, n, data,          \* the ring
  nEmpty, nFull, lock,    \* the semaphores
  pc,                     \* pc[t]: the next step of thread t
  item                    \* item[t]: the argument of put, `out' of get

ring == <<head, n, data>>
vars == <<head, n, data, nEmpty, nFull, lock, pc, item>>

Init ==
  /\ head = 0 /\ n = 0
  /\ data \in {[i \in 0..(N - 1) |-> v] : v \in Items}
  /\ nEmpty = Semaphore(N)
  /\ nFull = Semaphore(0)
  /\ lock = Semaphore(1)
  /\ pc = [t \in Threads |-> "idle"]
  /\ item \in {[t \in Threads |-> v] : v \in Items}

(* A thread that an up() has yet to take out of a semaphore does not run.  *)
At(t, point) ==
  pc[t] = point /\ ~Waits(nEmpty, t) /\ ~Waits(nFull, t) /\ ~Waits(lock, t)
Goto(t, point) == pc' = [pc EXCEPT ![t] = point]

-----------------------------------------------------------------------------
(* put(v)                                                                  *)
PutDown(t, v) ==
  /\ At(t, "idle")
  /\ nEmpty' = Down(nEmpty, t)
  /\ item' = [item EXCEPT ![t] = v]
  /\ Goto(t, "put")
  /\ UNCHANGED <<ring, nFull, lock>>

PutLock(t) ==
  /\ At(t, "put")
  /\ lock' = Down(lock, t)
  /\ Goto(t, "store")
  /\ UNCHANGED <<ring, nEmpty, nFull, item>>

(* Where put stores.  Mutated form: n has been counted already.            *)
SlotBehind == (head + n + 1) % N
Slot == (head + n) % N

PutStore(t) ==
  /\ At(t, "store")
  /\ data' = [data EXCEPT ![Slot] = item[t]]
  /\ Goto(t, "inc")
  /\ UNCHANGED <<head, n, nEmpty, nFull, lock, item>>

PutInc(t) ==
  /\ At(t, "inc")
  /\ n' = n + 1
  /\ Goto(t, "putUnlock")
  /\ UNCHANGED <<head, data, nEmpty, nFull, lock, item>>

PutUnlock(t) ==
  /\ At(t, "putUnlock")
  /\ lock' = Up(lock)
  /\ Goto(t, "putUp")
  /\ UNCHANGED <<ring, nEmpty, nFull, item>>

PutUp(t) ==
  /\ At(t, "putUp")
  /\ nFull' = Up(nFull)
  /\ Goto(t, "idle")
  /\ UNCHANGED <<ring, nEmpty, lock, item>>

-----------------------------------------------------------------------------
(* get()                                                                   *)
GetDown(t) ==
  /\ At(t, "idle")
  /\ nFull' = Down(nFull, t)
  /\ Goto(t, "get")
  /\ UNCHANGED <<ring, nEmpty, lock, item>>

GetLock(t) ==
  /\ At(t, "get")
  /\ lock' = Down(lock, t)
  /\ Goto(t, "load")
  /\ UNCHANGED <<ring, nEmpty, nFull, item>>

GetLoad(t) ==
  /\ At(t, "load")
  /\ item' = [item EXCEPT ![t] = data[head]]
  /\ Goto(t, "advance")
  /\ UNCHANGED <<ring, nEmpty, nFull, lock>>

GetAdvance(t) ==
  /\ At(t, "advance")
  /\ head' = (head + 1) % N
  /\ Goto(t, "dec")
  /\ UNCHANGED <<n, data, nEmpty, nFull, lock, item>>

GetDec(t) ==
  /\ At(t, "dec")
  /\ n' = n - 1
  /\ Goto(t, "getUnlock")
  /\ UNCHANGED <<head, data, nEmpty, nFull, lock, item>>

GetUnlock(t) ==
  /\ At(t, "getUnlock")
  /\ lock' = Up(lock)
  /\ Goto(t, "getUp")
  /\ UNCHANGED <<ring, nEmpty, nFull, item>>

(* Mutated form: get() frees the slot, and does not say so.                *)
GetUpMissing(t) ==
  /\ At(t, "getUp")
  /\ Goto(t, "idle")
  /\ UNCHANGED <<ring, nEmpty, nFull, lock, item>>

GetUp(t) ==
  /\ At(t, "getUp")
  /\ nEmpty' = Up(nEmpty)
  /\ Goto(t, "idle")
  /\ UNCHANGED <<ring, nFull, lock, item>>

-----------------------------------------------------------------------------
(* The rest of a call: what its thread does once it has been made.         *)
Rest(t) ==
  \/ PutLock(t) \/ PutStore(t) \/ PutInc(t) \/ PutUnlock(t) \/ PutUp(t)
  \/ GetLock(t) \/ GetLoad(t) \/ GetAdvance(t) \/ GetDec(t) \/ GetUnlock(t) \/ GetUp(t)

Next ==
  \E t \in Threads : GetDown(t) \/ Rest(t) \/ \E v \in Items : PutDown(t, v)

Spec == Init /\ [][Next]_vars

(* Threads are scheduled; a semaphore serves its waiters in order.  Nobody *)
(* has to call put or get.                                                 *)
FairSpec == Spec /\ \A t \in Threads : WF_vars(Rest(t))

-----------------------------------------------------------------------------
(* The items in the ring, oldest first.  A put takes effect when it counts *)
(* its item, a get when it loads its item, before it has advanced head.    *)
Somebody(points) == \E t \in Threads : pc[t] \in points
Contents ==
  LET start == IF Somebody({"advance"}) THEN head + 1 ELSE head
      size  == IF Somebody({"advance", "dec"}) THEN n - 1 ELSE n
  IN  [i \in 1..size |-> data[(start + i - 1) % N]]

Phase(t) ==
  CASE pc[t] = "idle" -> "idle"
    [] pc[t] \in {"put", "store", "inc"} -> "put"
    [] pc[t] \in {"get", "load"} -> "get"
    [] OTHER -> "done"

Queue ==
  INSTANCE FIFO WITH queue <- Contents, op <- [t \in Threads |-> Phase(t)]

(* The buffer implements a bounded FIFO queue: no item is lost, doubled,   *)
(* overwritten or overtaken, whatever put and get do between each other's  *)
(* steps (bb.h: data[(head + n) % N] under `lock', guarded by nEmpty and   *)
(* nFull).                                                                 *)
ImplementsFIFO == Queue!Spec

(* A call returns unless all the others that could let it through have     *)
(* stopped calling: a get with an item in the ring, a put with a free slot.*)
(* The semaphores hand every unit to somebody who waits.                   *)
Served ==
  /\ \A t \in Threads : (Waits(nFull, t) /\ n > 0) ~> (~Waits(nFull, t) \/ n = 0)
  /\ \A t \in Threads : (Waits(nEmpty, t) /\ n < N) ~> (~Waits(nEmpty, t) \/ n = N)

-----------------------------------------------------------------------------
(* What lies behind the refinement: every unit of the semaphores is with   *)
(* somebody, and one thread at most is between down and up of `lock'.      *)
Inside == {"store", "inc", "putUnlock", "load", "advance", "dec", "getUnlock"}
Points == Inside \union {"idle", "put", "putUp", "get", "getUp"}
Sem == [count : Nat, waiting : Seq(Threads)]

TypeOK ==
  /\ head \in 0..(N - 1) /\ n \in Nat /\ data \in [0..(N - 1) -> Items]
  /\ nEmpty \in Sem /\ nFull \in Sem /\ lock \in Sem
  /\ pc \in [Threads -> Points] /\ item \in [Threads -> Items]

Has(t) == pc[t] \in Inside /\ ~Waits(lock, t)

(* Threads with a unit of nEmpty: a slot to fill, or one they have freed.  *)
EmptyUnits ==
  {t \in Threads : pc[t] \in {"put", "store", "inc", "getUnlock", "getUp"} /\ ~Waits(nEmpty, t)}
(* Threads with a unit of nFull: an item to fetch, or one they have stored.*)
FullUnits ==
  {t \in Threads : /\ pc[t] \in {"get", "load", "advance", "dec", "putUnlock", "putUp"}
                   /\ ~Waits(nFull, t)}

(* Threads wait at the points after a down().                              *)
WaitInv ==
  /\ Orderly(nEmpty) /\ Orderly(nFull) /\ Orderly(lock)
  /\ \A t \in Threads : /\ Waits(nEmpty, t) => pc[t] = "put"
                        /\ Waits(nFull, t) => pc[t] = "get"
                        /\ Waits(lock, t) => pc[t] \in {"store", "load"}

LockInv ==
  /\ \A t, u \in Threads : Has(t) /\ Has(u) => t = u
  /\ lock.count <= 1
  /\ lock.count = 1 => \A t \in Threads : ~Has(t)

UnitInv ==
  /\ nEmpty.count + Cardinality(EmptyUnits) + n = N
  /\ nFull.count + Cardinality(FullUnits) = n

(* What put has stored is still there when it counts it.                   *)
StoreInv == \A t \in Threads : pc[t] = "inc" => data[Slot] = item[t]

(* The units of nEmpty and nFull, whoever has them, add up to the free and *)
(* the filled slots of the ring, and the ring is touched by one thread at  *)
(* a time.                                                                 *)
BufferInv == TypeOK /\ WaitInv /\ LockInv /\ UnitInv /\ StoreInv

=============================================================================
