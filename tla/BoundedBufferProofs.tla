------------------------ MODULE BoundedBufferProofs ------------------------
(***************************************************************************)
(* Proofs about BoundedBuffer, for any number of threads, items and slots: *)
(* BufferInv is inductive, and with it every step of put() and get() is a  *)
(* step of FIFO or leaves FIFO's state alone.                              *)
(***************************************************************************)
EXTENDS BoundedBuffer, FiniteSetTheorems, SequenceTheorems, TLAPS

-----------------------------------------------------------------------------
(* What down() and up() of a Semaphore do to its count and to who waits.   *)
LEMMA SeqFacts ==
  ASSUME NEW S, NEW s \in Seq(S)
  PROVE  /\ Len(s) \in Nat /\ DOMAIN s = 1..Len(s)
         /\ \A i \in 1..Len(s) : s[i] \in S
         /\ s = <<>> <=> Len(s) = 0
<1>1. Len(s) \in Nat /\ DOMAIN s = 1..Len(s)
  BY LenProperties
<1>2. s = <<>> => Len(s) = 0
  BY EmptySeq
<1>3. s # <<>> => Len(s) # 0
  BY EmptySeq
<1>4. \A i \in 1..Len(s) : s[i] \in S
  BY ElementOfSeq
<1> QED BY <1>1, <1>2, <1>3, <1>4

(* A semaphore that has just been made.                                    *)
LEMMA NewFacts ==
  ASSUME NEW T, NEW k \in Nat
  PROVE  LET s == Semaphore(k) IN
         /\ s \in [count : Nat, waiting : Seq(T)] /\ s.count = k
         /\ Orderly(s) /\ \A t : ~Waits(s, t)
<1>1. <<>> \in Seq(T) /\ DOMAIN <<>> = {}
  BY EmptySeq
<1> QED BY <1>1 DEF Semaphore, Orderly, Waits

(* down() takes a unit if there is one; if not, its caller waits.          *)
LEMMA DownFacts ==
  ASSUME NEW T, NEW s \in [count : Nat, waiting : Seq(T)], NEW t \in T, Orderly(s),
         ~Waits(s, t)
  PROVE  LET d == Down(s, t) IN
         /\ d \in [count : Nat, waiting : Seq(T)]
         /\ Orderly(d)
         /\ s.count > 0 => /\ d.count = s.count - 1
                           /\ \A u : Waits(d, u) <=> Waits(s, u)
         /\ s.count = 0 => /\ d.count = 0
                           /\ \A u : Waits(d, u) <=> Waits(s, u) \/ u = t
<1> DEFINE d == Down(s, t)  q == s.waiting
<1>0. s.count \in Nat /\ q \in Seq(T) /\ Len(q) \in Nat /\ DOMAIN q = 1..Len(q)
      /\ s = [count |-> s.count, waiting |-> q]
  BY SeqFacts
<1>1. CASE s.count > 0
  <2>1. d.count = s.count - 1 /\ d.waiting = q /\ d = [count |-> s.count - 1, waiting |-> q]
    BY <1>0, <1>1 DEF Down
  <2>2. q = <<>>
    BY <1>0, <1>1 DEF Orderly
  <2> QED BY <1>0, <1>1, <2>1, <2>2 DEF Orderly, Waits
<1>2. CASE s.count = 0
  <2>0. d = [s EXCEPT !.waiting = Append(@, t)]
    BY <1>0, <1>2 DEF Down
  <2>1. d.count = 0 /\ d.waiting = Append(q, t) /\ d = [count |-> 0, waiting |-> Append(q, t)]
    <3> DEFINE a == Append(q, t)
    <3>1. d = [s EXCEPT !.waiting = a]
      BY <2>0
    <3> HIDE DEF a, d
    <3>2. d.count = 0 /\ d.waiting = a /\ d = [count |-> 0, waiting |-> a]
      BY <1>0, <1>2, <3>1
    <3> QED BY <3>2 DEF a
  <2>2. /\ Append(q, t) \in Seq(T) /\ Len(Append(q, t)) = Len(q) + 1
        /\ \A i \in 1..Len(q) : Append(q, t)[i] = q[i]
        /\ Append(q, t)[Len(q) + 1] = t
    BY <1>0, AppendProperties
  <2>3. DOMAIN d.waiting = 1..(Len(q) + 1)
    BY <2>1, <2>2, SeqFacts
  <2>4. /\ \A i \in 1..(Len(q) + 1) : i \in 1..Len(q) \/ i = Len(q) + 1
        /\ 1..Len(q) \subseteq 1..(Len(q) + 1) /\ Len(q) + 1 \in 1..(Len(q) + 1)
    BY <1>0
  <2>5. \A u : Waits(d, u) <=> Waits(s, u) \/ u = t
    BY <1>0, <2>1, <2>2, <2>3, <2>4 DEF Waits
  <2>6. Orderly(d)
    BY <1>0, <2>1, <2>2, <2>3, <2>4 DEF Waits, Orderly
  <2>7. d \in [count : Nat, waiting : Seq(T)]
    BY <2>1, <2>2
  <2> HIDE DEF d
  <2>8. ~(s.count > 0)
    BY <1>2
  <2> QED BY <1>2, <2>1, <2>5, <2>6, <2>7, <2>8 DEF d
<1> QED BY <1>0, <1>1, <1>2

(* up() adds a unit if nobody waits; if not, who waits longest gets it.    *)
LEMMA UpFacts ==
  ASSUME NEW T, NEW s \in [count : Nat, waiting : Seq(T)], Orderly(s)
  PROVE  LET d == Up(s) IN
         /\ d \in [count : Nat, waiting : Seq(T)]
         /\ Orderly(d)
         /\ \/ /\ \A u : ~Waits(s, u) /\ ~Waits(d, u)
               /\ d.count = s.count + 1
            \/ /\ s.count = 0 /\ d.count = 0
               /\ \E h \in T : /\ Waits(s, h)
                                /\ \A u : Waits(d, u) <=> Waits(s, u) /\ u # h
<1> DEFINE d == Up(s)  q == s.waiting
<1>0. s.count \in Nat /\ q \in Seq(T) /\ Len(q) \in Nat /\ DOMAIN q = 1..Len(q)
      /\ s = [count |-> s.count, waiting |-> q] /\ (q = <<>> <=> Len(q) = 0)
      /\ \A i \in 1..Len(q) : q[i] \in T
  BY SeqFacts
<1>1. CASE q = <<>>
  <2>1. d.count = s.count + 1 /\ d.waiting = q /\ d = [count |-> s.count + 1, waiting |-> q]
    BY <1>0, <1>1 DEF Up
  <2>2. \A u : ~Waits(s, u) /\ ~Waits(d, u)
    BY <1>0, <1>1, <2>1 DEF Waits
  <2>3. Orderly(d)
    BY <1>0, <1>1, <2>1 DEF Orderly
  <2> QED BY <1>0, <2>1, <2>2, <2>3
<1>2. CASE q # <<>>
  <2>0. s.count = 0
    BY <1>2 DEF Orderly
  <2>1. d.count = 0 /\ d.waiting = Tail(q) /\ d = [count |-> 0, waiting |-> Tail(q)]
    BY <1>0, <1>2, <2>0 DEF Up
  <2>2. /\ Tail(q) \in Seq(T) /\ Len(Tail(q)) = Len(q) - 1
        /\ \A i \in 1..(Len(q) - 1) : Tail(q)[i] = q[i + 1]
    BY <1>0, <1>2, HeadTailProperties
  <2>3. DOMAIN d.waiting = 1..(Len(q) - 1)
    BY <2>1, <2>2, SeqFacts
  <2>4. /\ 1 \in 1..Len(q)
        /\ \A i \in 1..(Len(q) - 1) : i + 1 \in 1..Len(q) /\ i + 1 # 1
        /\ \A i \in 1..Len(q) : i = 1 \/ (i - 1 \in 1..(Len(q) - 1) /\ (i - 1) + 1 = i)
    BY <1>0, <1>2
  <2>5. Orderly(d)
    <3>1. \A i, j \in 1..(Len(q) - 1) : Tail(q)[i] = Tail(q)[j] => i = j
      <4> SUFFICES ASSUME NEW i \in 1..(Len(q) - 1), NEW j \in 1..(Len(q) - 1),
                          Tail(q)[i] = Tail(q)[j]
                   PROVE  i = j
        OBVIOUS
      <4>1. q[i + 1] = q[j + 1]
        BY <2>2
      <4>2. i + 1 = j + 1
        BY <1>0, <2>4, <4>1 DEF Orderly
      <4> QED BY <1>0, <4>2
    <3> QED BY <2>1, <2>3, <3>1 DEF Orderly
  <2>6. \A u : Waits(d, u) <=> Waits(s, u) /\ u # q[1]
    <3> TAKE u
    <3>1. Waits(d, u) => Waits(s, u) /\ u # q[1]
      <4> SUFFICES ASSUME NEW i \in 1..(Len(q) - 1), Tail(q)[i] = u
                   PROVE  Waits(s, u) /\ u # q[1]
        BY <2>1, <2>3 DEF Waits
      <4>1. q[i + 1] = u
        BY <2>2
      <4>2. u = q[1] => i + 1 = 1
        BY <1>0, <2>4, <4>1 DEF Orderly
      <4> QED BY <1>0, <2>4, <4>1, <4>2 DEF Waits
    <3>2. Waits(s, u) /\ u # q[1] => Waits(d, u)
      <4> SUFFICES ASSUME NEW i \in 1..Len(q), q[i] = u, u # q[1]
                   PROVE  Waits(d, u)
        BY <1>0 DEF Waits
      <4>1. i - 1 \in 1..(Len(q) - 1) /\ Tail(q)[i - 1] = u
        BY <2>2, <2>4
      <4> QED BY <2>1, <2>3, <4>1 DEF Waits
    <3> QED BY <3>1, <3>2
  <2>7. q[1] \in T /\ Waits(s, q[1])
    BY <1>0, <2>4 DEF Waits
  <2> QED BY <2>0, <2>1, <2>2, <2>5, <2>6, <2>7
<1> QED BY <1>1, <1>2

-----------------------------------------------------------------------------
(* Counting the threads that have a unit.                                  *)
LEMMA CountType ==
  ASSUME NEW S \in SUBSET Threads
  PROVE  IsFiniteSet(S) /\ Cardinality(S) \in Nat /\ (S # {} => Cardinality(S) > 0)
<1>1. IsFiniteSet(S)
  BY BufferAssumption, FS_Subset
<1>2. Cardinality(S) \in Nat /\ (Cardinality(S) = 0 <=> S = {})
  BY <1>1, FS_CardinalityType, FS_EmptySet
<1> QED BY <1>1, <1>2

LEMMA CountAdd ==
  ASSUME NEW S \in SUBSET Threads, NEW t \in Threads \ S
  PROVE  Cardinality(S \union {t}) = Cardinality(S) + 1
BY CountType, FS_AddElement

LEMMA CountRemove ==
  ASSUME NEW S \in SUBSET Threads, NEW t \in S
  PROVE  Cardinality(S \ {t}) = Cardinality(S) - 1
BY CountType, FS_RemoveElement

LEMMA CountSwap ==
  ASSUME NEW S \in SUBSET Threads, NEW t \in S, NEW u \in Threads \ S
  PROVE  Cardinality((S \ {t}) \union {u}) = Cardinality(S)
<1>1. S \ {t} \in SUBSET Threads /\ u \in Threads \ (S \ {t})
  OBVIOUS
<1>2. Cardinality((S \ {t}) \union {u}) = Cardinality(S \ {t}) + 1
  BY <1>1, CountAdd
<1>3. Cardinality(S \ {t}) = Cardinality(S) - 1 /\ Cardinality(S) \in Nat
  BY CountRemove, CountType
<1> QED BY <1>2, <1>3

LEMMA UnitTypes ==
  EmptyUnits \in SUBSET Threads /\ FullUnits \in SUBSET Threads
BY DEF EmptyUnits, FullUnits

(* n counts within the ring: a thread that is about to count an item has   *)
(* a slot for it, and one that fetches an item finds one.                  *)
LEMMA Room ==
  ASSUME BufferInv
  PROVE  /\ n <= N
         /\ EmptyUnits # {} => n < N
         /\ FullUnits # {} => n > 0
<1>1. /\ Cardinality(EmptyUnits) \in Nat /\ Cardinality(FullUnits) \in Nat
      /\ EmptyUnits # {} => Cardinality(EmptyUnits) > 0
      /\ FullUnits # {} => Cardinality(FullUnits) > 0
  BY UnitTypes, CountType
<1>2. nEmpty.count \in Nat /\ nFull.count \in Nat /\ n \in Nat /\ N \in Nat
  BY BufferAssumption DEF BufferInv, TypeOK, Sem
<1> QED BY <1>1, <1>2 DEF BufferInv, UnitInv

-----------------------------------------------------------------------------
(* While t is inside, the others are outside or wait for `lock'.           *)
LEMMA Alone ==
  ASSUME BufferInv, NEW t \in Threads, Has(t), NEW u \in Threads \ {t}
  PROVE  /\ ~Has(u)
         /\ pc[u] \notin {"inc", "putUnlock", "advance", "dec", "getUnlock"}
         /\ pc[u] \in Inside => Waits(lock, u)
<1>1. ~Has(u)
  BY DEF BufferInv, LockInv
<1>2. Waits(lock, u) => pc[u] \in {"store", "load"}
  BY DEF BufferInv, WaitInv
<1> QED BY <1>1, <1>2 DEF Has, Inside

(* t goes on, and the others stay where they are.                          *)
LEMMA Moves ==
  ASSUME TypeOK, NEW t \in Threads, NEW p \in Points, Goto(t, p)
  PROVE  /\ pc' \in [Threads -> Points] /\ pc'[t] = p
         /\ \A u \in Threads \ {t} : pc'[u] = pc[u]
BY DEF TypeOK, Goto

(* A step that leaves the semaphores and n alone, and the units with who   *)
(* has them.                                                               *)
LEMMA UnitsKept ==
  ASSUME BufferInv, UNCHANGED <<nEmpty, nFull, n>>,
         \A u \in Threads :
           /\ pc'[u] \in {"put", "store", "inc", "getUnlock", "getUp"}
                <=> pc[u] \in {"put", "store", "inc", "getUnlock", "getUp"}
           /\ pc'[u] \in {"get", "load", "advance", "dec", "putUnlock", "putUp"}
                <=> pc[u] \in {"get", "load", "advance", "dec", "putUnlock", "putUp"}
  PROVE  UnitInv'
<1>1. EmptyUnits' = EmptyUnits
  BY DEF EmptyUnits
<1>2. FullUnits' = FullUnits
  BY DEF FullUnits
<1> QED BY <1>1, <1>2 DEF BufferInv, UnitInv

(* A step of t that leaves the semaphores alone.                           *)
LEMMA WaitsKept ==
  ASSUME BufferInv, UNCHANGED <<nEmpty, nFull, lock>>, NEW t \in Threads,
         ~Waits(nEmpty, t), ~Waits(nFull, t), ~Waits(lock, t),
         \A u \in Threads \ {t} : pc'[u] = pc[u]
  PROVE  WaitInv'
BY DEF BufferInv, WaitInv

(* put() and get() ask for the lock.                                       *)
LEMMA LockKeeps ==
  ASSUME BufferInv, NEW t \in Threads, PutLock(t) \/ GetLock(t)
  PROVE  BufferInv'
<1>1. PICK p \in {"put", "get"}, q \in {"store", "load"} :
        /\ p = "put" <=> q = "store"
        /\ At(t, p) /\ Goto(t, q)
        /\ lock' = Down(lock, t)
        /\ UNCHANGED <<head, n, data, nEmpty, nFull, item>>
  BY DEF PutLock, GetLock, ring
<1>2. /\ pc[t] = p /\ ~Waits(nEmpty, t) /\ ~Waits(nFull, t) /\ ~Waits(lock, t)
  BY <1>1 DEF At
<1>3. /\ pc' \in [Threads -> Points] /\ pc'[t] = q
      /\ \A u \in Threads \ {t} : pc'[u] = pc[u]
  <2>1. q \in Points /\ TypeOK
    BY DEF Points, Inside, BufferInv
  <2> QED BY <1>1, <2>1, Moves
<1>4. /\ lock \in Sem /\ Orderly(lock)
  BY DEF BufferInv, TypeOK, WaitInv
<1>5. /\ lock' \in Sem /\ Orderly(lock')
      /\ lock.count > 0 => /\ lock'.count = lock.count - 1
                           /\ \A u : Waits(lock', u) <=> Waits(lock, u)
      /\ lock.count = 0 => /\ lock'.count = 0
                           /\ \A u : Waits(lock', u) <=> Waits(lock, u) \/ u = t
  BY <1>1, <1>2, <1>4, DownFacts DEF Sem
<1>6. TypeOK'
  BY <1>1, <1>3, <1>5 DEF BufferInv, TypeOK
<1>7. WaitInv'
  BY <1>1, <1>2, <1>3, <1>4, <1>5 DEF BufferInv, WaitInv, Sem
<1>8. LockInv'
  <2>0. lock.count \in Nat
    BY <1>4 DEF Sem
  <2>1. CASE lock.count = 0
    <3>1. \A u \in Threads : Has(u)' <=> Has(u)
      BY <1>2, <1>3, <1>5, <2>1 DEF Has, Inside
    <3> QED BY <1>5, <2>1, <3>1 DEF BufferInv, LockInv
  <2>2. CASE lock.count > 0
    <3>1. lock.count = 1 /\ \A u \in Threads : ~Has(u)
      BY <2>0, <2>2 DEF BufferInv, LockInv
    <3>2. \A u \in Threads \ {t} : ~Has(u)'
      BY <1>3, <1>5, <2>2, <3>1 DEF Has
    <3> QED BY <1>5, <3>1, <3>2 DEF LockInv
  <2> QED BY <2>0, <2>1, <2>2
<1>9. UnitInv'
  BY <1>1, <1>2, <1>3, UnitsKept
<1>10. StoreInv'
  BY <1>1, <1>2, <1>3 DEF BufferInv, StoreInv, Slot
<1> QED BY <1>6, <1>7, <1>8, <1>9, <1>10 DEF BufferInv

(* ... and give it back, to who has waited longest.                        *)
LEMMA UnlockKeeps ==
  ASSUME BufferInv, NEW t \in Threads, PutUnlock(t) \/ GetUnlock(t)
  PROVE  BufferInv'
<1>1. PICK p \in {"putUnlock", "getUnlock"}, q \in {"putUp", "getUp"} :
        /\ p = "putUnlock" <=> q = "putUp"
        /\ At(t, p) /\ Goto(t, q)
        /\ lock' = Up(lock)
        /\ UNCHANGED <<head, n, data, nEmpty, nFull, item>>
  BY DEF PutUnlock, GetUnlock, ring
<1>2. /\ pc[t] = p /\ ~Waits(nEmpty, t) /\ ~Waits(nFull, t) /\ ~Waits(lock, t)
  BY <1>1 DEF At
<1>3. /\ pc' \in [Threads -> Points] /\ pc'[t] = q
      /\ \A u \in Threads \ {t} : pc'[u] = pc[u]
  <2>1. q \in Points /\ TypeOK
    BY DEF Points, Inside, BufferInv
  <2> QED BY <1>1, <2>1, Moves
<1>4. /\ lock \in Sem /\ Orderly(lock)
  BY DEF BufferInv, TypeOK, WaitInv
<1>5. /\ lock' \in Sem /\ Orderly(lock')
      /\ \/ /\ \A u : ~Waits(lock, u) /\ ~Waits(lock', u)
            /\ lock'.count = lock.count + 1
         \/ /\ lock.count = 0 /\ lock'.count = 0
            /\ \E h \in Threads : /\ Waits(lock, h)
                                  /\ \A u : Waits(lock', u) <=> Waits(lock, u) /\ u # h
  BY <1>1, <1>4, UpFacts DEF Sem
<1>6. TypeOK'
  BY <1>1, <1>3, <1>5 DEF BufferInv, TypeOK
<1>7. WaitInv'
  BY <1>1, <1>2, <1>3, <1>4, <1>5 DEF BufferInv, WaitInv
<1>8. LockInv'
  <2>1. Has(t) /\ ~Has(t)'
    BY <1>2, <1>3 DEF Has, Inside
  <2>2. \A u \in Threads \ {t} : ~Has(u) /\ pc'[u] = pc[u]
    BY <1>3, <2>1, Alone
  <2>3. lock.count = 0
    <3>1. lock.count \in Nat /\ lock.count <= 1 /\ lock.count # 1
      BY <1>4, <2>1 DEF BufferInv, LockInv, Sem
    <3> QED BY <3>1
  <2>4. CASE /\ \A u : ~Waits(lock, u) /\ ~Waits(lock', u)
             /\ lock'.count = lock.count + 1
    <3>1. \A u \in Threads : ~Has(u)'
      BY <2>1, <2>2, <2>4 DEF Has
    <3> QED BY <2>3, <2>4, <3>1 DEF LockInv
  <2>5. ASSUME NEW h \in Threads, lock'.count = 0,
               \A u : Waits(lock', u) <=> Waits(lock, u) /\ u # h
        PROVE  LockInv'
    <3>1. \A u \in Threads : Has(u)' => u = h
      BY <2>1, <2>2, <2>5 DEF Has
    <3> QED BY <2>5, <3>1 DEF LockInv
  <2> QED BY <1>5, <2>4, <2>5
<1>9. UnitInv'
  BY <1>1, <1>2, <1>3, UnitsKept
<1>10. StoreInv'
  BY <1>1, <1>2, <1>3 DEF BufferInv, StoreInv, Slot
<1> QED BY <1>6, <1>7, <1>8, <1>9, <1>10 DEF BufferInv

(* A step of t that leaves the lock alone and does not move it across the  *)
(* border of the critical section.                                         *)
LEMMA LockKept ==
  ASSUME BufferInv, lock' = lock, NEW t \in Threads,
         pc'[t] \in Inside <=> pc[t] \in Inside,
         \A u \in Threads \ {t} : pc'[u] = pc[u]
  PROVE  LockInv'
<1>1. \A u \in Threads : Has(u)' <=> Has(u)
  BY DEF Has
<1> QED BY <1>1 DEF BufferInv, LockInv

LEMMA PutDownKeeps ==
  ASSUME BufferInv, NEW t \in Threads, NEW v \in Items, PutDown(t, v)
  PROVE  BufferInv'
<1>1. /\ At(t, "idle") /\ Goto(t, "put") /\ nEmpty' = Down(nEmpty, t)
      /\ item' = [item EXCEPT ![t] = v]
      /\ UNCHANGED <<head, n, data, nFull, lock>>
  BY DEF PutDown, ring
<1>2. /\ pc[t] = "idle" /\ ~Waits(nEmpty, t) /\ ~Waits(nFull, t) /\ ~Waits(lock, t)
  BY <1>1 DEF At
<1>3. /\ pc' \in [Threads -> Points] /\ pc'[t] = "put"
      /\ \A u \in Threads \ {t} : pc'[u] = pc[u]
  <2>1. "put" \in Points /\ TypeOK
    BY DEF Points, Inside, BufferInv
  <2> QED BY <1>1, <2>1, Moves
<1>4. nEmpty \in Sem /\ Orderly(nEmpty) /\ nEmpty.count \in Nat
  BY DEF BufferInv, TypeOK, WaitInv, Sem
<1>5. /\ nEmpty' \in Sem /\ Orderly(nEmpty')
      /\ nEmpty.count > 0 => /\ nEmpty'.count = nEmpty.count - 1
                             /\ \A u : Waits(nEmpty', u) <=> Waits(nEmpty, u)
      /\ nEmpty.count = 0 => /\ nEmpty'.count = 0
                             /\ \A u : Waits(nEmpty', u) <=> Waits(nEmpty, u) \/ u = t
  BY <1>1, <1>2, <1>4, DownFacts DEF Sem
<1>6. TypeOK'
  BY <1>1, <1>3, <1>5 DEF BufferInv, TypeOK
<1>7. WaitInv'
  BY <1>1, <1>2, <1>3, <1>4, <1>5 DEF BufferInv, WaitInv
<1>8. LockInv'
  BY <1>1, <1>2, <1>3, LockKept DEF Inside
<1>9. UnitInv'
  <2>1. FullUnits' = FullUnits
    BY <1>1, <1>2, <1>3 DEF FullUnits
  <2>2. t \in Threads \ EmptyUnits
    BY <1>2 DEF EmptyUnits
  <2>3. CASE nEmpty.count = 0
    <3>1. EmptyUnits' = EmptyUnits
      BY <1>2, <1>3, <1>5, <2>3 DEF EmptyUnits
    <3> QED BY <1>1, <1>5, <2>1, <2>3, <3>1 DEF BufferInv, UnitInv
  <2>4. CASE nEmpty.count > 0
    <3>1. EmptyUnits' = EmptyUnits \union {t}
      BY <1>2, <1>3, <1>5, <2>4 DEF EmptyUnits
    <3>2. /\ Cardinality(EmptyUnits') = Cardinality(EmptyUnits) + 1
          /\ Cardinality(EmptyUnits) \in Nat
      BY <2>2, <3>1, UnitTypes, CountAdd, CountType
    <3>3. nEmpty'.count + Cardinality(EmptyUnits') = nEmpty.count + Cardinality(EmptyUnits)
      BY <1>4, <1>5, <2>4, <3>2
    <3> QED BY <1>1, <2>1, <3>3 DEF BufferInv, UnitInv
  <2> QED BY <1>4, <2>3, <2>4
<1>10. StoreInv'
  BY <1>1, <1>2, <1>3 DEF BufferInv, StoreInv, Slot, TypeOK
<1> QED BY <1>6, <1>7, <1>8, <1>9, <1>10 DEF BufferInv

LEMMA GetDownKeeps ==
  ASSUME BufferInv, NEW t \in Threads, GetDown(t)
  PROVE  BufferInv'
<1>1. /\ At(t, "idle") /\ Goto(t, "get") /\ nFull' = Down(nFull, t)
      /\ UNCHANGED <<head, n, data, nEmpty, lock, item>>
  BY DEF GetDown, ring
<1>2. /\ pc[t] = "idle" /\ ~Waits(nEmpty, t) /\ ~Waits(nFull, t) /\ ~Waits(lock, t)
  BY <1>1 DEF At
<1>3. /\ pc' \in [Threads -> Points] /\ pc'[t] = "get"
      /\ \A u \in Threads \ {t} : pc'[u] = pc[u]
  <2>1. "get" \in Points /\ TypeOK
    BY DEF Points, Inside, BufferInv
  <2> QED BY <1>1, <2>1, Moves
<1>4. nFull \in Sem /\ Orderly(nFull) /\ nFull.count \in Nat
  BY DEF BufferInv, TypeOK, WaitInv, Sem
<1>5. /\ nFull' \in Sem /\ Orderly(nFull')
      /\ nFull.count > 0 => /\ nFull'.count = nFull.count - 1
                            /\ \A u : Waits(nFull', u) <=> Waits(nFull, u)
      /\ nFull.count = 0 => /\ nFull'.count = 0
                            /\ \A u : Waits(nFull', u) <=> Waits(nFull, u) \/ u = t
  BY <1>1, <1>2, <1>4, DownFacts DEF Sem
<1>6. TypeOK'
  BY <1>1, <1>3, <1>5 DEF BufferInv, TypeOK
<1>7. WaitInv'
  BY <1>1, <1>2, <1>3, <1>4, <1>5 DEF BufferInv, WaitInv
<1>8. LockInv'
  BY <1>1, <1>2, <1>3, LockKept DEF Inside
<1>9. UnitInv'
  <2>1. EmptyUnits' = EmptyUnits
    BY <1>1, <1>2, <1>3 DEF EmptyUnits
  <2>2. t \in Threads \ FullUnits
    BY <1>2 DEF FullUnits
  <2>3. CASE nFull.count = 0
    <3>1. FullUnits' = FullUnits
      BY <1>2, <1>3, <1>5, <2>3 DEF FullUnits
    <3> QED BY <1>1, <1>5, <2>1, <2>3, <3>1 DEF BufferInv, UnitInv
  <2>4. CASE nFull.count > 0
    <3>1. FullUnits' = FullUnits \union {t}
      BY <1>2, <1>3, <1>5, <2>4 DEF FullUnits
    <3>2. /\ Cardinality(FullUnits') = Cardinality(FullUnits) + 1
          /\ Cardinality(FullUnits) \in Nat
      BY <2>2, <3>1, UnitTypes, CountAdd, CountType
    <3> QED BY <1>1, <1>4, <1>5, <2>1, <2>4, <3>2 DEF BufferInv, UnitInv, TypeOK
  <2> QED BY <1>4, <2>3, <2>4
<1>10. StoreInv'
  BY <1>1, <1>2, <1>3 DEF BufferInv, StoreInv, Slot
<1> QED BY <1>6, <1>7, <1>8, <1>9, <1>10 DEF BufferInv

LEMMA PutUpKeeps ==
  ASSUME BufferInv, NEW t \in Threads, PutUp(t)
  PROVE  BufferInv'
<1>1. /\ At(t, "putUp") /\ Goto(t, "idle") /\ nFull' = Up(nFull)
      /\ UNCHANGED <<head, n, data, nEmpty, lock, item>>
  BY DEF PutUp, ring
<1>2. /\ pc[t] = "putUp" /\ ~Waits(nEmpty, t) /\ ~Waits(nFull, t) /\ ~Waits(lock, t)
  BY <1>1 DEF At
<1>3. /\ pc' \in [Threads -> Points] /\ pc'[t] = "idle"
      /\ \A u \in Threads \ {t} : pc'[u] = pc[u]
  <2>1. "idle" \in Points /\ TypeOK
    BY DEF Points, BufferInv
  <2> QED BY <1>1, <2>1, Moves
<1>4. nFull \in Sem /\ Orderly(nFull) /\ nFull.count \in Nat
  BY DEF BufferInv, TypeOK, WaitInv, Sem
<1>5. /\ nFull' \in Sem /\ Orderly(nFull')
      /\ \/ /\ \A u : ~Waits(nFull, u) /\ ~Waits(nFull', u)
            /\ nFull'.count = nFull.count + 1
         \/ /\ nFull.count = 0 /\ nFull'.count = 0
            /\ \E h \in Threads : /\ Waits(nFull, h)
                                  /\ \A u : Waits(nFull', u) <=> Waits(nFull, u) /\ u # h
  BY <1>1, <1>4, UpFacts DEF Sem
<1>6. TypeOK'
  BY <1>1, <1>3, <1>5 DEF BufferInv, TypeOK
<1>7. WaitInv'
  BY <1>1, <1>2, <1>3, <1>4, <1>5 DEF BufferInv, WaitInv
<1>8. LockInv'
  BY <1>1, <1>2, <1>3, LockKept DEF Inside
<1>9. UnitInv'
  <2>1. EmptyUnits' = EmptyUnits
    BY <1>1, <1>2, <1>3 DEF EmptyUnits
  <2>2. t \in FullUnits
    BY <1>2 DEF FullUnits
  <2>3. CASE /\ \A u : ~Waits(nFull, u) /\ ~Waits(nFull', u)
             /\ nFull'.count = nFull.count + 1
    <3>1. FullUnits' = FullUnits \ {t}
      BY <1>2, <1>3, <2>3 DEF FullUnits
    <3>2. /\ Cardinality(FullUnits') = Cardinality(FullUnits) - 1
          /\ Cardinality(FullUnits) \in Nat
      BY <2>2, <3>1, UnitTypes, CountRemove, CountType
    <3> QED BY <1>1, <1>4, <2>1, <2>3, <3>2 DEF BufferInv, UnitInv, TypeOK
  <2>4. ASSUME NEW h \in Threads, nFull.count = 0, nFull'.count = 0, Waits(nFull, h),
               \A u : Waits(nFull', u) <=> Waits(nFull, u) /\ u # h
        PROVE  UnitInv'
    <3>1. h # t /\ h \in Threads \ FullUnits /\ pc[h] = "get"
      BY <1>2, <2>4 DEF BufferInv, WaitInv, FullUnits
    <3>2. FullUnits' = (FullUnits \ {t}) \union {h}
      BY <1>2, <1>3, <2>4, <3>1 DEF FullUnits
    <3>3. Cardinality(FullUnits') = Cardinality(FullUnits)
      BY <2>2, <3>1, <3>2, UnitTypes, CountSwap
    <3> QED BY <1>1, <2>1, <2>4, <3>3 DEF BufferInv, UnitInv
  <2> QED BY <1>5, <2>3, <2>4
<1>10. StoreInv'
  BY <1>1, <1>2, <1>3 DEF BufferInv, StoreInv, Slot
<1> QED BY <1>6, <1>7, <1>8, <1>9, <1>10 DEF BufferInv

LEMMA GetUpKeeps ==
  ASSUME BufferInv, NEW t \in Threads, GetUp(t)
  PROVE  BufferInv'
<1>1. /\ At(t, "getUp") /\ Goto(t, "idle") /\ nEmpty' = Up(nEmpty)
      /\ UNCHANGED <<head, n, data, nFull, lock, item>>
  BY DEF GetUp, ring
<1>2. /\ pc[t] = "getUp" /\ ~Waits(nEmpty, t) /\ ~Waits(nFull, t) /\ ~Waits(lock, t)
  BY <1>1 DEF At
<1>3. /\ pc' \in [Threads -> Points] /\ pc'[t] = "idle"
      /\ \A u \in Threads \ {t} : pc'[u] = pc[u]
  <2>1. "idle" \in Points /\ TypeOK
    BY DEF Points, BufferInv
  <2> QED BY <1>1, <2>1, Moves
<1>4. nEmpty \in Sem /\ Orderly(nEmpty) /\ nEmpty.count \in Nat
  BY DEF BufferInv, TypeOK, WaitInv, Sem
<1>5. /\ nEmpty' \in Sem /\ Orderly(nEmpty')
      /\ \/ /\ \A u : ~Waits(nEmpty, u) /\ ~Waits(nEmpty', u)
            /\ nEmpty'.count = nEmpty.count + 1
         \/ /\ nEmpty.count = 0 /\ nEmpty'.count = 0
            /\ \E h \in Threads : /\ Waits(nEmpty, h)
                                  /\ \A u : Waits(nEmpty', u) <=> Waits(nEmpty, u) /\ u # h
  BY <1>1, <1>4, UpFacts DEF Sem
<1>6. TypeOK'
  BY <1>1, <1>3, <1>5 DEF BufferInv, TypeOK
<1>7. WaitInv'
  BY <1>1, <1>2, <1>3, <1>4, <1>5 DEF BufferInv, WaitInv
<1>8. LockInv'
  BY <1>1, <1>2, <1>3, LockKept DEF Inside
<1>9. UnitInv'
  <2>1. FullUnits' = FullUnits
    BY <1>1, <1>2, <1>3 DEF FullUnits
  <2>2. t \in EmptyUnits
    BY <1>2 DEF EmptyUnits
  <2>3. CASE /\ \A u : ~Waits(nEmpty, u) /\ ~Waits(nEmpty', u)
             /\ nEmpty'.count = nEmpty.count + 1
    <3>1. EmptyUnits' = EmptyUnits \ {t}
      BY <1>2, <1>3, <2>3 DEF EmptyUnits
    <3>2. /\ Cardinality(EmptyUnits') = Cardinality(EmptyUnits) - 1
          /\ Cardinality(EmptyUnits) \in Nat
      BY <2>2, <3>1, UnitTypes, CountRemove, CountType
    <3> QED BY <1>1, <1>4, <2>1, <2>3, <3>2 DEF BufferInv, UnitInv, TypeOK
  <2>4. ASSUME NEW h \in Threads, nEmpty.count = 0, nEmpty'.count = 0, Waits(nEmpty, h),
               \A u : Waits(nEmpty', u) <=> Waits(nEmpty, u) /\ u # h
        PROVE  UnitInv'
    <3>1. h # t /\ h \in Threads \ EmptyUnits /\ pc[h] = "put"
      BY <1>2, <2>4 DEF BufferInv, WaitInv, EmptyUnits
    <3>2. EmptyUnits' = (EmptyUnits \ {t}) \union {h}
      BY <1>2, <1>3, <2>4, <3>1 DEF EmptyUnits
    <3>3. Cardinality(EmptyUnits') = Cardinality(EmptyUnits)
      BY <2>2, <3>1, <3>2, UnitTypes, CountSwap
    <3> QED BY <1>1, <2>1, <2>4, <3>3 DEF BufferInv, UnitInv
  <2> QED BY <1>5, <2>3, <2>4
<1>10. StoreInv'
  BY <1>1, <1>2, <1>3 DEF BufferInv, StoreInv, Slot
<1> QED BY <1>6, <1>7, <1>8, <1>9, <1>10 DEF BufferInv

-----------------------------------------------------------------------------
(* The steps on the ring, with `lock' held.                                *)
LEMMA PutStoreKeeps ==
  ASSUME BufferInv, NEW t \in Threads, PutStore(t)
  PROVE  BufferInv'
<1>1. /\ At(t, "store") /\ Goto(t, "inc") /\ data' = [data EXCEPT ![Slot] = item[t]]
      /\ UNCHANGED <<head, n, nEmpty, nFull, lock, item>>
  BY DEF PutStore
<1>2. /\ pc[t] = "store" /\ ~Waits(nEmpty, t) /\ ~Waits(nFull, t) /\ ~Waits(lock, t)
  BY <1>1 DEF At
<1>3. /\ pc' \in [Threads -> Points] /\ pc'[t] = "inc"
      /\ \A u \in Threads \ {t} : pc'[u] = pc[u]
  <2>1. "inc" \in Points /\ TypeOK
    BY DEF Points, Inside, BufferInv
  <2> QED BY <1>1, <2>1, Moves
<1>4. Has(t)
  BY <1>2 DEF Has, Inside
<1>5. Slot \in 0..(N - 1) /\ item[t] \in Items
  BY BufferAssumption DEF BufferInv, TypeOK, Slot
<1>6. data' \in [0..(N - 1) -> Items] /\ data'[Slot] = item[t]
  BY <1>1, <1>5 DEF BufferInv, TypeOK
<1>7. TypeOK'
  BY <1>1, <1>3, <1>6 DEF BufferInv, TypeOK
<1>8. WaitInv'
  BY <1>1, <1>2, <1>3, WaitsKept
<1>9. LockInv'
  BY <1>1, <1>2, <1>3, LockKept DEF Inside
<1>10. UnitInv'
  BY <1>1, <1>2, <1>3, UnitsKept
<1>11. StoreInv'
  <2>1. \A u \in Threads \ {t} : pc[u] # "inc"
    BY <1>4, Alone
  <2>2. Slot' = Slot
    BY <1>1 DEF Slot
  <2> QED BY <1>1, <1>3, <1>6, <2>1, <2>2 DEF StoreInv
<1> QED BY <1>7, <1>8, <1>9, <1>10, <1>11 DEF BufferInv

LEMMA PutIncKeeps ==
  ASSUME BufferInv, NEW t \in Threads, PutInc(t)
  PROVE  BufferInv'
<1>1. /\ At(t, "inc") /\ Goto(t, "putUnlock") /\ n' = n + 1
      /\ UNCHANGED <<head, data, nEmpty, nFull, lock, item>>
  BY DEF PutInc
<1>2. /\ pc[t] = "inc" /\ ~Waits(nEmpty, t) /\ ~Waits(nFull, t) /\ ~Waits(lock, t)
  BY <1>1 DEF At
<1>3. /\ pc' \in [Threads -> Points] /\ pc'[t] = "putUnlock"
      /\ \A u \in Threads \ {t} : pc'[u] = pc[u]
  <2>1. "putUnlock" \in Points /\ TypeOK
    BY DEF Points, Inside, BufferInv
  <2> QED BY <1>1, <2>1, Moves
<1>4. Has(t)
  BY <1>2 DEF Has, Inside
<1>5. TypeOK'
  BY <1>1, <1>3 DEF BufferInv, TypeOK
<1>6. WaitInv'
  BY <1>1, <1>2, <1>3, WaitsKept
<1>7. LockInv'
  BY <1>1, <1>2, <1>3, LockKept DEF Inside
<1>8. UnitInv'
  <2>1. t \in EmptyUnits /\ EmptyUnits' = EmptyUnits \ {t}
    BY <1>1, <1>2, <1>3 DEF EmptyUnits
  <2>2. t \in Threads \ FullUnits /\ FullUnits' = FullUnits \union {t}
    BY <1>1, <1>2, <1>3 DEF FullUnits
  <2>3. /\ Cardinality(EmptyUnits') = Cardinality(EmptyUnits) - 1
        /\ Cardinality(EmptyUnits) \in Nat
    BY <2>1, UnitTypes, CountRemove, CountType
  <2>4. /\ Cardinality(FullUnits') = Cardinality(FullUnits) + 1
        /\ Cardinality(FullUnits) \in Nat
    BY <2>2, UnitTypes, CountAdd, CountType
  <2>5. n \in Nat /\ nEmpty.count \in Nat /\ nFull.count \in Nat
    BY DEF BufferInv, TypeOK, Sem
  <2>6. nEmpty'.count + Cardinality(EmptyUnits') + n' = N
    BY <1>1, <2>3, <2>5 DEF BufferInv, UnitInv
  <2>7. nFull'.count + Cardinality(FullUnits') = n'
    BY <1>1, <2>4, <2>5 DEF BufferInv, UnitInv
  <2> QED BY <2>6, <2>7 DEF UnitInv
<1>9. StoreInv'
  <2>1. \A u \in Threads \ {t} : pc[u] # "inc"
    BY <1>4, Alone
  <2> QED BY <1>3, <2>1 DEF StoreInv
<1> QED BY <1>5, <1>6, <1>7, <1>8, <1>9 DEF BufferInv

LEMMA GetLoadKeeps ==
  ASSUME BufferInv, NEW t \in Threads, GetLoad(t)
  PROVE  BufferInv'
<1>1. /\ At(t, "load") /\ Goto(t, "advance") /\ item' = [item EXCEPT ![t] = data[head]]
      /\ UNCHANGED <<head, n, data, nEmpty, nFull, lock>>
  BY DEF GetLoad, ring
<1>2. /\ pc[t] = "load" /\ ~Waits(nEmpty, t) /\ ~Waits(nFull, t) /\ ~Waits(lock, t)
  BY <1>1 DEF At
<1>3. /\ pc' \in [Threads -> Points] /\ pc'[t] = "advance"
      /\ \A u \in Threads \ {t} : pc'[u] = pc[u]
  <2>1. "advance" \in Points /\ TypeOK
    BY DEF Points, Inside, BufferInv
  <2> QED BY <1>1, <2>1, Moves
<1>4. Has(t)
  BY <1>2 DEF Has, Inside
<1>5. TypeOK'
  BY <1>1, <1>3 DEF BufferInv, TypeOK
<1>6. WaitInv'
  BY <1>1, <1>2, <1>3, WaitsKept
<1>7. LockInv'
  BY <1>1, <1>2, <1>3, LockKept DEF Inside
<1>8. UnitInv'
  BY <1>1, <1>2, <1>3, UnitsKept
<1>9. StoreInv'
  <2>1. \A u \in Threads \ {t} : pc[u] # "inc"
    BY <1>4, Alone
  <2> QED BY <1>3, <2>1 DEF StoreInv
<1> QED BY <1>5, <1>6, <1>7, <1>8, <1>9 DEF BufferInv

LEMMA GetAdvanceKeeps ==
  ASSUME BufferInv, NEW t \in Threads, GetAdvance(t)
  PROVE  BufferInv'
<1>1. /\ At(t, "advance") /\ Goto(t, "dec") /\ head' = (head + 1) % N
      /\ UNCHANGED <<n, data, nEmpty, nFull, lock, item>>
  BY DEF GetAdvance
<1>2. /\ pc[t] = "advance" /\ ~Waits(nEmpty, t) /\ ~Waits(nFull, t) /\ ~Waits(lock, t)
  BY <1>1 DEF At
<1>3. /\ pc' \in [Threads -> Points] /\ pc'[t] = "dec"
      /\ \A u \in Threads \ {t} : pc'[u] = pc[u]
  <2>1. "dec" \in Points /\ TypeOK
    BY DEF Points, Inside, BufferInv
  <2> QED BY <1>1, <2>1, Moves
<1>4. Has(t)
  BY <1>2 DEF Has, Inside
<1>5. TypeOK'
  <2>1. head' \in 0..(N - 1)
    BY <1>1, BufferAssumption DEF BufferInv, TypeOK
  <2> QED BY <1>1, <1>3, <2>1 DEF BufferInv, TypeOK
<1>6. WaitInv'
  BY <1>1, <1>2, <1>3, WaitsKept
<1>7. LockInv'
  BY <1>1, <1>2, <1>3, LockKept DEF Inside
<1>8. UnitInv'
  BY <1>1, <1>2, <1>3, UnitsKept
<1>9. StoreInv'
  <2>1. \A u \in Threads \ {t} : pc[u] # "inc"
    BY <1>4, Alone
  <2> QED BY <1>3, <2>1 DEF StoreInv
<1> QED BY <1>5, <1>6, <1>7, <1>8, <1>9 DEF BufferInv

LEMMA GetDecKeeps ==
  ASSUME BufferInv, NEW t \in Threads, GetDec(t)
  PROVE  BufferInv'
<1>1. /\ At(t, "dec") /\ Goto(t, "getUnlock") /\ n' = n - 1
      /\ UNCHANGED <<head, data, nEmpty, nFull, lock, item>>
  BY DEF GetDec
<1>2. /\ pc[t] = "dec" /\ ~Waits(nEmpty, t) /\ ~Waits(nFull, t) /\ ~Waits(lock, t)
  BY <1>1 DEF At
<1>3. /\ pc' \in [Threads -> Points] /\ pc'[t] = "getUnlock"
      /\ \A u \in Threads \ {t} : pc'[u] = pc[u]
  <2>1. "getUnlock" \in Points /\ TypeOK
    BY DEF Points, Inside, BufferInv
  <2> QED BY <1>1, <2>1, Moves
<1>4. Has(t)
  BY <1>2 DEF Has, Inside
<1>5. n' \in Nat
  <2>1. t \in FullUnits
    BY <1>2 DEF FullUnits
  <2>2. n > 0 /\ n \in Nat
    BY <2>1, Room DEF BufferInv, TypeOK
  <2> QED BY <1>1, <2>2
<1>6. TypeOK'
  BY <1>1, <1>3, <1>5 DEF BufferInv, TypeOK
<1>7. WaitInv'
  BY <1>1, <1>2, <1>3, WaitsKept
<1>8. LockInv'
  BY <1>1, <1>2, <1>3, LockKept DEF Inside
<1>9. UnitInv'
  <2>1. t \in Threads \ EmptyUnits /\ EmptyUnits' = EmptyUnits \union {t}
    BY <1>1, <1>2, <1>3 DEF EmptyUnits
  <2>2. t \in FullUnits /\ FullUnits' = FullUnits \ {t}
    BY <1>1, <1>2, <1>3 DEF FullUnits
  <2>3. /\ Cardinality(EmptyUnits') = Cardinality(EmptyUnits) + 1
        /\ Cardinality(EmptyUnits) \in Nat
    BY <2>1, UnitTypes, CountAdd, CountType
  <2>4. /\ Cardinality(FullUnits') = Cardinality(FullUnits) - 1
        /\ Cardinality(FullUnits) \in Nat
    BY <2>2, UnitTypes, CountRemove, CountType
  <2>5. n \in Nat /\ nEmpty.count \in Nat /\ nFull.count \in Nat
    BY DEF BufferInv, TypeOK, Sem
  <2>6. nEmpty'.count + Cardinality(EmptyUnits') + n' = N
    BY <1>1, <2>3, <2>5 DEF BufferInv, UnitInv
  <2>7. nFull'.count + Cardinality(FullUnits') = n'
    BY <1>1, <2>4, <2>5 DEF BufferInv, UnitInv
  <2> QED BY <2>6, <2>7 DEF UnitInv
<1>10. StoreInv'
  <2>1. \A u \in Threads \ {t} : pc[u] # "inc"
    BY <1>4, Alone
  <2> QED BY <1>3, <2>1 DEF StoreInv
<1> QED BY <1>6, <1>7, <1>8, <1>9, <1>10 DEF BufferInv

-----------------------------------------------------------------------------
LEMMA InitBuffer == Init => BufferInv
<1> SUFFICES ASSUME Init PROVE BufferInv
  OBVIOUS
<1>1. /\ \A k \in Nat : /\ Semaphore(k) \in Sem /\ Semaphore(k).count = k
                        /\ Orderly(Semaphore(k)) /\ \A u : ~Waits(Semaphore(k), u)
  BY NewFacts DEF Sem
<1>2. /\ nEmpty = Semaphore(N) /\ nFull = Semaphore(0) /\ lock = Semaphore(1) /\ N \in Nat
      /\ head = 0 /\ n = 0
  BY BufferAssumption DEF Init
<1>3. \A t \in Threads : pc[t] = "idle"
  BY DEF Init
<1>4. TypeOK
  BY <1>1, <1>2, BufferAssumption DEF Init, TypeOK, Points
<1>5. WaitInv
  BY <1>1, <1>2 DEF WaitInv
<1>6. LockInv
  BY <1>1, <1>2, <1>3 DEF LockInv, Has, Inside
<1>7. UnitInv
  <2>1. EmptyUnits = {} /\ FullUnits = {}
    BY <1>3 DEF EmptyUnits, FullUnits
  <2>2. Cardinality({}) = 0
    BY FS_EmptySet
  <2> QED BY <1>1, <1>2, <2>1, <2>2 DEF UnitInv
<1>8. StoreInv
  BY <1>3 DEF StoreInv
<1> QED BY <1>4, <1>5, <1>6, <1>7, <1>8 DEF BufferInv

LEMMA NextBuffer == BufferInv /\ [Next]_vars => BufferInv'
<1> SUFFICES ASSUME BufferInv, [Next]_vars PROVE BufferInv'
  OBVIOUS
<1>1. ASSUME NEW t \in Threads, Rest(t) PROVE BufferInv'
  BY <1>1, LockKeeps, UnlockKeeps, PutStoreKeeps, PutIncKeeps, PutUpKeeps,
     GetLoadKeeps, GetAdvanceKeeps, GetDecKeeps, GetUpKeeps DEF Rest
<1>2. CASE UNCHANGED vars
  BY <1>2 DEF vars, BufferInv, TypeOK, WaitInv, LockInv, UnitInv, StoreInv, Has,
              EmptyUnits, FullUnits, Slot
<1>3. CASE Next
  BY <1>1, <1>3, GetDownKeeps, PutDownKeeps DEF Next
<1> QED BY <1>2, <1>3

(* At every moment the units of nEmpty and nFull, in the semaphores and    *)
(* with the threads inside put() and get(), add up to the free and the     *)
(* filled slots of the ring; one thread at most is between down and up of  *)
(* `lock'; and what a put has stored is there when it counts it (bb.h).    *)
THEOREM BufferCorrect == Spec => []BufferInv
BY InitBuffer, NextBuffer, PTL DEF Spec

-----------------------------------------------------------------------------
(* The refinement.  k items of a ring from slot h on, and what the ring    *)
(* holds according to who is inside.                                       *)
Window(d, h, k) == [i \in 1..k |-> d[(h + i - 1) % N]]
Ops == [t \in Threads |-> Phase(t)]

LEMMA Wraps ==
  ASSUME NEW k \in Nat
  PROVE  /\ k % N \in 0..(N - 1)
         /\ k < N => k % N = k
         /\ N <= k /\ k < 2 * N => k % N = k - N
BY BufferAssumption

(* Slots of the window: within the ring, and other than the one behind it. *)
LEMMA WindowSlots ==
  ASSUME NEW h \in 0..(N - 1), NEW k \in Nat, k <= N, NEW i \in 1..k
  PROVE  /\ (h + i - 1) % N \in 0..(N - 1)
         /\ k < N => (h + i - 1) % N # (h + k) % N
<1>1. h + i - 1 \in Nat /\ h + k \in Nat /\ N \in Nat /\ h \in Nat /\ i \in Nat
  BY BufferAssumption
<1>2. (h + i - 1) % N \in 0..(N - 1)
  BY <1>1, Wraps
<1>3. ASSUME k < N PROVE (h + i - 1) % N # (h + k) % N
  <2>1. /\ h < N /\ 1 <= i /\ i <= k /\ k \in Nat
        /\ h + i - 1 < 2 * N /\ h + k < 2 * N
    BY <1>1, <1>3
  <2>2. /\ h + i - 1 < N => (h + i - 1) % N = h + i - 1
        /\ N <= h + i - 1 => (h + i - 1) % N = h + i - 1 - N
    BY <1>1, <2>1, Wraps
  <2>3. /\ h + k < N => (h + k) % N = h + k
        /\ N <= h + k => (h + k) % N = h + k - N
    BY <1>1, <2>1, Wraps
  <2>4. h + i - 1 < h + k /\ h + k - N < h + i - 1
    BY <1>1, <1>3, <2>1
  <2>5. CASE h + k < N
    BY <1>1, <2>2, <2>3, <2>4, <2>5
  <2>6. CASE N <= h + k /\ h + i - 1 < N
    BY <1>1, <2>2, <2>3, <2>4, <2>6
  <2>7. CASE N <= h + k /\ N <= h + i - 1
    BY <1>1, <2>2, <2>3, <2>4, <2>7
  <2> QED BY <1>1, <2>5, <2>6, <2>7
<1> QED BY <1>2, <1>3

(* A window that starts one slot further.                                  *)
LEMMA NextSlot ==
  ASSUME NEW h \in 0..(N - 1), NEW i \in Nat \ {0}, i <= N
  PROVE  (((h + 1) % N) + i - 1) % N = (h + 1 + i - 1) % N
<1>1. N \in Nat \ {0} /\ h \in Nat
  BY BufferAssumption
<1>2. CASE h + 1 < N
  <2>1. (h + 1) % N = h + 1
    BY <1>1, <1>2, Wraps
  <2> QED BY <2>1
<1>3. CASE h + 1 = N
  <2>1. (h + 1) % N = 0
    BY <1>1, <1>3, Wraps
  <2>2. CASE i < N
    <3>1. (h + 1 + i - 1) % N = h + 1 + i - 1 - N
      BY <1>1, <1>3, <2>2, Wraps
    <3>2. (0 + i - 1) % N = i - 1
      BY <1>1, <2>2, Wraps
    <3> QED BY <1>1, <1>3, <2>1, <3>1, <3>2
  <2>3. CASE i = N
    <3>1. (h + 1 + i - 1) % N = h + 1 + i - 1 - N
      BY <1>1, <1>3, <2>3, Wraps
    <3>2. (0 + i - 1) % N = i - 1
      BY <1>1, <2>3, Wraps
    <3> QED BY <1>1, <1>3, <2>1, <3>1, <3>2
  <2> QED BY <1>1, <2>2, <2>3
<1> QED BY <1>1, <1>2, <1>3

LEMMA ContentsQuiet ==
  ASSUME \A u \in Threads : pc[u] \notin {"advance", "dec"}
  PROVE  Contents = Window(data, head, n)
BY DEF Contents, Somebody, Window

LEMMA ContentsAdvance ==
  ASSUME NEW t \in Threads, pc[t] = "advance"
  PROVE  Contents = Window(data, head + 1, n - 1)
BY DEF Contents, Somebody, Window

LEMMA ContentsDec ==
  ASSUME NEW t \in Threads, pc[t] = "dec", \A u \in Threads : pc[u] # "advance"
  PROVE  Contents = Window(data, head, n - 1)
BY DEF Contents, Somebody, Window

(* A step that leaves the ring alone, of a thread that is not fetching.    *)
LEMMA ContentsKept ==
  ASSUME UNCHANGED <<head, n, data>>, NEW t \in Threads,
         pc[t] \notin {"advance", "dec"}, pc'[t] \notin {"advance", "dec"},
         \A u \in Threads \ {t} : pc'[u] = pc[u]
  PROVE  Contents' = Contents
<1>1. /\ Somebody({"advance"})' <=> Somebody({"advance"})
      /\ Somebody({"advance", "dec"})' <=> Somebody({"advance", "dec"})
  BY DEF Somebody
<1> QED BY <1>1 DEF Contents

LEMMA OpMoves ==
  ASSUME NEW t \in Threads, \A u \in Threads \ {t} : pc'[u] = pc[u]
  PROVE  /\ Ops[t] = Phase(t) /\ Ops' = [Ops EXCEPT ![t] = Phase(t)']
         /\ Phase(t)' = Phase(t) => Ops' = Ops
BY DEF Ops, Phase

-----------------------------------------------------------------------------
(* Steps that are no steps of the queue.                                   *)
LEMMA StutterSteps ==
  ASSUME BufferInv, NEW t \in Threads,
         \/ PutLock(t) \/ PutStore(t) \/ PutUnlock(t)
         \/ GetLock(t) \/ GetAdvance(t) \/ GetDec(t) \/ GetUnlock(t)
  PROVE  Contents' = Contents /\ Ops' = Ops /\ item' = item
<1>0. BufferInv' /\ TypeOK /\ n \in Nat /\ head \in 0..(N - 1) /\ N \in Nat \ {0}
  BY LockKeeps, UnlockKeeps, PutStoreKeeps, GetAdvanceKeeps, GetDecKeeps, BufferAssumption
     DEF BufferInv, TypeOK
<1>1. CASE PutLock(t) \/ PutUnlock(t) \/ GetLock(t) \/ GetUnlock(t)
  <2>1. PICK p \in {"put", "get", "putUnlock", "getUnlock"},
             q \in {"store", "load", "putUp", "getUp"} :
          /\ <<p, q>> \in {<<"put", "store">>, <<"get", "load">>,
                           <<"putUnlock", "putUp">>, <<"getUnlock", "getUp">>}
          /\ pc[t] = p /\ Goto(t, q) /\ UNCHANGED <<head, n, data, item>>
    BY <1>1 DEF PutLock, PutUnlock, GetLock, GetUnlock, At, ring
  <2>2. pc'[t] = q /\ \A u \in Threads \ {t} : pc'[u] = pc[u]
    BY <1>0, <2>1, Moves DEF Points, Inside
  <2>3. Contents' = Contents
    BY <2>1, <2>2, ContentsKept
  <2>4. Phase(t)' = Phase(t)
    BY <2>1, <2>2 DEF Phase
  <2> QED BY <2>1, <2>2, <2>3, <2>4, OpMoves
<1>2. CASE PutStore(t)
  <2>1. /\ pc[t] = "store" /\ ~Waits(nEmpty, t) /\ ~Waits(lock, t) /\ Goto(t, "inc")
        /\ data' = [data EXCEPT ![Slot] = item[t]] /\ UNCHANGED <<head, n, item>>
    BY <1>2 DEF PutStore, At
  <2>2. pc'[t] = "inc" /\ \A u \in Threads \ {t} : pc'[u] = pc[u]
    BY <1>0, <2>1, Moves DEF Points, Inside
  <2>3. \A u \in Threads : /\ pc[u] \notin {"advance", "dec"}
                           /\ pc'[u] \notin {"advance", "dec"}
    BY <2>1, <2>2, Alone DEF Has, Inside
  <2>4. Contents = Window(data, head, n)
    BY <2>3, ContentsQuiet
  <2>5. Contents' = Window(data', head', n')
    BY <2>3 DEF Contents, Somebody, Window
  <2>6. n < N /\ n <= N
    BY <2>1, Room DEF EmptyUnits
  <2>7. \A i \in 1..n : data'[(head + i - 1) % N] = data[(head + i - 1) % N]
    <3> SUFFICES ASSUME NEW i \in 1..n
                 PROVE  data'[(head + i - 1) % N] = data[(head + i - 1) % N]
      OBVIOUS
    <3>1. (head + i - 1) % N \in 0..(N - 1) /\ (head + i - 1) % N # Slot
      BY <1>0, <2>6, WindowSlots DEF Slot
    <3>2. \A j \in 0..(N - 1) : j # Slot => data'[j] = data[j]
      BY <1>0, <2>1 DEF TypeOK
    <3> QED BY <3>1, <3>2
  <2>8. Contents' = Contents
    BY <2>1, <2>4, <2>5, <2>7 DEF Window
  <2>9. Phase(t)' = Phase(t)
    BY <2>1, <2>2 DEF Phase
  <2> QED BY <2>1, <2>2, <2>8, <2>9, OpMoves
<1>3. CASE GetAdvance(t)
  <2>1. /\ pc[t] = "advance" /\ ~Waits(nFull, t) /\ ~Waits(lock, t) /\ Goto(t, "dec")
        /\ head' = (head + 1) % N /\ UNCHANGED <<n, data, item>>
    BY <1>3 DEF GetAdvance, At
  <2>2. pc'[t] = "dec" /\ \A u \in Threads \ {t} : pc'[u] = pc[u]
    BY <1>0, <2>1, Moves DEF Points, Inside
  <2>3. \A u \in Threads : pc'[u] # "advance"
    BY <2>1, <2>2, Alone DEF Has, Inside
  <2>4. Contents = Window(data, head + 1, n - 1)
    BY <2>1, ContentsAdvance
  <2>5. Contents' = Window(data', head', n' - 1)
    BY <2>2, <2>3 DEF Contents, Somebody, Window
  <2>6. n <= N
    BY Room
  <2>7. \A i \in 1..(n - 1) : (head' + i - 1) % N = (head + 1 + i - 1) % N
    BY <1>0, <2>1, <2>6, NextSlot
  <2>8. Contents' = Contents
    BY <2>1, <2>4, <2>5, <2>7 DEF Window
  <2>9. Phase(t)' = Phase(t)
    BY <2>1, <2>2 DEF Phase
  <2> QED BY <2>1, <2>2, <2>8, <2>9, OpMoves
<1>4. CASE GetDec(t)
  <2>1. /\ pc[t] = "dec" /\ ~Waits(nFull, t) /\ ~Waits(lock, t) /\ Goto(t, "getUnlock")
        /\ n' = n - 1 /\ UNCHANGED <<head, data, item>>
    BY <1>4 DEF GetDec, At
  <2>2. pc'[t] = "getUnlock" /\ \A u \in Threads \ {t} : pc'[u] = pc[u]
    BY <1>0, <2>1, Moves DEF Points, Inside
  <2>3. \A u \in Threads : pc[u] # "advance" /\ pc'[u] \notin {"advance", "dec"}
    BY <2>1, <2>2, Alone DEF Has, Inside
  <2>4. Contents = Window(data, head, n - 1)
    BY <2>1, <2>3, ContentsDec
  <2>5. Contents' = Window(data', head', n')
    BY <2>3 DEF Contents, Somebody, Window
  <2>6. Contents' = Contents
    BY <2>1, <2>4, <2>5 DEF Window
  <2>7. Phase(t)' = Phase(t)
    BY <2>1, <2>2 DEF Phase
  <2> QED BY <2>1, <2>2, <2>6, <2>7, OpMoves
<1> QED BY <1>1, <1>2, <1>3, <1>4

(* put() takes effect when it counts its item.                             *)
LEMMA PutSteps ==
  ASSUME BufferInv, NEW t \in Threads, PutInc(t)
  PROVE  Queue!Put(t)
<1>0. TypeOK /\ n \in Nat /\ head \in 0..(N - 1) /\ N \in Nat \ {0}
  BY BufferAssumption DEF BufferInv, TypeOK
<1>1. /\ pc[t] = "inc" /\ ~Waits(nEmpty, t) /\ ~Waits(lock, t) /\ Goto(t, "putUnlock")
      /\ n' = n + 1 /\ UNCHANGED <<head, data, item>>
  BY DEF PutInc, At
<1>2. pc'[t] = "putUnlock" /\ \A u \in Threads \ {t} : pc'[u] = pc[u]
  BY <1>0, <1>1, Moves DEF Points, Inside
<1>3. \A u \in Threads : /\ pc[u] \notin {"advance", "dec"}
                         /\ pc'[u] \notin {"advance", "dec"}
  BY <1>1, <1>2, Alone DEF Has, Inside
<1>4. Contents = Window(data, head, n)
  BY <1>3, ContentsQuiet
<1>5. Contents' = Window(data, head, n + 1)
  BY <1>1, <1>3 DEF Contents, Somebody, Window
<1>6. n < N
  BY <1>1, Room DEF EmptyUnits
<1>7. data[(head + (n + 1) - 1) % N] = item[t]
  <2>1. head + (n + 1) - 1 = head + n
    BY <1>0
  <2> QED BY <1>1, <2>1 DEF BufferInv, StoreInv, Slot
<1>8. Len(Contents) = n /\ Contents' = Append(Contents, item[t])
  <2>1. \A f : \A k \in Nat : [i \in 1..(k + 1) |-> f[i]] = Append([i \in 1..k |-> f[i]], f[k + 1])
    OBVIOUS
  <2>2. DEFINE f == [i \in 1..(n + 1) |-> data[(head + i - 1) % N]]
  <2>3. /\ Contents = [i \in 1..n |-> f[i]] /\ Contents' = [i \in 1..(n + 1) |-> f[i]]
        /\ f[n + 1] = item[t]
    BY <1>0, <1>4, <1>5, <1>7 DEF Window
  <2>4. Len(Contents) = n
    BY <1>0, <1>4 DEF Window
  <2> HIDE DEF f
  <2> QED BY <1>0, <2>1, <2>3, <2>4
<1>9. /\ Ops[t] = "put" /\ Ops' = [Ops EXCEPT ![t] = "done"]
  BY <1>1, <1>2, OpMoves DEF Phase
<1> QED BY <1>1, <1>6, <1>8, <1>9 DEF Queue!Put, Ops

(* get() takes effect when it loads its item.                              *)
LEMMA GetSteps ==
  ASSUME BufferInv, NEW t \in Threads, GetLoad(t)
  PROVE  Queue!Get(t)
<1>0. TypeOK /\ n \in Nat /\ head \in 0..(N - 1) /\ N \in Nat \ {0}
  BY BufferAssumption DEF BufferInv, TypeOK
<1>1. /\ pc[t] = "load" /\ ~Waits(nFull, t) /\ ~Waits(lock, t) /\ Goto(t, "advance")
      /\ item' = [item EXCEPT ![t] = data[head]] /\ UNCHANGED <<head, data, n>>
  BY DEF GetLoad, At, ring
<1>2. pc'[t] = "advance" /\ \A u \in Threads \ {t} : pc'[u] = pc[u]
  BY <1>0, <1>1, Moves DEF Points, Inside
<1>3. \A u \in Threads : pc[u] \notin {"advance", "dec"}
  BY <1>1, Alone DEF Has, Inside
<1>4. Contents = Window(data, head, n)
  BY <1>3, ContentsQuiet
<1>5. Contents' = Window(data, head + 1, n - 1)
  BY <1>1, <1>2 DEF Contents, Somebody, Window
<1>6. n > 0
  BY <1>1, Room DEF FullUnits
<1>7. /\ Contents # <<>> /\ Head(Contents) = data[head] /\ Contents' = Tail(Contents)
  <2>1. \A f : \A k \in Nat \ {0} :
          LET s == [i \in 1..k |-> f[i]] IN
          s # <<>> /\ Head(s) = f[1] /\ Tail(s) = [i \in 1..(k - 1) |-> f[i + 1]]
    OBVIOUS
  <2>2. DEFINE f == [i \in 1..n |-> data[(head + i - 1) % N]]
  <2>3. Contents = [i \in 1..n |-> f[i]]
    BY <1>4 DEF Window
  <2>4. f[1] = data[head]
    <3>1. (head + 1 - 1) % N = head
      BY <1>0, Wraps
    <3> QED BY <1>0, <1>6, <3>1
  <2>5. Contents' = [i \in 1..(n - 1) |-> f[i + 1]]
    <3>1. \A i \in 1..(n - 1) : f[i + 1] = data[(head + 1 + i - 1) % N]
      <4>1. \A i \in 1..(n - 1) : i + 1 \in 1..n /\ head + (i + 1) - 1 = head + 1 + i - 1
        BY <1>0
      <4> QED BY <4>1
    <3> QED BY <1>5, <3>1 DEF Window
  <2> HIDE DEF f
  <2> QED BY <1>0, <1>6, <2>1, <2>3, <2>4, <2>5
<1>8. /\ Ops[t] = "get" /\ Ops' = [Ops EXCEPT ![t] = "done"]
  BY <1>1, <1>2, OpMoves DEF Phase
<1> QED BY <1>1, <1>7, <1>8 DEF Queue!Get, Ops

(* Calls and returns.                                                      *)
LEMMA CallSteps ==
  ASSUME BufferInv, NEW t \in Threads
  PROVE  /\ \A v \in Items : PutDown(t, v) => Queue!CallPut(t, v)
         /\ GetDown(t) => Queue!CallGet(t)
         /\ PutUp(t) \/ GetUp(t) => Queue!Return(t)
<1>0. TypeOK
  BY DEF BufferInv
<1>1. ASSUME NEW v \in Items, PutDown(t, v) PROVE Queue!CallPut(t, v)
  <2>1. /\ pc[t] = "idle" /\ Goto(t, "put") /\ item' = [item EXCEPT ![t] = v]
        /\ UNCHANGED <<head, n, data>>
    BY <1>1 DEF PutDown, At, ring
  <2>2. pc'[t] = "put" /\ \A u \in Threads \ {t} : pc'[u] = pc[u]
    BY <1>0, <2>1, Moves DEF Points, Inside
  <2>3. Contents' = Contents
    BY <2>1, <2>2, ContentsKept
  <2>4. Ops[t] = "idle" /\ Ops' = [Ops EXCEPT ![t] = "put"]
    BY <2>1, <2>2, OpMoves DEF Phase
  <2> QED BY <2>1, <2>3, <2>4 DEF Queue!CallPut, Ops
<1>2. ASSUME GetDown(t) PROVE Queue!CallGet(t)
  <2>1. /\ pc[t] = "idle" /\ Goto(t, "get") /\ UNCHANGED <<head, n, data, item>>
    BY <1>2 DEF GetDown, At, ring
  <2>2. pc'[t] = "get" /\ \A u \in Threads \ {t} : pc'[u] = pc[u]
    BY <1>0, <2>1, Moves DEF Points, Inside
  <2>3. Contents' = Contents
    BY <2>1, <2>2, ContentsKept
  <2>4. Ops[t] = "idle" /\ Ops' = [Ops EXCEPT ![t] = "get"]
    BY <2>1, <2>2, OpMoves DEF Phase
  <2> QED BY <2>1, <2>3, <2>4 DEF Queue!CallGet, Ops
<1>3. ASSUME PutUp(t) \/ GetUp(t) PROVE Queue!Return(t)
  <2>1. PICK p \in {"putUp", "getUp"} :
          pc[t] = p /\ Goto(t, "idle") /\ UNCHANGED <<head, n, data, item>>
    BY <1>3 DEF PutUp, GetUp, At, ring
  <2>2. pc'[t] = "idle" /\ \A u \in Threads \ {t} : pc'[u] = pc[u]
    BY <1>0, <2>1, Moves DEF Points
  <2>3. Contents' = Contents
    BY <2>1, <2>2, ContentsKept
  <2>4. Ops[t] = "done" /\ Ops' = [Ops EXCEPT ![t] = "idle"]
    BY <2>1, <2>2, OpMoves DEF Phase
  <2> QED BY <2>1, <2>3, <2>4 DEF Queue!Return, Ops
<1> QED BY <1>1, <1>2, <1>3

LEMMA InitMaps == Init => Queue!Init
<1> SUFFICES ASSUME Init PROVE Queue!Init
  OBVIOUS
<1>1. \A t \in Threads : pc[t] = "idle"
  BY DEF Init
<1>2. Contents = <<>>
  <2>1. Contents = Window(data, head, n)
    BY <1>1, ContentsQuiet
  <2> QED BY <2>1 DEF Window, Init
<1>3. Ops = [t \in Threads |-> "idle"]
  BY <1>1 DEF Ops, Phase
<1>4. item \in [Threads -> Items]
  BY DEF Init
<1> QED BY <1>2, <1>3, <1>4 DEF Queue!Init, Ops

LEMMA StepMaps == BufferInv /\ [Next]_vars => [Queue!Next]_Queue!vars
<1> SUFFICES ASSUME BufferInv, [Next]_vars PROVE [Queue!Next]_Queue!vars
  OBVIOUS
<1>1. ASSUME NEW t \in Threads, Contents' = Contents, Ops' = Ops, item' = item
      PROVE  UNCHANGED Queue!vars
  BY <1>1 DEF Queue!vars, Ops
<1>2. CASE UNCHANGED vars
  BY <1>2 DEF vars, Queue!vars, Contents, Somebody, Phase
<1>3. ASSUME NEW t \in Threads, Rest(t) PROVE [Queue!Next]_Queue!vars
  <2>1. CASE PutInc(t)
    BY <2>1, PutSteps DEF Queue!Next
  <2>2. CASE GetLoad(t)
    BY <2>2, GetSteps DEF Queue!Next
  <2>3. CASE PutUp(t) \/ GetUp(t)
    BY <2>3, CallSteps DEF Queue!Next
  <2> QED BY <1>1, <1>3, <2>1, <2>2, <2>3, StutterSteps DEF Rest
<1>4. ASSUME NEW t \in Threads, GetDown(t) PROVE Queue!Next
  BY <1>4, CallSteps DEF Queue!Next
<1>5. ASSUME NEW t \in Threads, NEW v \in Items, PutDown(t, v) PROVE Queue!Next
  BY <1>5, CallSteps DEF Queue!Next
<1>6. CASE Next
  BY <1>3, <1>4, <1>5, <1>6 DEF Next
<1> QED BY <1>2, <1>6

(* BoundedBuffer, with any number of threads inside put() and get(),       *)
(* implements a FIFO queue of at most N items: each call takes effect at   *)
(* one moment, a put when it counts its item and a get when it loads its   *)
(* own, and every other step is invisible (bb.h).                          *)
THEOREM BufferImplementsFIFO == Spec => ImplementsFIFO
<1>1. Init => Queue!Init
  BY InitMaps
<1>2. BufferInv /\ [Next]_vars => [Queue!Next]_Queue!vars
  BY StepMaps
<1>3. Spec => []BufferInv
  BY BufferCorrect
<1> QED BY <1>1, <1>2, <1>3, PTL DEF Spec, ImplementsFIFO, Queue!Spec

=============================================================================
