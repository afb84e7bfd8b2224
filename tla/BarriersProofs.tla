--------------------------- MODULE BarriersProofs ---------------------------
(***************************************************************************)
(* Proofs about Barriers, for any number of workers, rounds and stray      *)
(* notifications: BarriersInv is inductive, and workers stay together.     *)
(***************************************************************************)
EXTENDS Barriers, FiniteSetTheorems, SequenceTheorems, TLAPS

-----------------------------------------------------------------------------
(* What down() and up() of a Semaphore do to its count and to who waits.   *)
LEMMA SeqFacts ==
  ASSUME NEW S, NEW s \in Seq(S)
  PROVE  /\ Len(s) \in Nat /\ DOMAIN s = 1..Len(s)
         /\ \A i \in 1..Len(s) : s[i] \in S
         /\ s = <<>> <=> Len(s) = 0
<1>1. Len(s) \in Nat /\ DOMAIN s = 1..Len(s)
  BY LenProperties
<1>2. s = <<>> => Len(s) = 0
  BY EmptySeq
<1>3. s # <<>> => Len(s) # 0
  BY EmptySeq
<1>4. \A i \in 1..Len(s) : s[i] \in S
  BY ElementOfSeq
<1> QED BY <1>1, <1>2, <1>3, <1>4

(* A semaphore that has just been made.                                    *)
LEMMA NewFacts ==
  ASSUME NEW T, NEW k \in Nat
  PROVE  LET s == Semaphore(k) IN
         /\ s \in [count : Nat, waiting : Seq(T)] /\ s.count = k
         /\ Orderly(s) /\ \A t : ~Waits(s, t)
<1>1. <<>> \in Seq(T) /\ DOMAIN <<>> = {}
  BY EmptySeq
<1> QED BY <1>1 DEF Semaphore, Orderly, Waits

(* down() takes a unit if there is one; if not, its caller waits.          *)
LEMMA DownFacts ==
  ASSUME NEW T, NEW s \in [count : Nat, waiting : Seq(T)], NEW t \in T, Orderly(s),
         ~Waits(s, t)
  PROVE  LET d == Down(s, t) IN
         /\ d \in [count : Nat, waiting : Seq(T)]
         /\ Orderly(d)
         /\ s.count > 0 => /\ d.count = s.count - 1
                           /\ \A u : Waits(d, u) <=> Waits(s, u)
         /\ s.count = 0 => /\ d.count = 0
                           /\ \A u : Waits(d, u) <=> Waits(s, u) \/ u = t
<1> DEFINE d == Down(s, t)  q == s.waiting
<1>0. s.count \in Nat /\ q \in Seq(T) /\ Len(q) \in Nat /\ DOMAIN q = 1..Len(q)
      /\ s = [count |-> s.count, waiting |-> q]
  BY SeqFacts
<1>1. CASE s.count > 0
  <2>1. d.count = s.count - 1 /\ d.waiting = q /\ d = [count |-> s.count - 1, waiting |-> q]
    BY <1>0, <1>1 DEF Down
  <2>2. q = <<>>
    BY <1>0, <1>1 DEF Orderly
  <2> QED BY <1>0, <1>1, <2>1, <2>2 DEF Orderly, Waits
<1>2. CASE s.count = 0
  <2>0. d = [s EXCEPT !.waiting = Append(@, t)]
    BY <1>0, <1>2 DEF Down
  <2>1. d.count = 0 /\ d.waiting = Append(q, t) /\ d = [count |-> 0, waiting |-> Append(q, t)]
    <3> DEFINE a == Append(q, t)
    <3>1. d = [s EXCEPT !.waiting = a]
      BY <2>0
    <3> HIDE DEF a, d
    <3>2. d.count = 0 /\ d.waiting = a /\ d = [count |-> 0, waiting |-> a]
      BY <1>0, <1>2, <3>1
    <3> QED BY <3>2 DEF a
  <2>2. /\ Append(q, t) \in Seq(T) /\ Len(Append(q, t)) = Len(q) + 1
        /\ \A i \in 1..Len(q) : Append(q, t)[i] = q[i]
        /\ Append(q, t)[Len(q) + 1] = t
    BY <1>0, AppendProperties
  <2>3. DOMAIN d.waiting = 1..(Len(q) + 1)
    BY <2>1, <2>2, SeqFacts
  <2>4. /\ \A i \in 1..(Len(q) + 1) : i \in 1..Len(q) \/ i = Len(q) + 1
        /\ 1..Len(q) \subseteq 1..(Len(q) + 1) /\ Len(q) + 1 \in 1..(Len(q) + 1)
    BY <1>0
  <2>5. \A u : Waits(d, u) <=> Waits(s, u) \/ u = t
    BY <1>0, <2>1, <2>2, <2>3, <2>4 DEF Waits
  <2>6. Orderly(d)
    BY <1>0, <2>1, <2>2, <2>3, <2>4 DEF Waits, Orderly
  <2>7. d \in [count : Nat, waiting : Seq(T)]
    BY <2>1, <2>2
  <2> HIDE DEF d
  <2>8. ~(s.count > 0)
    BY <1>2
  <2> QED BY <1>2, <2>1, <2>5, <2>6, <2>7, <2>8 DEF d
<1> QED BY <1>0, <1>1, <1>2

(* up() adds a unit if nobody waits; if not, who waits longest gets it.    *)
LEMMA UpFacts ==
  ASSUME NEW T, NEW s \in [count : Nat, waiting : Seq(T)], Orderly(s)
  PROVE  LET d == Up(s) IN
         /\ d \in [count : Nat, waiting : Seq(T)]
         /\ Orderly(d)
         /\ \/ /\ \A u : ~Waits(s, u) /\ ~Waits(d, u)
               /\ d.count = s.count + 1
            \/ /\ s.count = 0 /\ d.count = 0
               /\ \E h \in T : /\ Waits(s, h)
                                /\ \A u : Waits(d, u) <=> Waits(s, u) /\ u # h
<1> DEFINE d == Up(s)  q == s.waiting
<1>0. s.count \in Nat /\ q \in Seq(T) /\ Len(q) \in Nat /\ DOMAIN q = 1..Len(q)
      /\ s = [count |-> s.count, waiting |-> q] /\ (q = <<>> <=> Len(q) = 0)
      /\ \A i \in 1..Len(q) : q[i] \in T
  BY SeqFacts
<1>1. CASE q = <<>>
  <2>1. d.count = s.count + 1 /\ d.waiting = q /\ d = [count |-> s.count + 1, waiting |-> q]
    BY <1>0, <1>1 DEF Up
  <2>2. \A u : ~Waits(s, u) /\ ~Waits(d, u)
    BY <1>0, <1>1, <2>1 DEF Waits
  <2>3. Orderly(d)
    BY <1>0, <1>1, <2>1 DEF Orderly
  <2> QED BY <1>0, <2>1, <2>2, <2>3
<1>2. CASE q # <<>>
  <2>0. s.count = 0
    BY <1>2 DEF Orderly
  <2>1. d.count = 0 /\ d.waiting = Tail(q) /\ d = [count |-> 0, waiting |-> Tail(q)]
    BY <1>0, <1>2, <2>0 DEF Up
  <2>2. /\ Tail(q) \in Seq(T) /\ Len(Tail(q)) = Len(q) - 1
        /\ \A i \in 1..(Len(q) - 1) : Tail(q)[i] = q[i + 1]
    BY <1>0, <1>2, HeadTailProperties
  <2>3. DOMAIN d.waiting = 1..(Len(q) - 1)
    BY <2>1, <2>2, SeqFacts
  <2>4. /\ 1 \in 1..Len(q)
        /\ \A i \in 1..(Len(q) - 1) : i + 1 \in 1..Len(q) /\ i + 1 # 1
        /\ \A i \in 1..Len(q) : i = 1 \/ (i - 1 \in 1..(Len(q) - 1) /\ (i - 1) + 1 = i)
    BY <1>0, <1>2
  <2>5. Orderly(d)
    <3>1. \A i, j \in 1..(Len(q) - 1) : Tail(q)[i] = Tail(q)[j] => i = j
      <4> SUFFICES ASSUME NEW i \in 1..(Len(q) - 1), NEW j \in 1..(Len(q) - 1),
                          Tail(q)[i] = Tail(q)[j]
                   PROVE  i = j
        OBVIOUS
      <4>1. q[i + 1] = q[j + 1]
        BY <2>2
      <4>2. i + 1 = j + 1
        BY <1>0, <2>4, <4>1 DEF Orderly
      <4> QED BY <1>0, <4>2
    <3> QED BY <2>1, <2>3, <3>1 DEF Orderly
  <2>6. \A u : Waits(d, u) <=> Waits(s, u) /\ u # q[1]
    <3> TAKE u
    <3>1. Waits(d, u) => Waits(s, u) /\ u # q[1]
      <4> SUFFICES ASSUME NEW i \in 1..(Len(q) - 1), Tail(q)[i] = u
                   PROVE  Waits(s, u) /\ u # q[1]
        BY <2>1, <2>3 DEF Waits
      <4>1. q[i + 1] = u
        BY <2>2
      <4>2. u = q[1] => i + 1 = 1
        BY <1>0, <2>4, <4>1 DEF Orderly
      <4> QED BY <1>0, <2>4, <4>1, <4>2 DEF Waits
    <3>2. Waits(s, u) /\ u # q[1] => Waits(d, u)
      <4> SUFFICES ASSUME NEW i \in 1..Len(q), q[i] = u, u # q[1]
                   PROVE  Waits(d, u)
        BY <1>0 DEF Waits
      <4>1. i - 1 \in 1..(Len(q) - 1) /\ Tail(q)[i - 1] = u
        BY <2>2, <2>4
      <4> QED BY <2>1, <2>3, <4>1 DEF Waits
    <3> QED BY <3>1, <3>2
  <2>7. q[1] \in T /\ Waits(s, q[1])
    BY <1>0, <2>4 DEF Waits
  <2> QED BY <2>0, <2>1, <2>2, <2>5, <2>6, <2>7
<1> QED BY <1>1, <1>2

-----------------------------------------------------------------------------
LEMMA WorkersFinite ==
  ASSUME NEW S \in SUBSET Workers
  PROVE  IsFiniteSet(S) /\ Cardinality(S) \in Nat /\ Cardinality({}) = 0
<1>1. IsFiniteSet(S)
  BY BarriersAssumption, FS_Subset
<1> QED BY <1>1, FS_CardinalityType, FS_EmptySet

LEMMA WorkersAdd ==
  ASSUME NEW S \in SUBSET Workers, NEW w \in Workers \ S
  PROVE  Cardinality(S \union {w}) = Cardinality(S) + 1
BY WorkersFinite, FS_AddElement

LEMMA WorkersRemove ==
  ASSUME NEW S \in SUBSET Workers, NEW w \in S
  PROVE  Cardinality(S \ {w}) = Cardinality(S) - 1 /\ Cardinality(S) > 0
<1>1. Cardinality(S \ {w}) = Cardinality(S) - 1 /\ Cardinality(S) \in Nat
  BY WorkersFinite, FS_RemoveElement
<1>2. Cardinality(S \ {w}) \in Nat
  BY WorkersFinite
<1> QED BY <1>1, <1>2

(* All but w: a set without w that counts one less than Workers.           *)
LEMMA AllButOne ==
  ASSUME NEW w \in Workers, NEW S \in SUBSET (Workers \ {w})
  PROVE  /\ Cardinality(S) \in Nat /\ N \in Nat /\ Cardinality(S) < N
         /\ Cardinality(S) + 1 = N => S = Workers \ {w}
<1>1. N \in Nat /\ Cardinality(S) \in Nat /\ IsFiniteSet(Workers \ {w})
  BY WorkersFinite DEF N
<1>2. Cardinality(Workers \ {w}) = N - 1
  BY WorkersRemove DEF N
<1>3. /\ Cardinality(S) <= Cardinality(Workers \ {w})
      /\ Cardinality(S) = Cardinality(Workers \ {w}) => S = Workers \ {w}
  BY <1>1, FS_Subset
<1> QED BY <1>1, <1>2, <1>3

(* w goes on, and the others stay where they are.                          *)
LEMMA Moves ==
  ASSUME TypeOK, NEW w \in Workers, NEW p \in Points, Goto(w, p)
  PROVE  /\ pc' \in [Workers -> Points] /\ pc'[w] = p
         /\ \A u \in Workers \ {w} : pc'[u] = pc[u]
BY DEF TypeOK, Goto

-----------------------------------------------------------------------------
(* The steps of Barrier leave ReusableBarrier alone, ...                   *)
LEMMA RoundKept ==
  ASSUME BarriersInv, NEW w \in Workers,
         UNCHANGED <<holder, count, epoch, notified, queue, mine, old, passed>>,
         pc[w] \in {"start", "down", "up"}, pc'[w] \in {"down", "up", "idle"},
         \A u \in Workers \ {w} : pc'[u] = pc[u]
  PROVE  HolderInv' /\ RoundInv' /\ NoMissedSignal' /\ SignalInv'
<1>1. HolderInv'
  BY DEF BarriersInv, HolderInv
<1>2. Counted' = Counted
  BY DEF Counted, InRound
<1>3. RoundInv'
  BY <1>2 DEF BarriersInv, RoundInv, InRound
<1>4. \A u \in Workers : Queued(u)' <=> Queued(u)
  BY DEF Queued
<1>5. NoMissedSignal' /\ SignalInv'
  BY <1>4 DEF BarriersInv, NoMissedSignal, SignalInv
<1> QED BY <1>1, <1>3, <1>5

(* ... and those of ReusableBarrier find the gate open.                    *)
LEMMA GateOpen ==
  ASSUME BarriersInv, NEW w \in Workers, pc[w] \notin {"start", "down", "up"}
  PROVE  left = 0
BY DEF BarriersInv, GateInv, TypeOK

LEMMA GateKept ==
  ASSUME BarriersInv, NEW w \in Workers, UNCHANGED <<left, sem>>,
         pc[w] \notin {"start", "down", "up"}, pc'[w] \notin {"start", "down", "up"},
         \A u \in Workers \ {w} : pc'[u] = pc[u]
  PROVE  GateInv'
<1>1. left = 0
  BY GateOpen
<1>2. {u \in Workers : pc[u] = "start"}' = {u \in Workers : pc[u] = "start"}
  OBVIOUS
<1>3. left' = Cardinality({u \in Workers : pc[u] = "start"}')
  BY <1>2 DEF BarriersInv, GateInv
<1>4. Orderly(sem') /\ \A u \in Workers : Waits(sem', u) => pc'[u] = "up"
  BY DEF BarriersInv, GateInv
<1> QED BY <1>1, <1>3, <1>4 DEF GateInv

LEMMA ArriveKeeps ==
  ASSUME BarriersInv, NEW w \in Workers, Arrive(w)
  PROVE  BarriersInv'
<1> DEFINE q == IF Opens(left') THEN "up" ELSE "down"
<1>1. /\ pc[w] = "start" /\ left > 0 /\ left' = left - 1 /\ Goto(w, q)
      /\ UNCHANGED <<sem, holder, count, epoch, notified, queue, mine, old, passed, stray>>
  BY DEF Arrive, cond
<1>2. q \in {"up", "down"} /\ (left' # 0 => q = "down")
  BY DEF Opens
<1> HIDE DEF q
<1>3. /\ pc' \in [Workers -> Points] /\ pc'[w] = q
      /\ \A u \in Workers \ {w} : pc'[u] = pc[u]
  <2>1. q \in Points /\ TypeOK
    BY <1>2 DEF Points, BarriersInv
  <2> QED BY <1>1, <2>1, Moves
<1>4. left \in Nat /\ left' \in Nat
  BY <1>1 DEF BarriersInv, TypeOK
<1>5. TypeOK'
  BY <1>1, <1>3, <1>4 DEF BarriersInv, TypeOK
<1>6. GateInv'
  <2> DEFINE S == {u \in Workers : pc[u] = "start"}
  <2>1. w \in S /\ S \in SUBSET Workers /\ S' = S \ {w}
    BY <1>1, <1>2, <1>3
  <2>2. Cardinality(S') = Cardinality(S) - 1
    BY <2>1, WorkersRemove
  <2>3. left' = Cardinality(S')
    BY <1>1, <2>2 DEF BarriersInv, GateInv
  <2>4. sem' = sem /\ Orderly(sem') /\ \A u \in Workers : Waits(sem', u) => pc'[u] = "up"
    BY <1>1, <1>3 DEF BarriersInv, GateInv
  <2>5. left' > 0 =>
          /\ sem'.count = 0
          /\ \A u \in Workers : pc'[u] \in {"start", "down"} \/ Waits(sem', u)
    BY <1>1, <1>2, <1>3, <1>4 DEF BarriersInv, GateInv
  <2> QED BY <2>3, <2>4, <2>5 DEF GateInv
<1>7. HolderInv' /\ RoundInv' /\ NoMissedSignal' /\ SignalInv'
  BY <1>1, <1>2, <1>3, RoundKept
<1> QED BY <1>5, <1>6, <1>7 DEF BarriersInv

LEMMA BarrierDownKeeps ==
  ASSUME BarriersInv, NEW w \in Workers, BarrierDown(w)
  PROVE  BarriersInv'
<1>1. /\ pc[w] = "down" /\ sem' = Down(sem, w) /\ Goto(w, "up")
      /\ UNCHANGED <<left, holder, count, epoch, notified, queue, mine, old, passed, stray>>
  BY DEF BarrierDown, cond
<1>2. /\ pc' \in [Workers -> Points] /\ pc'[w] = "up"
      /\ \A u \in Workers \ {w} : pc'[u] = pc[u]
  <2>1. "up" \in Points /\ TypeOK
    BY DEF Points, BarriersInv
  <2> QED BY <1>1, <2>1, Moves
<1>3. /\ sem \in [count : Nat, waiting : Seq(Workers)] /\ sem.count \in Nat
      /\ Orderly(sem) /\ ~Waits(sem, w)
  BY <1>1 DEF BarriersInv, TypeOK, GateInv
<1>4. /\ sem' \in [count : Nat, waiting : Seq(Workers)]
      /\ Orderly(sem')
      /\ sem.count > 0 => \A u : Waits(sem', u) <=> Waits(sem, u)
      /\ sem.count = 0 => /\ sem'.count = 0
                          /\ \A u : Waits(sem', u) <=> Waits(sem, u) \/ u = w
  BY <1>1, <1>3, DownFacts
<1>5. TypeOK'
  BY <1>1, <1>2, <1>4 DEF BarriersInv, TypeOK
<1>6. GateInv'
  <2>1. {u \in Workers : pc[u] = "start"}' = {u \in Workers : pc[u] = "start"}
    BY <1>1, <1>2
  <2>2. left' = Cardinality({u \in Workers : pc[u] = "start"}')
    BY <1>1, <2>1 DEF BarriersInv, GateInv
  <2>3. \A u \in Workers : Waits(sem', u) => pc'[u] = "up"
    BY <1>1, <1>2, <1>3, <1>4 DEF BarriersInv, GateInv
  <2>4. left' > 0 =>
          /\ sem'.count = 0
          /\ \A u \in Workers : pc'[u] \in {"start", "down"} \/ Waits(sem', u)
    BY <1>1, <1>2, <1>4 DEF BarriersInv, GateInv
  <2> QED BY <1>4, <2>2, <2>3, <2>4 DEF GateInv
<1>7. HolderInv' /\ RoundInv' /\ NoMissedSignal' /\ SignalInv'
  BY <1>1, <1>2, RoundKept
<1> QED BY <1>5, <1>6, <1>7 DEF BarriersInv

LEMMA BarrierUpKeeps ==
  ASSUME BarriersInv, NEW w \in Workers, BarrierUp(w)
  PROVE  BarriersInv'
<1>1. /\ pc[w] = "up" /\ ~Waits(sem, w) /\ sem' = Up(sem) /\ Goto(w, "idle")
      /\ UNCHANGED <<left, holder, count, epoch, notified, queue, mine, old, passed, stray>>
  BY DEF BarrierUp, cond
<1>2. /\ pc' \in [Workers -> Points] /\ pc'[w] = "idle"
      /\ \A u \in Workers \ {w} : pc'[u] = pc[u]
  <2>1. "idle" \in Points /\ TypeOK
    BY DEF Points, BarriersInv
  <2> QED BY <1>1, <2>1, Moves
<1>3. sem \in [count : Nat, waiting : Seq(Workers)] /\ Orderly(sem)
  BY DEF BarriersInv, TypeOK, GateInv
<1>4. /\ sem' \in [count : Nat, waiting : Seq(Workers)]
      /\ Orderly(sem')
      /\ \A u : Waits(sem', u) => Waits(sem, u)
  BY <1>1, <1>3, UpFacts
<1>5. TypeOK'
  BY <1>1, <1>2, <1>4 DEF BarriersInv, TypeOK
<1>6. GateInv'
  <2>1. {u \in Workers : pc[u] = "start"}' = {u \in Workers : pc[u] = "start"}
    BY <1>1, <1>2
  <2>2. left' = Cardinality({u \in Workers : pc[u] = "start"}')
    BY <1>1, <2>1 DEF BarriersInv, GateInv
  <2>3. \A u \in Workers : Waits(sem', u) => pc'[u] = "up"
    BY <1>1, <1>2, <1>4 DEF BarriersInv, GateInv
  <2>4. ~(left' > 0)
    BY <1>1 DEF BarriersInv, GateInv
  <2> QED BY <1>4, <2>2, <2>3, <2>4 DEF GateInv
<1>7. HolderInv' /\ RoundInv' /\ NoMissedSignal' /\ SignalInv'
  BY <1>1, <1>2, RoundKept
<1> QED BY <1>5, <1>6, <1>7 DEF BarriersInv

-----------------------------------------------------------------------------
(* The queue of the Condition: notify takes threads out, Block adds one.   *)
LEMMA QueueShorter ==
  ASSUME NEW q \in Seq(Workers), NEW k \in Nat
  PROVE  /\ SubSeq(q, k + 1, Len(q)) \in Seq(Workers)
         /\ \A i \in DOMAIN SubSeq(q, k + 1, Len(q)) :
              \E j \in DOMAIN q : SubSeq(q, k + 1, Len(q))[i] = q[j]
         /\ k = Len(q) => DOMAIN SubSeq(q, k + 1, Len(q)) = {}
<1> DEFINE s == SubSeq(q, k + 1, Len(q))
<1>1. Len(q) \in Nat /\ DOMAIN q = 1..Len(q)
  BY LenProperties
<1>2. s \in Seq(Workers)
  BY <1>1
<1>3. DOMAIN s = IF k + 1 <= Len(q) THEN 1..(Len(q) - k) ELSE {}
  BY <1>1
<1>4. \A i \in DOMAIN s : s[i] = q[k + i] /\ k + i \in DOMAIN q
  BY <1>1, <1>3
<1>5. k = Len(q) => DOMAIN s = {}
  BY <1>1, <1>3
<1> QED BY <1>2, <1>4, <1>5

LEMMA QueueLonger ==
  ASSUME NEW q \in Seq(Workers), NEW w \in Workers
  PROVE  /\ Append(q, w) \in Seq(Workers)
         /\ \A u : (\E i \in DOMAIN Append(q, w) : Append(q, w)[i] = u)
                     => u = w \/ \E i \in DOMAIN q : q[i] = u
<1>1. Len(q) \in Nat /\ DOMAIN q = 1..Len(q)
  BY LenProperties
<1>2. Append(q, w) \in Seq(Workers) /\ DOMAIN Append(q, w) = 1..(Len(q) + 1)
  BY <1>1
<1>3. \A i \in 1..(Len(q) + 1) : Append(q, w)[i] = IF i <= Len(q) THEN q[i] ELSE w
  BY <1>1
<1> QED BY <1>1, <1>2, <1>3

-----------------------------------------------------------------------------
(* w takes the lock: to enter, or at the end of wait().                    *)
LEMMA LockKeeps ==
  ASSUME BarriersInv, NEW w \in Workers, Lock(w) \/ Wake(w)
  PROVE  BarriersInv'
<1>1. PICK p \in {"idle", "wake"}, q \in {"enter", "test"} :
        /\ p = "idle" <=> q = "enter"
        /\ p = "wake" => ~Queued(w)
        /\ pc[w] = p /\ holder = None /\ holder' = w /\ Goto(w, q)
        /\ UNCHANGED <<left, sem, count, epoch, notified, queue, mine, old, passed, stray>>
  BY DEF Lock, Wake, first, cond, Queued
<1>2. /\ pc' \in [Workers -> Points] /\ pc'[w] = q
      /\ \A u \in Workers \ {w} : pc'[u] = pc[u]
  <2>1. q \in Points /\ TypeOK
    BY DEF Points, BarriersInv
  <2> QED BY <1>1, <2>1, Moves
<1>3. TypeOK'
  BY <1>1, <1>2 DEF BarriersInv, TypeOK
<1>4. GateInv'
  BY <1>1, <1>2, GateKept
<1>5. HolderInv'
  BY <1>1, <1>2, BarriersAssumption DEF BarriersInv, HolderInv
<1>6. RoundInv'
  <2>1. Counted' = Counted
    BY <1>1, <1>2 DEF Counted, InRound
  <2> QED BY <1>1, <1>2, <2>1 DEF BarriersInv, RoundInv, InRound
<1>7. \A u \in Workers : Queued(u)' <=> Queued(u)
  BY <1>1 DEF Queued
<1>8. NoMissedSignal' /\ SignalInv'
  BY <1>1, <1>2, <1>7 DEF BarriersInv, NoMissedSignal, SignalInv
<1> QED BY <1>3, <1>4, <1>5, <1>6, <1>8 DEF BarriersInv

(* The last of a round opens the next one and notifies all; nobody else    *)
(* is anywhere but in the round that ends.                                 *)
LEMMA EnterLast ==
  ASSUME BarriersInv, NEW w \in Workers, Enter(w), count = 1
  PROVE  BarriersInv'
<1>1. /\ pc[w] = "enter" /\ mine' = [mine EXCEPT ![w] = epoch]
      /\ epoch' = epoch + 1 /\ count' = N /\ notified' = notified + 1
      /\ queue' = SubSeq(queue, Len(queue) + 1, Len(queue)) /\ Goto(w, "leave")
      /\ UNCHANGED <<left, sem, holder, old, passed, stray>>
  BY DEF Enter, Notify, first, InitialCount
<1>2. /\ pc' \in [Workers -> Points] /\ pc'[w] = "leave"
      /\ \A u \in Workers \ {w} : pc'[u] = pc[u]
  <2>1. "leave" \in Points /\ TypeOK
    BY DEF Points, BarriersInv
  <2> QED BY <1>1, <2>1, Moves
<1>3. queue \in Seq(Workers) /\ Len(queue) \in Nat
  BY LenProperties DEF BarriersInv, TypeOK
<1>4. queue' \in Seq(Workers) /\ \A u : ~Queued(u)'
  BY <1>1, <1>3, QueueShorter DEF Queued
<1>5. TypeOK'
  <2>1. N \in Nat /\ epoch \in Nat /\ notified \in Nat
    BY WorkersFinite DEF N, BarriersInv, TypeOK
  <2>2. mine' \in [Workers -> Nat]
    BY <1>1, <2>1 DEF BarriersInv, TypeOK
  <2>3. /\ left' \in Nat /\ sem' \in [count : Nat, waiting : Seq(Workers)]
        /\ holder' \in Workers \union {None} /\ count' \in Nat /\ epoch' \in Nat
        /\ notified' \in Nat /\ old' \in [Workers -> Nat] /\ passed' \in [Workers -> Nat]
        /\ stray' \in Nat
    BY <1>1, <2>1 DEF BarriersInv, TypeOK
  <2> QED BY <1>2, <1>4, <2>2, <2>3 DEF TypeOK
<1>6. GateInv'
  BY <1>1, <1>2, GateKept
<1>7. HolderInv'
  BY <1>1, <1>2 DEF BarriersInv, HolderInv
<1>8. Counted = Workers \ {w}
  <2>1. Counted \in SUBSET (Workers \ {w})
    BY <1>1 DEF Counted, InRound
  <2>2. Cardinality(Counted) + 1 = N
    <3>1. Cardinality(Counted) \in Nat /\ N \in Nat
      BY <2>1, AllButOne
    <3> QED BY <3>1 DEF BarriersInv, RoundInv
  <2> QED BY <2>1, <2>2, AllButOne
<1>9. \A u \in Workers \ {w} : pc[u] \in InRound /\ mine[u] = epoch /\ mine'[u] = epoch
  <2>1. \A u \in Workers \ {w} : mine'[u] = mine[u]
    BY <1>1 DEF BarriersInv, TypeOK
  <2> QED BY <1>8, <2>1 DEF Counted
<1>10. RoundInv'
  <2>1. Counted' = {}
    <3>1. \A u \in Workers : mine'[u] # epoch' \/ pc'[u] \notin InRound
      BY <1>1, <1>2, <1>9 DEF BarriersInv, TypeOK, InRound
    <3> QED BY <3>1 DEF Counted
  <2>2. count' + Cardinality(Counted') = N
    <3>1. N \in Nat /\ Cardinality({}) = 0
      BY WorkersFinite DEF N
    <3> QED BY <1>1, <2>1, <3>1
  <2>3. passed'[w] + 1 = epoch'
    BY <1>1 DEF BarriersInv, RoundInv
  <2>4. \A u \in Workers \ {w} :
          pc'[u] \in InRound /\ passed'[u] = mine'[u] /\ mine'[u] + 1 = epoch'
    BY <1>1, <1>2, <1>9 DEF BarriersInv, RoundInv
  <2> QED BY <1>2, <2>2, <2>3, <2>4 DEF RoundInv, InRound, N
<1>11. \A u \in Workers : pc'[u] = "block" => old'[u] <= notified' /\ old'[u] # notified'
  <2>1. \A u \in Workers : pc'[u] = "block" => pc[u] = "block"
    BY <1>2
  <2>2. \A u \in Workers : pc[u] = "block" => old[u] \in Nat /\ old[u] <= notified
    BY DEF BarriersInv, SignalInv, TypeOK
  <2>3. notified \in Nat /\ notified' = notified + 1 /\ old' = old
    BY <1>1 DEF BarriersInv, TypeOK
  <2> QED BY <2>1, <2>2, <2>3
<1>12. SignalInv' /\ NoMissedSignal'
  BY <1>4, <1>11 DEF SignalInv, NoMissedSignal
<1> QED BY <1>5, <1>6, <1>7, <1>10, <1>11, <1>12 DEF BarriersInv

(* The others are counted, and wait.                                       *)
LEMMA EnterOther ==
  ASSUME BarriersInv, NEW w \in Workers, Enter(w), count # 1
  PROVE  BarriersInv'
<1>1. /\ pc[w] = "enter" /\ mine' = [mine EXCEPT ![w] = epoch]
      /\ count' = count - 1 /\ Goto(w, "test") /\ count # 0
      /\ UNCHANGED <<left, sem, holder, epoch, notified, queue, old, passed, stray>>
  BY DEF Enter, first, cond
<1>2. /\ pc' \in [Workers -> Points] /\ pc'[w] = "test"
      /\ \A u \in Workers \ {w} : pc'[u] = pc[u]
  <2>1. "test" \in Points /\ TypeOK
    BY DEF Points, BarriersInv
  <2> QED BY <1>1, <2>1, Moves
<1>3. /\ epoch \in Nat /\ count \in Nat /\ count' \in Nat
      /\ mine' \in [Workers -> Nat] /\ mine'[w] = epoch
      /\ \A u \in Workers \ {w} : mine'[u] = mine[u]
  BY <1>1 DEF BarriersInv, TypeOK
<1>4. TypeOK'
  BY <1>1, <1>2, <1>3 DEF BarriersInv, TypeOK
<1>5. GateInv'
  BY <1>1, <1>2, GateKept
<1>6. HolderInv'
  BY <1>1, <1>2 DEF BarriersInv, HolderInv
<1>7. RoundInv'
  <2>1. Counted \in SUBSET Workers /\ w \in Workers \ Counted /\ Counted' = Counted \union {w}
    BY <1>1, <1>2, <1>3 DEF Counted, InRound
  <2>2. Cardinality(Counted') = Cardinality(Counted) + 1 /\ Cardinality(Counted) \in Nat
    BY <2>1, WorkersAdd, WorkersFinite
  <2>3. count' + Cardinality(Counted') = N
    BY <1>1, <1>3, <2>2 DEF BarriersInv, RoundInv
  <2>4. \A u \in Workers \ {w} :
       /\ pc'[u] \in {"start", "down", "up", "idle", "enter"} => passed'[u] = epoch'
       /\ pc'[u] \in InRound =>
            passed'[u] = mine'[u] /\ (mine'[u] = epoch' \/ mine'[u] + 1 = epoch')
       /\ pc'[u] = "leave" => passed'[u] + 1 = epoch'
    BY <1>1, <1>2, <1>3 DEF BarriersInv, RoundInv
  <2>5. passed'[w] = mine'[w] /\ mine'[w] = epoch'
    BY <1>1, <1>3 DEF BarriersInv, RoundInv
  <2> QED BY <1>2, <2>3, <2>4, <2>5 DEF RoundInv, N
<1>8. \A u \in Workers : Queued(u)' <=> Queued(u)
  BY <1>1 DEF Queued
<1>9. NoMissedSignal' /\ SignalInv'
  BY <1>1, <1>2, <1>3, <1>8 DEF BarriersInv, NoMissedSignal, SignalInv
<1> QED BY <1>4, <1>5, <1>6, <1>7, <1>9 DEF BarriersInv

(* The loop of ReusableBarrier::sync, and the first half of wait().        *)
LEMMA TestKeeps ==
  ASSUME BarriersInv, NEW w \in Workers, Test(w)
  PROVE  BarriersInv'
<1>1. /\ pc[w] = "test"
      /\ UNCHANGED <<left, sem, count, epoch, notified, queue, mine, passed, stray>>
  BY DEF Test, first, cond
<1>2. mine[w] = passed[w] /\ (mine[w] = epoch \/ mine[w] + 1 = epoch)
      /\ mine[w] \in Nat /\ epoch \in Nat /\ notified \in Nat
  BY <1>1 DEF BarriersInv, RoundInv, TypeOK, InRound
<1>3. CASE /\ epoch <= mine[w] /\ old' = [old EXCEPT ![w] = notified]
           /\ holder' = None /\ Goto(w, "block")
  <2>1. /\ pc' \in [Workers -> Points] /\ pc'[w] = "block"
        /\ \A u \in Workers \ {w} : pc'[u] = pc[u]
    <3>1. "block" \in Points /\ TypeOK
      BY DEF Points, BarriersInv
    <3> QED BY <1>3, <3>1, Moves
  <2>2. /\ mine[w] = epoch /\ old' \in [Workers -> Nat] /\ old'[w] = notified
        /\ \A u \in Workers \ {w} : old'[u] = old[u]
    BY <1>2, <1>3 DEF BarriersInv, TypeOK
  <2>3. TypeOK'
    BY <1>1, <1>3, <2>1, <2>2 DEF BarriersInv, TypeOK
  <2>4. GateInv'
    BY <1>1, <2>1, GateKept
  <2>5. HolderInv'
    BY <1>1, <1>3, <2>1, BarriersAssumption DEF BarriersInv, HolderInv
  <2>6. RoundInv'
    <3>1. Counted' = Counted
      BY <1>1, <2>1 DEF Counted, InRound
    <3> QED BY <1>1, <1>2, <2>1, <3>1 DEF BarriersInv, RoundInv, InRound
  <2>7. \A u \in Workers : Queued(u)' <=> Queued(u)
    BY <1>1 DEF Queued
  <2>8. NoMissedSignal' /\ SignalInv'
    BY <1>1, <1>2, <2>1, <2>2, <2>7 DEF BarriersInv, NoMissedSignal, SignalInv
  <2> QED BY <2>3, <2>4, <2>5, <2>6, <2>8 DEF BarriersInv
<1>4. CASE epoch > mine[w] /\ Goto(w, "leave") /\ UNCHANGED <<holder, old>>
  <2>1. /\ pc' \in [Workers -> Points] /\ pc'[w] = "leave"
        /\ \A u \in Workers \ {w} : pc'[u] = pc[u]
    <3>1. "leave" \in Points /\ TypeOK
      BY DEF Points, BarriersInv
    <3> QED BY <1>4, <3>1, Moves
  <2>2. mine[w] # epoch /\ passed[w] + 1 = epoch
    BY <1>2, <1>4
  <2>3. TypeOK'
    BY <1>1, <1>4, <2>1 DEF BarriersInv, TypeOK
  <2>4. GateInv'
    BY <1>1, <2>1, GateKept
  <2>5. HolderInv'
    BY <1>1, <1>4, <2>1 DEF BarriersInv, HolderInv
  <2>6. RoundInv'
    <3>1. Counted' = Counted
      BY <1>1, <2>1, <2>2 DEF Counted, InRound
    <3> QED BY <1>1, <2>1, <2>2, <3>1 DEF BarriersInv, RoundInv, InRound
  <2>7. \A u \in Workers : Queued(u)' <=> Queued(u)
    BY <1>1 DEF Queued
  <2>8. NoMissedSignal' /\ SignalInv'
    BY <1>1, <1>4, <2>1, <2>7 DEF BarriersInv, NoMissedSignal, SignalInv
  <2> QED BY <2>3, <2>4, <2>5, <2>6, <2>8 DEF BarriersInv
<1> QED BY <1>3, <1>4 DEF Test, Wait

(* The function block() calls: w is queued unless it has been notified.    *)
LEMMA BlockKeeps ==
  ASSUME BarriersInv, NEW w \in Workers, Block(w)
  PROVE  BarriersInv'
<1>1. /\ pc[w] = "block" /\ queue' = Enqueue(w) /\ Goto(w, "wake")
      /\ UNCHANGED <<left, sem, holder, count, epoch, notified, mine, old, passed, stray>>
  BY DEF Block, first
<1>2. /\ pc' \in [Workers -> Points] /\ pc'[w] = "wake"
      /\ \A u \in Workers \ {w} : pc'[u] = pc[u]
  <2>1. "wake" \in Points /\ TypeOK
    BY DEF Points, BarriersInv
  <2> QED BY <1>1, <2>1, Moves
<1>3. /\ queue' \in Seq(Workers)
      /\ \A u \in Workers : Queued(u)' => Queued(u) \/ (u = w /\ notified = old[w])
  <2>1. queue \in Seq(Workers)
    BY DEF BarriersInv, TypeOK
  <2> QED BY <1>1, <2>1, QueueLonger DEF Enqueue, Queued
<1>4. TypeOK'
  BY <1>1, <1>2, <1>3 DEF BarriersInv, TypeOK
<1>5. GateInv'
  BY <1>1, <1>2, GateKept
<1>6. HolderInv'
  BY <1>1, <1>2 DEF BarriersInv, HolderInv
<1>7. RoundInv'
  <2>1. Counted' = Counted
    BY <1>1, <1>2 DEF Counted, InRound
  <2> QED BY <1>1, <1>2, <2>1 DEF BarriersInv, RoundInv, InRound
<1>8. NoMissedSignal' /\ SignalInv'
  BY <1>1, <1>2, <1>3 DEF BarriersInv, NoMissedSignal, SignalInv
<1> QED BY <1>4, <1>5, <1>6, <1>7, <1>8 DEF BarriersInv

LEMMA LeaveKeeps ==
  ASSUME BarriersInv, NEW w \in Workers, Leave(w)
  PROVE  BarriersInv'
<1>1. /\ pc[w] = "leave" /\ holder' = None /\ passed' = [passed EXCEPT ![w] = @ + 1]
      /\ Goto(w, "idle")
      /\ UNCHANGED <<left, sem, count, epoch, notified, queue, mine, old, stray>>
  BY DEF Leave, first, cond
<1>2. /\ pc' \in [Workers -> Points] /\ pc'[w] = "idle"
      /\ \A u \in Workers \ {w} : pc'[u] = pc[u]
  <2>1. "idle" \in Points /\ TypeOK
    BY DEF Points, BarriersInv
  <2> QED BY <1>1, <2>1, Moves
<1>3. /\ passed' \in [Workers -> Nat] /\ passed'[w] = passed[w] + 1
      /\ \A u \in Workers \ {w} : passed'[u] = passed[u]
  BY <1>1 DEF BarriersInv, TypeOK
<1>4. TypeOK'
  BY <1>1, <1>2, <1>3 DEF BarriersInv, TypeOK
<1>5. GateInv'
  BY <1>1, <1>2, GateKept
<1>6. HolderInv'
  BY <1>1, <1>2, BarriersAssumption DEF BarriersInv, HolderInv
<1>7. RoundInv'
  <2>1. Counted' = Counted
    BY <1>1, <1>2 DEF Counted, InRound
  <2> QED BY <1>1, <1>2, <1>3, <2>1 DEF BarriersInv, RoundInv, InRound
<1>8. \A u \in Workers : Queued(u)' <=> Queued(u)
  BY <1>1 DEF Queued
<1>9. NoMissedSignal' /\ SignalInv'
  BY <1>1, <1>2, <1>8 DEF BarriersInv, NoMissedSignal, SignalInv
<1> QED BY <1>4, <1>5, <1>6, <1>7, <1>9 DEF BarriersInv

LEMMA NotifyOneKeeps ==
  ASSUME BarriersInv, NotifyOne
  PROVE  BarriersInv'
<1>1. /\ notified' = notified + 1 /\ queue' = SubSeq(queue, 1 + 1, Len(queue))
      /\ stray' = stray + 1
      /\ UNCHANGED <<left, sem, holder, count, epoch, pc, mine, old, passed>>
  BY DEF NotifyOne, Notify, first
<1>2. queue' \in Seq(Workers) /\ \A u \in Workers : Queued(u)' => Queued(u)
  <2>1. queue \in Seq(Workers) /\ 1 \in Nat
    BY DEF BarriersInv, TypeOK
  <2> QED BY <1>1, <2>1, QueueShorter DEF Queued
<1>3. TypeOK'
  BY <1>1, <1>2 DEF BarriersInv, TypeOK
<1>4. GateInv' /\ HolderInv'
  BY <1>1 DEF BarriersInv, GateInv, HolderInv
<1>5. RoundInv'
  BY <1>1 DEF BarriersInv, RoundInv, Counted
<1>6. NoMissedSignal' /\ SignalInv'
  BY <1>1, <1>2 DEF BarriersInv, NoMissedSignal, SignalInv, TypeOK
<1> QED BY <1>3, <1>4, <1>5, <1>6 DEF BarriersInv

-----------------------------------------------------------------------------
LEMMA InitBarriers == Init => BarriersInv
<1> SUFFICES ASSUME Init PROVE BarriersInv
  OBVIOUS
<1>1. /\ sem \in [count : Nat, waiting : Seq(Workers)]
      /\ Orderly(sem) /\ sem.count = 0 /\ \A w : ~Waits(sem, w)
  <2>1. sem = Semaphore(0) /\ 0 \in Nat
    BY DEF Init
  <2> QED BY <2>1, NewFacts
<1>2. \A w \in Workers :
        pc[w] = "start" /\ mine[w] = 0 /\ old[w] = 0 /\ passed[w] = 0
  BY DEF Init
<1>3. N \in Nat /\ left = N /\ count = N /\ epoch = 0 /\ holder = None /\ queue = <<>>
  BY WorkersFinite DEF Init, InitialCount, N
<1>4. TypeOK
  BY <1>1, <1>3 DEF Init, TypeOK, Points
<1>5. GateInv
  <2>1. {w \in Workers : pc[w] = "start"} = Workers
    BY <1>2
  <2>2. left = Cardinality({w \in Workers : pc[w] = "start"})
    BY <1>3, <2>1 DEF N
  <2> QED BY <1>1, <1>2, <2>2 DEF GateInv
<1>6. HolderInv
  BY <1>2, <1>3, BarriersAssumption DEF HolderInv
<1>7. RoundInv
  <2>1. Counted = {} /\ Cardinality({}) = 0
    BY <1>2, WorkersFinite DEF Counted, InRound
  <2>2. count + Cardinality(Counted) = N
    BY <1>3, <2>1
  <2> QED BY <1>2, <1>3, <2>2 DEF RoundInv, InRound
<1>8. \A w \in Workers : ~Queued(w)
  BY <1>3 DEF Queued
<1>9. NoMissedSignal /\ SignalInv
  BY <1>2, <1>8 DEF NoMissedSignal, SignalInv
<1> QED BY <1>4, <1>5, <1>6, <1>7, <1>9 DEF BarriersInv

LEMMA NextBarriers == BarriersInv /\ [Next]_vars => BarriersInv'
<1> SUFFICES ASSUME BarriersInv, [Next]_vars PROVE BarriersInv'
  OBVIOUS
<1>1. ASSUME NEW w \in Workers, Step(w) PROVE BarriersInv'
  BY <1>1, ArriveKeeps, BarrierDownKeeps, BarrierUpKeeps, LockKeeps, EnterLast, EnterOther,
     TestKeeps, BlockKeeps, LeaveKeeps DEF Step
<1>2. CASE UNCHANGED vars
  BY <1>2 DEF vars, BarriersInv, TypeOK, GateInv, HolderInv, RoundInv, NoMissedSignal,
              SignalInv, Counted, Queued
<1>3. CASE Next
  BY <1>1, <1>3, NotifyOneKeeps DEF Next
<1> QED BY <1>2, <1>3

(* The gate of Barrier is shut until the last has arrived; of every round  *)
(* of ReusableBarrier, those inside and those to come make up N, whoever   *)
(* is still on the way out of the round before; and who is queued in the   *)
(* Condition waits for a round that is still open (barrier.h,              *)
(* condition.h).                                                           *)
THEOREM BarriersCorrect == Spec => []BarriersInv
BY InitBarriers, NextBarriers, PTL DEF Spec

(* Nobody gets past Barrier::sync before everybody has arrived, nor        *)
(* returns from a round of ReusableBarrier::sync another has not entered.  *)
THEOREM TogetherCorrect == Spec => []Together
<1>1. BarriersInv => Together
  <2> SUFFICES ASSUME BarriersInv, NEW w \in Workers, NEW u \in Workers
               PROVE  /\ pc[w] \notin {"start", "down", "up"} => pc[u] # "start"
                      /\ passed[w] <= Entered(u)
    BY DEF Together
  <2>1. ASSUME pc[w] \notin {"start", "down", "up"} PROVE pc[u] # "start"
    <3> DEFINE S == {v \in Workers : pc[v] = "start"}
    <3>1. Cardinality(S) = 0
      BY <2>1, GateOpen DEF BarriersInv, GateInv
    <3>2. S \in SUBSET Workers /\ (u \in S => Cardinality(S) > 0)
      BY WorkersRemove
    <3> QED BY <3>1, <3>2
  <2>2. /\ passed[w] \in Nat /\ passed[u] \in Nat /\ epoch \in Nat
        /\ pc[w] \in Points /\ pc[u] \in Points /\ mine[w] \in Nat /\ mine[u] \in Nat
    BY DEF BarriersInv, TypeOK
  <2>3. passed[w] <= epoch
    BY <2>2 DEF BarriersInv, RoundInv, InRound, Points
  <2>4. epoch <= Entered(u)
    BY <2>2 DEF BarriersInv, RoundInv, InRound, Points, Entered
  <2>5. Entered(u) \in Nat
    BY <2>2 DEF Entered
  <2> QED BY <2>1, <2>2, <2>3, <2>4, <2>5
<1> QED BY <1>1, BarriersCorrect, PTL

(* "Guarantee: no missed signals": a worker that Condition::wait queues,   *)
(* or is about to, is one whose round has not ended.                       *)
THEOREM NoMissedSignalCorrect == Spec => []NoMissedSignal
BY BarriersCorrect, PTL DEF BarriersInv

(* The panic of Barrier::sync and the assertions of ReusableBarrier::sync  *)
(* and Condition::wait are never reached.                                  *)
THEOREM AssertionsHoldCorrect == Spec => []AssertionsHold
<1>1. BarriersInv => AssertionsHold
  <2> SUFFICES ASSUME BarriersInv, NEW w \in Workers
               PROVE  /\ pc[w] = "start" => left > 0
                      /\ pc[w] = "enter" => count # 0
                      /\ pc[w] = "block" => old[w] <= notified
    BY DEF AssertionsHold
  <2>1. ASSUME pc[w] = "start" PROVE left > 0
    <3> DEFINE S == {v \in Workers : pc[v] = "start"}
    <3>1. S \in SUBSET Workers /\ Cardinality(S) > 0
      BY <2>1, WorkersRemove
    <3> QED BY <3>1 DEF BarriersInv, GateInv
  <2>2. ASSUME pc[w] = "enter" PROVE count # 0
    <3>1. Counted \in SUBSET (Workers \ {w})
      BY <2>2 DEF Counted, InRound
    <3>2. Cardinality(Counted) \in Nat /\ N \in Nat /\ Cardinality(Counted) < N
      BY <3>1, AllButOne
    <3> QED BY <3>2 DEF BarriersInv, RoundInv
  <2>3. pc[w] = "block" => old[w] <= notified
    BY DEF BarriersInv, SignalInv
  <2> QED BY <2>1, <2>2, <2>3
<1> QED BY <1>1, BarriersCorrect, PTL

=============================================================================
