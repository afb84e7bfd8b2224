--------------------------- MODULE SchedulerProofs ---------------------------
(***************************************************************************)
(* Proofs about Scheduler, for any number of cores, threads, locks, child  *)
(* slots and ticks.  SwitchInv is inductive: one lemma per action shows    *)
(* that the action preserves it.  Each lemma first states what the action  *)
(* changes, then takes the parts of the invariant one by one.              *)
(* SemInv, FoundInv and HandsBusy are inductive given SwitchInv: most      *)
(* steps leave alone what they speak of, the others have a lemma each.     *)
(***************************************************************************)
EXTENDS Scheduler, WellFoundedInduction, TLAPS

-----------------------------------------------------------------------------
(* What add() of the ready queue does to any queue, for any set of threads *)
(* and any run times.                                                      *)

(* The walk of add() always ends: at the first entry that has run longer,  *)
(* or behind the last one.                                                 *)
LEMMA PositionExists ==
  ASSUME NEW S, NEW q \in Seq(S), NEW rt \in [S -> Nat], NEW t \in S
  PROVE  /\ Position(q, rt, t) \in 1..(Len(q) + 1)
         /\ \A j \in 1..(Position(q, rt, t) - 1) : rt[q[j]] <= rt[t]
         /\ Position(q, rt, t) <= Len(q) => rt[q[Position(q, rt, t)]] > rt[t]
<1> DEFINE T == {i \in 1..Len(q) : rt[q[i]] > rt[t]}
           Ok(i) == /\ \A j \in 1..(i - 1) : rt[q[j]] <= rt[t]
                    /\ i <= Len(q) => rt[q[i]] > rt[t]
<1>1. \E i \in 1..(Len(q) + 1) : Ok(i)
  <2>1. CASE T = {}
    <3>1. Ok(Len(q) + 1)
      BY <2>1
    <3> QED BY <3>1
  <2>2. CASE T # {}
    <3>1. T \subseteq Nat
      OBVIOUS
    <3>2. PICK R : R = OpToRel(<, Nat)
      BY Zenon
    <3>3. IsWellFoundedOn(R, Nat)
      BY <3>2, NatLessThanWellFounded, Zenon
    <3>4. \A j, k \in Nat : j < k => <<j, k>> \in R
      BY <3>2, Zenon DEF OpToRel
    <3>5. PICK i \in T : \A j \in T : ~(<<j, i>> \in R)
      BY <2>2, <3>1, <3>3, WFMin
    <3>6. \A j \in T : ~(j < i)
      BY <3>1, <3>4, <3>5
    <3>7. \A j \in 1..Len(q) : rt[q[j]] \in Nat
      OBVIOUS
    <3>8. \A j \in 1..(i - 1) : rt[q[j]] <= rt[t]
      <4> TAKE j \in 1..(i - 1)
      <4>1. j \in 1..Len(q) /\ j \notin T
        BY <3>6
      <4> QED BY <4>1, <3>7
    <3> QED BY <3>8
  <2> QED BY <2>1, <2>2
<1>2. Position(q, rt, t) = CHOOSE i \in 1..(Len(q) + 1) : Ok(i)
  BY DEF Position
<1> QED BY <1>1, <1>2

(* add() keeps the entries in order and puts t among them.                 *)
LEMMA AddShape ==
  ASSUME NEW S, NEW q \in Seq(S), NEW rt \in [S -> Nat], NEW t \in S
  PROVE  LET a == Add(q, rt, t)
             p == Position(q, rt, t)
         IN  /\ p \in 1..(Len(q) + 1)
             /\ a \in Seq(S)
             /\ Len(a) = Len(q) + 1
             /\ \A k \in 1..Len(a) :
                  /\ k < p => k \in 1..Len(q) /\ a[k] = q[k]
                  /\ k = p => a[k] = t
                  /\ k > p => k - 1 \in 1..Len(q) /\ a[k] = q[k - 1]
<1> DEFINE a == Add(q, rt, t)
           p == Position(q, rt, t)
<1>1. p \in 1..(Len(q) + 1)
  BY PositionExists
<1>2. a = [k \in 1..(Len(q) + 1) |->
             IF k < p THEN q[k] ELSE IF k = p THEN t ELSE q[k - 1]]
  BY DEF Add
<1> HIDE DEF a, p
<1>3. ASSUME NEW k \in 1..(Len(q) + 1)
      PROVE  /\ k < p => k \in 1..Len(q) /\ a[k] = q[k]
             /\ k = p => a[k] = t
             /\ k > p => k - 1 \in 1..Len(q) /\ a[k] = q[k - 1]
  BY <1>1, <1>2
<1>4. ASSUME NEW k \in 1..(Len(q) + 1)
      PROVE  a[k] \in S
  <2>1. k < p \/ k = p \/ k > p
    BY <1>1
  <2>2. \A i \in 1..Len(q) : q[i] \in S
    OBVIOUS
  <2> QED BY <1>3, <2>1, <2>2
<1>5. a \in Seq(S) /\ Len(a) = Len(q) + 1
  BY <1>2, <1>4
<1>6. \A k \in 1..Len(a) :
        /\ k < p => k \in 1..Len(q) /\ a[k] = q[k]
        /\ k = p => a[k] = t
        /\ k > p => k - 1 \in 1..Len(q) /\ a[k] = q[k - 1]
  BY <1>3, <1>5
<1> QED BY <1>1, <1>5, <1>6 DEF a, p

(* The entries after add() are those before it and t.                      *)
LEMMA AddEntries ==
  ASSUME NEW S, NEW q \in Seq(S), NEW rt \in [S -> Nat], NEW t \in S
  PROVE  /\ Add(q, rt, t) \in Seq(S)
         /\ \A k \in 1..Len(Add(q, rt, t)) :
              Add(q, rt, t)[k] = t \/ \E i \in 1..Len(q) : Add(q, rt, t)[k] = q[i]
<1> DEFINE a == Add(q, rt, t)
           p == Position(q, rt, t)
<1>1. /\ p \in 1..(Len(q) + 1)
      /\ a \in Seq(S)
      /\ Len(a) = Len(q) + 1
      /\ \A k \in 1..Len(a) :
           /\ k < p => k \in 1..Len(q) /\ a[k] = q[k]
           /\ k = p => a[k] = t
           /\ k > p => k - 1 \in 1..Len(q) /\ a[k] = q[k - 1]
  BY AddShape
<1> HIDE DEF a, p
<1>2. ASSUME NEW k \in 1..Len(a)
      PROVE  a[k] = t \/ \E i \in 1..Len(q) : a[k] = q[i]
  <2>1. k < p \/ k = p \/ k > p
    BY <1>1
  <2> QED BY <1>1, <2>1
<1> QED BY <1>1, <1>2 DEF a

(* add() of a thread that is not queued links no thread in twice.          *)
LEMMA AddNoDuplicates ==
  ASSUME NEW S, NEW q \in Seq(S), NEW rt \in [S -> Nat], NEW t \in S,
         NoDuplicates(q), \A i \in 1..Len(q) : q[i] # t
  PROVE  NoDuplicates(Add(q, rt, t))
<1> DEFINE a == Add(q, rt, t)
           p == Position(q, rt, t)
<1>1. /\ p \in 1..(Len(q) + 1)
      /\ a \in Seq(S)
      /\ Len(a) = Len(q) + 1
      /\ \A k \in 1..Len(a) :
           /\ k < p => k \in 1..Len(q) /\ a[k] = q[k]
           /\ k = p => a[k] = t
           /\ k > p => k - 1 \in 1..Len(q) /\ a[k] = q[k - 1]
  <2> HIDE DEF a, p
  <2> QED BY AddShape DEF a, p
<1> HIDE DEF a, p
<1>2. \A i, j \in 1..Len(q) : q[i] = q[j] => i = j
  BY DEF NoDuplicates
<1>3. ASSUME NEW i \in 1..Len(a), NEW j \in 1..Len(a), i < j, a[i] = a[j]
      PROVE  FALSE
  <2>1. CASE j < p
    <3>1. /\ i \in 1..Len(q) /\ a[i] = q[i]
          /\ j \in 1..Len(q) /\ a[j] = q[j]
      BY <1>1, <1>3, <2>1
    <3>2. i = j
      BY <1>2, <1>3, <3>1
    <3> QED BY <1>1, <1>3, <3>2
  <2>2. CASE i < p /\ j = p
    BY <1>1, <1>3, <2>2
  <2>3. CASE i = p
    BY <1>1, <1>3, <2>3
  <2>4. CASE i < p /\ j > p
    <3>1. /\ i \in 1..Len(q) /\ a[i] = q[i]
          /\ j - 1 \in 1..Len(q) /\ a[j] = q[j - 1]
      BY <1>1, <1>3, <2>4
    <3>2. i = j - 1
      BY <1>2, <1>3, <3>1
    <3> QED BY <1>1, <2>4, <3>2
  <2>5. CASE i > p
    <3>0. j > p
      BY <1>1, <1>3, <2>5
    <3>1. /\ i - 1 \in 1..Len(q) /\ a[i] = q[i - 1]
          /\ j - 1 \in 1..Len(q) /\ a[j] = q[j - 1]
      BY <1>1, <1>3, <2>5, <3>0
    <3>2. i - 1 = j - 1
      BY <1>2, <1>3, <3>1
    <3> QED BY <1>3, <3>2
  <2> QED BY <1>1, <1>3, <2>1, <2>2, <2>3, <2>4, <2>5
<1>4. \A i, j \in 1..Len(a) : a[i] = a[j] => i = j
  BY <1>1, <1>3
<1> QED BY <1>4 DEF NoDuplicates, a

(* add() keeps a queue ordered.                                            *)
LEMMA AddSorted ==
  ASSUME NEW S, NEW q \in Seq(S), NEW rt \in [S -> Nat], NEW t \in S,
         Sorted(q, rt)
  PROVE  Sorted(Add(q, rt, t), rt)
<1> DEFINE a == Add(q, rt, t)
           p == Position(q, rt, t)
<1>1. /\ p \in 1..(Len(q) + 1)
      /\ a \in Seq(S)
      /\ Len(a) = Len(q) + 1
      /\ \A k \in 1..Len(a) :
           /\ k < p => k \in 1..Len(q) /\ a[k] = q[k]
           /\ k = p => a[k] = t
           /\ k > p => k - 1 \in 1..Len(q) /\ a[k] = q[k - 1]
  BY AddShape
<1>2. /\ \A j \in 1..(p - 1) : rt[q[j]] <= rt[t]
      /\ p <= Len(q) => rt[q[p]] > rt[t]
  BY PositionExists
<1> HIDE DEF a, p
<1>3. /\ \A j \in 1..Len(q) : rt[q[j]] \in Nat
      /\ rt[t] \in Nat
      /\ \A i, j \in 1..Len(q) : i < j => rt[q[i]] <= rt[q[j]]
  BY DEF Sorted
<1>4. \A j \in 1..Len(q) : j >= p => rt[q[j]] > rt[t]
  <2> TAKE j \in 1..Len(q)
  <2> HAVE j >= p
  <2>1. p \in 1..Len(q) /\ rt[q[p]] > rt[t] /\ (p < j \/ p = j)
    BY <1>1, <1>2
  <2>2. rt[q[p]] <= rt[q[j]]
    BY <1>3, <2>1
  <2> QED BY <1>3, <2>1, <2>2
<1>5. ASSUME NEW i \in 1..Len(a), NEW j \in 1..Len(a), i < j
      PROVE  rt[a[i]] <= rt[a[j]]
  <2>1. CASE j < p
    <3>1. /\ i \in 1..Len(q) /\ a[i] = q[i]
          /\ j \in 1..Len(q) /\ a[j] = q[j]
      BY <1>1, <1>5, <2>1
    <3> QED BY <1>3, <1>5, <3>1
  <2>2. CASE j = p
    BY <1>1, <1>2, <1>5, <2>2
  <2>3. CASE i = p
    <3>1. /\ a[i] = t
          /\ j - 1 \in 1..Len(q) /\ a[j] = q[j - 1]
          /\ j - 1 >= p
      BY <1>1, <1>5, <2>3
    <3>2. rt[q[j - 1]] > rt[t] /\ rt[q[j - 1]] \in Nat
      BY <1>3, <1>4, <3>1
    <3> QED BY <1>3, <3>1, <3>2
  <2>4. CASE i < p /\ j > p
    <3>1. i \in 1..Len(q) /\ j - 1 \in 1..Len(q) /\ a[i] = q[i] /\ a[j] = q[j - 1]
          /\ (i < j - 1 \/ i = j - 1)
      BY <1>1, <1>5, <2>4
    <3> QED BY <1>3, <3>1
  <2>5. CASE i > p
    <3>0. j > p
      BY <1>1, <1>5, <2>5
    <3>1. /\ i - 1 \in 1..Len(q) /\ a[i] = q[i - 1]
          /\ j - 1 \in 1..Len(q) /\ a[j] = q[j - 1]
          /\ i - 1 < j - 1
      BY <1>1, <1>5, <2>5, <3>0
    <3> QED BY <1>3, <3>1
  <2> QED BY <1>1, <1>5, <2>1, <2>2, <2>3, <2>4, <2>5
<1>6. \A i, j \in 1..Len(a) : i < j => rt[a[i]] <= rt[a[j]]
  BY <1>5
<1> QED BY <1>6 DEF Sorted, a

(* remove() of the first entry and the queue behind it.                    *)
LEMMA TailEntries ==
  ASSUME NEW S, NEW q \in Seq(S), q # << >>
  PROVE  /\ Head(q) \in S /\ Tail(q) \in Seq(S)
         /\ Len(q) > 0 /\ Len(Tail(q)) = Len(q) - 1
         /\ Head(q) = q[1]
         /\ \A k \in 1..Len(Tail(q)) : k + 1 \in 1..Len(q) /\ Tail(q)[k] = q[k + 1]
OBVIOUS

(* Taking the first entry off or putting a new one behind the last leaves  *)
(* a queue without duplicates.                                             *)
LEMMA TailNoDuplicates ==
  ASSUME NEW S, NEW q \in Seq(S), q # << >>, NoDuplicates(q)
  PROVE  /\ NoDuplicates(Tail(q))
         /\ \A k \in 1..Len(Tail(q)) : Tail(q)[k] # Head(q)
<1>1. /\ Len(Tail(q)) = Len(q) - 1
      /\ Head(q) = q[1]
      /\ Len(q) \in Nat /\ Len(q) > 0
      /\ \A k \in 1..Len(Tail(q)) : k + 1 \in 1..Len(q) /\ Tail(q)[k] = q[k + 1]
  BY TailEntries
<1>2. \A i, j \in 1..Len(q) : q[i] = q[j] => i = j
  BY DEF NoDuplicates
<1>3. ASSUME NEW i \in 1..Len(Tail(q)), NEW j \in 1..Len(Tail(q)),
             Tail(q)[i] = Tail(q)[j]
      PROVE  i = j
  <2>1. i + 1 \in 1..Len(q) /\ j + 1 \in 1..Len(q) /\ q[i + 1] = q[j + 1]
    BY <1>1, <1>3
  <2>2. i + 1 = j + 1
    BY <1>2, <2>1
  <2> QED BY <2>2
<1>4. ASSUME NEW k \in 1..Len(Tail(q)), Tail(q)[k] = Head(q)
      PROVE  FALSE
  <2>1. k + 1 \in 1..Len(q) /\ 1 \in 1..Len(q) /\ q[k + 1] = q[1]
    BY <1>1, <1>4
  <2>2. k + 1 = 1
    BY <1>2, <2>1
  <2> QED BY <2>2
<1> QED BY <1>3, <1>4 DEF NoDuplicates

LEMMA AppendNoDuplicates ==
  ASSUME NEW S, NEW q \in Seq(S), NEW t \in S,
         NoDuplicates(q), \A i \in 1..Len(q) : q[i] # t
  PROVE  NoDuplicates(Append(q, t))
<1>1. /\ Len(Append(q, t)) = Len(q) + 1
      /\ Len(q) \in Nat
      /\ \A i \in 1..Len(q) : Append(q, t)[i] = q[i]
      /\ Append(q, t)[Len(q) + 1] = t
  OBVIOUS
<1>2. \A i, j \in 1..Len(q) : q[i] = q[j] => i = j
  BY DEF NoDuplicates
<1>3. ASSUME NEW i \in 1..(Len(q) + 1), NEW j \in 1..(Len(q) + 1),
             Append(q, t)[i] = Append(q, t)[j]
      PROVE  i = j
  <2>1. (i \in 1..Len(q) \/ i = Len(q) + 1) /\ (j \in 1..Len(q) \/ j = Len(q) + 1)
    BY <1>1
  <2> QED BY <1>1, <1>2, <1>3, <2>1
<1> QED BY <1>1, <1>3 DEF NoDuplicates

-----------------------------------------------------------------------------

(* No two kinds of names coincide.                                         *)
LEMMA Names ==
  /\ Cores \subseteq TCBs /\ Threads \subseteq TCBs
  /\ Cores \cap Threads = {}
  /\ None \notin TCBs /\ None \notin Locks
  /\ Threads \subseteq Sems /\ Locks \subseteq Sems
  /\ "yield" \notin Sems /\ "stop" \notin Sems
BY SchedulerAssumption DEF TCBs, Sems

(* The program points at which a thread is on a core name no place where   *)
(* it could be kept.                                                       *)
LEMMA Points ==
  /\ \A p \in OnCpu : p \notin {"ready", "picked", "leaving", "waiting", "woken",
                                "zombie", "parked", "new", "made", "dead"}
  /\ Working \subseteq OnCpu /\ Blocking \subseteq OnCpu
  /\ OnCpu \subseteq PCs /\ Kept \subseteq PCs
  /\ Working \cap Blocking = {}
  /\ {"landing", "panic"} \subseteq OnCpu
  /\ {"landing", "panic"} \cap (Working \union Blocking) = {}
BY DEF OnCpu, Working, Blocking, PCs, Kept

(* The queues and their members stay as they are.                          *)
LEMMA QueuesKept ==
  ASSUME TypeOK, QueueInv, UNCHANGED <<readyQ, zombies, waiting>>,
         \A t \in Threads : pc[t] \in {"ready", "zombie", "waiting"} =>
                            pc'[t] = pc[t] /\ why'[t] = why[t]
  PROVE  QueueInv'
<1>1. /\ readyQ' = readyQ /\ zombies' = zombies /\ waiting' = waiting
      /\ \A i \in 1..Len(readyQ) : readyQ[i] \in Threads
      /\ \A i \in 1..Len(zombies) : zombies[i] \in Threads
      /\ \A s \in Sems : \A i \in 1..Len(waiting[s]) : waiting[s][i] \in Threads
  BY DEF TypeOK
<1>2. Keeps(readyQ, "ready")'
  BY <1>1 DEF QueueInv, Keeps
<1>3. Keeps(zombies, "zombie")'
  BY <1>1 DEF QueueInv, Keeps
<1>4. ASSUME NEW s \in Sems
      PROVE  /\ Keeps(waiting[s], "waiting")'
             /\ \A i \in 1..Len(waiting'[s]) : why'[waiting'[s][i]] = s
  BY <1>1 DEF QueueInv, Keeps
<1> QED BY <1>2, <1>3, <1>4 DEF QueueInv

(* The thread on core c goes on from one point of its code to another and  *)
(* no TCB changes its place.                                               *)
LEMMA MoveKeepsPlaces ==
  ASSUME SwitchInv, NEW c \in Cores, NEW me \in TCBs,
         me = stack[c], prev[c] = None,
         pc'[me] \in (Working \union Blocking \union {"panic"}) \ {"commit", "switch"},
         pc[me] \notin {"commit", "switch"},
         UNCHANGED <<active, stack, prev, chosen, readyQ, zombies, waiting>>,
         \A t \in TCBs \ {me} : /\ pc'[t] = pc[t] /\ why'[t] = why[t]
                                /\ noPreempt'[t] = noPreempt[t],
         pc'[me] \in Blocking => noPreempt'[me]
  PROVE  StackInv' /\ ChosenInv' /\ QueueInv' /\ ActiveInv'
<1> DEFINE p == pc'[me]
<1>1. /\ stack \in [Cores -> TCBs] /\ pc \in [TCBs -> PCs]
      /\ prev \in [Cores -> TCBs \union {None}]
      /\ chosen \in [Cores -> TCBs \union {None}]
  BY DEF SwitchInv, TypeOK
<1>2. /\ p \in OnCpu /\ p # "landing"
      /\ pc[me] \in OnCpu /\ pc[me] # "landing"
  BY Points DEF SwitchInv, StackInv
<1>3. \A d \in Cores : d # c => stack[d] # me
  BY DEF SwitchInv, StackInv
<1>4. \A t \in TCBs : t # me => pc'[t] = pc[t]
  BY <1>1
<1>5. pc'[me] = p
  BY <1>1
<1>6. \A t \in TCBs : pc[t] \in {"leaving", "picked", "parked", "ready", "zombie",
                                 "waiting"} => t # me
  BY <1>2, Points
<1>7. StackInv'
  BY <1>1, <1>2, <1>3, <1>4, <1>5, <1>6 DEF SwitchInv, StackInv
<1>8. ChosenInv'
  BY <1>1, <1>2, <1>3, <1>4, <1>5, <1>6, Names DEF SwitchInv, ChosenInv
<1>9. QueueInv'
  BY <1>4, <1>6, Names, QueuesKept DEF SwitchInv
<1>10. ActiveInv'
  <2> SUFFICES ASSUME NEW d \in Cores
               PROVE  /\ pc'[stack[d]] # "switch" => active[d] = stack[d]
                      /\ pc'[stack[d]] = "switch" =>
                           active[d] = chosen[d] /\ noPreempt'[chosen[d]]
                      /\ pc'[stack[d]] \in Blocking => noPreempt'[stack[d]]
    BY DEF ActiveInv
  <2>1. CASE d = c
    BY <1>5, <2>1 DEF SwitchInv, ActiveInv
  <2>2. CASE d # c
    <3>1. stack[d] \in TCBs /\ stack[d] # me
      BY <1>1, <1>3, <2>2
    <3>2. pc[stack[d]] = "switch" => chosen[d] \in TCBs /\ chosen[d] # me
      BY <1>1, <1>6, Names DEF SwitchInv, ChosenInv, TCBs
    <3> QED BY <1>4, <3>1, <3>2 DEF SwitchInv, ActiveInv
  <2> QED BY <2>1, <2>2
<1> QED BY <1>7, <1>8, <1>9, <1>10

(* The system calls threads are in are not disturbed by a step of me.      *)
LEMMA CallsKept ==
  ASSUME SwitchInv, NEW me \in TCBs,
         \A t \in TCBs \ {me} :
           /\ resume'[t] = resume[t] /\ ret'[t] = ret[t]
           /\ pc'[t] = pc[t] \/ {pc[t], pc'[t]} \cap Working = {},
         \A t \in Threads \ {me} : /\ slot'[t] = slot[t]
                                   /\ children'[t] = children[t]
                                   /\ lockOf'[t] = lockOf[t],
         pc'[me] \in Working => resume'[me] = "run",
         ret'[me] = "spawn" => pc'[me] = "reap" \/ resume'[me] = "reap",
         Spawning(me)' =>
            Spawning(me) /\ slot'[me] = slot[me] /\ children'[me] = children[me],
         pc'[me] \in {"get", "got"} \/ resume'[me] \in {"get", "got"} =>
            slot'[me] \in Slots /\ children'[me][slot'[me]] # None,
         pc'[me] = "locked" \/ resume'[me] = "locked" => lockOf'[me] # None,
         \A t \in Threads : Spawning(t) /\ Spawning(t)' =>
                            pc'[children[t][slot[t]]] = "made"
  PROVE  CallInv'
<1>1. /\ "spawn" \in Working /\ "reap" \in Working /\ "get" \in Working
      /\ "got" \in Working /\ "locked" \in Working
  BY DEF Working
<1>2. \A t \in TCBs \ {me} : \A x \in {"spawn", "reap", "get", "got", "locked"} :
         pc'[t] = x <=> pc[t] = x
  BY <1>1
<1>3. \A t \in Threads : Spawning(t)' =>
         Spawning(t) /\ slot'[t] = slot[t] /\ children'[t] = children[t]
  BY <1>2, Names DEF Spawning
<1>4. ASSUME NEW t \in TCBs
      PROVE  /\ pc'[t] \in Working => resume'[t] = "run"
             /\ ret'[t] = "spawn" => "reap" \in {pc'[t], resume'[t]}
  BY <1>2 DEF SwitchInv, CallInv
<1>5. ASSUME NEW t \in Threads
      PROVE  /\ Spawning(t)' => /\ slot'[t] \in Slots
                                /\ children'[t][slot'[t]] # None
                                /\ pc'[children'[t][slot'[t]]] = "made"
             /\ {"get", "got"} \cap {pc'[t], resume'[t]} # {} =>
                  slot'[t] \in Slots /\ children'[t][slot'[t]] # None
             /\ "locked" \in {pc'[t], resume'[t]} => lockOf'[t] # None
  <2>1. Spawning(t)' => /\ slot'[t] \in Slots
                        /\ children'[t][slot'[t]] # None
                        /\ pc'[children'[t][slot'[t]]] = "made"
    BY <1>3 DEF SwitchInv, CallInv
  <2>2. CASE t = me
    BY <2>1, <2>2
  <2>3. CASE t # me
    <3>1. /\ t \in TCBs /\ resume'[t] = resume[t] /\ slot'[t] = slot[t]
          /\ children'[t] = children[t] /\ lockOf'[t] = lockOf[t]
      BY <2>3, Names
    <3>2. {"get", "got"} \cap {pc'[t], resume'[t]} # {} =>
            {"get", "got"} \cap {pc[t], resume[t]} # {}
      BY <1>2, <2>3, <3>1
    <3>3. "locked" \in {pc'[t], resume'[t]} => "locked" \in {pc[t], resume[t]}
      BY <1>2, <2>3, <3>1
    <3> QED BY <2>1, <3>1, <3>2, <3>3 DEF SwitchInv, CallInv
  <2> QED BY <2>2, <2>3
<1>6. ASSUME NEW t \in Threads, NEW u \in Threads, Spawning(t)', Spawning(u)',
             children'[t][slot'[t]] = children'[u][slot'[u]]
      PROVE  t = u
  BY <1>3, <1>6 DEF SwitchInv, CallInv
<1> QED BY <1>4, <1>5, <1>6 DEF CallInv

(* A step of a thread leaves the idle TCBs alone.                          *)
LEMMA IdleKept ==
  ASSUME IdleInv, UNCHANGED <<stack, prev>>,
         \A d \in Cores : /\ pc'[d] = pc[d] /\ why'[d] = why[d]
                          /\ resume'[d] = resume[d] /\ hand'[d] = hand[d]
  PROVE  IdleInv'
BY DEF IdleInv

(* A step that hands nobody over leaves the hands as they are.             *)
LEMMA HandsKept ==
  ASSUME TypeOK, HandInv, hand' = hand,
         \A t \in TCBs : pc[t] = "woken" => pc'[t] = "woken",
         \A t \in TCBs : "wake" \in {pc'[t], resume'[t]} =>
                         "wake" \in {pc[t], resume[t]}
  PROVE  HandInv'
<1>1. hand \in [TCBs -> Threads \union {None}]
  BY DEF TypeOK
<1>2. \A t \in TCBs : hand[t] # None => hand[t] \in TCBs
  BY <1>1, Names
<1> QED BY <1>2 DEF HandInv

-----------------------------------------------------------------------------
(* A step of the thread on core c in which no TCB changes its place: what  *)
(* the thread may change of its own state without disturbing the others.   *)
Quiet(c, me) ==
  /\ me = stack[c] /\ prev[c] = None /\ pc[me] \notin {"commit", "switch"}
  /\ UNCHANGED <<active, stack, chosen, prev, readyQ, zombies, waiting>>
  /\ \A t \in TCBs \ {me} :
       /\ pc'[t] = pc[t] /\ why'[t] = why[t] /\ resume'[t] = resume[t]
       /\ ret'[t] = ret[t] /\ hand'[t] = hand[t] /\ noPreempt'[t] = noPreempt[t]
  /\ \A t \in Threads \ {me} :
       slot'[t] = slot[t] /\ children'[t] = children[t] /\ lockOf'[t] = lockOf[t]
  /\ pc'[me] \in (Working \union Blocking \union {"panic"}) \ {"commit", "switch"}
  /\ pc'[me] \in Blocking => noPreempt'[me]
  /\ me \in Cores => pc'[me] \in Blocking /\ why'[me] = "stop" /\ resume'[me] = "stop"
  /\ hand'[me] = hand[me] \/ (hand'[me] = None /\ me \in Threads)
  /\ pc'[me] = "wake" \/ resume'[me] = "wake" => hand'[me] # None
  /\ pc'[me] \in Working => resume'[me] = "run"
  /\ ret'[me] = "spawn" => pc'[me] = "reap" \/ resume'[me] = "reap"
  /\ pc'[me] = "spawn" \/ resume'[me] = "spawn" \/ ret'[me] = "spawn" =>
       Spawning(me) /\ slot'[me] = slot[me] /\ children'[me] = children[me]
  /\ pc'[me] \in {"get", "got"} \/ resume'[me] \in {"get", "got"} =>
       slot'[me] \in Slots /\ children'[me][slot'[me]] # None
  /\ pc'[me] = "locked" \/ resume'[me] = "locked" => lockOf'[me] # None

(* Such a step keeps the invariant.                                        *)
LEMMA QuietStep ==
  ASSUME SwitchInv, TypeOK', NEW c \in Cores, NEW me \in TCBs, Quiet(c, me)
  PROVE  SwitchInv'
<1>1. StackInv' /\ ChosenInv' /\ QueueInv' /\ ActiveInv'
  BY MoveKeepsPlaces DEF Quiet
<1>2. pc[me] \in OnCpu /\ pc[me] # "landing"
  BY DEF Quiet, SwitchInv, StackInv
<1>3. IdleInv'
  <2>1. stack' = stack /\ prev' = prev
    BY DEF Quiet
  <2>2. \A d \in Cores : d # me => /\ pc'[d] = pc[d] /\ why'[d] = why[d]
                                  /\ resume'[d] = resume[d] /\ hand'[d] = hand[d]
    BY Names DEF Quiet
  <2>3. me \in Cores => /\ pc'[me] \in Blocking /\ why'[me] = "stop"
                        /\ resume'[me] = "stop" /\ hand'[me] = hand[me]
    BY Names DEF Quiet
  <2>4. me = stack[c]
    BY DEF Quiet
  <2> QED BY <2>1, <2>2, <2>3, <2>4 DEF SwitchInv, IdleInv, IdleStops, Blocking
<1>4. HandInv'
  <2>1. \A t \in TCBs : hand[t] # None => hand[t] \in TCBs /\ pc[hand[t]] = "woken"
    BY Names DEF SwitchInv, HandInv, TypeOK
  <2>2. \A t \in TCBs : pc[t] = "woken" => pc'[t] = "woken"
    BY <1>2, Points DEF Quiet
  <2>3. \A t \in TCBs : hand'[t] # None => hand'[t] = hand[t]
    BY DEF Quiet
  <2>4. \A t \in TCBs : "wake" \in {pc'[t], resume'[t]} => hand'[t] # None
    BY DEF Quiet, SwitchInv, HandInv
  <2> QED BY <2>1, <2>2, <2>3, <2>4 DEF SwitchInv, HandInv
<1>5. CallInv'
  <2>1. \A t \in Threads : Spawning(t) /\ Spawning(t)' =>
                           pc'[children[t][slot[t]]] = "made"
    <3>1. \A t \in TCBs : pc[t] = "made" => pc'[t] = "made"
      BY <1>2, Points DEF Quiet
    <3>2. \A t \in Threads : Spawning(t) =>
            children[t][slot[t]] \in TCBs /\ pc[children[t][slot[t]]] = "made"
      BY Names DEF SwitchInv, CallInv, TypeOK
    <3> QED BY <3>1, <3>2
  <2>2. Spawning(me)' => Spawning(me) /\ slot'[me] = slot[me] /\ children'[me] = children[me]
    BY DEF Quiet, Spawning
  <2> QED BY <2>1, <2>2, CallsKept DEF Quiet
<1> QED BY <1>1, <1>3, <1>4, <1>5 DEF SwitchInv

-----------------------------------------------------------------------------
(* Steps of block() and of system calls that change no place.              *)

(* An idle TCB is only ever in stop(), every other TCB on a core is a      *)
(* thread; outside block() nothing is left to return to.                   *)
LEMMA Running ==
  ASSUME SwitchInv, NEW c \in Cores, prev[c] = None,
         NEW me \in TCBs, me = stack[c]
  PROVE  /\ pc[me] \in Blocking => noPreempt[me]
         /\ me \in Threads \/ me \in Cores
         /\ me \in Cores => /\ pc[me] \in Blocking \union {"stop"}
                            /\ pc[me] \in Blocking => why[me] = "stop" /\ resume[me] = "stop"
         /\ pc[me] \in Working =>
              resume[me] = "run" /\ (pc[me] # "reap" => ret[me] # "spawn")
         /\ pc[me] = "wake" \/ resume[me] = "wake" => hand[me] # None
         /\ ret[me] = "spawn" => pc[me] = "reap" \/ resume[me] = "reap"
         /\ resume[me] \in {"get", "got"} =>
              slot[me] \in Slots /\ children[me][slot[me]] # None
         /\ resume[me] = "locked" => lockOf[me] # None
<1>1. /\ pc[me] \in Blocking => noPreempt[me]
      /\ me \in Threads \/ me \in Cores
  BY DEF SwitchInv, ActiveInv, TCBs
<1>2. me \in Cores => /\ pc[me] \in Blocking \union {"stop"}
                      /\ pc[me] \in Blocking => why[me] = "stop" /\ resume[me] = "stop"
  BY Points DEF SwitchInv, StackInv, IdleInv, IdleStops
<1>3. pc[me] \in Working =>
        resume[me] = "run" /\ (pc[me] # "reap" => ret[me] # "spawn")
  BY DEF SwitchInv, CallInv
<1>4. pc[me] = "wake" \/ resume[me] = "wake" => hand[me] # None
  BY DEF SwitchInv, HandInv
<1>5. ret[me] = "spawn" => pc[me] = "reap" \/ resume[me] = "reap"
  BY DEF SwitchInv, CallInv
<1>6. resume[me] \in {"get", "got", "locked"} => me \in Threads
  BY <1>1, <1>2, <1>3 DEF SwitchInv, StackInv, Working
<1>7. /\ resume[me] \in {"get", "got"} =>
           slot[me] \in Slots /\ children[me][slot[me]] # None
      /\ resume[me] = "locked" => lockOf[me] # None
  BY <1>6 DEF SwitchInv, CallInv
<1> QED BY <1>1, <1>2, <1>3, <1>4, <1>5, <1>7

(* A TCB stays inside block().                                             *)
LEMMA BlockStep ==
  ASSUME SwitchInv, TypeOK', NEW c \in Cores, NEW me \in TCBs,
         me = stack[c], prev[c] = None,
         pc[me] \in Blocking \ {"commit", "switch"},
         pc'[me] \in Blocking \ {"commit", "switch"},
         \A t \in TCBs \ {me} : pc'[t] = pc[t],
         UNCHANGED <<cpuVars, tcbVars, readyQ, zombies, waiting, procVars>>
  PROVE  SwitchInv'
<1>1. /\ active' = active /\ stack' = stack /\ chosen' = chosen /\ prev' = prev
      /\ why' = why /\ resume' = resume /\ ret' = ret /\ hand' = hand
      /\ noPreempt' = noPreempt /\ readyQ' = readyQ /\ zombies' = zombies
      /\ waiting' = waiting /\ slot' = slot /\ children' = children
      /\ lockOf' = lockOf
  BY DEF cpuVars, tcbVars, procVars
<1>2. "wake" \notin Blocking /\ "reap" \notin Blocking /\ "spawn" \notin Blocking
      /\ "get" \notin Blocking /\ "got" \notin Blocking /\ "locked" \notin Blocking
      /\ Blocking \cap Working = {}
  BY DEF Blocking, Working
<1>3. /\ noPreempt[me]
      /\ me \in Cores => why[me] = "stop" /\ resume[me] = "stop"
      /\ resume[me] = "wake" => hand[me] # None
      /\ ret[me] = "spawn" => resume[me] = "reap"
      /\ resume[me] \in {"get", "got"} =>
           slot[me] \in Slots /\ children[me][slot[me]] # None
      /\ resume[me] = "locked" => lockOf[me] # None
  BY <1>2, Running
<1>4. resume[me] = "spawn" \/ ret[me] = "spawn" => Spawning(me)
  BY DEF Spawning
<1>5. /\ pc'[me] \in (Working \union Blocking \union {"panic"}) \ {"commit", "switch"}
      /\ pc'[me] \notin Working
      /\ pc'[me] \notin {"wake", "spawn", "reap", "get", "got", "locked"}
  BY <1>2
<1>6. Quiet(c, me)
  BY <1>1, <1>3, <1>4, <1>5 DEF Quiet
<1> QED BY <1>6, QuietStep

(* A thread goes on inside a system call or returns from it.               *)
LEMMA CallStep ==
  ASSUME SwitchInv, TypeOK', NEW c \in Cores, NEW me \in Threads,
         me = stack[c], prev[c] = None,
         pc[me] \in Working, pc'[me] \in (Working \ {"wake", "spawn"}) \union {"panic"},
         \A t \in TCBs \ {me} : pc'[t] = pc[t] /\ ret'[t] = ret[t],
         \A t \in Threads \ {me} :
           slot'[t] = slot[t] /\ children'[t] = children[t] /\ lockOf'[t] = lockOf[t],
         UNCHANGED <<cpuVars, why, resume, hand, noPreempt, readyQ, zombies, waiting>>,
         ret'[me] # "spawn",
         pc'[me] \in {"get", "got"} => slot'[me] \in Slots /\ children'[me][slot'[me]] # None,
         pc'[me] = "locked" => lockOf'[me] # None
  PROVE  SwitchInv'
<1>1. /\ active' = active /\ stack' = stack /\ chosen' = chosen /\ prev' = prev
      /\ why' = why /\ resume' = resume /\ hand' = hand /\ noPreempt' = noPreempt
      /\ readyQ' = readyQ /\ zombies' = zombies /\ waiting' = waiting
  BY DEF cpuVars
<1>2. /\ "commit" \notin Working /\ "switch" \notin Working
      /\ "panic" \notin Working /\ "panic" \notin Blocking
      /\ Blocking \cap Working = {}
  BY DEF Blocking, Working
<1>3. me \in TCBs /\ me \notin Cores /\ resume[me] = "run"
  BY Running, Names
<1>4. Quiet(c, me)
  BY <1>1, <1>2, <1>3 DEF Quiet
<1> QED BY <1>3, <1>4, QuietStep

(* monitor_add() keeps the invariant.                                      *)
LEMMA MonitorInv ==
  ASSUME SwitchInv, NEW c \in Cores, Monitor(c)
  PROVE  SwitchInv'
<1>1. PICK me \in TCBs : me = stack[c] /\ prev[c] = None /\ pc[me] = "block"
  BY DEF SwitchInv, TypeOK, Monitor, At
<1>2. /\ pc' = [pc EXCEPT ![me] = "remove"]
      /\ armed' = [armed EXCEPT ![c] = TRUE]
      /\ UNCHANGED <<cpuVars, tcbVars, readyQ, zombies, semVars, procVars>>
  BY <1>1 DEF Monitor, Goto
<1> USE DEF cpuVars, tcbVars, semVars, procVars
<1>3. pc' \in [TCBs -> PCs] /\ armed' \in [Cores -> BOOLEAN]
  BY <1>2 DEF SwitchInv, TypeOK, PCs, OnCpu, Blocking
<1>4. TypeOK'
  BY <1>2, <1>3 DEF SwitchInv, TypeOK
<1>5. pc'[me] = "remove" /\ \A t \in TCBs \ {me} : pc'[t] = pc[t]
  BY <1>1, <1>2 DEF SwitchInv, TypeOK
<1> QED BY <1>1, <1>2, <1>4, <1>5, BlockStep DEF Blocking

(* A write to the monitored word ends mwait.                               *)
LEMMA MonitorWakeInv ==
  ASSUME SwitchInv, NEW c \in Cores, MonitorWake(c)
  PROVE  SwitchInv'
<1>1. PICK me \in TCBs : me = stack[c] /\ prev[c] = None /\ pc[me] = "mwait"
  BY DEF SwitchInv, TypeOK, MonitorWake, At
<1>2. /\ pc' = [pc EXCEPT ![me] = "block"]
      /\ UNCHANGED <<cpuVars, armed, tcbVars, readyQ, zombies, semVars, procVars>>
  BY <1>1 DEF MonitorWake, Goto
<1> USE DEF cpuVars, tcbVars, semVars, procVars
<1>3. pc' \in [TCBs -> PCs]
  BY <1>2 DEF SwitchInv, TypeOK, PCs, OnCpu, Blocking
<1>4. TypeOK'
  BY <1>2, <1>3 DEF SwitchInv, TypeOK
<1>5. pc'[me] = "block" /\ \A t \in TCBs \ {me} : pc'[t] = pc[t]
  BY <1>1, <1>2 DEF SwitchInv, TypeOK
<1> QED BY <1>1, <1>2, <1>4, <1>5, BlockStep DEF Blocking

(* An interrupt ends mwait.                                                *)
LEMMA TimerWakeInv ==
  ASSUME SwitchInv, NEW c \in Cores, TimerWake(c)
  PROVE  SwitchInv'
<1>1. PICK me \in TCBs : me = stack[c] /\ prev[c] = None /\ pc[me] = "mwait"
  BY DEF SwitchInv, TypeOK, TimerWake, At
<1>2. /\ pc' = [pc EXCEPT ![me] = "block"]
      /\ armed' = [armed EXCEPT ![c] = FALSE]
      /\ UNCHANGED <<cpuVars, tcbVars, readyQ, zombies, semVars, procVars>>
  BY <1>1 DEF TimerWake, Goto
<1> USE DEF cpuVars, tcbVars, semVars, procVars
<1>3. pc' \in [TCBs -> PCs] /\ armed' \in [Cores -> BOOLEAN]
  BY <1>2 DEF SwitchInv, TypeOK, PCs, OnCpu, Blocking
<1>4. TypeOK'
  BY <1>2, <1>3 DEF SwitchInv, TypeOK
<1>5. pc'[me] = "block" /\ \A t \in TCBs \ {me} : pc'[t] = pc[t]
  BY <1>1, <1>2 DEF SwitchInv, TypeOK
<1> QED BY <1>1, <1>2, <1>4, <1>5, BlockStep DEF Blocking

(* A yield that finds nobody ready returns.                                *)
LEMMA RemoveReturnInv ==
  ASSUME SwitchInv, NEW c \in Cores, RemoveReturn(c)
  PROVE  SwitchInv'
<1>1. PICK me \in TCBs : /\ me = stack[c] /\ prev[c] = None /\ pc[me] = "remove"
                         /\ why[me] = "yield"
  BY DEF SwitchInv, TypeOK, RemoveReturn, At
<1>2. /\ pc' = [pc EXCEPT ![me] = resume[me]]
      /\ why' = [why EXCEPT ![me] = "stop"]
      /\ resume' = [resume EXCEPT ![me] = "run"]
      /\ irqOff' = [irqOff EXCEPT ![me] = FALSE]
      /\ armed' = [d \in Cores |-> FALSE]
      /\ UNCHANGED <<cpuVars, ret, hand, noPreempt, readyQ, zombies, semVars, procVars>>
  BY <1>1 DEF RemoveReturn, Continue, LockStored
<1> USE DEF cpuVars, semVars, procVars
<1>3. /\ pc' \in [TCBs -> PCs] /\ armed' \in [Cores -> BOOLEAN]
      /\ irqOff' \in [TCBs -> BOOLEAN]
      /\ resume' \in [TCBs -> Working]
      /\ why' \in [TCBs -> {"yield", "stop"} \union Sems]
  <2>1. Working \subseteq PCs /\ "run" \in Working
    BY DEF PCs, OnCpu, Working
  <2> QED BY <1>1, <1>2, <2>1 DEF SwitchInv, TypeOK
<1>4. TypeOK'
  BY <1>2, <1>3 DEF SwitchInv, TypeOK
<1>5. /\ pc'[me] = resume[me] /\ resume'[me] = "run" /\ resume[me] \in Working
      /\ \A t \in TCBs \ {me} :
           pc'[t] = pc[t] /\ why'[t] = why[t] /\ resume'[t] = resume[t]
  BY <1>1, <1>2 DEF SwitchInv, TypeOK
<1>6. /\ active' = active /\ stack' = stack /\ chosen' = chosen /\ prev' = prev
      /\ ret' = ret /\ hand' = hand
      /\ noPreempt' = noPreempt /\ readyQ' = readyQ /\ zombies' = zombies
      /\ waiting' = waiting /\ slot' = slot /\ children' = children
      /\ lockOf' = lockOf
  BY <1>2
<1>7. /\ me \notin Cores
      /\ resume[me] = "wake" => hand[me] # None
      /\ ret[me] = "spawn" => resume[me] = "reap"
      /\ resume[me] \in {"get", "got"} =>
           slot[me] \in Slots /\ children[me][slot[me]] # None
      /\ resume[me] = "locked" => lockOf[me] # None
  BY <1>1, Running DEF Blocking
<1>8. /\ "commit" \notin Working /\ "switch" \notin Working
      /\ Blocking \cap Working = {}
      /\ resume[me] = "spawn" \/ ret[me] = "spawn" => Spawning(me)
  BY DEF Working, Blocking, Spawning
<1>9. Quiet(c, me)
  BY <1>1, <1>5, <1>6, <1>7, <1>8 DEF Quiet
<1> QED BY <1>4, <1>9, QuietStep

(* exit starts.                                                            *)
LEMMA ExitInv ==
  ASSUME SwitchInv, NEW c \in Cores, Exit(c)
  PROVE  SwitchInv'
<1>1. PICK me \in TCBs : me = stack[c] /\ prev[c] = None /\ pc[me] = "run"
  BY DEF SwitchInv, TypeOK, At, Exit, InProcess
<1>2. /\ me \in Threads /\ resume[me] = "run" /\ ret[me] # "spawn"
      /\ pc[me] \in Working
  BY <1>1, Running DEF Blocking, Working
<1>3. /\ pc' = [pc EXCEPT ![me] = "setting"]
      /\ UNCHANGED <<cpuVars, armed, tcbVars, readyQ, zombies, semVars, procVars>>
  BY <1>1 DEF Exit, InProcess, Goto
<1> USE DEF cpuVars, tcbVars, semVars, procVars
<1>4. pc' \in [TCBs -> PCs]
  BY <1>3 DEF SwitchInv, TypeOK, PCs, OnCpu, Working
<1>5. TypeOK'
  BY <1>3, <1>4 DEF SwitchInv, TypeOK
<1>6. pc'[me] = "setting" /\ \A t \in TCBs \ {me} : pc'[t] = pc[t]
  BY <1>1, <1>3 DEF SwitchInv, TypeOK
<1> QED BY <1>1, <1>2, <1>3, <1>5, <1>6, CallStep DEF Working

(* fork finds no slot.                                                     *)
LEMMA ForkFailsInv ==
  ASSUME SwitchInv, NEW c \in Cores, ForkFails(c)
  PROVE  SwitchInv'
<1>1. PICK me \in TCBs : me = stack[c] /\ prev[c] = None /\ pc[me] = "run"
  BY DEF SwitchInv, TypeOK, At, ForkFails, InProcess
<1>2. /\ me \in Threads /\ resume[me] = "run" /\ ret[me] # "spawn"
      /\ pc[me] \in Working
  BY <1>1, Running DEF Blocking, Working
<1>3. /\ pc' = [pc EXCEPT ![me] = "reap"]
      /\ ret' = [ret EXCEPT ![me] = "setting"]
      /\ UNCHANGED <<cpuVars, armed, why, resume, hand, noPreempt, irqOff, readyQ,
                     zombies, semVars, procVars>>
  BY <1>1 DEF ForkFails, InProcess, Goto
<1> USE DEF cpuVars, tcbVars, semVars, procVars
<1>4. pc' \in [TCBs -> PCs] /\ ret' \in [TCBs -> Returns]
  BY <1>3 DEF SwitchInv, TypeOK, PCs, OnCpu, Working, Returns
<1>5. TypeOK'
  BY <1>3, <1>4 DEF SwitchInv, TypeOK
<1>6. /\ pc'[me] = "reap" /\ ret'[me] = "setting"
      /\ \A t \in TCBs \ {me} : pc'[t] = pc[t] /\ ret'[t] = ret[t]
  BY <1>1, <1>3 DEF SwitchInv, TypeOK
<1> QED BY <1>1, <1>2, <1>3, <1>5, <1>6, CallStep DEF Working

(* The reaper starts another round.                                        *)
LEMMA ReaperLoopInv ==
  ASSUME SwitchInv, NEW c \in Cores, ReaperLoop(c)
  PROVE  SwitchInv'
<1>1. PICK me \in TCBs : me = stack[c] /\ prev[c] = None /\ pc[me] = "run"
  BY DEF SwitchInv, TypeOK, At, ReaperLoop
<1>2. /\ me \in Threads /\ resume[me] = "run" /\ ret[me] # "spawn"
      /\ pc[me] \in Working
  BY <1>1, Running DEF Blocking, Working
<1>3. /\ pc' = [pc EXCEPT ![me] = "reap"]
      /\ ret' = [ret EXCEPT ![me] = "yield"]
      /\ UNCHANGED <<cpuVars, armed, why, resume, hand, noPreempt, irqOff, readyQ,
                     zombies, semVars, procVars>>
  BY <1>1 DEF ReaperLoop, Goto
<1> USE DEF cpuVars, tcbVars, semVars, procVars
<1>4. pc' \in [TCBs -> PCs] /\ ret' \in [TCBs -> Returns]
  BY <1>3 DEF SwitchInv, TypeOK, PCs, OnCpu, Working, Returns
<1>5. TypeOK'
  BY <1>3, <1>4 DEF SwitchInv, TypeOK
<1>6. /\ pc'[me] = "reap" /\ ret'[me] = "yield"
      /\ \A t \in TCBs \ {me} : pc'[t] = pc[t] /\ ret'[t] = ret[t]
  BY <1>1, <1>3 DEF SwitchInv, TypeOK
<1> QED BY <1>1, <1>2, <1>3, <1>5, <1>6, CallStep DEF Working

(* Future::get looks at isReady.                                           *)
LEMMA WaitInv ==
  ASSUME SwitchInv, NEW c \in Cores, NEW i \in Slots, Wait(c, i)
  PROVE  SwitchInv'
<1>1. PICK me \in TCBs : me = stack[c] /\ prev[c] = None /\ pc[me] = "run"
  BY DEF SwitchInv, TypeOK, At, Wait, InProcess
<1>2. /\ me \in Threads /\ resume[me] = "run" /\ ret[me] # "spawn"
      /\ pc[me] \in Working
  BY <1>1, Running DEF Blocking, Working
<1>3. /\ pc' = [pc EXCEPT ![me] = IF isReady[children[me][i]] THEN "waited" ELSE "get"]
      /\ slot' = [slot EXCEPT ![me] = i]
      /\ children[me][i] # None
      /\ UNCHANGED <<cpuVars, armed, tcbVars, readyQ, zombies, semVars, lockOf,
                     runTime, killFlag, isReady, children, killFlags>>
  BY <1>1 DEF Wait, InProcess, Goto
<1> USE DEF cpuVars, tcbVars, semVars, procVars
<1>4. /\ pc' \in [TCBs -> PCs] /\ pc'[me] \in {"waited", "get"}
      /\ \A t \in TCBs \ {me} : pc'[t] = pc[t]
  BY <1>1, <1>3 DEF SwitchInv, TypeOK, PCs, OnCpu, Working
<1>5. /\ slot' \in [Threads -> 0..NCHILD] /\ slot'[me] = i
      /\ \A t \in Threads \ {me} : slot'[t] = slot[t]
  BY <1>2, <1>3, SchedulerAssumption DEF SwitchInv, TypeOK, Slots
<1>6. TypeOK'
  BY <1>3, <1>4, <1>5 DEF SwitchInv, TypeOK
<1> QED BY <1>1, <1>2, <1>3, <1>4, <1>5, <1>6, CallStep DEF Working

(* wait clears the slot of the child.                                      *)
LEMMA WaitDoneInv ==
  ASSUME SwitchInv, NEW c \in Cores, WaitDone(c)
  PROVE  SwitchInv'
<1>1. PICK me \in TCBs : me = stack[c] /\ prev[c] = None /\ pc[me] = "waited"
  BY DEF SwitchInv, TypeOK, At, WaitDone
<1>2. /\ me \in Threads /\ resume[me] = "run" /\ ret[me] # "spawn"
      /\ pc[me] \in Working
  BY <1>1, Running DEF Blocking, Working
<1>3. /\ pc' = [pc EXCEPT ![me] = "run"]
      /\ children' = [children EXCEPT ![me][slot[me]] = None]
      /\ slot' = [slot EXCEPT ![me] = 0]
      /\ UNCHANGED <<cpuVars, armed, tcbVars, readyQ, zombies, semVars, lockOf,
                     runTime, killFlag, isReady, killFlags>>
  BY <1>1 DEF WaitDone, Goto
<1> USE DEF cpuVars, tcbVars, semVars, procVars
<1>4. /\ pc' \in [TCBs -> PCs] /\ pc'[me] = "run"
      /\ \A t \in TCBs \ {me} : pc'[t] = pc[t]
  BY <1>1, <1>3 DEF SwitchInv, TypeOK, PCs, OnCpu, Working
<1>5. /\ slot' \in [Threads -> 0..NCHILD]
      /\ \A t \in Threads \ {me} : slot'[t] = slot[t]
  BY <1>2, <1>3, SchedulerAssumption DEF SwitchInv, TypeOK
<1>6. /\ children' \in [Threads -> [Slots -> Threads \union {None}]]
      /\ \A t \in Threads \ {me} : children'[t] = children[t]
  BY <1>2, <1>3 DEF SwitchInv, TypeOK
<1>7. TypeOK'
  BY <1>3, <1>4, <1>5, <1>6 DEF SwitchInv, TypeOK
<1> QED BY <1>1, <1>2, <1>3, <1>4, <1>5, <1>6, <1>7, CallStep DEF Working

(* close gives the slot of a child away.                                   *)
LEMMA DisownInv ==
  ASSUME SwitchInv, NEW c \in Cores, NEW i \in Slots, Disown(c, i)
  PROVE  SwitchInv'
<1>1. PICK me \in TCBs : me = stack[c] /\ prev[c] = None /\ pc[me] = "run"
  BY DEF SwitchInv, TypeOK, At, Disown, InProcess
<1>2. /\ me \in Threads /\ resume[me] = "run" /\ ret[me] # "spawn"
      /\ pc[me] \in Working
  BY <1>1, Running DEF Blocking, Working
<1>3. /\ children' = [children EXCEPT ![me][i] = None]
      /\ UNCHANGED <<cpuVars, armed, pc, tcbVars, readyQ, zombies, semVars, lockOf,
                     slot, runTime, killFlag, isReady, killFlags>>
  BY <1>1 DEF Disown, InProcess, Goto
<1> USE DEF cpuVars, tcbVars, semVars, procVars
<1>4. /\ children' \in [Threads -> [Slots -> Threads \union {None}]]
      /\ \A t \in Threads \ {me} : children'[t] = children[t]
  BY <1>2, <1>3 DEF SwitchInv, TypeOK
<1>5. TypeOK'
  BY <1>3, <1>4 DEF SwitchInv, TypeOK
<1> QED BY <1>1, <1>2, <1>3, <1>4, <1>5, CallStep DEF Working

(* kill raises the flag of a child.                                        *)
LEMMA KillInv ==
  ASSUME SwitchInv, NEW c \in Cores, NEW i \in Slots, Kill(c, i)
  PROVE  SwitchInv'
<1>1. PICK me \in TCBs : me = stack[c] /\ prev[c] = None /\ pc[me] = "run"
  BY DEF SwitchInv, TypeOK, At, Kill, InProcess
<1>2. /\ me \in Threads /\ resume[me] = "run" /\ ret[me] # "spawn"
      /\ pc[me] \in Working
  BY <1>1, Running DEF Blocking, Working
<1>3. /\ killFlags[me][i] \in Killable
      /\ killFlag' = [killFlag EXCEPT ![killFlags[me][i]] = TRUE]
      /\ killFlags' = [killFlags EXCEPT ![me][i] = None]
      /\ UNCHANGED <<cpuVars, armed, pc, tcbVars, readyQ, zombies, semVars, lockOf,
                     slot, runTime, isReady, children>>
  BY <1>1 DEF Kill, InProcess, Goto
<1> USE DEF cpuVars, tcbVars, semVars, procVars
<1>4. killFlags' \in [Threads -> [Slots -> Threads \union {None}]]
  BY <1>2, <1>3 DEF SwitchInv, TypeOK
<1>5. killFlag' \in [Threads -> BOOLEAN]
  BY <1>3 DEF SwitchInv, TypeOK
<1>6. TypeOK'
  BY <1>3, <1>4, <1>5 DEF SwitchInv, TypeOK
<1> QED BY <1>1, <1>2, <1>3, <1>6, CallStep DEF Working

(* Future::set, or its failing assertion.                                  *)
LEMMA SetFutureInv ==
  ASSUME SwitchInv, NEW c \in Cores, SetFuture(c)
  PROVE  SwitchInv'
<1>1. PICK me \in TCBs : me = stack[c] /\ prev[c] = None /\ pc[me] = "setting"
  BY DEF SwitchInv, TypeOK, At, SetFuture
<1>2. /\ me \in Threads /\ resume[me] = "run" /\ ret[me] # "spawn"
      /\ pc[me] \in Working
  BY <1>1, Running DEF Blocking, Working
<1>3. /\ \/ pc' = [pc EXCEPT ![me] = "panic"] /\ isReady' = isReady
         \/ pc' = [pc EXCEPT ![me] = "set"] /\ isReady' = [isReady EXCEPT ![me] = TRUE]
      /\ UNCHANGED <<cpuVars, armed, tcbVars, readyQ, zombies, semVars, lockOf,
                     slot, runTime, killFlag, children, killFlags>>
  BY <1>1 DEF SetFuture, Goto
<1> USE DEF cpuVars, tcbVars, semVars, procVars
<1>4. /\ pc' \in [TCBs -> PCs] /\ pc'[me] \in {"panic", "set"}
      /\ \A t \in TCBs \ {me} : pc'[t] = pc[t]
  <2>1. "panic" \in PCs /\ "set" \in PCs
    BY DEF PCs, OnCpu, Working
  <2>2. PICK p \in {"panic", "set"} : pc' = [pc EXCEPT ![me] = p]
    BY <1>3
  <2> QED BY <1>1, <2>1, <2>2 DEF SwitchInv, TypeOK
<1>5. isReady' \in [Threads -> BOOLEAN]
  BY <1>3 DEF SwitchInv, TypeOK
<1>6. TypeOK'
  BY <1>3, <1>4, <1>5 DEF SwitchInv, TypeOK
<1> QED BY <1>1, <1>2, <1>3, <1>4, <1>6, CallStep DEF Working

(* stop() enters block().                                                  *)
LEMMA StopInv ==
  ASSUME SwitchInv, NEW c \in Cores, Stop(c)
  PROVE  SwitchInv'
<1>1. PICK me \in TCBs : me = stack[c] /\ prev[c] = None /\ pc[me] = "stop"
  BY DEF SwitchInv, TypeOK, At, Stop
<1>2. /\ resume[me] = "run" /\ ret[me] # "spawn"
  BY <1>1, Running DEF Blocking, Working
<1>3. /\ pc' = [pc EXCEPT ![me] = "block"]
      /\ why' = [why EXCEPT ![me] = "stop"]
      /\ resume' = [resume EXCEPT ![me] = "stop"]
      /\ noPreempt' = [noPreempt EXCEPT ![me] = TRUE]
      /\ UNCHANGED <<cpuVars, armed, ret, hand, irqOff, readyQ, zombies, semVars, procVars>>
  BY <1>1 DEF Stop, Block, Goto
<1> USE DEF cpuVars, semVars, procVars
<1>4. /\ pc' \in [TCBs -> PCs] /\ resume' \in [TCBs -> Working]
      /\ why' \in [TCBs -> {"yield", "stop"} \union Sems]
      /\ noPreempt' \in [TCBs -> BOOLEAN]
  <2>1. "block" \in PCs /\ "stop" \in Working
    BY DEF PCs, OnCpu, Blocking, Working
  <2> QED BY <1>3, <2>1 DEF SwitchInv, TypeOK
<1>5. TypeOK'
  BY <1>3, <1>4 DEF SwitchInv, TypeOK
<1>6. /\ pc'[me] = "block" /\ why'[me] = "stop" /\ resume'[me] = "stop" /\ noPreempt'[me]
      /\ \A t \in TCBs \ {me} : /\ pc'[t] = pc[t] /\ why'[t] = why[t]
                                 /\ resume'[t] = resume[t] /\ noPreempt'[t] = noPreempt[t]
  BY <1>1, <1>3 DEF SwitchInv, TypeOK
<1>7. "block" \in Blocking /\ "block" \notin Working
  BY DEF Blocking, Working
<1>8. Quiet(c, me)
  BY <1>1, <1>2, <1>3, <1>6, <1>7, Names DEF Quiet
<1> QED BY <1>5, <1>8, QuietStep

(* yield() enters block().                                                 *)
LEMMA YieldInv ==
  ASSUME SwitchInv, NEW c \in Cores, Yield(c)
  PROVE  SwitchInv'
<1>1. PICK me \in TCBs : me = stack[c] /\ prev[c] = None /\ pc[me] = "yield"
  BY DEF SwitchInv, TypeOK, At, Yield
<1>2. /\ resume[me] = "run" /\ ret[me] # "spawn" /\ me \in Threads
  BY <1>1, Running DEF Blocking, Working
<1>3. /\ pc' = [pc EXCEPT ![me] = "block"]
      /\ why' = [why EXCEPT ![me] = "yield"]
      /\ resume' = [resume EXCEPT ![me] = "run"]
      /\ noPreempt' = [noPreempt EXCEPT ![me] = TRUE]
      /\ UNCHANGED <<cpuVars, armed, ret, hand, irqOff, readyQ, zombies, semVars, procVars>>
  BY <1>1 DEF Yield, Block, Goto
<1> USE DEF cpuVars, semVars, procVars
<1>4. /\ pc' \in [TCBs -> PCs] /\ resume' \in [TCBs -> Working]
      /\ why' \in [TCBs -> {"yield", "stop"} \union Sems]
      /\ noPreempt' \in [TCBs -> BOOLEAN]
  <2>1. "block" \in PCs /\ "run" \in Working
    BY DEF PCs, OnCpu, Blocking, Working
  <2> QED BY <1>3, <2>1 DEF SwitchInv, TypeOK
<1>5. TypeOK'
  BY <1>3, <1>4 DEF SwitchInv, TypeOK
<1>6. /\ pc'[me] = "block" /\ why'[me] = "yield" /\ resume'[me] = "run" /\ noPreempt'[me]
      /\ \A t \in TCBs \ {me} : /\ pc'[t] = pc[t] /\ why'[t] = why[t]
                                 /\ resume'[t] = resume[t] /\ noPreempt'[t] = noPreempt[t]
  BY <1>1, <1>3 DEF SwitchInv, TypeOK
<1>7. "block" \in Blocking /\ "block" \notin Working
  BY DEF Blocking, Working
<1>8. Quiet(c, me)
  BY <1>1, <1>2, <1>3, <1>6, <1>7, Names DEF Quiet
<1> QED BY <1>5, <1>8, QuietStep
-----------------------------------------------------------------------------
(* down() either takes a token or enters block() with the lock held.       *)
LEMMA DownInv ==
  ASSUME SwitchInv, NEW c \in Cores, NEW me \in Threads, NEW s \in Sems, NEW back,
         me = stack[c], prev[c] = None, pc[me] \in {"run", "get"},
         back \in {"locked", "got"}, Down(me, s, back),
         UNCHANGED <<slot, runTime, killFlag, isReady, children, killFlags>>,
         lockOf' \in [Threads -> Locks \union {None}],
         \A t \in Threads \ {me} : lockOf'[t] = lockOf[t],
         back = "locked" => lockOf'[me] # None,
         back = "got" => slot[me] \in Slots /\ children[me][slot[me]] # None
  PROVE  SwitchInv'
<1>1. me \in TCBs /\ pc[me] \in Working /\ resume[me] = "run" /\ ret[me] # "spawn"
  <2>1. me \in TCBs /\ pc[me] \in Working /\ pc[me] # "reap"
    BY Names DEF Working
  <2> QED BY <2>1, Running
<1>2. UNCHANGED <<active, stack, chosen, prev, armed, ret, hand, readyQ, zombies,
                  waiting, slot, runTime, killFlag, isReady, children, killFlags>>
  BY DEF Down, cpuVars
<1>3. CASE /\ count[s] > 0
           /\ count' = [count EXCEPT ![s] = @ - 1]
           /\ pc' = [pc EXCEPT ![me] = back]
           /\ UNCHANGED <<why, resume, noPreempt, irqOff, semLock>>
  <2>1. /\ pc' \in [TCBs -> PCs] /\ pc'[me] = back
        /\ \A t \in TCBs \ {me} : pc'[t] = pc[t]
    <3>1. back \in PCs
      BY DEF PCs, OnCpu, Working
    <3> QED BY <1>1, <1>3, <3>1 DEF SwitchInv, TypeOK
  <2>2. count' \in [Sems -> Nat]
    BY <1>3 DEF SwitchInv, TypeOK
  <2>3. TypeOK'
    BY <1>2, <1>3, <2>1, <2>2 DEF SwitchInv, TypeOK
  <2>4. back \in Working \ {"wake", "spawn"}
    BY DEF Working
  <2> QED BY <1>1, <1>2, <1>3, <2>1, <2>3, <2>4, CallStep DEF cpuVars
<1>4. CASE /\ semLock' = [semLock EXCEPT ![s] = me]
           /\ irqOff' = [irqOff EXCEPT ![me] = TRUE]
           /\ pc' = [pc EXCEPT ![me] = "block"]
           /\ why' = [why EXCEPT ![me] = s]
           /\ resume' = [resume EXCEPT ![me] = back]
           /\ noPreempt' = [noPreempt EXCEPT ![me] = TRUE]
           /\ UNCHANGED count
  <2>1. "block" \in PCs /\ back \in Working
    BY DEF PCs, OnCpu, Blocking, Working
  <2>2. /\ pc' \in [TCBs -> PCs] /\ resume' \in [TCBs -> Working]
        /\ why' \in [TCBs -> {"yield", "stop"} \union Sems]
        /\ noPreempt' \in [TCBs -> BOOLEAN] /\ irqOff' \in [TCBs -> BOOLEAN]
        /\ semLock' \in [Sems -> TCBs \union {None}]
    BY <1>1, <1>4, <2>1 DEF SwitchInv, TypeOK
  <2>3. TypeOK'
    BY <1>2, <1>4, <2>2 DEF SwitchInv, TypeOK
  <2>4. /\ pc'[me] = "block" /\ resume'[me] = back /\ noPreempt'[me]
        /\ \A t \in TCBs \ {me} : /\ pc'[t] = pc[t] /\ why'[t] = why[t]
                                   /\ resume'[t] = resume[t] /\ noPreempt'[t] = noPreempt[t]
    BY <1>1, <1>4 DEF SwitchInv, TypeOK
  <2>5. /\ "block" \in Blocking /\ "block" \notin Working
        /\ pc[me] \notin {"commit", "switch"} /\ me \notin Cores
    BY Names DEF Blocking, Working
  <2>6. Quiet(c, me)
    BY <1>1, <1>2, <2>4, <2>5 DEF Quiet
  <2> QED BY <1>1, <2>3, <2>6, QuietStep
<1> QED BY <1>3, <1>4 DEF Down, Block, Goto

(* BlockingLock::lock().                                                   *)
LEMMA LockInv ==
  ASSUME SwitchInv, NEW c \in Cores, NEW l \in Locks, Lock(c, l)
  PROVE  SwitchInv'
<1> DEFINE me == stack[c]
<1>1. /\ me \in Threads /\ prev[c] = None /\ pc[me] = "run"
      /\ lockOf \in [Threads -> Locks \union {None}]
      /\ lockOf' = [lockOf EXCEPT ![me] = l] /\ Down(me, l, "locked")
      /\ UNCHANGED <<slot, runTime, killFlag, isReady, children, killFlags>>
  BY DEF SwitchInv, TypeOK, Lock, InProcess, At
<1> HIDE DEF me
<1>2. /\ lockOf' \in [Threads -> Locks \union {None}]
      /\ \A t \in Threads \ {me} : lockOf'[t] = lockOf[t]
      /\ lockOf'[me] # None
  BY <1>1, Names
<1> QED BY <1>1, <1>2, Names, DownInv DEF me

(* The down() of Future::get.                                              *)
LEMMA GetDownInv ==
  ASSUME SwitchInv, NEW c \in Cores, GetDown(c)
  PROVE  SwitchInv'
<1> DEFINE me == stack[c]
           s == children[me][slot[me]]
<1>1. me \in TCBs /\ prev[c] = None /\ pc[me] = "get"
  BY DEF SwitchInv, TypeOK, GetDown, At
<1>2. me \in Threads
  BY <1>1 DEF SwitchInv, IdleInv, IdleStops, Blocking, TCBs
<1>3. slot[me] \in Slots /\ s # None
  BY <1>1, <1>2 DEF SwitchInv, CallInv
<1>4. s \in Sems
  BY <1>2, <1>3, Names DEF SwitchInv, TypeOK
<1>5. Down(me, s, "got") /\ UNCHANGED procVars
  BY DEF GetDown
<1>6. lockOf' \in [Threads -> Locks \union {None}] /\ lockOf' = lockOf
  BY <1>5 DEF SwitchInv, TypeOK, procVars
<1> QED BY <1>1, <1>2, <1>3, <1>4, <1>5, <1>6, DownInv DEF procVars

(* apitHandler preempts the thread that runs, or makes it exit.            *)
LEMMA TickInv ==
  ASSUME SwitchInv, NEW c \in Cores, Tick(c)
  PROVE  SwitchInv'
<1>1. PICK me \in TCBs :
        me = active[c] /\ prev[c] = None /\ me \notin Cores /\ ~noPreempt[me]
  BY DEF SwitchInv, TypeOK, Tick
<1>2. me = stack[c]
  BY <1>1 DEF SwitchInv, ActiveInv
<1>3. me \in Threads /\ pc[me] \in Working
  BY <1>1, <1>2 DEF SwitchInv, ActiveInv, StackInv, OnCpu, TCBs, Tick
<1>4. /\ resume[me] = "run" /\ (ret[me] = "spawn" => pc[me] = "reap")
      /\ pc[me] = "wake" => hand[me] # None
  BY <1>1, <1>2, <1>3, Running
<1>5. /\ runTime' = [runTime EXCEPT ![me] = @ + 1] /\ runTime[me] < MaxRunTime
      /\ irqOff' = [irqOff EXCEPT ![me] = TRUE]
      /\ UNCHANGED <<active, stack, chosen, prev, armed, readyQ, zombies, count, semLock,
                     waiting, lockOf, killFlag, isReady, children, killFlags>>
  BY <1>1 DEF Tick, cpuVars, semVars
<1>6. runTime' \in [Threads -> 0..MaxRunTime] /\ irqOff' \in [TCBs -> BOOLEAN]
  <2>1. runTime' \in [Threads -> 0..MaxRunTime]
    <3>1. runTime \in [Threads -> 0..MaxRunTime] /\ MaxRunTime \in Nat
      BY SchedulerAssumption DEF SwitchInv, TypeOK
    <3> QED BY <1>3, <1>5, <3>1
  <2>2. irqOff' \in [TCBs -> BOOLEAN]
    BY <1>5 DEF SwitchInv, TypeOK
  <2> QED BY <2>1, <2>2
<1>7. /\ pc[me] \notin {"commit", "switch"}
      /\ "block" \in Blocking /\ "block" \notin Working
      /\ "setting" \in Working /\ "setting" \notin Blocking
      /\ "block" \in PCs /\ "setting" \in PCs /\ "run" \in Returns
  BY <1>3 DEF Working, Blocking, PCs, OnCpu, Returns
<1>8. CASE killFlag[me]
  <2>1. /\ pc' = [pc EXCEPT ![me] = "setting"]
        /\ hand' = [hand EXCEPT ![me] = None]
        /\ ret' = [ret EXCEPT ![me] = "run"]
        /\ slot' = [slot EXCEPT ![me] = 0]
        /\ UNCHANGED <<why, resume, noPreempt>>
    BY <1>1, <1>8 DEF Tick, Goto
  <2>2. /\ pc' \in [TCBs -> PCs] /\ hand' \in [TCBs -> Threads \union {None}]
        /\ ret' \in [TCBs -> Returns]
    BY <1>7, <2>1 DEF SwitchInv, TypeOK
  <2>3. /\ slot' \in [Threads -> 0..NCHILD]
        /\ \A t \in Threads \ {me} : slot'[t] = slot[t]
    BY <1>3, <2>1, SchedulerAssumption DEF SwitchInv, TypeOK
  <2>4. TypeOK'
    BY <1>5, <1>6, <2>1, <2>2, <2>3 DEF SwitchInv, TypeOK
  <2>5. /\ pc'[me] = "setting" /\ hand'[me] = None /\ ret'[me] = "run"
        /\ \A t \in TCBs \ {me} :
             pc'[t] = pc[t] /\ hand'[t] = hand[t] /\ ret'[t] = ret[t]
    BY <1>1, <2>1 DEF SwitchInv, TypeOK
  <2>6. /\ resume'[me] = "run" /\ pc'[me] \notin Blocking
        /\ pc'[me] \in (Working \union Blocking \union {"panic"}) \ {"commit", "switch"}
    BY <1>4, <1>7, <2>1, <2>5
  <2>7. Quiet(c, me)
    BY <1>1, <1>2, <1>3, <1>5, <1>7, <2>1, <2>3, <2>5, <2>6 DEF Quiet
  <2> QED BY <2>4, <2>7, QuietStep
<1>9. CASE ~killFlag[me]
  <2>1. /\ pc' = [pc EXCEPT ![me] = "block"]
        /\ why' = [why EXCEPT ![me] = "yield"]
        /\ resume' = [resume EXCEPT ![me] = pc[me]]
        /\ noPreempt' = [noPreempt EXCEPT ![me] = TRUE]
        /\ UNCHANGED <<hand, ret, slot>>
    BY <1>1, <1>9 DEF Tick, Block, Goto
  <2>2. /\ pc' \in [TCBs -> PCs] /\ resume' \in [TCBs -> Working]
        /\ why' \in [TCBs -> {"yield", "stop"} \union Sems]
        /\ noPreempt' \in [TCBs -> BOOLEAN]
    BY <1>3, <1>7, <2>1 DEF SwitchInv, TypeOK
  <2>3. TypeOK'
    BY <1>5, <1>6, <2>1, <2>2 DEF SwitchInv, TypeOK
  <2>4. /\ pc'[me] = "block" /\ resume'[me] = pc[me] /\ noPreempt'[me]
        /\ \A t \in TCBs \ {me} : /\ pc'[t] = pc[t] /\ why'[t] = why[t]
                                   /\ resume'[t] = resume[t] /\ noPreempt'[t] = noPreempt[t]
    BY <1>1, <2>1 DEF SwitchInv, TypeOK
  <2>5. /\ pc[me] = "spawn" \/ ret[me] = "spawn" => Spawning(me)
        /\ pc[me] \in {"get", "got"} => slot[me] \in Slots /\ children[me][slot[me]] # None
        /\ pc[me] = "locked" => lockOf[me] # None
    BY <1>3 DEF SwitchInv, CallInv, Spawning
  <2>6. Quiet(c, me)
    BY <1>1, <1>2, <1>4, <1>5, <1>7, <2>1, <2>4, <2>5 DEF Quiet
  <2> QED BY <2>3, <2>6, QuietStep
<1> QED BY <1>8, <1>9
(* The thread on core c goes on and another thread, which is in no core's  *)
(* hands, moves from one place where it is kept to another.                *)
LEMMA HandOverKeepsPlaces ==
  ASSUME SwitchInv, NEW c \in Cores, NEW me \in TCBs, NEW w \in Threads,
         me = stack[c], prev[c] = None, pc[me] \in Working, pc'[me] \in Working,
         pc[w] \in {"waiting", "woken", "zombie", "new", "made"},
         \A t \in TCBs : t # me /\ t # w => pc'[t] = pc[t],
         UNCHANGED <<active, stack, prev, chosen, noPreempt>>
  PROVE  StackInv' /\ ChosenInv' /\ ActiveInv'
<1> DEFINE p == pc'[me]
<1>1. /\ stack \in [Cores -> TCBs] /\ pc \in [TCBs -> PCs]
      /\ prev \in [Cores -> TCBs \union {None}]
      /\ chosen \in [Cores -> TCBs \union {None}] /\ w \in TCBs
  BY Names DEF SwitchInv, TypeOK
<1>2. w # me
  BY DEF Working
<1>3. pc'[me] = p /\ \A t \in TCBs \ {me, w} : pc'[t] = pc[t]
  OBVIOUS
<1>4. \A d \in Cores : /\ stack[d] # w /\ prev[d] # w /\ chosen[d] # w
                       /\ d # c => stack[d] # me
                       /\ prev[d] # me /\ chosen[d] # me
  BY <1>1, Points, Names DEF SwitchInv, StackInv, ChosenInv, TCBs
<1>5. p \in OnCpu /\ p \notin {"landing", "commit", "switch"} /\ p \notin Blocking
      /\ pc[me] \notin {"landing", "commit", "switch"}
  BY DEF Working, OnCpu, Blocking
<1>6. \A d \in Cores : d # c => pc'[stack[d]] = pc[stack[d]]
  BY <1>1, <1>3, <1>4
<1>7. \A d \in Cores : prev[d] # None => pc'[prev[d]] = pc[prev[d]]
  BY <1>1, <1>3, <1>4
<1>8. \A d \in Cores : chosen[d] # None => pc'[chosen[d]] = pc[chosen[d]]
  BY <1>1, <1>3, <1>4
<1>9. StackInv'
  <2>1. ASSUME NEW d \in Cores
        PROVE /\ pc'[stack[d]] \in OnCpu
              /\ prev[d] # None <=> pc'[stack[d]] = "landing"
              /\ prev[d] # None => pc'[prev[d]] = "leaving"
    <3>1. CASE d = c
      BY <1>3, <1>5, <3>1
    <3>2. CASE d # c
      BY <1>6, <1>7, <3>2 DEF SwitchInv, StackInv
    <3> QED BY <3>1, <3>2
  <2> QED BY <2>1 DEF SwitchInv, StackInv
<1>10. ChosenInv'
  <2>1. ASSUME NEW d \in Cores
        PROVE /\ chosen[d] # None <=> pc'[stack[d]] \in {"commit", "switch"}
              /\ chosen[d] \in Threads => pc'[chosen[d]] = "picked"
              /\ chosen[d] \in Cores => chosen[d] = d /\ pc'[d] = "parked"
    <3>1. /\ chosen[d] \in Threads => pc'[chosen[d]] = "picked"
          /\ chosen[d] \in Cores => chosen[d] = d /\ pc'[d] = "parked"
      BY <1>8, Names DEF SwitchInv, ChosenInv
    <3>2. CASE d = c
      BY <1>3, <1>5, <3>1, <3>2 DEF SwitchInv, ChosenInv
    <3>3. CASE d # c
      BY <1>6, <3>1, <3>3 DEF SwitchInv, ChosenInv
    <3> QED BY <3>2, <3>3
  <2>2. \A d, e \in Cores : chosen[d] = chosen[e] /\ chosen[d] # None => d = e
    BY DEF SwitchInv, ChosenInv
  <2>3. chosen' = chosen /\ stack' = stack
    OBVIOUS
  <2> HIDE <1>1
  <2> SUFFICES /\ \A d \in Cores :
                    /\ chosen'[d] # None <=> pc'[stack'[d]] \in {"commit", "switch"}
                    /\ chosen'[d] \in Threads => pc'[chosen'[d]] = "picked"
                    /\ chosen'[d] \in Cores => chosen'[d] = d /\ pc'[d] = "parked"
               /\ \A d, e \in Cores : chosen'[d] = chosen'[e] /\ chosen'[d] # None => d = e
    BY Zenon DEF ChosenInv
  <2> QED BY ONLY <2>1, <2>2, <2>3, Zenon
<1>11. ActiveInv'
  <2>1. ASSUME NEW d \in Cores
        PROVE /\ pc'[stack[d]] # "switch" => active[d] = stack[d]
              /\ pc'[stack[d]] = "switch" => active[d] = chosen[d] /\ noPreempt[chosen[d]]
              /\ pc'[stack[d]] \in Blocking => noPreempt[stack[d]]
    <3>1. CASE d = c
      BY <1>3, <1>5, <3>1 DEF SwitchInv, ActiveInv
    <3>2. CASE d # c
      BY <1>6, <3>2 DEF SwitchInv, ActiveInv
    <3> QED BY <3>1, <3>2
  <2> QED BY <2>1 DEF ActiveInv
<1> QED BY <1>9, <1>10, <1>11

(* Parts of QueueInv and HandInv that a step leaves alone.                 *)
LEMMA KeepsKept ==
  ASSUME NEW q \in Seq(Threads), NEW place, Keeps(q, place),
         \A t \in Threads : pc[t] = place => pc'[t] = place
  PROVE  /\ \A i \in 1..Len(q) : pc'[q[i]] = place
         /\ NoDuplicates(q)
BY DEF Keeps

LEMMA WaitersKept ==
  ASSUME SwitchInv, waiting' = waiting,
         \A t \in Threads : pc[t] = "waiting" => pc'[t] = "waiting" /\ why'[t] = why[t]
  PROVE  \A s \in Sems : /\ Keeps(waiting[s], "waiting")'
                         /\ \A i \in 1..Len(waiting'[s]) : why'[waiting'[s][i]] = s
<1>1. \A s \in Sems : \A i \in 1..Len(waiting[s]) : waiting[s][i] \in Threads
  BY DEF SwitchInv, TypeOK
<1> QED BY <1>1 DEF SwitchInv, QueueInv, Keeps

(* schedule() of a thread that was not queued.                             *)
LEMMA ScheduleKeeps ==
  ASSUME SwitchInv, NEW w \in Threads, Schedule(w), pc[w] # "ready", pc'[w] = "ready",
         \A t \in Threads : pc[t] = "ready" => pc'[t] = "ready"
  PROVE  /\ readyQ' \in Seq(Threads) /\ armed' \in [Cores -> BOOLEAN]
         /\ Keeps(readyQ, "ready")'
<1>1. /\ readyQ \in Seq(Threads) /\ Keeps(readyQ, "ready")
      /\ readyQ' = Add(readyQ, runTime, w) /\ armed \in [Cores -> BOOLEAN]
      /\ armed' = [d \in Cores |-> FALSE]
      /\ runTime \in [Threads -> 0..MaxRunTime]
  BY DEF SwitchInv, TypeOK, QueueInv, Schedule, LockStored
<1>2. runTime \in [Threads -> Nat]
  BY <1>1, SchedulerAssumption
<1>3. \A i \in 1..Len(readyQ) : readyQ[i] \in Threads /\ pc[readyQ[i]] = "ready"
  BY <1>1 DEF Keeps
<1>4. /\ readyQ' \in Seq(Threads)
      /\ \A k \in 1..Len(readyQ') :
           readyQ'[k] = w \/ \E i \in 1..Len(readyQ) : readyQ'[k] = readyQ[i]
  <2> DEFINE a == Add(readyQ, runTime, w)
  <2>1. /\ a \in Seq(Threads)
        /\ \A k \in 1..Len(a) : a[k] = w \/ \E i \in 1..Len(readyQ) : a[k] = readyQ[i]
    <3>1. readyQ \in Seq(Threads)
      BY <1>1
    <3>2. a \in Seq(Threads)
      BY <1>2, <3>1, AddEntries
    <3>3. \A k \in 1..Len(a) : a[k] = w \/ \E i \in 1..Len(readyQ) : a[k] = readyQ[i]
      BY <1>2, <3>1, AddEntries
    <3> QED BY <3>2, <3>3
  <2>2. readyQ' = a
    BY <1>1
  <2> HIDE DEF a
  <2> QED BY <2>1, <2>2
<1>5. NoDuplicates(readyQ')
  <2>1. NoDuplicates(readyQ) /\ \A i \in 1..Len(readyQ) : readyQ[i] # w
    BY <1>1, <1>3 DEF Keeps
  <2> QED BY <1>1, <1>2, <2>1, AddNoDuplicates
<1>6. \A k \in 1..Len(readyQ') : pc'[readyQ'[k]] = "ready"
  BY <1>3, <1>4
<1> QED BY <1>1, <1>4, <1>5, <1>6 DEF Keeps

(* up() adds a token or takes the first waiter out of its queue.           *)
LEMMA UpInv ==
  ASSUME SwitchInv, NEW c \in Cores, NEW me \in Threads, NEW s \in Sems, NEW back,
         me = stack[c], prev[c] = None, pc[me] \in {"locked", "got", "set"},
         back \in {"run", "waited", "stop"}, Up(me, s, back),
         UNCHANGED <<slot, runTime, killFlag, isReady, children, killFlags>>,
         lockOf' \in [Threads -> Locks \union {None}],
         \A t \in Threads \ {me} : lockOf'[t] = lockOf[t]
  PROVE  SwitchInv'
<1>1. /\ me \in TCBs /\ pc \in [TCBs -> PCs] /\ pc[me] \in Working
      /\ hand \in [TCBs -> Threads \union {None}] /\ count \in [Sems -> Nat]
      /\ ret \in [TCBs -> Returns] /\ waiting \in [Sems -> Seq(Threads)]
      /\ zombies \in Seq(Threads) /\ readyQ \in Seq(Threads)
  BY Names DEF SwitchInv, TypeOK, Working
<1>2. resume[me] = "run" /\ ret[me] # "spawn"
  BY <1>1 DEF SwitchInv, CallInv, Working
<1>3. UNCHANGED <<active, stack, chosen, prev, armed, why, resume, noPreempt, irqOff,
                  readyQ, zombies, semLock,
                  slot, runTime, killFlag, isReady, children, killFlags>>
  BY DEF Up, cpuVars
<1>4. CASE /\ count' = [count EXCEPT ![s] = @ + 1]
           /\ pc' = [pc EXCEPT ![me] = back]
           /\ UNCHANGED <<ret, hand, waiting>>
  <2>1. /\ pc' \in [TCBs -> PCs] /\ pc'[me] = back
        /\ \A t \in TCBs \ {me} : pc'[t] = pc[t]
    <3>1. back \in PCs
      BY DEF PCs, OnCpu, Working
    <3> QED BY <1>1, <1>4, <3>1
  <2>2. count' \in [Sems -> Nat]
    BY <1>1, <1>4
  <2>3. TypeOK'
    <3>1. TypeOK /\ lockOf' \in [Threads -> Locks \union {None}]
          /\ UNCHANGED <<ret, hand, waiting>>
      BY <1>4 DEF SwitchInv
    <3> QED BY ONLY <1>3, <2>1, <2>2, <3>1 DEF TypeOK
  <2>4. back \in Working \ {"wake", "spawn"} /\ back \notin {"get", "got", "locked"}
    BY DEF Working
  <2> QED BY <1>1, <1>2, <1>3, <1>4, <2>1, <2>3, <2>4, CallStep DEF cpuVars
<1>5. CASE /\ waiting[s] # << >>
           /\ hand' = [hand EXCEPT ![me] = Head(waiting[s])]
           /\ waiting' = [waiting EXCEPT ![s] = Tail(@)]
           /\ ret' = [ret EXCEPT ![me] = back]
           /\ pc' = [pc EXCEPT ![me] = "wake", ![Head(waiting[s])] = "woken"]
           /\ UNCHANGED count
  <2> DEFINE w == Head(waiting[s])
  <2>1. /\ waiting[s] \in Seq(Threads) /\ Keeps(waiting[s], "waiting")
        /\ \A i \in 1..Len(waiting[s]) : why[waiting[s][i]] = s
    BY <1>1 DEF SwitchInv, QueueInv
  <2>2. /\ w \in Threads /\ w \in TCBs /\ w = waiting[s][1] /\ 1 \in 1..Len(waiting[s])
        /\ Tail(waiting[s]) \in Seq(Threads)
        /\ \A k \in 1..Len(Tail(waiting[s])) :
             \E i \in 1..Len(waiting[s]) : Tail(waiting[s])[k] = waiting[s][i]
    <3>1. /\ Len(waiting[s]) \in Nat /\ Len(waiting[s]) > 0
          /\ Head(waiting[s]) \in Threads /\ Head(waiting[s]) = waiting[s][1]
          /\ Tail(waiting[s]) \in Seq(Threads)
          /\ \A k \in 1..Len(Tail(waiting[s])) :
             k + 1 \in 1..Len(waiting[s]) /\ Tail(waiting[s])[k] = waiting[s][k + 1]
      BY <1>5, <2>1, TailEntries
    <3> QED BY <3>1, Names
  <2>3. pc[w] = "waiting" /\ why[w] = s
    BY <2>1, <2>2 DEF Keeps
  <2>4. /\ NoDuplicates(Tail(waiting[s]))
        /\ \A k \in 1..Len(Tail(waiting[s])) : Tail(waiting[s])[k] # w
    BY <1>5, <2>1, TailNoDuplicates DEF Keeps
  <2>5. pc' = [pc EXCEPT ![me] = "wake", ![w] = "woken"] /\ hand' = [hand EXCEPT ![me] = w]
    BY <1>5
  <2> HIDE DEF w
  <2>6. /\ StackInv' /\ ChosenInv' /\ ActiveInv'
        /\ w # me /\ pc'[me] = "wake" /\ pc'[w] = "woken"
        /\ \A t \in TCBs \ {me, w} : pc'[t] = pc[t]
    <3>1. w # me
      BY <2>3
    <3>2. /\ pc'[me] = "wake" /\ pc'[w] = "woken"
          /\ \A t \in TCBs : t # me /\ t # w => pc'[t] = pc[t]
      BY <1>1, <2>2, <2>5, <3>1
    <3>3. /\ UNCHANGED <<active, stack, prev, chosen, noPreempt>>
          /\ pc'[me] \in Working
      BY <1>3, <3>2 DEF Working
    <3> QED BY <1>1, <2>2, <2>3, <3>1, <3>2, <3>3, HandOverKeepsPlaces
  <2>7. TypeOK'
    <3>1. "wake" \in PCs /\ "woken" \in PCs /\ back \in Returns
      BY DEF PCs, OnCpu, Working, Returns, Kept
    <3>2. pc' \in [TCBs -> PCs] /\ hand' \in [TCBs -> Threads \union {None}]
      BY <1>1, <2>2, <2>5, <3>1
    <3>3. waiting' \in [Sems -> Seq(Threads)] /\ ret' \in [TCBs -> Returns]
      BY <1>1, <1>5, <2>2, <3>1
    <3>4. TypeOK /\ lockOf' \in [Threads -> Locks \union {None}] /\ count' = count
      BY <1>5 DEF SwitchInv
    <3> QED BY ONLY <1>3, <3>2, <3>3, <3>4 DEF TypeOK
  <2>8. IdleInv'
    BY <1>1, <1>3, <2>2, <2>5, <2>6, Names, IdleKept DEF SwitchInv
  <2>9. QueueInv'
    <3>1. \A t \in Threads : pc[t] \in {"ready", "zombie"} => pc'[t] = pc[t]
      BY <1>1, <2>3, <2>6, Names DEF Working
    <3>2. Keeps(readyQ, "ready")' /\ Keeps(zombies, "zombie")'
      <4>1. /\ \A i \in 1..Len(readyQ) : readyQ[i] \in Threads /\ pc[readyQ[i]] = "ready"
            /\ \A i \in 1..Len(zombies) : zombies[i] \in Threads /\ pc[zombies[i]] = "zombie"
            /\ NoDuplicates(readyQ) /\ NoDuplicates(zombies)
            /\ readyQ' = readyQ /\ zombies' = zombies
        BY <1>1, <1>3 DEF SwitchInv, QueueInv, Keeps
      <4> QED BY <3>1, <4>1 DEF Keeps
    <3>3. ASSUME NEW r \in Sems
          PROVE  /\ Keeps(waiting[r], "waiting")'
                 /\ \A i \in 1..Len(waiting'[r]) : why'[waiting'[r][i]] = r
      <4>1. \A t \in Threads : t # w /\ pc[t] = "waiting" => pc'[t] = "waiting"
        BY <1>1, <2>6, Names DEF Working
      <4>2. CASE r = s
        <5>1. waiting'[r] = Tail(waiting[s])
          BY <1>1, <1>5, <4>2
        <5>2. \A k \in 1..Len(Tail(waiting[s])) :
                /\ pc'[Tail(waiting[s])[k]] = "waiting"
                /\ why[Tail(waiting[s])[k]] = s
          <6> SUFFICES ASSUME NEW k \in 1..Len(Tail(waiting[s]))
                       PROVE  /\ pc'[Tail(waiting[s])[k]] = "waiting"
                              /\ why[Tail(waiting[s])[k]] = s
            OBVIOUS
          <6>1. PICK i \in 1..Len(waiting[s]) : Tail(waiting[s])[k] = waiting[s][i]
            BY <2>2
          <6>2. /\ waiting[s][i] \in Threads /\ pc[waiting[s][i]] = "waiting"
                /\ why[waiting[s][i]] = s
            BY <2>1 DEF Keeps
          <6>3. waiting[s][i] # w
            BY <2>4, <6>1
          <6> QED BY <4>1, <6>1, <6>2, <6>3
        <5> QED BY <1>3, <2>4, <4>2, <5>1, <5>2 DEF Keeps
      <4>3. CASE r # s
        <5>1. waiting'[r] = waiting[r] /\ waiting[r] \in Seq(Threads)
          BY <1>1, <1>5, <4>3
        <5>2. /\ Keeps(waiting[r], "waiting")
              /\ \A i \in 1..Len(waiting[r]) : why[waiting[r][i]] = r
          BY DEF SwitchInv, QueueInv
        <5>3. \A i \in 1..Len(waiting[r]) : waiting[r][i] \in Threads /\ waiting[r][i] # w
          BY <2>3, <4>3, <5>1, <5>2
        <5> QED BY <1>3, <4>1, <5>1, <5>2, <5>3 DEF Keeps
      <4> QED BY <4>2, <4>3
    <3> QED BY <3>2, <3>3 DEF QueueInv
  <2>10. HandInv'
    <3>1. hand'[me] = w /\ \A t \in TCBs : t # me => hand'[t] = hand[t]
      BY <1>1, <2>5
    <3>2. \A t \in TCBs : hand[t] # None =>
            hand[t] \in TCBs /\ pc[hand[t]] = "woken" /\ hand[t] # w /\ hand[t] # me
      BY <1>1, <2>3, Names DEF SwitchInv, HandInv, Working
    <3>3. \A t \in TCBs : hand'[t] # None => pc'[hand'[t]] = "woken"
      BY <2>6, <3>1, <3>2
    <3>4. \A t \in TCBs : "wake" \in {pc'[t], resume'[t]} => hand'[t] # None
      BY <1>3, <2>2, <2>6, <3>1, Names DEF SwitchInv, HandInv
    <3>5. \A t, u \in TCBs : hand'[t] = hand'[u] /\ hand'[t] # None => t = u
      BY <3>1, <3>2 DEF SwitchInv, HandInv
    <3> QED BY <3>3, <3>4, <3>5 DEF HandInv
  <2>11. CallInv'
    <3>1. /\ ret'[me] = back /\ resume'[me] = "run"
          /\ \A t \in TCBs \ {me} : resume'[t] = resume[t] /\ ret'[t] = ret[t]
      BY <1>1, <1>2, <1>3, <1>5
    <3>2. \A t \in TCBs \ {me} : pc'[t] = pc[t] \/ {pc[t], pc'[t]} \cap Working = {}
      BY <2>3, <2>6 DEF Working
    <3>3. ~ Spawning(me)'
      BY <2>6, <3>1 DEF Spawning
    <3>4. \A t \in Threads : Spawning(t) /\ Spawning(t)' =>
                             pc'[children[t][slot[t]]] = "made"
      <4>1. \A t \in TCBs : pc[t] = "made" => pc'[t] = "made"
        BY <1>1, <2>3, <2>6 DEF Working
      <4>2. \A t \in Threads : Spawning(t) =>
              children[t][slot[t]] \in TCBs /\ pc[children[t][slot[t]]] = "made"
        BY Names DEF SwitchInv, CallInv, TypeOK
      <4> QED BY <4>1, <4>2
    <3>5. /\ \A t \in Threads \ {me} : slot'[t] = slot[t] /\ children'[t] = children[t]
          /\ "wake" \notin {"get", "got", "locked"} /\ back # "spawn"
          /\ resume'[me] \notin {"get", "got", "locked"}
      BY <1>3, <3>1
    <3>6. /\ pc'[me] = "wake" /\ me \in TCBs
      BY <1>1, <2>6
    <3> HIDE <1>3, <1>5
    <3> QED BY ONLY SwitchInv, <3>1, <3>2, <3>3, <3>4, <3>5, <3>6, CallsKept,
               \A t \in Threads \ {me} : lockOf'[t] = lockOf[t] DEF Spawning
  <2> QED BY <2>6, <2>7, <2>8, <2>9, <2>10, <2>11 DEF SwitchInv
<1> QED BY <1>4, <1>5 DEF Up, Goto

(* BlockingLock::unlock().                                                 *)
LEMMA UnlockInv ==
  ASSUME SwitchInv, NEW c \in Cores, Unlock(c)
  PROVE  SwitchInv'
<1> DEFINE me == stack[c]
           l == lockOf[me]
<1>1. /\ me \in Threads /\ prev[c] = None /\ pc[me] = "locked"
      /\ lockOf \in [Threads -> Locks \union {None}]
      /\ lockOf' = [lockOf EXCEPT ![me] = None] /\ Up(me, l, "run")
      /\ UNCHANGED <<slot, runTime, killFlag, isReady, children, killFlags>>
  BY DEF SwitchInv, TypeOK, Unlock, InProcess, At
<1>2. l \in Sems
  BY <1>1, Names DEF SwitchInv, CallInv
<1> HIDE DEF me, l
<1>3. /\ lockOf' \in [Threads -> Locks \union {None}]
      /\ \A t \in Threads \ {me} : lockOf'[t] = lockOf[t]
  BY <1>1
<1> QED BY <1>1, <1>2, <1>3, UpInv DEF me

(* The up() of Future::set.                                                *)
LEMMA SetUpInv ==
  ASSUME SwitchInv, NEW c \in Cores, SetUp(c)
  PROVE  SwitchInv'
<1> DEFINE me == stack[c]
<1>1. /\ me \in TCBs /\ prev[c] = None /\ pc[me] = "set"
      /\ Up(me, me, "stop") /\ UNCHANGED procVars
  BY DEF SwitchInv, TypeOK, SetUp, At
<1>2. me \in Threads
  BY <1>1 DEF SwitchInv, IdleInv, IdleStops, Blocking, TCBs
<1>3. lockOf' \in [Threads -> Locks \union {None}] /\ lockOf' = lockOf
  BY <1>1 DEF SwitchInv, TypeOK, procVars
<1> HIDE DEF me
<1> QED BY <1>1, <1>2, <1>3, Names, UpInv DEF me, procVars

(* The up() of Future::get.                                                *)
LEMMA GetUpInv ==
  ASSUME SwitchInv, NEW c \in Cores, GetUp(c)
  PROVE  SwitchInv'
<1> DEFINE me == stack[c]
           s == children[me][slot[me]]
<1>1. /\ me \in TCBs /\ prev[c] = None /\ pc[me] = "got"
      /\ Up(me, s, "waited") /\ UNCHANGED procVars
  BY DEF SwitchInv, TypeOK, GetUp, At
<1>2. me \in Threads
  BY <1>1 DEF SwitchInv, IdleInv, IdleStops, Blocking, TCBs
<1>3. slot[me] \in Slots /\ s # None
  BY <1>1, <1>2 DEF SwitchInv, CallInv
<1>4. s \in Sems
  BY <1>2, <1>3, Names DEF SwitchInv, TypeOK
<1>5. lockOf' \in [Threads -> Locks \union {None}] /\ lockOf' = lockOf
  BY <1>1 DEF SwitchInv, TypeOK, procVars
<1> HIDE DEF me, s
<1> QED BY <1>1, <1>2, <1>4, <1>5, UpInv DEF me, procVars

(* up() schedules the waiter it removed.                                   *)
LEMMA WakeWaiterInv ==
  ASSUME SwitchInv, NEW c \in Cores, WakeWaiter(c),
         NEW me, NEW w, me = stack[c], w = hand[me]
  PROVE  SwitchInv'
<1>1. /\ me \in TCBs /\ prev[c] = None /\ pc[me] = "wake" /\ pc[me] \in Working
      /\ pc \in [TCBs -> PCs] /\ hand \in [TCBs -> Threads \union {None}]
      /\ ret \in [TCBs -> Returns] /\ Schedule(w)
      /\ zombies \in Seq(Threads)
  BY DEF SwitchInv, TypeOK, WakeWaiter, At, Working
<1>2. me \in Threads
  BY <1>1 DEF SwitchInv, IdleInv, IdleStops, Blocking, TCBs
<1>3. w \in Threads /\ w \in TCBs /\ pc[w] = "woken"
  BY <1>1, Names DEF SwitchInv, HandInv
<1>4. w # me /\ resume[me] = "run" /\ ret[me] # "spawn"
  BY <1>1, <1>3 DEF SwitchInv, CallInv
<1>5. /\ pc' = [pc EXCEPT ![me] = ret[me], ![w] = "ready"]
      /\ hand' = [hand EXCEPT ![me] = None] /\ ret' = [ret EXCEPT ![me] = "run"]
      /\ UNCHANGED <<active, stack, chosen, prev, why, resume, noPreempt, irqOff,
                     zombies, count, semLock, waiting, lockOf, slot, runTime,
                     killFlag, isReady, children, killFlags>>
  BY DEF WakeWaiter, cpuVars, semVars, procVars
<1>6. /\ pc'[me] = ret[me] /\ pc'[w] = "ready" /\ pc'[me] \in Working
      /\ \A t \in TCBs : t # me /\ t # w => pc'[t] = pc[t]
  BY <1>1, <1>3, <1>4, <1>5 DEF Working, Returns
<1>7. StackInv' /\ ChosenInv' /\ ActiveInv'
  <2>1. UNCHANGED <<active, stack, prev, chosen, noPreempt>>
    BY <1>5
  <2> HIDE <1>5
  <2> QED BY <1>1, <1>3, <1>6, <2>1, HandOverKeepsPlaces
<1>8. /\ readyQ' \in Seq(Threads) /\ armed' \in [Cores -> BOOLEAN]
      /\ Keeps(readyQ, "ready")'
  <2>1. \A t \in Threads : pc[t] = "ready" => pc'[t] = "ready"
    BY <1>1, <1>6, Names
  <2> QED BY <1>1, <1>3, <1>6, <2>1, ScheduleKeeps
<1>9. TypeOK'
  <2>1. /\ pc' \in [TCBs -> PCs] /\ hand' \in [TCBs -> Threads \union {None}]
        /\ ret' \in [TCBs -> Returns]
    BY <1>1, <1>3, <1>5 DEF PCs, OnCpu, Working, Returns, Kept
  <2> QED BY <1>5, <1>8, <2>1 DEF SwitchInv, TypeOK
<1>10. IdleInv'
  <2>1. \A d \in Cores : pc'[d] = pc[d] /\ hand'[d] = hand[d]
    BY <1>1, <1>2, <1>3, <1>5, <1>6, Names
  <2> QED BY <1>5, <2>1, IdleKept DEF SwitchInv
<1>11. QueueInv'
  <2>1. \A t \in Threads : /\ pc[t] = "zombie" => pc'[t] = "zombie"
                           /\ pc[t] = "waiting" => pc'[t] = "waiting" /\ why'[t] = why[t]
    BY <1>1, <1>3, <1>5, <1>6, Names
  <2>2. Keeps(zombies, "zombie")'
    <3>1. /\ \A i \in 1..Len(zombies) : zombies[i] \in Threads /\ pc[zombies[i]] = "zombie"
          /\ NoDuplicates(zombies) /\ zombies' = zombies
      BY <1>1, <1>5 DEF SwitchInv, QueueInv, Keeps
    <3> QED BY <2>1, <3>1 DEF Keeps
  <2>3. \A s \in Sems : /\ Keeps(waiting[s], "waiting")'
                        /\ \A i \in 1..Len(waiting'[s]) : why'[waiting'[s][i]] = s
    BY <1>5, <2>1, WaitersKept
  <2> QED BY <1>8, <2>2, <2>3 DEF QueueInv
<1>12. HandInv'
  <2>1. hand'[me] = None /\ \A t \in TCBs : t # me => hand'[t] = hand[t]
    BY <1>1, <1>5
  <2>2. \A t \in TCBs : t # me /\ hand[t] # None =>
          hand[t] \in TCBs /\ pc[hand[t]] = "woken" /\ hand[t] # w /\ hand[t] # me
    BY <1>1, <1>3, Names DEF SwitchInv, HandInv
  <2>3. \A t \in TCBs : hand'[t] # None => pc'[hand'[t]] = "woken"
    BY <1>6, <2>1, <2>2
  <2>4. ret[me] # "wake"
    BY <1>1 DEF Returns
  <2>5. \A t \in TCBs : "wake" \in {pc'[t], resume'[t]} => hand'[t] # None
    <3>1. \A t \in TCBs : t # me => /\ pc'[t] = "wake" => pc[t] = "wake"
                                    /\ resume'[t] = resume[t] /\ hand'[t] = hand[t]
      BY <1>3, <1>5, <1>6, <2>1
    <3>2. pc'[me] # "wake" /\ resume'[me] # "wake"
      BY <1>4, <1>5, <1>6, <2>4
    <3>3. \A t \in TCBs : "wake" \in {pc[t], resume[t]} => hand[t] # None
      BY DEF SwitchInv, HandInv
    <3> QED BY ONLY <3>1, <3>2, <3>3
  <2>6. \A t, u \in TCBs : hand'[t] = hand'[u] /\ hand'[t] # None => t = u
    BY <2>1, <2>2 DEF SwitchInv, HandInv
  <2> QED BY <2>3, <2>5, <2>6 DEF HandInv
<1>13. CallInv'
  <2>1. /\ ret'[me] = "run" /\ resume'[me] = "run"
        /\ \A t \in TCBs \ {me} : resume'[t] = resume[t] /\ ret'[t] = ret[t]
    BY <1>1, <1>4, <1>5
  <2>2. \A t \in TCBs \ {me} : pc'[t] = pc[t] \/ {pc[t], pc'[t]} \cap Working = {}
    BY <1>3, <1>6 DEF Working
  <2>3. pc'[me] \in {"run", "waited", "stop", "setting", "yield"}
    BY <1>1, <1>4, <1>6 DEF Returns
  <2>4. ~ Spawning(me)'
    BY <2>1, <2>3 DEF Spawning
  <2>5. \A t \in Threads : Spawning(t) /\ Spawning(t)' =>
                           pc'[children[t][slot[t]]] = "made"
    <3>1. \A t \in TCBs : pc[t] = "made" => pc'[t] = "made"
      BY <1>1, <1>3, <1>6
    <3>2. \A t \in Threads : Spawning(t) =>
            children[t][slot[t]] \in TCBs /\ pc[children[t][slot[t]]] = "made"
      BY Names DEF SwitchInv, CallInv, TypeOK
    <3> QED BY <3>1, <3>2
  <2>6. /\ \A t \in Threads \ {me} : /\ slot'[t] = slot[t] /\ children'[t] = children[t]
                                     /\ lockOf'[t] = lockOf[t]
        /\ pc'[me] \notin {"get", "got", "locked", "reap"}
        /\ resume'[me] \notin {"get", "got", "locked"} /\ me \in TCBs
    BY <1>1, <1>5, <2>1, <2>3
  <2> QED BY ONLY SwitchInv, <2>1, <2>2, <2>4, <2>5, <2>6, CallsKept DEF Spawning
<1> QED BY <1>7, <1>9, <1>10, <1>11, <1>12, <1>13 DEF SwitchInv

(* delete_zombies() deletes one zombie or returns.                         *)
LEMMA ReapInv ==
  ASSUME SwitchInv, NEW c \in Cores, Reap(c), NEW me, me = stack[c]
  PROVE  SwitchInv'
<1>1. /\ me \in TCBs /\ prev[c] = None /\ pc[me] = "reap" /\ pc[me] \in Working
      /\ pc \in [TCBs -> PCs] /\ ret \in [TCBs -> Returns] /\ zombies \in Seq(Threads)
      /\ readyQ \in Seq(Threads)
  BY DEF SwitchInv, TypeOK, Reap, At, Working
<1>2. me \in Threads
  BY <1>1 DEF SwitchInv, IdleInv, IdleStops, Blocking, TCBs
<1>3. resume[me] = "run"
  BY <1>1 DEF SwitchInv, CallInv
<1>4. UNCHANGED <<active, stack, chosen, prev, armed, why, resume, hand, noPreempt,
                  irqOff, readyQ, count, semLock, waiting, lockOf, slot, runTime,
                  killFlag, isReady, children, killFlags>>
  BY DEF Reap, cpuVars, semVars, procVars
<1>5. CASE /\ pc' = [pc EXCEPT ![me] = ret[me]]
           /\ ret' = [ret EXCEPT ![me] = "run"]
           /\ zombies' = zombies
  <2>1. TypeOK'
    <3>1. pc' \in [TCBs -> PCs] /\ ret' \in [TCBs -> Returns]
      BY <1>1, <1>5 DEF PCs, OnCpu, Working, Returns
    <3> QED BY <1>4, <1>5, <3>1 DEF SwitchInv, TypeOK
  <2>2. ret[me] \in Working /\ ret[me] # "wake" /\ ret[me] \notin Blocking
        /\ ret[me] \notin {"get", "got", "locked", "wake"}
        /\ ret[me] \in (Working \union Blocking \union {"panic"}) \ {"commit", "switch"}
    BY <1>1 DEF Returns, Working, Blocking
  <2>3. /\ pc'[me] = ret[me] /\ ret'[me] = "run" /\ resume'[me] = "run"
        /\ \A t \in TCBs \ {me} : pc'[t] = pc[t] /\ ret'[t] = ret[t]
        /\ ret[me] = "spawn" => Spawning(me)
    BY <1>1, <1>3, <1>4, <1>5 DEF Spawning
  <2>4. pc[me] \notin {"commit", "switch"} /\ me \notin Cores
    BY <1>1, <1>2, Names
  <2>5. Quiet(c, me)
    BY <1>1, <1>4, <1>5, <2>2, <2>3, <2>4 DEF Quiet
  <2> QED BY <1>1, <2>1, <2>5, QuietStep
<1>6. CASE /\ zombies # << >>
           /\ zombies' = Tail(zombies)
           /\ pc' = [pc EXCEPT ![Head(zombies)] = "dead"]
           /\ ret' = ret
  <2> DEFINE w == Head(zombies)
  <2>1. /\ w \in Threads /\ w \in TCBs /\ pc[w] = "zombie"
        /\ Tail(zombies) \in Seq(Threads)
        /\ \A k \in 1..Len(Tail(zombies)) :
             \E i \in 1..Len(zombies) : Tail(zombies)[k] = zombies[i]
    <3>1. /\ Len(zombies) \in Nat /\ Len(zombies) > 0
          /\ Head(zombies) \in Threads /\ Head(zombies) = zombies[1]
          /\ Tail(zombies) \in Seq(Threads)
          /\ \A k \in 1..Len(Tail(zombies)) :
             k + 1 \in 1..Len(zombies) /\ Tail(zombies)[k] = zombies[k + 1]
      BY <1>1, <1>6, TailEntries
    <3>2. pc[zombies[1]] = "zombie"
      BY <3>1 DEF SwitchInv, QueueInv, Keeps
    <3> QED BY <3>1, <3>2, Names
  <2>2. /\ NoDuplicates(Tail(zombies))
        /\ \A k \in 1..Len(Tail(zombies)) : Tail(zombies)[k] # w
    BY <1>1, <1>6, TailNoDuplicates DEF SwitchInv, QueueInv, Keeps
  <2>3. pc' = [pc EXCEPT ![w] = "dead"]
    BY <1>6
  <2> HIDE DEF w
  <2>4. /\ w # me /\ pc'[w] = "dead" /\ pc'[me] = pc[me]
        /\ \A t \in TCBs : t # w => pc'[t] = pc[t]
    BY <1>1, <2>1, <2>3
  <2>5. StackInv' /\ ChosenInv' /\ ActiveInv'
    <3>1. UNCHANGED <<active, stack, prev, chosen, noPreempt>>
      BY <1>4
    <3> HIDE <1>4, <1>6
    <3> QED BY <1>1, <2>1, <2>4, <3>1, HandOverKeepsPlaces
  <2>6. TypeOK'
    <3>1. pc' \in [TCBs -> PCs] /\ zombies' \in Seq(Threads)
      BY <1>1, <1>6, <2>1, <2>3 DEF PCs
    <3> QED BY <1>4, <1>6, <3>1 DEF SwitchInv, TypeOK
  <2>7. IdleInv'
    BY <1>1, <1>4, <2>1, <2>4, Names, IdleKept DEF SwitchInv
  <2>8. QueueInv'
    <3>1. \A t \in Threads : t # w => pc'[t] = pc[t]
      BY <2>4, Names
    <3>2. Keeps(zombies, "zombie")'
      <4>1. \A k \in 1..Len(Tail(zombies)) :
              Tail(zombies)[k] \in Threads /\ pc[Tail(zombies)[k]] = "zombie"
        BY <1>1, <2>1 DEF SwitchInv, QueueInv, Keeps
      <4> QED BY <1>6, <2>2, <3>1, <4>1 DEF Keeps
    <3>3. Keeps(readyQ, "ready")'
      <4>1. /\ \A i \in 1..Len(readyQ) : readyQ[i] \in Threads /\ pc[readyQ[i]] = "ready"
            /\ NoDuplicates(readyQ) /\ readyQ' = readyQ
        BY <1>1, <1>4 DEF SwitchInv, QueueInv, Keeps
      <4> QED BY <2>1, <3>1, <4>1 DEF Keeps
    <3>4. \A t \in Threads : pc[t] = "waiting" => pc'[t] = "waiting" /\ why'[t] = why[t]
      BY <1>4, <2>1, <3>1
    <3>5. \A s \in Sems : /\ Keeps(waiting[s], "waiting")'
                          /\ \A i \in 1..Len(waiting'[s]) : why'[waiting'[s][i]] = s
      BY <1>4, <3>4, WaitersKept
    <3> QED BY <3>2, <3>3, <3>5 DEF QueueInv
  <2>9. HandInv'
    <3>1. \A t \in TCBs : /\ pc[t] = "woken" => pc'[t] = "woken"
                          /\ pc'[t] = "wake" => pc[t] = "wake"
      BY <2>1, <2>4
    <3> QED BY <1>4, <3>1, HandsKept DEF SwitchInv
  <2>10. CallInv'
    <3>1. \A t \in TCBs \ {me} : /\ resume'[t] = resume[t] /\ ret'[t] = ret[t]
                                 /\ pc'[t] = pc[t] \/ {pc[t], pc'[t]} \cap Working = {}
      BY <1>4, <1>6, <2>1, <2>4 DEF Working
    <3>2. Spawning(me)' => Spawning(me)
      BY <1>4, <1>6, <2>4 DEF Spawning
    <3>3. \A t \in Threads : Spawning(t) /\ Spawning(t)' =>
                             pc'[children[t][slot[t]]] = "made"
      <4>1. \A t \in TCBs : pc[t] = "made" => pc'[t] = "made"
        BY <2>1, <2>4
      <4>2. \A t \in Threads : Spawning(t) =>
              children[t][slot[t]] \in TCBs /\ pc[children[t][slot[t]]] = "made"
        BY Names DEF SwitchInv, CallInv, TypeOK
      <4> QED BY <4>1, <4>2
    <3>4. /\ \A t \in Threads : /\ slot'[t] = slot[t] /\ children'[t] = children[t]
                                /\ lockOf'[t] = lockOf[t]
          /\ slot'[me] = slot[me] /\ children'[me] = children[me]
          /\ pc'[me] = "reap" /\ me \in TCBs /\ resume'[me] = "run"
      BY <1>1, <1>3, <1>4, <2>4
    <3> QED BY ONLY SwitchInv, <3>1, <3>2, <3>3, <3>4, CallsKept DEF Spawning
  <2> QED BY <2>5, <2>6, <2>7, <2>8, <2>9, <2>10 DEF SwitchInv
<1> QED BY <1>5, <1>6 DEF Reap, Goto

(* thread() schedules the child of fork.                                   *)
LEMMA SpawnInv ==
  ASSUME SwitchInv, NEW c \in Cores, Spawn(c),
         NEW me, NEW w, me = stack[c], w = children[me][slot[me]]
  PROVE  SwitchInv'
<1>1. /\ me \in TCBs /\ prev[c] = None /\ pc[me] = "spawn" /\ pc[me] \in Working
      /\ pc \in [TCBs -> PCs] /\ zombies \in Seq(Threads)
      /\ slot \in [Threads -> 0..NCHILD] /\ Schedule(w)
  BY DEF SwitchInv, TypeOK, Spawn, At, Working
<1>2. me \in Threads
  BY <1>1 DEF SwitchInv, IdleInv, IdleStops, Blocking, TCBs
<1>3. w \in Threads /\ w \in TCBs /\ pc[w] = "made"
  BY <1>1, <1>2, Names DEF SwitchInv, CallInv, TypeOK, Spawning
<1>4. w # me /\ resume[me] = "run" /\ ret[me] # "spawn"
  BY <1>1, <1>3 DEF SwitchInv, CallInv
<1>5. /\ pc' = [pc EXCEPT ![me] = "run", ![w] = "ready"]
      /\ slot' = [slot EXCEPT ![me] = 0]
      /\ UNCHANGED <<active, stack, chosen, prev, why, resume, ret, hand, noPreempt,
                     irqOff, zombies, count, semLock, waiting, lockOf, runTime,
                     killFlag, isReady, children, killFlags>>
  BY DEF Spawn, cpuVars, tcbVars, semVars
<1>6. /\ pc'[me] = "run" /\ pc'[w] = "ready" /\ pc'[me] \in Working
      /\ \A t \in TCBs : t # me /\ t # w => pc'[t] = pc[t]
  BY <1>1, <1>3, <1>4, <1>5 DEF Working
<1>7. StackInv' /\ ChosenInv' /\ ActiveInv'
  <2>1. UNCHANGED <<active, stack, prev, chosen, noPreempt>>
    BY <1>5
  <2> HIDE <1>5
  <2> QED BY <1>1, <1>3, <1>6, <2>1, HandOverKeepsPlaces
<1>8. /\ readyQ' \in Seq(Threads) /\ armed' \in [Cores -> BOOLEAN]
      /\ Keeps(readyQ, "ready")'
  <2>1. \A t \in Threads : pc[t] = "ready" => pc'[t] = "ready"
    BY <1>1, <1>6, Names
  <2> QED BY <1>1, <1>3, <1>6, <2>1, ScheduleKeeps
<1>9. TypeOK'
  <2>1. /\ pc' \in [TCBs -> PCs] /\ slot' \in [Threads -> 0..NCHILD]
    BY <1>1, <1>2, <1>3, <1>5, SchedulerAssumption DEF PCs, OnCpu, Working, Kept
  <2> QED BY <1>5, <1>8, <2>1 DEF SwitchInv, TypeOK
<1>10. IdleInv'
  <2>1. \A d \in Cores : pc'[d] = pc[d]
    BY <1>1, <1>2, <1>3, <1>6, Names
  <2> QED BY <1>5, <2>1, IdleKept DEF SwitchInv
<1>11. QueueInv'
  <2>1. \A t \in Threads : /\ pc[t] = "zombie" => pc'[t] = "zombie"
                           /\ pc[t] = "waiting" => pc'[t] = "waiting" /\ why'[t] = why[t]
    BY <1>1, <1>3, <1>5, <1>6, Names
  <2>2. Keeps(zombies, "zombie")'
    <3>1. /\ \A i \in 1..Len(zombies) : zombies[i] \in Threads /\ pc[zombies[i]] = "zombie"
          /\ NoDuplicates(zombies) /\ zombies' = zombies
      BY <1>1, <1>5 DEF SwitchInv, QueueInv, Keeps
    <3> QED BY <2>1, <3>1 DEF Keeps
  <2>3. \A s \in Sems : /\ Keeps(waiting[s], "waiting")'
                        /\ \A i \in 1..Len(waiting'[s]) : why'[waiting'[s][i]] = s
    BY <1>5, <2>1, WaitersKept
  <2> QED BY <1>8, <2>2, <2>3 DEF QueueInv
<1>12. HandInv'
  <2>1. \A t \in TCBs : /\ pc[t] = "woken" => pc'[t] = "woken"
                        /\ pc'[t] = "wake" => pc[t] = "wake"
    BY <1>1, <1>3, <1>6
  <2> QED BY <1>5, <2>1, HandsKept DEF SwitchInv
<1>13. CallInv'
  <2>1. /\ ret'[me] # "spawn" /\ resume'[me] = "run"
        /\ \A t \in TCBs \ {me} : resume'[t] = resume[t] /\ ret'[t] = ret[t]
    BY <1>1, <1>4, <1>5
  <2>2. \A t \in TCBs \ {me} : pc'[t] = pc[t] \/ {pc[t], pc'[t]} \cap Working = {}
    BY <1>3, <1>6 DEF Working
  <2>3. ~ Spawning(me)'
    BY <1>6, <2>1 DEF Spawning
  <2>4. \A t \in Threads : Spawning(t) /\ Spawning(t)' =>
                           pc'[children[t][slot[t]]] = "made"
    <3>1. \A t \in TCBs : t # w /\ pc[t] = "made" => pc'[t] = "made"
      BY <1>1, <1>3, <1>6
    <3>2. \A t \in Threads : Spawning(t) =>
            children[t][slot[t]] \in TCBs /\ pc[children[t][slot[t]]] = "made"
      BY Names DEF SwitchInv, CallInv, TypeOK
    <3>3. \A t \in Threads : t # me /\ Spawning(t) => children[t][slot[t]] # w
      BY <1>1, <1>2 DEF SwitchInv, CallInv, Spawning
    <3> QED BY <2>3, <3>1, <3>2, <3>3
  <2>5. /\ \A t \in Threads \ {me} : /\ slot'[t] = slot[t] /\ children'[t] = children[t]
                                     /\ lockOf'[t] = lockOf[t]
        /\ pc'[me] = "run" /\ me \in TCBs
    BY <1>1, <1>5, <1>6
  <2> QED BY ONLY SwitchInv, <2>1, <2>2, <2>3, <2>4, <2>5, CallsKept DEF Spawning
<1> QED BY <1>7, <1>9, <1>10, <1>11, <1>12, <1>13 DEF SwitchInv

(* fork makes a child.                                                     *)
LEMMA ForkInv ==
  ASSUME SwitchInv, NEW c \in Cores, NEW u \in Threads, Fork(c, u), NEW me, me = stack[c]
  PROVE  SwitchInv'
<1>1. /\ me \in Threads /\ me \in TCBs /\ u \in TCBs /\ prev[c] = None
      /\ pc[me] = "run" /\ pc[me] \in Working /\ pc[u] = "new"
      /\ pc \in [TCBs -> PCs] /\ zombies \in Seq(Threads) /\ readyQ \in Seq(Threads)
      /\ slot \in [Threads -> 0..NCHILD] /\ ret \in [TCBs -> Returns]
      /\ children \in [Threads -> [Slots -> Threads \union {None}]]
      /\ killFlags \in [Threads -> [Slots -> Threads \union {None}]]
  BY Names DEF SwitchInv, TypeOK, Fork, InProcess, At, Working
<1>2. PICK i \in Slots : /\ slot' = [slot EXCEPT ![me] = i]
                         /\ children' = [children EXCEPT ![me][i] = u]
                         /\ killFlags' = [killFlags EXCEPT ![me][i] = u]
  BY DEF Fork
<1>3. u # me /\ resume[me] = "run"
  BY <1>1 DEF SwitchInv, CallInv
<1>4. /\ pc' = [pc EXCEPT ![me] = "reap", ![u] = "made"]
      /\ ret' = [ret EXCEPT ![me] = "spawn"]
      /\ UNCHANGED <<active, stack, chosen, prev, armed, why, resume, hand, noPreempt,
                     irqOff, readyQ, zombies, count, semLock, waiting, lockOf, runTime,
                     killFlag, isReady>>
  BY DEF Fork, cpuVars, semVars
<1>5. /\ pc'[me] = "reap" /\ pc'[u] = "made" /\ pc'[me] \in Working
      /\ \A t \in TCBs : t # me /\ t # u => pc'[t] = pc[t]
  BY <1>1, <1>3, <1>4 DEF Working
<1>6. /\ slot'[me] = i /\ children'[me][i] = u
      /\ \A t \in Threads : t # me => slot'[t] = slot[t] /\ children'[t] = children[t]
  BY <1>1, <1>2
<1>7. StackInv' /\ ChosenInv' /\ ActiveInv'
  <2>1. UNCHANGED <<active, stack, prev, chosen, noPreempt>>
    BY <1>4
  <2> HIDE <1>4
  <2> QED BY <1>1, <1>5, <2>1, HandOverKeepsPlaces
<1>8. TypeOK'
  <2>1. /\ pc' \in [TCBs -> PCs] /\ ret' \in [TCBs -> Returns]
    BY <1>1, <1>4 DEF PCs, OnCpu, Working, Kept, Returns
  <2>2. slot' \in [Threads -> 0..NCHILD]
    BY <1>1, <1>2, SchedulerAssumption DEF Slots
  <2>3. children' \in [Threads -> [Slots -> Threads \union {None}]]
    BY <1>1, <1>2
  <2>4. killFlags' \in [Threads -> [Slots -> Threads \union {None}]]
    BY <1>1, <1>2
  <2> QED BY <1>4, <2>1, <2>2, <2>3, <2>4 DEF SwitchInv, TypeOK
<1>9. IdleInv'
  <2>1. \A d \in Cores : pc'[d] = pc[d]
    BY <1>1, <1>5, Names
  <2> QED BY <1>4, <2>1, IdleKept DEF SwitchInv
<1>10. QueueInv'
  <2>1. \A t \in Threads : pc[t] \in {"ready", "zombie", "waiting"} =>
                           pc'[t] = pc[t] /\ why'[t] = why[t]
    BY <1>1, <1>4, <1>5, Names
  <2> QED BY <1>4, <2>1, QueuesKept DEF SwitchInv
<1>11. HandInv'
  <2>1. \A t \in TCBs : /\ pc[t] = "woken" => pc'[t] = "woken"
                        /\ pc'[t] = "wake" => pc[t] = "wake"
    BY <1>1, <1>5
  <2> QED BY <1>4, <2>1, HandsKept DEF SwitchInv
<1>12. CallInv'
  <2>1. /\ ret'[me] = "spawn" /\ resume'[me] = "run"
        /\ \A t \in TCBs : t # me => ret'[t] = ret[t] /\ resume'[t] = resume[t]
        /\ lockOf' = lockOf
    BY <1>1, <1>3, <1>4
  <2>2. \A t \in TCBs : \A x \in {"spawn", "reap", "get", "got", "locked"} :
          t # me => (pc'[t] = x <=> pc[t] = x)
    BY <1>1, <1>5
  <2>3. \A t \in TCBs : t # me /\ pc'[t] \in Working => pc[t] \in Working
    BY <1>1, <1>5 DEF Working
  <2>4. \A t \in Threads : t # me /\ Spawning(t)' => Spawning(t)
    BY <2>1, <2>2, Names DEF Spawning
  <2>5. \A t \in Threads : Spawning(t) =>
          /\ slot[t] \in Slots /\ children[t][slot[t]] # None
          /\ children[t][slot[t]] \in TCBs /\ pc[children[t][slot[t]]] = "made"
    BY Names DEF SwitchInv, CallInv, TypeOK
  <2>6. \A t \in Threads : t # me /\ Spawning(t)' =>
          /\ slot'[t] \in Slots /\ children'[t][slot'[t]] # None
          /\ children'[t][slot'[t]] # u /\ pc'[children'[t][slot'[t]]] = "made"
    <3>1. \A x \in TCBs : pc[x] = "made" => x # u /\ pc'[x] = "made"
      BY <1>1, <1>5
    <3>2. ASSUME NEW t \in Threads, t # me, Spawning(t)'
          PROVE  /\ slot'[t] = slot[t] /\ children'[t] = children[t]
                 /\ slot[t] \in Slots /\ children[t][slot[t]] # None
                 /\ children[t][slot[t]] \in TCBs /\ pc[children[t][slot[t]]] = "made"
      BY <1>6, <2>4, <2>5, <3>2
    <3> QED BY <3>1, <3>2
  <2>7. i \in Slots /\ u # None
    BY <1>1, Names
  <2>8. ASSUME NEW t \in TCBs
        PROVE  /\ pc'[t] \in Working => resume'[t] = "run"
               /\ ret'[t] = "spawn" => "reap" \in {pc'[t], resume'[t]}
    BY <1>5, <2>1, <2>2, <2>3 DEF SwitchInv, CallInv
  <2>9. ASSUME NEW t \in Threads
        PROVE  /\ Spawning(t)' => /\ slot'[t] \in Slots
                                  /\ children'[t][slot'[t]] # None
                                  /\ pc'[children'[t][slot'[t]]] = "made"
               /\ {"get", "got"} \cap {pc'[t], resume'[t]} # {} =>
                    slot'[t] \in Slots /\ children'[t][slot'[t]] # None
               /\ "locked" \in {pc'[t], resume'[t]} => lockOf'[t] # None
    <3>1. CASE t = me
      BY <1>5, <1>6, <2>1, <2>7, <3>1
    <3>2. CASE t # me
      <4>1. /\ t \in TCBs /\ resume'[t] = resume[t] /\ lockOf'[t] = lockOf[t]
            /\ slot'[t] = slot[t] /\ children'[t] = children[t]
        BY <1>6, <2>1, <3>2, Names
      <4>2. {"get", "got"} \cap {pc'[t], resume'[t]} # {} =>
              {"get", "got"} \cap {pc[t], resume[t]} # {}
        BY <2>2, <3>2, <4>1
      <4>3. "locked" \in {pc'[t], resume'[t]} => "locked" \in {pc[t], resume[t]}
        BY <2>2, <3>2, <4>1
      <4> QED BY <2>6, <3>2, <4>1, <4>2, <4>3 DEF SwitchInv, CallInv
    <3> QED BY <3>1, <3>2
  <2>10. ASSUME NEW t \in Threads, NEW v \in Threads, Spawning(t)', Spawning(v)',
                children'[t][slot'[t]] = children'[v][slot'[v]]
         PROVE  t = v
    <3>1. CASE t = me \/ v = me
      BY <1>6, <2>6, <2>10, <3>1
    <3>2. CASE t # me /\ v # me
      BY <1>6, <2>4, <2>10, <3>2 DEF SwitchInv, CallInv
    <3> QED BY <3>1, <3>2
  <2> QED BY <2>8, <2>9, <2>10 DEF CallInv
<1> QED BY <1>7, <1>8, <1>9, <1>10, <1>11, <1>12 DEF SwitchInv

-----------------------------------------------------------------------------
(* The steps of block() and of the context switch that hand TCBs on.       *)

(* remove() gives the core a TCB that no other core can have.              *)
LEMMA ChooseKeepsPlaces ==
  ASSUME SwitchInv, NEW c \in Cores, NEW me \in TCBs, NEW w \in TCBs,
         me = stack[c], prev[c] = None, pc[me] = "remove", pc'[me] = "commit",
         \/ w \in Threads /\ pc[w] = "ready" /\ pc'[w] = "picked"
         \/ w = c /\ pc[w] = "parked" /\ pc'[w] = "parked",
         \A t \in TCBs : t # me /\ t # w => pc'[t] = pc[t],
         chosen' = [chosen EXCEPT ![c] = w],
         UNCHANGED <<active, stack, prev, noPreempt>>
  PROVE  StackInv' /\ ChosenInv' /\ ActiveInv'
<1>1. /\ stack \in [Cores -> TCBs] /\ prev \in [Cores -> TCBs \union {None}]
      /\ chosen \in [Cores -> TCBs \union {None}] /\ None \notin TCBs
  BY Names DEF SwitchInv, TypeOK
<1>2. w # me
  OBVIOUS
<1>3. /\ chosen'[c] = w /\ w # None
      /\ \A d \in Cores : d # c => chosen'[d] = chosen[d]
  BY <1>1
<1>4. \A d \in Cores : /\ stack[d] # w /\ prev[d] # w
                       /\ chosen[d] = w => d = c
                       /\ d # c => stack[d] # me
                       /\ prev[d] # me /\ chosen[d] # me
  <2>1. \A d \in Cores : pc[stack[d]] \in OnCpu /\ (prev[d] # None => pc[prev[d]] = "leaving")
    BY DEF SwitchInv, StackInv
  <2>2. \A d \in Cores : chosen[d] # None => \/ pc[chosen[d]] = "picked"
                                             \/ chosen[d] = d /\ pc[d] = "parked"
    BY <1>1 DEF SwitchInv, ChosenInv, TCBs
  <2>3. \A d \in Cores : stack[d] = me => d = c
    BY DEF SwitchInv, StackInv
  <2> QED BY <1>1, <2>1, <2>2, <2>3, Points, Names
<1>5. chosen[c] = None
  BY DEF SwitchInv, ChosenInv
<1>6. \A d \in Cores : d # c => pc'[stack[d]] = pc[stack[d]]
  BY <1>1, <1>4
<1>7. \A d \in Cores : prev[d] # None => pc'[prev[d]] = pc[prev[d]]
  BY <1>1, <1>4
<1>8. \A d \in Cores : d # c /\ chosen[d] # None => pc'[chosen[d]] = pc[chosen[d]]
  BY <1>1, <1>4
<1>9. StackInv'
  <2>1. ASSUME NEW d \in Cores
        PROVE /\ pc'[stack[d]] \in OnCpu
              /\ prev[d] # None <=> pc'[stack[d]] = "landing"
              /\ prev[d] # None => pc'[prev[d]] = "leaving"
    <3>1. CASE d = c
      BY <3>1 DEF OnCpu, Blocking
    <3>2. CASE d # c
      BY <1>6, <1>7, <3>2 DEF SwitchInv, StackInv
    <3> QED BY <3>1, <3>2
  <2> QED BY <2>1 DEF SwitchInv, StackInv
<1>10. ChosenInv'
  <2>1. ASSUME NEW d \in Cores
        PROVE /\ chosen'[d] # None <=> pc'[stack[d]] \in {"commit", "switch"}
              /\ chosen'[d] \in Threads => pc'[chosen'[d]] = "picked"
              /\ chosen'[d] \in Cores => chosen'[d] = d /\ pc'[d] = "parked"
    <3>1. CASE d = c
      BY <1>3, <3>1, Names
    <3>2. CASE d # c
      <4>1. /\ chosen[d] # None <=> pc[stack[d]] \in {"commit", "switch"}
            /\ chosen[d] \in Threads => pc[chosen[d]] = "picked"
            /\ chosen[d] \in Cores => chosen[d] = d /\ pc[d] = "parked"
        BY DEF SwitchInv, ChosenInv
      <4> QED BY <1>1, <1>3, <1>6, <1>8, <3>2, <4>1, Names
    <3> QED BY <3>1, <3>2
  <2>2. \A d, e \in Cores : chosen'[d] = chosen'[e] /\ chosen'[d] # None => d = e
    BY <1>3, <1>4 DEF SwitchInv, ChosenInv
  <2>3. stack' = stack
    OBVIOUS
  <2> QED BY ONLY <2>1, <2>2, <2>3, Zenon DEF ChosenInv
<1>11. ActiveInv'
  <2>1. ASSUME NEW d \in Cores
        PROVE /\ pc'[stack[d]] # "switch" => active[d] = stack[d]
              /\ pc'[stack[d]] = "switch" => active[d] = chosen'[d] /\ noPreempt[chosen'[d]]
              /\ pc'[stack[d]] \in Blocking => noPreempt[stack[d]]
    <3>1. CASE d = c
      BY <3>1 DEF SwitchInv, ActiveInv, Blocking
    <3>2. CASE d # c
      BY <1>3, <1>6, <3>2 DEF SwitchInv, ActiveInv
    <3> QED BY <3>1, <3>2
  <2> QED BY <2>1 DEF ActiveInv
<1> QED BY <1>9, <1>10, <1>11

(* A step of block() leaves the calls alone in which threads are.          *)
LEMMA SwitchKeepsCalls ==
  ASSUME SwitchInv,
         \A t \in TCBs : /\ resume'[t] = resume[t] /\ ret'[t] = ret[t]
                         /\ pc'[t] = pc[t] \/ {pc[t], pc'[t]} \cap Working = {}
                         /\ pc[t] = "made" => pc'[t] = "made",
         UNCHANGED <<lockOf, slot, children>>
  PROVE  CallInv'
<1>1. \A t \in TCBs : Spawning(t)' => Spawning(t)
  BY DEF Spawning, Working
<1>2. \A t \in Threads : Spawning(t) =>
        children[t][slot[t]] \in TCBs /\ pc[children[t][slot[t]]] = "made"
  BY Names DEF SwitchInv, CallInv, TypeOK
<1>3. \A t \in TCBs : \A x \in {"spawn", "reap", "get", "got", "locked"} :
        pc'[t] = x <=> pc[t] = x
  BY DEF Working
<1>4. ASSUME NEW t \in TCBs
      PROVE  /\ pc'[t] \in Working => resume'[t] = "run"
             /\ ret'[t] = "spawn" => "reap" \in {pc'[t], resume'[t]}
  BY <1>3 DEF SwitchInv, CallInv
<1>5. ASSUME NEW t \in Threads
      PROVE  /\ Spawning(t)' => /\ slot'[t] \in Slots
                                /\ children'[t][slot'[t]] # None
                                /\ pc'[children'[t][slot'[t]]] = "made"
             /\ {"get", "got"} \cap {pc'[t], resume'[t]} # {} =>
                  slot'[t] \in Slots /\ children'[t][slot'[t]] # None
             /\ "locked" \in {pc'[t], resume'[t]} => lockOf'[t] # None
  <2>1. /\ t \in TCBs /\ resume'[t] = resume[t] /\ slot'[t] = slot[t]
        /\ children'[t] = children[t] /\ lockOf'[t] = lockOf[t]
    BY Names
  <2>2. Spawning(t)' => /\ slot'[t] \in Slots
                        /\ children'[t][slot'[t]] # None
                        /\ pc'[children'[t][slot'[t]]] = "made"
    BY <1>1, <1>2, <2>1 DEF SwitchInv, CallInv
  <2>3. {"get", "got"} \cap {pc'[t], resume'[t]} # {} =>
          {"get", "got"} \cap {pc[t], resume[t]} # {}
    BY <1>3, <2>1
  <2>4. "locked" \in {pc'[t], resume'[t]} => "locked" \in {pc[t], resume[t]}
    BY <1>3, <2>1
  <2> QED BY <2>1, <2>2, <2>3, <2>4 DEF SwitchInv, CallInv
<1>6. ASSUME NEW t \in Threads, NEW u \in Threads, Spawning(t)', Spawning(u)',
             children'[t][slot'[t]] = children'[u][slot'[u]]
      PROVE  t = u
  BY <1>1, <1>6, Names DEF SwitchInv, CallInv
<1> QED BY <1>4, <1>5, <1>6 DEF CallInv

(* remove() finds a thread.                                                *)
LEMMA RemoveNextInv ==
  ASSUME SwitchInv, NEW c \in Cores, RemoveNext(c),
         NEW me, NEW w, me = stack[c], w = Head(readyQ)
  PROVE  SwitchInv'
<1>1. /\ me \in TCBs /\ prev[c] = None /\ pc[me] = "remove" /\ readyQ # << >>
      /\ pc \in [TCBs -> PCs] /\ zombies \in Seq(Threads) /\ readyQ \in Seq(Threads)
      /\ chosen \in [Cores -> TCBs \union {None}] /\ armed \in [Cores -> BOOLEAN]
  BY DEF SwitchInv, TypeOK, RemoveNext, At
<1>2. /\ w \in Threads /\ w \in TCBs /\ pc[w] = "ready"
      /\ Tail(readyQ) \in Seq(Threads)
      /\ \A k \in 1..Len(Tail(readyQ)) :
           \E i \in 1..Len(readyQ) : Tail(readyQ)[k] = readyQ[i]
  <2>1. /\ Len(readyQ) \in Nat /\ Len(readyQ) > 0
        /\ Head(readyQ) \in Threads /\ Head(readyQ) = readyQ[1]
        /\ Tail(readyQ) \in Seq(Threads)
        /\ \A k \in 1..Len(Tail(readyQ)) :
             k + 1 \in 1..Len(readyQ) /\ Tail(readyQ)[k] = readyQ[k + 1]
    BY <1>1, TailEntries
  <2>2. pc[readyQ[1]] = "ready"
    BY <2>1 DEF SwitchInv, QueueInv, Keeps
  <2> QED BY <2>1, <2>2, Names
<1>3. /\ NoDuplicates(Tail(readyQ))
      /\ \A k \in 1..Len(Tail(readyQ)) : Tail(readyQ)[k] # w
  BY <1>1, TailNoDuplicates DEF SwitchInv, QueueInv, Keeps
<1>4. /\ pc' = [pc EXCEPT ![me] = "commit", ![w] = "picked"]
      /\ readyQ' = Tail(readyQ) /\ chosen' = [chosen EXCEPT ![c] = w]
      /\ armed' = [d \in Cores |-> FALSE]
      /\ UNCHANGED <<active, stack, prev, why, resume, ret, hand, noPreempt, irqOff,
                     zombies, count, semLock, waiting, lockOf, slot, runTime,
                     killFlag, isReady, children, killFlags>>
  BY DEF RemoveNext, LockStored, tcbVars, semVars, procVars
<1>5. /\ w # me /\ pc'[me] = "commit" /\ pc'[w] = "picked"
      /\ \A t \in TCBs : t # me /\ t # w => pc'[t] = pc[t]
  BY <1>1, <1>2, <1>4
<1>6. StackInv' /\ ChosenInv' /\ ActiveInv'
  <2>1. UNCHANGED <<active, stack, prev, noPreempt>> /\ chosen' = [chosen EXCEPT ![c] = w]
    BY <1>4
  <2> HIDE <1>4
  <2> QED BY <1>1, <1>2, <1>5, <2>1, ChooseKeepsPlaces
<1>7. TypeOK'
  <2>1. /\ pc' \in [TCBs -> PCs] /\ readyQ' \in Seq(Threads)
        /\ chosen' \in [Cores -> TCBs \union {None}] /\ armed' \in [Cores -> BOOLEAN]
    BY <1>1, <1>2, <1>4 DEF PCs, OnCpu, Blocking, Kept
  <2> QED BY <1>4, <2>1 DEF SwitchInv, TypeOK
<1>8. IdleInv'
  <2>1. \A d \in Cores : d # me => pc'[d] = pc[d]
    BY <1>2, <1>5, Names
  <2>2. /\ stack' = stack /\ prev' = prev /\ why' = why /\ resume' = resume
        /\ hand' = hand
    BY <1>4
  <2> HIDE <1>4
  <2> QED BY <1>1, <1>5, <2>1, <2>2 DEF SwitchInv, IdleInv, IdleStops, Blocking
<1>9. QueueInv'
  <2>1. \A t \in Threads : t # w /\ t # me => pc'[t] = pc[t]
    BY <1>5, Names
  <2>2. Keeps(readyQ, "ready")'
    <3>1. \A k \in 1..Len(Tail(readyQ)) :
            Tail(readyQ)[k] \in Threads /\ pc[Tail(readyQ)[k]] = "ready"
      BY <1>1, <1>2 DEF SwitchInv, QueueInv, Keeps
    <3> QED BY <1>1, <1>3, <1>4, <2>1, <3>1 DEF Keeps
  <2>3. Keeps(zombies, "zombie")'
    <3>1. /\ \A i \in 1..Len(zombies) : zombies[i] \in Threads /\ pc[zombies[i]] = "zombie"
          /\ NoDuplicates(zombies) /\ zombies' = zombies
      BY <1>1, <1>4 DEF SwitchInv, QueueInv, Keeps
    <3> QED BY <1>1, <1>2, <2>1, <3>1 DEF Keeps
  <2>4. \A t \in Threads : pc[t] = "waiting" => pc'[t] = "waiting" /\ why'[t] = why[t]
    BY <1>1, <1>2, <1>4, <2>1
  <2>5. \A s \in Sems : /\ Keeps(waiting[s], "waiting")'
                        /\ \A i \in 1..Len(waiting'[s]) : why'[waiting'[s][i]] = s
    BY <1>4, <2>4, WaitersKept
  <2> QED BY <2>2, <2>3, <2>5 DEF QueueInv
<1>10. HandInv'
  <2>1. \A t \in TCBs : /\ pc[t] = "woken" => pc'[t] = "woken"
                        /\ pc'[t] = "wake" => pc[t] = "wake"
    BY <1>1, <1>2, <1>5
  <2> QED BY <1>4, <2>1, HandsKept DEF SwitchInv
<1>11. CallInv'
  <2>1. /\ \A t \in TCBs : /\ resume'[t] = resume[t] /\ ret'[t] = ret[t]
                           /\ pc'[t] = pc[t] \/ {pc[t], pc'[t]} \cap Working = {}
                           /\ pc[t] = "made" => pc'[t] = "made"
        /\ UNCHANGED <<lockOf, slot, children>>
    BY <1>1, <1>2, <1>4, <1>5 DEF Working
  <2> QED BY ONLY SwitchInv, <2>1, SwitchKeepsCalls
<1> QED BY <1>6, <1>7, <1>8, <1>9, <1>10, <1>11 DEF SwitchInv

(* remove() finds none and the caller must block.                          *)
LEMMA RemoveNoneInv ==
  ASSUME SwitchInv, NEW c \in Cores, RemoveNone(c), NEW me, me = stack[c]
  PROVE  SwitchInv'
<1>1. /\ me \in TCBs /\ prev[c] = None /\ pc[me] = "remove"
      /\ pc \in [TCBs -> PCs] /\ armed \in [Cores -> BOOLEAN]
      /\ chosen \in [Cores -> TCBs \union {None}] /\ noPreempt[me]
  BY DEF SwitchInv, TypeOK, ActiveInv, Blocking, RemoveNone, At
<1>2. UNCHANGED <<active, stack, prev, why, resume, ret, hand, noPreempt, irqOff,
                  readyQ, zombies, count, semLock, waiting, lockOf, slot, runTime,
                  killFlag, isReady, children, killFlags>>
  BY DEF RemoveNone, tcbVars, semVars, procVars
<1>3. PICK p \in {"mwait", "commit"} : pc' = [pc EXCEPT ![me] = p]
  BY DEF RemoveNone, Goto
<1>4. pc'[me] = p /\ \A t \in TCBs : t # me => pc'[t] = pc[t]
  BY <1>1, <1>3
<1>5. HandInv'
  BY <1>1, <1>2, <1>4, HandsKept DEF SwitchInv
<1>6. IdleInv'
  BY <1>1, <1>2, <1>4, Names DEF SwitchInv, IdleInv, IdleStops, Blocking
<1>7. CallInv'
  <2>1. /\ \A t \in TCBs : /\ resume'[t] = resume[t] /\ ret'[t] = ret[t]
                           /\ pc'[t] = pc[t] \/ {pc[t], pc'[t]} \cap Working = {}
                           /\ pc[t] = "made" => pc'[t] = "made"
        /\ UNCHANGED <<lockOf, slot, children>>
    BY <1>1, <1>2, <1>4 DEF Working
  <2> QED BY ONLY SwitchInv, <2>1, SwitchKeepsCalls
<1>8. CASE me \in Cores
  <2>1. /\ pc' = [pc EXCEPT ![me] = "mwait"] /\ UNCHANGED chosen
        /\ armed' = [d \in Cores |-> d = c /\ armed[d]]
    BY <1>8 DEF RemoveNone, LockStoredBy, Goto
  <2>2. TypeOK'
    <3>1. pc' \in [TCBs -> PCs] /\ armed' \in [Cores -> BOOLEAN]
      BY <1>1, <2>1 DEF PCs, OnCpu, Blocking
    <3> QED BY <1>2, <2>1, <3>1 DEF SwitchInv, TypeOK
  <2>3. pc'[me] = "mwait" /\ \A t \in TCBs \ {me} : pc'[t] = pc[t]
    BY <1>1, <2>1
  <2>4. UNCHANGED <<cpuVars, tcbVars, readyQ, zombies, waiting, procVars>>
    BY <1>2, <2>1 DEF cpuVars, tcbVars, procVars
  <2>5. pc[me] \in Blocking \ {"commit", "switch"} /\ pc'[me] \in Blocking \ {"commit", "switch"}
    BY <1>1, <2>3 DEF Blocking
  <2> QED BY <1>1, <2>2, <2>3, <2>4, <2>5, BlockStep
<1>9. CASE me \in Threads
  <2>1. /\ pc' = [pc EXCEPT ![me] = "commit"]
        /\ chosen' = [chosen EXCEPT ![c] = c]
        /\ armed' = [d \in Cores |-> FALSE]
    BY <1>9, Names DEF RemoveNone, LockStored, Goto
  <2>2. TypeOK'
    <3>1. /\ pc' \in [TCBs -> PCs] /\ chosen' \in [Cores -> TCBs \union {None}]
          /\ armed' \in [Cores -> BOOLEAN]
      BY <1>1, <2>1, Names DEF PCs, OnCpu, Blocking
    <3> QED BY <1>2, <2>1, <3>1 DEF SwitchInv, TypeOK
  <2>3. pc[c] = "parked" /\ c # me /\ c \in TCBs
    BY <1>1, <1>9, Names DEF SwitchInv, IdleInv
  <2>4. StackInv' /\ ChosenInv' /\ ActiveInv'
    <3>1. /\ UNCHANGED <<active, stack, prev, noPreempt>>
          /\ pc'[me] = "commit" /\ pc'[c] = "parked"
          /\ \A t \in TCBs : t # me /\ t # c => pc'[t] = pc[t]
      BY <1>1, <1>2, <2>1, <2>3
    <3> HIDE <1>2
    <3> QED BY <1>1, <2>1, <2>3, <3>1, ChooseKeepsPlaces
  <2>5. QueueInv'
    <3>1. \A t \in Threads : pc[t] \in {"ready", "zombie", "waiting"} =>
                             pc'[t] = pc[t] /\ why'[t] = why[t]
      BY <1>1, <1>2, <1>4, Names
    <3> QED BY <1>2, <3>1, QueuesKept DEF SwitchInv
  <2> QED BY <1>5, <1>6, <1>7, <2>2, <2>4, <2>5 DEF SwitchInv
<1> QED BY <1>1, <1>8, <1>9 DEF TCBs

(* The choice is published.                                                *)
LEMMA CommitInv ==
  ASSUME SwitchInv, NEW c \in Cores, Commit(c),
         NEW me, NEW w, me = stack[c], w = chosen[c]
  PROVE  SwitchInv'
<1>1. /\ me \in TCBs /\ prev[c] = None /\ pc[me] = "commit"
      /\ pc \in [TCBs -> PCs] /\ noPreempt \in [TCBs -> BOOLEAN]
      /\ chosen \in [Cores -> TCBs \union {None}] /\ active \in [Cores -> TCBs]
      /\ stack \in [Cores -> TCBs] /\ prev \in [Cores -> TCBs \union {None}]
  BY DEF SwitchInv, TypeOK, Commit, At
<1>2. w \in TCBs
  BY <1>1 DEF SwitchInv, ChosenInv
<1>3. pc[w] = "picked" \/ (w = c /\ pc[w] = "parked")
  BY <1>2 DEF SwitchInv, ChosenInv, TCBs
<1>4. /\ pc' = [pc EXCEPT ![me] = "switch"]
      /\ noPreempt' = [noPreempt EXCEPT ![w] = TRUE]
      /\ active' = [active EXCEPT ![c] = w]
      /\ UNCHANGED <<stack, chosen, prev, armed, why, resume, ret, hand, irqOff, readyQ,
                     zombies, count, semLock, waiting, lockOf, slot, runTime,
                     killFlag, isReady, children, killFlags>>
  BY DEF Commit, Goto, semVars, procVars
<1>5. /\ pc'[me] = "switch" /\ \A t \in TCBs : t # me => pc'[t] = pc[t]
      /\ noPreempt'[w] /\ \A t \in TCBs : noPreempt[t] => noPreempt'[t]
      /\ active'[c] = w /\ \A d \in Cores : d # c => active'[d] = active[d]
  BY <1>1, <1>2, <1>4
<1>6. \A d \in Cores : /\ d # c => stack[d] # me
                       /\ prev[d] # None => prev[d] # me
                       /\ chosen[d] # None => chosen[d] # me
  BY <1>1 DEF SwitchInv, StackInv, ChosenInv, TCBs
<1>7. TypeOK'
  <2>1. /\ pc' \in [TCBs -> PCs] /\ noPreempt' \in [TCBs -> BOOLEAN]
        /\ active' \in [Cores -> TCBs]
    BY <1>1, <1>2, <1>4 DEF PCs, OnCpu, Blocking
  <2> QED BY <1>4, <2>1 DEF SwitchInv, TypeOK
<1>8. /\ stack' = stack /\ chosen' = chosen /\ prev' = prev /\ why' = why
      /\ resume' = resume /\ hand' = hand
  BY <1>4
<1>9. StackInv'
  <2>1. ASSUME NEW d \in Cores
        PROVE /\ pc'[stack[d]] \in OnCpu
              /\ prev[d] # None <=> pc'[stack[d]] = "landing"
              /\ prev[d] # None => pc'[prev[d]] = "leaving"
    <3>1. CASE d = c
      BY <1>1, <1>5, <3>1 DEF OnCpu, Blocking
    <3>2. CASE d # c
      BY <1>1, <1>5, <1>6, <3>2 DEF SwitchInv, StackInv
    <3> QED BY <3>1, <3>2
  <2> QED BY <1>8, <2>1 DEF SwitchInv, StackInv
<1>10. ChosenInv'
  <2>1. ASSUME NEW d \in Cores
        PROVE /\ chosen[d] # None <=> pc'[stack[d]] \in {"commit", "switch"}
              /\ chosen[d] \in Threads => pc'[chosen[d]] = "picked"
              /\ chosen[d] \in Cores => chosen[d] = d /\ pc'[d] = "parked"
    <3>1. /\ chosen[d] # None <=> pc[stack[d]] \in {"commit", "switch"}
          /\ chosen[d] \in Threads => pc[chosen[d]] = "picked"
          /\ chosen[d] \in Cores => chosen[d] = d /\ pc[d] = "parked"
      BY DEF SwitchInv, ChosenInv
    <3>2. /\ chosen[d] # None => pc'[chosen[d]] = pc[chosen[d]]
          /\ stack[d] # me => pc'[stack[d]] = pc[stack[d]]
      BY <1>1, <1>5, <1>6
    <3> QED BY <1>1, <1>5, <3>1, <3>2, Names
  <2>2. \A d, e \in Cores : chosen[d] = chosen[e] /\ chosen[d] # None => d = e
    BY DEF SwitchInv, ChosenInv
  <2> QED BY ONLY <1>8, <2>1, <2>2, Zenon DEF ChosenInv
<1>11. IdleInv'
  <2> HIDE <1>4
  <2> QED BY <1>1, <1>5, <1>8, Names DEF SwitchInv, IdleInv, IdleStops, Blocking
<1>12. QueueInv'
  <2>1. \A t \in Threads : pc[t] \in {"ready", "zombie", "waiting"} =>
                           pc'[t] = pc[t] /\ why'[t] = why[t]
    BY <1>1, <1>5, <1>8, Names
  <2> QED BY <1>4, <2>1, QueuesKept DEF SwitchInv
<1>13. HandInv'
  BY <1>1, <1>5, <1>8, HandsKept DEF SwitchInv
<1>14. CallInv'
  <2>1. /\ \A t \in TCBs : /\ resume'[t] = resume[t] /\ ret'[t] = ret[t]
                           /\ pc'[t] = pc[t] \/ {pc[t], pc'[t]} \cap Working = {}
                           /\ pc[t] = "made" => pc'[t] = "made"
        /\ UNCHANGED <<lockOf, slot, children>>
    BY <1>1, <1>4, <1>5 DEF Working
  <2> QED BY ONLY SwitchInv, <2>1, SwitchKeepsCalls
<1>15. ActiveInv'
  <2>1. ASSUME NEW d \in Cores
        PROVE /\ pc'[stack[d]] # "switch" => active'[d] = stack[d]
              /\ pc'[stack[d]] = "switch" => active'[d] = chosen[d] /\ noPreempt'[chosen[d]]
              /\ pc'[stack[d]] \in Blocking => noPreempt'[stack[d]]
    <3>1. CASE d = c
      BY <1>1, <1>5, <3>1 DEF SwitchInv, ActiveInv, Blocking
    <3>2. CASE d # c
      <4>1. /\ stack[d] \in TCBs /\ pc'[stack[d]] = pc[stack[d]] /\ active'[d] = active[d]
            /\ pc[stack[d]] = "switch" => chosen[d] \in TCBs
        BY <1>1, <1>5, <1>6, <3>2 DEF SwitchInv, ChosenInv
      <4> QED BY <1>5, <4>1 DEF SwitchInv, ActiveInv
    <3> QED BY <3>1, <3>2
  <2> QED BY <1>8, <2>1 DEF ActiveInv
<1> QED BY <1>7, <1>9, <1>10, <1>11, <1>12, <1>13, <1>14, <1>15 DEF SwitchInv

(* The core moves to the stack of the chosen TCB.                          *)
LEMMA SwitchStepInv ==
  ASSUME SwitchInv, NEW c \in Cores, Switch(c),
         NEW me, NEW w, me = stack[c], w = chosen[c]
  PROVE  SwitchInv'
<1>1. /\ me \in TCBs /\ prev[c] = None /\ pc[me] = "switch"
      /\ pc \in [TCBs -> PCs] /\ noPreempt \in [TCBs -> BOOLEAN]
      /\ chosen \in [Cores -> TCBs \union {None}] /\ active \in [Cores -> TCBs]
      /\ stack \in [Cores -> TCBs] /\ prev \in [Cores -> TCBs \union {None}]
  BY DEF SwitchInv, TypeOK, Switch, At
<1>2. w \in TCBs
  BY <1>1 DEF SwitchInv, ChosenInv
<1>3. pc[w] = "picked" \/ (w = c /\ pc[w] = "parked")
  BY <1>2 DEF SwitchInv, ChosenInv, TCBs
<1>4. /\ pc' = [pc EXCEPT ![me] = "leaving", ![w] = "landing"]
      /\ noPreempt' = [noPreempt EXCEPT ![me] = FALSE, ![w] = FALSE]
      /\ stack' = [stack EXCEPT ![c] = w] /\ prev' = [prev EXCEPT ![c] = me]
      /\ chosen' = [chosen EXCEPT ![c] = None]
      /\ UNCHANGED <<active, armed, why, resume, ret, hand, irqOff, readyQ,
                     zombies, count, semLock, waiting, lockOf, slot, runTime,
                     killFlag, isReady, children, killFlags>>
  BY DEF Switch, semVars, procVars
<1>5. /\ me # w /\ pc'[me] = "leaving" /\ pc'[w] = "landing"
      /\ \A t \in TCBs : t # me /\ t # w => pc'[t] = pc[t] /\ noPreempt'[t] = noPreempt[t]
      /\ stack'[c] = w /\ prev'[c] = me /\ chosen'[c] = None
      /\ \A d \in Cores : d # c => /\ stack'[d] = stack[d] /\ prev'[d] = prev[d]
                                   /\ chosen'[d] = chosen[d]
  BY <1>1, <1>2, <1>3, <1>4
<1>6. \A d \in Cores : d # c => /\ stack[d] # me /\ stack[d] # w
                                /\ prev[d] # me /\ prev[d] # w
                                /\ chosen[d] # me /\ chosen[d] # w
  <2>1. \A d \in Cores : /\ pc[stack[d]] \in OnCpu
                         /\ prev[d] # None => pc[prev[d]] = "leaving"
                         /\ stack[d] = me => d = c
    BY DEF SwitchInv, StackInv
  <2>2. \A d \in Cores : /\ chosen[d] # None => pc[chosen[d]] \in {"picked", "parked"}
                         /\ chosen[d] = w => d = c
    BY <1>1, <1>2, Names DEF SwitchInv, ChosenInv, TCBs
  <2> QED BY <1>1, <1>2, <1>3, <2>1, <2>2, Points, Names
<1>7. TypeOK'
  <2>1. /\ pc' \in [TCBs -> PCs] /\ noPreempt' \in [TCBs -> BOOLEAN]
        /\ stack' \in [Cores -> TCBs] /\ prev' \in [Cores -> TCBs \union {None}]
        /\ chosen' \in [Cores -> TCBs \union {None}]
    BY <1>1, <1>2, <1>4 DEF PCs, OnCpu, Kept
  <2> QED BY <1>4, <2>1 DEF SwitchInv, TypeOK
<1>8. why' = why /\ resume' = resume /\ hand' = hand /\ active' = active
  BY <1>4
<1>9. \A d \in Cores : d # c =>
        /\ pc'[stack[d]] = pc[stack[d]]
        /\ prev[d] # None => pc'[prev[d]] = pc[prev[d]]
        /\ chosen[d] # None => pc'[chosen[d]] = pc[chosen[d]]
        /\ noPreempt'[stack[d]] = noPreempt[stack[d]]
        /\ chosen[d] # None => noPreempt'[chosen[d]] = noPreempt[chosen[d]]
  BY <1>1, <1>5, <1>6
<1>10. StackInv'
  <2>1. ASSUME NEW d \in Cores
        PROVE /\ pc'[stack'[d]] \in OnCpu
              /\ prev'[d] # None <=> pc'[stack'[d]] = "landing"
              /\ prev'[d] # None => pc'[prev'[d]] = "leaving"
    <3>1. CASE d = c
      BY <1>1, <1>5, <3>1, Names DEF OnCpu
    <3>2. CASE d # c
      BY <1>5, <1>9, <3>2 DEF SwitchInv, StackInv
    <3> QED BY <3>1, <3>2
  <2>2. \A d, e \in Cores : stack'[d] = stack'[e] => d = e
    BY <1>5, <1>6 DEF SwitchInv, StackInv
  <2>3. \A d, e \in Cores : prev'[d] = prev'[e] /\ prev'[d] # None => d = e
    BY <1>5, <1>6 DEF SwitchInv, StackInv
  <2> QED BY ONLY <2>1, <2>2, <2>3 DEF StackInv
<1>11. ChosenInv'
  <2>1. ASSUME NEW d \in Cores
        PROVE /\ chosen'[d] # None <=> pc'[stack'[d]] \in {"commit", "switch"}
              /\ chosen'[d] \in Threads => pc'[chosen'[d]] = "picked"
              /\ chosen'[d] \in Cores => chosen'[d] = d /\ pc'[d] = "parked"
    <3>1. CASE d = c
      BY <1>5, <3>1, Names
    <3>2. CASE d # c
      <4>1. /\ chosen[d] # None <=> pc[stack[d]] \in {"commit", "switch"}
            /\ chosen[d] \in Threads => pc[chosen[d]] = "picked"
            /\ chosen[d] \in Cores => chosen[d] = d /\ pc[d] = "parked"
        BY DEF SwitchInv, ChosenInv
      <4> QED BY <1>5, <1>9, <3>2, <4>1, Names
    <3> QED BY <3>1, <3>2
  <2>2. \A d, e \in Cores : chosen'[d] = chosen'[e] /\ chosen'[d] # None => d = e
    BY <1>5 DEF SwitchInv, ChosenInv
  <2> QED BY ONLY <2>1, <2>2 DEF ChosenInv
<1>12. IdleInv'
  <2> SUFFICES ASSUME NEW d \in Cores
               PROVE  /\ pc'[d] \in IdleStops \union {"stop"}
                      /\ pc'[d] \in IdleStops => why'[d] = "stop" /\ resume'[d] = "stop"
                      /\ pc'[d] = "leaving" => prev'[d] = d
                      /\ pc'[d] \notin {"leaving", "parked"} => stack'[d] = d
                      /\ hand'[d] = None
                      /\ \A e \in Cores : (stack'[e] = d \/ prev'[e] = d) => e = d
    BY DEF IdleInv
  <2>1. /\ pc[d] \in IdleStops \union {"stop"}
        /\ pc[d] \in IdleStops => why[d] = "stop" /\ resume[d] = "stop"
        /\ pc[d] = "leaving" => prev[d] = d
        /\ pc[d] \notin {"leaving", "parked"} => stack[d] = d
        /\ hand[d] = None
        /\ \A e \in Cores : (stack[e] = d \/ prev[e] = d) => e = d
    BY DEF SwitchInv, IdleInv
  <2>2. d = me => d = c
    BY <2>1
  <2>3. d = w => d = c
    BY DEF SwitchInv, ChosenInv
  <2>4. d \in TCBs
    BY Names
  <2>5. CASE d = me
    BY <1>1, <1>5, <1>6, <1>8, <2>1, <2>2, <2>5 DEF IdleStops, Blocking
  <2>6. CASE d = w
    BY <1>1, <1>2, <1>3, <1>5, <1>6, <1>8, <2>1, <2>3, <2>6, Names DEF IdleStops, Blocking
  <2>7. CASE d # me /\ d # w
    <3>1. pc'[d] = pc[d]
      BY <1>5, <2>4, <2>7
    <3>2. d # c => stack'[d] = stack[d] /\ prev'[d] = prev[d]
      BY <1>5
    <3>3. d = c => pc[d] = "parked"
      BY <1>1, <2>1, <2>7, Names
    <3>4. \A e \in Cores : (stack'[e] = d \/ prev'[e] = d) => e = d
      BY <1>5, <2>1, <2>7
    <3> QED BY <1>8, <2>1, <3>1, <3>2, <3>3, <3>4
  <2> QED BY <2>5, <2>6, <2>7
<1>13. QueueInv'
  <2>1. \A t \in Threads : pc[t] \in {"ready", "zombie", "waiting"} =>
                           pc'[t] = pc[t] /\ why'[t] = why[t]
    BY <1>1, <1>3, <1>5, <1>8, Names
  <2> QED BY <1>4, <2>1, QueuesKept DEF SwitchInv
<1>14. HandInv'
  <2>1. \A t \in TCBs : /\ pc[t] = "woken" => pc'[t] = "woken"
                        /\ pc'[t] = "wake" => pc[t] = "wake"
    BY <1>1, <1>3, <1>5
  <2> QED BY <1>8, <2>1, HandsKept DEF SwitchInv
<1>15. CallInv'
  <2>1. /\ \A t \in TCBs : /\ resume'[t] = resume[t] /\ ret'[t] = ret[t]
                           /\ pc'[t] = pc[t] \/ {pc[t], pc'[t]} \cap Working = {}
                           /\ pc[t] = "made" => pc'[t] = "made"
        /\ UNCHANGED <<lockOf, slot, children>>
    BY <1>1, <1>3, <1>4, <1>5 DEF Working
  <2> QED BY ONLY SwitchInv, <2>1, SwitchKeepsCalls
<1>16. ActiveInv'
  <2>1. ASSUME NEW d \in Cores
        PROVE /\ pc'[stack'[d]] # "switch" => active[d] = stack'[d]
              /\ pc'[stack'[d]] = "switch" => active[d] = chosen'[d] /\ noPreempt'[chosen'[d]]
              /\ pc'[stack'[d]] \in Blocking => noPreempt'[stack'[d]]
    <3>1. CASE d = c
      BY <1>1, <1>5, <3>1 DEF SwitchInv, ActiveInv, Blocking
    <3>2. CASE d # c
      <4>1. pc[stack[d]] = "switch" => chosen[d] # None
        BY DEF SwitchInv, ChosenInv
      <4> QED BY <1>5, <1>9, <3>2, <4>1 DEF SwitchInv, ActiveInv
    <3> QED BY <3>1, <3>2
  <2> QED BY <1>8, <2>1 DEF ActiveInv
<1> QED BY <1>7, <1>10, <1>11, <1>12, <1>13, <1>14, <1>15, <1>16 DEF SwitchInv

(* The switch is finished: the TCB that left is put where it is kept and   *)
(* the next one continues.                                                 *)
LEMMA ArriveInv ==
  ASSUME SwitchInv, NEW c \in Cores, NEW kept, Arrive(c, kept),
         NEW me, NEW w, me = stack[c], w = prev[c], w # None,
         kept \in {"ready", "zombie", "waiting", "parked"},
         w \in Cores <=> kept = "parked"
  PROVE  /\ StackInv' /\ ChosenInv' /\ IdleInv' /\ HandInv' /\ CallInv' /\ ActiveInv'
         /\ me \in TCBs /\ w \in TCBs /\ pc[me] = "landing" /\ pc[w] = "leaving"
         /\ pc'[me] \in Working /\ pc'[w] = kept
         /\ \A t \in TCBs : t # me /\ t # w => pc'[t] = pc[t]
         /\ \A t \in TCBs : t # me => why'[t] = why[t]
         /\ pc' \in [TCBs -> PCs] /\ prev' \in [Cores -> TCBs \union {None}]
         /\ why' \in [TCBs -> {"yield", "stop"} \union Sems]
         /\ resume' \in [TCBs -> Working] /\ irqOff' \in [TCBs -> BOOLEAN]
<1>1. /\ me \in TCBs /\ w \in TCBs
      /\ pc \in [TCBs -> PCs] /\ resume \in [TCBs -> Working]
      /\ why \in [TCBs -> {"yield", "stop"} \union Sems] /\ irqOff \in [TCBs -> BOOLEAN]
      /\ chosen \in [Cores -> TCBs \union {None}] /\ active \in [Cores -> TCBs]
      /\ stack \in [Cores -> TCBs] /\ prev \in [Cores -> TCBs \union {None}]
  BY DEF SwitchInv, TypeOK
<1>2. pc[me] = "landing" /\ pc[w] = "leaving" /\ me # w
  BY DEF SwitchInv, StackInv
<1>3. /\ pc' = [pc EXCEPT ![w] = kept, ![me] = resume[me]]
      /\ why' = [why EXCEPT ![me] = "stop"] /\ resume' = [resume EXCEPT ![me] = "run"]
      /\ irqOff' = [irqOff EXCEPT ![me] = FALSE] /\ prev' = [prev EXCEPT ![c] = None]
      /\ UNCHANGED <<active, stack, chosen, ret, hand, noPreempt, lockOf, slot, children>>
  BY DEF Arrive, Continue, procVars
<1>4. /\ pc'[me] = resume[me] /\ resume[me] \in Working /\ pc'[w] = kept
      /\ \A t \in TCBs : t # me /\ t # w => pc'[t] = pc[t]
      /\ \A t \in TCBs : t # me => why'[t] = why[t] /\ resume'[t] = resume[t]
      /\ resume'[me] = "run" /\ why'[me] = "stop"
      /\ prev'[c] = None /\ \A d \in Cores : d # c => prev'[d] = prev[d]
  BY <1>1, <1>2, <1>3
<1>5. /\ pc' \in [TCBs -> PCs] /\ prev' \in [Cores -> TCBs \union {None}]
      /\ why' \in [TCBs -> {"yield", "stop"} \union Sems]
      /\ resume' \in [TCBs -> Working] /\ irqOff' \in [TCBs -> BOOLEAN]
  <2>1. kept \in PCs /\ resume[me] \in PCs /\ "run" \in Working
    BY <1>4 DEF PCs, OnCpu, Kept, Working
  <2> QED BY <1>1, <1>3, <2>1
<1>6. /\ stack' = stack /\ chosen' = chosen /\ active' = active
      /\ noPreempt' = noPreempt /\ hand' = hand /\ ret' = ret
  BY <1>3
<1>7. \A d \in Cores : d # c => /\ stack[d] # me /\ stack[d] # w
                                /\ prev[d] # me /\ prev[d] # w
  BY <1>1, <1>2, Points, Names DEF SwitchInv, StackInv
<1>8. \A d \in Cores : chosen[d] # None => chosen[d] # me /\ chosen[d] # w
  <2>1. \A d \in Cores : chosen[d] # None => pc[chosen[d]] \in {"picked", "parked"}
    BY <1>1 DEF SwitchInv, ChosenInv, TCBs
  <2> QED BY <1>2, <2>1
<1>9. /\ \A d \in Cores : d # c => /\ pc'[stack[d]] = pc[stack[d]]
                                   /\ prev[d] # None => pc'[prev[d]] = pc[prev[d]]
      /\ \A d \in Cores : chosen[d] # None => pc'[chosen[d]] = pc[chosen[d]]
  BY <1>1, <1>4, <1>7, <1>8
<1>10. /\ resume[me] \in OnCpu /\ resume[me] \notin Blocking
       /\ resume[me] \notin {"landing", "commit", "switch"}
  BY <1>4 DEF Working, OnCpu, Blocking
<1>11. StackInv'
  <2>1. ASSUME NEW d \in Cores
        PROVE /\ pc'[stack[d]] \in OnCpu
              /\ prev'[d] # None <=> pc'[stack[d]] = "landing"
              /\ prev'[d] # None => pc'[prev'[d]] = "leaving"
    <3>1. CASE d = c
      BY <1>4, <1>10, <3>1
    <3>2. CASE d # c
      BY <1>4, <1>9, <3>2 DEF SwitchInv, StackInv
    <3> QED BY <3>1, <3>2
  <2>2. \A d, e \in Cores : stack[d] = stack[e] => d = e
    BY DEF SwitchInv, StackInv
  <2>3. \A d, e \in Cores : prev'[d] = prev'[e] /\ prev'[d] # None => d = e
    BY <1>4 DEF SwitchInv, StackInv
  <2> QED BY ONLY <1>6, <2>1, <2>2, <2>3 DEF StackInv
<1>12. ChosenInv'
  <2>1. ASSUME NEW d \in Cores
        PROVE /\ chosen[d] # None <=> pc'[stack[d]] \in {"commit", "switch"}
              /\ chosen[d] \in Threads => pc'[chosen[d]] = "picked"
              /\ chosen[d] \in Cores => chosen[d] = d /\ pc'[d] = "parked"
    <3>1. /\ chosen[d] # None <=> pc[stack[d]] \in {"commit", "switch"}
          /\ chosen[d] \in Threads => pc[chosen[d]] = "picked"
          /\ chosen[d] \in Cores => chosen[d] = d /\ pc[d] = "parked"
      BY DEF SwitchInv, ChosenInv
    <3>2. chosen[d] # None <=> pc'[stack[d]] \in {"commit", "switch"}
      <4>1. CASE d = c
        BY <1>2, <1>4, <1>10, <3>1, <4>1
      <4>2. CASE d # c
        BY <1>9, <3>1, <4>2
      <4> QED BY <4>1, <4>2
    <3> QED BY <1>9, <3>1, <3>2, Names
  <2>2. \A d, e \in Cores : chosen[d] = chosen[e] /\ chosen[d] # None => d = e
    BY DEF SwitchInv, ChosenInv
  <2> QED BY ONLY <1>6, <2>1, <2>2, Zenon DEF ChosenInv
<1>13. IdleInv'
  <2> SUFFICES ASSUME NEW d \in Cores
               PROVE  /\ pc'[d] \in IdleStops \union {"stop"}
                      /\ pc'[d] \in IdleStops => why'[d] = "stop" /\ resume'[d] = "stop"
                      /\ pc'[d] = "leaving" => prev'[d] = d
                      /\ pc'[d] \notin {"leaving", "parked"} => stack[d] = d
                      /\ hand[d] = None
                      /\ \A e \in Cores : (stack[e] = d \/ prev'[e] = d) => e = d
    BY <1>6 DEF IdleInv
  <2>1. /\ pc[d] \in IdleStops \union {"stop"}
        /\ pc[d] \in IdleStops => why[d] = "stop" /\ resume[d] = "stop"
        /\ pc[d] = "leaving" => prev[d] = d
        /\ pc[d] \notin {"leaving", "parked"} => stack[d] = d
        /\ hand[d] = None
        /\ \A e \in Cores : (stack[e] = d \/ prev[e] = d) => e = d
    BY DEF SwitchInv, IdleInv
  <2>2. d \in TCBs
    BY Names
  <2>3. \A e \in Cores : (stack[e] = d \/ prev'[e] = d) => e = d
    BY <1>4, <2>1, <2>2, Names
  <2>4. CASE d = me
    <3>1. resume[d] = "stop" /\ stack[d] = d
      BY <1>2, <2>1, <2>4 DEF IdleStops
    <3> QED BY <1>4, <2>1, <2>3, <2>4, <3>1 DEF IdleStops, Blocking
  <2>5. CASE d = w
    <3>1. kept = "parked" /\ d # me
      BY <1>2, <2>5
    <3> QED BY <1>2, <1>4, <2>1, <2>2, <2>3, <2>5, <3>1 DEF IdleStops, Blocking
  <2>6. CASE d # me /\ d # w
    <3>1. pc'[d] = pc[d] /\ why'[d] = why[d] /\ resume'[d] = resume[d]
      BY <1>4, <2>2, <2>6
    <3>2. d # c => prev'[d] = prev[d]
      BY <1>4
    <3>3. d = c => pc[d] # "leaving"
      BY <2>1, <2>6
    <3> QED BY <2>1, <2>3, <3>1, <3>2, <3>3
  <2> QED BY <2>4, <2>5, <2>6
<1>14. HandInv'
  <2>1. \A t \in TCBs : /\ pc[t] = "woken" => pc'[t] = "woken"
                        /\ "wake" \in {pc'[t], resume'[t]} => "wake" \in {pc[t], resume[t]}
    BY <1>1, <1>2, <1>4
  <2> QED BY <1>6, <2>1, HandsKept DEF SwitchInv
<1>15. CallInv'
  <2>1. /\ \A t \in TCBs \ {me} :
             /\ resume'[t] = resume[t] /\ ret'[t] = ret[t]
             /\ pc'[t] = pc[t] \/ {pc[t], pc'[t]} \cap Working = {}
        /\ \A t \in Threads : /\ slot'[t] = slot[t] /\ children'[t] = children[t]
                              /\ lockOf'[t] = lockOf[t]
        /\ resume'[me] = "run" /\ me \in TCBs
        /\ slot'[me] = slot[me] /\ children'[me] = children[me] /\ lockOf'[me] = lockOf[me]
    BY <1>1, <1>2, <1>3, <1>4 DEF Working
  <2>2. ret'[me] = "spawn" => pc'[me] = "reap"
    BY <1>1, <1>2, <1>4, <1>6 DEF SwitchInv, CallInv
  <2>3. Spawning(me)' => Spawning(me)
    BY <1>4, <1>6 DEF Spawning
  <2>4. \A t \in Threads : Spawning(t) /\ Spawning(t)' =>
                           pc'[children[t][slot[t]]] = "made"
    <3>1. \A t \in TCBs : pc[t] = "made" => pc'[t] = "made"
      BY <1>1, <1>2, <1>4
    <3>2. \A t \in Threads : Spawning(t) =>
            children[t][slot[t]] \in TCBs /\ pc[children[t][slot[t]]] = "made"
      BY Names DEF SwitchInv, CallInv, TypeOK
    <3> QED BY <3>1, <3>2
  <2>5. /\ pc'[me] \in {"get", "got"} => slot'[me] \in Slots /\ children'[me][slot'[me]] # None
        /\ pc'[me] = "locked" => lockOf'[me] # None
    <3>1. resume[me] \in {"get", "got", "locked"} => me \in Threads
      BY <1>1, <1>2 DEF SwitchInv, IdleInv, IdleStops, TCBs
    <3>2. /\ resume[me] \in {"get", "got"} => {"get", "got"} \cap {pc[me], resume[me]} # {}
          /\ resume[me] = "locked" => "locked" \in {pc[me], resume[me]}
      OBVIOUS
    <3>3. /\ resume[me] \in {"get", "got"} => slot[me] \in Slots /\ children[me][slot[me]] # None
          /\ resume[me] = "locked" => lockOf[me] # None
      BY <3>1, <3>2 DEF SwitchInv, CallInv
    <3> QED BY <1>4, <2>1, <3>3
  <2> QED BY ONLY SwitchInv, <2>1, <2>2, <2>3, <2>4, <2>5, CallsKept DEF Spawning
<1>16. ActiveInv'
  <2>1. ASSUME NEW d \in Cores
        PROVE /\ pc'[stack[d]] # "switch" => active[d] = stack[d]
              /\ pc'[stack[d]] = "switch" => active[d] = chosen[d] /\ noPreempt[chosen[d]]
              /\ pc'[stack[d]] \in Blocking => noPreempt[stack[d]]
    <3>1. CASE d = c
      BY <1>2, <1>4, <1>10, <3>1 DEF SwitchInv, ActiveInv
    <3>2. CASE d # c
      BY <1>9, <3>2 DEF SwitchInv, ActiveInv
    <3> QED BY <3>1, <3>2
  <2> QED BY <1>6, <2>1 DEF ActiveInv
<1> QED BY <1>1, <1>2, <1>4, <1>5, <1>11, <1>12, <1>13, <1>14, <1>15, <1>16

(* The handler of yield() schedules the thread that left.                  *)
LEMMA HandleYieldInv ==
  ASSUME SwitchInv, NEW c \in Cores, HandleYield(c),
         NEW me, NEW w, me = stack[c], w = prev[c]
  PROVE  SwitchInv'
<1>1. /\ w # None /\ why[w] = "yield" /\ Arrive(c, "ready") /\ Schedule(w)
      /\ UNCHANGED <<zombies, count, semLock, waiting>> /\ w \in TCBs
      /\ pc[w] = "leaving" /\ zombies \in Seq(Threads)
  BY DEF HandleYield, semVars, SwitchInv, TypeOK, StackInv
<1>2. w \notin Cores /\ w \in Threads
  BY <1>1 DEF SwitchInv, IdleInv, IdleStops, TCBs
<1>3. /\ StackInv' /\ ChosenInv' /\ IdleInv' /\ HandInv' /\ CallInv' /\ ActiveInv'
      /\ pc[me] = "landing" /\ pc'[me] \in Working /\ pc'[w] = "ready"
      /\ \A t \in TCBs : t # me /\ t # w => pc'[t] = pc[t]
      /\ \A t \in TCBs : t # me => why'[t] = why[t]
      /\ pc' \in [TCBs -> PCs] /\ prev' \in [Cores -> TCBs \union {None}]
      /\ why' \in [TCBs -> {"yield", "stop"} \union Sems]
      /\ resume' \in [TCBs -> Working] /\ irqOff' \in [TCBs -> BOOLEAN]
  BY <1>1, <1>2, ArriveInv
<1>4. \A t \in Threads : /\ pc[t] = "ready" => pc'[t] = "ready"
                         /\ pc[t] = "zombie" => pc'[t] = "zombie"
                         /\ pc[t] = "waiting" => pc'[t] = "waiting" /\ why'[t] = why[t]
  BY <1>1, <1>3, Names
<1>5. /\ readyQ' \in Seq(Threads) /\ armed' \in [Cores -> BOOLEAN]
      /\ Keeps(readyQ, "ready")'
  BY <1>1, <1>2, <1>3, <1>4, ScheduleKeeps
<1>6. TypeOK'
  <2>1. UNCHANGED <<active, stack, chosen, ret, hand, noPreempt, lockOf, slot, runTime,
                    killFlag, isReady, children, killFlags>>
    BY <1>1 DEF Arrive, procVars
  <2> QED BY <1>1, <1>3, <1>5, <2>1 DEF SwitchInv, TypeOK
<1>7. QueueInv'
  <2>1. Keeps(zombies, "zombie")'
    <3>1. /\ \A i \in 1..Len(zombies) : zombies[i] \in Threads /\ pc[zombies[i]] = "zombie"
          /\ NoDuplicates(zombies) /\ zombies' = zombies
      BY <1>1 DEF SwitchInv, QueueInv, Keeps
    <3> QED BY <1>4, <3>1 DEF Keeps
  <2>2. \A s \in Sems : /\ Keeps(waiting[s], "waiting")'
                        /\ \A i \in 1..Len(waiting'[s]) : why'[waiting'[s][i]] = s
    BY <1>1, <1>4, WaitersKept
  <2> QED BY <1>5, <2>1, <2>2 DEF QueueInv
<1> QED BY <1>3, <1>6, <1>7 DEF SwitchInv

(* The handler of stop() parks an idle TCB and makes a thread a zombie.    *)
LEMMA HandleStopInv ==
  ASSUME SwitchInv, NEW c \in Cores, HandleStop(c),
         NEW me, NEW w, me = stack[c], w = prev[c]
  PROVE  SwitchInv'
<1>1. /\ w # None /\ why[w] = "stop" /\ w \in TCBs /\ pc[w] = "leaving"
      /\ UNCHANGED <<armed, readyQ, count, semLock, waiting>>
      /\ zombies \in Seq(Threads) /\ readyQ \in Seq(Threads)
  BY DEF HandleStop, semVars, SwitchInv, TypeOK, StackInv
<1>2. PICK kept \in {"parked", "zombie"} :
        /\ Arrive(c, kept) /\ (w \in Cores <=> kept = "parked")
        /\ kept = "parked" => zombies' = zombies
        /\ kept = "zombie" => w \in Threads /\ zombies' = Append(zombies, w)
  BY <1>1, Names DEF HandleStop, TCBs
<1>3. /\ StackInv' /\ ChosenInv' /\ IdleInv' /\ HandInv' /\ CallInv' /\ ActiveInv'
      /\ pc[me] = "landing" /\ pc'[me] \in Working /\ pc'[w] = kept
      /\ \A t \in TCBs : t # me /\ t # w => pc'[t] = pc[t]
      /\ \A t \in TCBs : t # me => why'[t] = why[t]
      /\ pc' \in [TCBs -> PCs] /\ prev' \in [Cores -> TCBs \union {None}]
      /\ why' \in [TCBs -> {"yield", "stop"} \union Sems]
      /\ resume' \in [TCBs -> Working] /\ irqOff' \in [TCBs -> BOOLEAN]
  BY <1>1, <1>2, ArriveInv
<1>4. \A t \in Threads : /\ pc[t] = "ready" => pc'[t] = "ready"
                         /\ pc[t] = "zombie" => pc'[t] = "zombie"
                         /\ pc[t] = "waiting" => pc'[t] = "waiting" /\ why'[t] = why[t]
  BY <1>1, <1>3, Names
<1>5. \A i \in 1..Len(zombies) : /\ zombies[i] \in Threads /\ zombies[i] # w
                                 /\ pc[zombies[i]] = "zombie"
  BY <1>1 DEF SwitchInv, QueueInv, Keeps
<1>6. zombies' \in Seq(Threads)
  BY <1>1, <1>2
<1>7. TypeOK'
  <2>1. UNCHANGED <<active, stack, chosen, ret, hand, noPreempt, lockOf, slot, runTime,
                    killFlag, isReady, children, killFlags>>
    BY <1>2 DEF Arrive, procVars
  <2> QED BY <1>1, <1>3, <1>6, <2>1 DEF SwitchInv, TypeOK
<1>8. QueueInv'
  <2>1. NoDuplicates(zombies)
    BY DEF SwitchInv, QueueInv, Keeps
  <2>2. Keeps(zombies, "zombie")'
    <3>1. CASE kept = "parked"
      BY <1>2, <1>4, <1>5, <2>1, <3>1 DEF Keeps
    <3>2. CASE kept = "zombie"
      <4>1. w \in Threads /\ zombies' = Append(zombies, w)
        BY <1>2, <3>2
      <4>2. NoDuplicates(zombies')
        BY <1>1, <1>5, <2>1, <4>1, AppendNoDuplicates
      <4>3. ASSUME NEW i \in 1..Len(zombies') PROVE pc'[zombies'[i]] = "zombie"
        <5>1. zombies'[i] = w \/ \E j \in 1..Len(zombies) : zombies'[i] = zombies[j]
          BY <1>1, <4>1
        <5> QED BY <1>3, <1>4, <1>5, <3>2, <5>1
      <4> QED BY <4>2, <4>3 DEF Keeps
    <3> QED BY <3>1, <3>2
  <2>3. Keeps(readyQ, "ready")'
    <3>1. /\ \A i \in 1..Len(readyQ) : readyQ[i] \in Threads /\ pc[readyQ[i]] = "ready"
          /\ NoDuplicates(readyQ) /\ readyQ' = readyQ
      BY <1>1 DEF SwitchInv, QueueInv, Keeps
    <3> QED BY <1>4, <3>1 DEF Keeps
  <2>4. \A s \in Sems : /\ Keeps(waiting[s], "waiting")'
                        /\ \A i \in 1..Len(waiting'[s]) : why'[waiting'[s][i]] = s
    BY <1>1, <1>4, WaitersKept
  <2> QED BY <2>2, <2>3, <2>4 DEF QueueInv
<1> QED BY <1>3, <1>7, <1>8 DEF SwitchInv

(* The handler of down() links the thread in and releases the semaphore.   *)
LEMMA HandleDownInv ==
  ASSUME SwitchInv, NEW c \in Cores, HandleDown(c),
         NEW me, NEW w, NEW s, me = stack[c], w = prev[c], s = why[w]
  PROVE  SwitchInv'
<1>1. /\ w # None /\ s \in Sems /\ w \in TCBs /\ pc[w] = "leaving"
      /\ Arrive(c, "waiting")
      /\ waiting' = [waiting EXCEPT ![s] = Append(@, w)]
      /\ semLock' = [semLock EXCEPT ![s] = None]
      /\ UNCHANGED <<armed, readyQ, zombies, count>>
      /\ zombies \in Seq(Threads) /\ readyQ \in Seq(Threads)
      /\ waiting \in [Sems -> Seq(Threads)] /\ semLock \in [Sems -> TCBs \union {None}]
  BY DEF HandleDown, SwitchInv, TypeOK, StackInv
<1>2. w \notin Cores /\ w \in Threads
  BY <1>1, Names DEF SwitchInv, IdleInv, IdleStops, TCBs
<1>3. /\ StackInv' /\ ChosenInv' /\ IdleInv' /\ HandInv' /\ CallInv' /\ ActiveInv'
      /\ pc[me] = "landing" /\ pc'[me] \in Working /\ pc'[w] = "waiting"
      /\ \A t \in TCBs : t # me /\ t # w => pc'[t] = pc[t]
      /\ \A t \in TCBs : t # me => why'[t] = why[t]
      /\ pc' \in [TCBs -> PCs] /\ prev' \in [Cores -> TCBs \union {None}]
      /\ why' \in [TCBs -> {"yield", "stop"} \union Sems]
      /\ resume' \in [TCBs -> Working] /\ irqOff' \in [TCBs -> BOOLEAN]
  <2>1. w # None /\ Arrive(c, "waiting") /\ (w \in Cores <=> "waiting" = "parked")
        /\ "waiting" \in {"ready", "zombie", "waiting", "parked"}
    BY <1>1, <1>2
  <2> HIDE <1>1
  <2> QED BY <2>1, ArriveInv
<1>4. \A t \in Threads : /\ pc[t] = "ready" => pc'[t] = "ready"
                         /\ pc[t] = "zombie" => pc'[t] = "zombie"
                         /\ pc[t] = "waiting" => pc'[t] = "waiting" /\ why'[t] = why[t]
  BY <1>1, <1>3, Names
<1>5. w # me
  BY <1>1, <1>3
<1>6. TypeOK'
  <2>1. UNCHANGED <<active, stack, chosen, ret, hand, noPreempt, lockOf, slot, runTime,
                    killFlag, isReady, children, killFlags>>
    BY <1>1 DEF Arrive, procVars
  <2>2. /\ waiting' \in [Sems -> Seq(Threads)] /\ semLock' \in [Sems -> TCBs \union {None}]
    BY <1>1, <1>2
  <2> QED BY <1>1, <1>3, <2>1, <2>2 DEF SwitchInv, TypeOK
<1>7. QueueInv'
  <2>1. Keeps(zombies, "zombie")'
    <3>1. /\ \A i \in 1..Len(zombies) : zombies[i] \in Threads /\ pc[zombies[i]] = "zombie"
          /\ NoDuplicates(zombies) /\ zombies' = zombies
      BY <1>1 DEF SwitchInv, QueueInv, Keeps
    <3> QED BY <1>4, <3>1 DEF Keeps
  <2>2. Keeps(readyQ, "ready")'
    <3>1. /\ \A i \in 1..Len(readyQ) : readyQ[i] \in Threads /\ pc[readyQ[i]] = "ready"
          /\ NoDuplicates(readyQ) /\ readyQ' = readyQ
      BY <1>1 DEF SwitchInv, QueueInv, Keeps
    <3> QED BY <1>4, <3>1 DEF Keeps
  <2>3. ASSUME NEW r \in Sems
        PROVE  /\ Keeps(waiting[r], "waiting")'
               /\ \A i \in 1..Len(waiting'[r]) : why'[waiting'[r][i]] = r
    <3>1. /\ waiting[r] \in Seq(Threads) /\ NoDuplicates(waiting[r])
          /\ \A i \in 1..Len(waiting[r]) : /\ waiting[r][i] \in Threads
                                           /\ pc[waiting[r][i]] = "waiting"
                                           /\ why[waiting[r][i]] = r
      BY <1>1 DEF SwitchInv, QueueInv, Keeps
    <3>2. CASE r = s
      <4>1. waiting'[r] = Append(waiting[r], w)
        BY <1>1, <3>2
      <4>2. NoDuplicates(waiting'[r])
        <5>1. \A i \in 1..Len(waiting[r]) : waiting[r][i] # w
          BY <1>1, <3>1
        <5> QED BY <1>2, <3>1, <4>1, <5>1, AppendNoDuplicates
      <4>3. ASSUME NEW i \in 1..Len(waiting'[r])
            PROVE  pc'[waiting'[r][i]] = "waiting" /\ why'[waiting'[r][i]] = r
        <5>1. waiting'[r][i] = w \/ \E j \in 1..Len(waiting[r]) : waiting'[r][i] = waiting[r][j]
          BY <3>1, <4>1
        <5>2. why'[w] = r
          BY <1>1, <1>3, <1>5, <3>2
        <5> QED BY <1>3, <1>4, <3>1, <5>1, <5>2
      <4> QED BY <4>2, <4>3 DEF Keeps
    <3>3. CASE r # s
      <4>1. waiting'[r] = waiting[r]
        BY <1>1, <3>3
      <4> QED BY <1>4, <3>1, <4>1 DEF Keeps
    <3> QED BY <3>2, <3>3
  <2> QED BY <2>1, <2>2, <2>3 DEF QueueInv
<1> QED BY <1>3, <1>6, <1>7 DEF SwitchInv

-----------------------------------------------------------------------------
(* SwitchInv holds initially and every step preserves it.                  *)
LEMMA InitInv == Init => SwitchInv
<1> SUFFICES ASSUME Init PROVE SwitchInv
  OBVIOUS
<1>1. /\ active = [c \in Cores |-> c] /\ stack = [c \in Cores |-> c]
      /\ chosen = [c \in Cores |-> None] /\ prev = [c \in Cores |-> None]
      /\ why = [t \in TCBs |-> "stop"] /\ resume = [t \in TCBs |-> "run"]
      /\ ret = [t \in TCBs |-> "run"] /\ hand = [t \in TCBs |-> None]
      /\ readyQ = <<Reaper, FirstThread>> /\ zombies = << >>
      /\ waiting = [s \in Sems |-> << >>]
  BY DEF Init
<1>2. /\ Reaper \in Threads /\ FirstThread \in Threads /\ Reaper # FirstThread
      /\ NCHILD \in Nat /\ MaxRunTime \in Nat
  BY SchedulerAssumption
<1>3. /\ \A t \in TCBs : pc[t] \in {"stop", "ready", "new"}
      /\ \A c \in Cores : pc[c] = "stop"
      /\ pc[Reaper] = "ready" /\ pc[FirstThread] = "ready"
      /\ pc \in [TCBs -> {"stop", "ready", "new"}]
  BY <1>2, Names DEF Init
<1>4. TypeOK
  <2>1. pc \in [TCBs -> PCs]
    BY <1>3 DEF PCs, OnCpu, Working, Kept
  <2>2. count \in [Sems -> Nat]
    BY DEF Init
  <2>3. runTime \in [Threads -> 0..MaxRunTime] /\ slot \in [Threads -> 0..NCHILD]
    BY <1>2 DEF Init
  <2>4. readyQ \in Seq(Threads) /\ zombies \in Seq(Threads) /\ waiting \in [Sems -> Seq(Threads)]
    BY <1>1, <1>2
  <2>5. /\ children \in [Threads -> [Slots -> Threads \union {None}]]
        /\ killFlags \in [Threads -> [Slots -> Threads \union {None}]]
    BY DEF Init
  <2>6. /\ active \in [Cores -> TCBs] /\ stack \in [Cores -> TCBs]
        /\ chosen \in [Cores -> TCBs \union {None}] /\ prev \in [Cores -> TCBs \union {None}]
        /\ why \in [TCBs -> {"yield", "stop"} \union Sems]
        /\ resume \in [TCBs -> Working] /\ ret \in [TCBs -> Returns]
        /\ hand \in [TCBs -> Threads \union {None}]
    BY <1>1, Names DEF Working, Returns
  <2>7. /\ armed \in [Cores -> BOOLEAN]
        /\ noPreempt \in [TCBs -> BOOLEAN] /\ irqOff \in [TCBs -> BOOLEAN]
        /\ semLock \in [Sems -> TCBs \union {None}]
        /\ lockOf \in [Threads -> Locks \union {None}]
        /\ killFlag \in [Threads -> BOOLEAN] /\ isReady \in [Threads -> BOOLEAN]
    BY DEF Init
  <2> QED BY <2>1, <2>2, <2>3, <2>4, <2>5, <2>6, <2>7 DEF TypeOK
<1>5. StackInv /\ ChosenInv /\ ActiveInv
  <2>1. \A c \in Cores : stack[c] = c /\ active[c] = c /\ chosen[c] = None /\ prev[c] = None
    BY <1>1
  <2>2. "stop" \in OnCpu /\ "stop" \notin Blocking
    BY DEF OnCpu, Working, Blocking
  <2> QED BY <1>3, <2>1, <2>2, Names DEF StackInv, ChosenInv, ActiveInv
<1>6. IdleInv
  <2>1. "stop" \notin IdleStops
    BY DEF IdleStops, Blocking
  <2> QED BY <1>1, <1>3, <2>1, Names DEF IdleInv
<1>7. QueueInv
  <2>1. Keeps(readyQ, "ready")
    BY <1>1, <1>2, <1>3 DEF Keeps, NoDuplicates
  <2>2. Keeps(<< >>, "zombie") /\ Keeps(<< >>, "waiting")
    BY DEF Keeps, NoDuplicates
  <2> QED BY <1>1, <2>1, <2>2 DEF QueueInv
<1>8. HandInv
  BY <1>1, <1>3 DEF HandInv
<1>9. CallInv
  BY <1>1, <1>3, Names DEF CallInv, Spawning
<1> QED BY <1>4, <1>5, <1>6, <1>7, <1>8, <1>9 DEF SwitchInv

LEMMA StutterInv ==
  ASSUME SwitchInv, UNCHANGED vars
  PROVE  SwitchInv'
<1>1. UNCHANGED <<active, stack, chosen, prev, armed, pc, why, resume, ret, hand,
                  noPreempt, irqOff, readyQ, zombies, count, semLock, waiting, lockOf,
                  slot, runTime, killFlag, isReady, children, killFlags>>
  BY DEF vars, cpuVars, tcbVars, semVars, procVars
<1>2. TypeOK' /\ QueueInv'
  BY <1>1 DEF SwitchInv, TypeOK, QueueInv, Keeps
<1>3. StackInv' /\ ChosenInv' /\ IdleInv' /\ HandInv' /\ ActiveInv'
  BY <1>1 DEF SwitchInv, StackInv, ChosenInv, IdleInv, HandInv, ActiveInv
<1>4. CallInv'
  BY <1>1 DEF SwitchInv, CallInv, Spawning
<1> QED BY <1>2, <1>3, <1>4 DEF SwitchInv

LEMMA NextInv == SwitchInv /\ [Next]_vars => SwitchInv'
<1> SUFFICES ASSUME SwitchInv, [Next]_vars PROVE SwitchInv'
  OBVIOUS
<1>1. CASE UNCHANGED vars
  BY <1>1, StutterInv
<1>2. ASSUME NEW c \in Cores, SwitchStep(c) PROVE SwitchInv'
  BY <1>2, MonitorInv, RemoveNextInv, RemoveReturnInv, RemoveNoneInv, MonitorWakeInv,
     CommitInv, SwitchStepInv, HandleYieldInv, HandleStopInv, HandleDownInv
  DEF SwitchStep
<1>3. ASSUME NEW c \in Cores, KernelStep(c) PROVE SwitchInv'
  BY <1>3, WakeWaiterInv, UnlockInv, SpawnInv, SetFutureInv, SetUpInv, StopInv,
     GetDownInv, GetUpInv, WaitDoneInv, ReaperLoopInv, ReapInv, YieldInv
  DEF KernelStep
<1>4. ASSUME NEW c \in Cores, SystemCall(c) PROVE SwitchInv'
  BY <1>4, LockInv, ForkInv, ForkFailsInv, ExitInv, WaitInv, DisownInv, KillInv
  DEF SystemCall
<1>5. ASSUME NEW c \in Cores, TimerWake(c) \/ Tick(c) PROVE SwitchInv'
  BY <1>5, TimerWakeInv, TickInv
<1> QED BY <1>1, <1>2, <1>3, <1>4, <1>5 DEF Next

(* pc tells where every TCB is kept, and each queue, choice, stack and     *)
(* hand of the kernel agrees with it, in every reachable state.            *)
THEOREM SwitchCorrect == Spec => []SwitchInv
BY InitInv, NextInv, PTL DEF Spec

(* Every variable keeps the shape its declaration says.                    *)
THEOREM TypeCorrect == Spec => []TypeOK
<1>1. SwitchInv => TypeOK
  BY DEF SwitchInv
<1> QED BY <1>1, SwitchCorrect, PTL

(* A tick that is not ignored finds the core on the stack of the thread it *)
(* preempts or kills, although block() sets activeThreads before it        *)
(* switches stacks.                                                        *)
THEOREM TickCorrect == Spec => []TickHitsRunning
<1>1. SwitchInv => TickHitsRunning
  BY DEF SwitchInv, ActiveInv, TickHitsRunning
<1> QED BY <1>1, SwitchCorrect, PTL

(* The idle TCB of a core is only ever run, chosen or left by that core:   *)
(* the assertions of block() hold.                                         *)
THEOREM IdleCorrect == Spec => []IdleAtHome
<1>1. ASSUME SwitchInv, NEW c \in Cores,
             NEW t \in {active[c], stack[c], chosen[c], prev[c]}, t \in Cores
      PROVE  t = c
  <2>1. active[c] = stack[c] \/ active[c] = chosen[c]
    BY <1>1 DEF SwitchInv, ActiveInv
  <2>2. t = stack[c] \/ t = prev[c] => t = c
    BY <1>1 DEF SwitchInv, IdleInv
  <2>3. t = chosen[c] => t = c
    BY <1>1 DEF SwitchInv, ChosenInv
  <2> QED BY <2>1, <2>2, <2>3
<1>2. SwitchInv => IdleAtHome
  BY <1>1 DEF IdleAtHome
<1> QED BY <1>2, SwitchCorrect, PTL

-----------------------------------------------------------------------------
(* A place that refers to a TCB determines the TCB's pc.                   *)
LEMMA PlaceOfPc ==
  ASSUME SwitchInv, NEW t \in TCBs, NEW x \in PlacesOf(t)
  PROVE  \/ \E c \in Cores : x = <<"stack", c>> /\ stack[c] = t /\ pc[t] \in OnCpu
         \/ \E c \in Cores : x = <<"leaving", c>> /\ prev[c] = t /\ pc[t] = "leaving"
         \/ \E c \in Cores : x = <<"chosen", c>> /\ chosen[c] = t /\ pc[t] \in {"picked", "parked"}
         \/ \E i \in 1..Len(readyQ) : x = <<"ready", i>> /\ readyQ[i] = t /\ pc[t] = "ready"
         \/ \E i \in 1..Len(zombies) : x = <<"zombie", i>> /\ zombies[i] = t /\ pc[t] = "zombie"
         \/ \E s \in Sems : \E i \in 1..Len(waiting[s]) :
              /\ x = <<"waiting", s, i>> /\ waiting[s][i] = t /\ pc[t] = "waiting"
              /\ why[t] = s
         \/ \E u \in TCBs : x = <<"hand", u>> /\ hand[u] = t /\ pc[t] = "woken"
<1>1. /\ t # None
      /\ DOMAIN stack = Cores /\ DOMAIN prev = Cores /\ DOMAIN chosen = Cores
      /\ DOMAIN hand = TCBs /\ DOMAIN readyQ = 1..Len(readyQ)
      /\ DOMAIN zombies = 1..Len(zombies)
      /\ \A s \in Sems : DOMAIN waiting[s] = 1..Len(waiting[s])
  BY Names DEF SwitchInv, TypeOK
<1>2. ASSUME NEW n, NEW f, x \in Entries(n, f, t)
      PROVE  \E k \in DOMAIN f : x = <<n, k>> /\ f[k] = t
  BY <1>2 DEF Entries
<1>3. CASE x \in Entries("stack", stack, t)
  BY <1>1, <1>2, <1>3 DEF SwitchInv, StackInv
<1>4. CASE x \in Entries("leaving", prev, t)
  BY <1>1, <1>2, <1>4 DEF SwitchInv, StackInv
<1>5. CASE x \in Entries("chosen", chosen, t)
  BY <1>1, <1>2, <1>5 DEF SwitchInv, ChosenInv, TCBs
<1>6. CASE x \in Entries("ready", readyQ, t)
  BY <1>1, <1>2, <1>6 DEF SwitchInv, QueueInv, Keeps
<1>7. CASE x \in Entries("zombie", zombies, t)
  BY <1>1, <1>2, <1>7 DEF SwitchInv, QueueInv, Keeps
<1>8. CASE x \in Waits(t)
  <2>1. PICK s \in Sems : \E i \in 1..Len(waiting[s]) :
                            x = <<"waiting", s, i>> /\ waiting[s][i] = t
    BY <1>1, <1>8 DEF Waits
  <2> QED BY <2>1 DEF SwitchInv, QueueInv, Keeps
<1>9. CASE x \in Entries("hand", hand, t)
  BY <1>1, <1>2, <1>9 DEF SwitchInv, HandInv
<1> QED BY <1>3, <1>4, <1>5, <1>6, <1>7, <1>8, <1>9 DEF PlacesOf

(* No TCB is at two places, and a deleted one is nowhere: no two cores run *)
(* on one stack, none is queued twice or while it is still on its stack,   *)
(* and the reaper deletes no stack in use.                                 *)
THEOREM PlaceCorrect == Spec => []OnePlace
<1>1. ASSUME SwitchInv, NEW t \in TCBs, NEW x \in PlacesOf(t), NEW y \in PlacesOf(t)
      PROVE  x = y
  <2>1. t # None
    BY Names
  <2>2. CASE pc[t] \in OnCpu
    <3>1. \E c \in Cores : x = <<"stack", c>> /\ stack[c] = t
      BY <1>1, <2>2, PlaceOfPc, Points
    <3>2. \E c \in Cores : y = <<"stack", c>> /\ stack[c] = t
      BY <1>1, <2>2, PlaceOfPc, Points
    <3> QED BY <1>1, <3>1, <3>2 DEF SwitchInv, StackInv
  <2>3. CASE pc[t] = "leaving"
    <3>1. \E c \in Cores : x = <<"leaving", c>> /\ prev[c] = t
      BY <1>1, <2>3, PlaceOfPc, Points
    <3>2. \E c \in Cores : y = <<"leaving", c>> /\ prev[c] = t
      BY <1>1, <2>3, PlaceOfPc, Points
    <3> QED BY <1>1, <2>1, <3>1, <3>2 DEF SwitchInv, StackInv
  <2>4. CASE pc[t] \in {"picked", "parked"}
    <3>1. \E c \in Cores : x = <<"chosen", c>> /\ chosen[c] = t
      BY <1>1, <2>4, PlaceOfPc, Points
    <3>2. \E c \in Cores : y = <<"chosen", c>> /\ chosen[c] = t
      BY <1>1, <2>4, PlaceOfPc, Points
    <3> QED BY <1>1, <2>1, <3>1, <3>2 DEF SwitchInv, ChosenInv
  <2>5. CASE pc[t] = "ready"
    <3>1. \E i \in 1..Len(readyQ) : x = <<"ready", i>> /\ readyQ[i] = t
      BY <1>1, <2>5, PlaceOfPc, Points
    <3>2. \E i \in 1..Len(readyQ) : y = <<"ready", i>> /\ readyQ[i] = t
      BY <1>1, <2>5, PlaceOfPc, Points
    <3> QED BY <1>1, <3>1, <3>2 DEF SwitchInv, QueueInv, Keeps, NoDuplicates
  <2>6. CASE pc[t] = "zombie"
    <3>1. \E i \in 1..Len(zombies) : x = <<"zombie", i>> /\ zombies[i] = t
      BY <1>1, <2>6, PlaceOfPc, Points
    <3>2. \E i \in 1..Len(zombies) : y = <<"zombie", i>> /\ zombies[i] = t
      BY <1>1, <2>6, PlaceOfPc, Points
    <3> QED BY <1>1, <3>1, <3>2 DEF SwitchInv, QueueInv, Keeps, NoDuplicates
  <2>7. CASE pc[t] = "waiting"
    <3> DEFINE s == why[t]
    <3>1. s \in Sems /\ \E i \in 1..Len(waiting[s]) : x = <<"waiting", s, i>> /\ waiting[s][i] = t
      BY <1>1, <2>7, PlaceOfPc, Points
    <3>2. \E i \in 1..Len(waiting[s]) : y = <<"waiting", s, i>> /\ waiting[s][i] = t
      BY <1>1, <2>7, PlaceOfPc, Points
    <3> QED BY <1>1, <3>1, <3>2 DEF SwitchInv, QueueInv, Keeps, NoDuplicates
  <2>8. CASE pc[t] = "woken"
    <3>1. \E u \in TCBs : x = <<"hand", u>> /\ hand[u] = t
      BY <1>1, <2>8, PlaceOfPc, Points
    <3>2. \E u \in TCBs : y = <<"hand", u>> /\ hand[u] = t
      BY <1>1, <2>8, PlaceOfPc, Points
    <3> QED BY <1>1, <2>1, <3>1, <3>2 DEF SwitchInv, HandInv
  <2>9. \/ pc[t] \in OnCpu \/ pc[t] = "leaving" \/ pc[t] \in {"picked", "parked"}
        \/ pc[t] = "ready" \/ pc[t] = "zombie" \/ pc[t] = "waiting" \/ pc[t] = "woken"
    BY <1>1, PlaceOfPc
  <2> QED BY <2>2, <2>3, <2>4, <2>5, <2>6, <2>7, <2>8, <2>9
<1>2. ASSUME SwitchInv, NEW t \in TCBs, pc[t] = "dead", NEW x \in PlacesOf(t)
      PROVE  FALSE
  BY <1>2, PlaceOfPc, Points
<1>3. SwitchInv => OnePlace
  BY <1>1, <1>2 DEF OnePlace
<1> QED BY <1>3, SwitchCorrect, PTL

-----------------------------------------------------------------------------
(* schedule() of a thread keeps readyQ sorted.                             *)
LEMMA ScheduleSorted ==
  ASSUME SwitchInv, ReadySorted, NEW w \in Threads, Schedule(w), runTime' = runTime
  PROVE  ReadySorted'
<1>1. readyQ \in Seq(Threads) /\ runTime \in [Threads -> 0..MaxRunTime]
  BY DEF SwitchInv, TypeOK
<1>2. runTime \in [Threads -> Nat]
  BY <1>1, SchedulerAssumption
<1>3. Sorted(Add(readyQ, runTime, w), runTime)
  BY <1>1, <1>2, AddSorted DEF ReadySorted
<1> QED BY <1>3 DEF Schedule, ReadySorted

(* Taking the first thread out leaves the rest sorted.                     *)
LEMMA RemoveSorted ==
  ASSUME SwitchInv, ReadySorted, readyQ # << >>, readyQ' = Tail(readyQ),
         runTime' = runTime
  PROVE  ReadySorted'
<1>1. readyQ \in Seq(Threads)
  BY DEF SwitchInv, TypeOK
<1>2. /\ Len(readyQ) \in Nat /\ Len(Tail(readyQ)) = Len(readyQ) - 1
      /\ \A k \in 1..Len(Tail(readyQ)) :
           k + 1 \in 1..Len(readyQ) /\ Tail(readyQ)[k] = readyQ[k + 1]
  BY <1>1, TailEntries
<1>3. ASSUME NEW i \in 1..Len(Tail(readyQ)), NEW j \in 1..Len(Tail(readyQ)), i < j
      PROVE  runTime[Tail(readyQ)[i]] <= runTime[Tail(readyQ)[j]]
  <2>1. i + 1 \in 1..Len(readyQ) /\ j + 1 \in 1..Len(readyQ) /\ i + 1 < j + 1
    BY <1>2, <1>3
  <2>2. runTime[readyQ[i + 1]] <= runTime[readyQ[j + 1]]
    BY <2>1 DEF ReadySorted, Sorted
  <2> QED BY <1>2, <2>2
<1> QED BY <1>3 DEF ReadySorted, Sorted

(* A tick charges the running thread only, which is not queued.            *)
LEMMA TickSorted ==
  ASSUME SwitchInv, ReadySorted, NEW c \in Cores, Tick(c)
  PROVE  ReadySorted'
<1> DEFINE me == active[c]
<1>1. /\ me = stack[c] /\ readyQ' = readyQ
      /\ runTime' = [runTime EXCEPT ![me] = @ + 1]
      /\ runTime \in [Threads -> 0..MaxRunTime] /\ readyQ \in Seq(Threads)
  BY DEF Tick, SwitchInv, ActiveInv, TypeOK
<1>2. pc[me] \in OnCpu
  BY <1>1 DEF SwitchInv, StackInv
<1>3. \A i \in 1..Len(readyQ) : readyQ[i] \in Threads /\ readyQ[i] # me
  BY <1>1, <1>2, Points DEF SwitchInv, QueueInv, Keeps
<1>4. \A i \in 1..Len(readyQ) : runTime'[readyQ[i]] = runTime[readyQ[i]]
  BY <1>1, <1>3
<1> QED BY <1>1, <1>4 DEF ReadySorted, Sorted

(* Every step keeps the order: only schedule(), remove() and the tick      *)
(* touch the queue or the run times.                                       *)
LEMMA StepSorted ==
  ASSUME SwitchInv, ReadySorted, [Next]_vars
  PROVE  ReadySorted'
<1>1. CASE UNCHANGED <<readyQ, runTime>>
  BY <1>1 DEF ReadySorted, Sorted
<1>2. ASSUME NEW c \in Cores, HandleYield(c) PROVE ReadySorted'
  <2>1. /\ prev[c] # None /\ why[prev[c]] = "yield" /\ Schedule(prev[c])
        /\ runTime' = runTime /\ prev[c] \in TCBs /\ pc[prev[c]] = "leaving"
    BY <1>2 DEF HandleYield, Arrive, procVars, SwitchInv, TypeOK, StackInv
  <2>2. prev[c] \in Threads
    BY <2>1 DEF SwitchInv, IdleInv, IdleStops, TCBs
  <2> QED BY <2>1, <2>2, ScheduleSorted
<1>3. ASSUME NEW c \in Cores, WakeWaiter(c) PROVE ReadySorted'
  <2>1. /\ pc[stack[c]] = "wake" /\ Schedule(hand[stack[c]]) /\ runTime' = runTime
        /\ stack[c] \in TCBs
    BY <1>3 DEF WakeWaiter, At, procVars, SwitchInv, TypeOK
  <2>2. hand[stack[c]] \in Threads
    BY <2>1 DEF SwitchInv, HandInv, TypeOK
  <2> QED BY <2>1, <2>2, ScheduleSorted
<1>4. ASSUME NEW c \in Cores, Spawn(c) PROVE ReadySorted'
  <2>1. /\ pc[stack[c]] = "spawn" /\ runTime' = runTime /\ stack[c] \in TCBs
        /\ Schedule(children[stack[c]][slot[stack[c]]])
    BY <1>4 DEF Spawn, At, SwitchInv, TypeOK
  <2>2. stack[c] \in Threads
    BY <2>1 DEF SwitchInv, IdleInv, IdleStops, Blocking, TCBs
  <2>3. children[stack[c]][slot[stack[c]]] \in Threads
    BY <2>1, <2>2 DEF SwitchInv, CallInv, TypeOK, Spawning
  <2> QED BY <2>1, <2>3, ScheduleSorted
<1>5. ASSUME NEW c \in Cores, RemoveNext(c) PROVE ReadySorted'
  BY <1>5, RemoveSorted DEF RemoveNext, procVars
<1>6. ASSUME NEW c \in Cores, Tick(c) PROVE ReadySorted'
  BY <1>6, TickSorted
<1>7. ASSUME NEW c \in Cores,
             \/ Monitor(c) \/ RemoveReturn(c) \/ RemoveNone(c) \/ MonitorWake(c)
             \/ Commit(c) \/ Switch(c) \/ HandleStop(c) \/ HandleDown(c) \/ TimerWake(c)
      PROVE  UNCHANGED <<readyQ, runTime>>
  <2>1. CASE Monitor(c) \/ RemoveReturn(c) \/ MonitorWake(c) \/ TimerWake(c)
    BY ONLY <2>1 DEF Monitor, RemoveReturn, MonitorWake, TimerWake, procVars
  <2>2. CASE RemoveNone(c)
    BY ONLY <2>2 DEF RemoveNone, procVars
  <2>3. CASE Commit(c) \/ Switch(c)
    BY ONLY <2>3 DEF Commit, Switch, procVars
  <2>4. CASE HandleStop(c)
    BY ONLY <2>4 DEF HandleStop, Arrive, procVars
  <2>5. CASE HandleDown(c)
    BY ONLY <2>5 DEF HandleDown, Arrive, procVars
  <2> QED BY ONLY <1>7, <2>1, <2>2, <2>3, <2>4, <2>5, Zenon
<1>8. ASSUME NEW c \in Cores,
             \/ Unlock(c) \/ SetFuture(c) \/ SetUp(c) \/ Stop(c) \/ GetDown(c) \/ GetUp(c)
             \/ WaitDone(c) \/ ReaperLoop(c) \/ Reap(c) \/ Yield(c)
      PROVE  UNCHANGED <<readyQ, runTime>>
  <2>1. CASE Unlock(c) \/ SetUp(c) \/ GetUp(c)
    BY ONLY <2>1, Zenon DEF Unlock, SetUp, GetUp, Up, procVars
  <2>2. CASE SetFuture(c) \/ WaitDone(c) \/ Stop(c) \/ Yield(c)
    BY ONLY <2>2 DEF SetFuture, WaitDone, Stop, Yield, procVars
  <2>3. CASE GetDown(c)
    BY ONLY <2>3 DEF GetDown, Down, procVars
  <2>4. CASE ReaperLoop(c) \/ Reap(c)
    BY ONLY <2>4 DEF ReaperLoop, Reap, procVars
  <2> QED BY ONLY <1>8, <2>1, <2>2, <2>3, <2>4, Zenon
<1>9. ASSUME NEW c \in Cores, SystemCall(c)
      PROVE  UNCHANGED <<readyQ, runTime>>
  BY <1>9 DEF SystemCall, Lock, Fork, ForkFails, Exit, Wait, Disown, Kill, Down, procVars
<1>10. CASE UNCHANGED vars
  BY <1>1, <1>10 DEF vars, procVars
<1>11. CASE Next
  BY <1>1, <1>2, <1>3, <1>4, <1>5, <1>6, <1>7, <1>8, <1>9, <1>11
  DEF Next, SwitchStep, KernelStep
<1> QED BY <1>10, <1>11

(* readyQ is ordered by run time in every reachable state.                 *)
THEOREM SortedCorrect == Spec => []ReadySorted
<1>1. Init => ReadySorted
  <2> SUFFICES ASSUME Init PROVE Sorted(<<Reaper, FirstThread>>, runTime)
    BY DEF Init, ReadySorted
  <2>1. runTime[Reaper] = 0 /\ runTime[FirstThread] = 0
    BY SchedulerAssumption DEF Init
  <2> QED BY <2>1 DEF Sorted
<1>2. SwitchInv /\ ReadySorted /\ [Next]_vars => ReadySorted'
  BY StepSorted
<1> QED BY <1>1, <1>2, SwitchCorrect, PTL DEF Spec

-----------------------------------------------------------------------------
(* Semaphores.  A step leaves alone what thread t does next in its code,   *)
(* and whether it waits, and for what: so all steps of block(), of the     *)
(* context switch and of the timer's preemption do.                        *)
Same(t) ==
  /\ Code(t)' = Code(t) /\ ret'[t] = ret[t]
  /\ Queued(t)' <=> Queued(t)
  /\ Queued(t) => why'[t] = why[t] /\ (pc'[t] = "waiting" <=> pc[t] = "waiting")

LEMMA StaysSame ==
  ASSUME NEW t, pc'[t] = pc[t], why'[t] = why[t], resume'[t] = resume[t], ret'[t] = ret[t]
  PROVE  Same(t)
BY DEF Same, Code, Queued

(* t goes from one place where it is kept to another.                      *)
LEMMA KeptSame ==
  ASSUME NEW t, resume'[t] = resume[t], ret'[t] = ret[t],
         {pc[t], pc'[t]} \subseteq {"ready", "picked", "woken", "landing", "zombie",
                                    "dead", "new", "made", "parked"}
  PROVE  Same(t)
BY DEF Same, Code, Queued, Working, Blocking

(* t goes on in block(), up to where it has left its stack.                *)
LEMMA BlockSame ==
  ASSUME NEW t, resume'[t] = resume[t], ret'[t] = ret[t], why'[t] = why[t],
         {pc[t], pc'[t]} \subseteq Blocking \union {"leaving"}
  PROVE  Same(t)
BY DEF Same, Code, Queued, Working, Blocking

(* t has left its stack, but for no semaphore.                             *)
LEMMA LeftSame ==
  ASSUME NEW t, resume'[t] = resume[t], ret'[t] = ret[t], why'[t] = why[t],
         why[t] \notin Sems, pc[t] = "leaving", pc'[t] \in {"ready", "zombie", "parked"}
  PROVE  Same(t)
BY DEF Same, Code, Queued, Working, Blocking

(* t enters block() to go on where it is, without waiting.                 *)
LEMMA EnterSame ==
  ASSUME NEW t, pc[t] \in Working, pc'[t] = "block", resume'[t] = pc[t],
         why'[t] \notin Sems, ret'[t] = ret[t]
  PROVE  Same(t)
BY DEF Same, Code, Queued, Working, Blocking

(* block() returns to t.                                                   *)
LEMMA ContinueSame ==
  ASSUME NEW t, resume[t] \in Working, pc'[t] = resume[t], ret'[t] = ret[t],
         pc[t] = "landing" \/ (pc[t] = "remove" /\ why[t] \notin Sems)
  PROVE  Same(t)
BY DEF Same, Code, Queued, Working, Blocking

-----------------------------------------------------------------------------
LEMMA HoldersSame ==
  ASSUME NEW l \in Locks, lockOf' = lockOf,
         \A t \in Threads : Queued(t)' /\ why'[t] = l <=> Queued(t) /\ why[t] = l
  PROVE  Holders(l)' = Holders(l)
<1>1. l \in Sems
  BY Names
<1>2. \A t \in Threads :
        /\ (why[t] = l /\ pc[t] \in Blocking \union {"leaving", "waiting"})
             <=> Queued(t) /\ why[t] = l
        /\ (why'[t] = l /\ pc'[t] \in Blocking \union {"leaving", "waiting"})
             <=> Queued(t)' /\ why'[t] = l
  BY <1>1 DEF Queued
<1> QED BY <1>2 DEF Holders

(* Nothing is the matter with semaphores and Futures.                      *)
LEMMA QuietSems ==
  ASSUME SemInv, \A t \in TCBs : Same(t),
         UNCHANGED <<count, semLock, waiting, lockOf, slot, killFlag, isReady, children>>
  PROVE  SemInv'
<1>1. \A t \in Threads : t \in TCBs
  BY Names
<1>2. /\ count' = count /\ semLock' = semLock /\ waiting' = waiting /\ lockOf' = lockOf
      /\ slot' = slot /\ killFlag' = killFlag /\ isReady' = isReady /\ children' = children
  OBVIOUS
<1>3. QueuedInv'
  BY <1>2 DEF SemInv, QueuedInv, Same
<1>4. \A t \in TCBs : (Exits(t)' <=> Exits(t)) /\ (Served(t)' <=> Served(t))
  BY DEF Same, Exits, Served
<1>5. LockTokens'
  <2>1. \A l \in Locks : Holders(l)' = Holders(l)
    BY <1>1, <1>2, HoldersSame DEF Same
  <2> QED BY <1>2, <2>1 DEF SemInv, TokenInv, LockTokens
<1>6. TokenInv'
  BY <1>1, <1>2, <1>4, <1>5 DEF SemInv, TokenInv, Same
<1>7. StatusInv' /\ KilledInv'
  BY <1>1, <1>2, <1>4 DEF SemInv, StatusInv, KilledInv, Same
<1> QED BY <1>3, <1>6, <1>7 DEF SemInv

(* A thread goes on in its code without touching a semaphore.              *)
LEMMA CallSems ==
  ASSUME SwitchInv, SemInv, NEW me \in Threads, \A t \in TCBs \ {me} : Same(t),
         UNCHANGED <<count, semLock, waiting, lockOf>>, ~Queued(me), ~Queued(me)',
         \A t \in Threads \ {me} :
           slot'[t] = slot[t] /\ children'[t] = children[t] /\ isReady'[t] = isReady[t],
         isReady[me] => isReady'[me],
         \A t \in Threads : (killFlag[t] => killFlag'[t]) /\ (killFlag'[t] => t \in Killable),
         lockOf[me] # None => Code(me)' \in {"locked", "setting", "panic"} \/ Exits(me)',
         Code(me)' = "set" => isReady'[me],
         Served(me)' => /\ slot'[me] \in Slots /\ children'[me][slot'[me]] # None
                        /\ isReady'[children'[me][slot'[me]]],
         Code(me)' = "panic" => killFlag'[me],
         isReady'[me] /\ ~killFlag'[me] => Exits(me)'
  PROVE  SemInv'
<1>1. \A t \in Threads : t \in TCBs
  BY Names
<1>2. count' = count /\ semLock' = semLock /\ waiting' = waiting /\ lockOf' = lockOf
  OBVIOUS
<1>3. QueuedInv'
  BY <1>2 DEF SemInv, QueuedInv, Same
<1>4. \A t \in TCBs \ {me} : (Exits(t)' <=> Exits(t)) /\ (Served(t)' <=> Served(t))
  BY DEF Same, Exits, Served
<1>5. LockTokens'
  <2>1. \A l \in Locks : Holders(l)' = Holders(l)
    BY <1>1, <1>2, HoldersSame DEF Same
  <2> QED BY <1>2, <2>1 DEF SemInv, TokenInv, LockTokens
<1>6. TokenInv'
  BY <1>1, <1>2, <1>4, <1>5 DEF SemInv, TokenInv, Same
<1>7. \A t \in Threads : isReady[t] => isReady'[t]
  OBVIOUS
<1>8. StatusInv'
  <2>1. ASSUME NEW t \in Threads \ {me}
        PROVE  /\ count'[t] > 0 \/ Code(t)' = "set" => isReady'[t]
               /\ Served(t)' => /\ slot'[t] \in Slots /\ children'[t][slot'[t]] # None
                                /\ isReady'[children'[t][slot'[t]]]
    <3>1. slot[t] \in Slots => children[t][slot[t]] \in Threads \union {None}
      BY DEF SwitchInv, TypeOK
    <3> QED BY <1>1, <1>2, <1>4, <1>7, <3>1 DEF SemInv, StatusInv, Same
  <2>2. /\ count'[me] > 0 \/ Code(me)' = "set" => isReady'[me]
        /\ Served(me)' => /\ slot'[me] \in Slots /\ children'[me][slot'[me]] # None
                          /\ isReady'[children'[me][slot'[me]]]
    BY <1>2 DEF SemInv, StatusInv
  <2> QED BY <2>1, <2>2 DEF StatusInv
<1>9. KilledInv'
  BY <1>1, <1>4 DEF SemInv, KilledInv, Same
<1> QED BY <1>3, <1>6, <1>8, <1>9 DEF SemInv

-----------------------------------------------------------------------------
(* The steps of block() and of the switch.                                 *)
LEMMA BlockingSems ==
  ASSUME SwitchInv, SemInv, NEW me \in TCBs, NEW p \in Blocking,
         pc[me] \in Blocking, pc' = [pc EXCEPT ![me] = p],
         UNCHANGED <<why, resume, ret, semVars, procVars>>
  PROVE  SemInv'
<1>1. /\ why' = why /\ resume' = resume /\ ret' = ret
      /\ UNCHANGED <<count, semLock, waiting, lockOf, slot, killFlag, isReady, children>>
  BY DEF semVars, procVars
<1>2. pc'[me] = p /\ \A t \in TCBs \ {me} : pc'[t] = pc[t]
  BY DEF SwitchInv, TypeOK
<1>3. Same(me)
  BY <1>1, <1>2, BlockSame
<1>4. \A t \in TCBs \ {me} : Same(t)
  BY <1>1, <1>2, StaysSame
<1> QED BY <1>1, <1>3, <1>4, QuietSems

LEMMA BlockSems ==
  ASSUME SwitchInv, SemInv, NEW c \in Cores,
         Monitor(c) \/ MonitorWake(c) \/ TimerWake(c) \/ RemoveNone(c) \/ Commit(c)
  PROVE  SemInv'
<1>1. PICK me \in TCBs : me = stack[c]
  BY DEF SwitchInv, TypeOK
<1>2. /\ pc[me] \in Blocking
      /\ \E p \in Blocking : pc' = [pc EXCEPT ![me] = p]
      /\ UNCHANGED <<why, resume, ret, semVars, procVars>>
  BY <1>1 DEF Monitor, MonitorWake, TimerWake, RemoveNone, Commit, At, Goto, Blocking, tcbVars
<1> QED BY <1>2, BlockingSems

LEMMA RemoveNextSems ==
  ASSUME SwitchInv, SemInv, NEW c \in Cores, RemoveNext(c)
  PROVE  SemInv'
<1>1. PICK me, w : me = stack[c] /\ w = Head(readyQ)
  OBVIOUS
<1>2. /\ pc[me] = "remove" /\ readyQ # << >> /\ readyQ \in Seq(Threads)
      /\ pc' = [pc EXCEPT ![me] = "commit", ![w] = "picked"] /\ me \in TCBs
      /\ pc \in [TCBs -> PCs]
      /\ why' = why /\ resume' = resume /\ ret' = ret
      /\ UNCHANGED <<count, semLock, waiting, lockOf, slot, killFlag, isReady, children>>
  BY <1>1 DEF RemoveNext, At, tcbVars, semVars, procVars, SwitchInv, TypeOK
<1>3. w \in TCBs /\ pc[w] = "ready"
  <2>1. 1 \in 1..Len(readyQ) /\ w = readyQ[1] /\ w \in Threads
    BY <1>1, <1>2
  <2> QED BY <2>1, Names DEF SwitchInv, QueueInv, Keeps
<1>4. /\ me # w /\ pc'[me] = "commit" /\ pc'[w] = "picked"
      /\ \A t \in TCBs \ {me, w} : pc'[t] = pc[t]
  BY <1>2, <1>3
<1>5. Same(me)
  BY <1>2, <1>4, BlockSame DEF Blocking
<1>6. Same(w)
  BY <1>2, <1>3, <1>4, KeptSame
<1>7. \A t \in TCBs \ {me, w} : Same(t)
  BY <1>2, <1>4, StaysSame
<1> QED BY <1>2, <1>5, <1>6, <1>7, QuietSems

LEMMA RemoveReturnSems ==
  ASSUME SwitchInv, SemInv, NEW c \in Cores, RemoveReturn(c)
  PROVE  SemInv'
<1>1. PICK me \in TCBs : me = stack[c]
  BY DEF SwitchInv, TypeOK
<1>2. /\ pc[me] = "remove" /\ why[me] = "yield" /\ ret' = ret
      /\ pc' = [pc EXCEPT ![me] = resume[me]]
      /\ why' = [why EXCEPT ![me] = "stop"]
      /\ resume' = [resume EXCEPT ![me] = "run"]
      /\ UNCHANGED <<count, semLock, waiting, lockOf, slot, killFlag, isReady, children>>
  BY <1>1 DEF RemoveReturn, Continue, At, semVars, procVars
<1>3. /\ pc'[me] = resume[me] /\ resume[me] \in Working /\ why[me] \notin Sems
      /\ \A t \in TCBs \ {me} :
           pc'[t] = pc[t] /\ why'[t] = why[t] /\ resume'[t] = resume[t]
  BY <1>2, Names DEF SwitchInv, TypeOK
<1>4. Same(me)
  BY <1>2, <1>3, ContinueSame
<1>5. \A t \in TCBs \ {me} : Same(t)
  BY <1>2, <1>3, StaysSame
<1> QED BY <1>2, <1>4, <1>5, QuietSems

LEMMA SwitchSems ==
  ASSUME SwitchInv, SemInv, NEW c \in Cores, Switch(c)
  PROVE  SemInv'
<1>1. PICK me, w : me = stack[c] /\ w = chosen[c]
  OBVIOUS
<1>2. /\ pc[me] = "switch" /\ pc' = [pc EXCEPT ![me] = "leaving", ![w] = "landing"]
      /\ pc \in [TCBs -> PCs] /\ me \in TCBs
      /\ why' = why /\ resume' = resume /\ ret' = ret
      /\ UNCHANGED <<count, semLock, waiting, lockOf, slot, killFlag, isReady, children>>
  BY <1>1 DEF Switch, At, semVars, procVars, SwitchInv, TypeOK
<1>3. w \in TCBs /\ pc[w] \in {"picked", "parked"}
  BY <1>1, <1>2 DEF SwitchInv, ChosenInv, TypeOK, TCBs
<1>4. /\ me # w /\ pc'[me] = "leaving" /\ pc'[w] = "landing"
      /\ \A t \in TCBs \ {me, w} : pc'[t] = pc[t]
  BY <1>2, <1>3
<1>5. Same(me)
  BY <1>2, <1>4, BlockSame DEF Blocking
<1>6. Same(w)
  BY <1>2, <1>3, <1>4, KeptSame
<1>7. \A t \in TCBs \ {me, w} : Same(t)
  BY <1>2, <1>4, StaysSame
<1> QED BY <1>2, <1>5, <1>6, <1>7, QuietSems

(* What the end of the switch does to the TCB that lands and to the one    *)
(* that has left.                                                          *)
LEMMA ArriveSame ==
  ASSUME SwitchInv, NEW c \in Cores, NEW kept \in {"ready", "zombie", "waiting", "parked"},
         Arrive(c, kept), NEW me, NEW w, me = stack[c], w = prev[c], w # None
  PROVE  /\ me \in TCBs /\ w \in TCBs /\ me # w /\ pc[w] = "leaving" /\ pc'[w] = kept
         /\ why'[w] = why[w] /\ resume'[w] = resume[w] /\ ret' = ret
         /\ \A t \in TCBs \ {w} : Same(t)
         /\ UNCHANGED <<lockOf, slot, killFlag, isReady, children>>
<1>1. /\ me \in TCBs /\ w \in TCBs /\ pc[me] = "landing" /\ pc[w] = "leaving"
      /\ pc \in [TCBs -> PCs] /\ resume \in [TCBs -> Working]
      /\ why \in [TCBs -> {"yield", "stop"} \union Sems]
  BY DEF SwitchInv, StackInv, TypeOK
<1>2. /\ pc' = [pc EXCEPT ![w] = kept, ![me] = resume[me]]
      /\ why' = [why EXCEPT ![me] = "stop"] /\ resume' = [resume EXCEPT ![me] = "run"]
      /\ ret' = ret /\ UNCHANGED <<lockOf, slot, killFlag, isReady, children>>
  BY DEF Arrive, Continue, procVars
<1>3. /\ me # w /\ pc'[me] = resume[me] /\ resume[me] \in Working /\ pc'[w] = kept
      /\ \A t \in TCBs : t # me /\ t # w => pc'[t] = pc[t]
      /\ \A t \in TCBs : t # me => why'[t] = why[t] /\ resume'[t] = resume[t]
  BY <1>1, <1>2
<1>4. Same(me)
  BY <1>1, <1>2, <1>3, ContinueSame
<1>5. \A t \in TCBs : t # me /\ t # w => Same(t)
  BY <1>2, <1>3, StaysSame
<1> QED BY <1>1, <1>2, <1>3, <1>4, <1>5

LEMMA HandleSems ==
  ASSUME SwitchInv, SemInv, NEW c \in Cores, HandleYield(c) \/ HandleStop(c)
  PROVE  SemInv'
<1>1. PICK me, w : me = stack[c] /\ w = prev[c]
  OBVIOUS
<1>2. /\ w # None /\ why[w] \in {"yield", "stop"} /\ why[w] \notin Sems
      /\ \E kept \in {"ready", "zombie", "parked"} : Arrive(c, kept)
      /\ UNCHANGED <<count, semLock, waiting>>
  BY <1>1, Names DEF HandleYield, HandleStop, semVars
<1>3. PICK kept \in {"ready", "zombie", "parked"} : Arrive(c, kept)
  BY <1>2
<1>4. /\ w \in TCBs /\ pc[w] = "leaving" /\ pc'[w] = kept
      /\ why'[w] = why[w] /\ resume'[w] = resume[w] /\ ret' = ret
      /\ \A t \in TCBs \ {w} : Same(t)
      /\ UNCHANGED <<lockOf, slot, killFlag, isReady, children>>
  BY <1>1, <1>2, <1>3, ArriveSame
<1>5. Same(w)
  BY <1>2, <1>3, <1>4, LeftSame
<1> QED BY <1>2, <1>4, <1>5, QuietSems

(* The thread whose down() kept the lock is in the queue, and lets go.     *)
LEMMA HandleDownSems ==
  ASSUME SwitchInv, SemInv, NEW c \in Cores, HandleDown(c)
  PROVE  SemInv'
<1>1. PICK me, w, s : me = stack[c] /\ w = prev[c] /\ s = why[w]
  OBVIOUS
<1>2. /\ w # None /\ s \in Sems /\ Arrive(c, "waiting") /\ count' = count
      /\ waiting' = [waiting EXCEPT ![s] = Append(@, w)]
      /\ semLock' = [semLock EXCEPT ![s] = None]
  BY <1>1 DEF HandleDown
<1>3. /\ w \in TCBs /\ pc[w] = "leaving" /\ pc'[w] = "waiting"
      /\ why'[w] = why[w] /\ resume'[w] = resume[w] /\ ret' = ret
      /\ \A t \in TCBs \ {w} : Same(t)
      /\ lockOf' = lockOf /\ slot' = slot /\ killFlag' = killFlag
      /\ isReady' = isReady /\ children' = children
  BY <1>1, <1>2, ArriveSame
<1>4. Code(w)' = Code(w) /\ Queued(w) /\ Queued(w)'
  BY <1>1, <1>2, <1>3 DEF Code, Queued, Working
<1>5. w \in Threads /\ semLock[s] = w /\ None \notin TCBs
  BY <1>1, <1>3, <1>4, Names DEF SemInv, QueuedInv
<1>6. /\ \A x \in Sems \ {s} : semLock'[x] = semLock[x] /\ waiting'[x] = waiting[x]
      /\ count[s] \in Nat
  BY <1>2 DEF SwitchInv, TypeOK
<1>7. count[s] = 0
  BY <1>2, <1>3, <1>5, <1>6 DEF SemInv, TokenInv
<1>8. QueuedInv'
  <2>1. ASSUME NEW t \in TCBs \ {w}, Queued(t)'
        PROVE  /\ t \in Threads /\ (pc'[t] # "waiting" => semLock'[why'[t]] = t)
               /\ \/ why'[t] \in Locks /\ Code(t)' = "locked" /\ lockOf'[t] = why'[t]
                  \/ /\ Code(t)' = "got" /\ slot'[t] \in Slots
                     /\ why'[t] = children'[t][slot'[t]]
    <3>1. /\ Queued(t) /\ why'[t] = why[t] /\ (pc'[t] = "waiting" <=> pc[t] = "waiting")
          /\ Code(t)' = Code(t) /\ why[t] \in Sems
      BY <2>1, <1>3 DEF Same, Queued
    <3>2. pc[t] # "waiting" => semLock[why[t]] = t /\ why[t] # s
      BY <1>5, <3>1 DEF SemInv, QueuedInv
    <3> QED BY <1>3, <1>6, <3>1, <3>2 DEF SemInv, QueuedInv
  <2>2. /\ \/ why'[w] \in Locks /\ Code(w)' = "locked" /\ lockOf'[w] = why'[w]
           \/ Code(w)' = "got" /\ slot'[w] \in Slots /\ why'[w] = children'[w][slot'[w]]
    BY <1>3, <1>4 DEF SemInv, QueuedInv
  <2> QED BY <1>3, <1>5, <2>1, <2>2 DEF QueuedInv
<1>9. \A t \in Threads : /\ Exits(t)' <=> Exits(t)
                         /\ Served(t)' <=> Served(t)
                         /\ Code(t)' = Code(t)
                         /\ Queued(t)' <=> Queued(t)
                         /\ Queued(t) => why'[t] = why[t]
  <2>1. \A t \in Threads : /\ Code(t)' = Code(t) /\ ret'[t] = ret[t]
                           /\ Queued(t)' <=> Queued(t)
                           /\ Queued(t) => why'[t] = why[t]
    BY <1>3, <1>4, Names DEF Same
  <2> QED BY <2>1 DEF Exits, Served
<1>10. TokenInv'
  <2>1. \A l \in Locks : Holders(l)' = Holders(l)
    BY <1>3, <1>9, HoldersSame
  <2>2. LockTokens'
    BY <1>2, <2>1 DEF SemInv, TokenInv, LockTokens
  <2>3. \A x \in Sems : count'[x] > 0 => waiting'[x] = << >> /\ semLock'[x] = None
    BY <1>2, <1>6, <1>7 DEF SemInv, TokenInv
  <2> QED BY <1>3, <1>9, <2>2, <2>3 DEF SemInv, TokenInv
<1>11. StatusInv' /\ KilledInv'
  BY <1>2, <1>3, <1>9 DEF SemInv, StatusInv, KilledInv
<1> QED BY <1>8, <1>10, <1>11 DEF SemInv

-----------------------------------------------------------------------------
(* Steps of a thread in its own code.  What it has to do with semaphores   *)
(* before such a step:                                                     *)
LEMMA WorkingSems ==
  ASSUME SwitchInv, SemInv, NEW me \in Threads, pc[me] \in Working
  PROVE  /\ me \in TCBs /\ Code(me) = pc[me] /\ ~Queued(me)
         /\ lockOf[me] # None => pc[me] \in {"locked", "setting"} \/ Exits(me)
         /\ killFlag[me] => me \in Killable
         /\ isReady[me] /\ ~killFlag[me] => Exits(me)
         /\ Exits(me) <=> pc[me] \in {"set", "stop"} \/ (pc[me] = "wake" /\ ret[me] = "stop")
         /\ Served(me) <=> \/ pc[me] \in {"got", "waited"}
                           \/ pc[me] \in {"wake", "reap"} /\ ret[me] = "waited"
         /\ Served(me) => /\ slot[me] \in Slots /\ children[me][slot[me]] # None
                          /\ isReady[children[me][slot[me]]]
<1>1. me \in TCBs /\ Code(me) = pc[me] /\ ~Queued(me) /\ pc[me] # "panic"
  BY Names DEF Code, Queued, Working, Blocking
<1> QED BY <1>1 DEF SemInv, TokenInv, KilledInv, StatusInv, Exits, Served

(* ... and after it, when it works on.                                     *)
LEMMA WorksOn ==
  ASSUME NEW me, pc'[me] \in Working \union {"panic"}
  PROVE  /\ Code(me)' = pc'[me] /\ ~Queued(me)'
         /\ Exits(me)' <=> pc'[me] \in {"set", "stop"} \/ (pc'[me] = "wake" /\ ret'[me] = "stop")
         /\ Served(me)' <=>
              pc'[me] \in {"got", "waited"} \/ (pc'[me] \in {"wake", "reap"} /\ ret'[me] = "waited")
<1>1. Code(me)' = pc'[me] /\ ~Queued(me)'
  BY DEF Code, Queued, Working, Blocking
<1> QED BY <1>1 DEF Exits, Served

(* Both together: a thread that works, and works on, with no semaphore     *)
(* touched.                                                                *)
LEMMA StepSems ==
  ASSUME SwitchInv, SemInv, NEW me \in Threads,
         pc[me] \in Working, pc'[me] \in Working \union {"panic"},
         \A t \in TCBs \ {me} : Same(t),
         UNCHANGED <<count, semLock, waiting, lockOf>>,
         \A t \in Threads \ {me} :
           slot'[t] = slot[t] /\ children'[t] = children[t] /\ isReady'[t] = isReady[t],
         isReady[me] => isReady'[me],
         \A t \in Threads : (killFlag[t] => killFlag'[t]) /\ (killFlag'[t] => t \in Killable),
         lockOf[me] # None => pc'[me] \in {"locked", "setting", "panic", "set", "stop"},
         pc'[me] = "set" => isReady'[me],
         pc'[me] \notin {"got", "wake"}, pc'[me] = "reap" => ret'[me] # "waited",
         pc'[me] = "waited" => /\ slot'[me] \in Slots /\ children'[me][slot'[me]] # None
                               /\ isReady'[children'[me][slot'[me]]],
         pc'[me] = "panic" => killFlag'[me],
         isReady'[me] /\ ~killFlag'[me] => pc'[me] \in {"set", "stop"}
  PROVE  SemInv'
<1>1. ~Queued(me)
  BY WorkingSems
<1>2. /\ Code(me)' = pc'[me] /\ ~Queued(me)'
      /\ Exits(me)' <=> pc'[me] \in {"set", "stop"} \/ (pc'[me] = "wake" /\ ret'[me] = "stop")
      /\ Served(me)' <=>
           pc'[me] \in {"got", "waited"} \/ (pc'[me] \in {"wake", "reap"} /\ ret'[me] = "waited")
  BY WorksOn
<1> QED BY <1>1, <1>2, CallSems

(* exit, fork without a slot, the reaper's loop: only the thread's place   *)
(* in its code changes.                                                    *)
LEMMA GoSems ==
  ASSUME SwitchInv, SemInv, NEW me \in Threads,
         pc[me] = "run", pc'[me] \in {"setting", "reap"}, pc'[me] = "reap" => ret'[me] # "waited",
         \A t \in TCBs \ {me} : pc'[t] = pc[t] /\ ret'[t] = ret[t],
         UNCHANGED <<why, resume, semVars, procVars>>
  PROVE  SemInv'
<1>1. /\ why' = why /\ resume' = resume
      /\ UNCHANGED <<count, semLock, waiting, lockOf>>
      /\ slot' = slot /\ killFlag' = killFlag /\ isReady' = isReady /\ children' = children
  BY DEF semVars, procVars
<1>2. \A t \in TCBs \ {me} : Same(t)
  BY <1>1, StaysSame
<1>3. pc[me] \in Working /\ pc'[me] \in Working
  BY DEF Working
<1>4. lockOf[me] = None /\ (isReady[me] => killFlag[me])
  BY <1>3, WorkingSems
<1>5. \A t \in Threads : killFlag[t] => t \in Killable
  BY DEF SemInv, KilledInv
<1> QED BY <1>1, <1>2, <1>3, <1>4, <1>5, StepSems

LEMMA CallsSems ==
  ASSUME SwitchInv, SemInv, NEW c \in Cores, Exit(c) \/ ForkFails(c) \/ ReaperLoop(c)
  PROVE  SemInv'
<1>1. PICK me \in TCBs : me = stack[c]
  BY DEF SwitchInv, TypeOK
<1>2. /\ me \in Threads /\ pc[me] = "run"
      /\ \/ pc' = [pc EXCEPT ![me] = "setting"] /\ ret' = ret
         \/ /\ pc' = [pc EXCEPT ![me] = "reap"]
            /\ \E r \in {"setting", "yield"} : ret' = [ret EXCEPT ![me] = r]
      /\ UNCHANGED <<why, resume, semVars, procVars>>
  BY <1>1, SchedulerAssumption
  DEF Exit, ForkFails, ReaperLoop, InProcess, At, Goto, tcbVars
<1>3. /\ pc'[me] \in {"setting", "reap"} /\ (pc'[me] = "reap" => ret'[me] # "waited")
      /\ \A t \in TCBs \ {me} : pc'[t] = pc[t] /\ ret'[t] = ret[t]
  BY <1>2, Names DEF SwitchInv, TypeOK
<1> QED BY <1>2, <1>3, GoSems

LEMMA WaitSems ==
  ASSUME SwitchInv, SemInv, NEW c \in Cores, NEW i \in Slots, Wait(c, i)
  PROVE  SemInv'
<1>1. PICK me \in TCBs : me = stack[c]
  BY DEF SwitchInv, TypeOK
<1>2. /\ me \in Threads /\ pc[me] = "run" /\ children[me][i] # None
      /\ pc' = [pc EXCEPT ![me] = IF isReady[children[me][i]] THEN "waited" ELSE "get"]
      /\ slot' = [slot EXCEPT ![me] = i]
      /\ UNCHANGED <<why, resume, ret, count, semLock, waiting, lockOf>>
      /\ killFlag' = killFlag /\ isReady' = isReady /\ children' = children
  BY <1>1 DEF Wait, InProcess, At, Goto, tcbVars, semVars
<1>3. /\ pc'[me] = IF isReady[children[me][i]] THEN "waited" ELSE "get"
      /\ \A t \in TCBs \ {me} : pc'[t] = pc[t]
      /\ slot'[me] = i /\ \A t \in Threads \ {me} : slot'[t] = slot[t]
  BY <1>2 DEF SwitchInv, TypeOK
<1>4. \A t \in TCBs \ {me} : Same(t)
  BY <1>2, <1>3, StaysSame
<1>5. pc[me] \in Working /\ pc'[me] \in Working /\ pc'[me] \in {"waited", "get"}
  BY <1>2, <1>3 DEF Working
<1>6. lockOf[me] = None /\ (isReady[me] => killFlag[me])
  BY <1>2, <1>5, WorkingSems
<1>7. \A t \in Threads : killFlag[t] => t \in Killable
  BY DEF SemInv, KilledInv
<1> QED BY <1>2, <1>3, <1>4, <1>5, <1>6, <1>7, StepSems

LEMMA WaitDoneSems ==
  ASSUME SwitchInv, SemInv, NEW c \in Cores, WaitDone(c)
  PROVE  SemInv'
<1>1. PICK me \in TCBs : me = stack[c] /\ prev[c] = None /\ pc[me] = "waited"
  BY DEF SwitchInv, TypeOK, At, WaitDone
<1>2. me \in Threads
  BY <1>1, Running DEF Blocking
<1>3. /\ pc' = [pc EXCEPT ![me] = "run"]
      /\ children' = [children EXCEPT ![me][slot[me]] = None]
      /\ slot' = [slot EXCEPT ![me] = 0]
      /\ UNCHANGED <<why, resume, ret, count, semLock, waiting, lockOf>>
      /\ killFlag' = killFlag /\ isReady' = isReady
  BY <1>1 DEF WaitDone, Goto, tcbVars, semVars
<1>4. /\ pc'[me] = "run" /\ \A t \in TCBs \ {me} : pc'[t] = pc[t]
      /\ \A t \in Threads \ {me} : slot'[t] = slot[t] /\ children'[t] = children[t]
  BY <1>1, <1>2, <1>3 DEF SwitchInv, TypeOK
<1>5. \A t \in TCBs \ {me} : Same(t)
  BY <1>3, <1>4, StaysSame
<1>6. pc[me] \in Working /\ pc'[me] \in Working
  BY <1>1, <1>4 DEF Working
<1>7. lockOf[me] = None /\ (isReady[me] => killFlag[me])
  BY <1>1, <1>2, <1>6, WorkingSems
<1>8. \A t \in Threads : killFlag[t] => t \in Killable
  BY DEF SemInv, KilledInv
<1> QED BY <1>2, <1>3, <1>4, <1>5, <1>6, <1>7, <1>8, StepSems

LEMMA DisownSems ==
  ASSUME SwitchInv, SemInv, NEW c \in Cores, NEW i \in Slots, Disown(c, i) \/ Kill(c, i)
  PROVE  SemInv'
<1>1. PICK me \in TCBs : me = stack[c]
  BY DEF SwitchInv, TypeOK
<1>2. /\ me \in Threads /\ pc[me] = "run" /\ pc' = pc /\ slot' = slot
      /\ \/ children' = children
         \/ children' = [children EXCEPT ![me][i] = None]
      /\ \/ killFlag' = killFlag
         \/ \E k \in Killable : killFlag' = [killFlag EXCEPT ![k] = TRUE]
      /\ why' = why /\ resume' = resume /\ ret' = ret
      /\ UNCHANGED <<count, semLock, waiting, lockOf>> /\ isReady' = isReady
  BY <1>1 DEF Disown, Kill, InProcess, At, tcbVars, semVars
<1>3. \A t \in Threads \ {me} : children'[t] = children[t]
  BY <1>2 DEF SwitchInv, TypeOK
<1>4. \A t \in Threads : (killFlag[t] => killFlag'[t]) /\ (killFlag'[t] => t \in Killable)
  BY <1>2 DEF SemInv, KilledInv, SwitchInv, TypeOK
<1>5. \A t \in TCBs \ {me} : Same(t)
  BY <1>2, StaysSame
<1>6. pc[me] \in Working /\ pc'[me] = "run"
  BY <1>2 DEF Working
<1>7. lockOf[me] = None /\ (isReady[me] => killFlag[me])
  BY <1>2, <1>6, WorkingSems
<1> QED BY <1>2, <1>3, <1>4, <1>5, <1>6, <1>7, StepSems

LEMMA SetFutureSems ==
  ASSUME SwitchInv, SemInv, NEW c \in Cores, SetFuture(c)
  PROVE  SemInv'
<1>1. PICK me \in TCBs : me = stack[c] /\ prev[c] = None /\ pc[me] = "setting"
  BY DEF SwitchInv, TypeOK, At, SetFuture
<1>2. me \in Threads
  BY <1>1, Running DEF Blocking
<1>3. /\ IF isReady[me]
         THEN pc' = [pc EXCEPT ![me] = "panic"] /\ isReady' = isReady
         ELSE pc' = [pc EXCEPT ![me] = "set"] /\ isReady' = [isReady EXCEPT ![me] = TRUE]
      /\ slot' = slot /\ children' = children /\ killFlag' = killFlag
      /\ UNCHANGED <<why, resume, ret, count, semLock, waiting, lockOf>>
  BY <1>1 DEF SetFuture, Goto, tcbVars, semVars
<1>4. /\ pc'[me] = IF isReady[me] THEN "panic" ELSE "set"
      /\ \A t \in TCBs \ {me} : pc'[t] = pc[t]
      /\ isReady'[me] /\ \A t \in Threads \ {me} : isReady'[t] = isReady[t]
  BY <1>1, <1>2, <1>3 DEF SwitchInv, TypeOK
<1>5. \A t \in TCBs \ {me} : Same(t)
  BY <1>3, <1>4, StaysSame
<1>6. pc[me] \in Working /\ pc'[me] \in Working \union {"panic"}
      /\ pc'[me] \in {"set", "panic"}
  BY <1>1, <1>4 DEF Working
<1>7. isReady[me] => killFlag[me]
  BY <1>1, <1>2, <1>6, WorkingSems
<1>8. \A t \in Threads : killFlag[t] => t \in Killable
  BY DEF SemInv, KilledInv
<1> QED BY <1>2, <1>3, <1>4, <1>5, <1>6, <1>7, <1>8, StepSems

(* delete_zombies() deletes a thread, or returns.                          *)
LEMMA ReapSems ==
  ASSUME SwitchInv, SemInv, NEW c \in Cores, Reap(c)
  PROVE  SemInv'
<1>1. PICK me \in TCBs : me = stack[c] /\ prev[c] = None /\ pc[me] = "reap"
  BY DEF SwitchInv, TypeOK, At, Reap
<1>2. me \in Threads
  BY <1>1, Running DEF Blocking
<1>3. /\ UNCHANGED <<why, resume, count, semLock, waiting, lockOf>>
      /\ slot' = slot /\ children' = children /\ killFlag' = killFlag /\ isReady' = isReady
      /\ pc \in [TCBs -> PCs] /\ ret \in [TCBs -> Returns] /\ zombies \in Seq(Threads)
  BY DEF Reap, semVars, procVars, SwitchInv, TypeOK
<1>4. CASE zombies # << >> /\ pc' = [pc EXCEPT ![Head(zombies)] = "dead"] /\ ret' = ret
  <2>1. PICK w : w = Head(zombies)
    OBVIOUS
  <2>2. w \in TCBs /\ pc[w] = "zombie"
    <3>1. 1 \in 1..Len(zombies) /\ w = zombies[1] /\ w \in Threads
      BY <1>3, <1>4, <2>1
    <3> QED BY <3>1, Names DEF SwitchInv, QueueInv, Keeps
  <2>3. pc'[w] = "dead" /\ \A t \in TCBs \ {w} : pc'[t] = pc[t]
    BY <1>3, <1>4, <2>1, <2>2
  <2>4. Same(w)
    BY <1>3, <1>4, <2>2, <2>3, KeptSame
  <2>5. \A t \in TCBs \ {w} : Same(t)
    BY <1>3, <1>4, <2>3, StaysSame
  <2> QED BY <1>3, <2>4, <2>5, QuietSems
<1>5. CASE pc' = [pc EXCEPT ![me] = ret[me]] /\ ret' = [ret EXCEPT ![me] = "run"]
  <2>1. /\ pc'[me] = ret[me] /\ \A t \in TCBs \ {me} : pc'[t] = pc[t] /\ ret'[t] = ret[t]
    BY <1>3, <1>5
  <2>2. \A t \in TCBs \ {me} : Same(t)
    BY <1>3, <2>1, StaysSame
  <2>3. /\ pc[me] \in Working /\ pc'[me] \in Working /\ pc'[me] \notin {"got", "wake", "set", "panic"}
    BY <1>1, <1>3, <2>1 DEF Working, Returns
  <2>4. lockOf[me] = None /\ (isReady[me] => killFlag[me])
    BY <1>1, <1>2, <2>3, WorkingSems
  <2>5. \A t \in Threads : killFlag[t] => t \in Killable
    BY DEF SemInv, KilledInv
  <2>6. pc'[me] = "waited" => /\ slot[me] \in Slots /\ children[me][slot[me]] # None
                              /\ isReady[children[me][slot[me]]]
    BY <1>1, <1>2, <2>1, <2>3, WorkingSems
  <2>7. pc'[me] = "reap" => FALSE
    BY <1>3, <2>1 DEF Returns
  <2> QED BY <1>2, <1>3, <2>1, <2>2, <2>3, <2>4, <2>5, <2>6, <2>7, StepSems
<1> QED BY <1>1, <1>4, <1>5 DEF Reap, Goto

LEMMA YieldSems ==
  ASSUME SwitchInv, SemInv, NEW c \in Cores, Yield(c)
  PROVE  SemInv'
<1>1. PICK me \in TCBs : me = stack[c] /\ prev[c] = None /\ pc[me] = "yield"
  BY DEF SwitchInv, TypeOK, At, Yield
<1>2. me \in Threads
  BY <1>1, Running DEF Blocking
<1>3. /\ pc' = [pc EXCEPT ![me] = "block"]
      /\ why' = [why EXCEPT ![me] = "yield"]
      /\ resume' = [resume EXCEPT ![me] = "run"] /\ ret' = ret
      /\ UNCHANGED <<count, semLock, waiting, lockOf>>
      /\ slot' = slot /\ children' = children /\ killFlag' = killFlag /\ isReady' = isReady
  BY <1>1 DEF Yield, Block, Goto, semVars, procVars
<1>4. /\ pc'[me] = "block" /\ why'[me] = "yield" /\ resume'[me] = "run"
      /\ \A t \in TCBs \ {me} :
           pc'[t] = pc[t] /\ why'[t] = why[t] /\ resume'[t] = resume[t]
  BY <1>1, <1>3 DEF SwitchInv, TypeOK
<1>5. Code(me)' = "run" /\ ~Queued(me)'
  BY <1>4, Names DEF Code, Queued, Working
<1>6. ~Served(me)' /\ pc[me] \in Working
  BY <1>1, <1>5 DEF Served, Working
<1>7. ~Queued(me) /\ lockOf[me] = None /\ (isReady[me] => killFlag[me])
  BY <1>1, <1>2, <1>6, WorkingSems
<1>8. \A t \in TCBs \ {me} : Same(t)
  BY <1>3, <1>4, StaysSame
<1>9. \A t \in Threads : killFlag[t] => t \in Killable
  BY DEF SemInv, KilledInv
<1> QED BY <1>2, <1>3, <1>5, <1>6, <1>7, <1>8, <1>9, CallSems

(* A thread, or an idle TCB, enters block() to go on where it is.          *)
LEMMA EnterSems ==
  ASSUME SwitchInv, SemInv, NEW me \in TCBs, pc[me] \in Working, NEW reason \in {"yield", "stop"},
         Block(me, reason, pc[me]), ret' = ret, UNCHANGED semVars,
         UNCHANGED <<lockOf, slot, killFlag, isReady, children>>
  PROVE  SemInv'
<1>1. /\ pc' = [pc EXCEPT ![me] = "block"]
      /\ why' = [why EXCEPT ![me] = reason]
      /\ resume' = [resume EXCEPT ![me] = pc[me]]
      /\ UNCHANGED <<count, semLock, waiting, lockOf, slot, killFlag, isReady, children>>
  BY DEF Block, Goto, semVars
<1>2. /\ pc'[me] = "block" /\ why'[me] = reason /\ resume'[me] = pc[me]
      /\ \A t \in TCBs \ {me} :
           pc'[t] = pc[t] /\ why'[t] = why[t] /\ resume'[t] = resume[t]
  BY <1>1 DEF SwitchInv, TypeOK
<1>3. Same(me)
  BY <1>2, EnterSame, Names
<1>4. \A t \in TCBs \ {me} : Same(t)
  BY <1>2, StaysSame
<1> QED BY <1>1, <1>3, <1>4, QuietSems

LEMMA StopSems ==
  ASSUME SwitchInv, SemInv, NEW c \in Cores, Stop(c)
  PROVE  SemInv'
<1>1. PICK me \in TCBs : me = stack[c] /\ pc[me] = "stop"
  BY DEF SwitchInv, TypeOK, At, Stop
<1>2. Block(me, "stop", pc[me]) /\ ret' = ret /\ UNCHANGED semVars /\ pc[me] \in Working
      /\ UNCHANGED <<lockOf, slot, killFlag, isReady, children>>
  BY <1>1 DEF Stop, procVars, Working
<1> QED BY <1>2, EnterSems

(* The timer preempts a thread, or makes a killed one exit.                *)
LEMMA TickSems ==
  ASSUME SwitchInv, SemInv, NEW c \in Cores, Tick(c)
  PROVE  SemInv'
<1>1. PICK me \in TCBs : me = active[c] /\ prev[c] = None /\ me \notin Cores /\ ~noPreempt[me]
  BY DEF SwitchInv, TypeOK, Tick
<1>2. me = stack[c]
  BY <1>1 DEF SwitchInv, ActiveInv
<1>3. me \in Threads /\ pc[me] \in Working
  BY <1>1, <1>2 DEF SwitchInv, ActiveInv, StackInv, OnCpu, TCBs, Tick
<1>4. UNCHANGED <<count, semLock, waiting, lockOf>> /\ UNCHANGED semVars
      /\ killFlag' = killFlag /\ isReady' = isReady /\ children' = children
  BY DEF Tick, semVars
<1>5. CASE ~killFlag[me]
  <2>1. Block(me, "yield", pc[me]) /\ ret' = ret /\ slot' = slot
    BY <1>1, <1>5 DEF Tick
  <2> QED BY <1>3, <1>4, <2>1, EnterSems
<1>6. CASE killFlag[me]
  <2>1. /\ pc' = [pc EXCEPT ![me] = "setting"]
        /\ ret' = [ret EXCEPT ![me] = "run"]
        /\ slot' = [slot EXCEPT ![me] = 0]
        /\ UNCHANGED <<why, resume>>
    BY <1>1, <1>6 DEF Tick, Goto
  <2>2. /\ pc'[me] = "setting"
        /\ \A t \in TCBs \ {me} : pc'[t] = pc[t] /\ ret'[t] = ret[t]
        /\ \A t \in Threads \ {me} : slot'[t] = slot[t]
    BY <1>3, <2>1 DEF SwitchInv, TypeOK
  <2>3. \A t \in TCBs \ {me} : Same(t)
    BY <2>1, <2>2, StaysSame
  <2>4. pc'[me] \in Working
    BY <2>2 DEF Working
  <2>5. \A t \in Threads : killFlag[t] => t \in Killable
    BY DEF SemInv, KilledInv
  <2> QED BY <1>3, <1>4, <1>6, <2>2, <2>3, <2>4, <2>5, StepSems
<1> QED BY <1>5, <1>6

-----------------------------------------------------------------------------
(* fork makes a thread and thread() schedules it; up() schedules a waiter. *)
LEMMA ForkSems ==
  ASSUME SwitchInv, SemInv, NEW c \in Cores, NEW u \in Threads, Fork(c, u)
  PROVE  SemInv'
<1>1. PICK me \in TCBs : me = stack[c]
  BY DEF SwitchInv, TypeOK
<1>2. PICK i \in Slots :
        /\ me \in Threads /\ pc[me] = "run" /\ pc[u] = "new"
        /\ slot' = [slot EXCEPT ![me] = i]
        /\ children' = [children EXCEPT ![me][i] = u]
        /\ pc' = [pc EXCEPT ![me] = "reap", ![u] = "made"]
        /\ ret' = [ret EXCEPT ![me] = "spawn"]
        /\ UNCHANGED <<why, resume, count, semLock, waiting, lockOf>>
        /\ killFlag' = killFlag /\ isReady' = isReady
  BY <1>1 DEF Fork, InProcess, At, semVars
<1>3. u \in TCBs /\ u # me
  BY <1>2, Names
<1>4. /\ pc'[me] = "reap" /\ pc'[u] = "made" /\ ret'[me] = "spawn"
      /\ \A t \in TCBs \ {me, u} : pc'[t] = pc[t]
      /\ \A t \in TCBs \ {me} : ret'[t] = ret[t]
      /\ \A t \in Threads \ {me} : slot'[t] = slot[t] /\ children'[t] = children[t]
  BY <1>2, <1>3 DEF SwitchInv, TypeOK
<1>5. Same(u)
  BY <1>2, <1>3, <1>4, KeptSame
<1>6. \A t \in TCBs \ {me, u} : Same(t)
  BY <1>2, <1>4, StaysSame
<1>7. pc[me] \in Working /\ pc'[me] \in Working
  BY <1>2, <1>4 DEF Working
<1>8. lockOf[me] = None /\ (isReady[me] => killFlag[me])
  BY <1>2, <1>7, WorkingSems
<1>9. \A t \in Threads : killFlag[t] => t \in Killable
  BY DEF SemInv, KilledInv
<1> QED BY <1>2, <1>4, <1>5, <1>6, <1>7, <1>8, <1>9, StepSems

LEMMA SpawnSems ==
  ASSUME SwitchInv, SemInv, NEW c \in Cores, Spawn(c)
  PROVE  SemInv'
<1>1. PICK me \in TCBs : me = stack[c] /\ prev[c] = None /\ pc[me] = "spawn"
  BY DEF SwitchInv, TypeOK, At, Spawn
<1>2. me \in Threads
  BY <1>1, Running DEF Blocking
<1>3. PICK u : u = children[me][slot[me]]
  OBVIOUS
<1>4. u \in TCBs /\ pc[u] = "made" /\ u # me
  <2>1. slot[me] \in Slots /\ u # None /\ pc[u] = "made"
    BY <1>1, <1>2, <1>3 DEF SwitchInv, CallInv, Spawning
  <2> QED BY <1>1, <1>2, <1>3, <2>1, Names DEF SwitchInv, TypeOK
<1>5. /\ pc' = [pc EXCEPT ![me] = "run", ![u] = "ready"]
      /\ slot' = [slot EXCEPT ![me] = 0]
      /\ UNCHANGED <<why, resume, ret, count, semLock, waiting, lockOf>>
      /\ killFlag' = killFlag /\ isReady' = isReady /\ children' = children
  BY <1>1, <1>3 DEF Spawn, tcbVars, semVars
<1>6. /\ pc'[me] = "run" /\ pc'[u] = "ready"
      /\ \A t \in TCBs \ {me, u} : pc'[t] = pc[t]
      /\ \A t \in Threads \ {me} : slot'[t] = slot[t]
  BY <1>4, <1>5 DEF SwitchInv, TypeOK
<1>7. Same(u)
  BY <1>4, <1>5, <1>6, KeptSame
<1>8. \A t \in TCBs \ {me, u} : Same(t)
  BY <1>5, <1>6, StaysSame
<1>9. pc[me] \in Working /\ pc'[me] \in Working
  BY <1>1, <1>6 DEF Working
<1>10. lockOf[me] = None /\ (isReady[me] => killFlag[me])
  BY <1>1, <1>2, <1>9, WorkingSems
<1>11. \A t \in Threads : killFlag[t] => t \in Killable
  BY DEF SemInv, KilledInv
<1> QED BY <1>2, <1>5, <1>6, <1>7, <1>8, <1>9, <1>10, <1>11, StepSems

LEMMA WakeWaiterSems ==
  ASSUME SwitchInv, SemInv, NEW c \in Cores, WakeWaiter(c)
  PROVE  SemInv'
<1>1. PICK me \in TCBs : me = stack[c] /\ prev[c] = None /\ pc[me] = "wake"
  BY DEF SwitchInv, TypeOK, At, WakeWaiter
<1>2. me \in Threads
  BY <1>1, Running DEF Blocking
<1>3. PICK w : w = hand[me]
  OBVIOUS
<1>4. w \in TCBs /\ pc[w] = "woken" /\ w # me
  <2>1. w # None /\ pc[w] = "woken"
    BY <1>1, <1>3 DEF SwitchInv, HandInv
  <2> QED BY <1>1, <1>3, <2>1, Names DEF SwitchInv, TypeOK
<1>5. /\ pc' = [pc EXCEPT ![me] = ret[me], ![w] = "ready"]
      /\ ret' = [ret EXCEPT ![me] = "run"]
      /\ UNCHANGED <<why, resume, count, semLock, waiting, lockOf>>
      /\ killFlag' = killFlag /\ isReady' = isReady /\ children' = children /\ slot' = slot
  BY <1>1, <1>3 DEF WakeWaiter, semVars, procVars
<1>6. /\ pc'[me] = ret[me] /\ pc'[w] = "ready" /\ ret[me] \in Returns
      /\ \A t \in TCBs \ {me, w} : pc'[t] = pc[t]
      /\ \A t \in TCBs \ {me} : ret'[t] = ret[t]
  BY <1>4, <1>5 DEF SwitchInv, TypeOK
<1>7. Same(w)
  BY <1>4, <1>5, <1>6, KeptSame
<1>8. \A t \in TCBs \ {me, w} : Same(t)
  BY <1>5, <1>6, StaysSame
<1>9. pc[me] \in Working /\ pc'[me] \in Working
      /\ pc'[me] \notin {"got", "wake", "set", "panic", "reap"}
  BY <1>1, <1>6 DEF Working, Returns
<1>10. /\ lockOf[me] # None => pc'[me] = "stop"
       /\ isReady[me] /\ ~killFlag[me] => pc'[me] = "stop"
       /\ pc'[me] = "waited" => /\ slot[me] \in Slots /\ children[me][slot[me]] # None
                                /\ isReady[children[me][slot[me]]]
  BY <1>1, <1>2, <1>6, <1>9, WorkingSems
<1>11. \A t \in Threads : killFlag[t] => t \in Killable
  BY DEF SemInv, KilledInv
<1> QED BY <1>2, <1>5, <1>6, <1>7, <1>8, <1>9, <1>10, <1>11, StepSems

-----------------------------------------------------------------------------
(* down() and up().  What remains once the queues and the tokens are right *)
(* and the threads that move, me and perhaps w, are.                       *)
LEMMA TokenSems ==
  ASSUME SwitchInv, SemInv, NEW me \in Threads, NEW w \in Threads,
         \A t \in TCBs : t # me /\ t # w => Same(t),
         slot' = slot, killFlag' = killFlag, isReady' = isReady, children' = children,
         \A t \in Threads : t # me /\ t # w => lockOf'[t] = lockOf[t],
         \A s \in Sems : count'[s] > 0 => waiting'[s] = << >> /\ semLock'[s] = None,
         \A t \in Threads : count'[t] > 0 => isReady[t],
         QueuedInv', LockTokens',
         \A t \in {me, w} :
           /\ lockOf'[t] # None => Code(t)' \in {"locked", "setting", "panic"} \/ Exits(t)'
           /\ Code(t)' \notin {"set", "panic"}
           /\ Served(t)' => /\ slot[t] \in Slots /\ children[t][slot[t]] # None
                            /\ isReady[children[t][slot[t]]]
           /\ isReady[t] /\ ~killFlag[t] => Exits(t)'
  PROVE  SemInv'
<1>1. \A t \in Threads : t \in TCBs
  BY Names
<1>2. \A t \in TCBs : t # me /\ t # w =>
        (Exits(t)' <=> Exits(t)) /\ (Served(t)' <=> Served(t)) /\ Code(t)' = Code(t)
  BY DEF Same, Exits, Served
<1>3. TokenInv'
  BY <1>1, <1>2 DEF SemInv, TokenInv
<1>4. StatusInv'
  BY <1>1, <1>2 DEF SemInv, StatusInv
<1>5. KilledInv'
  BY <1>1, <1>2 DEF SemInv, KilledInv
<1> QED BY <1>3, <1>4, <1>5 DEF SemInv

(* Who is a holder is decided thread by thread.                            *)
Holds(t, l) == lockOf[t] = l /\ ~(Queued(t) /\ why[t] = l)

LEMMA HoldersAre ==
  ASSUME NEW l \in Locks
  PROVE  Holders(l) = {t \in Threads : Holds(t, l)}
<1>1. l \in Sems
  BY Names
<1> QED BY <1>1 DEF Holders, Holds, Queued

LEMMA HoldersThen ==
  ASSUME NEW l \in Locks
  PROVE  Holders(l)' = {t \in Threads : Holds(t, l)'}
<1>1. l \in Sems
  BY Names
<1> QED BY <1>1 DEF Holders, Holds, Queued

(* down() finds a token.                                                   *)
LEMMA TakeSems ==
  ASSUME SwitchInv, SemInv, NEW me \in Threads, NEW s \in Sems, NEW back,
         pc' = [pc EXCEPT ![me] = back], count[s] > 0, count' = [count EXCEPT ![s] = @ - 1],
         UNCHANGED <<why, resume, ret, semLock, waiting, slot, killFlag, isReady, children>>,
         \/ /\ s \in Locks /\ pc[me] = "run" /\ back = "locked"
            /\ lockOf' = [lockOf EXCEPT ![me] = s]
         \/ /\ s \in Threads /\ pc[me] = "get" /\ back = "got" /\ lockOf' = lockOf
            /\ slot[me] \in Slots /\ s = children[me][slot[me]] /\ s # None
  PROVE  SemInv'
<1>1. /\ me \in TCBs /\ pc[me] \in Working /\ back \in Working
  BY Names DEF Working
<1>2. /\ pc'[me] = back /\ \A t \in TCBs \ {me} : pc'[t] = pc[t]
      /\ count[s] \in Nat /\ count'[s] = count[s] - 1
      /\ \A x \in Sems \ {s} : count'[x] = count[x]
      /\ \A t \in Threads \ {me} : lockOf'[t] = lockOf[t]
  BY <1>1 DEF SwitchInv, TypeOK
<1>3. \A t \in TCBs \ {me} : Same(t)
  BY <1>2, StaysSame
<1>4. ~Queued(me) /\ lockOf[me] = None /\ (isReady[me] => killFlag[me])
  BY <1>1, WorkingSems
<1>5. /\ Code(me)' = back /\ ~Queued(me)'
      /\ Served(me)' <=> back = "got"
  BY <1>1, <1>2, WorksOn
<1>6. QueuedInv'
  BY <1>2, <1>3, <1>5, Names DEF SemInv, QueuedInv, Same
<1>7. /\ \A x \in Sems : count'[x] > 0 => waiting'[x] = << >> /\ semLock'[x] = None
      /\ \A t \in Threads : count'[t] > 0 => isReady[t]
      /\ s \in Threads => isReady[s]
  BY <1>2, Names DEF SemInv, TokenInv, StatusInv
<1>8. LockTokens'
  <2>1. \A t \in Threads \ {me} : \A l \in Locks : Holds(t, l)' <=> Holds(t, l)
    BY <1>2, <1>3, Names DEF Holds, Same
  <2>2. ASSUME NEW l \in Locks, l # s
        PROVE  Holders(l)' = Holders(l) /\ count'[l] = count[l]
    <3>1. ~Holds(me, l) /\ ~Holds(me, l)'
      <4>1. lockOf[me] # l /\ (lockOf'[me] = lockOf[me] \/ lockOf'[me] = s)
        BY <1>4, Names DEF SwitchInv, TypeOK
      <4> QED BY <2>2, <4>1 DEF Holds
    <3>2. \A t \in Threads : Holds(t, l)' <=> Holds(t, l)
      BY <2>1, <3>1
    <3>3. Holders(l)' = Holders(l)
      BY <3>2, HoldersAre, HoldersThen
    <3> QED BY <1>2, <2>2, <3>3, Names
  <2>3. ASSUME s \in Locks
        PROVE  Holders(s)' = {me} /\ count'[s] = 0
    <3>1. count[s] = 1 /\ Holders(s) = {}
      BY <2>3 DEF SemInv, TokenInv, LockTokens
    <3>2. Holds(me, s)'
      <4>1. lockOf'[me] = s
        BY <2>3, SchedulerAssumption DEF SwitchInv, TypeOK, TCBs
      <4> QED BY <1>5, <4>1 DEF Holds
    <3> QED BY <1>2, <2>1, <2>3, <3>1, <3>2, HoldersAre, HoldersThen
  <2> QED BY <2>2, <2>3 DEF SemInv, TokenInv, LockTokens
<1>9. /\ lockOf'[me] # None => Code(me)' = "locked"
      /\ Served(me)' => /\ slot[me] \in Slots /\ children[me][slot[me]] # None
                        /\ isReady[children[me][slot[me]]]
  BY <1>4, <1>5, <1>7
<1>10. /\ \A t \in Threads : t # me => lockOf'[t] = lockOf[t]
       /\ \A t \in TCBs : t # me => Same(t)
       /\ slot' = slot /\ killFlag' = killFlag /\ isReady' = isReady /\ children' = children
       /\ \A t \in {me, me} :
            /\ lockOf'[t] # None => Code(t)' \in {"locked", "setting", "panic"} \/ Exits(t)'
            /\ Code(t)' \notin {"set", "panic"}
            /\ Served(t)' => /\ slot[t] \in Slots /\ children[t][slot[t]] # None
                             /\ isReady[children[t][slot[t]]]
            /\ isReady[t] /\ ~killFlag[t] => Exits(t)'
  BY <1>2, <1>3, <1>4, <1>5, <1>9
<1> QED BY <1>6, <1>7, <1>8, <1>10, TokenSems

(* down() finds none, and blocks with the lock held.                       *)
LEMMA AskSems ==
  ASSUME SwitchInv, SemInv, NEW me \in Threads, NEW s \in Sems, NEW back,
         pc' = [pc EXCEPT ![me] = "block"], why' = [why EXCEPT ![me] = s],
         resume' = [resume EXCEPT ![me] = back], semLock[s] = None,
         semLock' = [semLock EXCEPT ![s] = me], count[s] = 0,
         UNCHANGED <<ret, count, waiting, slot, killFlag, isReady, children>>,
         \/ /\ s \in Locks /\ pc[me] = "run" /\ back = "locked"
            /\ lockOf' = [lockOf EXCEPT ![me] = s]
         \/ /\ s \in Threads /\ pc[me] = "get" /\ back = "got" /\ lockOf' = lockOf
            /\ slot[me] \in Slots /\ s = children[me][slot[me]] /\ s # None
  PROVE  SemInv'
<1>1. /\ me \in TCBs /\ pc[me] \in Working /\ back \in Working
  BY Names DEF Working
<1>2. /\ pc'[me] = "block" /\ why'[me] = s /\ resume'[me] = back
      /\ \A t \in TCBs \ {me} :
           pc'[t] = pc[t] /\ why'[t] = why[t] /\ resume'[t] = resume[t]
      /\ semLock'[s] = me /\ \A x \in Sems \ {s} : semLock'[x] = semLock[x]
      /\ \A t \in Threads \ {me} : lockOf'[t] = lockOf[t]
  BY <1>1 DEF SwitchInv, TypeOK
<1>3. \A t \in TCBs \ {me} : Same(t)
  BY <1>2, StaysSame
<1>4. ~Queued(me) /\ lockOf[me] = None /\ (isReady[me] => killFlag[me])
  BY <1>1, WorkingSems
<1>5. Code(me)' = back /\ Queued(me)'
  BY <1>1, <1>2 DEF Code, Queued, Working, Blocking
<1>6. ~Served(me)'
  BY <1>5 DEF Served
<1>7. /\ s \in Locks => lockOf'[me] = s /\ back = "locked"
      /\ s \notin Locks => lockOf'[me] = None /\ back = "got"
  BY <1>4, SchedulerAssumption DEF SwitchInv, TypeOK, TCBs
<1>8. QueuedInv'
  <2>1. ASSUME NEW t \in TCBs \ {me}, Queued(t)'
        PROVE  /\ t \in Threads /\ (pc'[t] # "waiting" => semLock'[why'[t]] = t)
               /\ \/ why'[t] \in Locks /\ Code(t)' = "locked" /\ lockOf'[t] = why'[t]
                  \/ /\ Code(t)' = "got" /\ slot'[t] \in Slots
                     /\ why'[t] = children'[t][slot'[t]]
    <3>1. /\ Queued(t) /\ why'[t] = why[t] /\ pc'[t] = pc[t]
          /\ Code(t)' = Code(t) /\ why[t] \in Sems
      BY <1>2, <1>3, <2>1 DEF Same, Queued
    <3>2. pc[t] # "waiting" => semLock[why[t]] = t /\ why[t] # s
      BY <3>1, Names DEF SemInv, QueuedInv
    <3> QED BY <1>2, <3>1, <3>2 DEF SemInv, QueuedInv
  <2>2. /\ pc'[me] # "waiting" => semLock'[why'[me]] = me
        /\ \/ why'[me] \in Locks /\ Code(me)' = "locked" /\ lockOf'[me] = why'[me]
           \/ Code(me)' = "got" /\ slot'[me] \in Slots /\ why'[me] = children'[me][slot'[me]]
    BY <1>2, <1>5, <1>7
  <2> QED BY <2>1, <2>2 DEF QueuedInv
<1>9. LockTokens'
  <2>1. \A t \in Threads \ {me} : \A l \in Locks : Holds(t, l)' <=> Holds(t, l)
    BY <1>2, <1>3, Names DEF Holds, Same
  <2>2. ASSUME NEW l \in Locks
        PROVE  Holders(l)' = Holders(l) /\ count'[l] = count[l]
    <3>1. ~Holds(me, l) /\ ~Holds(me, l)'
      BY <1>2, <1>4, <1>5, <1>7, Names DEF Holds
    <3>2. \A t \in Threads : Holds(t, l)' <=> Holds(t, l)
      BY <2>1, <3>1
    <3> QED BY <3>2, HoldersAre, HoldersThen
  <2> QED BY <2>2 DEF SemInv, TokenInv, LockTokens
<1>10. /\ \A x \in Sems : count'[x] > 0 => waiting'[x] = << >> /\ semLock'[x] = None
       /\ \A t \in Threads : count'[t] > 0 => isReady[t]
  BY <1>2, Names DEF SemInv, TokenInv, StatusInv
<1>11. /\ lockOf'[me] # None => Code(me)' = "locked"
       /\ Code(me)' \notin {"set", "panic"}
  BY <1>5, <1>7
<1>12. /\ \A t \in Threads : t # me => lockOf'[t] = lockOf[t]
       /\ \A t \in TCBs : t # me => Same(t)
       /\ slot' = slot /\ killFlag' = killFlag /\ isReady' = isReady /\ children' = children
       /\ \A t \in {me, me} :
            /\ lockOf'[t] # None => Code(t)' \in {"locked", "setting", "panic"} \/ Exits(t)'
            /\ Code(t)' \notin {"set", "panic"}
            /\ Served(t)' => /\ slot[t] \in Slots /\ children[t][slot[t]] # None
                             /\ isReady[children[t][slot[t]]]
            /\ isReady[t] /\ ~killFlag[t] => Exits(t)'
  BY <1>2, <1>3, <1>4, <1>6, <1>11
<1> QED BY <1>8, <1>9, <1>10, <1>12, TokenSems

LEMMA LockSems ==
  ASSUME SwitchInv, SemInv, NEW c \in Cores, NEW l \in Locks, Lock(c, l)
  PROVE  SemInv'
<1>1. PICK me \in Threads : me = stack[c]
  BY DEF Lock, InProcess
<1>2. /\ pc[me] = "run" /\ lockOf' = [lockOf EXCEPT ![me] = l] /\ Down(me, l, "locked")
      /\ UNCHANGED <<slot, killFlag, isReady, children>>
  BY <1>1 DEF Lock, InProcess, At
<1>3. l \in Sems
  BY Names
<1>4. UNCHANGED <<ret, waiting>> /\ semLock[l] = None
  BY <1>2 DEF Down
<1>5. CASE /\ count[l] > 0
           /\ count' = [count EXCEPT ![l] = @ - 1]
           /\ pc' = [pc EXCEPT ![me] = "locked"]
           /\ UNCHANGED <<why, resume, semLock>>
  BY <1>2, <1>3, <1>4, <1>5, TakeSems
<1>6. CASE /\ count[l] = 0
           /\ semLock' = [semLock EXCEPT ![l] = me]
           /\ pc' = [pc EXCEPT ![me] = "block"]
           /\ why' = [why EXCEPT ![me] = l]
           /\ resume' = [resume EXCEPT ![me] = "locked"]
           /\ UNCHANGED count
  BY <1>2, <1>3, <1>4, <1>6, AskSems
<1> QED BY <1>2, <1>5, <1>6 DEF Down, Block, Goto

LEMMA GetDownSems ==
  ASSUME SwitchInv, SemInv, NEW c \in Cores, GetDown(c)
  PROVE  SemInv'
<1>1. PICK me \in TCBs : me = stack[c] /\ prev[c] = None /\ pc[me] = "get"
  BY DEF SwitchInv, TypeOK, At, GetDown
<1>2. me \in Threads
  BY <1>1, Running DEF Blocking
<1>3. PICK s : s = children[me][slot[me]]
  OBVIOUS
<1>4. slot[me] \in Slots /\ s # None
  BY <1>1, <1>2, <1>3 DEF SwitchInv, CallInv
<1>5. s \in Threads /\ s \in Sems
  BY <1>2, <1>3, <1>4, Names DEF SwitchInv, TypeOK
<1>6. Down(me, s, "got") /\ UNCHANGED <<lockOf, slot, killFlag, isReady, children>>
  BY <1>1, <1>3 DEF GetDown, procVars
<1>7. UNCHANGED <<ret, waiting>> /\ semLock[s] = None
  BY <1>6 DEF Down
<1>8. CASE /\ count[s] > 0
           /\ count' = [count EXCEPT ![s] = @ - 1]
           /\ pc' = [pc EXCEPT ![me] = "got"]
           /\ UNCHANGED <<why, resume, semLock>>
  BY <1>1, <1>2, <1>3, <1>4, <1>5, <1>6, <1>7, <1>8, TakeSems
<1>9. CASE /\ count[s] = 0
           /\ semLock' = [semLock EXCEPT ![s] = me]
           /\ pc' = [pc EXCEPT ![me] = "block"]
           /\ why' = [why EXCEPT ![me] = s]
           /\ resume' = [resume EXCEPT ![me] = "got"]
           /\ UNCHANGED count
  BY <1>1, <1>2, <1>3, <1>4, <1>5, <1>6, <1>7, <1>9, AskSems
<1> QED BY <1>6, <1>8, <1>9 DEF Down, Block, Goto

(* Who calls up(), of what, and where it goes on.                          *)
UpCall(me, s, back) ==
  \/ /\ s \in Locks /\ pc[me] = "locked" /\ back = "run" /\ lockOf[me] = s
     /\ lockOf' = [lockOf EXCEPT ![me] = None]
  \/ /\ s \in Threads /\ s = me /\ pc[me] = "set" /\ back = "stop" /\ lockOf' = lockOf
  \/ /\ s \in Threads /\ pc[me] = "got" /\ back = "waited" /\ lockOf' = lockOf
     /\ slot[me] \in Slots /\ s = children[me][slot[me]] /\ s # None

(* Before up(), its caller has the token, and the status is there.         *)
LEMMA UpKnows ==
  ASSUME SwitchInv, SemInv, NEW me \in Threads, NEW s \in Sems, NEW back, UpCall(me, s, back)
  PROVE  /\ me \in TCBs /\ pc[me] \in Working /\ back \in Working
         /\ ~Queued(me) /\ Code(me) = pc[me]
         /\ s \in Threads => isReady[s] /\ s \notin Locks
         /\ back # "stop" /\ isReady[me] => killFlag[me]
         /\ lockOf'[me] # None => back = "stop"
         /\ \A t \in Threads \ {me} : lockOf'[t] = lockOf[t]
         /\ s \in Locks => lockOf'[me] = None /\ Holders(s) = {me} /\ count[s] = 0
         /\ s \notin Locks => lockOf' = lockOf
         /\ back = "waited" => /\ slot[me] \in Slots /\ children[me][slot[me]] # None
                               /\ isReady[children[me][slot[me]]]
<1>1. me \in TCBs /\ pc[me] \in Working /\ back \in Working
  BY Names DEF UpCall, Working
<1>2. /\ ~Queued(me) /\ Code(me) = pc[me]
      /\ back # "stop" /\ isReady[me] => killFlag[me]
      /\ lockOf[me] # None => pc[me] \in {"locked", "setting", "set", "stop", "wake"}
      /\ pc[me] = "got" => /\ slot[me] \in Slots /\ children[me][slot[me]] # None
                           /\ isReady[children[me][slot[me]]]
  BY <1>1, WorkingSems DEF UpCall
<1>3. s \in Threads => isReady[s] /\ s \notin Locks
  <2>1. pc[me] = "set" => isReady[me]
    BY <1>2 DEF SemInv, StatusInv
  <2>2. s \in Threads => s \notin Locks
    BY SchedulerAssumption DEF TCBs
  <2> QED BY <1>2, <2>1, <2>2 DEF UpCall
<1>4. /\ \A t \in Threads \ {me} : lockOf'[t] = lockOf[t]
      /\ s \in Locks => lockOf[me] = s /\ lockOf'[me] = None
      /\ lockOf'[me] # None => back = "stop"
  BY <1>2, <1>3 DEF UpCall, SwitchInv, TypeOK
<1>5. ASSUME s \in Locks PROVE Holders(s) = {me} /\ count[s] = 0
  <2>1. Holds(me, s)
    BY <1>2, <1>4, <1>5 DEF Holds
  <2>2. me \in Holders(s)
    BY <1>5, <2>1, HoldersAre
  <2> QED BY <1>5, <2>2 DEF SemInv, TokenInv, LockTokens
<1>6. s \notin Locks => lockOf' = lockOf
  BY DEF UpCall
<1>7. back = "waited" => pc[me] = "got"
  BY DEF UpCall
<1> QED BY <1>1, <1>2, <1>3, <1>4, <1>5, <1>6, <1>7

(* up() finds nobody waiting.                                              *)
LEMMA GiveSems ==
  ASSUME SwitchInv, SemInv, NEW me \in Threads, NEW s \in Sems, NEW back, UpCall(me, s, back),
         semLock[s] = None, waiting[s] = << >>,
         pc' = [pc EXCEPT ![me] = back], count' = [count EXCEPT ![s] = @ + 1],
         UNCHANGED <<why, resume, ret, semLock, waiting, slot, killFlag, isReady, children>>
  PROVE  SemInv'
<1>1. /\ me \in TCBs /\ pc[me] \in Working /\ back \in Working
      /\ ~Queued(me) /\ Code(me) = pc[me]
      /\ s \in Threads => isReady[s] /\ s \notin Locks
      /\ back # "stop" /\ isReady[me] => killFlag[me]
      /\ lockOf'[me] # None => back = "stop"
      /\ \A t \in Threads \ {me} : lockOf'[t] = lockOf[t]
      /\ s \in Locks => lockOf'[me] = None /\ Holders(s) = {me} /\ count[s] = 0
      /\ s \notin Locks => lockOf' = lockOf
      /\ back = "waited" => /\ slot[me] \in Slots /\ children[me][slot[me]] # None
                            /\ isReady[children[me][slot[me]]]
  BY UpKnows
<1>2. /\ pc'[me] = back /\ \A t \in TCBs \ {me} : pc'[t] = pc[t]
      /\ count[s] \in Nat /\ count'[s] = count[s] + 1
      /\ \A x \in Sems \ {s} : count'[x] = count[x]
  BY <1>1 DEF SwitchInv, TypeOK
<1>3. \A t \in TCBs \ {me} : Same(t)
  BY <1>2, StaysSame
<1>4. back \in {"run", "stop", "waited"}
  BY DEF UpCall
<1>5. /\ Code(me)' = back /\ ~Queued(me)'
      /\ Served(me)' <=> back = "waited"
      /\ Exits(me)' <=> back = "stop"
  BY <1>1, <1>2, <1>4, WorksOn
<1>6. QueuedInv'
  BY <1>1, <1>2, <1>3, <1>5, Names DEF SemInv, QueuedInv, Same
<1>7. /\ \A x \in Sems : count'[x] > 0 => waiting'[x] = << >> /\ semLock'[x] = None
      /\ \A t \in Threads : count'[t] > 0 => isReady[t]
  BY <1>1, <1>2, Names DEF SemInv, TokenInv, StatusInv
<1>8. LockTokens'
  <2>1. \A t \in Threads \ {me} : \A l \in Locks : Holds(t, l)' <=> Holds(t, l)
    BY <1>1, <1>2, <1>3, Names DEF Holds, Same
  <2>2. ASSUME NEW l \in Locks, l # s
        PROVE  Holders(l)' = Holders(l) /\ count'[l] = count[l]
    <3>1. Holds(me, l)' <=> Holds(me, l)
      <4>1. CASE s \in Locks
        <5>1. lockOf[me] = s /\ lockOf'[me] = None /\ l # None
          BY <1>1, <4>1, Names DEF UpCall
        <5> QED BY <2>2, <5>1 DEF Holds
      <4>2. CASE s \notin Locks
        BY <1>1, <1>5, <4>2 DEF Holds
      <4> QED BY <4>1, <4>2
    <3>2. \A t \in Threads : Holds(t, l)' <=> Holds(t, l)
      BY <2>1, <3>1
    <3>3. Holders(l)' = Holders(l)
      BY <3>2, HoldersAre, HoldersThen
    <3> QED BY <1>2, <2>2, <3>3, Names
  <2>3. ASSUME s \in Locks
        PROVE  Holders(s)' = {} /\ count'[s] = 1
    <3>1. ~Holds(me, s)'
      BY <1>1, <2>3, Names DEF Holds
    <3>2. \A t \in Threads \ {me} : ~Holds(t, s)
      BY <1>1, <2>3, HoldersAre
    <3>3. \A t \in Threads : ~Holds(t, s)'
      BY <2>1, <2>3, <3>1, <3>2
    <3>4. Holders(s)' = {}
      BY <2>3, <3>3, HoldersThen
    <3> QED BY <1>1, <1>2, <2>3, <3>4
  <2> QED BY <2>2, <2>3 DEF SemInv, TokenInv, LockTokens
<1>9. /\ \A t \in Threads : t # me => lockOf'[t] = lockOf[t]
      /\ \A t \in TCBs : t # me => Same(t)
      /\ slot' = slot /\ killFlag' = killFlag /\ isReady' = isReady /\ children' = children
      /\ \A t \in {me, me} :
           /\ lockOf'[t] # None => Code(t)' \in {"locked", "setting", "panic"} \/ Exits(t)'
           /\ Code(t)' \notin {"set", "panic"}
           /\ Served(t)' => /\ slot[t] \in Slots /\ children[t][slot[t]] # None
                            /\ isReady[children[t][slot[t]]]
           /\ isReady[t] /\ ~killFlag[t] => Exits(t)'
  BY <1>1, <1>3, <1>4, <1>5
<1> QED BY <1>6, <1>7, <1>8, <1>9, TokenSems

(* up() takes the first waiter out of the queue: the token is its own.     *)
LEMMA PassSems ==
  ASSUME SwitchInv, SemInv, NEW me \in Threads, NEW s \in Sems, NEW back, UpCall(me, s, back),
         NEW w, w = Head(waiting[s]), waiting[s] # << >>,
         waiting' = [waiting EXCEPT ![s] = Tail(@)], ret' = [ret EXCEPT ![me] = back],
         pc' = [pc EXCEPT ![me] = "wake", ![w] = "woken"],
         UNCHANGED <<why, resume, count, semLock, slot, killFlag, isReady, children>>
  PROVE  SemInv'
<1>1. /\ me \in TCBs /\ pc[me] \in Working
      /\ ~Queued(me) /\ Code(me) = pc[me]
      /\ s \in Threads => isReady[s] /\ s \notin Locks
      /\ back # "stop" /\ isReady[me] => killFlag[me]
      /\ lockOf'[me] # None => back = "stop"
      /\ \A t \in Threads \ {me} : lockOf'[t] = lockOf[t]
      /\ s \in Locks => lockOf'[me] = None /\ Holders(s) = {me} /\ count[s] = 0
      /\ s \notin Locks => lockOf' = lockOf
      /\ back = "waited" => /\ slot[me] \in Slots /\ children[me][slot[me]] # None
                            /\ isReady[children[me][slot[me]]]
  BY UpKnows
<1>2. w \in Threads /\ w \in TCBs /\ pc[w] = "waiting" /\ why[w] = s
  <2>1. waiting[s] \in Seq(Threads)
    BY DEF SwitchInv, TypeOK
  <2>2. 1 \in 1..Len(waiting[s]) /\ w = waiting[s][1] /\ w \in Threads
    BY <2>1
  <2> QED BY <2>2, Names DEF SwitchInv, QueueInv, Keeps
<1>3. /\ w # me /\ pc'[me] = "wake" /\ pc'[w] = "woken" /\ ret'[me] = back
      /\ \A t \in TCBs : t # me /\ t # w => pc'[t] = pc[t]
      /\ \A t \in TCBs : t # me => ret'[t] = ret[t]
      /\ \A x \in Sems \ {s} : waiting'[x] = waiting[x]
  <2>1. w # me
    BY <1>1, <1>2 DEF Working
  <2> QED BY <1>1, <1>2, <2>1 DEF SwitchInv, TypeOK
<1>4. \A t \in TCBs : t # me /\ t # w => Same(t)
  BY <1>3, StaysSame
<1>5. back \in {"run", "stop", "waited"}
  BY DEF UpCall
<1>6. /\ Code(me)' = "wake" /\ ~Queued(me)'
      /\ Served(me)' <=> back = "waited"
      /\ Exits(me)' <=> back = "stop"
  <2>1. pc'[me] \in Working
    BY <1>3 DEF Working
  <2> QED BY <1>3, <1>5, <2>1, WorksOn
<1>7. /\ Queued(w) /\ ~Queued(w)' /\ Code(w)' = Code(w)
      /\ s \in Locks => Code(w) = "locked" /\ lockOf[w] = s
      /\ s \notin Locks => /\ Code(w) = "got" /\ slot[w] \in Slots /\ s = children[w][slot[w]]
                           /\ s \in Threads /\ s # None
  <2>1. Queued(w) /\ ~Queued(w)' /\ Code(w)' = Code(w)
    BY <1>2, <1>3 DEF Queued, Code, Working, Blocking
  <2>2. \/ s \in Locks /\ Code(w) = "locked" /\ lockOf[w] = s
        \/ Code(w) = "got" /\ slot[w] \in Slots /\ s = children[w][slot[w]]
    BY <1>2, <2>1 DEF SemInv, QueuedInv
  <2>3. slot[w] \in Slots => children[w][slot[w]] \in Threads \union {None}
    BY <1>2 DEF SwitchInv, TypeOK
  <2>4. s # None /\ (s \in Locks => s \notin Threads)
    BY SchedulerAssumption DEF TCBs, Sems
  <2> QED BY <2>1, <2>2, <2>3, <2>4 DEF Sems
<1>8. QueuedInv'
  <2>1. ASSUME NEW t \in TCBs, t # me, t # w, Queued(t)'
        PROVE  /\ t \in Threads /\ (pc'[t] # "waiting" => semLock'[why'[t]] = t)
               /\ \/ why'[t] \in Locks /\ Code(t)' = "locked" /\ lockOf'[t] = why'[t]
                  \/ /\ Code(t)' = "got" /\ slot'[t] \in Slots
                     /\ why'[t] = children'[t][slot'[t]]
    <3>1. Queued(t) /\ why'[t] = why[t] /\ pc'[t] = pc[t] /\ Code(t)' = Code(t)
      BY <1>3, <1>4, <2>1 DEF Same
    <3> QED BY <1>1, <2>1, <3>1 DEF SemInv, QueuedInv
  <2> QED BY <1>6, <1>7, <2>1 DEF QueuedInv
<1>9. count[s] = 0
  <2>1. count[s] \in Nat
    BY DEF SwitchInv, TypeOK
  <2> QED BY <2>1 DEF SemInv, TokenInv
<1>10. /\ \A x \in Sems : count'[x] > 0 => waiting'[x] = << >> /\ semLock'[x] = None
       /\ \A t \in Threads : count'[t] > 0 => isReady[t]
  BY <1>3, <1>9, Names DEF SemInv, TokenInv, StatusInv
<1>11. LockTokens'
  <2>1. \A t \in Threads \ {me, w} : \A l \in Locks : Holds(t, l)' <=> Holds(t, l)
    BY <1>1, <1>3, <1>4, Names DEF Holds, Same
  <2>2. ASSUME NEW l \in Locks, l # s
        PROVE  Holders(l)' = Holders(l) /\ count'[l] = count[l]
    <3>1. Holds(me, l)' <=> Holds(me, l)
      <4>1. CASE s \in Locks
        <5>1. lockOf[me] = s /\ lockOf'[me] = None /\ l # None
          BY <1>1, <4>1, Names DEF UpCall
        <5> QED BY <2>2, <5>1 DEF Holds
      <4>2. CASE s \notin Locks
        BY <1>1, <1>6, <4>2 DEF Holds
      <4> QED BY <4>1, <4>2
    <3>2. Holds(w, l)' <=> Holds(w, l)
      BY <1>1, <1>2, <1>3, <1>7, <2>2 DEF Holds
    <3>3. \A t \in Threads : Holds(t, l)' <=> Holds(t, l)
      BY <2>1, <3>1, <3>2
    <3>4. Holders(l)' = Holders(l)
      BY <3>3, HoldersAre, HoldersThen
    <3> QED BY <3>4
  <2>3. ASSUME s \in Locks
        PROVE  Holders(s)' = {w} /\ count'[s] = 0
    <3>1. ~Holds(me, s)' /\ Holds(w, s)'
      BY <1>1, <1>2, <1>3, <1>7, <2>3, Names DEF Holds
    <3>2. \A t \in Threads \ {me} : ~Holds(t, s)
      BY <1>1, <2>3, HoldersAre
    <3>3. \A t \in Threads : Holds(t, s)' <=> t = w
      BY <2>1, <2>3, <3>1, <3>2
    <3>4. Holders(s)' = {w}
      BY <1>2, <2>3, <3>3, HoldersThen
    <3> QED BY <1>1, <2>3, <3>4
  <2> QED BY <1>2, <2>2, <2>3 DEF SemInv, TokenInv, LockTokens
<1>12. /\ Exits(w)' <=> Exits(w)
       /\ Served(w)' => s \notin Locks
  BY <1>3, <1>7 DEF Exits, Served
<1>13. /\ lockOf'[w] # None => Code(w)' \in {"locked", "setting", "panic"} \/ Exits(w)'
       /\ Code(w)' \notin {"set", "panic"}
       /\ Served(w)' => /\ slot[w] \in Slots /\ children[w][slot[w]] # None
                        /\ isReady[children[w][slot[w]]]
       /\ isReady[w] /\ ~killFlag[w] => Exits(w)'
  <2>1. lockOf'[w] # None => Code(w)' \in {"locked", "setting", "panic"} \/ Exits(w)'
    BY <1>1, <1>2, <1>3, <1>7, <1>12 DEF SemInv, TokenInv
  <2>2. isReady[w] /\ ~killFlag[w] => Exits(w)'
    BY <1>2, <1>12 DEF SemInv, KilledInv
  <2> QED BY <1>1, <1>7, <1>12, <2>1, <2>2
<1>14. /\ \A t \in Threads : t # me /\ t # w => lockOf'[t] = lockOf[t]
       /\ slot' = slot /\ killFlag' = killFlag /\ isReady' = isReady /\ children' = children
       /\ \A t \in {me, w} :
            /\ lockOf'[t] # None => Code(t)' \in {"locked", "setting", "panic"} \/ Exits(t)'
            /\ Code(t)' \notin {"set", "panic"}
            /\ Served(t)' => /\ slot[t] \in Slots /\ children[t][slot[t]] # None
                             /\ isReady[children[t][slot[t]]]
            /\ isReady[t] /\ ~killFlag[t] => Exits(t)'
  BY <1>1, <1>6, <1>13
<1> QED BY <1>2, <1>4, <1>8, <1>10, <1>11, <1>14, TokenSems

LEMMA UpSems ==
  ASSUME SwitchInv, SemInv, NEW me \in Threads, NEW s \in Sems, NEW back, UpCall(me, s, back),
         Up(me, s, back), UNCHANGED <<slot, killFlag, isReady, children>>
  PROVE  SemInv'
<1>1. UNCHANGED <<why, resume, semLock>> /\ semLock[s] = None
  BY DEF Up
<1>2. CASE /\ waiting[s] = << >>
           /\ count' = [count EXCEPT ![s] = @ + 1]
           /\ pc' = [pc EXCEPT ![me] = back]
           /\ UNCHANGED <<ret, waiting>>
  BY <1>1, <1>2, GiveSems
<1>3. CASE /\ waiting[s] # << >>
           /\ waiting' = [waiting EXCEPT ![s] = Tail(@)]
           /\ ret' = [ret EXCEPT ![me] = back]
           /\ pc' = [pc EXCEPT ![me] = "wake", ![Head(waiting[s])] = "woken"]
           /\ UNCHANGED count
  <2>1. PICK w : w = Head(waiting[s])
    OBVIOUS
  <2> QED BY <1>1, <1>3, <2>1, PassSems
<1> QED BY <1>2, <1>3 DEF Up, Goto

LEMMA ReleaseSems ==
  ASSUME SwitchInv, SemInv, NEW c \in Cores, Unlock(c) \/ SetUp(c) \/ GetUp(c)
  PROVE  SemInv'
<1>1. PICK me \in TCBs : me = stack[c]
  BY DEF SwitchInv, TypeOK
<1>2. CASE Unlock(c)
  <2>1. /\ pc[me] = "locked" /\ me \in Threads /\ Up(me, lockOf[me], "run")
        /\ lockOf' = [lockOf EXCEPT ![me] = None]
        /\ UNCHANGED <<slot, killFlag, isReady, children>>
    BY <1>1, <1>2 DEF Unlock, InProcess, At
  <2>2. lockOf[me] \in Locks /\ lockOf[me] \in Sems
    BY <2>1, Names DEF SwitchInv, TypeOK, CallInv
  <2>3. UpCall(me, lockOf[me], "run")
    BY <2>1, <2>2 DEF UpCall
  <2> QED BY <2>1, <2>2, <2>3, UpSems
<1>3. CASE SetUp(c)
  <2>1. /\ pc[me] = "set" /\ prev[c] = None /\ Up(me, me, "stop")
        /\ lockOf' = lockOf /\ UNCHANGED <<slot, killFlag, isReady, children>>
    BY <1>1, <1>3 DEF SetUp, At, procVars
  <2>2. me \in Threads /\ me \in Sems
    BY <1>1, <2>1, Running, Names DEF Blocking
  <2>3. UpCall(me, me, "stop")
    BY <2>1, <2>2 DEF UpCall
  <2> QED BY <2>1, <2>2, <2>3, UpSems
<1>4. CASE GetUp(c)
  <2>1. /\ pc[me] = "got" /\ prev[c] = None /\ Up(me, children[me][slot[me]], "waited")
        /\ lockOf' = lockOf /\ UNCHANGED <<slot, killFlag, isReady, children>>
    BY <1>1, <1>4 DEF GetUp, At, procVars
  <2>2. me \in Threads
    BY <1>1, <2>1, Running DEF Blocking
  <2>3. slot[me] \in Slots /\ children[me][slot[me]] # None
    BY <2>1, <2>2 DEF SwitchInv, CallInv
  <2>4. children[me][slot[me]] \in Threads /\ children[me][slot[me]] \in Sems
    BY <2>2, <2>3, Names DEF SwitchInv, TypeOK
  <2>5. UpCall(me, children[me][slot[me]], "waited")
    BY <2>1, <2>3, <2>4 DEF UpCall
  <2> QED BY <2>1, <2>2, <2>4, <2>5, UpSems
<1> QED BY <1>2, <1>3, <1>4

-----------------------------------------------------------------------------
LEMMA InitSems == Init => SemInv
<1> SUFFICES ASSUME Init PROVE SemInv
  OBVIOUS
<1>1. /\ \A t \in TCBs : /\ pc[t] \in {"stop", "ready", "new"} /\ why[t] = "stop"
                         /\ resume[t] = "run" /\ ret[t] = "run"
      /\ \A t \in Threads : pc[t] \in {"ready", "new"}
      /\ \A t \in Threads : lockOf[t] = None /\ ~killFlag[t] /\ ~isReady[t]
      /\ \A s \in Sems : semLock[s] = None /\ waiting[s] = << >>
      /\ \A l \in Locks : count[l] = 1
  BY Names DEF Init
<1>2. \A t \in Threads : count[t] = 0
  BY SchedulerAssumption, Names DEF Init, TCBs
<1>3. \A t \in TCBs : ~Queued(t)
  BY <1>1, Names DEF Queued
<1>4. \A t \in Threads : Code(t) = "run" /\ ~Served(t)
  BY <1>1, Names DEF Code, Served, Working
<1>5. QueuedInv
  BY <1>3 DEF QueuedInv
<1>6. TokenInv
  BY <1>1, Names DEF TokenInv, LockTokens, Holders
<1>7. StatusInv
  BY <1>1, <1>2, <1>4 DEF StatusInv
<1>8. KilledInv
  BY <1>1, <1>4 DEF KilledInv
<1> QED BY <1>5, <1>6, <1>7, <1>8 DEF SemInv

LEMMA StutterSems ==
  ASSUME SemInv, UNCHANGED vars
  PROVE  SemInv'
<1>1. /\ pc' = pc /\ why' = why /\ resume' = resume /\ ret' = ret
      /\ UNCHANGED <<count, semLock, waiting, lockOf, slot, killFlag, isReady, children>>
  BY DEF vars, tcbVars, semVars, procVars
<1>2. \A t \in TCBs : Same(t)
  BY <1>1, StaysSame
<1> QED BY <1>1, <1>2, QuietSems

LEMMA NextSems ==
  ASSUME SwitchInv, SemInv, [Next]_vars
  PROVE  SemInv'
<1>1. CASE UNCHANGED vars
  BY <1>1, StutterSems
<1>2. ASSUME NEW c \in Cores, SwitchStep(c) PROVE SemInv'
  BY <1>2, BlockSems, RemoveNextSems, RemoveReturnSems, SwitchSems, HandleSems, HandleDownSems
  DEF SwitchStep
<1>3. ASSUME NEW c \in Cores, KernelStep(c) PROVE SemInv'
  BY <1>3, WakeWaiterSems, ReleaseSems, SpawnSems, SetFutureSems, StopSems, GetDownSems,
     WaitDoneSems, CallsSems, ReapSems, YieldSems
  DEF KernelStep
<1>4. ASSUME NEW c \in Cores, SystemCall(c) PROVE SemInv'
  BY <1>4, LockSems, ForkSems, CallsSems, WaitSems, DisownSems DEF SystemCall
<1>5. ASSUME NEW c \in Cores, TimerWake(c) \/ Tick(c) PROVE SemInv'
  BY <1>5, BlockSems, TickSems
<1> QED BY <1>1, <1>2, <1>3, <1>4, <1>5 DEF Next

(* Tokens, queues, exit statuses and what every thread does next agree in  *)
(* every reachable state: down() and up() (semaphore.h), lock() and        *)
(* unlock(), Future::set and get (future.h), kill (pit.cc).                *)
THEOREM SemCorrect == Spec => []SemInv
<1>1. SwitchInv /\ SemInv /\ [Next]_vars => SemInv'
  BY NextSems
<1> QED BY <1>1, InitSems, SwitchCorrect, PTL DEF Spec

(* A BlockingLock (semaphore.h) is free or has one holder in every         *)
(* reachable state, also while up() hands it over to a waiter and whoever  *)
(* is preempted or killed on the way.                                      *)
THEOREM LockTokensCorrect == Spec => []LockTokens
<1>1. SemInv => LockTokens
  BY DEF SemInv, TokenInv
<1> QED BY <1>1, SemCorrect, PTL

(* Semaphore never keeps a token while somebody waits for it: the lock     *)
(* that down() keeps across the context switch closes the gap between the  *)
(* test of count and the queue.                                            *)
THEOREM NoMissedUpCorrect == Spec => []NoMissedUp
<1>1. SemInv => NoMissedUp
  BY DEF SemInv, TokenInv, NoMissedUp
<1> QED BY <1>1, SemCorrect, PTL

(* wait() returns only after the child has left its status in its Future.  *)
THEOREM WaitSeesStatusCorrect == Spec => []WaitSeesStatus
<1>1. ASSUME SemInv PROVE WaitSeesStatus
  <2> SUFFICES ASSUME NEW t \in Threads, pc[t] = "waited"
               PROVE  isReady[children[t][slot[t]]]
    BY DEF WaitSeesStatus
  <2>1. Served(t)
    BY DEF Served, Code, Queued, Working, Blocking
  <2> QED BY <1>1, <2>1 DEF SemInv, StatusInv
<1> QED BY <1>1, SemCorrect, PTL

(* The assertion of Future::set fails for no process that nobody may kill: *)
(* only the second exit that apitHandler forces on a killed process could  *)
(* set its Future twice.                                                   *)
THEOREM OnlyKilledPanic == Spec => [](\A t \in TCBs \ Killable : pc[t] # "panic")
<1>1. ASSUME SwitchInv, SemInv PROVE \A t \in TCBs \ Killable : pc[t] # "panic"
  <2>1. \A t \in Cores : pc[t] # "panic"
    BY <1>1 DEF SwitchInv, IdleInv, IdleStops, Blocking
  <2>2. \A t \in Threads \ Killable : pc[t] # "panic"
    BY <1>1 DEF SemInv, KilledInv, Code
  <2> QED BY <2>1, <2>2 DEF TCBs
<1> QED BY <1>1, SwitchCorrect, SemCorrect, PTL

(* Where no parent kills a child, ASSERT(!isReady) (future.h:28) never     *)
(* fails.                                                                  *)
THEOREM NoPanicCorrect == ASSUME Killable = {} PROVE Spec => []NoPanic
<1>1. (\A t \in TCBs \ Killable : pc[t] # "panic") => NoPanic
  BY DEF NoPanic
<1> QED BY <1>1, OnlyKilledPanic, PTL

-----------------------------------------------------------------------------
(* Sleeping cores.  Nobody falls asleep, no monitor is set for a core that *)
(* sleeps, and a thread that joins the queue wakes them all.               *)
LEMMA SleepersKept ==
  ASSUME SwitchInv, SleepersSeeWork,
         \A t \in TCBs : pc'[t] = "mwait" => pc[t] = "mwait",
         \A d \in Cores : stack'[d] = stack[d] \/ pc'[stack'[d]] # "mwait",
         \A d \in Cores : armed'[d] => armed[d] \/ pc'[stack'[d]] # "mwait",
         \/ readyQ' = readyQ
         \/ readyQ # << >>
         \/ \A d \in Cores : ~armed'[d]
  PROVE  SleepersSeeWork'
<1> SUFFICES ASSUME NEW d \in Cores, pc'[stack'[d]] = "mwait", armed'[d]
             PROVE  readyQ' = << >>
  BY DEF SleepersSeeWork, At
<1>1. stack'[d] = stack[d] /\ armed[d] /\ stack[d] \in TCBs
  BY DEF SwitchInv, TypeOK
<1>2. pc[stack[d]] = "mwait"
  BY <1>1
<1>3. prev[d] = None
  BY <1>2 DEF SwitchInv, StackInv
<1>4. readyQ = << >>
  BY <1>1, <1>2, <1>3 DEF SleepersSeeWork, At
<1> QED BY <1>4

(* schedule() does not leave a sleeper behind.                             *)
LEMMA ScheduleWakes ==
  ASSUME NEW w, Schedule(w)
  PROVE  \A d \in Cores : ~armed'[d]
BY DEF Schedule, LockStored

(* Where no thread falls asleep.                                           *)
LEMMA AwakeStep ==
  ASSUME SwitchInv, SleepersSeeWork, NEW c \in Cores,
         \/ MonitorWake(c) \/ TimerWake(c) \/ Commit(c) \/ RemoveReturn(c) \/ Monitor(c)
         \/ Unlock(c) \/ SetUp(c) \/ GetUp(c) \/ SetFuture(c) \/ Stop(c) \/ Yield(c)
         \/ GetDown(c) \/ WaitDone(c) \/ ReaperLoop(c) \/ Reap(c) \/ SystemCall(c) \/ Tick(c)
  PROVE  SleepersSeeWork'
<1>1. PICK me \in TCBs : me = stack[c]
  BY DEF SwitchInv, TypeOK
<1>2. /\ pc \in [TCBs -> PCs] /\ armed \in [Cores -> BOOLEAN]
      /\ resume[me] # "mwait" /\ ret[me] # "mwait"
      /\ \A t \in TCBs : pc[t] = "mwait" => pc[t] \notin Working
      /\ \A d \in Cores : stack[d] = me => d = c
  BY <1>1 DEF SwitchInv, TypeOK, StackInv, Working, Returns
<1>3. CASE MonitorWake(c) \/ TimerWake(c) \/ Commit(c)
  <2>1. /\ \E p \in {"block", "switch"} : pc' = [pc EXCEPT ![me] = p]
        /\ armed' = armed \/ armed' = [armed EXCEPT ![c] = FALSE]
        /\ stack' = stack /\ readyQ' = readyQ
    BY <1>1, <1>3 DEF MonitorWake, TimerWake, Commit, Goto, cpuVars
  <2> QED BY <1>2, <2>1, SleepersKept
<1>4. CASE Monitor(c)
  <2>1. /\ pc' = [pc EXCEPT ![me] = "remove"] /\ armed' = [armed EXCEPT ![c] = TRUE]
        /\ stack' = stack /\ readyQ' = readyQ
    BY <1>1, <1>4 DEF Monitor, Goto, cpuVars
  <2> QED BY <1>1, <1>2, <2>1, SleepersKept
<1>5. CASE RemoveReturn(c)
  <2>1. /\ pc' = [pc EXCEPT ![me] = resume[me]] /\ armed' = [d \in Cores |-> FALSE]
        /\ stack' = stack /\ readyQ' = readyQ
    BY <1>1, <1>5 DEF RemoveReturn, Continue, LockStored, cpuVars
  <2> QED BY <1>2, <2>1, SleepersKept
<1>6. CASE Unlock(c) \/ SetUp(c) \/ GetUp(c)
  <2>1. /\ \/ \E p \in {"run", "stop", "waited"} : pc' = [pc EXCEPT ![me] = p]
           \/ \E w : pc' = [pc EXCEPT ![me] = "wake", ![w] = "woken"]
        /\ stack' = stack /\ readyQ' = readyQ /\ armed' = armed
    BY <1>1, <1>6 DEF Unlock, SetUp, GetUp, Up, Goto, cpuVars
  <2>2. \A t \in TCBs : pc'[t] = "mwait" => pc[t] = "mwait"
    BY <1>2, <2>1
  <2> QED BY <2>1, <2>2, SleepersKept
<1>7. CASE SetFuture(c) \/ Stop(c) \/ Yield(c) \/ WaitDone(c) \/ ReaperLoop(c)
  <2>1. /\ \E p \in {"set", "panic", "block", "run", "reap"} : pc' = [pc EXCEPT ![me] = p]
        /\ stack' = stack /\ readyQ' = readyQ /\ armed' = armed
    BY <1>1, <1>7 DEF SetFuture, Stop, Yield, WaitDone, ReaperLoop, Block, Goto, cpuVars
  <2>2. \A t \in TCBs : pc'[t] = "mwait" => pc[t] = "mwait"
    BY <1>2, <2>1
  <2> QED BY <2>1, <2>2, SleepersKept
<1>8. CASE GetDown(c) \/ \E l \in Locks : Lock(c, l)
  <2>1. /\ \E p \in {"block", "locked", "got"} : pc' = [pc EXCEPT ![me] = p]
        /\ stack' = stack /\ readyQ' = readyQ /\ armed' = armed
    BY <1>1, <1>8 DEF GetDown, Lock, InProcess, Down, Block, Goto, cpuVars
  <2>2. \A t \in TCBs : pc'[t] = "mwait" => pc[t] = "mwait"
    BY <1>2, <2>1
  <2> QED BY <2>1, <2>2, SleepersKept
<1>9. CASE Reap(c)
  <2>1. /\ \/ pc' = [pc EXCEPT ![me] = ret[me]]
           \/ pc' = [pc EXCEPT ![Head(zombies)] = "dead"]
        /\ stack' = stack /\ readyQ' = readyQ /\ armed' = armed
    BY <1>1, <1>2, <1>9 DEF Reap, Goto, cpuVars
  <2>2. \A t \in TCBs : pc'[t] = "mwait" => pc[t] = "mwait"
    BY <1>2, <2>1
  <2> QED BY <2>1, <2>2, SleepersKept
<1>10. CASE Tick(c)
  <2>1. /\ \E p \in {"block", "setting"} : pc' = [pc EXCEPT ![active[c]] = p]
        /\ stack' = stack /\ readyQ' = readyQ /\ armed' = armed
    BY <1>10 DEF Tick, Block, Goto, cpuVars
  <2>2. \A t \in TCBs : pc'[t] = "mwait" => pc[t] = "mwait"
    BY <1>2, <2>1
  <2> QED BY <2>1, <2>2, SleepersKept
<1>11. CASE ForkFails(c) \/ Exit(c) \/ \E i \in Slots : Wait(c, i) \/ Disown(c, i) \/ Kill(c, i)
  <2>1. /\ \/ pc' = pc
           \/ \E p \in {"reap", "setting", "waited", "get"} : pc' = [pc EXCEPT ![me] = p]
        /\ stack' = stack /\ readyQ' = readyQ /\ armed' = armed
    BY <1>1, <1>11 DEF ForkFails, Exit, Wait, Disown, Kill, Goto, cpuVars
  <2>2. \A t \in TCBs : pc'[t] = "mwait" => pc[t] = "mwait"
    BY <1>2, <2>1
  <2> QED BY <2>1, <2>2, SleepersKept
<1>12. CASE \E u \in Threads : Fork(c, u)
  <2>1. /\ \E u : pc' = [pc EXCEPT ![me] = "reap", ![u] = "made"]
        /\ stack' = stack /\ readyQ' = readyQ /\ armed' = armed
    BY <1>1, <1>12 DEF Fork, cpuVars
  <2>2. \A t \in TCBs : pc'[t] = "mwait" => pc[t] = "mwait"
    BY <1>2, <2>1
  <2> QED BY <2>1, <2>2, SleepersKept
<1> QED BY <1>3, <1>4, <1>5, <1>6, <1>7, <1>8, <1>9, <1>10, <1>11, <1>12 DEF SystemCall

(* No core sleeps on an armed monitor while a thread is ready: remove()    *)
(* sets the monitor on the lock word before it looks into the queue, and   *)
(* add() stores to that word (threads.h:100, atomic.h:216).                *)
THEOREM SleepersCorrect == Spec => []SleepersSeeWork
<1>1. Init => SleepersSeeWork
  BY DEF Init, SleepersSeeWork
<1>2. ASSUME SwitchInv, SleepersSeeWork, [Next]_vars PROVE SleepersSeeWork'
  <2>1. CASE UNCHANGED vars
    BY <1>2, <2>1 DEF vars, cpuVars, SleepersSeeWork, At
  <2>2. ASSUME NEW c \in Cores, RemoveNext(c) PROVE SleepersSeeWork'
    <3>1. /\ readyQ # << >> /\ stack' = stack
          /\ pc' = [pc EXCEPT ![stack[c]] = "commit", ![Head(readyQ)] = "picked"]
          /\ armed' = [d \in Cores |-> FALSE]
      BY <2>2 DEF RemoveNext, LockStored
    <3>2. pc \in [TCBs -> PCs] /\ armed \in [Cores -> BOOLEAN]
      BY <1>2 DEF SwitchInv, TypeOK
    <3> QED BY <1>2, <3>1, <3>2, SleepersKept
  <2>3. ASSUME NEW c \in Cores, RemoveNone(c) PROVE SleepersSeeWork'
    BY <2>3 DEF RemoveNone, SleepersSeeWork
  <2>4. ASSUME NEW c \in Cores, Switch(c) PROVE SleepersSeeWork'
    <3>1. PICK me, w : me = stack[c] /\ w = chosen[c]
      OBVIOUS
    <3>2. /\ pc[me] = "switch" /\ pc' = [pc EXCEPT ![me] = "leaving", ![w] = "landing"]
          /\ stack' = [stack EXCEPT ![c] = w] /\ readyQ' = readyQ /\ armed' = armed
      BY <2>4, <3>1 DEF Switch, At
    <3>3. /\ pc \in [TCBs -> PCs] /\ stack \in [Cores -> TCBs] /\ w \in TCBs
      BY <1>2, <3>1, <3>2 DEF SwitchInv, TypeOK, ChosenInv
    <3>4. /\ pc'[w] = "landing" /\ stack'[c] = w /\ \A d \in Cores \ {c} : stack'[d] = stack[d]
          /\ \A t \in TCBs : pc'[t] = "mwait" => pc[t] = "mwait"
      BY <3>2, <3>3
    <3> QED BY <1>2, <3>2, <3>4, SleepersKept
  <2>5. ASSUME NEW c \in Cores, HandleYield(c) \/ HandleStop(c) \/ HandleDown(c)
        PROVE  SleepersSeeWork'
    <3>1. /\ \E p \in {"ready", "parked", "zombie", "waiting"} :
               pc' = [pc EXCEPT ![prev[c]] = p, ![stack[c]] = resume[stack[c]]]
          /\ stack' = stack
          /\ Schedule(prev[c]) \/ (readyQ' = readyQ /\ armed' = armed)
      BY <2>5 DEF HandleYield, HandleStop, HandleDown, Arrive, Continue
    <3>2. pc \in [TCBs -> PCs] /\ resume[stack[c]] # "mwait"
      BY <1>2 DEF SwitchInv, TypeOK, Working
    <3>3. \A t \in TCBs : pc'[t] = "mwait" => pc[t] = "mwait"
      BY <3>1, <3>2
    <3>4. CASE Schedule(prev[c])
      BY <1>2, <3>1, <3>3, <3>4, ScheduleWakes, SleepersKept
    <3> QED BY <1>2, <3>1, <3>3, <3>4, SleepersKept
  <2>6. ASSUME NEW c \in Cores, WakeWaiter(c) \/ Spawn(c) PROVE SleepersSeeWork'
    <3>1. /\ \E p \in Returns : \E w : /\ pc' = [pc EXCEPT ![stack[c]] = p, ![w] = "ready"]
                                       /\ Schedule(w)
          /\ stack' = stack
      BY <1>2, <2>6 DEF WakeWaiter, Spawn, cpuVars, Returns, SwitchInv, TypeOK
    <3>2. pc \in [TCBs -> PCs] /\ "mwait" \notin Returns
      BY <1>2 DEF SwitchInv, TypeOK, Returns
    <3>3. \A t \in TCBs : pc'[t] = "mwait" => pc[t] = "mwait"
      BY <3>1, <3>2
    <3> QED BY <1>2, <3>1, <3>3, ScheduleWakes, SleepersKept
  <2> QED BY <1>2, <2>1, <2>2, <2>3, <2>4, <2>5, <2>6, AwakeStep
          DEF Next, SwitchStep, KernelStep
<1>3. SwitchInv /\ SleepersSeeWork /\ [Next]_vars => SleepersSeeWork'
  BY <1>2
<1> QED BY <1>1, <1>3, SwitchCorrect, PTL DEF Spec

-----------------------------------------------------------------------------
(* add() puts a newcomer before a queued thread only if it ran less, and   *)
(* moves nobody past anybody.                                              *)
LEMMA AddKeepsOrder ==
  ASSUME NEW S, NEW q \in Seq(S), NEW rt \in [S -> Nat], NEW t \in S,
         NoDuplicates(q), \A j \in 1..Len(q) : q[j] # t, Sorted(q, rt)
  PROVE  LET a == Add(q, rt, t)
         IN  \A i \in 1..Len(q) : \A k, l \in 1..Len(a) :
               a[k] = q[i] /\ l < k =>
                 \/ \E j \in 1..(i - 1) : a[l] = q[j]
                 \/ /\ \A j \in 1..Len(q) : a[l] # q[j]
                    /\ rt[a[l]] < rt[q[i]]
<1> DEFINE a == Add(q, rt, t)
           p == Position(q, rt, t)
<1>1. Len(q) \in Nat
  OBVIOUS
<1>2. /\ p \in 1..(Len(q) + 1)
      /\ a \in Seq(S)
      /\ Len(a) = Len(q) + 1
      /\ \A k \in 1..Len(a) :
           /\ k < p => k \in 1..Len(q) /\ a[k] = q[k]
           /\ k = p => a[k] = t
           /\ k > p => k - 1 \in 1..Len(q) /\ a[k] = q[k - 1]
  BY AddShape
<1>3. p <= Len(q) => rt[q[p]] > rt[t]
  BY PositionExists
<1> HIDE DEF a, p
<1> SUFFICES ASSUME NEW i \in 1..Len(q), NEW k \in 1..Len(a), NEW l \in 1..Len(a),
                    a[k] = q[i], l < k
             PROVE  \/ \E j \in 1..(i - 1) : a[l] = q[j]
                    \/ /\ \A j \in 1..Len(q) : a[l] # q[j]
                       /\ rt[a[l]] < rt[q[i]]
  BY DEF a
<1>4. \A x, y \in 1..Len(q) : q[x] = q[y] => x = y
  BY DEF NoDuplicates
<1>5. k # p
  BY <1>2
<1>6. CASE k < p
  <2>1. /\ k \in 1..Len(q) /\ a[k] = q[k]
        /\ l < p
    <3>1. k \in 1..Len(q) /\ a[k] = q[k]
      BY <1>2, <1>6
    <3>2. l < p
      BY <1>1, <1>2, <1>6
    <3> QED BY <3>1, <3>2
  <2>2. k = i
    BY <1>4, <2>1
  <2>3. a[l] = q[l] /\ l \in 1..(i - 1)
    BY <1>2, <2>1, <2>2
  <2> QED BY <2>3
<1>7. CASE k > p
  <2>1. k - 1 \in 1..Len(q) /\ a[k] = q[k - 1]
    BY <1>2, <1>7
  <2>2. k - 1 = i
    BY <1>4, <2>1
  <2>3. CASE l < p
    <3>1. a[l] = q[l] /\ l \in 1..(i - 1)
      BY <1>2, <1>7, <2>2, <2>3
    <3> QED BY <3>1
  <2>4. CASE l > p
    <3>1. a[l] = q[l - 1] /\ l - 1 \in 1..Len(q)
      BY <1>2, <2>4
    <3>2. l - 1 \in 1..(i - 1)
      BY <1>1, <2>2, <3>1
    <3> QED BY <3>1, <3>2
  <2>5. CASE l = p
    <3>1. a[l] = t /\ p \in 1..Len(q) /\ p <= i
      BY <1>2, <1>7, <2>2, <2>5
    <3>2. rt[q[p]] <= rt[q[i]]
      <4>1. CASE p = i
        <5>1. rt[q[i]] \in Nat
          OBVIOUS
        <5> QED BY <4>1, <5>1
      <4>2. CASE p # i
        <5>1. p < i
          BY <1>1, <3>1, <4>2
        <5> QED BY <3>1, <5>1 DEF Sorted
      <4> QED BY <4>1, <4>2
    <3>3. /\ rt[t] \in Nat /\ rt[q[p]] \in Nat /\ rt[q[i]] \in Nat
      BY <3>1
    <3>4. rt[t] < rt[q[i]]
      BY <1>3, <3>1, <3>2, <3>3
    <3> QED BY <3>1, <3>4
  <2>6. l < p \/ l > p \/ l = p
    BY <1>1, <1>2
  <2> QED BY <2>3, <2>4, <2>5, <2>6
<1>8. k < p \/ k > p
  BY <1>1, <1>2, <1>5
<1> QED BY <1>6, <1>7, <1>8

LEMMA ScheduleKeepsOrder ==
  ASSUME SwitchInv, ReadySorted, NEW w \in Threads, pc[w] # "ready", Schedule(w)
  PROVE  OrderKept
<1>1. /\ readyQ \in Seq(Threads) /\ Keeps(readyQ, "ready")
      /\ readyQ' = Add(readyQ, runTime, w) /\ runTime \in [Threads -> 0..MaxRunTime]
      /\ Sorted(readyQ, runTime)
  BY DEF SwitchInv, TypeOK, QueueInv, Schedule, ReadySorted
<1>2. runTime \in [Threads -> Nat]
  BY <1>1, SchedulerAssumption
<1>3. NoDuplicates(readyQ) /\ \A i \in 1..Len(readyQ) : readyQ[i] # w
  BY <1>1 DEF Keeps
<1> DEFINE a == Add(readyQ, runTime, w)
<1>4. \A i \in 1..Len(readyQ) : \A k, l \in 1..Len(a) :
        a[k] = readyQ[i] /\ l < k =>
          \/ \E j \in 1..(i - 1) : a[l] = readyQ[j]
          \/ /\ \A j \in 1..Len(readyQ) : a[l] # readyQ[j]
             /\ runTime[a[l]] < runTime[readyQ[i]]
  BY <1>1, <1>2, <1>3, AddKeepsOrder
<1>5. readyQ' = a
  BY <1>1
<1> HIDE DEF a
<1> QED BY ONLY <1>4, <1>5 DEF OrderKept

LEMMA RemoveKeepsOrder ==
  ASSUME SwitchInv, readyQ # << >>, readyQ' = Tail(readyQ)
  PROVE  OrderKept
<1>1. readyQ \in Seq(Threads) /\ NoDuplicates(readyQ)
  BY DEF SwitchInv, TypeOK, QueueInv, Keeps
<1>2. /\ Len(readyQ) \in Nat /\ Len(readyQ') = Len(readyQ) - 1
      /\ \A k \in 1..Len(readyQ') : k + 1 \in 1..Len(readyQ) /\ readyQ'[k] = readyQ[k + 1]
  BY <1>1, TailEntries
<1>3. ASSUME NEW i \in 1..Len(readyQ), NEW k \in 1..Len(readyQ'), NEW l \in 1..Len(readyQ'),
             readyQ'[k] = readyQ[i], l < k
      PROVE  \E j \in 1..(i - 1) : readyQ'[l] = readyQ[j]
  <2>1. k + 1 = i
    BY <1>1, <1>2, <1>3 DEF NoDuplicates
  <2>2. l + 1 \in 1..(i - 1) /\ readyQ'[l] = readyQ[l + 1]
    BY <1>2, <1>3, <2>1
  <2> QED BY <2>2
<1> QED BY ONLY <1>3, Zenon DEF OrderKept

LEMMA SameKeepsOrder ==
  ASSUME SwitchInv, readyQ' = readyQ
  PROVE  OrderKept
<1>1. NoDuplicates(readyQ) /\ readyQ \in Seq(Threads)
  BY DEF SwitchInv, QueueInv, Keeps, TypeOK
<1>2. ASSUME NEW i \in 1..Len(readyQ), NEW k \in 1..Len(readyQ), NEW l \in 1..Len(readyQ),
             readyQ[k] = readyQ[i], l < k
      PROVE  \E j \in 1..(i - 1) : readyQ[l] = readyQ[j]
  <2>1. k = i
    BY <1>1, <1>2 DEF NoDuplicates
  <2>2. l \in 1..(i - 1)
    BY <1>2, <2>1
  <2> QED BY <2>2
<1> QED BY <1>2 DEF OrderKept

(* No step of the scheduler lets a queued thread pass another one, and one *)
(* that joins readyQ goes behind all that ran as little (priority_queue.h).*)
THEOREM OrderCorrect == Spec => NoOvertaking
<1>1. ASSUME SwitchInv, ReadySorted, Next PROVE OrderKept
  <2>1. CASE readyQ' = readyQ
    BY <1>1, <2>1, SameKeepsOrder
  <2>2. ASSUME NEW c \in Cores, HandleYield(c) PROVE OrderKept
    <3>1. /\ prev[c] # None /\ why[prev[c]] = "yield" /\ Schedule(prev[c])
          /\ prev[c] \in TCBs /\ pc[prev[c]] = "leaving"
      BY <1>1, <2>2 DEF HandleYield, SwitchInv, TypeOK, StackInv
    <3>2. prev[c] \in Threads
      BY <1>1, <3>1 DEF SwitchInv, IdleInv, IdleStops, TCBs
    <3> QED BY <1>1, <3>1, <3>2, ScheduleKeepsOrder
  <2>3. ASSUME NEW c \in Cores, WakeWaiter(c) PROVE OrderKept
    <3>1. pc[stack[c]] = "wake" /\ Schedule(hand[stack[c]]) /\ stack[c] \in TCBs
      BY <1>1, <2>3 DEF WakeWaiter, At, SwitchInv, TypeOK
    <3>2. hand[stack[c]] \in Threads /\ pc[hand[stack[c]]] = "woken"
      BY <1>1, <3>1 DEF SwitchInv, HandInv, TypeOK
    <3> QED BY <1>1, <3>1, <3>2, ScheduleKeepsOrder
  <2>4. ASSUME NEW c \in Cores, Spawn(c) PROVE OrderKept
    <3>1. /\ pc[stack[c]] = "spawn" /\ stack[c] \in TCBs
          /\ Schedule(children[stack[c]][slot[stack[c]]])
      BY <1>1, <2>4 DEF Spawn, At, SwitchInv, TypeOK
    <3>2. stack[c] \in Threads
      BY <1>1, <3>1 DEF SwitchInv, IdleInv, IdleStops, Blocking, TCBs
    <3>3. /\ children[stack[c]][slot[stack[c]]] \in Threads
          /\ pc[children[stack[c]][slot[stack[c]]]] = "made"
      BY <1>1, <3>1, <3>2 DEF SwitchInv, CallInv, TypeOK, Spawning
    <3> QED BY <1>1, <3>1, <3>3, ScheduleKeepsOrder
  <2>5. ASSUME NEW c \in Cores, RemoveNext(c) PROVE OrderKept
    BY <1>1, <2>5, RemoveKeepsOrder DEF RemoveNext
  <2>6. ASSUME NEW c \in Cores,
               \/ Monitor(c) \/ RemoveReturn(c) \/ RemoveNone(c) \/ MonitorWake(c)
               \/ Commit(c) \/ Switch(c) \/ HandleStop(c) \/ HandleDown(c) \/ TimerWake(c)
               \/ Tick(c)
        PROVE  readyQ' = readyQ
    BY ONLY <2>6, Zenon DEF Monitor, RemoveReturn, RemoveNone, MonitorWake, Commit, Switch,
            HandleStop, HandleDown, TimerWake, Tick
  <2>7. ASSUME NEW c \in Cores,
               \/ Unlock(c) \/ SetFuture(c) \/ SetUp(c) \/ Stop(c) \/ GetDown(c) \/ GetUp(c)
               \/ WaitDone(c) \/ ReaperLoop(c) \/ Reap(c) \/ Yield(c)
        PROVE  readyQ' = readyQ
    BY ONLY <2>7, Zenon DEF Unlock, SetFuture, SetUp, Stop, GetDown, GetUp, WaitDone,
            ReaperLoop, Reap, Yield, Up, Down
  <2>8. ASSUME NEW c \in Cores, SystemCall(c) PROVE readyQ' = readyQ
    BY ONLY <2>8, Zenon DEF SystemCall, Lock, Fork, ForkFails, Exit, Wait, Disown, Kill, Down
  <2> QED BY <1>1, <2>1, <2>2, <2>3, <2>4, <2>5, <2>6, <2>7, <2>8
          DEF Next, SwitchStep, KernelStep
<1>2. SwitchInv /\ ReadySorted /\ [Next]_vars => [OrderKept]_vars
  BY <1>1
<1> QED BY <1>2, SwitchCorrect, SortedCorrect, PTL DEF Spec, NoOvertaking

-----------------------------------------------------------------------------
(* Queues keep whom they do not give away.                                 *)
LEMMA AddLinks ==
  ASSUME NEW S, NEW q \in Seq(S), NEW rt \in [S -> Nat], NEW w \in S
  PROVE  /\ Linked(Add(q, rt, w), w)
         /\ \A t : Linked(q, t) => Linked(Add(q, rt, w), t)
<1> DEFINE a == Add(q, rt, w)
           p == Position(q, rt, w)
<1>1. Len(q) \in Nat
  OBVIOUS
<1>2. /\ p \in 1..(Len(q) + 1)
      /\ a \in Seq(S)
      /\ Len(a) = Len(q) + 1
      /\ \A k \in 1..Len(a) :
           /\ k < p => k \in 1..Len(q) /\ a[k] = q[k]
           /\ k = p => a[k] = w
           /\ k > p => k - 1 \in 1..Len(q) /\ a[k] = q[k - 1]
  BY AddShape
<1> HIDE DEF a, p
<1>3. p \in 1..Len(a) /\ a[p] = w
  BY <1>2
<1>4. ASSUME NEW i \in 1..Len(q) PROVE \E k \in 1..Len(a) : a[k] = q[i]
  <2>1. CASE i < p
    <3>1. i \in 1..Len(a) /\ a[i] = q[i]
      BY <1>1, <1>2, <2>1
    <3> QED BY <3>1
  <2>2. CASE ~(i < p)
    <3>1. i + 1 \in 1..Len(a) /\ i + 1 > p /\ (i + 1) - 1 = i
      BY <1>1, <1>2, <2>2
    <3>2. a[i + 1] = q[i]
      BY <1>2, <3>1
    <3> QED BY <3>1, <3>2
  <2> QED BY <2>1, <2>2
<1>5. Linked(a, w) /\ \A t : Linked(q, t) => Linked(a, t)
  BY <1>3, <1>4 DEF Linked
<1> QED BY <1>5 DEF a

LEMMA AppendLinks ==
  ASSUME NEW S, NEW q \in Seq(S), NEW w \in S
  PROVE  /\ Linked(Append(q, w), w)
         /\ \A t : Linked(q, t) => Linked(Append(q, w), t)
<1>1. /\ Len(q) \in Nat /\ Len(Append(q, w)) = Len(q) + 1
      /\ Append(q, w)[Len(q) + 1] = w
      /\ \A i \in 1..Len(q) : Append(q, w)[i] = q[i]
  OBVIOUS
<1>2. /\ Len(q) + 1 \in 1..Len(Append(q, w))
      /\ \A i \in 1..Len(q) : i \in 1..Len(Append(q, w))
  BY <1>1
<1> QED BY ONLY <1>1, <1>2, Zenon DEF Linked

LEMMA TailLinks ==
  ASSUME NEW S, NEW q \in Seq(S), q # << >>
  PROVE  \A t : t # Head(q) /\ Linked(q, t) => Linked(Tail(q), t)
<1>1. /\ Len(q) \in Nat /\ Len(q) > 0 /\ Len(Tail(q)) = Len(q) - 1 /\ Head(q) = q[1]
      /\ \A k \in 1..Len(Tail(q)) : k + 1 \in 1..Len(q) /\ Tail(q)[k] = q[k + 1]
  BY TailEntries
<1>2. ASSUME NEW i \in 1..Len(q), q[i] # Head(q) PROVE \E k \in 1..Len(Tail(q)) : Tail(q)[k] = q[i]
  <2>1. i # 1
    BY <1>1, <1>2
  <2>2. i - 1 \in 1..Len(Tail(q)) /\ (i - 1) + 1 = i
    BY <1>1, <2>1
  <2>3. Tail(q)[i - 1] = q[i]
    BY <1>1, <2>2
  <2> QED BY <2>2, <2>3
<1> QED BY ONLY <1>2, Zenon DEF Linked

(* A thread that stays where it is, at a place that does not give it away. *)
LEMMA StaysFound ==
  ASSUME NEW t, Found(t), pc'[t] = pc[t], why'[t] = why[t],
         (\E c \in Cores : stack[c] = t) => (\E c \in Cores : stack'[c] = t),
         (\E c \in Cores : chosen[c] = t) => (\E c \in Cores : chosen'[c] = t),
         (\E c \in Cores : prev[c] = t) => (\E c \in Cores : prev'[c] = t),
         Linked(readyQ, t) => Linked(readyQ', t),
         Linked(zombies, t) => Linked(zombies', t),
         Linked(waiting[why[t]], t) => Linked(waiting'[why[t]], t),
         (\E u \in TCBs : hand[u] = t) => (\E u \in TCBs : hand'[u] = t) \/ Killable # {}
  PROVE  Found(t)'
<1>1. /\ pc[t] \in OnCpu => \E c \in Cores : stack'[c] = t
      /\ pc[t] = "picked" => \E c \in Cores : chosen'[c] = t
      /\ pc[t] = "leaving" => \E c \in Cores : prev'[c] = t
      /\ pc[t] = "ready" => Linked(readyQ', t)
      /\ pc[t] = "zombie" => Linked(zombies', t)
      /\ pc[t] = "waiting" => why[t] \in Sems /\ Linked(waiting'[why[t]], t)
      /\ pc[t] = "woken" => (\E u \in TCBs : hand'[u] = t) \/ Killable # {}
      /\ pc[t] # "parked"
  BY DEF Found
<1>2. Linked(waiting[why[t]], t)' = Linked(waiting'[why'[t]], t)
  BY DEF Linked
<1> QED BY <1>1, <1>2 DEF Found, Linked

LEMMA OnCpuFound ==
  ASSUME NEW t, pc'[t] \in OnCpu, \E c \in Cores : stack'[c] = t
  PROVE  Found(t)'
BY Points DEF Found

(* A thread goes on, on its core.                                          *)
LEMMA GoesOnFound ==
  ASSUME SwitchInv, FoundInv, NEW c \in Cores, NEW me \in TCBs, me = stack[c],
         pc'[me] \in OnCpu,
         \A t \in TCBs \ {me} : pc'[t] = pc[t] /\ why'[t] = why[t],
         stack' = stack, prev' = prev, readyQ' = readyQ, zombies' = zombies, waiting' = waiting,
         \A d \in Cores : chosen[d] # None => chosen'[d] = chosen[d],
         hand' = hand \/ Killable # {}
  PROVE  FoundInv'
<1>1. ASSUME NEW t \in Threads, t # me PROVE Found(t)'
  <2>1. t \in TCBs /\ t # None /\ Found(t)
    BY Names DEF FoundInv
  <2>2. (\E d \in Cores : chosen[d] = t) => (\E d \in Cores : chosen'[d] = t)
    BY <2>1
  <2> QED BY <1>1, <2>1, <2>2, StaysFound
<1>2. ASSUME me \in Threads PROVE Found(me)'
  BY OnCpuFound
<1> QED BY <1>1, <1>2 DEF FoundInv

LEMMA CoreFound ==
  ASSUME SwitchInv, SemInv, FoundInv, NEW c \in Cores,
         \/ Monitor(c) \/ MonitorWake(c) \/ TimerWake(c) \/ Commit(c) \/ RemoveReturn(c)
         \/ RemoveNone(c) \/ SetFuture(c) \/ Stop(c) \/ Yield(c) \/ WaitDone(c)
         \/ ReaperLoop(c) \/ GetDown(c) \/ (\E l \in Locks : Lock(c, l)) \/ ForkFails(c)
         \/ Exit(c) \/ (\E i \in Slots : Wait(c, i) \/ Disown(c, i) \/ Kill(c, i)) \/ Tick(c)
  PROVE  FoundInv'
<1>1. PICK me \in TCBs : me = stack[c]
  BY DEF SwitchInv, TypeOK
<1>2. /\ pc \in [TCBs -> PCs] /\ why \in [TCBs -> {"yield", "stop"} \union Sems]
      /\ pc[me] \in OnCpu /\ resume[me] \in OnCpu
      /\ chosen \in [Cores -> TCBs \union {None}]
      /\ {"block", "remove", "switch", "commit", "mwait", "set", "panic", "run", "reap",
          "locked", "got", "setting", "waited", "get"} \subseteq OnCpu
  <2>1. resume[me] \in Working /\ pc[me] \in OnCpu
    BY <1>1 DEF SwitchInv, TypeOK, StackInv
  <2> QED BY <2>1 DEF SwitchInv, TypeOK, OnCpu, Working, Blocking
<1>3. CASE Monitor(c) \/ MonitorWake(c) \/ TimerWake(c) \/ Commit(c) \/ RemoveReturn(c)
  <2>1. /\ \E p \in {"remove", "block", "switch", resume[me]} : pc' = [pc EXCEPT ![me] = p]
        /\ why' = why \/ why' = [why EXCEPT ![me] = "stop"]
        /\ stack' = stack /\ prev' = prev /\ chosen' = chosen /\ hand' = hand
        /\ readyQ' = readyQ /\ zombies' = zombies /\ waiting' = waiting
    BY <1>1, <1>3 DEF Monitor, MonitorWake, TimerWake, Commit, RemoveReturn, Continue, Goto,
                      cpuVars, tcbVars, semVars
  <2>2. pc'[me] \in OnCpu /\ \A t \in TCBs \ {me} : pc'[t] = pc[t] /\ why'[t] = why[t]
    BY <1>2, <2>1
  <2> QED BY <1>1, <2>1, <2>2, GoesOnFound
<1>4. CASE RemoveNone(c)
  <2>1. /\ \E p \in {"mwait", "commit"} : pc' = [pc EXCEPT ![me] = p]
        /\ why' = why /\ pc[me] = "remove"
        /\ chosen' = chosen \/ chosen' = [chosen EXCEPT ![c] = c]
        /\ stack' = stack /\ prev' = prev /\ hand' = hand
        /\ readyQ' = readyQ /\ zombies' = zombies /\ waiting' = waiting
    BY <1>1, <1>4 DEF RemoveNone, At, Goto, tcbVars, semVars
  <2>2. pc'[me] \in OnCpu /\ \A t \in TCBs \ {me} : pc'[t] = pc[t] /\ why'[t] = why[t]
    BY <1>2, <2>1
  <2>3. chosen[c] = None
    BY <1>1, <2>1 DEF SwitchInv, ChosenInv
  <2>4. \A d \in Cores : chosen[d] # None => chosen'[d] = chosen[d]
    BY <1>2, <2>1, <2>3
  <2> QED BY <1>1, <2>1, <2>2, <2>4, GoesOnFound
<1>5. CASE SetFuture(c) \/ Stop(c) \/ Yield(c) \/ WaitDone(c) \/ ReaperLoop(c)
  <2>1. /\ \E p \in {"set", "panic", "block", "run", "reap"} : pc' = [pc EXCEPT ![me] = p]
        /\ why' = why \/ \E r : why' = [why EXCEPT ![me] = r]
        /\ stack' = stack /\ prev' = prev /\ chosen' = chosen /\ hand' = hand
        /\ readyQ' = readyQ /\ zombies' = zombies /\ waiting' = waiting
    BY <1>1, <1>5 DEF SetFuture, Stop, Yield, WaitDone, ReaperLoop, Block, Goto,
                      cpuVars, tcbVars, semVars
  <2>2. pc'[me] \in OnCpu /\ \A t \in TCBs \ {me} : pc'[t] = pc[t] /\ why'[t] = why[t]
    BY <1>2, <2>1
  <2> QED BY <1>1, <2>1, <2>2, GoesOnFound
<1>6. CASE GetDown(c) \/ \E l \in Locks : Lock(c, l)
  <2>1. /\ \E p \in {"block", "locked", "got"} : pc' = [pc EXCEPT ![me] = p]
        /\ why' = why \/ \E r : why' = [why EXCEPT ![me] = r]
        /\ stack' = stack /\ prev' = prev /\ chosen' = chosen /\ hand' = hand
        /\ readyQ' = readyQ /\ zombies' = zombies /\ waiting' = waiting
    BY <1>1, <1>6 DEF GetDown, Lock, Down, Block, Goto, cpuVars
  <2>2. pc'[me] \in OnCpu /\ \A t \in TCBs \ {me} : pc'[t] = pc[t] /\ why'[t] = why[t]
    BY <1>2, <2>1
  <2> QED BY <1>1, <2>1, <2>2, GoesOnFound
<1>7. CASE ForkFails(c) \/ Exit(c) \/ \E i \in Slots : Wait(c, i) \/ Disown(c, i) \/ Kill(c, i)
  <2>1. /\ \/ pc' = pc
           \/ \E p \in {"reap", "setting", "waited", "get"} : pc' = [pc EXCEPT ![me] = p]
        /\ why' = why
        /\ stack' = stack /\ prev' = prev /\ chosen' = chosen /\ hand' = hand
        /\ readyQ' = readyQ /\ zombies' = zombies /\ waiting' = waiting
    BY <1>1, <1>7 DEF ForkFails, Exit, Wait, Disown, Kill, Goto, cpuVars, tcbVars, semVars
  <2>2. pc'[me] \in OnCpu /\ \A t \in TCBs \ {me} : pc'[t] = pc[t] /\ why'[t] = why[t]
    BY <1>2, <2>1
  <2> QED BY <1>1, <2>1, <2>2, GoesOnFound
<1>8. CASE Tick(c)
  <2>1. /\ active[c] \notin Cores /\ ~noPreempt[active[c]]
        /\ stack' = stack /\ prev' = prev /\ chosen' = chosen
        /\ readyQ' = readyQ /\ zombies' = zombies /\ waiting' = waiting
        /\ \E p \in {"block", "setting"} : pc' = [pc EXCEPT ![active[c]] = p]
        /\ why' = why \/ why' = [why EXCEPT ![active[c]] = "yield"]
        /\ ~killFlag[active[c]] => hand' = hand
    BY <1>8 DEF Tick, Block, Goto, cpuVars, semVars
  <2>2. active[c] = me /\ me \in Threads
    BY <1>1, <2>1 DEF SwitchInv, ActiveInv, TypeOK, TCBs
  <2>3. hand' = hand \/ Killable # {}
    BY <2>1, <2>2 DEF SemInv, KilledInv
  <2>4. pc'[me] \in OnCpu /\ \A t \in TCBs \ {me} : pc'[t] = pc[t] /\ why'[t] = why[t]
    BY <1>2, <2>1, <2>2
  <2> QED BY <1>1, <2>1, <2>3, <2>4, GoesOnFound
<1> QED BY <1>3, <1>4, <1>5, <1>6, <1>7, <1>8

(* A thread on a core goes on, another one is moved, or made.              *)
LEMMA MovesFound ==
  ASSUME SwitchInv, FoundInv, NEW c \in Cores, NEW me \in TCBs, me = stack[c],
         NEW w \in TCBs, pc'[me] \in OnCpu, w \in Threads => Found(w)',
         \A t \in TCBs : t # me /\ t # w => pc'[t] = pc[t] /\ why'[t] = why[t],
         stack' = stack,
         \A t \in Threads : t # me /\ t # w =>
           /\ (\E d \in Cores : chosen[d] = t) => (\E d \in Cores : chosen'[d] = t)
           /\ (\E d \in Cores : prev[d] = t) => (\E d \in Cores : prev'[d] = t)
           /\ Linked(readyQ, t) => Linked(readyQ', t)
           /\ Linked(zombies, t) => Linked(zombies', t)
           /\ Linked(waiting[why[t]], t) => Linked(waiting'[why[t]], t)
           /\ (\E u \in TCBs : hand[u] = t) => (\E u \in TCBs : hand'[u] = t)
  PROVE  FoundInv'
<1>1. ASSUME NEW t \in Threads, t # me, t # w PROVE Found(t)'
  <2>1. t \in TCBs /\ Found(t)
    BY Names DEF FoundInv
  <2> QED BY <1>1, <2>1, StaysFound
<1>2. ASSUME me \in Threads PROVE Found(me)'
  BY OnCpuFound
<1> QED BY <1>1, <1>2 DEF FoundInv

-----------------------------------------------------------------------------
(* Only up() has a waiter in its hand.                                     *)
LEMMA BusyKept ==
  ASSUME HandsBusy, NEW me \in TCBs,
         \A t \in TCBs \ {me} : /\ hand'[t] = hand[t] /\ resume'[t] = resume[t]
                                /\ pc'[t] = pc[t] \/ pc[t] # "wake",
         hand'[me] # None => "wake" \in {pc'[me], resume'[me]}
  PROVE  HandsBusy'
BY DEF HandsBusy

LEMMA FreeHand ==
  ASSUME SwitchInv, HandsBusy, NEW me \in TCBs, pc[me] \in Working \ {"wake"}
  PROVE  hand[me] = None
BY DEF SwitchInv, CallInv, HandsBusy

LEMMA CoreBusy ==
  ASSUME SwitchInv, HandsBusy, NEW c \in Cores,
         \/ Monitor(c) \/ MonitorWake(c) \/ TimerWake(c) \/ Commit(c) \/ RemoveReturn(c)
         \/ RemoveNone(c) \/ RemoveNext(c) \/ Switch(c)
         \/ HandleYield(c) \/ HandleStop(c) \/ HandleDown(c)
  PROVE  HandsBusy'
<1>1. PICK me \in TCBs : me = stack[c]
  BY DEF SwitchInv, TypeOK
<1>2. /\ pc \in [TCBs -> PCs] /\ resume \in [TCBs -> Working]
      /\ hand[me] # None => "wake" \in {pc[me], resume[me]}
  BY DEF SwitchInv, TypeOK, HandsBusy
<1>3. CASE Monitor(c) \/ MonitorWake(c) \/ TimerWake(c) \/ Commit(c) \/ RemoveNone(c)
  <2>1. /\ pc[me] # "wake" /\ \E p : pc' = [pc EXCEPT ![me] = p]
        /\ resume' = resume /\ hand' = hand
    BY <1>1, <1>3 DEF Monitor, MonitorWake, TimerWake, Commit, RemoveNone, At, Goto, tcbVars
  <2> QED BY <1>2, <2>1, BusyKept
<1>4. CASE RemoveReturn(c)
  <2>1. /\ pc[me] = "remove" /\ pc' = [pc EXCEPT ![me] = resume[me]]
        /\ resume' = [resume EXCEPT ![me] = "run"] /\ hand' = hand
    BY <1>1, <1>4 DEF RemoveReturn, At, Continue
  <2> QED BY <1>2, <2>1, BusyKept
<1>5. CASE RemoveNext(c)
  <2>1. PICK w : w = Head(readyQ)
    OBVIOUS
  <2>2. /\ pc[me] = "remove" /\ readyQ # << >> /\ readyQ \in Seq(Threads)
        /\ pc' = [pc EXCEPT ![me] = "commit", ![w] = "picked"]
        /\ resume' = resume /\ hand' = hand
    BY <1>1, <1>5, <2>1 DEF RemoveNext, At, tcbVars, SwitchInv, TypeOK
  <2>3. w \in TCBs /\ pc[w] = "ready"
    <3>1. 1 \in 1..Len(readyQ) /\ w = readyQ[1] /\ w \in Threads
      BY <2>1, <2>2
    <3> QED BY <3>1, Names DEF SwitchInv, QueueInv, Keeps
  <2> QED BY <1>2, <2>2, <2>3, BusyKept
<1>6. CASE Switch(c)
  <2>1. PICK w : w = chosen[c]
    OBVIOUS
  <2>2. /\ pc[me] = "switch" /\ pc' = [pc EXCEPT ![me] = "leaving", ![w] = "landing"]
        /\ resume' = resume /\ hand' = hand
    BY <1>1, <1>6, <2>1 DEF Switch, At
  <2>3. w \in TCBs /\ pc[w] \in {"picked", "parked"}
    BY <1>1, <2>1, <2>2 DEF SwitchInv, ChosenInv, TypeOK, TCBs
  <2> QED BY <1>2, <2>2, <2>3, BusyKept
<1>7. CASE HandleYield(c) \/ HandleStop(c) \/ HandleDown(c)
  <2>1. PICK w : w = prev[c]
    OBVIOUS
  <2>2. /\ w # None
        /\ \E kept : pc' = [pc EXCEPT ![w] = kept, ![me] = resume[me]]
        /\ resume' = [resume EXCEPT ![me] = "run"] /\ hand' = hand
    BY <1>1, <1>7, <2>1 DEF HandleYield, HandleStop, HandleDown, Arrive, Continue
  <2>3. w \in TCBs /\ pc[w] = "leaving" /\ pc[me] = "landing"
    BY <1>1, <2>1, <2>2 DEF SwitchInv, StackInv, TypeOK
  <2>4. /\ pc'[me] = resume[me]
        /\ \A t \in TCBs \ {me} : resume'[t] = resume[t] /\ (pc'[t] = pc[t] \/ pc[t] # "wake")
    BY <1>2, <2>2, <2>3
  <2> QED BY <1>2, <2>2, <2>3, <2>4, BusyKept
<1> QED BY <1>3, <1>4, <1>5, <1>6, <1>7

LEMMA ThreadBusy ==
  ASSUME SwitchInv, HandsBusy, NEW c \in Cores, KernelStep(c) \/ SystemCall(c) \/ Tick(c)
  PROVE  HandsBusy'
<1>1. PICK me \in TCBs : me = stack[c]
  BY DEF SwitchInv, TypeOK
<1>2. /\ pc \in [TCBs -> PCs] /\ resume \in [TCBs -> Working]
      /\ hand \in [TCBs -> Threads \union {None}]
      /\ pc[me] \in Working \ {"wake"} => hand[me] = None
  BY FreeHand DEF SwitchInv, TypeOK
<1>3. CASE SetFuture(c) \/ Stop(c) \/ Yield(c) \/ WaitDone(c) \/ ReaperLoop(c)
  <2>1. /\ pc[me] \in {"setting", "stop", "yield", "waited", "run"}
        /\ \E p : pc' = [pc EXCEPT ![me] = p]
        /\ resume' = resume \/ \E r : resume' = [resume EXCEPT ![me] = r]
        /\ hand' = hand
    BY <1>1, <1>3 DEF SetFuture, Stop, Yield, WaitDone, ReaperLoop, At, Block, Goto, tcbVars
  <2>2. hand[me] = None
    BY <1>2, <2>1 DEF Working
  <2> QED BY <1>2, <2>1, <2>2, BusyKept
<1>4. CASE GetDown(c) \/ \E l \in Locks : Lock(c, l)
  <2>1. /\ pc[me] \in {"get", "run"}
        /\ \E p : pc' = [pc EXCEPT ![me] = p]
        /\ resume' = resume \/ \E r : resume' = [resume EXCEPT ![me] = r]
        /\ hand' = hand
    BY <1>1, <1>4 DEF GetDown, Lock, InProcess, At, Down, Block, Goto
  <2>2. hand[me] = None
    BY <1>2, <2>1 DEF Working
  <2> QED BY <1>2, <2>1, <2>2, BusyKept
<1>5. CASE ForkFails(c) \/ Exit(c) \/ \E i \in Slots : Wait(c, i) \/ Disown(c, i) \/ Kill(c, i)
  <2>1. /\ pc[me] = "run"
        /\ pc' = pc \/ \E p : pc' = [pc EXCEPT ![me] = p]
        /\ resume' = resume /\ hand' = hand
    BY <1>1, <1>5 DEF ForkFails, Exit, Wait, Disown, Kill, InProcess, At, Goto, tcbVars
  <2>2. hand[me] = None
    BY <1>2, <2>1 DEF Working
  <2> QED BY <1>2, <2>1, <2>2, BusyKept
<1>6. CASE \E u \in Threads : Fork(c, u)
  <2>1. PICK u \in Threads : Fork(c, u)
    BY <1>6
  <2>2. /\ pc[me] = "run" /\ pc[u] = "new" /\ pc' = [pc EXCEPT ![me] = "reap", ![u] = "made"]
        /\ resume' = resume /\ hand' = hand
    BY <1>1, <2>1 DEF Fork, InProcess, At
  <2>3. hand[me] = None
    BY <1>2, <2>2 DEF Working
  <2> QED BY <1>2, <2>2, <2>3, BusyKept
<1>7. CASE Reap(c)
  <2>1. /\ pc[me] = "reap" /\ resume' = resume /\ hand' = hand
        /\ \/ zombies # << >> /\ pc' = [pc EXCEPT ![Head(zombies)] = "dead"]
           \/ pc' = [pc EXCEPT ![me] = ret[me]]
    BY <1>1, <1>7 DEF Reap, At, Goto
  <2>2. hand[me] = None
    BY <1>2, <2>1 DEF Working
  <2>3. zombies # << >> => pc[Head(zombies)] = "zombie"
    <3>1. zombies \in Seq(Threads) /\ Keeps(zombies, "zombie")
      BY DEF SwitchInv, TypeOK, QueueInv
    <3>2. zombies # << >> => 1 \in 1..Len(zombies) /\ Head(zombies) = zombies[1]
      BY <3>1
    <3> QED BY <3>1, <3>2 DEF Keeps
  <2> QED BY <1>2, <2>1, <2>2, <2>3, BusyKept
<1>8. CASE Unlock(c) \/ SetUp(c) \/ GetUp(c)
  <2>1. /\ pc[me] \in {"locked", "set", "got"} /\ resume' = resume
        /\ \/ (\E p : pc' = [pc EXCEPT ![me] = p]) /\ hand' = hand
           \/ \E w : /\ pc' = [pc EXCEPT ![me] = "wake", ![w] = "woken"]
                     /\ hand' = [hand EXCEPT ![me] = w]
                     /\ \E s : s \in Sems /\ waiting[s] # << >> /\ w = Head(waiting[s])
    <3>1. PICK s, back : Up(me, s, back) /\ pc[me] \in {"locked", "set", "got"} /\ s \in Sems
      <4>1. CASE Unlock(c)
        <5>1. pc[me] = "locked" /\ me \in Threads /\ Up(me, lockOf[me], "run")
          BY <1>1, <4>1 DEF Unlock, InProcess, At
        <5>2. lockOf[me] \in Sems
          BY <5>1, Names DEF SwitchInv, TypeOK, CallInv
        <5> QED BY <5>1, <5>2
      <4>2. CASE SetUp(c)
        <5>1. pc[me] = "set" /\ prev[c] = None /\ Up(me, me, "stop")
          BY <1>1, <4>2 DEF SetUp, At
        <5>2. me \in Sems
          BY <1>1, <5>1, Running, Names DEF Blocking
        <5> QED BY <5>1, <5>2
      <4>3. CASE GetUp(c)
        <5>1. pc[me] = "got" /\ prev[c] = None /\ Up(me, children[me][slot[me]], "waited")
          BY <1>1, <4>3 DEF GetUp, At
        <5>2. me \in Threads
          BY <1>1, <5>1, Running DEF Blocking
        <5>3. slot[me] \in Slots /\ children[me][slot[me]] # None
          BY <5>1, <5>2 DEF SwitchInv, CallInv
        <5>4. children[me][slot[me]] \in Sems
          BY <5>2, <5>3, Names DEF SwitchInv, TypeOK
        <5> QED BY <5>1, <5>4
      <4> QED BY <1>8, <4>1, <4>2, <4>3
    <3> QED BY <3>1 DEF Up, Goto
  <2>2. hand[me] = None
    BY <1>2, <2>1 DEF Working
  <2>3. CASE (\E p : pc' = [pc EXCEPT ![me] = p]) /\ hand' = hand
    BY <1>2, <2>1, <2>2, <2>3, BusyKept
  <2>4. ASSUME NEW w, pc' = [pc EXCEPT ![me] = "wake", ![w] = "woken"],
               hand' = [hand EXCEPT ![me] = w], NEW s \in Sems, waiting[s] # << >>,
               w = Head(waiting[s])
        PROVE  HandsBusy'
    <3>1. waiting[s] \in Seq(Threads) /\ Keeps(waiting[s], "waiting")
      BY DEF SwitchInv, TypeOK, QueueInv
    <3>2. 1 \in 1..Len(waiting[s]) /\ w = waiting[s][1]
      BY <2>4, <3>1
    <3>3. pc[w] = "waiting" /\ w # me
      BY <2>1, <3>1, <3>2 DEF Keeps
    <3> QED BY <1>2, <2>1, <2>4, <3>3, BusyKept
  <2> QED BY <2>1, <2>3, <2>4
<1>9. CASE WakeWaiter(c) \/ Spawn(c)
  <2>1. PICK w : w = IF pc[me] = "wake" THEN hand[me] ELSE children[me][slot[me]]
    OBVIOUS
  <2>2. /\ \E p : pc' = [pc EXCEPT ![me] = p, ![w] = "ready"]
        /\ resume' = resume /\ prev[c] = None
        /\ \/ pc[me] = "wake" /\ hand' = [hand EXCEPT ![me] = None]
           \/ pc[me] = "spawn" /\ hand' = hand
    <3>1. CASE WakeWaiter(c)
      <4>1. /\ pc[me] = "wake" /\ prev[c] = None /\ w = hand[me]
            /\ pc' = [pc EXCEPT ![me] = ret[me], ![hand[me]] = "ready"]
            /\ resume' = resume /\ hand' = [hand EXCEPT ![me] = None]
        BY <1>1, <2>1, <3>1 DEF WakeWaiter, At
      <4> QED BY <4>1
    <3>2. CASE Spawn(c)
      <4>1. /\ pc[me] = "spawn" /\ prev[c] = None /\ w = children[me][slot[me]]
            /\ pc' = [pc EXCEPT ![me] = "run", ![children[me][slot[me]]] = "ready"]
            /\ resume' = resume /\ hand' = hand
        BY <1>1, <2>1, <3>2 DEF Spawn, At, tcbVars
      <4> QED BY <4>1
    <3> QED BY <1>9, <3>1, <3>2
  <2>3. hand'[me] = None /\ \A t \in TCBs \ {me} : hand'[t] = hand[t]
    BY <1>2, <2>2 DEF Working
  <2>4. pc[w] # "wake"
    <3>1. CASE pc[me] = "wake"
      BY <2>1, <3>1 DEF SwitchInv, HandInv
    <3>2. CASE pc[me] = "spawn"
      <4>1. me \in Threads
        BY <1>1, <2>2, <3>2, Running DEF Blocking
      <4> QED BY <2>1, <3>2, <4>1 DEF SwitchInv, CallInv, Spawning
    <3> QED BY <2>2, <3>1, <3>2
  <2> QED BY <1>2, <2>2, <2>3, <2>4, BusyKept
<1>10. CASE Tick(c)
  <2>1. /\ active[c] \notin Cores /\ ~noPreempt[active[c]] /\ prev[c] = None
        /\ pc[stack[c]] # "panic"
        /\ \/ /\ pc' = [pc EXCEPT ![active[c]] = "block"]
              /\ resume' = [resume EXCEPT ![active[c]] = pc[active[c]]] /\ hand' = hand
           \/ /\ pc' = [pc EXCEPT ![active[c]] = "setting"] /\ resume' = resume
              /\ hand' = [hand EXCEPT ![active[c]] = None]
    BY <1>10 DEF Tick, Block, Goto
  <2>2. active[c] = me /\ pc[me] \in Working
    BY <1>1, <2>1 DEF SwitchInv, ActiveInv, StackInv, OnCpu
  <2>3. hand[me] # None => pc[me] = "wake"
    BY <1>2, <2>2
  <2>4. /\ hand'[me] # None => "wake" \in {pc'[me], resume'[me]}
        /\ \A t \in TCBs \ {me} : hand'[t] = hand[t] /\ resume'[t] = resume[t] /\ pc'[t] = pc[t]
    BY <1>2, <2>1, <2>2, <2>3
  <2> QED BY <2>4, BusyKept
<1> QED BY <1>3, <1>4, <1>5, <1>6, <1>7, <1>8, <1>9, <1>10 DEF KernelStep, SystemCall

LEMMA NextBusy ==
  ASSUME SwitchInv, HandsBusy, [Next]_vars
  PROVE  HandsBusy'
<1>1. CASE UNCHANGED vars
  BY <1>1 DEF vars, tcbVars, HandsBusy
<1>2. CASE Next
  BY <1>2, CoreBusy, ThreadBusy DEF Next, SwitchStep
<1> QED BY <1>1, <1>2

-----------------------------------------------------------------------------
LEMMA RemoveNextFound ==
  ASSUME SwitchInv, FoundInv, NEW c \in Cores, RemoveNext(c)
  PROVE  FoundInv'
<1>1. PICK me \in TCBs : me = stack[c]
  BY DEF SwitchInv, TypeOK
<1>2. PICK w : w = Head(readyQ)
  OBVIOUS
<1>3. /\ pc[me] = "remove" /\ readyQ # << >> /\ readyQ \in Seq(Threads) /\ readyQ' = Tail(readyQ)
      /\ pc' = [pc EXCEPT ![me] = "commit", ![w] = "picked"]
      /\ chosen' = [chosen EXCEPT ![c] = w] /\ chosen \in [Cores -> TCBs \union {None}]
      /\ pc \in [TCBs -> PCs]
      /\ stack' = stack /\ prev' = prev /\ why' = why /\ hand' = hand
      /\ zombies' = zombies /\ waiting' = waiting
  BY <1>1, <1>2 DEF RemoveNext, At, tcbVars, semVars, SwitchInv, TypeOK
<1>4. w \in TCBs /\ w \in Threads /\ pc[w] = "ready"
  <2>1. 1 \in 1..Len(readyQ) /\ w = readyQ[1] /\ w \in Threads
    BY <1>2, <1>3
  <2> QED BY <2>1, Names DEF SwitchInv, QueueInv, Keeps
<1>5. /\ pc'[me] = "commit" /\ pc'[w] = "picked" /\ chosen'[c] = w
      /\ \A t \in TCBs : t # me /\ t # w => pc'[t] = pc[t] /\ why'[t] = why[t]
  BY <1>3, <1>4
<1>6. Found(w)'
  BY <1>5, Points DEF Found
<1>7. chosen[c] = None
  BY <1>1, <1>3 DEF SwitchInv, ChosenInv
<1>8. \A t \in Threads : t # w =>
        /\ (\E d \in Cores : chosen[d] = t) => (\E d \in Cores : chosen'[d] = t)
        /\ Linked(readyQ, t) => Linked(readyQ', t)
  BY <1>2, <1>3, <1>7, TailLinks, Names
<1>9. pc'[me] \in OnCpu
  BY <1>5 DEF OnCpu, Blocking
<1>10. \A t \in Threads : t # me /\ t # w =>
         /\ (\E d \in Cores : chosen[d] = t) => (\E d \in Cores : chosen'[d] = t)
         /\ (\E d \in Cores : prev[d] = t) => (\E d \in Cores : prev'[d] = t)
         /\ Linked(readyQ, t) => Linked(readyQ', t)
         /\ Linked(zombies, t) => Linked(zombies', t)
         /\ Linked(waiting[why[t]], t) => Linked(waiting'[why[t]], t)
         /\ (\E u \in TCBs : hand[u] = t) => (\E u \in TCBs : hand'[u] = t)
  BY <1>3, <1>8
<1> QED BY <1>1, <1>3, <1>4, <1>5, <1>6, <1>9, <1>10, MovesFound

LEMMA SwitchFound ==
  ASSUME SwitchInv, FoundInv, NEW c \in Cores, Switch(c)
  PROVE  FoundInv'
<1>1. PICK me \in TCBs : me = stack[c]
  BY DEF SwitchInv, TypeOK
<1>2. PICK w : w = chosen[c]
  OBVIOUS
<1>3. /\ pc[me] = "switch" /\ pc' = [pc EXCEPT ![me] = "leaving", ![w] = "landing"]
      /\ stack' = [stack EXCEPT ![c] = w] /\ prev' = [prev EXCEPT ![c] = me]
      /\ chosen' = [chosen EXCEPT ![c] = None] /\ prev[c] = None
      /\ why' = why /\ hand' = hand /\ readyQ' = readyQ /\ zombies' = zombies
      /\ waiting' = waiting
      /\ pc \in [TCBs -> PCs] /\ stack \in [Cores -> TCBs]
      /\ prev \in [Cores -> TCBs \union {None}] /\ chosen \in [Cores -> TCBs \union {None}]
  BY <1>1, <1>2 DEF Switch, At, semVars, SwitchInv, TypeOK
<1>4. w \in TCBs /\ pc[w] \in {"picked", "parked"}
  BY <1>1, <1>2, <1>3 DEF SwitchInv, ChosenInv, TypeOK, TCBs
<1>5. /\ me # w /\ pc'[me] = "leaving" /\ pc'[w] = "landing" /\ stack'[c] = w /\ prev'[c] = me
      /\ \A t \in TCBs : t # me /\ t # w => pc'[t] = pc[t]
  BY <1>3, <1>4
<1>6. ASSUME NEW t \in Threads, t # me, t # w PROVE Found(t)'
  <2>1. t \in TCBs /\ Found(t) /\ t # None
    BY Names DEF FoundInv
  <2>2. /\ (\E d \in Cores : stack[d] = t) => (\E d \in Cores : stack'[d] = t)
        /\ (\E d \in Cores : chosen[d] = t) => (\E d \in Cores : chosen'[d] = t)
        /\ (\E d \in Cores : prev[d] = t) => (\E d \in Cores : prev'[d] = t)
    BY <1>1, <1>2, <1>3, <1>6, <2>1
  <2> QED BY <1>3, <1>5, <1>6, <2>1, <2>2, StaysFound
<1>7. Found(me)'
  BY <1>5, Points DEF Found
<1>8. Found(w)'
  BY <1>5, Points, OnCpuFound
<1> QED BY <1>6, <1>7, <1>8 DEF FoundInv

LEMMA HandleFound ==
  ASSUME SwitchInv, FoundInv, NEW c \in Cores, HandleYield(c) \/ HandleStop(c) \/ HandleDown(c)
  PROVE  FoundInv'
<1>1. PICK me \in TCBs : me = stack[c]
  BY DEF SwitchInv, TypeOK
<1>2. PICK w : w = prev[c]
  OBVIOUS
<1>3. PICK kept \in {"ready", "zombie", "waiting", "parked"} :
        /\ w # None /\ pc' = [pc EXCEPT ![w] = kept, ![me] = resume[me]]
        /\ why' = [why EXCEPT ![me] = "stop"]
        /\ prev' = [prev EXCEPT ![c] = None] /\ stack' = stack /\ chosen' = chosen /\ hand' = hand
        /\ \/ /\ kept = "ready" /\ Schedule(w) /\ zombies' = zombies /\ waiting' = waiting
              /\ why[w] = "yield"
           \/ /\ kept = "parked" /\ w \in Cores
              /\ readyQ' = readyQ /\ zombies' = zombies /\ waiting' = waiting
           \/ /\ kept = "zombie" /\ w \notin Cores /\ zombies' = Append(zombies, w)
              /\ readyQ' = readyQ /\ waiting' = waiting
           \/ /\ kept = "waiting" /\ why[w] \in Sems
              /\ waiting' = [waiting EXCEPT ![why[w]] = Append(@, w)]
              /\ readyQ' = readyQ /\ zombies' = zombies
  <2>1. CASE HandleYield(c)
    BY <1>1, <1>2, <2>1 DEF HandleYield, Arrive, Continue, semVars
  <2>2. CASE HandleStop(c)
    BY <1>1, <1>2, <2>2 DEF HandleStop, Arrive, Continue, semVars
  <2>3. CASE HandleDown(c)
    BY <1>1, <1>2, <2>3 DEF HandleDown, Arrive, Continue
  <2> QED BY <2>1, <2>2, <2>3
<1>4. /\ w \in TCBs /\ pc[w] = "leaving" /\ pc[me] = "landing"
      /\ pc \in [TCBs -> PCs] /\ resume \in [TCBs -> Working]
      /\ why \in [TCBs -> {"yield", "stop"} \union Sems] /\ prev \in [Cores -> TCBs \union {None}]
      /\ readyQ \in Seq(Threads) /\ zombies \in Seq(Threads) /\ waiting \in [Sems -> Seq(Threads)]
      /\ runTime \in [Threads -> Nat]
  <2>1. runTime \in [Threads -> 0..MaxRunTime]
    BY DEF SwitchInv, TypeOK
  <2>2. runTime \in [Threads -> Nat]
    BY <2>1, SchedulerAssumption
  <2> QED BY <1>1, <1>2, <1>3, <2>2 DEF SwitchInv, StackInv, TypeOK
<1>5. /\ me # w /\ pc'[me] = resume[me] /\ resume[me] \in Working /\ pc'[w] = kept
      /\ why'[w] = why[w] /\ \A t \in TCBs : t # me /\ t # w => pc'[t] = pc[t] /\ why'[t] = why[t]
  BY <1>3, <1>4
<1>6. w \in Cores => why[w] = "stop"
  BY <1>4 DEF SwitchInv, IdleInv, IdleStops
<1>7. w \notin Cores => w \in Threads
  BY <1>4 DEF TCBs
<1>8. /\ kept = "ready" =>
           /\ Linked(readyQ', w) /\ \A t \in Threads : Linked(readyQ, t) => Linked(readyQ', t)
           /\ zombies' = zombies /\ waiting' = waiting
      /\ kept = "parked" =>
           w \notin Threads /\ readyQ' = readyQ /\ zombies' = zombies /\ waiting' = waiting
      /\ kept = "zombie" =>
           /\ Linked(zombies', w) /\ \A t \in Threads : Linked(zombies, t) => Linked(zombies', t)
           /\ readyQ' = readyQ /\ waiting' = waiting
      /\ kept = "waiting" =>
           /\ why[w] \in Sems /\ Linked(waiting'[why[w]], w)
           /\ \A s : \A t \in Threads : Linked(waiting[s], t) => Linked(waiting'[s], t)
           /\ readyQ' = readyQ /\ zombies' = zombies
  <2>1. CASE kept = "ready"
    <3>1. w \in Threads /\ readyQ' = Add(readyQ, runTime, w)
      BY <1>3, <1>6, <1>7, <2>1 DEF Schedule
    <3> QED BY <1>3, <1>4, <2>1, <3>1, AddLinks
  <2>2. CASE kept = "parked"
    BY <1>3, <2>2, Names
  <2>3. CASE kept = "zombie"
    <3>1. w \in Threads /\ zombies' = Append(zombies, w) /\ readyQ' = readyQ /\ waiting' = waiting
      BY <1>3, <1>7, <2>3
    <3>2. /\ Linked(Append(zombies, w), w)
          /\ \A t : Linked(zombies, t) => Linked(Append(zombies, w), t)
      BY <1>4, <3>1, AppendLinks
    <3>3. /\ Linked(zombies', w) /\ \A t \in Threads : Linked(zombies, t) => Linked(zombies', t)
      BY <3>1, <3>2
    <3> QED BY <2>3, <3>1, <3>3
  <2>4. CASE kept = "waiting"
    <3>1. PICK s \in Sems : s = why[w] /\ w \in Threads
      BY <1>3, <1>6, <1>7, <2>4, Names
    <3>2. /\ waiting'[s] = Append(waiting[s], w) /\ waiting[s] \in Seq(Threads)
          /\ waiting' = [waiting EXCEPT ![s] = Append(waiting[s], w)]
      BY <1>3, <1>4, <2>4, <3>1
    <3>3. \A x : x # s => waiting'[x] = waiting[x]
      BY <3>2
    <3>4. /\ Linked(waiting'[s], w)
          /\ \A t \in Threads : Linked(waiting[s], t) => Linked(waiting'[s], t)
      BY <3>1, <3>2, AppendLinks
    <3> QED BY <1>3, <2>4, <3>1, <3>3, <3>4
  <2> QED BY <2>1, <2>2, <2>3, <2>4
<1>9. w \in Threads => Found(w)'
  BY <1>5, <1>8, Points DEF Found, Linked
<1>10. \A t \in Threads : t # w =>
         ((\E d \in Cores : prev[d] = t) => (\E d \in Cores : prev'[d] = t))
  BY <1>2, <1>3, <1>4
<1>11. \A t \in Threads :
         /\ Linked(readyQ, t) => Linked(readyQ', t)
         /\ Linked(zombies, t) => Linked(zombies', t)
         /\ Linked(waiting[why[t]], t) => Linked(waiting'[why[t]], t)
  BY <1>8
<1>12. pc'[me] \in OnCpu
  BY <1>5, Points
<1>13. \A t \in Threads : t # me /\ t # w =>
         /\ (\E d \in Cores : chosen[d] = t) => (\E d \in Cores : chosen'[d] = t)
         /\ (\E d \in Cores : prev[d] = t) => (\E d \in Cores : prev'[d] = t)
         /\ Linked(readyQ, t) => Linked(readyQ', t)
         /\ Linked(zombies, t) => Linked(zombies', t)
         /\ Linked(waiting[why[t]], t) => Linked(waiting'[why[t]], t)
         /\ (\E u \in TCBs : hand[u] = t) => (\E u \in TCBs : hand'[u] = t)
  BY <1>3, <1>10, <1>11
<1>14. /\ stack' = stack /\ w \in TCBs
       /\ \A t \in TCBs : t # me /\ t # w => pc'[t] = pc[t] /\ why'[t] = why[t]
  BY <1>3, <1>4, <1>5
<1> QED BY ONLY SwitchInv, FoundInv, <1>1, <1>9, <1>12, <1>13, <1>14, MovesFound

LEMMA UpFound ==
  ASSUME SwitchInv, FoundInv, HandsBusy, NEW c \in Cores, NEW me \in TCBs, me = stack[c],
         NEW s \in Sems, NEW back \in OnCpu, Up(me, s, back), pc[me] \in Working \ {"wake"}
  PROVE  FoundInv'
<1>1. /\ stack' = stack /\ prev' = prev /\ chosen' = chosen /\ why' = why
      /\ readyQ' = readyQ /\ zombies' = zombies
      /\ pc \in [TCBs -> PCs] /\ hand \in [TCBs -> Threads \union {None}]
      /\ waiting \in [Sems -> Seq(Threads)]
  BY DEF Up, cpuVars, SwitchInv, TypeOK
<1>2. hand[me] = None
  BY FreeHand
<1>3. CASE pc' = [pc EXCEPT ![me] = back] /\ hand' = hand /\ waiting' = waiting
  <2>1. pc'[me] \in OnCpu /\ \A t \in TCBs \ {me} : pc'[t] = pc[t] /\ why'[t] = why[t]
    BY <1>1, <1>3
  <2> QED BY <1>1, <1>3, <2>1, GoesOnFound
<1>4. CASE /\ waiting[s] # << >>
           /\ hand' = [hand EXCEPT ![me] = Head(waiting[s])]
           /\ waiting' = [waiting EXCEPT ![s] = Tail(@)]
           /\ pc' = [pc EXCEPT ![me] = "wake", ![Head(waiting[s])] = "woken"]
  <2>1. PICK w : w = Head(waiting[s])
    OBVIOUS
  <2>2. w \in Threads /\ w \in TCBs /\ pc[w] = "waiting" /\ w # me
    <3>1. waiting[s] \in Seq(Threads) /\ Keeps(waiting[s], "waiting")
      BY DEF SwitchInv, TypeOK, QueueInv
    <3>2. 1 \in 1..Len(waiting[s]) /\ w = waiting[s][1] /\ w \in Threads
      BY <1>4, <2>1, <3>1
    <3> QED BY <3>1, <3>2, Names DEF Keeps, Working
  <2>3. /\ pc'[me] = "wake" /\ pc'[w] = "woken" /\ hand'[me] = w
        /\ \A t \in TCBs : t # me /\ t # w => pc'[t] = pc[t] /\ why'[t] = why[t]
        /\ \A t \in TCBs : t # me => hand'[t] = hand[t]
    BY <1>1, <1>4, <2>1, <2>2
  <2>4. Found(w)'
    BY <2>3, Points DEF Found
  <2>5. \A t \in Threads : (\E u \in TCBs : hand[u] = t) => (\E u \in TCBs : hand'[u] = t)
    BY <1>2, <2>3, Names
  <2>6. \A t \in Threads : t # w =>
          (Linked(waiting[why[t]], t) => Linked(waiting'[why[t]], t))
    <3>1. /\ waiting'[s] = Tail(waiting[s]) /\ waiting[s] \in Seq(Threads)
          /\ \A x : x # s => waiting'[x] = waiting[x]
      BY <1>1, <1>4
    <3>2. \A t : t # Head(waiting[s]) /\ Linked(waiting[s], t) => Linked(Tail(waiting[s]), t)
      BY <1>4, <3>1, TailLinks
    <3>3. \A t : t # w /\ Linked(waiting[s], t) => Linked(waiting'[s], t)
      BY <2>1, <3>1, <3>2
    <3> QED BY <3>1, <3>3
  <2>7. \A t \in Threads : t # me /\ t # w =>
          /\ (\E d \in Cores : chosen[d] = t) => (\E d \in Cores : chosen'[d] = t)
          /\ (\E d \in Cores : prev[d] = t) => (\E d \in Cores : prev'[d] = t)
          /\ Linked(readyQ, t) => Linked(readyQ', t)
          /\ Linked(zombies, t) => Linked(zombies', t)
          /\ Linked(waiting[why[t]], t) => Linked(waiting'[why[t]], t)
          /\ (\E u \in TCBs : hand[u] = t) => (\E u \in TCBs : hand'[u] = t)
    BY <1>1, <2>5, <2>6
  <2>8. pc'[me] \in OnCpu
    BY <2>3 DEF OnCpu, Working
  <2>9. stack' = stack /\ (w \in Threads => Found(w)')
    BY <1>1, <2>4
  <2>10. \A t \in TCBs : t # me /\ t # w => pc'[t] = pc[t] /\ why'[t] = why[t]
    BY <2>3
  <2>11. w \in TCBs
    BY <2>2
  <2> QED BY ONLY SwitchInv, FoundInv, c \in Cores, me \in TCBs, me = stack[c],
        <2>7, <2>8, <2>9, <2>10, <2>11, MovesFound
<1> QED BY <1>3, <1>4 DEF Up, Goto

LEMMA ReleaseFound ==
  ASSUME SwitchInv, FoundInv, HandsBusy, NEW c \in Cores, Unlock(c) \/ SetUp(c) \/ GetUp(c)
  PROVE  FoundInv'
<1>1. PICK me \in TCBs : me = stack[c]
  BY DEF SwitchInv, TypeOK
<1>2. /\ {"run", "stop", "waited"} \subseteq OnCpu
      /\ {"locked", "set", "got"} \subseteq Working \ {"wake"}
  BY DEF OnCpu, Working
<1>3. CASE Unlock(c)
  <2>1. pc[me] = "locked" /\ me \in Threads /\ Up(me, lockOf[me], "run")
    BY <1>1, <1>3 DEF Unlock, InProcess, At
  <2>2. lockOf[me] \in Sems
    BY <2>1, Names DEF SwitchInv, TypeOK, CallInv
  <2> QED BY <1>1, <1>2, <2>1, <2>2, UpFound
<1>4. CASE SetUp(c)
  <2>1. pc[me] = "set" /\ prev[c] = None /\ Up(me, me, "stop")
    BY <1>1, <1>4 DEF SetUp, At
  <2>2. me \in Sems
    BY <1>1, <2>1, Running, Names DEF Blocking
  <2> QED BY <1>1, <1>2, <2>1, <2>2, UpFound
<1>5. CASE GetUp(c)
  <2>1. pc[me] = "got" /\ prev[c] = None /\ Up(me, children[me][slot[me]], "waited")
    BY <1>1, <1>5 DEF GetUp, At
  <2>2. me \in Threads
    BY <1>1, <2>1, Running DEF Blocking
  <2>3. slot[me] \in Slots /\ children[me][slot[me]] # None
    BY <2>1, <2>2 DEF SwitchInv, CallInv
  <2>4. children[me][slot[me]] \in Sems
    BY <2>2, <2>3, Names DEF SwitchInv, TypeOK
  <2> QED BY <1>1, <1>2, <2>1, <2>4, UpFound
<1> QED BY <1>3, <1>4, <1>5

(* A thread that works links another one into readyQ.                      *)
LEMMA StartsFound ==
  ASSUME SwitchInv, FoundInv, NEW c \in Cores, NEW me \in TCBs, me = stack[c],
         NEW w \in Threads, w # me, NEW p \in OnCpu, Schedule(w),
         pc' = [pc EXCEPT ![me] = p, ![w] = "ready"],
         stack' = stack, prev' = prev, chosen' = chosen, why' = why, zombies' = zombies,
         waiting' = waiting, \A u \in TCBs : hand'[u] = hand[u] \/ hand[u] = w
  PROVE  FoundInv'
<1>1. /\ pc \in [TCBs -> PCs] /\ readyQ \in Seq(Threads) /\ runTime \in [Threads -> Nat]
      /\ w \in TCBs
  <2>1. runTime \in [Threads -> 0..MaxRunTime]
    BY DEF SwitchInv, TypeOK
  <2>2. runTime \in [Threads -> Nat]
    BY <2>1, SchedulerAssumption
  <2> QED BY <2>2, Names DEF SwitchInv, TypeOK
<1>2. /\ pc'[me] \in OnCpu /\ pc'[w] = "ready"
      /\ \A t \in TCBs : t # me /\ t # w => pc'[t] = pc[t] /\ why'[t] = why[t]
  BY <1>1
<1>3. Linked(readyQ', w) /\ \A t : Linked(readyQ, t) => Linked(readyQ', t)
  <2>1. readyQ' = Add(readyQ, runTime, w)
    BY DEF Schedule
  <2>2. /\ Linked(Add(readyQ, runTime, w), w)
        /\ \A t : Linked(readyQ, t) => Linked(Add(readyQ, runTime, w), t)
    BY <1>1, AddLinks
  <2> QED BY <2>1, <2>2
<1>4. Found(w)'
  BY <1>2, <1>3, Points DEF Found, Linked
<1>5. \A t \in Threads : t # me /\ t # w =>
        /\ (\E d \in Cores : chosen[d] = t) => (\E d \in Cores : chosen'[d] = t)
        /\ (\E d \in Cores : prev[d] = t) => (\E d \in Cores : prev'[d] = t)
        /\ Linked(readyQ, t) => Linked(readyQ', t)
        /\ Linked(zombies, t) => Linked(zombies', t)
        /\ Linked(waiting[why[t]], t) => Linked(waiting'[why[t]], t)
        /\ (\E u \in TCBs : hand[u] = t) => (\E u \in TCBs : hand'[u] = t)
  BY <1>3
<1> QED BY <1>1, <1>2, <1>4, <1>5, MovesFound

LEMMA WakeWaiterFound ==
  ASSUME SwitchInv, FoundInv, NEW c \in Cores, WakeWaiter(c)
  PROVE  FoundInv'
<1>1. PICK me \in TCBs : me = stack[c] /\ pc[me] = "wake"
  BY DEF SwitchInv, TypeOK, WakeWaiter, At
<1>2. PICK w : w = hand[me]
  OBVIOUS
<1>3. w \in Threads /\ w # me
  <2>1. w # None /\ pc[w] = "woken"
    BY <1>1, <1>2 DEF SwitchInv, HandInv
  <2> QED BY <1>1, <1>2, <2>1 DEF SwitchInv, TypeOK
<1>4. /\ pc' = [pc EXCEPT ![me] = ret[me], ![w] = "ready"] /\ Schedule(w)
      /\ stack' = stack /\ prev' = prev /\ chosen' = chosen /\ why' = why /\ zombies' = zombies
      /\ waiting' = waiting /\ hand' = [hand EXCEPT ![me] = None]
  BY <1>1, <1>2 DEF WakeWaiter, cpuVars, semVars
<1>5. \A u \in TCBs : hand'[u] = hand[u] \/ hand[u] = w
  BY <1>2, <1>4 DEF SwitchInv, TypeOK
<1>6. ret[me] \in OnCpu
  <2>1. ret[me] \in Returns
    BY DEF SwitchInv, TypeOK
  <2> QED BY <2>1 DEF Returns, OnCpu, Working
<1> QED BY <1>1, <1>3, <1>4, <1>5, <1>6, StartsFound

LEMMA SpawnFound ==
  ASSUME SwitchInv, FoundInv, NEW c \in Cores, Spawn(c)
  PROVE  FoundInv'
<1>1. PICK me \in TCBs : me = stack[c] /\ prev[c] = None /\ pc[me] = "spawn"
  BY DEF SwitchInv, TypeOK, Spawn, At
<1>2. me \in Threads
  BY <1>1, Running DEF Blocking
<1>3. PICK w : w = children[me][slot[me]]
  OBVIOUS
<1>4. w \in Threads /\ w # me
  <2>1. slot[me] \in Slots /\ w # None /\ pc[w] = "made"
    BY <1>1, <1>2, <1>3 DEF SwitchInv, CallInv, Spawning
  <2> QED BY <1>1, <1>2, <1>3, <2>1 DEF SwitchInv, TypeOK
<1>5. /\ pc' = [pc EXCEPT ![me] = "run", ![w] = "ready"] /\ Schedule(w)
      /\ stack' = stack /\ prev' = prev /\ chosen' = chosen /\ why' = why /\ zombies' = zombies
      /\ waiting' = waiting /\ hand' = hand
  BY <1>1, <1>3 DEF Spawn, cpuVars, tcbVars, semVars
<1>6. "run" \in OnCpu
  BY DEF OnCpu, Working
<1> QED BY <1>1, <1>4, <1>5, <1>6, StartsFound

LEMMA ForkFound ==
  ASSUME SwitchInv, FoundInv, NEW c \in Cores, NEW u \in Threads, Fork(c, u)
  PROVE  FoundInv'
<1>1. PICK me \in TCBs : me = stack[c]
  BY DEF SwitchInv, TypeOK
<1>2. /\ pc[me] = "run" /\ pc[u] = "new" /\ pc' = [pc EXCEPT ![me] = "reap", ![u] = "made"]
      /\ stack' = stack /\ prev' = prev /\ chosen' = chosen /\ why' = why /\ zombies' = zombies
      /\ waiting' = waiting /\ hand' = hand /\ readyQ' = readyQ
      /\ pc \in [TCBs -> PCs] /\ u \in TCBs
  BY <1>1, Names DEF Fork, InProcess, At, cpuVars, semVars, SwitchInv, TypeOK
<1>3. /\ pc'[me] \in OnCpu /\ pc'[u] = "made"
      /\ \A t \in TCBs : t # me /\ t # u => pc'[t] = pc[t] /\ why'[t] = why[t]
  BY <1>2 DEF OnCpu, Working
<1>4. Found(u)'
  BY <1>3, Points DEF Found
<1> QED BY <1>1, <1>2, <1>3, <1>4, MovesFound

LEMMA ReapFound ==
  ASSUME SwitchInv, FoundInv, NEW c \in Cores, Reap(c)
  PROVE  FoundInv'
<1>1. PICK me \in TCBs : me = stack[c] /\ pc[me] = "reap"
  BY DEF SwitchInv, TypeOK, Reap, At
<1>2. /\ stack' = stack /\ prev' = prev /\ chosen' = chosen /\ why' = why
      /\ waiting' = waiting /\ hand' = hand /\ readyQ' = readyQ
      /\ pc \in [TCBs -> PCs] /\ ret[me] \in Returns /\ zombies \in Seq(Threads)
  BY DEF Reap, cpuVars, semVars, SwitchInv, TypeOK
<1>3. CASE pc' = [pc EXCEPT ![me] = ret[me]] /\ zombies' = zombies
  <2>1. pc'[me] \in OnCpu /\ \A t \in TCBs \ {me} : pc'[t] = pc[t] /\ why'[t] = why[t]
    BY <1>2, <1>3 DEF Returns, OnCpu, Working
  <2> QED BY <1>1, <1>2, <1>3, <2>1, GoesOnFound
<1>4. CASE zombies # << >> /\ zombies' = Tail(zombies) /\ pc' = [pc EXCEPT ![Head(zombies)] = "dead"]
  <2>1. PICK w : w = Head(zombies)
    OBVIOUS
  <2>2. w \in TCBs /\ pc[w] = "zombie"
    <3>1. 1 \in 1..Len(zombies) /\ w = zombies[1] /\ w \in Threads
      BY <1>2, <1>4, <2>1
    <3> QED BY <3>1, Names DEF SwitchInv, QueueInv, Keeps
  <2>3. /\ pc'[w] = "dead" /\ pc'[me] \in OnCpu
        /\ \A t \in TCBs : t # me /\ t # w => pc'[t] = pc[t] /\ why'[t] = why[t]
    BY <1>1, <1>2, <1>4, <2>1, <2>2 DEF OnCpu, Working
  <2>4. Found(w)'
    BY <2>3, Points DEF Found
  <2>5. \A t : t # w /\ Linked(zombies, t) => Linked(zombies', t)
    <3>1. \A t : t # Head(zombies) /\ Linked(zombies, t) => Linked(Tail(zombies), t)
      BY <1>2, <1>4, TailLinks
    <3> QED BY <1>4, <2>1, <3>1
  <2> QED BY <1>1, <1>2, <2>2, <2>3, <2>4, <2>5, MovesFound
<1> QED BY <1>1, <1>3, <1>4 DEF Reap, Goto

-----------------------------------------------------------------------------
LEMMA NextFound ==
  ASSUME SwitchInv, SemInv, HandsBusy, FoundInv, [Next]_vars
  PROVE  FoundInv'
<1>1. CASE UNCHANGED vars
  <2>1. /\ pc' = pc /\ why' = why /\ stack' = stack /\ chosen' = chosen /\ prev' = prev
        /\ readyQ' = readyQ /\ zombies' = zombies /\ waiting' = waiting /\ hand' = hand
    BY <1>1 DEF vars, cpuVars, tcbVars, semVars, procVars
  <2> QED BY <2>1 DEF FoundInv, Found, Linked
<1>2. ASSUME NEW c \in Cores, SwitchStep(c) PROVE FoundInv'
  BY <1>2, CoreFound, RemoveNextFound, SwitchFound, HandleFound DEF SwitchStep
<1>3. ASSUME NEW c \in Cores, KernelStep(c) PROVE FoundInv'
  BY <1>3, CoreFound, ReleaseFound, WakeWaiterFound, SpawnFound, ReapFound DEF KernelStep
<1>4. ASSUME NEW c \in Cores, SystemCall(c) PROVE FoundInv'
  BY <1>4, CoreFound, ForkFound DEF SystemCall
<1>5. ASSUME NEW c \in Cores, TimerWake(c) \/ Tick(c) PROVE FoundInv'
  BY <1>5, CoreFound
<1> QED BY <1>1, <1>2, <1>3, <1>4, <1>5 DEF Next

LEMMA InitFound ==
  ASSUME Init
  PROVE  FoundInv /\ HandsBusy
<1>1. hand = [t \in TCBs |-> None] /\ readyQ = <<Reaper, FirstThread>>
  BY DEF Init
<1>2. HandsBusy
  BY <1>1 DEF HandsBusy
<1>3. ASSUME NEW t \in Threads PROVE Found(t)
  <2>1. t \in TCBs /\ t \notin Cores
    BY Names
  <2>2. pc[t] = IF t \in {Reaper, FirstThread} THEN "ready" ELSE "new"
    BY <2>1 DEF Init
  <2>3. t \in {Reaper, FirstThread} => Linked(readyQ, t)
    BY <1>1 DEF Linked
  <2> QED BY <2>2, <2>3 DEF Found, OnCpu, Working, Blocking
<1> QED BY <1>2, <1>3 DEF FoundInv

(* In every reachable state a thread is found where its program point says *)
(* it is kept: on a core, in the hands of a switch, in the one queue it    *)
(* joined, or in the hand of an up() under way (Semaphore::up takes the    *)
(* waiter out before schedule() puts it on the ready queue).               *)
THEOREM FoundCorrect == Spec => [](FoundInv /\ HandsBusy)
<1>1. SwitchInv /\ SemInv /\ FoundInv /\ HandsBusy /\ [Next]_vars => FoundInv' /\ HandsBusy'
  BY NextFound, NextBusy
<1> QED BY <1>1, InitFound, SwitchCorrect, SemCorrect, PTL DEF Spec

LEMMA AtOnePlace ==
  ASSUME TypeOK, NEW t \in Threads, Found(t), pc[t] \notin {"new", "made", "dead"},
         pc[t] = "woken" => \E u \in TCBs : hand[u] = t
  PROVE  PlacesOf(t) # {}
<1>1. t \in TCBs /\ pc[t] \in OnCpu \union {"picked", "leaving", "ready", "zombie", "waiting", "woken"}
  BY Names DEF TypeOK, PCs, Kept, Found
<1>2. ASSUME NEW c \in Cores, stack[c] = t PROVE PlacesOf(t) # {}
  <2>1. <<"stack", c>> \in Entries("stack", stack, t)
    BY <1>2 DEF Entries, TypeOK
  <2> QED BY <2>1 DEF PlacesOf
<1>3. ASSUME NEW c \in Cores, chosen[c] = t PROVE PlacesOf(t) # {}
  <2>1. <<"chosen", c>> \in Entries("chosen", chosen, t)
    BY <1>3 DEF Entries, TypeOK
  <2> QED BY <2>1 DEF PlacesOf
<1>4. ASSUME NEW c \in Cores, prev[c] = t PROVE PlacesOf(t) # {}
  <2>1. <<"leaving", c>> \in Entries("leaving", prev, t)
    BY <1>4 DEF Entries, TypeOK
  <2> QED BY <2>1 DEF PlacesOf
<1>5. ASSUME Linked(readyQ, t) PROVE PlacesOf(t) # {}
  <2>1. PICK i \in DOMAIN readyQ : readyQ[i] = t
    BY <1>5 DEF Linked, TypeOK
  <2>2. <<"ready", i>> \in Entries("ready", readyQ, t)
    BY <2>1 DEF Entries
  <2> QED BY <2>2 DEF PlacesOf
<1>6. ASSUME Linked(zombies, t) PROVE PlacesOf(t) # {}
  <2>1. PICK i \in DOMAIN zombies : zombies[i] = t
    BY <1>6 DEF Linked, TypeOK
  <2>2. <<"zombie", i>> \in Entries("zombie", zombies, t)
    BY <2>1 DEF Entries
  <2> QED BY <2>2 DEF PlacesOf
<1>7. ASSUME NEW s \in Sems, Linked(waiting[s], t) PROVE PlacesOf(t) # {}
  <2>1. waiting[s] \in Seq(Threads)
    BY DEF TypeOK
  <2>2. PICK i \in DOMAIN waiting[s] : waiting[s][i] = t
    BY <1>7, <2>1 DEF Linked
  <2>3. <<"waiting", s, i>> \in
          {<<"waiting", s, k>> : k \in {j \in DOMAIN waiting[s] : waiting[s][j] = t}}
    BY <2>2
  <2>4. <<"waiting", s, i>> \in Waits(t)
    BY <2>3, Zenon DEF Waits
  <2> QED BY <2>4 DEF PlacesOf
<1>8. ASSUME NEW u \in TCBs, hand[u] = t PROVE PlacesOf(t) # {}
  <2>1. <<"hand", u>> \in Entries("hand", hand, t)
    BY <1>8 DEF Entries, TypeOK
  <2> QED BY <2>1 DEF PlacesOf
<1> QED BY <1>1, <1>2, <1>3, <1>4, <1>5, <1>6, <1>7, <1>8 DEF Found

(* Whoever may be killed, every started thread that is not deleted is      *)
(* somewhere, but for a waiter that up() had taken out of its queue when   *)
(* the tick of pit.cc ended the process that executed up().                *)
THEOREM LostOnlyInUp ==
  Spec => [](\A t \in Threads : pc[t] \notin {"new", "made", "dead", "woken"} => PlacesOf(t) # {})
<1>1. SwitchInv /\ FoundInv =>
        \A t \in Threads : pc[t] \notin {"new", "made", "dead", "woken"} => PlacesOf(t) # {}
  BY AtOnePlace DEF FoundInv, SwitchInv
<1> QED BY <1>1, FoundCorrect, SwitchCorrect, PTL

(* Where no parent kills a child, no interleaving of up(), down(), yield() *)
(* and stop() on any number of cores drops a thread.                       *)
THEOREM NoThreadLostCorrect == ASSUME Killable = {} PROVE Spec => []NoThreadLost
<1>1. SwitchInv /\ FoundInv => NoThreadLost
  <2> SUFFICES ASSUME SwitchInv, FoundInv, NEW t \in Threads,
                      pc[t] \notin {"new", "made", "dead"}
               PROVE  PlacesOf(t) # {}
    BY DEF NoThreadLost
  <2>1. Found(t) /\ TypeOK
    BY DEF FoundInv, SwitchInv
  <2>2. pc[t] = "woken" => \E u \in TCBs : hand[u] = t
    BY <2>1 DEF Found
  <2> QED BY <2>1, <2>2, AtOnePlace
<1> QED BY <1>1, FoundCorrect, SwitchCorrect, PTL

=============================================================================
