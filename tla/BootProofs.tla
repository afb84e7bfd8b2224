----------------------------- MODULE BootProofs -----------------------------
(***************************************************************************)
(* Proofs about Boot, for any number of cores and any speed of the timer:  *)
(* BootInv is inductive, and BootSound follows from it.                    *)
(***************************************************************************)
EXTENDS Boot, FiniteSetTheorems, TLAPS

-----------------------------------------------------------------------------
(* The calls of kernelInit, counted.                                       *)
LEMMA OrderIs ==
  /\ Len(Order) = 8
  /\ Order[1] = "heap" /\ Order[2] = "frames" /\ Order[3] = "paging" /\ Order[4] = "globals"
  /\ Order[5] = "syscalls" /\ Order[6] = "threads" /\ Order[7] = "apic" /\ Order[8] = "timer"
BY DEF Order

LEMMA OrderDistinct ==
  ASSUME NEW i \in 1..8, NEW j \in 1..8, Order[i] = Order[j]
  PROVE  i = j
<1>1. i \in {1, 2, 3, 4, 5, 6, 7, 8} /\ j \in {1, 2, 3, 4, 5, 6, 7, 8}
  OBVIOUS
<1> QED BY <1>1, OrderIs

LEMMA NextParts ==
  ASSUME NEW k \in 0..7
  PROVE  Parts(k + 1) = Parts(k) \union {Order[k + 1]} /\ Order[k + 1] \notin Parts(k)
<1>1. Parts(k + 1) = Parts(k) \union {Order[k + 1]}
  <2>1. \A i : i \in 1..(k + 1) <=> i \in 1..k \/ i = k + 1
    OBVIOUS
  <2> QED BY <2>1 DEF Parts
<1>2. \A i \in 1..k : i \in 1..8 /\ k + 1 \in 1..8 /\ i # k + 1
  OBVIOUS
<1> QED BY <1>1, <1>2, OrderDistinct DEF Parts

LEMMA NextCount ==
  ASSUME NEW k \in 0..7, IsFiniteSet(Parts(k)), Cardinality(Parts(k)) = k
  PROVE  IsFiniteSet(Parts(k + 1)) /\ Cardinality(Parts(k + 1)) = k + 1
<1>1. Parts(k + 1) = Parts(k) \union {Order[k + 1]} /\ Order[k + 1] \notin Parts(k)
  BY NextParts
<1>2. ASSUME NEW S, NEW x, IsFiniteSet(S), x \notin S
      PROVE  IsFiniteSet(S \union {x}) /\ Cardinality(S \union {x}) = Cardinality(S) + 1
  BY <1>2, FS_AddElement
<1>3. /\ IsFiniteSet(Parts(k) \union {Order[k + 1]})
      /\ Cardinality(Parts(k) \union {Order[k + 1]}) = Cardinality(Parts(k)) + 1
  BY <1>1, <1>2
<1> QED BY <1>1, <1>3

LEMMA PartsCount ==
  ASSUME NEW k \in 0..8
  PROVE  Cardinality(Parts(k)) = k /\ (k = 0 => Parts(k) = {})
<1> DEFINE C(n) == IsFiniteSet(Parts(n)) /\ Cardinality(Parts(n)) = n
<1>0. Parts(0) = {} /\ C(0)
  BY FS_EmptySet DEF Parts
<1>1. C(1)
  BY <1>0, NextCount
<1>2. C(2)
  BY <1>1, NextCount
<1>3. C(3)
  BY <1>2, NextCount
<1>4. C(4)
  BY <1>3, NextCount
<1>5. C(5)
  BY <1>4, NextCount
<1>6. C(6)
  BY <1>5, NextCount
<1>7. C(7)
  BY <1>6, NextCount
<1>8. C(8)
  BY <1>7, NextCount
<1>9. k \in {0, 1, 2, 3, 4, 5, 6, 7, 8}
  OBVIOUS
<1> QED BY <1>0, <1>1, <1>2, <1>3, <1>4, <1>5, <1>6, <1>7, <1>8, <1>9

(* Every call finds what it needs.                                         *)
LEMMA NeedsMet ==
  ASSUME NEW k \in 0..7
  PROVE  Needs(Order[k + 1]) \subseteq Parts(k)
<1>1. \A i \in 1..k : Order[i] \in Parts(k)
  BY DEF Parts
<1>2. k \in {0, 1, 2, 3, 4, 5, 6, 7}
  OBVIOUS
<1>3. CASE k \in {0, 1, 4, 6}
  BY <1>3, OrderIs DEF Needs
<1>4. CASE k = 2
  BY <1>1, <1>4, OrderIs DEF Needs
<1>5. CASE k = 3
  BY <1>1, <1>5, OrderIs DEF Needs
<1>6. CASE k = 5
  BY <1>1, <1>6, OrderIs DEF Needs
<1>7. CASE k = 7
  BY <1>1, <1>7, OrderIs DEF Needs
<1> QED BY <1>2, <1>3, <1>4, <1>5, <1>6, <1>7

LEMMA AllParts ==
  /\ "apic" \in Parts(8) /\ "timer" \in Parts(8) /\ "threads" \in Parts(8)
  /\ {14, 40, 48, 255} \subseteq UNION {Vectors(p) : p \in Parts(8)}
<1>1. \A i \in 1..8 : Order[i] \in Parts(8)
  BY DEF Parts
<1>2. /\ "frames" \in Parts(8) /\ "syscalls" \in Parts(8) /\ "apic" \in Parts(8)
      /\ "timer" \in Parts(8) /\ "threads" \in Parts(8)
  BY <1>1, OrderIs
<1>3. 14 \in Vectors("frames") /\ 48 \in Vectors("syscalls") /\ 255 \in Vectors("apic")
      /\ 40 \in Vectors("timer")
  BY DEF Vectors
<1>4. \A p \in Parts(8) : Vectors(p) \subseteq UNION {Vectors(r) : r \in Parts(8)}
  OBVIOUS
<1> QED BY <1>2, <1>3, <1>4

LEMMA MoreVectors ==
  ASSUME NEW S, NEW part
  PROVE  UNION {Vectors(p) : p \in S \union {part}}
           = (UNION {Vectors(p) : p \in S}) \union Vectors(part)
OBVIOUS

LEMMA Calibrated ==
  ASSUME NEW diff \in Diffs
  PROVE  diff \div Hz \in Nat /\ diff \div Hz # 0
<1>1. diff \in Nat /\ Hz \in Nat /\ Hz > 0 /\ diff >= Hz
  BY BootAssumption
<1> QED BY <1>1

-----------------------------------------------------------------------------
LEMMA CoresFinite ==
  /\ 0 \in Cores /\ IsFiniteSet(Cores) /\ Cardinality(Cores) = TotalProcs
  /\ \A c \in Cores : c \in Nat
<1>1. TotalProcs \in Nat \ {0}
  BY BootAssumption
<1>2. IsFiniteSet(0..(TotalProcs - 1)) /\ Cardinality(0..(TotalProcs - 1)) = TotalProcs
  BY <1>1, FS_Interval
<1> QED BY <1>1, <1>2 DEF Cores

(* c goes on, and the others stay where they are.                          *)
LEMMA Moves ==
  ASSUME BootInv, NEW c \in Cores, NEW p, Goto(c, p),
         p \in Early \union Starting \union Late \union {"off", "ipi", "wait"}
  PROVE  /\ pc' \in [Cores -> Early \union Starting \union Late \union {"off", "ipi", "wait"}]
         /\ pc'[c] = p
         /\ \A d \in Cores \ {c} : pc'[d] = pc[d]
BY DEF BootInv, TypeOK, Goto

(* Whoever has been started has been so after the initialization.          *)
LEMMA Started ==
  ASSUME BootInv, NEW c \in Cores \ {0}, pc[c] # "off"
  PROVE  /\ pc[0] \notin Early /\ c <= id
         /\ pc[c] \in Starting => pc[0] = "wait" /\ c = id /\ running = id
         /\ pc[c] \in Starting \union Late
<1>1. c \in Nat /\ c > 0 /\ id \in Nat /\ 0 \in Cores
  BY CoresFinite, BootAssumption DEF BootInv, TypeOK
<1>2. ~(c > id \/ (c = id /\ pc[0] # "wait"))
  BY DEF BootInv, StartInv
<1>3. c < id \/ (c = id /\ pc[0] = "wait")
  BY <1>1, <1>2
<1>4. pc[0] \notin Early
  BY <1>1, <1>3 DEF BootInv, StartInv, Early
<1>5. CASE c < id
  <2>1. pc[c] \in Late
    BY <1>5 DEF BootInv, StartInv
  <2> QED BY <1>1, <1>4, <1>5, <2>1 DEF Late, Starting
<1>6. CASE c = id /\ pc[0] = "wait"
  <2>1. \/ running = id /\ pc[c] \in Starting
        \/ running = id + 1 /\ pc[c] \in Late
    BY <1>6 DEF BootInv, StartInv
  <2> QED BY <1>1, <1>4, <1>6, <2>1 DEF Late, Starting
<1> QED BY <1>3, <1>5, <1>6

LEMMA Ready ==
  ASSUME BootInv, NEW c \in Cores, pc[c] \in Late \union {"ipi", "wait"}
  PROVE  pc[0] \notin Early /\ done = Parts(8) /\ smpInitDone = TRUE /\ apitCounter # 0
<1>1. pc[0] \notin Early
  BY Started DEF Late, Early
<1>2. done = Parts(8)
  BY <1>1, OrderIs DEF BootInv, PartsInv, Early
<1> QED BY <1>1, <1>2, AllParts DEF BootInv, PartsInv, TypeOK

-----------------------------------------------------------------------------
(* A core on its way from SMP::init to stop().                             *)
LEMMA StartKept ==
  ASSUME BootInv, NEW c \in Cores, pc[c] \in Late, pc'[c] \in Late,
         UNCHANGED <<id, running>>, \A d \in Cores \ {c} : pc'[d] = pc[d]
  PROVE  StartInv'
<1>2. CASE c = 0
  <2>1. pc[0] \in Late /\ pc[0] \notin Early \union {"ipi", "wait"}
        /\ pc'[0] \notin Early \union {"ipi", "wait"}
    BY <1>2 DEF Late, Early
  <2>2. id = TotalProcs
    BY <2>1 DEF BootInv, StartInv
  <2>3. \A d \in Cores \ {0} : pc'[d] = pc[d]
    BY <1>2
  <2> QED BY <1>2, <2>1, <2>2, <2>3 DEF BootInv, StartInv
<1>3. CASE c # 0
  <2>1. pc'[0] = pc[0] /\ c \in Cores \ {0}
    BY <1>3, CoresFinite
  <2>2. pc[c] # "off" /\ pc[c] \notin Starting
    BY DEF Late, Starting
  <2>3. \A d \in Cores \ {0} : /\ pc[d] \in Late => pc'[d] \in Late
                               /\ pc[d] = "off" => pc'[d] = "off"
                               /\ pc[d] \in Starting => pc'[d] \in Starting
    BY <2>2
  <2>4. pc[0] = "wait" => id \in Cores \ {0}
    BY CoresFinite, BootAssumption DEF BootInv, StartInv, TypeOK, Cores
  <2> QED BY <2>1, <2>3, <2>4 DEF BootInv, StartInv
<1> QED BY <1>2, <1>3

LEMMA PartsKept ==
  ASSUME BootInv, pc[0] \notin {"entry", "init"}, pc'[0] \notin {"entry", "init"},
         UNCHANGED <<done, vectors, smpInitDone, apitCounter>>, on[0] \subseteq on'[0]
  PROVE  PartsInv'
BY DEF BootInv, PartsInv

(* A step of a core that is not there yet and will not be.                 *)
LEMMA ArriveKept ==
  ASSUME BootInv, NEW c \in Cores, pc[0] \notin {"entry", "init"}, pc'[0] \notin {"entry", "init"},
         pc[c] \notin {"make", "stop"}, pc'[c] \notin {"make", "stop"},
         UNCHANGED <<arrived, threads>>, \A d \in Cores \ {c} : pc'[d] = pc[d]
  PROVE  ArriveInv'
<1>1. {d \in Cores : pc[d] \in {"make", "stop"}}' = {d \in Cores : pc[d] \in {"make", "stop"}}
  OBVIOUS
<1>2. arrived' = Cardinality({d \in Cores : pc[d] \in {"make", "stop"}}')
  BY <1>1 DEF BootInv, ArriveInv
<1>3. threads' = <<"reaper">>
  BY DEF BootInv, ArriveInv
<1>4. \A d \in Cores : pc'[d] # "make"
  BY DEF BootInv, ArriveInv
<1> QED BY <1>2, <1>3, <1>4 DEF ArriveInv

LEMMA SwitchOnKeeps ==
  ASSUME BootInv, NEW c \in Cores,
         SmpInit(c) \/ PerCoreInit(c) \/ PitInit(c) \/ Tss(c) \/ Sti(c)
  PROVE  BootInv'
<1>1. PICK p \in Late, q \in Late, what \in {"lapic", "paging", "timer", "tss", "interrupts"} :
        /\ <<p, q, what>> \in {<<"lapic", "paging", "lapic">>, <<"paging", "timer", "paging">>,
                               <<"timer", "tss", "timer">>, <<"tss", "sti", "tss">>,
                               <<"sti", "arrive", "interrupts">>}
        /\ pc[c] = p /\ SwitchOn(c, what, q)
  BY DEF SmpInit, PerCoreInit, PitInit, Tss, Sti, Late
<1>2. /\ on' = [on EXCEPT ![c] = @ \union {what}] /\ Goto(c, q)
      /\ UNCHANGED <<sp, done, vectors, smpInitDone, apitCounter, running, id, arrived, threads>>
  BY <1>1 DEF SwitchOn, global
<1>3. /\ pc' \in [Cores -> Early \union Starting \union Late \union {"off", "ipi", "wait"}]
      /\ pc'[c] = q /\ \A d \in Cores \ {c} : pc'[d] = pc[d]
  BY <1>2, Moves
<1>4. /\ p \notin {"make", "stop"} /\ q \notin {"lapic", "make", "stop"}
      /\ p \notin {"entry", "init"} /\ q \notin {"entry", "init", "off", "reset"}
  BY <1>1
<1>5. /\ on' \in [Cores -> SUBSET {"lapic", "paging", "timer", "tss", "interrupts"}]
      /\ on'[c] = on[c] \union {what} /\ \A d \in Cores \ {c} : on'[d] = on[d]
  BY <1>2 DEF BootInv, TypeOK
<1>6. pc[0] \notin Early /\ 0 \in Cores
  BY <1>1, Ready, CoresFinite
<1>7. pc'[0] \notin {"entry", "init", "off", "reset", "lapic"}
  BY <1>3, <1>4, <1>6 DEF BootInv, TypeOK, Early
<1>8. TypeOK'
  BY <1>2, <1>3, <1>5, <1>7 DEF BootInv, TypeOK
<1>9. StartInv'
  BY <1>1, <1>2, <1>3, StartKept
<1>10. PartsInv'
  BY <1>2, <1>5, <1>6, <1>7, PartsKept DEF Early
<1>11. StackInv'
  BY <1>2 DEF BootInv, StackInv
<1>12. OnInv'
  <2>1. \A d \in Cores \ {c} :
          /\ d # 0 /\ pc'[d] \in Late \ {"lapic"} => "lapic" \in on'[d]
          /\ pc'[d] \in Late \ {"lapic", "paging"} => "paging" \in on'[d]
          /\ pc'[d] \in {"sti", "arrive", "make", "stop"} => "tss" \in on'[d]
          /\ "interrupts" \in on'[d] => pc'[d] \in {"arrive", "make", "stop"}
    BY <1>3, <1>5 DEF BootInv, OnInv
  <2>2. /\ c # 0 /\ q \in Late \ {"lapic"} => "lapic" \in on'[c]
        /\ q \in Late \ {"lapic", "paging"} => "paging" \in on'[c]
        /\ q \in {"sti", "arrive", "make", "stop"} => "tss" \in on'[c]
        /\ "interrupts" \in on'[c] => q \in {"arrive", "make", "stop"}
    BY <1>1, <1>5 DEF BootInv, OnInv, Late
  <2> QED BY <1>3, <2>1, <2>2 DEF OnInv
<1>13. ArriveInv'
  BY <1>1, <1>2, <1>3, <1>4, <1>6, <1>7, ArriveKept DEF Early
<1> QED BY <1>8, <1>9, <1>10, <1>11, <1>12, <1>13 DEF BootInv

(* howManyAreHere: the last to arrive finds the others there.              *)
LEMMA ArriveKeeps ==
  ASSUME BootInv, NEW c \in Cores, Arrive(c)
  PROVE  BootInv'
<1> DEFINE q == IF arrived' = TotalProcs THEN "make" ELSE "stop"
           There == {d \in Cores : pc[d] \in {"make", "stop"}}
<1>1. /\ pc[c] = "arrive" /\ arrived' = arrived + 1 /\ Goto(c, q)
      /\ UNCHANGED <<sp, done, vectors, smpInitDone, apitCounter, running, id, on, threads>>
  BY DEF Arrive, global
<1>2. /\ q \in {"make", "stop"} /\ q \in Late /\ q \notin {"entry", "init", "off", "reset", "lapic"}
      /\ q = "make" <=> arrived' = TotalProcs
  BY DEF Late
<1> HIDE DEF q
<1>3. /\ pc' \in [Cores -> Early \union Starting \union Late \union {"off", "ipi", "wait"}]
      /\ pc'[c] = q /\ \A d \in Cores \ {c} : pc'[d] = pc[d]
  BY <1>1, <1>2, Moves
<1>4. pc[0] \notin {"entry", "init"} /\ 0 \in Cores /\ pc[c] \in Late
  BY <1>1, Ready, CoresFinite DEF Early, Late
<1>5. pc'[0] \notin {"entry", "init", "off", "reset", "lapic"}
  BY <1>2, <1>3, <1>4 DEF BootInv, TypeOK
<1>6. TypeOK'
  BY <1>1, <1>3, <1>5 DEF BootInv, TypeOK
<1>7. StartInv'
  BY <1>1, <1>2, <1>3, <1>4, StartKept
<1>8. PartsInv'
  BY <1>1, <1>4, <1>5, PartsKept
<1>9. StackInv'
  BY <1>1 DEF BootInv, StackInv
<1>10. OnInv'
  BY <1>1, <1>2, <1>3, <1>4 DEF BootInv, OnInv, Late
<1>11. ArriveInv'
  <2>1. /\ c \notin There /\ There' = There \union {c} /\ There \in SUBSET Cores
        /\ There' \in SUBSET Cores
    BY <1>1, <1>2, <1>3
  <2>2. IsFiniteSet(There) /\ IsFiniteSet(There')
    BY <2>1, CoresFinite, FS_Subset
  <2>3. arrived = Cardinality(There)
    BY DEF BootInv, ArriveInv
  <2>4. Cardinality(There') = arrived'
    BY <1>1, <2>1, <2>2, <2>3, FS_AddElement
  <2>5. \A d \in Cores : pc[d] # "make"
    <3>1. \A d \in Cores : pc[d] = "make" => d # c /\ pc[c] = "stop"
      BY <1>1 DEF BootInv, ArriveInv
    <3> QED BY <1>1, <3>1
  <2>6. ASSUME q = "make" PROVE \A d \in Cores \ {c} : pc'[d] = "stop"
    <3>1. Cardinality(There') = Cardinality(Cores)
      BY <1>2, <2>4, <2>6, CoresFinite
    <3>2. There' = Cores
      BY <2>1, <2>2, <3>1, CoresFinite, FS_Subset
    <3>3. \A d \in Cores \ {c} : d \in There
      BY <2>1, <3>2
    <3> QED BY <1>3, <2>5, <3>3
  <2>7. \A d \in Cores : pc'[d] = "make" => d = c /\ q = "make"
    BY <1>3, <2>5
  <2>8. threads' = <<"reaper">>
    BY <1>1, <1>4 DEF BootInv, ArriveInv
  <2> QED BY <1>5, <2>4, <2>6, <2>7, <2>8 DEF ArriveInv
<1> QED BY <1>6, <1>7, <1>8, <1>9, <1>10, <1>11 DEF BootInv

LEMMA MakeInitKeeps ==
  ASSUME BootInv, NEW c \in Cores, MakeInit(c)
  PROVE  BootInv'
<1>1. /\ pc[c] = "make" /\ Goto(c, "stop")
      /\ UNCHANGED <<sp, done, vectors, smpInitDone, apitCounter, running, id, on, arrived>>
  BY DEF MakeInit, global
<1>2. "stop" \in Late /\ "make" \in Late
  BY DEF Late
<1>3. /\ pc' \in [Cores -> Early \union Starting \union Late \union {"off", "ipi", "wait"}]
      /\ pc'[c] = "stop" /\ \A d \in Cores \ {c} : pc'[d] = pc[d]
  BY <1>1, <1>2, Moves
<1>4. pc[0] \notin {"entry", "init"} /\ 0 \in Cores
  BY <1>1, <1>2, Ready, CoresFinite DEF Early
<1>5. pc'[0] \notin {"entry", "init", "off", "reset", "lapic"}
  BY <1>3, <1>4 DEF BootInv, TypeOK
<1>6. TypeOK'
  BY <1>1, <1>3, <1>5 DEF BootInv, TypeOK
<1>7. StartInv'
  BY <1>1, <1>2, <1>3, StartKept
<1>8. PartsInv'
  BY <1>1, <1>4, <1>5, PartsKept
<1>9. StackInv'
  BY <1>1 DEF BootInv, StackInv
<1>10. OnInv'
  BY <1>1, <1>3 DEF BootInv, OnInv, Late
<1>11. ArriveInv'
  <2>1. {d \in Cores : pc[d] \in {"make", "stop"}}' = {d \in Cores : pc[d] \in {"make", "stop"}}
    BY <1>1, <1>3
  <2>2. arrived' = Cardinality({d \in Cores : pc[d] \in {"make", "stop"}}')
    BY <1>1, <2>1 DEF BootInv, ArriveInv
  <2>3. \A d \in Cores : pc'[d] = "stop"
    BY <1>1, <1>3 DEF BootInv, ArriveInv
  <2> QED BY <1>5, <2>2, <2>3 DEF ArriveInv
<1> QED BY <1>6, <1>7, <1>8, <1>9, <1>10, <1>11 DEF BootInv

-----------------------------------------------------------------------------
(* From the reset of a core to its announcement.                           *)
LEMMA ResetKeeps ==
  ASSUME BootInv, NEW c \in Cores, ResetEIP(c)
  PROVE  BootInv'
<1>1. /\ pc[c] = "reset" /\ Goto(c, "entry")
      /\ UNCHANGED <<sp, done, vectors, smpInitDone, apitCounter, running, id, on, arrived, threads>>
  BY DEF ResetEIP, global
<1>2. c \in Cores \ {0} /\ pc[0] = "wait" /\ c = id /\ running = id /\ 0 \in Cores
  <2>1. c # 0 /\ 0 \in Cores
    BY <1>1, CoresFinite DEF BootInv, TypeOK
  <2> QED BY <1>1, <2>1, Started DEF Starting
<1>3. /\ pc' \in [Cores -> Early \union Starting \union Late \union {"off", "ipi", "wait"}]
      /\ pc'[c] = "entry" /\ pc'[0] = "wait" /\ \A d \in Cores \ {c} : pc'[d] = pc[d]
  BY <1>1, <1>2, Moves DEF Early
<1>4. TypeOK'
  BY <1>1, <1>3 DEF BootInv, TypeOK
<1>5. StartInv'
  <2>1. "entry" \in Starting /\ "wait" \notin Early \union Late
    BY DEF Starting, Early, Late
  <2>2. id' = id /\ running' = running /\ id \in Nat
    BY <1>1, BootAssumption DEF BootInv, TypeOK
  <2>3. \A d \in Cores \ {0} : /\ d < id' => pc'[d] \in Late
                               /\ d > id' => pc'[d] = "off"
    BY <1>2, <1>3, <2>2 DEF BootInv, StartInv
  <2>4. id < TotalProcs
    BY <1>2 DEF BootInv, StartInv
  <2> QED BY <1>2, <1>3, <2>1, <2>2, <2>3, <2>4 DEF StartInv
<1>6. PartsInv'
  BY <1>1, <1>2, <1>3, PartsKept
<1>7. StackInv'
  BY <1>1 DEF BootInv, StackInv
<1>8. OnInv'
  BY <1>1, <1>3 DEF BootInv, OnInv, Late
<1>9. ArriveInv'
  BY <1>1, <1>2, <1>3, ArriveKept
<1> QED BY <1>4, <1>5, <1>6, <1>7, <1>8, <1>9 DEF BootInv

(* A core that core 0 has started picks its own stack, ...                 *)
LEMMA PickOther ==
  ASSUME BootInv, NEW c \in Cores \ {0}, PickKernelStack(c)
  PROVE  BootInv'
<1>1. pc[c] = "entry"
  BY DEF PickKernelStack
<1>2. pc[0] = "wait" /\ c = id /\ running = id /\ 0 \in Cores
  BY <1>1, Started, CoresFinite DEF Starting
<1>3. smpInitDone = TRUE
  BY <1>2, Ready
<1>4. /\ sp' = [sp EXCEPT ![c] = c] /\ Goto(c, "announce")
      /\ UNCHANGED <<done, vectors, smpInitDone, apitCounter, running, id, on, arrived, threads>>
  BY <1>3 DEF PickKernelStack, global
<1>5. /\ pc' \in [Cores -> Early \union Starting \union Late \union {"off", "ipi", "wait"}]
      /\ pc'[c] = "announce" /\ pc'[0] = "wait" /\ \A d \in Cores \ {c} : pc'[d] = pc[d]
  BY <1>2, <1>4, Moves DEF Early
<1>6. TypeOK'
  BY <1>4, <1>5 DEF BootInv, TypeOK
<1>7. StartInv'
  <2>1. "announce" \in Starting /\ "wait" \notin Early \union Late
    BY DEF Starting, Early, Late
  <2>2. id' = id /\ running' = running /\ id \in Nat
    BY <1>4, BootAssumption DEF BootInv, TypeOK
  <2>3. \A d \in Cores \ {0} : /\ d < id' => pc'[d] \in Late
                               /\ d > id' => pc'[d] = "off"
    BY <1>2, <1>5, <2>2 DEF BootInv, StartInv
  <2>4. id < TotalProcs
    BY <1>2 DEF BootInv, StartInv
  <2> QED BY <1>2, <1>5, <2>1, <2>2, <2>3, <2>4 DEF StartInv
<1>8. PartsInv'
  BY <1>2, <1>4, <1>5, PartsKept
<1>9. StackInv'
  BY <1>4 DEF BootInv, StackInv, TypeOK
<1>10. OnInv'
  BY <1>1, <1>4, <1>5 DEF BootInv, OnInv, Late
<1>11. ArriveInv'
  BY <1>1, <1>2, <1>4, <1>5, ArriveKept
<1> QED BY <1>6, <1>7, <1>8, <1>9, <1>10, <1>11 DEF BootInv

(* ... and tells core 0 that it has left tempStack.                        *)
LEMMA AnnounceOther ==
  ASSUME BootInv, NEW c \in Cores \ {0}, Announce(c)
  PROVE  BootInv'
<1>1. /\ pc[c] = "announce" /\ running' = running + 1 /\ Goto(c, "lapic")
      /\ UNCHANGED <<sp, done, vectors, smpInitDone, apitCounter, id, on, arrived, threads>>
  BY DEF Announce, global
<1>2. pc[0] = "wait" /\ c = id /\ running = id /\ 0 \in Cores
  BY <1>1, Started, CoresFinite DEF Starting
<1>3. /\ pc' \in [Cores -> Early \union Starting \union Late \union {"off", "ipi", "wait"}]
      /\ pc'[c] = "lapic" /\ pc'[0] = "wait" /\ \A d \in Cores \ {c} : pc'[d] = pc[d]
  BY <1>1, <1>2, Moves DEF Late
<1>4. TypeOK'
  BY <1>1, <1>3 DEF BootInv, TypeOK
<1>5. StartInv'
  <2>1. "lapic" \in Late /\ "wait" \notin Early \union Late
    BY DEF Starting, Early, Late
  <2>2. id' = id /\ running' = id + 1 /\ id \in Nat
    BY <1>1, <1>2, BootAssumption DEF BootInv, TypeOK
  <2>3. \A d \in Cores \ {0} : /\ d < id' => pc'[d] \in Late
                               /\ d > id' => pc'[d] = "off"
    BY <1>2, <1>3, <2>2 DEF BootInv, StartInv
  <2>4. id < TotalProcs
    BY <1>2 DEF BootInv, StartInv
  <2> QED BY <1>2, <1>3, <2>1, <2>2, <2>3, <2>4 DEF StartInv
<1>6. PartsInv'
  BY <1>1, <1>2, <1>3, PartsKept
<1>7. StackInv'
  BY <1>1 DEF BootInv, StackInv
<1>8. OnInv'
  BY <1>1, <1>3 DEF BootInv, OnInv, Late
<1>9. ArriveInv'
  BY <1>1, <1>2, <1>3, ArriveKept
<1> QED BY <1>4, <1>5, <1>6, <1>7, <1>8, <1>9 DEF BootInv

-----------------------------------------------------------------------------
(* Core 0 by itself.                                                       *)
LEMMA PickZero ==
  ASSUME BootInv, PickKernelStack(0)
  PROVE  BootInv'
<1>1. pc[0] = "entry" /\ 0 \in Cores /\ done = {} /\ ~smpInitDone
  BY CoresFinite DEF PickKernelStack, BootInv, PartsInv
<1>2. /\ sp' = [sp EXCEPT ![0] = 0] /\ Goto(0, "init")
      /\ UNCHANGED <<done, vectors, smpInitDone, apitCounter, running, id, on, arrived, threads>>
  BY <1>1 DEF PickKernelStack, global
<1>3. /\ pc' \in [Cores -> Early \union Starting \union Late \union {"off", "ipi", "wait"}]
      /\ pc'[0] = "init" /\ \A d \in Cores \ {0} : pc'[d] = pc[d]
  BY <1>1, <1>2, Moves DEF Early
<1>4. TypeOK'
  BY <1>1, <1>2, <1>3 DEF BootInv, TypeOK
<1>5. StartInv'
  BY <1>1, <1>2, <1>3 DEF BootInv, StartInv, Early, Late
<1>6. PartsInv'
  <2>1. done' # Parts(Len(Order))
    BY <1>1, <1>2, OrderIs, AllParts
  <2> QED BY <1>2, <1>3, <2>1 DEF BootInv, PartsInv
<1>7. StackInv'
  BY <1>1, <1>2 DEF BootInv, StackInv, TypeOK
<1>8. OnInv'
  BY <1>1, <1>2, <1>3 DEF BootInv, OnInv, Late
<1>9. ArriveInv'
  <2>1. {d \in Cores : pc[d] \in {"make", "stop"}}' = {d \in Cores : pc[d] \in {"make", "stop"}}
    BY <1>1, <1>3
  <2>2. arrived' = Cardinality({d \in Cores : pc[d] \in {"make", "stop"}}')
    BY <1>2, <2>1 DEF BootInv, ArriveInv
  <2>3. \A d \in Cores : pc'[d] # "make"
    BY <1>1, <1>3 DEF BootInv, ArriveInv
  <2> QED BY <1>1, <1>2, <1>3, <2>2, <2>3 DEF BootInv, ArriveInv
<1> QED BY <1>4, <1>5, <1>6, <1>7, <1>8, <1>9 DEF BootInv

LEMMA InitPartKeeps ==
  ASSUME BootInv, InitPart
  PROVE  BootInv'
<1>0. 0 \in Cores /\ pc[0] = "init"
  BY CoresFinite DEF InitPart
<1>1. PICK k \in 0..7 : done = Parts(k)
  <2>1. PICK k \in 0..8 : done = Parts(k)
    BY OrderIs DEF BootInv, PartsInv
  <2>2. done # Parts(8)
    BY <1>0, OrderIs DEF BootInv, PartsInv
  <2> QED BY <2>1, <2>2
<1> DEFINE part == Order[k + 1]
           q == IF k = 7 THEN "announce" ELSE "init"
<1>2. NextPart = part /\ done' = Parts(k + 1) /\ part \notin done /\ done' = done \union {part}
  <2>1. Cardinality(done) = k
    BY <1>1, PartsCount
  <2>2. NextPart = part
    BY <2>1 DEF NextPart
  <2> QED BY <1>1, <2>2, NextParts DEF InitPart
<1>3. Cardinality(done') = Len(Order) <=> k = 7
  <2>1. k + 1 \in 0..8
    OBVIOUS
  <2>2. Cardinality(done') = k + 1
    BY <1>2, <2>1, PartsCount
  <2> QED BY <2>2, OrderIs
<1>4. /\ vectors' = vectors \union Vectors(part)
      /\ smpInitDone' = (smpInitDone \/ part = "apic")
      /\ on' = IF part = "apic" THEN [on EXCEPT ![0] = @ \union {"lapic"}] ELSE on
      /\ threads' = IF part = "threads" THEN Append(threads, "reaper") ELSE threads
      /\ Goto(0, q) /\ UNCHANGED <<sp, running, id, arrived>>
  BY <1>2, <1>3 DEF InitPart
<1>5. apitCounter' \in Nat /\ ("timer" \in done' => apitCounter' # 0)
  <2>1. CASE part = "timer"
    BY <1>2, <2>1, Calibrated DEF InitPart, Calibrate
  <2>2. CASE part # "timer"
    BY <1>2, <2>2 DEF InitPart, Calibrate, BootInv, TypeOK, PartsInv
  <2> QED BY <2>1, <2>2
<1>6. q \in {"announce", "init"} /\ q \in Early /\ (q = "announce" <=> k = 7)
  BY DEF Early
<1>7. /\ on' \in [Cores -> SUBSET {"lapic", "paging", "timer", "tss", "interrupts"}]
      /\ \A d \in Cores \ {0} : on'[d] = on[d]
      /\ on[0] \subseteq on'[0]
      /\ part = "apic" => "lapic" \in on'[0]
      /\ "interrupts" \in on'[0] => "interrupts" \in on[0]
  BY <1>0, <1>4 DEF BootInv, TypeOK
<1> HIDE DEF part, q
<1>8. /\ pc' \in [Cores -> Early \union Starting \union Late \union {"off", "ipi", "wait"}]
      /\ pc'[0] = q /\ \A d \in Cores \ {0} : pc'[d] = pc[d]
  BY <1>0, <1>4, <1>6, Moves
<1>9. TypeOK'
  <2>1. smpInitDone' \in BOOLEAN
    BY <1>4
  <2> QED BY <1>4, <1>5, <1>6, <1>7, <1>8, <2>1 DEF BootInv, TypeOK
<1>10. StartInv'
  <2>1. q \notin {"ipi", "wait"} /\ q \notin Late /\ pc[0] \in Early /\ pc[0] # "wait"
    BY <1>0, <1>6 DEF Early, Late
  <2> QED BY <1>4, <1>8, <2>1 DEF BootInv, StartInv
<1>11. PartsInv'
  <2>1. k + 1 \in 0..Len(Order)
    BY OrderIs
  <2>2. done' = Parts(Len(Order)) <=> k = 7
    <3>1. done' = Parts(8) => Cardinality(done') = 8
      BY PartsCount
    <3> QED BY <1>2, <1>3, <3>1, OrderIs
  <2>3. vectors' = UNION {Vectors(p) : p \in done'}
    BY <1>2, <1>4, MoreVectors DEF BootInv, PartsInv
  <2>4. smpInitDone' <=> "apic" \in done'
    BY <1>2, <1>4 DEF BootInv, PartsInv
  <2>5. "apic" \in done' => "lapic" \in on'[0]
    BY <1>2, <1>7 DEF BootInv, PartsInv
  <2>6. pc'[0] # "entry" /\ (pc'[0] = "init" <=> k # 7)
    BY <1>6, <1>8
  <2> QED BY <1>2, <1>5, <1>6, <1>8, <2>1, <2>2, <2>3, <2>4, <2>5, <2>6 DEF PartsInv
<1>12. StackInv'
  BY <1>4 DEF BootInv, StackInv
<1>13. OnInv'
  <2>1. pc'[0] \notin Late /\ "interrupts" \notin on'[0]
    BY <1>0, <1>6, <1>7, <1>8 DEF BootInv, OnInv, Late
  <2>2. pc'[0] \notin {"sti", "arrive", "make", "stop"}
    BY <1>6, <1>8
  <2> QED BY <1>7, <1>8, <2>1, <2>2 DEF BootInv, OnInv
<1>14. ArriveInv'
  <2>1. {d \in Cores : pc[d] \in {"make", "stop"}}' = {d \in Cores : pc[d] \in {"make", "stop"}}
    BY <1>0, <1>6, <1>8
  <2>2. arrived' = Cardinality({d \in Cores : pc[d] \in {"make", "stop"}}')
    BY <1>4, <2>1 DEF BootInv, ArriveInv
  <2>3. \A d \in Cores : pc'[d] # "make"
    BY <1>0, <1>6, <1>8 DEF BootInv, ArriveInv
  <2>4. threads' = IF "threads" \in done' THEN <<"reaper">> ELSE <<>>
    <3>1. threads = IF "threads" \in done THEN <<"reaper">> ELSE <<>>
      BY <1>0 DEF BootInv, ArriveInv
    <3>2. CASE part = "threads"
      BY <1>2, <1>4, <3>1, <3>2
    <3>3. CASE part # "threads"
      BY <1>2, <1>4, <3>1, <3>3
    <3> QED BY <3>2, <3>3
  <2>5. pc'[0] \notin {"entry", "init"} => threads' = <<"reaper">>
    BY <1>2, <1>6, <1>8, <2>4, AllParts
  <2> QED BY <2>2, <2>3, <2>4, <2>5 DEF ArriveInv
<1> QED BY <1>9, <1>10, <1>11, <1>12, <1>13, <1>14 DEF BootInv

(* A step of core 0 alone, after the initialization.                       *)
LEMMA ZeroKeeps ==
  ASSUME BootInv, NEW p \in {"announce", "ipi", "wait"}, NEW q \in {"ipi", "paging"},
         pc[0] = p, Goto(0, q), StartInv', id' \in 1..TotalProcs, running' \in Nat,
         UNCHANGED <<sp, done, vectors, smpInitDone, apitCounter, on, arrived, threads>>
  PROVE  BootInv'
<1>1. 0 \in Cores
  BY CoresFinite
<1>2. /\ pc' \in [Cores -> Early \union Starting \union Late \union {"off", "ipi", "wait"}]
      /\ pc'[0] = q /\ \A d \in Cores \ {0} : pc'[d] = pc[d]
  BY <1>1, Moves DEF Late
<1>3. TypeOK'
  BY <1>2 DEF BootInv, TypeOK
<1>4. PartsInv'
  BY <1>2, PartsKept
<1>5. StackInv'
  BY DEF BootInv, StackInv
<1>6. OnInv'
  BY <1>2 DEF BootInv, OnInv, Late
<1>7. ArriveInv'
  BY <1>1, <1>2, ArriveKept
<1> QED BY <1>3, <1>4, <1>5, <1>6, <1>7 DEF BootInv

LEMMA AnnounceZero ==
  ASSUME BootInv, Announce(0)
  PROVE  BootInv'
<1>1. /\ pc[0] = "announce" /\ running' = running + 1 /\ Goto(0, "ipi")
      /\ UNCHANGED <<sp, done, vectors, smpInitDone, apitCounter, id, on, arrived, threads>>
  BY DEF Announce, global
<1>2. 0 \in Cores /\ id = 1 /\ running = 0 /\ "announce" \in Early
  BY <1>1, CoresFinite DEF BootInv, StartInv, Early
<1>3. pc'[0] = "ipi" /\ \A d \in Cores \ {0} : pc'[d] = pc[d]
  BY <1>1, <1>2, Moves
<1>4. StartInv'
  BY <1>1, <1>2, <1>3 DEF BootInv, StartInv, Early, Late
<1>5. id' \in 1..TotalProcs /\ running' \in Nat
  BY <1>1, <1>2 DEF BootInv, TypeOK
<1> QED BY <1>1, <1>4, <1>5, ZeroKeeps

LEMMA NextIdKeeps ==
  ASSUME BootInv, NextId
  PROVE  BootInv'
<1>1. /\ pc[0] = "wait" /\ running > id /\ id' = id + 1 /\ Goto(0, "ipi")
      /\ UNCHANGED <<sp, done, vectors, smpInitDone, apitCounter, running, on, arrived, threads>>
  BY DEF NextId, Released, global
<1>2. /\ 0 \in Cores /\ id \in Nat /\ id >= 1 /\ id < TotalProcs /\ running \in Nat
      /\ TotalProcs \in Nat
  BY <1>1, CoresFinite, BootAssumption DEF BootInv, StartInv, TypeOK
<1>3. pc'[0] = "ipi" /\ \A d \in Cores \ {0} : pc'[d] = pc[d]
  BY <1>1, <1>2, Moves
<1>4. running = id + 1 /\ pc[id] \in Late
  BY <1>1, <1>2 DEF BootInv, StartInv
<1>5. StartInv'
  <2>1. \A d \in Cores \ {0} : d \in Nat
    BY CoresFinite
  <2>2. \A d \in Cores \ {0} : d < id + 1 => pc[d] \in Late
    <3> SUFFICES ASSUME NEW d \in Cores \ {0}, d < id + 1 PROVE pc[d] \in Late
      OBVIOUS
    <3>1. d < id \/ d = id
      BY <1>2, <2>1
    <3> QED BY <1>4, <3>1 DEF BootInv, StartInv
  <2>3. \A d \in Cores \ {0} : d >= id + 1 => pc[d] = "off"
    <3> SUFFICES ASSUME NEW d \in Cores \ {0}, d >= id + 1 PROVE pc[d] = "off"
      OBVIOUS
    <3>1. d > id
      BY <1>2, <2>1
    <3> QED BY <3>1 DEF BootInv, StartInv
  <2>4. \A d \in Cores \ {0} : d > id + 1 \/ d = id + 1 => d >= id + 1
    BY <1>2, <2>1
  <2> QED BY <1>1, <1>3, <1>4, <2>2, <2>3, <2>4 DEF StartInv, Early, Late
<1>6. id' \in 1..TotalProcs /\ running' \in Nat
  BY <1>1, <1>2
<1> QED BY <1>1, <1>5, <1>6, ZeroKeeps

LEMMA LastIdKeeps ==
  ASSUME BootInv, LastId
  PROVE  BootInv'
<1>1. /\ pc[0] = "ipi" /\ id >= TotalProcs /\ Goto(0, "paging")
      /\ UNCHANGED <<sp, done, vectors, smpInitDone, apitCounter, running, id, on, arrived, threads>>
  BY DEF LastId, global
<1>2. 0 \in Cores /\ id = TotalProcs
  BY <1>1, CoresFinite, BootAssumption DEF BootInv, TypeOK
<1>3. pc'[0] = "paging" /\ \A d \in Cores \ {0} : pc'[d] = pc[d]
  BY <1>1, <1>2, Moves DEF Late
<1>4. StartInv'
  BY <1>1, <1>2, <1>3 DEF BootInv, StartInv, Early, Late
<1>5. id' \in 1..TotalProcs /\ running' \in Nat
  BY <1>1 DEF BootInv, TypeOK
<1> QED BY <1>1, <1>4, <1>5, ZeroKeeps

(* Core 0 resets core id and waits.                                        *)
LEMMA SendIpiKeeps ==
  ASSUME BootInv, SendIpi
  PROVE  BootInv'
<1>1. /\ pc[0] = "ipi" /\ id < TotalProcs
      /\ pc' = [pc EXCEPT ![0] = "wait", ![id] = "reset"]
      /\ UNCHANGED <<sp, done, vectors, smpInitDone, apitCounter, running, id, on, arrived, threads>>
  BY DEF SendIpi, global
<1>2. 0 \in Cores /\ id \in Cores \ {0} /\ id \in Nat
  BY <1>1, CoresFinite, BootAssumption DEF BootInv, TypeOK, Cores
<1>3. pc[id] = "off" /\ running = id
  BY <1>1, <1>2 DEF BootInv, StartInv
<1>4. /\ pc' \in [Cores -> Early \union Starting \union Late \union {"off", "ipi", "wait"}]
      /\ pc'[0] = "wait" /\ pc'[id] = "reset"
      /\ \A d \in Cores \ {0, id} : pc'[d] = pc[d]
  BY <1>1, <1>2 DEF BootInv, TypeOK, Starting
<1>5. TypeOK'
  BY <1>1, <1>4 DEF BootInv, TypeOK
<1>6. StartInv'
  <2>1. "reset" \in Starting /\ "wait" \notin Early \union Late
    BY DEF Starting, Early, Late
  <2>2. \A d \in Cores \ {0} : /\ d < id' => pc'[d] \in Late
                               /\ d > id' => pc'[d] = "off"
    BY <1>1, <1>2, <1>4, CoresFinite DEF BootInv, StartInv
  <2> QED BY <1>1, <1>3, <1>4, <2>1, <2>2 DEF StartInv
<1>7. PartsInv'
  BY <1>1, <1>4, PartsKept
<1>8. StackInv'
  BY <1>1 DEF BootInv, StackInv
<1>9. OnInv'
  BY <1>1, <1>2, <1>3, <1>4 DEF BootInv, OnInv, Late
<1>10. ArriveInv'
  <2>1. {d \in Cores : pc[d] \in {"make", "stop"}}' = {d \in Cores : pc[d] \in {"make", "stop"}}
    BY <1>1, <1>3, <1>4
  <2>2. arrived' = Cardinality({d \in Cores : pc[d] \in {"make", "stop"}}')
    BY <1>1, <2>1 DEF BootInv, ArriveInv
  <2>3. \A d \in Cores : pc'[d] # "make"
    BY <1>1, <1>2, <1>3, <1>4 DEF BootInv, ArriveInv
  <2>4. threads' = <<"reaper">>
    BY <1>1, <1>2 DEF BootInv, ArriveInv
  <2> QED BY <1>4, <2>2, <2>3, <2>4 DEF ArriveInv
<1> QED BY <1>5, <1>6, <1>7, <1>8, <1>9, <1>10 DEF BootInv

-----------------------------------------------------------------------------
LEMMA InitBoot == Init => BootInv
<1> SUFFICES ASSUME Init PROVE BootInv
  OBVIOUS
<1>1. /\ 0 \in Cores /\ pc[0] = "entry" /\ \A c \in Cores \ {0} : pc[c] = "off"
      /\ \A c \in Cores : sp[c] = None /\ on[c] = {}
      /\ id = 1 /\ running = 0 /\ arrived = 0 /\ done = {} /\ vectors = {} /\ threads = <<>>
      /\ smpInitDone = FALSE /\ apitCounter = 0
  BY CoresFinite DEF Init
<1>2. TypeOK
  BY <1>1, BootAssumption DEF Init, TypeOK, Early
<1>3. StartInv
  <2>1. \A c \in Cores \ {0} : ~(c < 1)
    BY CoresFinite
  <2> QED BY <1>1, <2>1 DEF StartInv, Early, Late
<1>4. PartsInv
  <2>1. 0 \in 0..Len(Order) /\ Parts(0) = {}
    BY OrderIs, PartsCount
  <2> QED BY <1>1, <2>1 DEF PartsInv
<1>5. StackInv
  BY <1>1 DEF StackInv
<1>6. OnInv
  BY <1>1 DEF OnInv, Late
<1>7. ArriveInv
  <2>1. {c \in Cores : pc[c] \in {"make", "stop"}} = {}
    BY <1>1
  <2>2. Cardinality({}) = 0
    BY FS_EmptySet
  <2> QED BY <1>1, <2>1, <2>2 DEF ArriveInv
<1> QED BY <1>2, <1>3, <1>4, <1>5, <1>6, <1>7 DEF BootInv

LEMMA NextBoot == BootInv /\ [Next]_vars => BootInv'
<1> SUFFICES ASSUME BootInv, [Next]_vars PROVE BootInv'
  OBVIOUS
<1>1. CASE CoreZero
  BY <1>1, InitPartKeeps, SendIpiKeeps, NextIdKeeps, LastIdKeeps DEF CoreZero
<1>2. ASSUME NEW c \in Cores, Step(c) PROVE BootInv'
  <2>1. CASE PickKernelStack(c)
    BY <2>1, PickZero, PickOther
  <2>2. CASE Announce(c)
    BY <2>2, AnnounceZero, AnnounceOther
  <2> QED BY <1>2, <2>1, <2>2, ResetKeeps, SwitchOnKeeps, ArriveKeeps, MakeInitKeeps DEF Step
<1>3. CASE UNCHANGED vars
  BY <1>3 DEF vars, BootInv, TypeOK, StartInv, PartsInv, StackInv, OnInv, ArriveInv
<1>4. CASE Next
  BY <1>1, <1>2, <1>4 DEF Next
<1> QED BY <1>3, <1>4

(* While core 0 initializes, the others are off; while it waits, one core  *)
(* at most is between its reset and its announcement; and what each has    *)
(* switched on, and how many have arrived, is what its program counter     *)
(* says (init.cc, mbr.S, smp.cc).                                          *)
THEOREM BootCorrect == Spec => []BootInv
BY InitBoot, NextBoot, PTL DEF Spec

(* With any number of cores: one at a time on tempStack, a stack for each, *)
(* nothing used before it is set up, no interrupt without its handler, and *)
(* init made by a core that is alone with the heap.                        *)
THEOREM BootSoundCorrect == Spec => []BootSound
<1>1. BootInv => BootSound
  <2> SUFFICES ASSUME BootInv PROVE BootSound
    OBVIOUS
  <2>0. 0 \in Cores /\ \A c \in Cores : c \in Nat
    BY CoresFinite
  <2>1. OneOnTempStack
    <3>1. \A c \in Cores \ {0} : pc[c] = "entry" => c = id /\ pc[0] = "wait"
      BY Started DEF Starting
    <3> QED BY <3>1 DEF OneOnTempStack
  <2>2. StacksApart
    <3>1. \A c \in Cores : sp[c] # None => sp[c] = c
      BY DEF BootInv, StackInv
    <3> QED BY <3>1 DEF StacksApart
  <2>3. pc[0] = "init" => Needs(NextPart) \subseteq done
    <3> SUFFICES ASSUME pc[0] = "init" PROVE Needs(NextPart) \subseteq done
      OBVIOUS
    <3>1. PICK k \in 0..8 : done = Parts(k)
      BY OrderIs DEF BootInv, PartsInv
    <3>2. done # Parts(8)
      BY OrderIs DEF BootInv, PartsInv
    <3>3. k \in 0..7 /\ NextPart = Order[k + 1]
      BY <3>1, <3>2, PartsCount DEF NextPart
    <3> QED BY <3>1, <3>3, NeedsMet
  <2>4. \A c \in Cores \ {0} :
          pc[c] # "off" => Cardinality(done) = Len(Order) /\ apitCounter # 0
    <3> SUFFICES ASSUME NEW c \in Cores \ {0}, pc[c] # "off"
                 PROVE  Cardinality(done) = Len(Order) /\ apitCounter # 0
      OBVIOUS
    <3>1. pc[0] \notin {"entry", "init"}
      BY Started DEF Early
    <3>2. done = Parts(8) /\ apitCounter # 0
      BY <3>1, OrderIs, AllParts DEF BootInv, PartsInv
    <3> QED BY <3>2, OrderIs, PartsCount
  <2>5. ASSUME NEW c \in Cores, "interrupts" \in on[c]
        PROVE  {"lapic", "paging", "tss"} \subseteq on[c] /\ {14, 40, 48, 255} \subseteq vectors
    <3>1. pc[c] \in {"arrive", "make", "stop"} /\ pc[c] \in Late
      BY <2>5 DEF BootInv, OnInv, Late
    <3>2. done = Parts(8)
      BY <3>1, Ready
    <3>3. "lapic" \in on[c]
      BY <3>1, <3>2, AllParts DEF BootInv, OnInv, PartsInv, Late
    <3>4. "paging" \in on[c] /\ "tss" \in on[c]
      BY <3>1 DEF BootInv, OnInv, Late
    <3>5. vectors = UNION {Vectors(p) : p \in Parts(8)}
      BY <3>2 DEF BootInv, PartsInv
    <3> QED BY <3>3, <3>4, <3>5, AllParts
  <2>6. AloneWithHeap
    <3> SUFFICES ASSUME NEW c \in Cores, pc[c] = "make"
                 PROVE  threads = <<"reaper">> /\ \A d \in Cores \ {c} : pc[d] = "stop"
      BY DEF AloneWithHeap
    <3>1. pc[0] \notin {"entry", "init"}
      BY Ready DEF Late, Early
    <3> QED BY <3>1 DEF BootInv, ArriveInv
  <2> QED BY <2>1, <2>2, <2>3, <2>4, <2>5, <2>6 DEF BootSound, InOrder
<1> QED BY <1>1, BootCorrect, PTL

=============================================================================
