-------------------------- MODULE SpinLocksProofs --------------------------
(***************************************************************************)
(* Proofs about SpinLocks, for any number of cores and locks of each kind  *)
(* and any number of calls.  SpinInv is inductive: the step of a context   *)
(* keeps what the invariant says of the others (Others), and one lemma per *)
(* action shows what it says of the context that steps.                    *)
(***************************************************************************)
EXTENDS SpinLocks, SequenceTheorems, TLAPS

LEMMA ContextNames ==
  /\ \A x \in Contexts : Core(x) \in Cores /\ x[2] \in {"task", "irq"}
  /\ \A x, y \in Contexts : Core(x) = Core(y) /\ x[2] = y[2] => x = y
  /\ \A c \in Cores :
       /\ <<c, "task">> \in Contexts /\ <<c, "irq">> \in Contexts
       /\ Core(<<c, "task">>) = c /\ Core(<<c, "irq">>) = c
       /\ <<c, "task">>[2] = "task" /\ <<c, "irq">>[2] = "irq"
BY DEF Contexts, Core

LEMMA SeqFacts ==
  ASSUME NEW S, NEW s \in Seq(S)
  PROVE  /\ Len(s) \in Nat /\ DOMAIN s = 1..Len(s)
         /\ \A i \in 1..Len(s) : s[i] \in S
         /\ s = <<>> <=> Len(s) = 0
<1>1. Len(s) \in Nat /\ DOMAIN s = 1..Len(s)
  BY LenProperties
<1>2. s = <<>> => Len(s) = 0
  BY EmptySeq
<1>3. s # <<>> => Len(s) # 0
  BY EmptySeq
<1>4. \A i \in 1..Len(s) : s[i] \in S
  BY ElementOfSeq
<1> QED BY <1>1, <1>2, <1>3, <1>4

(* What a context has is a sequence of locks.                              *)
LEMMA HeldFacts ==
  ASSUME TypeOK, NEW x \in Contexts
  PROVE  /\ Len(held[x]) \in Nat /\ DOMAIN held[x] = 1..Len(held[x])
         /\ \A i \in 1..Len(held[x]) : held[x][i].lock \in Locks /\ held[x][i].flag \in BOOLEAN
         /\ held[x] = <<>> <=> Len(held[x]) = 0
<1>1. held[x] \in Seq(HeldLock)
  BY DEF TypeOK
<1>2. /\ Len(held[x]) \in Nat /\ DOMAIN held[x] = 1..Len(held[x])
      /\ held[x] = <<>> <=> Len(held[x]) = 0
      /\ \A i \in 1..Len(held[x]) : held[x][i] \in HeldLock
  BY <1>1, SeqFacts
<1> QED BY <1>2 DEF HeldLock

(* A step of x outside the critical data of other contexts keeps what the  *)
(* invariant says of them: the flag of the core belongs to x while x runs. *)
LEMMA Others ==
  ASSUME SpinInv, NEW x \in Contexts, Active(x), NEW y \in Contexts \ {x},
         inIrq' = inIrq,
         pc'[y] = pc[y], want'[y] = want[y], local'[y] = local[y],
         held'[y] = held[y], outside'[y] = outside[y],
         \A c \in Cores \ {Core(x)} : irqOff'[c] = irqOff[c],
         \A l \in Locks : Holds(y, l) => was'[l] = was[l]
  PROVE  Nested(y)' /\ Flagged(y)'
<1>1. Nested(y)'
  BY DEF SpinInv, Nested
<1>2. Flag(y)' <=> Flag(y)
  BY ContextNames DEF Flag, Active
<1>3. /\ Off(y)' <=> Off(y)
      /\ \A i \in 1..Len(held[y]) : Before(y, i)' <=> Before(y, i)
      /\ Before(y, Len(held[y]))' <=> Before(y, Len(held[y]))
  BY DEF Off, Before
<1>4. \A i \in 1..Len(held[y]) :
        was'[held[y][i].lock] = was[held[y][i].lock]
  BY HeldFacts DEF SpinInv, Holds
<1>5. Flagged(y)
  BY DEF SpinInv
<1>6. Flagged(y)'
  BY <1>2, <1>3, <1>4, <1>5 DEF Flagged
<1> QED BY <1>1, <1>6

(* What is left to show for a step of x.                                   *)
LEMMA StepKeeps ==
  ASSUME SpinInv, NEW x \in Contexts, Active(x),
         UNCHANGED <<inIrq, outside>>,
         \A y \in Contexts \ {x} :
           /\ pc'[y] = pc[y] /\ want'[y] = want[y] /\ local'[y] = local[y]
           /\ held'[y] = held[y]
           /\ \A l \in Locks : Holds(y, l) => was'[l] = was[l],
         \A c \in Cores \ {Core(x)} : irqOff'[c] = irqOff[c],
         x[2] = "irq" => /\ want'[x] # None => Masks(want'[x])
                         /\ \A i \in 1..Len(held'[x]) : Masks(held'[x][i].lock),
         TypeOK', Nested(x)', Flagged(x)', MutualExclusion'
  PROVE  SpinInv'
<1>1. ASSUME NEW y \in Contexts \ {x} PROVE Nested(y)' /\ Flagged(y)'
  BY <1>1, Others
<1>2. ASSUME NEW c \in Cores PROVE Handles(c)'
  <2> DEFINE h == <<c, "irq">>
  <2>1. h \in Contexts /\ Core(h) = c /\ h[2] = "irq"
    BY ContextNames
  <2>2. Handles(c)
    BY DEF SpinInv
  <2>3. CASE h = x
    <3>1. inIrq[c]
      BY <2>1, <2>3 DEF Active
    <3> QED BY <2>2, <2>3, <2>1, <3>1 DEF Handles, Active
  <2>4. CASE h # x
    BY <2>1, <2>2, <2>4 DEF Handles
  <2> QED BY <2>3, <2>4
<1> QED BY <1>1, <1>2 DEF SpinInv

(* A step that takes and releases nothing.                                 *)
LEMMA HeldKept ==
  ASSUME SpinInv, UNCHANGED <<taken, held>>
  PROVE  MutualExclusion'
BY DEF SpinInv, MutualExclusion, Holds

(* The flags that the locks of x keep depend on those locks only.          *)
LEMMA BeforeKept ==
  ASSUME UNCHANGED <<held, outside>>, NEW x, NEW i
  PROVE  (Before(x, i)' <=> Before(x, i)) /\ (Off(x)' <=> Off(x))
BY DEF Off, Before

LEMMA RequestKeeps ==
  ASSUME SpinInv, NEW x \in Contexts, NEW l \in Locks, Request(x, l)
  PROVE  SpinInv'
<1> USE DEF Request, At, Goto
<1>1. TypeOK'
  BY DEF SpinInv, TypeOK, Points
<1>2. /\ pc'[x] = "monitor" /\ want'[x] = l /\ held'[x] = held[x]
      /\ pc[x] = "run" /\ Nested(x) /\ Flagged(x) /\ l # None
  BY SpinLocksAssumption DEF SpinInv, TypeOK
<1>3. Nested(x)'
  BY <1>2, HeldFacts DEF Nested, SpinInv
<1>4. Flag(x)' <=> Flag(x)
  BY DEF Flag, Active
<1>5. Flagged(x)'
  BY <1>2, <1>4, BeforeKept DEF Flagged
<1>6. x[2] = "irq" => Masks(l) /\ \A i \in 1..Len(held[x]) : Masks(held[x][i].lock)
  <2> SUFFICES ASSUME x[2] = "irq" PROVE \A i \in 1..Len(held[x]) : Masks(held[x][i].lock)
    BY DEF Masks
  <2>1. x = <<Core(x), "irq">> /\ Core(x) \in Cores
    BY ContextNames
  <2> QED BY <2>1 DEF SpinInv, Handles
<1> QED
  BY <1>1, <1>2, <1>3, <1>5, <1>6, HeldKept, StepKeeps DEF SpinInv, TypeOK

(* What a handler has and asks for masks interrupts.                       *)
LEMMA HandlerMasks ==
  ASSUME SpinInv, NEW x \in Contexts, x[2] = "irq"
  PROVE  /\ outside[x]
         /\ want[x] # None => Masks(want[x])
         /\ \A i \in 1..Len(held[x]) : Masks(held[x][i].lock)
<1>1. x = <<Core(x), "irq">> /\ Core(x) \in Cores
  BY ContextNames
<1> QED BY <1>1 DEF SpinInv, Handles

LEMMA MonitorKeeps ==
  ASSUME SpinInv, NEW x \in Contexts, Monitor(x)
  PROVE  SpinInv'
<1> USE DEF Monitor, At, Goto
<1>0. Nested(x) /\ Flagged(x) /\ pc[x] = "monitor" /\ want[x] \in Locks
  BY DEF SpinInv, TypeOK, Nested
<1>1. TypeOK'
  BY <1>0, ContextNames DEF SpinInv, TypeOK, Points
<1>2. /\ pc'[x] = IF Masks(want[x]) THEN "disable" ELSE "exchange"
      /\ want' = want /\ held' = held /\ local' = local
  BY DEF SpinInv, TypeOK, Masks
<1>3. Nested(x)'
  BY <1>0, <1>2, HeldFacts DEF Nested, SpinInv, Masks
<1>4. Flag(x)' <=> Flag(x)
  BY DEF Flag, Active
<1>5. Flagged(x)'
  BY <1>0, <1>2, <1>4, BeforeKept DEF Flagged
<1> QED
  BY <1>1, <1>2, <1>3, <1>5, HandlerMasks, HeldKept, StepKeeps DEF SpinInv, TypeOK

LEMMA DisableKeeps ==
  ASSUME SpinInv, NEW x \in Contexts, Disable(x)
  PROVE  SpinInv'
<1> USE DEF Disable, At, Goto, Cli
<1>a. Core(x) \in Cores
  BY ContextNames
<1>0. /\ Nested(x) /\ Flagged(x) /\ pc[x] = "disable" /\ want[x] \in Locks
      /\ Core(x) \in Cores /\ Active(x)
  BY <1>a DEF SpinInv, TypeOK, Nested
<1>1. TypeOK'
  BY <1>0 DEF SpinInv, TypeOK, Points
<1>2. /\ pc'[x] = "exchange" /\ want' = want /\ held' = held
      /\ local'[x] = irqOff[Core(x)] /\ irqOff'[Core(x)]
  BY <1>0 DEF SpinInv, TypeOK
<1>3. Nested(x)'
  BY <1>0, <1>2, HeldFacts DEF Nested, SpinInv
<1>4. Flag(x)' /\ (local'[x] <=> Flag(x))
  BY <1>0, <1>2 DEF Flag, Active
<1>5. Flagged(x)'
  BY <1>0, <1>2, <1>4, BeforeKept DEF Flagged, Nested
<1> QED
  BY <1>0, <1>1, <1>2, <1>3, <1>5, HandlerMasks, HeldKept, StepKeeps DEF SpinInv, TypeOK

LEMMA SaveKeeps ==
  ASSUME SpinInv, NEW x \in Contexts, Save(x)
  PROVE  SpinInv'
<1> USE DEF Save, At, Goto, Return
<1> DEFINE l == want[x]  n == Len(held[x])
<1>0. /\ Nested(x) /\ Flagged(x) /\ pc[x] = "save" /\ l \in Locks /\ Masks(l)
      /\ Core(x) \in Cores /\ Active(x)
      /\ n \in Nat \ {0} /\ held[x][n].lock = l
  BY ContextNames, HeldFacts DEF SpinInv, TypeOK, Nested
<1>1. TypeOK'
  BY <1>0 DEF SpinInv, TypeOK, Points
<1>2. /\ pc'[x] = "run" /\ want'[x] = None /\ held' = held
      /\ was'[l] = local[x] /\ \A k \in Locks \ {l} : was'[k] = was[k]
  BY <1>0 DEF SpinInv, TypeOK
<1>3. Nested(x)'
  BY <1>0, <1>2 DEF Nested
<1>4. Flag(x)' <=> Flag(x)
  BY DEF Flag, Active
<1>5. Flagged(x)'
  <2>1. Off(x)
    BY <1>0 DEF Off, Before
  <2>2. \A i \in 1..n : held[x][i].lock = l => i = n
    <3> SUFFICES ASSUME NEW i \in 1..n, held[x][i].lock = l, i # n PROVE FALSE
      OBVIOUS
    <3>1. l < l
      BY <1>0 DEF Nested
    <3>2. l \in Nat
      BY <1>0, SpinLocksAssumption
    <3> QED BY <3>1, <3>2
  <2>3. local[x] <=> Before(x, n)
    BY <1>0 DEF Flagged
  <2>4. ASSUME NEW i \in 1..n, Kind[held[x][i].lock] = "isafe"
        PROVE  was'[held[x][i].lock] <=> Before(x, i)
    <3>1. CASE i = n
      BY <1>0, <1>2, <2>3, <3>1
    <3>2. CASE i # n
      BY <1>0, <1>2, <2>2, <2>4, <3>2, HeldFacts DEF Flagged, SpinInv
    <3> QED BY <3>1, <3>2
  <2> QED BY <1>0, <1>2, <1>4, <2>1, <2>4, BeforeKept DEF Flagged
<1>6. \A y \in Contexts \ {x} : \A k \in Locks : Holds(y, k) => was'[k] = was[k]
  <2>1. Holds(x, l)
    BY <1>0, HeldFacts DEF Holds, SpinInv
  <2> QED BY <1>0, <1>2, <2>1 DEF SpinInv, MutualExclusion
<1>7. \A y \in Contexts \ {x} :
        pc'[y] = pc[y] /\ want'[y] = want[y] /\ local'[y] = local[y] /\ held'[y] = held[y]
  BY DEF SpinInv, TypeOK
<1> QED
  BY <1>0, <1>1, <1>2, <1>3, <1>5, <1>6, <1>7, HandlerMasks, HeldKept, StepKeeps

LEMMA RestoreKeeps ==
  ASSUME SpinInv, NEW x \in Contexts, Restore(x)
  PROVE  SpinInv'
<1> USE DEF Restore, At, Goto
<1>a. Core(x) \in Cores
  BY ContextNames
<1>0. /\ Nested(x) /\ Flagged(x) /\ pc[x] = "restore" /\ want[x] \in Locks
      /\ Core(x) \in Cores /\ Active(x) /\ Masks(want[x])
  BY <1>a DEF SpinInv, TypeOK, Nested
<1>1. TypeOK'
  BY <1>0 DEF SpinInv, TypeOK, Points
<1>2. /\ pc'[x] = "mwait" /\ want' = want /\ held' = held /\ local' = local
      /\ irqOff'[Core(x)] <=> irqOff[Core(x)] /\ local[x]
  BY <1>0 DEF SpinInv, TypeOK
<1>3. Nested(x)'
  BY <1>0, <1>2, HeldFacts DEF Nested, SpinInv
<1>4. Flag(x)' <=> (Flag(x) /\ local[x])
  BY <1>0, <1>2 DEF Flag, Active
<1>5. Flagged(x)'
  BY <1>0, <1>2, <1>4, BeforeKept DEF Flagged
<1> QED
  BY <1>0, <1>1, <1>2, <1>3, <1>5, HandlerMasks, HeldKept, StepKeeps DEF SpinInv, TypeOK

LEMMA MwaitKeeps ==
  ASSUME SpinInv, NEW x \in Contexts, Mwait(x)
  PROVE  SpinInv'
<1> USE DEF Mwait, At, Goto
<1>0. Nested(x) /\ Flagged(x) /\ pc[x] = "mwait" /\ Active(x)
  BY DEF SpinInv
<1>1. TypeOK'
  BY DEF SpinInv, TypeOK, Points
<1>2. pc'[x] = "monitor" /\ want' = want /\ held' = held /\ local' = local
  BY DEF SpinInv, TypeOK
<1>3. Nested(x)'
  BY <1>0, <1>2 DEF Nested
<1>4. Flag(x)' <=> Flag(x)
  BY DEF Flag, Active
<1>5. Flagged(x)'
  BY <1>0, <1>2, <1>4, BeforeKept DEF Flagged
<1> QED
  BY <1>0, <1>1, <1>2, <1>3, <1>5, HandlerMasks, HeldKept, StepKeeps DEF SpinInv, TypeOK

-----------------------------------------------------------------------------
(* Taking a lock and releasing the last one.                               *)
LEMMA PushFacts ==
  ASSUME NEW S, NEW s \in Seq(S), NEW e \in S
  PROVE  /\ Append(s, e) \in Seq(S) /\ Len(Append(s, e)) = Len(s) + 1
         /\ \A i \in 1..Len(s) : Append(s, e)[i] = s[i]
         /\ Append(s, e)[Len(s) + 1] = e
BY AppendProperties

LEMMA PopFacts ==
  ASSUME NEW S, NEW s \in Seq(S), s # <<>>
  PROVE  LET f == SubSeq(s, 1, Len(s) - 1) IN
         /\ f \in Seq(S) /\ Len(f) = Len(s) - 1
         /\ \A i \in 1..(Len(s) - 1) : f[i] = s[i]
<1>1. Len(s) \in Nat \ {0} /\ \A i \in 1..Len(s) : s[i] \in S
  BY SeqFacts
<1>2. /\ 1 \in Int /\ Len(s) - 1 \in Int
      /\ \A i \in 1..(Len(s) - 1) : s[i] \in S
  BY <1>1
<1>3. LET f == SubSeq(s, 1, Len(s) - 1) IN
      /\ f \in Seq(S)
      /\ Len(f) = IF 1 <= Len(s) - 1 THEN (Len(s) - 1) - 1 + 1 ELSE 0
      /\ \A i \in 1..((Len(s) - 1) - 1 + 1) : f[i] = s[1 + i - 1]
  BY <1>2, SubSeqProperties
<1>4. (Len(s) - 1) - 1 + 1 = Len(s) - 1 /\ \A i \in 1..(Len(s) - 1) : 1 + i - 1 = i
  BY <1>1
<1>a. \A m \in Nat \ {0} : (IF 1 <= m - 1 THEN (m - 1) - 1 + 1 ELSE 0) = m - 1
  OBVIOUS
<1>5. (IF 1 <= Len(s) - 1 THEN (Len(s) - 1) - 1 + 1 ELSE 0) = Len(s) - 1
  BY <1>1, <1>a
<1> QED BY <1>3, <1>4, <1>5

(* The exchange of x finds the lock free.                                  *)
LEMMA AcquireKeeps ==
  ASSUME SpinInv, NEW x \in Contexts, Exchange(x), Acquired(want[x])
  PROVE  SpinInv'
<1> DEFINE l == want[x]  e == [lock |-> l, flag |-> local[x]]
<1> PICK n \in Nat : n = Len(held[x])
  BY HeldFacts DEF SpinInv
<1>0. Core(x) \in Cores
  BY ContextNames
<1>a. /\ Nested(x) /\ Flagged(x) /\ pc[x] = "exchange" /\ l \in Locks
      /\ l # None /\ Active(x) /\ local[x] \in BOOLEAN /\ ~taken[l]
  BY DEF SpinInv, TypeOK, Nested, Exchange, At, Acquired
<1>b. l \in Nat /\ Kind[l] \in {"spin", "isafe", "isl"}
  BY <1>a, SpinLocksAssumption
<1>1. /\ Nested(x) /\ Flagged(x) /\ pc[x] = "exchange" /\ l \in Locks /\ l \in Nat
      /\ l # None /\ Active(x) /\ n \in Nat /\ local[x] \in BOOLEAN /\ ~taken[l]
      /\ Kind[l] \in {"spin", "isafe", "isl"}
  BY <1>a, <1>b
<1>2. /\ held' = [held EXCEPT ![x] = Append(@, e)]
      /\ taken' = [taken EXCEPT ![l] = TRUE]
      /\ mon' = [d \in Cores |-> IF d # Core(x) /\ mon[d] = l THEN None ELSE mon[d]]
      /\ UNCHANGED <<irqOff, inIrq, was, left, outside>>
  BY DEF Exchange, Store
<1>3. \/ /\ Kind[l] = "isafe" /\ pc' = [pc EXCEPT ![x] = "save"]
         /\ want' = want /\ local' = local
      \/ /\ Kind[l] # "isafe" /\ pc' = [pc EXCEPT ![x] = "run"]
         /\ want' = [want EXCEPT ![x] = None]
         /\ local' = [local EXCEPT ![x] = FALSE]
  BY DEF Exchange, Return, Goto
<1>4. e \in HeldLock /\ held[x] \in Seq(HeldLock)
  BY <1>1 DEF HeldLock, SpinInv, TypeOK
<1>5. /\ held'[x] \in Seq(HeldLock) /\ Len(held'[x]) = n + 1
      /\ \A i \in 1..n : held'[x][i] = held[x][i]
      /\ held'[x][n + 1] = e /\ e.lock = l /\ e.flag = local[x]
      /\ \A y \in Contexts \ {x} : held'[y] = held[y]
  BY <1>2, <1>4, PushFacts DEF SpinInv, TypeOK
<1>6. TypeOK'
  <2>1. held' \in [Contexts -> Seq(HeldLock)]
    BY <1>2, <1>5 DEF SpinInv, TypeOK
  <2>2. /\ taken' \in [Locks -> BOOLEAN] /\ mon' \in [Cores -> Locks \union {None}]
    BY <1>2 DEF SpinInv, TypeOK
  <2>3. /\ pc' \in [Contexts -> Points] /\ want' \in [Contexts -> Locks \union {None}]
        /\ local' \in [Contexts -> BOOLEAN]
    BY <1>3 DEF SpinInv, TypeOK, Points
  <2> QED BY <1>2, <2>1, <2>2, <2>3 DEF SpinInv, TypeOK
<1>7. \/ Kind[l] = "isafe" /\ pc'[x] = "save" /\ want'[x] = l /\ local'[x] = local[x]
      \/ Kind[l] # "isafe" /\ pc'[x] = "run" /\ want'[x] = None
  BY <1>3 DEF SpinInv, TypeOK
<1>8. Nested(x)'
  <2>1. \A i, j \in 1..(n + 1) : i < j => held'[x][i].lock < held'[x][j].lock
    <3> SUFFICES ASSUME NEW i \in 1..(n + 1), NEW j \in 1..(n + 1), i < j
                 PROVE  held'[x][i].lock < held'[x][j].lock
      OBVIOUS
    <3>1. i \in 1..n /\ (j \in 1..n \/ j = n + 1)
      BY <1>1
    <3>2. held[x][i].lock < l
      BY <1>1, <3>1 DEF Nested
    <3> QED BY <1>1, <1>5, <3>1, <3>2 DEF Nested
  <2>2. held'[x] # <<>>
    BY <1>1, <1>5, SeqFacts
  <2> QED BY <1>1, <1>5, <1>7, <2>1, <2>2 DEF Nested, Masks
<1>9. /\ \A i \in 1..(n + 1) : Before(x, i)' <=> Before(x, i)
      /\ Off(x)' <=> Off(x) \/ Masks(l)
      /\ Off(x) <=> Before(x, n + 1)
  <2>1. ASSUME NEW i \in 1..(n + 1) PROVE Before(x, i)' <=> Before(x, i)
    <3>1. \A j \in 1..(i - 1) : held'[x][j] = held[x][j]
      BY <1>1, <1>5
    <3> QED BY <1>2, <3>1 DEF Before, Masks
  <2>2. Off(x)' <=> Off(x) \/ Masks(l)
    <3>1. Off(x)' <=> outside[x] \/ \E j \in 1..(n + 1) : Masks(held'[x][j].lock)
      BY <1>1, <1>2, <1>5 DEF Off, Before, Masks
    <3>2. Off(x) <=> outside[x] \/ \E j \in 1..n : Masks(held[x][j].lock)
      BY <1>1 DEF Off, Before
    <3>3. \A j \in 1..(n + 1) : j \in 1..n \/ j = n + 1
      BY <1>1
    <3>4. 1..n \subseteq 1..(n + 1) /\ n + 1 \in 1..(n + 1)
      BY <1>1
    <3> QED BY <1>5, <3>1, <3>2, <3>3, <3>4
  <2> QED BY <2>1, <2>2 DEF Off
<1>10. Flag(x)' <=> Flag(x)
  BY <1>2 DEF Flag, Active
<1>11. Flagged(x)'
  <2>1. Flag(x)' <=> Off(x)'
    BY <1>1, <1>9, <1>10 DEF Flagged
  <2>a. Masks(l) => (local[x] <=> Before(x, n + 1)')
    <3>1. Masks(l) => (local[x] <=> Off(x))
      BY <1>1 DEF Flagged
    <3>2. n + 1 \in 1..(n + 1)
      BY <1>1
    <3>3. Before(x, n + 1)' <=> Off(x)
      BY <1>9, <3>2
    <3> QED BY <3>1, <3>3
  <2>2. ASSUME NEW i \in 1..(n + 1)
        PROVE  LET k == held'[x][i].lock IN
               /\ Masks(k) => (held'[x][i].flag <=> Before(x, i)')
               /\ Kind[k] = "isafe" => \/ was'[k] <=> Before(x, i)'
                                       \/ pc'[x] = "save" /\ i = n + 1
    <3>1. CASE i \in 1..n
      <4>1. LET k == held[x][i].lock IN
            /\ Masks(k) => (held[x][i].flag <=> Before(x, i))
            /\ Kind[k] = "isafe" => (was[k] <=> Before(x, i))
        BY <1>1, <3>1 DEF Flagged
      <4>2. held'[x][i] = held[x][i] /\ (Before(x, i)' <=> Before(x, i)) /\ was' = was
        BY <1>2, <1>5, <1>9, <3>1
      <4> QED BY <4>1, <4>2
    <3>2. CASE i = n + 1
      BY <1>5, <1>7, <2>a, <3>2
    <3> QED BY <1>1, <3>1, <3>2
  <2>3. pc'[x] = "save" => (local'[x] <=> Before(x, n + 1)')
    BY <1>7, <2>a DEF Masks
  <2>4. pc'[x] = "save" => Off(x)'
    BY <1>7, <1>9 DEF Masks
  <2> QED BY <1>5, <1>7, <2>1, <2>2, <2>3, <2>4 DEF Flagged, Masks
<1>12. MutualExclusion'
  <2>1. \A k \in Locks : Holds(x, k)' <=> Holds(x, k) \/ k = l
    <3>1. DOMAIN held'[x] = 1..(n + 1) /\ DOMAIN held[x] = 1..n
      BY <1>4, <1>5, SeqFacts
    <3>2. \A j \in 1..(n + 1) : j \in 1..n \/ j = n + 1
      BY <1>1
    <3>3. 1..n \subseteq 1..(n + 1) /\ n + 1 \in 1..(n + 1)
      BY <1>1
    <3> QED BY <1>5, <3>1, <3>2, <3>3 DEF Holds
  <2>2. \A y \in Contexts \ {x} : \A k \in Locks : Holds(y, k)' <=> Holds(y, k)
    BY <1>5 DEF Holds
  <2>3. \A y \in Contexts : ~Holds(y, l)
    BY <1>1 DEF SpinInv, MutualExclusion
  <2>4. taken'[l] /\ \A k \in Locks \ {l} : taken'[k] = taken[k]
    BY <1>1, <1>2 DEF SpinInv, TypeOK
  <2> QED BY <1>1, <2>1, <2>2, <2>3, <2>4 DEF SpinInv, MutualExclusion
<1>13. \A y \in Contexts \ {x} :
         pc'[y] = pc[y] /\ want'[y] = want[y] /\ local'[y] = local[y]
  BY <1>3 DEF SpinInv, TypeOK
<1>14. x[2] = "irq" => /\ want'[x] # None => Masks(want'[x])
                       /\ \A i \in 1..Len(held'[x]) : Masks(held'[x][i].lock)
  <2>1. \A i \in 1..(n + 1) : i \in 1..n \/ i = n + 1
    BY <1>1
  <2>2. x[2] = "irq" => Masks(l) /\ \A i \in 1..n : Masks(held[x][i].lock)
    BY <1>1, HandlerMasks
  <2> QED BY <1>5, <1>7, <2>1, <2>2
<1> QED
  BY <1>1, <1>2, <1>5, <1>6, <1>8, <1>11, <1>12, <1>13, <1>14, StepKeeps

(* The exchange of x finds the lock taken, and takes nothing.              *)
LEMMA RetryKeeps ==
  ASSUME SpinInv, NEW x \in Contexts, Exchange(x), ~Acquired(want[x])
  PROVE  SpinInv'
<1> DEFINE l == want[x]
<1>0. /\ Nested(x) /\ Flagged(x) /\ pc[x] = "exchange" /\ l \in Locks
      /\ Active(x) /\ taken[l] = TRUE
  BY DEF SpinInv, TypeOK, Nested, Exchange, At, Acquired
<1>1. /\ taken' = taken
      /\ mon' = [d \in Cores |-> IF d # Core(x) /\ mon[d] = l THEN None ELSE mon[d]]
      /\ pc' = [pc EXCEPT ![x] = IF Kind[l] = "spin" THEN "mwait" ELSE "restore"]
      /\ UNCHANGED <<irqOff, inIrq, was, left, outside, held, want, local>>
  <2>1. taken' = [taken EXCEPT ![l] = TRUE] => taken' = taken
    BY <1>0 DEF SpinInv, TypeOK
  <2> QED BY <2>1 DEF Exchange, Store, Goto
<1>2. TypeOK'
  BY <1>1 DEF SpinInv, TypeOK, Points
<1>3. pc'[x] = IF Masks(l) THEN "restore" ELSE "mwait"
  BY <1>1 DEF SpinInv, TypeOK, Masks
<1>4. Nested(x)'
  BY <1>0, <1>1, <1>3 DEF Nested
<1>5. Flag(x)' <=> Flag(x)
  BY <1>1 DEF Flag, Active
<1>6. Flagged(x)'
  BY <1>0, <1>1, <1>3, <1>5, BeforeKept DEF Flagged
<1>7. \A y \in Contexts \ {x} : pc'[y] = pc[y]
  BY <1>1 DEF SpinInv, TypeOK
<1> QED
  BY <1>0, <1>1, <1>2, <1>4, <1>6, <1>7, HandlerMasks, HeldKept, StepKeeps

LEMMA UnlockKeeps ==
  ASSUME SpinInv, NEW x \in Contexts, Unlock(x)
  PROVE  SpinInv'
<1> PICK n \in Nat : n = Len(held[x])
  BY HeldFacts DEF SpinInv
<1> DEFINE l == held[x][n].lock
<1>0. /\ Nested(x) /\ Flagged(x) /\ pc[x] = "run" /\ Active(x) /\ held[x] # <<>>
  BY DEF SpinInv, Unlock, At
<1>1. n \in 1..n /\ l \in Locks /\ held[x][n].flag \in BOOLEAN /\ was[l] \in BOOLEAN
  <2>1. n # 0
    BY <1>0, HeldFacts DEF SpinInv
  <2>2. n \in 1..n
    BY <2>1
  <2> QED BY <2>2, HeldFacts DEF SpinInv, TypeOK
<1>2. /\ want' = [want EXCEPT ![x] = l]
      /\ local' = [local EXCEPT ![x] = IF Kind[l] = "isafe" THEN was[l] ELSE held[x][n].flag]
      /\ pc' = [pc EXCEPT ![x] = "clear"]
      /\ UNCHANGED <<irqOff, inIrq, taken, was, mon, held, left, outside>>
  BY DEF Unlock, Goto
<1>3. TypeOK'
  BY <1>1, <1>2 DEF SpinInv, TypeOK, Points
<1>4. /\ pc'[x] = "clear" /\ want'[x] = l
      /\ local'[x] = IF Kind[l] = "isafe" THEN was[l] ELSE held[x][n].flag
  BY <1>2 DEF SpinInv, TypeOK
<1>5. Nested(x)'
  BY <1>0, <1>1, <1>2, <1>4, SpinLocksAssumption DEF Nested
<1>6. Flag(x)' <=> Flag(x)
  BY <1>2 DEF Flag, Active
<1>7. Flagged(x)'
  <2>1. Masks(l) => Off(x)
    BY <1>1 DEF Off, Before
  <2>2. Masks(l) => (local'[x] <=> Before(x, n))
    <3>1. /\ Masks(l) => (held[x][n].flag <=> Before(x, n))
          /\ Kind[l] = "isafe" => (was[l] <=> Before(x, n))
      BY <1>0, <1>1 DEF Flagged
    <3> QED BY <1>4, <3>1
  <2>3. /\ Before(x, n)' <=> Before(x, n)
        /\ Off(x)' <=> Off(x)
        /\ \A i \in 1..n : Before(x, i)' <=> Before(x, i)
    BY <1>2, BeforeKept
  <2>4. held'[x] = held[x] /\ was' = was
    BY <1>2
  <2> QED BY <1>0, <1>4, <1>6, <2>1, <2>2, <2>3, <2>4 DEF Flagged
<1>8. \A y \in Contexts \ {x} : pc'[y] = pc[y] /\ want'[y] = want[y] /\ local'[y] = local[y]
  BY <1>2 DEF SpinInv, TypeOK
<1>9. x[2] = "irq" => /\ Masks(want'[x])
                      /\ \A i \in 1..Len(held'[x]) : Masks(held'[x][i].lock)
  BY <1>1, <1>2, <1>4, HandlerMasks
<1> QED
  BY <1>0, <1>2, <1>3, <1>5, <1>7, <1>8, <1>9, HeldKept, StepKeeps

LEMMA ClearKeeps ==
  ASSUME SpinInv, NEW x \in Contexts, Clear(x)
  PROVE  SpinInv'
<1> DEFINE l == want[x]
<1> PICK n \in Nat : n = Len(held[x])
  BY HeldFacts DEF SpinInv
<1>a. /\ Nested(x) /\ Flagged(x) /\ pc[x] = "clear" /\ l \in Locks
      /\ Active(x) /\ local[x] \in BOOLEAN /\ held[x] # <<>> /\ held[x][n].lock = l
      /\ held[x] \in Seq(HeldLock)
  BY DEF SpinInv, TypeOK, Nested, Clear, At
<1>b. l \in Nat /\ l # None
  BY <1>a, SpinLocksAssumption
<1>c. n # 0
  BY <1>a, HeldFacts DEF SpinInv
<1> PICK m \in Nat : m = n - 1
  BY <1>c
<1>1. n = m + 1 /\ 1..m \subseteq 1..n /\ n \in 1..n /\ \A i \in 1..n : i \in 1..m \/ i = n
  BY <1>c
<1>2. /\ held' = [held EXCEPT ![x] = SubSeq(@, 1, Len(@) - 1)]
      /\ taken' = [taken EXCEPT ![l] = FALSE]
      /\ mon' = [d \in Cores |-> IF d # Core(x) /\ mon[d] = l THEN None ELSE mon[d]]
      /\ UNCHANGED <<irqOff, inIrq, was, left, outside>>
  BY DEF Clear, Store
<1>3. \/ /\ ~Masks(l) /\ pc' = [pc EXCEPT ![x] = "run"]
         /\ want' = [want EXCEPT ![x] = None]
         /\ local' = [local EXCEPT ![x] = FALSE]
      \/ /\ Masks(l) /\ pc' = [pc EXCEPT ![x] = "enable"]
         /\ want' = want /\ local' = local
  BY DEF Clear, Return, Goto, Masks
<1>4. /\ held'[x] \in Seq(HeldLock) /\ Len(held'[x]) = m
      /\ \A i \in 1..m : held'[x][i] = held[x][i]
      /\ \A y \in Contexts \ {x} : held'[y] = held[y]
  <2>1. LET f == SubSeq(held[x], 1, Len(held[x]) - 1) IN
        /\ f \in Seq(HeldLock) /\ Len(f) = Len(held[x]) - 1
        /\ \A i \in 1..(Len(held[x]) - 1) : f[i] = held[x][i]
    BY <1>a, PopFacts
  <2>2. held'[x] = SubSeq(held[x], 1, Len(held[x]) - 1)
    BY <1>2 DEF SpinInv, TypeOK
  <2>3. \A y \in Contexts \ {x} : held'[y] = held[y]
    BY <1>2 DEF SpinInv, TypeOK
  <2> QED BY <2>1, <2>2, <2>3
<1>5. TypeOK'
  <2>1. held' \in [Contexts -> Seq(HeldLock)]
    BY <1>2, <1>4 DEF SpinInv, TypeOK
  <2>2. /\ taken' \in [Locks -> BOOLEAN] /\ mon' \in [Cores -> Locks \union {None}]
    BY <1>2 DEF SpinInv, TypeOK
  <2>3. /\ pc' \in [Contexts -> Points] /\ want' \in [Contexts -> Locks \union {None}]
        /\ local' \in [Contexts -> BOOLEAN]
    BY <1>3 DEF SpinInv, TypeOK, Points
  <2> QED BY <1>2, <2>1, <2>2, <2>3 DEF SpinInv, TypeOK
<1>6. \/ ~Masks(l) /\ pc'[x] = "run" /\ want'[x] = None
      \/ Masks(l) /\ pc'[x] = "enable" /\ want'[x] = l /\ local'[x] = local[x]
  BY <1>3 DEF SpinInv, TypeOK
<1>7. \A i \in 1..m : held[x][i].lock < l
  BY <1>a, <1>1 DEF Nested
<1>8. Nested(x)'
  <2>1. \A i, j \in 1..m : i < j => held'[x][i].lock < held'[x][j].lock
    BY <1>a, <1>1, <1>4 DEF Nested
  <2> QED BY <1>b, <1>4, <1>6, <1>7, <2>1 DEF Nested
<1>9. /\ \A i \in 1..n : Before(x, i)' <=> Before(x, i)
      /\ Off(x) <=> Before(x, n) \/ Masks(l)
      /\ Off(x)' <=> Before(x, n)
  <2>1. ASSUME NEW i \in 1..n PROVE Before(x, i)' <=> Before(x, i)
    <3>1. \A j \in 1..(i - 1) : held'[x][j] = held[x][j]
      BY <1>1, <1>4
    <3> QED BY <1>2, <3>1 DEF Before, Masks
  <2>2. Off(x)' <=> Before(x, n)
    <3>1. Off(x)' <=> Before(x, n)'
      BY <1>1, <1>4 DEF Off, Before
    <3> QED BY <1>1, <2>1, <3>1
  <2>3. Off(x) <=> Before(x, n) \/ Masks(l)
    <3>1. Off(x) <=> outside[x] \/ \E j \in 1..n : Masks(held[x][j].lock)
      BY DEF Off, Before
    <3>2. Before(x, n) <=> outside[x] \/ \E j \in 1..m : Masks(held[x][j].lock)
      BY DEF Before
    <3> QED BY <1>a, <1>1, <3>1, <3>2
  <2> QED BY <2>1, <2>2, <2>3
<1>10. Flag(x)' <=> Flag(x)
  BY <1>2 DEF Flag, Active
<1>11. Flagged(x)'
  <2>1. /\ Flag(x) <=> Off(x) \/ Masks(l)
        /\ Masks(l) => (local[x] <=> Before(x, n))
    BY <1>a DEF Flagged
  <2>2. ASSUME NEW i \in 1..m
        PROVE  LET k == held'[x][i].lock IN
               /\ Masks(k) => (held'[x][i].flag <=> Before(x, i)')
               /\ Kind[k] = "isafe" => (was'[k] <=> Before(x, i)')
    <3>1. LET k == held[x][i].lock IN
          /\ Masks(k) => (held[x][i].flag <=> Before(x, i))
          /\ Kind[k] = "isafe" => (was[k] <=> Before(x, i))
      BY <1>a, <1>1 DEF Flagged
    <3>2. held'[x][i] = held[x][i] /\ (Before(x, i)' <=> Before(x, i)) /\ was' = was
      BY <1>1, <1>2, <1>4, <1>9
    <3> QED BY <3>1, <3>2
  <2>3. Masks(l) => (local'[x] <=> Off(x)')
    BY <1>6, <1>9, <2>1
  <2>4. Flag(x)' <=> Off(x)' \/ Masks(l)
    BY <1>9, <1>10, <2>1
  <2> QED BY <1>4, <1>6, <2>2, <2>3, <2>4 DEF Flagged
<1>12. MutualExclusion'
  <2>1. DOMAIN held'[x] = 1..m /\ DOMAIN held[x] = 1..n
    BY <1>a, <1>4, SeqFacts
  <2>2. \A k \in Locks : Holds(x, k)' <=> Holds(x, k) /\ k # l
    <3>1. \A i \in 1..m : held[x][i].lock # l
      BY <1>b, <1>7
    <3> QED BY <1>a, <1>1, <1>4, <2>1, <3>1 DEF Holds
  <2>3. \A y \in Contexts \ {x} : \A k \in Locks : Holds(y, k)' <=> Holds(y, k)
    BY <1>4 DEF Holds
  <2>4. Holds(x, l)
    BY <1>a, <1>1, <2>1 DEF Holds
  <2>5. ~taken'[l] /\ \A k \in Locks \ {l} : taken'[k] = taken[k]
    BY <1>a, <1>2 DEF SpinInv, TypeOK
  <2> QED BY <1>a, <2>2, <2>3, <2>4, <2>5 DEF SpinInv, MutualExclusion
<1>13. \A y \in Contexts \ {x} :
         pc'[y] = pc[y] /\ want'[y] = want[y] /\ local'[y] = local[y]
  BY <1>3 DEF SpinInv, TypeOK
<1>14. x[2] = "irq" => /\ want'[x] # None => Masks(want'[x])
                       /\ \A i \in 1..Len(held'[x]) : Masks(held'[x][i].lock)
  BY <1>1, <1>4, <1>6, HandlerMasks
<1> QED
  BY <1>a, <1>2, <1>4, <1>5, <1>8, <1>11, <1>12, <1>13, <1>14, StepKeeps

LEMMA EnableKeeps ==
  ASSUME SpinInv, NEW x \in Contexts, Enable(x)
  PROVE  SpinInv'
<1> DEFINE l == want[x]
<1>a. Core(x) \in Cores
  BY ContextNames
<1>0. /\ Nested(x) /\ Flagged(x) /\ pc[x] = "enable" /\ l \in Locks
      /\ Active(x) /\ Masks(l) /\ local[x] \in BOOLEAN
  BY DEF SpinInv, TypeOK, Nested, Enable, At
<1>1. /\ irqOff' = [irqOff EXCEPT ![Core(x)] =
                      IF Kind[l] = "isafe" THEN @ /\ local[x] ELSE local[x]]
      /\ pc' = [pc EXCEPT ![x] = "run"]
      /\ want' = [want EXCEPT ![x] = None]
      /\ local' = [local EXCEPT ![x] = FALSE]
      /\ UNCHANGED <<inIrq, taken, was, mon, held, left, outside>>
  BY DEF Enable, OldFlag, Return, Goto
<1>2. TypeOK'
  BY <1>a, <1>0, <1>1 DEF SpinInv, TypeOK, Points
<1>3. Flag(x) /\ irqOff[Core(x)]
  BY <1>0 DEF Flagged, Flag
<1>4. irqOff'[Core(x)] <=> local[x]
  BY <1>a, <1>0, <1>1, <1>3 DEF SpinInv, TypeOK
<1>5. pc'[x] = "run" /\ want'[x] = None
  BY <1>1 DEF SpinInv, TypeOK
<1>6. Nested(x)'
  BY <1>0, <1>1, <1>5 DEF Nested
<1>7. Flag(x)' <=> local[x]
  BY <1>0, <1>1, <1>4 DEF Flag, Active
<1>8. Flagged(x)'
  BY <1>0, <1>1, <1>5, <1>7, BeforeKept DEF Flagged
<1>9. /\ \A y \in Contexts \ {x} : pc'[y] = pc[y] /\ want'[y] = want[y] /\ local'[y] = local[y]
      /\ \A c \in Cores \ {Core(x)} : irqOff'[c] = irqOff[c]
  BY <1>1 DEF SpinInv, TypeOK
<1> QED
  BY <1>0, <1>1, <1>2, <1>5, <1>6, <1>8, <1>9, HandlerMasks, HeldKept, StepKeeps

-----------------------------------------------------------------------------
(* The timer moves the flag of the core between the thread and the         *)
(* handler; both keep the flag they run with.                              *)
LEMMA FlagsKept ==
  ASSUME SpinInv, UNCHANGED <<was, want, local, held, outside>>,
         NEW y \in Contexts, Flag(y)' <=> Flag(y),
         pc'[y] = pc[y] \/ (pc[y] = "mwait" /\ pc'[y] = "monitor")
  PROVE  Nested(y)' /\ Flagged(y)'
<1>1. Nested(y) /\ Flagged(y)
  BY DEF SpinInv
<1>2. Nested(y)'
  BY <1>1 DEF Nested
<1>3. Flagged(y)'
  BY <1>1, BeforeKept DEF Flagged
<1> QED BY <1>2, <1>3

LEMMA InterruptKeeps ==
  ASSUME SpinInv, NEW c \in Cores, Interrupt(c)
  PROVE  SpinInv'
<1> DEFINE x == <<c, "task">>  h == <<c, "irq">>
<1>0. /\ x \in Contexts /\ h \in Contexts /\ Core(x) = c /\ Core(h) = c
      /\ x[2] = "task" /\ h[2] = "irq" /\ x # h
      /\ \A y \in Contexts : Core(y) \in Cores /\ (Core(y) = c => y = x \/ y = h)
  BY ContextNames
<1> HIDE DEF x, h
<1>1. /\ ~irqOff[c] /\ ~inIrq[c]
      /\ inIrq' = [inIrq EXCEPT ![c] = TRUE]
      /\ irqOff' = [irqOff EXCEPT ![c] = TRUE]
      /\ mon' = [mon EXCEPT ![c] = None]
      /\ \/ pc' = pc
         \/ pc[x] = "mwait" /\ pc' = [pc EXCEPT ![x] = "monitor"]
      /\ UNCHANGED <<taken, was, want, local, held, left, outside>>
  BY DEF Interrupt, Goto, x
<1>2. TypeOK'
  BY <1>0, <1>1 DEF SpinInv, TypeOK, Points
<1>3. /\ inIrq'[c] = TRUE /\ irqOff'[c] = TRUE
      /\ \A d \in Cores \ {c} : inIrq'[d] = inIrq[d] /\ irqOff'[d] = irqOff[d]
      /\ inIrq[c] = FALSE /\ irqOff[c] = FALSE
  BY <1>1 DEF SpinInv, TypeOK
<1>4. ASSUME NEW y \in Contexts PROVE Flag(y)' <=> Flag(y)
  <2>1. CASE y = x
    BY <1>0, <1>3, <2>1 DEF Flag, Active
  <2>2. CASE y = h
    BY <1>0, <1>3, <2>2 DEF Flag, Active
  <2>3. CASE Core(y) # c
    <3>1. inIrq'[Core(y)] = inIrq[Core(y)] /\ irqOff'[Core(y)] = irqOff[Core(y)]
      BY <1>0, <1>3, <2>3
    <3> QED BY <3>1 DEF Flag, Active
  <2> QED BY <1>0, <2>1, <2>2, <2>3
<1>5. \A y \in Contexts : pc'[y] = pc[y] \/ (pc[y] = "mwait" /\ pc'[y] = "monitor")
  BY <1>1 DEF SpinInv, TypeOK
<1>6. \A y \in Contexts : Nested(y)' /\ Flagged(y)'
  BY <1>1, <1>4, <1>5, FlagsKept
<1>7. ASSUME NEW d \in Cores PROVE Handles(d)'
  <2>1. Handles(d) /\ <<d, "irq">> \in Contexts /\ <<d, "irq">> # x
    BY DEF SpinInv, Contexts, x
  <2>2. pc'[<<d, "irq">>] = pc[<<d, "irq">>]
    BY <1>1, <2>1 DEF SpinInv, TypeOK
  <2>3. ~inIrq'[d] => ~inIrq[d]
    BY <1>3
  <2> QED BY <1>1, <2>1, <2>2, <2>3 DEF Handles
<1>8. MutualExclusion'
  BY <1>1, HeldKept
<1> QED BY <1>2, <1>6, <1>7, <1>8 DEF SpinInv

LEMMA IretKeeps ==
  ASSUME SpinInv, NEW c \in Cores, Iret(c)
  PROVE  SpinInv'
<1> DEFINE x == <<c, "task">>  h == <<c, "irq">>
<1>0. /\ x \in Contexts /\ h \in Contexts /\ Core(x) = c /\ Core(h) = c
      /\ x[2] = "task" /\ h[2] = "irq" /\ x # h
      /\ \A y \in Contexts : Core(y) \in Cores /\ (Core(y) = c => y = x \/ y = h)
  BY ContextNames
<1> HIDE DEF x, h
<1>1. /\ pc[h] = "run" /\ held[h] = <<>> /\ Active(h)
      /\ inIrq' = [inIrq EXCEPT ![c] = FALSE]
      /\ irqOff' = [irqOff EXCEPT ![c] = FALSE]
      /\ UNCHANGED <<taken, was, mon, pc, want, local, held, left, outside>>
  BY DEF Iret, At, h
<1>2. TypeOK'
  BY <1>1 DEF SpinInv, TypeOK
<1>3. /\ inIrq'[c] = FALSE /\ irqOff'[c] = FALSE
      /\ \A d \in Cores \ {c} : inIrq'[d] = inIrq[d] /\ irqOff'[d] = irqOff[d]
      /\ inIrq[c] = TRUE
  BY <1>0, <1>1 DEF SpinInv, TypeOK, Active
<1>4. ASSUME NEW y \in Contexts PROVE Flag(y)' <=> Flag(y)
  <2>1. CASE y = x
    BY <1>0, <1>3, <2>1 DEF Flag, Active
  <2>2. CASE y = h
    <3>1. Off(h) /\ Flagged(h)
      BY <1>0, HandlerMasks DEF Off, Before, SpinInv
    <3>2. Flag(h)
      BY <3>1 DEF Flagged
    <3>3. Flag(h)'
      BY <1>0, <1>3 DEF Flag, Active
    <3> QED BY <2>2, <3>2, <3>3
  <2>3. CASE Core(y) # c
    <3>1. inIrq'[Core(y)] = inIrq[Core(y)] /\ irqOff'[Core(y)] = irqOff[Core(y)]
      BY <1>0, <1>3, <2>3
    <3> QED BY <3>1 DEF Flag, Active
  <2> QED BY <1>0, <2>1, <2>2, <2>3
<1>5. \A y \in Contexts : Nested(y)' /\ Flagged(y)'
  BY <1>1, <1>4, FlagsKept
<1>6. ASSUME NEW d \in Cores PROVE Handles(d)'
  <2>1. Handles(d)
    BY DEF SpinInv
  <2>2. CASE d = c
    BY <1>1, <2>1, <2>2 DEF Handles, h
  <2>3. CASE d # c
    BY <1>1, <1>3, <2>1, <2>3 DEF Handles
  <2> QED BY <2>2, <2>3
<1>7. MutualExclusion'
  BY <1>1, HeldKept
<1> QED BY <1>2, <1>5, <1>6, <1>7 DEF SpinInv

LEMMA ProtectKeeps ==
  ASSUME SpinInv, NEW c \in Cores, Protect(c)
  PROVE  SpinInv'
<1> DEFINE x == <<c, "task">>
<1>a. x \in Contexts /\ Core(x) = c /\ x[2] = "task"
  BY ContextNames
<1>b. \A d \in Cores : <<d, "irq">> \in Contexts /\ <<d, "irq">> # x
  BY DEF Contexts
<1>c. \A y \in Contexts \ {x} : Core(y) = c => y[2] = "irq"
  BY <1>a, ContextNames
<1>0. /\ x \in Contexts /\ Core(x) = c /\ x[2] = "task"
      /\ \A y \in Contexts \ {x} : Core(y) = c => y[2] = "irq"
      /\ \A y \in Contexts : Core(y) \in Cores
      /\ \A d \in Cores : <<d, "irq">> \in Contexts \ {x}
  BY <1>a, <1>b, <1>c, ContextNames
<1> HIDE DEF x
<1>1. /\ pc[x] = "run" /\ held[x] = <<>> /\ Active(x)
      /\ irqOff' = [irqOff EXCEPT ![c] = ~@]
      /\ outside' = [outside EXCEPT ![x] = ~@]
      /\ UNCHANGED <<inIrq, taken, was, mon, pc, want, local, held, left>>
  BY DEF Protect, At, x
<1>2. TypeOK'
  BY <1>0, <1>1 DEF SpinInv, TypeOK
<1>3. /\ irqOff'[c] <=> ~irqOff[c]
      /\ outside'[x] <=> ~outside[x]
      /\ \A d \in Cores \ {c} : irqOff'[d] = irqOff[d]
      /\ \A y \in Contexts \ {x} : outside'[y] = outside[y]
  BY <1>0, <1>1 DEF SpinInv, TypeOK
<1>4. ASSUME NEW y \in Contexts \ {x} PROVE Nested(y)' /\ Flagged(y)'
  BY <1>0, <1>1, <1>3, Others
<1>5. Nested(x)'
  BY <1>0, <1>1 DEF Nested, SpinInv
<1>6. Flagged(x)'
  <2>1. Flagged(x) /\ Len(held[x]) = 0
    BY <1>0, <1>1, HeldFacts DEF SpinInv
  <2>2. (Off(x) <=> outside[x]) /\ (Off(x)' <=> outside'[x])
    BY <1>1, <2>1 DEF Off, Before
  <2>3. (Flag(x) <=> irqOff[c]) /\ (Flag(x)' <=> irqOff'[c])
    BY <1>0, <1>1 DEF Flag, Active
  <2> QED BY <1>1, <1>3, <2>1, <2>2, <2>3 DEF Flagged
<1>7. ASSUME NEW d \in Cores PROVE Handles(d)'
  <2>1. Handles(d) /\ outside'[<<d, "irq">>] = outside[<<d, "irq">>]
    BY <1>0, <1>3 DEF SpinInv
  <2> QED BY <1>1, <2>1 DEF Handles
<1>8. MutualExclusion'
  BY <1>1, HeldKept
<1> QED BY <1>2, <1>4, <1>5, <1>6, <1>7, <1>8 DEF SpinInv

-----------------------------------------------------------------------------
LEMMA InitSpin == Init => SpinInv
<1> SUFFICES ASSUME Init PROVE SpinInv
  OBVIOUS
<1>0. /\ <<>> \in Seq(HeldLock)
      /\ \A x \in Contexts : held[x] = <<>> /\ Len(held[x]) = 0
  BY EmptySeq DEF Init
<1>1. TypeOK
  BY <1>0, SpinLocksAssumption DEF Init, TypeOK, Points
<1>2. ASSUME NEW x \in Contexts PROVE Nested(x) /\ Flagged(x)
  <2>1. Nested(x)
    BY <1>0 DEF Init, Nested
  <2>a. outside[x] <=> x[2] = "irq"
    BY DEF Init
  <2>b. Core(x) \in Cores /\ inIrq[Core(x)] = FALSE /\ irqOff[Core(x)] = FALSE
    BY ContextNames DEF Init
  <2>c. Off(x) <=> x[2] = "irq"
    BY <1>0, <2>a DEF Off, Before
  <2>d. Flag(x) <=> x[2] = "irq"
    BY <2>b DEF Flag, Active
  <2>2. (Off(x) <=> x[2] = "irq") /\ (Flag(x) <=> x[2] = "irq")
    BY <2>c, <2>d
  <2> QED BY <1>0, <2>1, <2>2 DEF Init, Flagged
<1>3. ASSUME NEW c \in Cores PROVE Handles(c)
  <2>1. <<c, "irq">> \in Contexts /\ <<c, "irq">>[2] = "irq"
    BY ContextNames
  <2>2. outside[<<c, "irq">>] /\ pc[<<c, "irq">>] = "run" /\ want[<<c, "irq">>] = None
    BY <2>1 DEF Init
  <2> QED BY <1>0, <2>1, <2>2 DEF Handles
<1>4. MutualExclusion
  <2>1. \A x \in Contexts, l \in Locks : ~Holds(x, l)
    BY <1>0, <1>1, HeldFacts DEF Holds
  <2> QED BY <2>1 DEF Init, MutualExclusion
<1> QED BY <1>1, <1>2, <1>3, <1>4 DEF SpinInv

LEMMA NextSpin == SpinInv /\ [Next]_vars => SpinInv'
<1> SUFFICES ASSUME SpinInv, [Next]_vars PROVE SpinInv'
  OBVIOUS
<1>1. ASSUME NEW x \in Contexts, Step(x) PROVE SpinInv'
  BY <1>1, RequestKeeps, MonitorKeeps, DisableKeeps, AcquireKeeps, RetryKeeps, SaveKeeps,
     RestoreKeeps, MwaitKeeps, UnlockKeeps, ClearKeeps, EnableKeeps DEF Step
<1>2. ASSUME NEW c \in Cores, Interrupt(c) \/ Iret(c) \/ Protect(c) PROVE SpinInv'
  BY <1>2, InterruptKeeps, IretKeeps, ProtectKeeps
<1>3. CASE UNCHANGED vars
  <2>1. \A x \in Contexts : (Flag(x)' <=> Flag(x)) /\ pc'[x] = pc[x]
    BY <1>3 DEF vars, Flag, Active
  <2>2. \A x \in Contexts : Nested(x)' /\ Flagged(x)'
    BY <1>3, <2>1, FlagsKept DEF vars
  <2>3. TypeOK' /\ MutualExclusion'
    BY <1>3, HeldKept DEF vars, SpinInv, TypeOK
  <2>4. \A c \in Cores : Handles(c)'
    BY <1>3 DEF vars, SpinInv, Handles
  <2> QED BY <2>2, <2>3, <2>4 DEF SpinInv
<1> QED BY <1>1, <1>2, <1>3 DEF Next

(* Where every context is in lock() and unlock() determines the locks it   *)
(* has and the flag it runs with, on any number of cores (atomic.h).       *)
THEOREM SpinCorrect == Spec => []SpinInv
BY InitSpin, NextSpin, PTL DEF Spec

(* SpinLock, InterruptSafeLock and ISL exclude each other's holders.       *)
THEOREM ExclusionCorrect == Spec => []MutualExclusion
<1>1. SpinInv => MutualExclusion
  BY DEF SpinInv
<1> QED BY <1>1, SpinCorrect, PTL

(* A handler never spins on a lock of the thread it has interrupted: a     *)
(* thread that has a lock a handler may ask for has interrupts off.        *)
THEOREM NoSelfDeadlockCorrect == Spec => []NoSelfDeadlock
<1>1. SpinInv => NoSelfDeadlock
  <2> SUFFICES ASSUME SpinInv, NEW c \in Cores, NEW l \in Locks,
                      Holds(<<c, "task">>, l), want[<<c, "irq">>] = l
               PROVE  FALSE
    BY DEF NoSelfDeadlock
  <2> DEFINE x == <<c, "task">>  h == <<c, "irq">>
  <2>1. /\ x \in Contexts /\ h \in Contexts /\ Core(x) = c /\ Core(h) = c
        /\ x[2] = "task" /\ h[2] = "irq" /\ l # None
    BY ContextNames, SpinLocksAssumption
  <2>2. Masks(l)
    BY <2>1, HandlerMasks
  <2>3. Off(x)
    BY <2>1, <2>2, HeldFacts DEF Off, Before, Holds, SpinInv
  <2>4. Flag(x)
    BY <2>1, <2>3 DEF SpinInv, Flagged
  <2>5. ~inIrq[c]
    BY <2>1, <2>4 DEF Flag, Active, SpinInv, TypeOK
  <2>6. want[h] = None
    BY <2>1, <2>5 DEF SpinInv, Handles, Nested
  <2> QED BY <2>1, <2>6
<1> QED BY <1>1, SpinCorrect, PTL

(* Whatever other holders have written to `was' since, a context that has  *)
(* released all its locks runs with the flag it had before them.           *)
THEOREM FlagRestoredCorrect == Spec => []FlagRestored
<1>1. SpinInv => FlagRestored
  <2> SUFFICES ASSUME SpinInv, NEW x \in Contexts, At(x, "run"), held[x] = <<>>
               PROVE  irqOff[Core(x)] = outside[x]
    BY DEF FlagRestored
  <2>1. Core(x) \in Cores /\ Len(held[x]) = 0
    BY ContextNames, HeldFacts DEF SpinInv
  <2>2. Flagged(x) /\ pc[x] = "run" /\ Active(x)
    BY DEF SpinInv, At
  <2>3. (Flag(x) <=> irqOff[Core(x)]) /\ (Off(x) <=> outside[x])
    BY <2>1, <2>2 DEF Flag, Off, Before
  <2>4. irqOff[Core(x)] <=> outside[x]
    BY <2>2, <2>3 DEF Flagged
  <2> QED BY <2>1, <2>4 DEF SpinInv, TypeOK
<1> QED BY <1>1, SpinCorrect, PTL

=============================================================================
