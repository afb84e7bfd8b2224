----------------------------- MODULE FilesProofs -----------------------------
(***************************************************************************)
(* Proofs about Files, for any image, any number of processes, tables of   *)
(* any size and any interleaving of reads: FilesInv is inductive, so that  *)
(* ids keep their meaning and a read gives the cells of its file.          *)
(***************************************************************************)
EXTENDS Files, FiniteSetTheorems, SequenceTheorems, WellFoundedInduction, TLAPS

-----------------------------------------------------------------------------
(* Numbers.                                                                *)
LEMMA DivIs ==
  ASSUME NEW b \in Nat \ {0}, NEW q \in Nat, NEW r \in 0..(b - 1)
  PROVE  (q * b + r) \div b = q /\ (q * b + r) % b = r
<1> DEFINE n == q * b + r
           d == n \div b
           m == n % b
<1>1. d \in Int /\ m \in 0..(b - 1) /\ n = b * d + m /\ n \in Nat
  OBVIOUS
<1> HIDE DEF d, m
<1>2. b * (d - q) = r - m
  BY <1>1
<1>3. d - q = 0
  <2>1. CASE d - q >= 1
    <3>1. b * (d - q) >= b
      BY <1>1, <2>1
    <3> QED BY <1>1, <1>2, <3>1
  <2>2. CASE d - q <= -1
    <3>1. b * (d - q) <= -b
      BY <1>1, <2>2
    <3> QED BY <1>1, <1>2, <3>1
  <2> QED BY <1>1, <2>1, <2>2
<1>4. d = q /\ m = r
  BY <1>1, <1>2, <1>3
<1> QED BY <1>4 DEF d, m

LEMMA DivParts ==
  ASSUME NEW n \in Nat, NEW b \in Nat \ {0}
  PROVE  \E q \in Nat, r \in 0..(b - 1) : n \div b = q /\ n % b = r /\ n = q * b + r
<1> DEFINE Q == n \div b
           R == n % b
<1>0. PICK q, r : q = Q /\ r = R
  OBVIOUS
<1>1. q \in Int /\ r \in 0..(b - 1) /\ n = b * q + r
  BY <1>0
<1> HIDE DEF Q, R
<1>2. q >= 0
  <2>1. CASE q <= -1
    <3>1. b * q <= -b
      BY <1>1, <2>1
    <3>2. PICK p \in Int : p = b * q
      BY <1>1
    <3>3. p <= -b /\ n = p + r /\ r \in 0..(b - 1)
      BY <1>1, <3>1, <3>2
    <3> QED BY ONLY <3>3, b \in Nat, n \in Nat, p \in Int
  <2> QED BY ONLY <1>1, <2>1, q \in Int
<1>3. q \in Nat /\ r \in 0..(b - 1) /\ n = q * b + r
  BY <1>1, <1>2
<1>4. n \div b = q /\ n % b = r
  BY <1>0 DEF Q, R
<1> QED BY <1>3, <1>4, Zenon

LEMMA MinOfTwo ==
  ASSUME NEW a \in Int, NEW b \in Int
  PROVE  Min({a, b}) = IF a <= b THEN a ELSE b
BY DEF Min

LEMMA MinOfThree ==
  ASSUME NEW a \in Int, NEW b \in Int, NEW c \in Int
  PROVE  LET m == Min({a, b, c}) IN m \in {a, b, c} /\ m <= a /\ m <= b /\ m <= c
<1>1. \E x \in {a, b, c} : \A y \in {a, b, c} : x <= y
  OBVIOUS
<1> QED BY <1>1 DEF Min

(* A set of naturals that is not empty has a least element.                *)
LEMMA NatLeast ==
  ASSUME NEW S, S \subseteq Nat, S # {}
  PROVE  \E x \in S : \A y \in S : x <= y
<1>1. PICK R : R = OpToRel(<, Nat)
  BY Zenon
<1>2. IsWellFoundedOn(R, Nat)
  BY <1>1, NatLessThanWellFounded, Zenon
<1>3. \A y, z \in Nat : y < z => <<y, z>> \in R
  BY <1>1, Zenon DEF OpToRel
<1>4. PICK x \in S : \A y \in S : ~(<<y, x>> \in R)
  BY <1>2, WFMin
<1>5. \A y \in S : ~(y < x)
  BY <1>3, <1>4
<1> QED BY <1>5

-----------------------------------------------------------------------------
(* Cells side by side make one run of cells.                               *)
Run(F, a, k) == [i \in 1..k |-> F[a + i - 1]]

LEMMA RunIsSeq ==
  ASSUME NEW F, NEW a \in Int, NEW k \in Nat
  PROVE  /\ Run(F, a, k) \in Seq({F[x] : x \in Int}) /\ Len(Run(F, a, k)) = k
         /\ \A i \in 1..k : Run(F, a, k)[i] = F[a + i - 1]
<1> DEFINE S == {F[x] : x \in Int}
           s == [i \in 1..k |-> F[a + i - 1]]
<1>1. \A i \in 1..k : F[a + i - 1] \in S
  OBVIOUS
<1>2. s \in [1..k -> S]
  BY <1>1
<1>3. s \in Seq(S) /\ Len(s) = k /\ \A i \in 1..k : s[i] = F[a + i - 1]
  BY <1>2, SeqDef, LenProperties
<1> QED BY <1>3 DEF Run

(* b follows the k cells from a, and there are l cells with the m from b;  *)
(* n cells after the first `from' of k are those from lo to hi.            *)
Follows(a, k, b, m, l) == a \in Int /\ k \in Nat /\ m \in Nat /\ b = a + k /\ l = k + m
Within(k, from, n, lo, hi) ==
  k \in Nat /\ from \in Nat /\ n \in Nat /\ lo = from + 1 /\ hi = from + n /\ hi <= k

After(a, from, b) == a \in Int /\ b = a + from

LEMMA RunsJoin ==
  ASSUME NEW F, NEW a, NEW k, NEW b, NEW m, NEW l, Follows(a, k, b, m, l)
  PROVE  Run(F, a, k) \o Run(F, b, m) = Run(F, a, l)
<1> DEFINE S == {F[x] : x \in Int}
           s == Run(F, a, k)
           t == Run(F, b, m)
           u == Run(F, a, l)
<1>0. a \in Int /\ k \in Nat /\ m \in Nat /\ b \in Int /\ l \in Nat /\ b = a + k /\ l = k + m
  BY DEF Follows
<1>1. s \in Seq(S) /\ Len(s) = k /\ \A i \in 1..k : s[i] = F[a + i - 1]
  <2>1. a \in Int /\ k \in Nat
    BY <1>0
  <2> QED BY ONLY <2>1, RunIsSeq
<1>2. t \in Seq(S) /\ Len(t) = m /\ \A i \in 1..m : t[i] = F[b + i - 1]
  <2>1. b \in Int /\ m \in Nat
    BY <1>0
  <2> QED BY ONLY <2>1, RunIsSeq
<1>3. u \in Seq(S) /\ Len(u) = l /\ \A i \in 1..l : u[i] = F[a + i - 1]
  <2>1. a \in Int /\ l \in Nat
    BY <1>0
  <2> QED BY ONLY <2>1, RunIsSeq
<1> HIDE DEF s, t, u, S
<1>4. /\ s \o t \in Seq(S) /\ Len(s \o t) = l
      /\ \A i \in 1..l : (s \o t)[i] = IF i <= k THEN s[i] ELSE t[i - k]
  BY <1>0, <1>1, <1>2, ConcatProperties
<1>5. \A i \in 1..l : (s \o t)[i] = u[i]
  <2> TAKE i \in 1..l
  <2>1. CASE i <= k
    <3>1. i \in 1..k
      BY <1>0, <2>1
    <3> QED BY <1>1, <1>3, <1>4, <2>1, <3>1
  <2>2. CASE ~(i <= k)
    <3>1. i - k \in 1..m /\ b + (i - k) - 1 = a + i - 1
      BY <1>0, <2>2
    <3> QED BY <1>2, <1>3, <1>4, <2>2, <3>1
  <2> QED BY <2>1, <2>2
<1>6. s \o t = u
  BY <1>3, <1>4, <1>5, SeqEqual
<1> QED BY <1>6 DEF s, t, u

LEMMA RunPart ==
  ASSUME NEW F, NEW a, NEW k, NEW from, NEW n, NEW lo, NEW hi, NEW b,
         Within(k, from, n, lo, hi), After(a, from, b)
  PROVE  SubSeq(Run(F, a, k), lo, hi) = Run(F, b, n)
<1> DEFINE S == {F[x] : x \in Int}
           s == Run(F, a, k)
           t == SubSeq(s, lo, hi)
           u == Run(F, b, n)
<1>0. k \in Nat /\ lo \in Nat /\ hi \in Nat /\ n \in Nat /\ lo >= 1 /\ hi + 1 = lo + n
      /\ hi <= k /\ b \in Int /\ b = a + lo - 1
  BY DEF Within, After
<1>1. s \in Seq(S) /\ Len(s) = k /\ \A i \in 1..k : s[i] = F[a + i - 1]
  <2>1. a \in Int /\ k \in Nat
    BY <1>0 DEF After
  <2> QED BY ONLY <2>1, RunIsSeq
<1>2. u \in Seq(S) /\ Len(u) = n /\ \A i \in 1..n : u[i] = F[b + i - 1]
  <2>1. b \in Int /\ n \in Nat
    BY <1>0
  <2> QED BY ONLY <2>1, RunIsSeq
<1> HIDE DEF s, u, S
<1>3. \A i \in 1..n : u[i] = s[lo + i - 1]
  <2> TAKE i \in 1..n
  <2>1. lo + i - 1 \in 1..k /\ a + (lo + i - 1) - 1 = b + i - 1
    BY <1>0 DEF After
  <2> QED BY <1>1, <1>2, <2>1
<1>4. t \in Seq(S) /\ Len(t) = n /\ \A i \in 1..n : t[i] = s[lo + i - 1]
  <2>1. \A i \in lo..hi : s[i] \in S
    <3> TAKE i \in lo..hi
    <3>1. i \in 1..Len(s)
      BY <1>0, <1>1
    <3> QED BY <1>1, <3>1, ElementOfSeq
  <2>2. /\ t \in Seq(S) /\ Len(t) = IF lo <= hi THEN hi - lo + 1 ELSE 0
        /\ \A i \in 1..(hi - lo + 1) : t[i] = s[lo + i - 1]
    BY <1>0, <2>1, SubSeqProperties
  <2> HIDE DEF t
  <2>3. Len(t) = n
    BY <1>0, <2>2
  <2>4. \A i \in 1..n : t[i] = s[lo + i - 1]
    <3> TAKE i \in 1..n
    <3>1. i \in 1..(hi - lo + 1)
      BY <1>0
    <3> QED BY <2>2, <3>1
  <2> QED BY <2>2, <2>3, <2>4
<1> HIDE DEF t
<1>5. t = u
  BY <1>2, <1>3, <1>4, SeqEqual
<1> QED BY <1>5 DEF t, u, s

(* The cells of the disk, and those of a node.                             *)
LEMMA DeviceRun ==
  ASSUME NEW a, NEW k
  PROVE  [i \in 1..k |-> Cell(a + i - 1)] = Run(Disk, a, k)
BY DEF Run, Cell

NodeCells(node) == [x \in Int |-> CellOf(node, x)]

LEMMA NodeRun ==
  ASSUME NEW node, NEW from, from \in Int, NEW n
  PROVE  CellsOf(node, from, n) = Run(NodeCells(node), from, n)
<1>1. \A i \in 1..n : NodeCells(node)[from + i - 1] = CellOf(node, from + i - 1)
  BY DEF NodeCells
<1> QED BY <1>1 DEF CellsOf, Run

LEMMA CellsJoin ==
  ASSUME NEW node, NEW a, NEW k, NEW b, NEW m, NEW l, Follows(a, k, b, m, l)
  PROVE  CellsOf(node, a, k) \o CellsOf(node, b, m) = CellsOf(node, a, l)
<1>0. a \in Int /\ b \in Int
  BY DEF Follows
<1>1. CellsOf(node, a, k) = Run(NodeCells(node), a, k)
  BY ONLY <1>0, NodeRun, Zenon
<1>2. CellsOf(node, b, m) = Run(NodeCells(node), b, m)
  BY ONLY <1>0, NodeRun, Zenon
<1>3. CellsOf(node, a, l) = Run(NodeCells(node), a, l)
  BY ONLY <1>0, NodeRun, Zenon
<1>4. Run(NodeCells(node), a, k) \o Run(NodeCells(node), b, m) = Run(NodeCells(node), a, l)
  BY RunsJoin
<1> QED BY ONLY <1>1, <1>2, <1>3, <1>4, Zenon

LEMMA CellsPart ==
  ASSUME NEW node, NEW k, NEW from, NEW n, NEW lo, NEW hi, Within(k, from, n, lo, hi)
  PROVE  SubSeq(CellsOf(node, 0, k), lo, hi) = CellsOf(node, from, n)
<1>0. 0 \in Int /\ from \in Int /\ After(0, from, from)
  BY DEF Within, After
<1>1. CellsOf(node, 0, k) = Run(NodeCells(node), 0, k)
  BY ONLY <1>0, NodeRun, Zenon
<1>2. CellsOf(node, from, n) = Run(NodeCells(node), from, n)
  BY ONLY <1>0, NodeRun, Zenon
<1>3. SubSeq(Run(NodeCells(node), 0, k), lo, hi) = Run(NodeCells(node), from, n)
  BY <1>0, RunPart
<1> QED BY ONLY <1>1, <1>2, <1>3, Zenon

LEMMA CellsLen ==
  ASSUME NEW node, NEW from \in Nat, NEW n \in Nat
  PROVE  Len(CellsOf(node, from, n)) = n
<1>1. CellsOf(node, from, n) = Run(NodeCells(node), from, n)
  BY NodeRun
<1>2. from \in Int
  OBVIOUS
<1>3. Len(Run(NodeCells(node), from, n)) = n
  BY ONLY <1>2, n \in Nat, RunIsSeq
<1> QED BY <1>1, <1>3

-----------------------------------------------------------------------------
(* One step of read_all: where it reads, and how much.                     *)
StepIs(s, sz, bs, o, n) ==
  /\ s.block \in Nat /\ s.from \in 0..(bs - 1) /\ o = s.block * bs + s.from
  /\ o > sz => s.count = -1
  /\ o = sz => s.count = 0
  /\ o < sz => /\ s.count \in Nat /\ s.count <= n /\ s.count <= sz - o
               /\ s.count <= bs - s.from /\ (n > 0 => s.count > 0)

LEMMA ReadStepIs ==
  ASSUME NEW sz \in Nat, NEW bs \in Nat \ {0}, NEW o \in Nat, NEW n \in Nat
  PROVE  StepIs(ReadStep(sz, bs, o, n), sz, bs, o, n)
<1>1. PICK q \in Nat, r \in 0..(bs - 1) : o \div bs = q /\ o % bs = r /\ o = q * bs + r
  BY DivParts
<1> DEFINE m == Min({n, sz - o, bs - r})
           c == IF o > sz THEN -1 ELSE IF o = sz THEN 0 ELSE m
<1>2. ReadStep(sz, bs, o, n) = [block |-> q, from |-> r, count |-> c]
  BY <1>1 DEF ReadStep
<1>3. m \in {n, sz - o, bs - r} /\ m <= n /\ m <= sz - o /\ m <= bs - r
  <2>1. n \in Int /\ sz - o \in Int /\ bs - r \in Int
    OBVIOUS
  <2> QED BY <2>1, MinOfThree
<1> HIDE DEF m
<1>4. /\ o > sz => c = -1
      /\ o = sz => c = 0
      /\ o < sz => c \in Nat /\ c <= n /\ c <= sz - o /\ c <= bs - r /\ (n > 0 => c > 0)
  <2>1. o < sz => m \in Nat /\ (n > 0 => m > 0)
    BY <1>3
  <2> QED BY <1>3, <2>1
<1> HIDE DEF c
<1> QED BY <1>1, <1>2, <1>4 DEF StepIs

LEMMA ReadStepCount ==
  ASSUME NEW sz \in Nat, NEW bs \in Nat \ {0}, NEW o \in Nat, NEW n \in Nat
  PROVE  /\ o > sz => ReadStep(sz, bs, o, n).count = -1
         /\ o = sz => ReadStep(sz, bs, o, n).count = 0
         /\ o < sz => /\ ReadStep(sz, bs, o, n).count \in Nat
                      /\ n > 0 => ReadStep(sz, bs, o, n).count > 0
<1>1. StepIs(ReadStep(sz, bs, o, n), sz, bs, o, n)
  BY ReadStepIs
<1> QED BY ONLY <1>1, Zenon DEF StepIs

(* A cell of a node, by its block and its place there.                     *)
LEMMA CellOfIs ==
  ASSUME NEW node, NEW q \in Nat, NEW r \in 0..(BlockSize - 1)
  PROVE  CellOf(node, q * BlockSize + r) = Cell(BlockNumber(node, q) * BlockSize + r)
<1>0. BlockSize \in Nat \ {0}
  BY ImageAssumption
<1> DEFINE o == q * BlockSize + r
<1>1. o \div BlockSize = q /\ o % BlockSize = r
  BY <1>0, DivIs
<1> HIDE DEF o
<1>2. /\ ReadStep(node.size_low, BlockSize, o, 1).block = q
      /\ ReadStep(node.size_low, BlockSize, o, 1).from = r
  BY <1>1 DEF ReadStep
<1>3. CellOf(node, o) = Cell(BlockNumber(node, q) * BlockSize + r)
  BY <1>2 DEF CellOf
<1> QED BY <1>3 DEF o

LEMMA SoundNodes ==
  ASSUME NEW node \in OpenNodes
  PROVE  Sound(node)
BY ImageAssumption DEF OpenNodes

(* The block that holds a cell of a node is on the disk.                   *)
LEMMA BlockThere ==
  ASSUME NEW node \in OpenNodes, NEW o \in Nat, o < node.size_low
  PROVE  LET b == o \div BlockSize IN
         BlockNumber(node, b) \in Nat /\ (~IsDirect(b) => PointerAt(node, b) \in Nat)
<1>1. node.size_low \in Nat /\ o \in 0..(node.size_low - 1)
  BY SoundNodes DEF Sound
<1> QED BY <1>1, SoundNodes DEF Sound

-----------------------------------------------------------------------------
(* A round of read_all of a node ends the read or starts one of the        *)
(* device.                                                                 *)
Progress(j) ==
  /\ GoodRead(j)
  /\ \/ j.pc = "done" /\ Finished(j)
     \/ j.pc = "spin" /\ GoodDeviceRead(j)

LEMMA IdeReadGood ==
  ASSUME NEW j, GoodRead(j), j.n > 0, NEW why \in {"block", "pointer"}, NEW at \in Nat,
         LET s == ReadStep(j.node.size_low, BlockSize, j.offset, j.n) IN
           /\ s.count > 0
           /\ why = "block" => at = BlockNumber(j.node, s.block) * BlockSize
           /\ why = "pointer" => at = PointerAt(j.node, s.block) /\ ~IsDirect(s.block)
  PROVE  LET r == IdeRead(j, at, IF why = "block" THEN BlockSize ELSE 1, why) IN
         Progress(r) /\ r.start = j.start /\ r.asked = j.asked /\ r.node = j.node
<1> DEFINE left == IF why = "block" THEN BlockSize ELSE 1
           r == IdeRead(j, at, left, why)
           s == ReadStep(j.node.size_low, BlockSize, j.offset, j.n)
<1>0. left \in Nat \ {0}
  BY ImageAssumption
<1> HIDE DEF left
<1>1. /\ DOMAIN r = JobFields /\ r.pc = "spin" /\ r.node = j.node /\ r.start = j.start
      /\ r.asked = j.asked /\ r.offset = j.offset /\ r.n = j.n /\ r.data = j.data
      /\ r.at = at /\ r.left = left /\ r.buf = <<>> /\ r.why = why
  <2>1. DOMAIN j = JobFields
    BY DEF GoodRead
  <2> QED BY ONLY <2>1 DEF JobFields, IdeRead
<1> HIDE DEF r
<1>2. GoodRead(r)
  BY <1>1 DEF GoodRead
<1>3. GoodDeviceRead(r)
  <2>1. r.node = j.node /\ r.offset = j.offset /\ r.n = j.n /\ r.at = at /\ r.left = left
        /\ r.buf = <<>> /\ r.why = why
    BY <1>1
  <2>2. ReadStep(r.node.size_low, BlockSize, r.offset, r.n) = s
    BY <2>1
  <2> HIDE DEF s
  <2> DEFINE begin == IF r.why = "block" THEN BlockNumber(r.node, s.block) * BlockSize
                                         ELSE PointerAt(r.node, s.block)
             size == IF r.why = "block" THEN BlockSize ELSE 1
  <2>3. begin = at /\ size = left
    BY <2>1 DEF s, left
  <2>4. j.n > 0 /\ s.count > 0 /\ (why = "pointer" => ~IsDirect(s.block))
    BY DEF s
  <2>5. [i \in 1..(at - at) |-> Cell(at + i - 1)] = <<>>
    <3>1. 1..(at - at) = {}
      OBVIOUS
    <3> QED BY <3>1
  <2>6. /\ r.n > 0 /\ s.count > 0
        /\ r.why \in {"block", "pointer"} /\ (r.why = "pointer" => ~IsDirect(s.block))
        /\ begin \in Nat /\ r.at \in Nat /\ r.left \in Nat \ {0}
        /\ begin <= r.at /\ r.at + r.left = begin + size
    <3> HIDE DEF begin, size
    <3> QED BY <1>0, <2>1, <2>3, <2>4
  <2>7. r.buf = [i \in 1..(r.at - begin) |-> Cell(begin + i - 1)]
    <3> HIDE DEF begin
    <3> QED BY <2>1, <2>3, <2>5
  <2> QED BY <2>2, <2>6, <2>7 DEF GoodDeviceRead
<1>4. Progress(r) /\ r.start = j.start /\ r.asked = j.asked /\ r.node = j.node
  BY <1>1, <1>2, <1>3 DEF Progress
<1> QED BY <1>4 DEF r, left

LEMMA RoundGood ==
  ASSUME NEW j, GoodRead(j)
  PROVE  Progress(Round(j)) /\ Round(j).start = j.start /\ Round(j).asked = j.asked
         /\ Round(j).node = j.node
<1> DEFINE s == ReadStep(j.node.size_low, BlockSize, j.offset, j.n)
           sz == j.node.size_low
<1>0. BlockSize \in Nat \ {0} /\ sz \in Nat /\ j.node \in OpenNodes
      /\ j.start \in Nat /\ j.asked \in Nat /\ j.offset \in Nat /\ j.n \in Nat
  BY ImageAssumption, SoundNodes DEF GoodRead, Sound
<1>1. /\ j.offset > sz => s.count = -1
      /\ j.offset = sz => s.count = 0
      /\ j.offset < sz => s.count \in Nat /\ (j.n > 0 => s.count > 0)
  BY ONLY <1>0, ReadStepCount
<1>2. CASE j.n = 0 \/ s.count <= 0
  <2> DEFINE c == IF j.n > 0 /\ s.count < 0 THEN s.count ELSE Len(j.data)
             r == [j EXCEPT !.pc = "done", !.count = c]
  <2>1. Round(j) = r
    BY <1>2 DEF Round
  <2>2. j.offset - j.start \in Nat /\ Len(j.data) = j.offset - j.start
    <3>1. j.offset - j.start \in Nat
      BY <1>0 DEF GoodRead
    <3> QED BY <1>0, <3>1, CellsLen DEF GoodRead
  <2>3. c = IF j.start > sz /\ j.asked > 0 THEN -1 ELSE j.offset - j.start
    <3>1. j.start <= j.offset /\ j.offset + j.n = j.start + j.asked
          /\ (j.offset <= sz \/ j.offset = j.start)
      BY DEF GoodRead
    <3> HIDE DEF s, sz
    <3>2. CASE j.offset > sz
      <4>1. j.offset = j.start /\ j.n = j.asked
        BY <1>0, <3>1, <3>2
      <4> QED BY <1>0, <1>1, <2>2, <3>2, <4>1
    <3>3. CASE j.offset <= sz
      <4>1. ~(j.start > sz) /\ ~(s.count < 0)
        BY <1>0, <1>1, <3>1, <3>3
      <4> QED BY <2>2, <4>1
    <3> QED BY <1>0, <3>2, <3>3
  <2>4. j.n = 0 \/ j.offset >= sz
    <3> HIDE DEF s, sz
    <3> QED BY <1>0, <1>1, <1>2
  <2> HIDE DEF c
  <2>5. /\ DOMAIN r = JobFields /\ r.pc = "done" /\ r.node = j.node /\ r.start = j.start
        /\ r.asked = j.asked /\ r.offset = j.offset /\ r.n = j.n /\ r.data = j.data
        /\ r.count = c
    <3>1. DOMAIN j = JobFields
      BY DEF GoodRead
    <3> QED BY ONLY <3>1 DEF JobFields
  <2> HIDE DEF r
  <2>6. GoodRead(r)
    BY <2>5 DEF GoodRead
  <2>7. Finished(r)
    BY <2>3, <2>4, <2>5 DEF Finished
  <2> QED BY <2>1, <2>5, <2>6, <2>7 DEF Progress
<1>3. CASE ~(j.n = 0 \/ s.count <= 0)
  <2>1. j.n > 0 /\ s.count > 0 /\ j.offset < sz
    <3> HIDE DEF s, sz
    <3> QED BY <1>0, <1>1, <1>3
  <2>2. BlockNumber(j.node, s.block) \in Nat /\ (~IsDirect(s.block) => PointerAt(j.node, s.block) \in Nat)
    <3>1. s.block = j.offset \div BlockSize
      BY DEF ReadStep
    <3> HIDE DEF s
    <3> QED BY <1>0, <2>1, <3>1, BlockThere
  <2>3. CASE IsDirect(s.block)
    <3> DEFINE at == j.node.direct[s.block] * BlockSize
    <3>1. Round(j) = IdeRead(j, at, BlockSize, "block")
      BY <1>3, <2>3 DEF Round
    <3>2. at \in Nat /\ at = BlockNumber(j.node, s.block) * BlockSize
      <4>1. BlockNumber(j.node, s.block) = j.node.direct[s.block]
        BY <2>3 DEF BlockNumber
      <4> HIDE DEF s
      <4> QED BY <1>0, <2>2, <4>1
    <3> HIDE DEF at
    <3> QED BY <2>1, <3>1, <3>2, IdeReadGood
  <2>4. CASE ~IsDirect(s.block)
    <3> DEFINE at == PointerAt(j.node, s.block)
    <3>1. Round(j) = IdeRead(j, at, 1, "pointer")
      BY <1>3, <2>4 DEF Round
    <3>2. at \in Nat
      BY <2>2, <2>4
    <3>3. Round(j) = IdeRead(j, at, IF "pointer" = "block" THEN BlockSize ELSE 1, "pointer")
      BY <3>1
    <3> HIDE DEF at
    <3> QED BY <2>1, <2>4, <3>3, <3>2, IdeReadGood DEF at
  <2> QED BY <2>3, <2>4
<1> QED BY <1>2, <1>3

(* Part of a block that has been read is part of the node.                 *)
InBlock(node, q, from, at, o) ==
  /\ q \in Nat /\ from \in 0..(BlockSize - 1) /\ at \in Nat
  /\ at = BlockNumber(node, q) * BlockSize /\ o = q * BlockSize + from

LEMMA BlockPart ==
  ASSUME NEW node, NEW q, NEW from, NEW n, NEW at, NEW lo, NEW hi, NEW o,
         InBlock(node, q, from, at, o), Within(BlockSize, from, n, lo, hi)
  PROVE  SubSeq(Run(Disk, at, BlockSize), lo, hi) = CellsOf(node, o, n)
<1>0. BlockSize \in Nat /\ from \in 0..(BlockSize - 1) /\ n \in Nat /\ at \in Int /\ q \in Nat
      /\ from + n <= BlockSize /\ from \in Int
  BY DEF Within, InBlock
<1>1. PICK p \in Nat : p = q * BlockSize
  BY <1>0
<1>2. PICK b \in Int : b = at + from
  BY <1>0
<1>3. SubSeq(Run(Disk, at, BlockSize), lo, hi) = Run(Disk, b, n)
  <2>1. After(at, from, b)
    BY <1>0, <1>2 DEF After
  <2> QED BY <2>1, RunPart
<1>4. \A i \in 1..n : CellOf(node, o + i - 1) = Disk[b + i - 1]
  <2> TAKE i \in 1..n
  <2>1. PICK r \in 0..(BlockSize - 1) : r = from + i - 1
    BY <1>0
  <2>2. CellOf(node, q * BlockSize + r) = Cell(BlockNumber(node, q) * BlockSize + r)
    BY <1>0, CellOfIs
  <2>3. CellOf(node, p + r) = Disk[at + r]
    BY <1>1, <2>2 DEF Cell, InBlock
  <2>4. o = p + from
    BY <1>1 DEF InBlock
  <2>5. p + r = o + i - 1 /\ b + i - 1 = at + r
    BY <1>0, <1>2, <2>1, <2>4
  <2> QED BY <2>3, <2>5
<1>5. CellsOf(node, o, n) = Run(Disk, b, n)
  BY <1>4 DEF CellsOf, Run
<1> QED BY ONLY <1>3, <1>5

(* Where a step that reads something reads, and how much.                  *)
Reads(s, sz, bs, o, n) ==
  /\ sz \in Nat /\ bs \in Nat \ {0} /\ o \in Nat /\ n \in Nat
  /\ s = ReadStep(sz, bs, o, n) /\ s.count > 0

LEMMA ReadStepAt ==
  ASSUME NEW s, NEW sz, NEW bs, NEW o, NEW n, Reads(s, sz, bs, o, n)
  PROVE  /\ s.block \in Nat /\ s.from \in 0..(bs - 1) /\ o = s.block * bs + s.from
         /\ s.count \in Nat /\ o < sz /\ s.count <= n /\ s.count <= sz - o
         /\ s.from + s.count <= bs
<1>0. sz \in Nat /\ bs \in Nat \ {0} /\ o \in Nat /\ n \in Nat
      /\ s = ReadStep(sz, bs, o, n) /\ s.count > 0
  BY DEF Reads
<1>1. StepIs(s, sz, bs, o, n)
  BY ONLY <1>0, ReadStepIs
<1>a. PICK c : s.count = c
  OBVIOUS
<1>b. PICK q \in Nat, from \in 0..(bs - 1) : s.block = q /\ s.from = from
  BY <1>1, Zenon DEF StepIs
<1>2. s.block = q /\ s.from = from /\ s.count = c
  BY <1>a, <1>b, Zenon
<1>3. /\ o > sz => c = -1
      /\ o = sz => c = 0
      /\ o < sz => /\ c \in Nat /\ c <= n /\ c <= sz - o /\ c <= bs - from
      /\ c > 0
  BY ONLY <1>0, <1>1, <1>2, Zenon DEF StepIs
<1>4. o < sz /\ c \in Nat /\ c <= n /\ c <= sz - o /\ from + c <= bs
  BY ONLY <1>0, <1>3, from \in 0..(bs - 1)
<1> QED BY ONLY <1>1, <1>2, <1>4, Zenon DEF StepIs

LEMMA BlockReadGood ==
  ASSUME NEW j, GoodRead(j), j.n > 0, NEW at \in Nat,
         LET s == ReadStep(j.node.size_low, BlockSize, j.offset, j.n) IN
           s.count > 0 /\ at = BlockNumber(j.node, s.block) * BlockSize,
         j.buf = [i \in 1..BlockSize |-> Cell(at + i - 1)]
  PROVE  LET r == BlockRead(j) IN
         Progress(r) /\ r.start = j.start /\ r.asked = j.asked /\ r.node = j.node
<1> DEFINE S == ReadStep(j.node.size_low, BlockSize, j.offset, j.n)
<1>0. BlockSize \in Nat \ {0} /\ j.node.size_low \in Nat /\ j.node \in OpenNodes
      /\ j.start \in Nat /\ j.asked \in Nat /\ j.offset \in Nat /\ j.n \in Nat
  BY ImageAssumption, SoundNodes DEF GoodRead, Sound
<1>1. PICK s : s = S
  OBVIOUS
<1>2. PICK sz \in Nat, o \in Nat, n \in Nat, start \in Nat, asked \in Nat :
        /\ sz = j.node.size_low /\ o = j.offset /\ n = j.n /\ start = j.start /\ asked = j.asked
  BY <1>0
<1>3. PICK q \in Nat, from \in 0..(BlockSize - 1), c \in Nat :
        /\ s.block = q /\ s.from = from /\ s.count = c /\ o = q * BlockSize + from
        /\ o < sz /\ c <= n /\ c <= sz - o /\ from + c <= BlockSize
  <2>1. Reads(s, sz, BlockSize, o, n)
    BY <1>0, <1>1, <1>2 DEF Reads
  <2>2. /\ s.block \in Nat /\ s.from \in 0..(BlockSize - 1) /\ o = s.block * BlockSize + s.from
        /\ s.count \in Nat /\ o < sz /\ s.count <= n /\ s.count <= sz - o
        /\ s.from + s.count <= BlockSize
    BY ONLY <2>1, ReadStepAt, Zenon
  <2> QED BY ONLY <2>2, Zenon
<1>4. at = BlockNumber(j.node, q) * BlockSize
  BY <1>1, <1>3
<1>5. PICK lo, hi : lo = from + 1 /\ hi = from + c
  OBVIOUS
<1> DEFINE d == SubSeq(j.buf, lo, hi)
           k == [j EXCEPT !.data = @ \o d, !.offset = @ + c, !.n = @ - c]
<1>6. BlockRead(j) = Round(k)
  BY <1>1, <1>3, <1>5 DEF BlockRead
<1>7. /\ DOMAIN k = JobFields /\ k.node = j.node /\ k.start = start /\ k.asked = asked
      /\ k.offset = o + c /\ k.n = n - c /\ k.data = j.data \o d
  <2>1. DOMAIN j = JobFields
    BY DEF GoodRead
  <2> HIDE DEF d
  <2>2. /\ DOMAIN k = JobFields /\ k.node = j.node /\ k.start = j.start /\ k.asked = j.asked
        /\ k.offset = j.offset + c /\ k.n = j.n - c /\ k.data = j.data \o d
    BY ONLY <2>1 DEF JobFields
  <2> HIDE DEF k
  <2> QED BY <1>2, <2>2
<1> HIDE DEF k
<1>8. d = CellsOf(j.node, o, c)
  <2>1. d = SubSeq(Run(Disk, at, BlockSize), lo, hi)
    BY DeviceRun
  <2>2. InBlock(j.node, q, from, at, o)
    BY <1>3, <1>4, Zenon DEF InBlock
  <2>3. Within(BlockSize, from, c, lo, hi)
    <3>1. from + c <= BlockSize
      BY ONLY <1>3, Zenon
    <3> QED BY <1>0, <1>5, <3>1 DEF Within
  <2>4. SubSeq(Run(Disk, at, BlockSize), lo, hi) = CellsOf(j.node, o, c)
    BY ONLY <2>2, <2>3, BlockPart
  <2> QED BY ONLY <2>1, <2>4
<1> HIDE DEF d
<1>9. PICK m \in Nat, l \in Nat : m = o - start /\ l = m + c
  BY <1>2 DEF GoodRead
<1>10. j.data = CellsOf(j.node, start, m) /\ o + n = start + asked
  BY <1>2, <1>9 DEF GoodRead
<1>11. k.data = CellsOf(j.node, start, l)
  <2>1. Follows(start, m, o, c, l)
    BY ONLY <1>9, o \in Nat, start \in Nat, m \in Nat, c \in Nat DEF Follows
  <2>2. CellsOf(j.node, start, m) \o CellsOf(j.node, o, c) = CellsOf(j.node, start, l)
    BY ONLY <2>1, CellsJoin
  <2> QED BY ONLY <1>7, <1>8, <1>10, <2>2, Zenon
<1>12. GoodRead(k)
  <2>0. c <= n /\ c <= sz - o
    BY ONLY <1>3, Zenon
  <2>1. PICK o2 \in Nat, n2 \in Nat : o2 = o + c /\ n2 = n - c
    BY ONLY <2>0, o \in Nat, n \in Nat, c \in Nat
  <2>2. start <= o2 /\ o2 + n2 = start + asked /\ o2 <= sz /\ l = o2 - start
    BY ONLY <1>9, <1>10, <2>0, <2>1, o \in Nat, n \in Nat, c \in Nat, sz \in Nat, start \in Nat,
            asked \in Nat, m \in Nat
  <2>3. j.node \in OpenNodes /\ sz = k.node.size_low /\ k.offset = o2 /\ k.n = n2
    BY <1>0, <1>2, <1>7, <2>1
  <2> QED BY <1>7, <1>11, <2>2, <2>3 DEF GoodRead
<1>13. Progress(Round(k)) /\ Round(k).start = k.start /\ Round(k).asked = k.asked
       /\ Round(k).node = k.node
  BY <1>12, RoundGood
<1> QED BY <1>2, <1>6, <1>7, <1>13

(* Where the device's read that j waits for begins, and how long it is.    *)
Begin(j) ==
  LET s == ReadStep(j.node.size_low, BlockSize, j.offset, j.n)
  IN IF j.why = "block" THEN BlockNumber(j.node, s.block) * BlockSize ELSE PointerAt(j.node, s.block)
Size(j) == IF j.why = "block" THEN BlockSize ELSE 1

LEMMA DeviceReadIs ==
  ASSUME NEW j
  PROVE  GoodDeviceRead(j) <=>
         LET s == ReadStep(j.node.size_low, BlockSize, j.offset, j.n) IN
           /\ j.n > 0 /\ s.count > 0
           /\ j.why \in {"block", "pointer"} /\ (j.why = "pointer" => ~IsDirect(s.block))
           /\ Begin(j) \in Nat /\ j.at \in Nat /\ j.left \in Nat \ {0}
           /\ Begin(j) <= j.at /\ j.at + j.left = Begin(j) + Size(j)
           /\ j.buf = Run(Disk, Begin(j), j.at - Begin(j))
BY Zenon DEF GoodDeviceRead, Begin, Size, Run, Cell

(* What the device hands over is what follows what j has.                  *)
LEMMA SectorIs ==
  ASSUME NEW j, j.at \in Nat, NEW c
  PROVE  [i \in 1..c |-> Cell(Sector(j) * SectorSize + (j.at % SectorSize) + i - 1)]
           = Run(Disk, j.at, c)
<1>0. SectorSize \in Nat \ {0}
  BY ImageAssumption
<1>1. PICK q \in Nat, r \in 0..(SectorSize - 1) :
        j.at \div SectorSize = q /\ j.at % SectorSize = r /\ j.at = q * SectorSize + r
  BY <1>0, DivParts
<1>2. PICK a \in Nat : a = j.at
  OBVIOUS
<1>3. \A i \in 1..c : Cell(q * SectorSize + r + i - 1) = Disk[a + i - 1]
  BY <1>1, <1>2 DEF Cell
<1> QED BY <1>1, <1>2, <1>3 DEF Sector, Run

LEMMA SectorReadGood ==
  ASSUME NEW j, GoodRead(j), GoodDeviceRead(j)
  PROVE  LET r == SectorRead(j, Sector(j)) IN
         Progress(r) /\ r.start = j.start /\ r.asked = j.asked /\ r.node = j.node
<1> DEFINE S == ReadStep(j.node.size_low, BlockSize, j.offset, j.n)
           R == SectorRead(j, Sector(j))
<1>0. BlockSize \in Nat \ {0} /\ SectorSize \in Nat \ {0} /\ j.node \in OpenNodes
  BY ImageAssumption DEF GoodRead
<1>a. Size(j) \in Nat
  BY <1>0 DEF Size
<1>b. /\ j.n > 0 /\ S.count > 0
      /\ j.why \in {"block", "pointer"} /\ (j.why = "pointer" => ~IsDirect(S.block))
      /\ Begin(j) \in Nat /\ j.at \in Nat /\ j.left \in Nat \ {0}
      /\ Begin(j) <= j.at /\ j.at + j.left = Begin(j) + Size(j)
      /\ j.buf = Run(Disk, Begin(j), j.at - Begin(j))
  BY DeviceReadIs, Zenon
<1>c. j.left \in Nat /\ j.left > 0
  BY ONLY <1>b
<1>d. PICK s : s = S
  OBVIOUS
<1>e. PICK begin \in Nat : begin = Begin(j)
  BY ONLY <1>b, Zenon
<1>f. PICK at \in Nat : at = j.at
  BY ONLY <1>b, Zenon
<1>g. PICK left \in Nat : left = j.left
  BY ONLY <1>c, Zenon
<1>h. PICK size \in Nat : size = Size(j)
  BY ONLY <1>a, Zenon
<1>1. /\ s = S /\ begin = Begin(j) /\ at = j.at /\ left = j.left /\ size = Size(j) /\ left > 0
      /\ j.n > 0 /\ s.count > 0
      /\ j.why \in {"block", "pointer"} /\ (j.why = "pointer" => ~IsDirect(s.block))
      /\ begin <= at /\ at + left = begin + size
      /\ j.buf = Run(Disk, begin, at - begin)
  <2> HIDE DEF S
  <2> QED BY ONLY <1>b, <1>c, <1>d, <1>e, <1>f, <1>g, <1>h, Zenon
<1>2. PICK from \in 0..(SectorSize - 1) : from = j.at % SectorSize
  BY <1>0, <1>1
<1>3. PICK c \in Nat : c = Min({SectorSize - from, left}) /\ c > 0 /\ c <= left
  <2>1. SectorSize - from \in Int /\ left \in Int /\ SectorSize - from > 0
    BY <1>0
  <2> QED BY <1>1, <2>1, MinOfTwo
<1> DEFINE d == Run(Disk, at, c)
           k == [j EXCEPT !.buf = @ \o d, !.at = @ + c, !.left = @ - c, !.pc = "spin"]
<1>4. d = [i \in 1..c |-> Cell(Sector(j) * SectorSize + from + i - 1)]
  BY <1>1, <1>2, SectorIs
<1>5. R = IF k.left > 0 THEN k
          ELSE IF k.why = "pointer" THEN IdeRead(k, k.buf[1] * BlockSize, BlockSize, "block")
               ELSE BlockRead(k)
  <2> HIDE DEF d
  <2>1. c = Min({SectorSize - (j.at % SectorSize), j.left})
    BY <1>1, <1>2, <1>3
  <2>2. d = [i \in 1..c |-> Cell(Sector(j) * SectorSize + (j.at % SectorSize) + i - 1)]
    BY <1>2, <1>4
  <2> QED BY ONLY <2>1, <2>2 DEF SectorRead
<1>6. /\ DOMAIN k = JobFields /\ k.node = j.node /\ k.start = j.start /\ k.asked = j.asked
      /\ k.offset = j.offset /\ k.n = j.n /\ k.data = j.data /\ k.why = j.why /\ k.pc = "spin"
      /\ k.at = at + c /\ k.left = left - c /\ k.buf = j.buf \o d
  <2>1. DOMAIN j = JobFields
    BY DEF GoodRead
  <2> HIDE DEF d
  <2>2. /\ DOMAIN k = JobFields /\ k.node = j.node /\ k.start = j.start /\ k.asked = j.asked
        /\ k.offset = j.offset /\ k.n = j.n /\ k.data = j.data /\ k.why = j.why /\ k.pc = "spin"
        /\ k.at = j.at + c /\ k.left = j.left - c /\ k.buf = j.buf \o d
    BY ONLY <2>1 DEF JobFields
  <2> HIDE DEF k
  <2> QED BY <1>1, <2>2
<1> HIDE DEF k, R
<1>7. GoodRead(k)
  BY <1>6 DEF GoodRead
<1>8. /\ s = ReadStep(k.node.size_low, BlockSize, k.offset, k.n)
      /\ begin = Begin(k) /\ size = Size(k) /\ k.n > 0 /\ s.count > 0
      /\ k.why \in {"block", "pointer"} /\ (k.why = "pointer" => ~IsDirect(s.block))
  BY ONLY <1>1, <1>6, Zenon DEF Begin, Size
<1>9. PICK m \in Nat, l \in Nat : m = at - begin /\ l = m + c
  BY <1>1
<1>10. k.buf = Run(Disk, begin, l)
  <2>1. Follows(begin, m, at, c, l)
    BY ONLY <1>9, begin \in Nat, at \in Nat, m \in Nat, c \in Nat DEF Follows
  <2>2. Run(Disk, begin, m) \o Run(Disk, at, c) = Run(Disk, begin, l)
    BY ONLY <2>1, RunsJoin
  <2> QED BY ONLY <1>1, <1>6, <1>9, <2>2, Zenon
<1>11. PICK at2 \in Nat, left2 \in Nat :
         /\ at2 = at + c /\ left2 = left - c /\ begin <= at2 /\ at2 + left2 = begin + size
         /\ l = at2 - begin
  BY ONLY <1>1, <1>3, <1>9, begin \in Nat, at \in Nat, m \in Nat, c \in Nat, left \in Nat
<1>12. k.at = at2 /\ k.left = left2
  BY ONLY <1>6, <1>11
<1>13. CASE left2 > 0
  <2>1. R = k
    BY ONLY <1>5, <1>12, <1>13
  <2>2. GoodDeviceRead(k)
    <3>1. left2 \in Nat \ {0}
      BY ONLY <1>13, left2 \in Nat
    <3>2. /\ Begin(k) \in Nat /\ k.at \in Nat /\ k.left \in Nat \ {0}
          /\ Begin(k) <= k.at /\ k.at + k.left = Begin(k) + Size(k)
          /\ k.buf = Run(Disk, Begin(k), k.at - Begin(k))
      BY ONLY <1>8, <1>10, <1>11, <1>12, <3>1, begin \in Nat, at2 \in Nat, Zenon
    <3> QED BY ONLY <1>8, <3>2, DeviceReadIs, Zenon
  <2> QED BY <1>6, <1>7, <2>1, <2>2 DEF Progress, R
<1>14. CASE ~(left2 > 0)
  <2>0. ~(k.left > 0) /\ l = size
    BY ONLY <1>11, <1>12, <1>14, left2 \in Nat, begin \in Nat, at2 \in Nat, size \in Nat
  <2>1. BlockNumber(j.node, s.block) \in Nat
    <3>1. j.offset \in Nat /\ j.n \in Nat /\ j.node.size_low \in Nat
      BY <1>0, SoundNodes DEF GoodRead, Sound
    <3>2. Reads(s, j.node.size_low, BlockSize, j.offset, j.n)
      BY <1>0, <1>1, <3>1 DEF Reads
    <3>3. j.offset < j.node.size_low
      BY ONLY <3>2, ReadStepAt, Zenon
    <3>4. s.block = j.offset \div BlockSize
      BY <1>1 DEF ReadStep
    <3> QED BY <1>0, <3>1, <3>3, <3>4, BlockThere
  <2>2. PICK top \in Nat : top = BlockNumber(j.node, s.block) * BlockSize
    BY <1>0, <2>1
  <2>3. CASE k.why = "pointer"
    <3>1. R = IdeRead(k, k.buf[1] * BlockSize, BlockSize, "block")
      BY ONLY <1>5, <2>0, <2>3, Zenon
    <3>2. k.buf[1] = BlockNumber(j.node, s.block)
      <4>1. size = 1 /\ begin = PointerAt(j.node, s.block) /\ ~IsDirect(s.block)
        BY <1>6, <1>8, <2>3 DEF Size, Begin
      <4>2. begin + 1 - 1 = begin /\ 1 \in 1..1
        OBVIOUS
      <4>3. Run(Disk, begin, 1)[1] = Disk[begin]
        BY <4>2 DEF Run
      <4> QED BY <1>10, <2>0, <4>1, <4>3 DEF BlockNumber, Cell
    <3>3. R = IdeRead(k, top, IF "block" = "block" THEN BlockSize ELSE 1, "block")
      BY <2>2, <3>1, <3>2
    <3>4. s.count > 0 /\ top = BlockNumber(k.node, s.block) * BlockSize /\ k.n > 0
      BY <1>6, <1>8, <2>2
    <3>5. LET z == ReadStep(k.node.size_low, BlockSize, k.offset, k.n) IN
            /\ z.count > 0
            /\ "block" = "block" => top = BlockNumber(k.node, z.block) * BlockSize
            /\ "block" = "pointer" => top = PointerAt(k.node, z.block) /\ ~IsDirect(z.block)
      BY ONLY <1>8, <3>4
    <3>6. LET r == IdeRead(k, top, IF "block" = "block" THEN BlockSize ELSE 1, "block") IN
          Progress(r) /\ r.start = k.start /\ r.asked = k.asked /\ r.node = k.node
      BY ONLY <1>7, <3>4, <3>5, IdeReadGood, top \in Nat
    <3> QED BY <1>6, <3>3, <3>6 DEF R
  <2>4. CASE k.why = "block"
    <3>1. R = BlockRead(k)
      BY ONLY <1>5, <2>0, <2>4
    <3>2. size = BlockSize /\ begin = BlockNumber(k.node, s.block) * BlockSize
      BY <1>8, <2>4 DEF Size, Begin
    <3>3. k.buf = [i \in 1..BlockSize |-> Cell(begin + i - 1)]
      BY <1>10, <2>0, <3>2, DeviceRun
    <3>4. LET z == ReadStep(k.node.size_low, BlockSize, k.offset, k.n) IN
            z.count > 0 /\ begin = BlockNumber(k.node, z.block) * BlockSize
      BY ONLY <1>8, <3>2
    <3>5. LET r == BlockRead(k) IN
          Progress(r) /\ r.start = k.start /\ r.asked = k.asked /\ r.node = k.node
      BY ONLY <1>7, <1>8, <3>3, <3>4, BlockReadGood, begin \in Nat
    <3> QED BY <1>6, <3>1, <3>5 DEF R
  <2> QED BY <1>8, <2>3, <2>4
<1> QED BY <1>13, <1>14

-----------------------------------------------------------------------------
(* Tables and ids.                                                         *)
LEMMA Sizes ==
  /\ KindMod \in Nat \ {0} /\ NFILE \in Nat /\ NSEM \in Nat /\ NCHILD \in Nat
  /\ NFILE <= KindMod /\ NSEM <= KindMod /\ NCHILD <= KindMod /\ NFILE > 2
BY FilesAssumption

LEMMA IdParts ==
  ASSUME NEW kind \in Nat, NEW i \in 0..(KindMod - 1)
  PROVE  Id(kind, i) \div KindMod = kind /\ Id(kind, i) % KindMod = i
BY Sizes, DivIs DEF Id

LEMMA IdDiffers ==
  ASSUME NEW kind \in Nat, NEW i \in 0..(KindMod - 1), NEW k \in Nat, NEW m \in 0..(KindMod - 1),
         Id(kind, i) = Id(k, m)
  PROVE  kind = k /\ i = m
<1>1. Id(kind, i) \div KindMod = kind /\ Id(kind, i) % KindMod = i
  BY IdParts
<1>2. Id(k, m) \div KindMod = k /\ Id(k, m) % KindMod = m
  BY IdParts
<1> QED BY ONLY <1>1, <1>2, Id(kind, i) = Id(k, m), Zenon

(* A table that ids can name all entries of.                               *)
IsTable(table, n) == n \in Nat /\ n <= KindMod /\ DOMAIN table = 0..(n - 1)

LEMMA FreeEntry ==
  ASSUME NEW table, NEW n, IsTable(table, n), ~Full(table)
  PROVE  FirstFree(table) \in 0..(n - 1) /\ table[FirstFree(table)] = None
<1>0. n \in Nat /\ DOMAIN table = 0..(n - 1)
  BY DEF IsTable
<1>1. Cardinality(DOMAIN table) = n
  BY <1>0, FS_Interval
<1> DEFINE Free == {i \in DOMAIN table : table[i] = None}
           A == Free \union {Cardinality(DOMAIN table)}
<1>2. A = Free \union {n} /\ A \subseteq Nat /\ A # {}
  BY <1>0, <1>1
<1>3. Min(A) \in A
  <2>1. \E x \in A : \A y \in A : x <= y
    BY <1>2, NatLeast
  <2> QED BY <2>1 DEF Min
<1>4. FirstFree(table) = Min(A)
  BY DEF FirstFree
<1>5. Min(A) # n
  BY <1>1, <1>4 DEF Full
<1> QED BY <1>0, <1>2, <1>3, <1>4, <1>5

FreeAt(table, n, i) == IsTable(table, n) /\ i \in 0..(n - 1) /\ table[i] = None

LEMMA HandlesAdd ==
  ASSUME NEW table, NEW n, NEW i, FreeAt(table, n, i), NEW v, v # None, NEW kind
  PROVE  Handles(kind, [table EXCEPT ![i] = v]) = Handles(kind, table) \union {<<Id(kind, i), v>>}
<1> DEFINE t == [table EXCEPT ![i] = v]
<1>0. DOMAIN table = 0..(n - 1) /\ i \in 0..(n - 1) /\ table[i] = None
  BY DEF IsTable, FreeAt
<1>1. DOMAIN t = DOMAIN table /\ t[i] = v /\ \A k \in DOMAIN table : k # i => t[k] = table[k]
  BY <1>0
<1> HIDE DEF t
<1>2. Handles(kind, t) = Handles(kind, table) \union {<<Id(kind, i), v>>}
  BY <1>0, <1>1 DEF Handles
<1> QED BY <1>2 DEF t

LEMMA HandlesDrop ==
  ASSUME NEW table, NEW n, IsTable(table, n), NEW i \in 0..(n - 1), NEW kind \in Nat
  PROVE  Handles(kind, [table EXCEPT ![i] = None]) = {g \in Handles(kind, table) : g[1] # Id(kind, i)}
<1> DEFINE t == [table EXCEPT ![i] = None]
<1>0. DOMAIN table = 0..(n - 1) /\ 0..(n - 1) \subseteq 0..(KindMod - 1)
  BY Sizes DEF IsTable
<1>1. DOMAIN t = DOMAIN table /\ t[i] = None /\ \A k \in DOMAIN table : k # i => t[k] = table[k]
  BY <1>0
<1> HIDE DEF t
<1>2. \A k \in DOMAIN table : Id(kind, k) = Id(kind, i) => k = i
  BY <1>0, IdDiffers
<1>3. Handles(kind, t) \subseteq {g \in Handles(kind, table) : g[1] # Id(kind, i)}
  <2> SUFFICES ASSUME NEW k \in DOMAIN t, t[k] # None
               PROVE  /\ <<Id(kind, k), t[k]>> \in Handles(kind, table)
                      /\ <<Id(kind, k), t[k]>>[1] # Id(kind, i)
    BY DEF Handles
  <2>1. k # i /\ k \in DOMAIN table /\ t[k] = table[k]
    BY <1>1
  <2> QED BY <1>2, <2>1 DEF Handles
<1>4. {g \in Handles(kind, table) : g[1] # Id(kind, i)} \subseteq Handles(kind, t)
  <2> SUFFICES ASSUME NEW k \in DOMAIN table, table[k] # None, <<Id(kind, k), table[k]>>[1] # Id(kind, i)
               PROVE  <<Id(kind, k), table[k]>> \in Handles(kind, t)
    BY DEF Handles
  <2>1. k # i
    OBVIOUS
  <2>2. k \in DOMAIN t /\ t[k] = table[k]
    BY <1>1, <2>1
  <2> QED BY <2>2 DEF Handles
<1> QED BY <1>3, <1>4 DEF t

LEMMA HandlesOther ==
  ASSUME NEW table, NEW n, IsTable(table, n), NEW kind \in Nat, NEW k \in Nat, k # kind,
         NEW i \in 0..(KindMod - 1)
  PROVE  {g \in Handles(kind, table) : g[1] # Id(k, i)} = Handles(kind, table)
<1>0. DOMAIN table = 0..(n - 1) /\ 0..(n - 1) \subseteq 0..(KindMod - 1)
  BY Sizes DEF IsTable
<1>1. \A m \in DOMAIN table : Id(kind, m) # Id(k, i)
  BY <1>0, IdDiffers
<1> QED BY <1>1 DEF Handles

LEMMA HandlesKind ==
  ASSUME NEW table, NEW n, IsTable(table, n), NEW kind \in Nat, NEW k \in Nat
  PROVE  {g \in Handles(kind, table) : g[1] \div KindMod # k}
           = IF kind = k THEN {} ELSE Handles(kind, table)
<1>0. DOMAIN table = 0..(n - 1) /\ 0..(n - 1) \subseteq 0..(KindMod - 1)
  BY Sizes DEF IsTable
<1>1. \A m \in DOMAIN table : Id(kind, m) \div KindMod = kind
  BY <1>0, IdParts
<1>2. \A g \in Handles(kind, table) : g[1] \div KindMod = kind
  BY <1>1 DEF Handles
<1> HIDE DEF Handles
<1> QED BY <1>2

LEMMA HandlesNone ==
  ASSUME NEW n, NEW kind
  PROVE  Handles(kind, NoTable(n)) = {}
BY DEF Handles, NoTable

(* An id that is in range names an entry.                                  *)
LEMMA IndexIs ==
  ASSUME NEW id \in Nat, NEW kind \in Nat, NEW size, size \in Nat, size <= KindMod,
         IndexOf(id, kind, size) # -1
  PROVE  IndexOf(id, kind, size) \in 0..(size - 1) /\ id = Id(kind, IndexOf(id, kind, size))
<1>1. PICK q \in Nat, r \in 0..(KindMod - 1) :
        id \div KindMod = q /\ id % KindMod = r /\ id = q * KindMod + r
  BY Sizes, DivParts
<1>2. q = kind /\ r < size /\ IndexOf(id, kind, size) = r
  BY <1>1 DEF IndexOf
<1> QED BY <1>1, <1>2, Sizes DEF Id

(* What a process was given is what its three tables hold.                 *)
NamesRight(g, f, s, c) == g = Handles(FL, f) \union Handles(SEM, s) \union Handles(PROC, c)
AreTables(f, s, c) == IsTable(f, NFILE) /\ IsTable(s, NSEM) /\ IsTable(c, NCHILD)

LEMMA Kinds == FL \in Nat /\ SEM \in Nat /\ PROC \in Nat /\ FL # SEM /\ FL # PROC /\ SEM # PROC
BY DEF FL, SEM, PROC

LEMMA Granted ==
  ASSUME NEW g, NEW f, NEW s, NEW c, AreTables(f, s, c), NamesRight(g, f, s, c), NEW v, v # None
  PROVE  /\ \A i \in 0..(NFILE - 1) : f[i] = None =>
              NamesRight(g \union {<<Id(FL, i), v>>}, [f EXCEPT ![i] = v], s, c)
         /\ \A i \in 0..(NSEM - 1) : s[i] = None =>
              NamesRight(g \union {<<Id(SEM, i), v>>}, f, [s EXCEPT ![i] = v], c)
         /\ \A i \in 0..(NCHILD - 1) : c[i] = None =>
              NamesRight(g \union {<<Id(PROC, i), v>>}, f, s, [c EXCEPT ![i] = v])
<1>1. ASSUME NEW i \in 0..(NFILE - 1), f[i] = None
      PROVE  Handles(FL, [f EXCEPT ![i] = v]) = Handles(FL, f) \union {<<Id(FL, i), v>>}
  <2>1. FreeAt(f, NFILE, i)
    BY <1>1 DEF AreTables, FreeAt
  <2> QED BY ONLY <2>1, v # None, HandlesAdd
<1>2. ASSUME NEW i \in 0..(NSEM - 1), s[i] = None
      PROVE  Handles(SEM, [s EXCEPT ![i] = v]) = Handles(SEM, s) \union {<<Id(SEM, i), v>>}
  <2>1. FreeAt(s, NSEM, i)
    BY <1>2 DEF AreTables, FreeAt
  <2> QED BY ONLY <2>1, v # None, HandlesAdd
<1>3. ASSUME NEW i \in 0..(NCHILD - 1), c[i] = None
      PROVE  Handles(PROC, [c EXCEPT ![i] = v]) = Handles(PROC, c) \union {<<Id(PROC, i), v>>}
  <2>1. FreeAt(c, NCHILD, i)
    BY <1>3 DEF AreTables, FreeAt
  <2> QED BY ONLY <2>1, v # None, HandlesAdd
<1> QED BY <1>1, <1>2, <1>3 DEF NamesRight

LEMMA Forgotten ==
  ASSUME NEW g, NEW f, NEW s, NEW c, AreTables(f, s, c), NamesRight(g, f, s, c)
  PROVE  /\ \A i \in 0..(NFILE - 1) :
              NamesRight({x \in g : x[1] # Id(FL, i)}, [f EXCEPT ![i] = None], s, c)
         /\ \A i \in 0..(NSEM - 1) :
              NamesRight({x \in g : x[1] # Id(SEM, i)}, f, [s EXCEPT ![i] = None], c)
         /\ \A i \in 0..(NCHILD - 1) :
              NamesRight({x \in g : x[1] # Id(PROC, i)}, f, s, [c EXCEPT ![i] = None])
<1>0. \A k : {x \in g : x[1] # k} = {x \in Handles(FL, f) : x[1] # k}
                \union {x \in Handles(SEM, s) : x[1] # k} \union {x \in Handles(PROC, c) : x[1] # k}
  BY DEF NamesRight
<1>1. ASSUME NEW i \in 0..(NFILE - 1)
      PROVE  /\ Handles(FL, [f EXCEPT ![i] = None]) = {x \in Handles(FL, f) : x[1] # Id(FL, i)}
             /\ Handles(SEM, s) = {x \in Handles(SEM, s) : x[1] # Id(FL, i)}
             /\ Handles(PROC, c) = {x \in Handles(PROC, c) : x[1] # Id(FL, i)}
  <2>1. i \in 0..(KindMod - 1)
    BY Sizes
  <2> QED BY <2>1, Kinds, HandlesDrop, HandlesOther DEF AreTables
<1>2. ASSUME NEW i \in 0..(NSEM - 1)
      PROVE  /\ Handles(FL, f) = {x \in Handles(FL, f) : x[1] # Id(SEM, i)}
             /\ Handles(SEM, [s EXCEPT ![i] = None]) = {x \in Handles(SEM, s) : x[1] # Id(SEM, i)}
             /\ Handles(PROC, c) = {x \in Handles(PROC, c) : x[1] # Id(SEM, i)}
  <2>1. i \in 0..(KindMod - 1)
    BY Sizes
  <2> QED BY <2>1, Kinds, HandlesDrop, HandlesOther DEF AreTables
<1>3. ASSUME NEW i \in 0..(NCHILD - 1)
      PROVE  /\ Handles(FL, f) = {x \in Handles(FL, f) : x[1] # Id(PROC, i)}
             /\ Handles(SEM, s) = {x \in Handles(SEM, s) : x[1] # Id(PROC, i)}
             /\ Handles(PROC, [c EXCEPT ![i] = None]) = {x \in Handles(PROC, c) : x[1] # Id(PROC, i)}
  <2>1. i \in 0..(KindMod - 1)
    BY Sizes
  <2> QED BY <2>1, Kinds, HandlesDrop, HandlesOther DEF AreTables
<1>4. \A i \in 0..(NFILE - 1) :
         NamesRight({x \in g : x[1] # Id(FL, i)}, [f EXCEPT ![i] = None], s, c)
  <2> TAKE i \in 0..(NFILE - 1)
  <2>1. PICK k : k = Id(FL, i)
    OBVIOUS
  <2> QED BY <1>0, <1>1, <2>1 DEF NamesRight
<1>5. \A i \in 0..(NSEM - 1) :
         NamesRight({x \in g : x[1] # Id(SEM, i)}, f, [s EXCEPT ![i] = None], c)
  <2> TAKE i \in 0..(NSEM - 1)
  <2>1. PICK k : k = Id(SEM, i)
    OBVIOUS
  <2> QED BY <1>0, <1>2, <2>1 DEF NamesRight
<1>6. \A i \in 0..(NCHILD - 1) :
         NamesRight({x \in g : x[1] # Id(PROC, i)}, f, s, [c EXCEPT ![i] = None])
  <2> TAKE i \in 0..(NCHILD - 1)
  <2>1. PICK k : k = Id(PROC, i)
    OBVIOUS
  <2> QED BY <1>0, <1>3, <2>1 DEF NamesRight
<1> QED BY <1>4, <1>5, <1>6

LEMMA Inherited ==
  ASSUME NEW g, NEW f, NEW s, NEW c, AreTables(f, s, c), NamesRight(g, f, s, c)
  PROVE  NamesRight({x \in g : x[1] \div KindMod # PROC}, f, s, NoTable(NCHILD))
<1> DEFINE D(x) == x[1] \div KindMod
<1>1. {x \in Handles(FL, f) : D(x) # PROC} = Handles(FL, f)
  BY Kinds, HandlesKind DEF AreTables
<1>2. {x \in Handles(SEM, s) : D(x) # PROC} = Handles(SEM, s)
  BY Kinds, HandlesKind DEF AreTables
<1>3. {x \in Handles(PROC, c) : D(x) # PROC} = {}
  BY Kinds, HandlesKind DEF AreTables
<1>4. Handles(PROC, NoTable(NCHILD)) = {}
  BY HandlesNone
<1>5. {x \in g : D(x) # PROC} = {x \in Handles(FL, f) : D(x) # PROC}
        \union {x \in Handles(SEM, s) : D(x) # PROC} \union {x \in Handles(PROC, c) : D(x) # PROC}
  <2> HIDE DEF D
  <2> QED BY DEF NamesRight
<1> HIDE DEF D
<1>6. {x \in g : D(x) # PROC} = Handles(FL, f) \union Handles(SEM, s) \union {}
  BY <1>1, <1>2, <1>3, <1>5
<1>7. NamesRight({x \in g : D(x) # PROC}, f, s, NoTable(NCHILD))
  BY <1>4, <1>6 DEF NamesRight
<1> QED BY <1>7 DEF D

-----------------------------------------------------------------------------
(* Steps and tables.                                                       *)
FileTables == [0..(NFILE - 1) -> Descs \union {None, Console}]
SemTables == [0..(NSEM - 1) -> SemObjects \union {None}]
ChildTables == [0..(NCHILD - 1) -> Procs \union {None}]

LEMMA TablesAre ==
  ASSUME TableInv, NEW p \in Procs
  PROVE  /\ files[p] \in FileTables /\ sems[p] \in SemTables /\ children[p] \in ChildTables
         /\ AreTables(files[p], sems[p], children[p])
         /\ p \in alive => NamesRight(granted[p], files[p], sems[p], children[p])
         /\ p \notin alive => children[p] = NoTable(NCHILD)
<1>1. files[p] \in FileTables /\ sems[p] \in SemTables /\ children[p] \in ChildTables
  BY DEF TableInv, FileTables, SemTables, ChildTables
<1>2. DOMAIN files[p] = 0..(NFILE - 1) /\ DOMAIN sems[p] = 0..(NSEM - 1)
      /\ DOMAIN children[p] = 0..(NCHILD - 1)
  BY <1>1 DEF FileTables, SemTables, ChildTables
<1>3. AreTables(files[p], sems[p], children[p])
  BY <1>2, Sizes DEF AreTables, IsTable
<1>4. p \in alive => NamesRight(granted[p], files[p], sems[p], children[p])
  BY DEF TableInv, HandlesStable, NamesRight
<1>5. p \notin alive => children[p] = NoTable(NCHILD)
  BY DEF TableInv
<1> QED BY <1>1, <1>3, <1>4, <1>5

LEMMA NoTables ==
  NoTable(NFILE) \in FileTables /\ NoTable(NSEM) \in SemTables /\ NoTable(NCHILD) \in ChildTables
BY DEF NoTable, FileTables, SemTables, ChildTables

LEMMA TableSame ==
  ASSUME TableInv, UNCHANGED <<alive, files, sems, children, granted>>
  PROVE  TableInv'
<1>1. HandlesStable'
  BY DEF TableInv, HandlesStable
<1> QED BY <1>1 DEF TableInv

(* One process's call: its tables and what it was given change together.   *)
LEMMA TableCall ==
  ASSUME TableInv, alive' = alive, NEW p \in alive,
         NEW f \in FileTables, NEW s \in SemTables, NEW c \in ChildTables, NEW g,
         NamesRight(g, f, s, c),
         files' = [files EXCEPT ![p] = f], sems' = [sems EXCEPT ![p] = s],
         children' = [children EXCEPT ![p] = c], granted' = [granted EXCEPT ![p] = g]
  PROVE  TableInv'
<1>0. p \in Procs /\ alive \subseteq Procs
  BY DEF TableInv
<1>1. files' \in [Procs -> FileTables] /\ sems' \in [Procs -> SemTables]
      /\ children' \in [Procs -> ChildTables]
  BY DEF TableInv, FileTables, SemTables, ChildTables
<1>2. granted' = [q \in Procs |-> granted'[q]]
  BY DEF TableInv
<1>3. \A q \in Procs \ alive : children'[q] = NoTable(NCHILD)
  BY <1>0 DEF TableInv
<1>4. \A q \in alive : NamesRight(granted'[q], files'[q], sems'[q], children'[q])
  <2> TAKE q \in alive
  <2>1. CASE q = p
    <3>1. granted'[q] = g /\ files'[q] = f /\ sems'[q] = s /\ children'[q] = c
      BY <1>0, <2>1 DEF TableInv
    <3> QED BY <3>1
  <2>2. CASE q # p
    <3>1. granted'[q] = granted[q] /\ files'[q] = files[q] /\ sems'[q] = sems[q]
          /\ children'[q] = children[q]
      BY <1>0, <2>2 DEF TableInv
    <3> QED BY <1>0, <3>1, TablesAre
  <2> QED BY <2>1, <2>2
<1>5. HandlesStable'
  BY <1>4 DEF HandlesStable, NamesRight
<1> QED BY <1>0, <1>1, <1>2, <1>3, <1>5 DEF TableInv, FileTables, SemTables, ChildTables

LEMMA TableEnds ==
  ASSUME TableInv, NEW p \in Procs, Ends(p)
  PROVE  TableInv'
<1>1. /\ alive' = alive \ {p} /\ files' = [files EXCEPT ![p] = NoTable(NFILE)]
      /\ sems' = [sems EXCEPT ![p] = NoTable(NSEM)]
      /\ children' = [children EXCEPT ![p] = NoTable(NCHILD)]
      /\ granted' = [granted EXCEPT ![p] = {}]
  BY DEF Ends
<1>2. files' \in [Procs -> FileTables] /\ sems' \in [Procs -> SemTables]
      /\ children' \in [Procs -> ChildTables] /\ granted' = [q \in Procs |-> granted'[q]]
  BY <1>1, NoTables DEF TableInv, FileTables, SemTables, ChildTables
<1>3. \A q \in Procs \ alive' : children'[q] = NoTable(NCHILD)
  BY <1>1 DEF TableInv
<1>4. \A q \in alive' : NamesRight(granted'[q], files'[q], sems'[q], children'[q])
  <2> TAKE q \in alive'
  <2>1. q \in alive /\ q \in Procs /\ q # p
    BY <1>1 DEF TableInv
  <2>2. granted'[q] = granted[q] /\ files'[q] = files[q] /\ sems'[q] = sems[q]
        /\ children'[q] = children[q]
    BY <1>1, <2>1 DEF TableInv
  <2> QED BY <2>1, <2>2, TablesAre
<1>5. HandlesStable'
  BY <1>4 DEF HandlesStable, NamesRight
<1>6. alive' \subseteq Procs
  BY <1>1 DEF TableInv
<1> QED BY <1>2, <1>3, <1>5, <1>6 DEF TableInv, FileTables, SemTables, ChildTables

LEMMA TableOpen ==
  ASSUME TableInv, NEW p \in Procs, NEW path \in Paths, Open(p, path)
  PROVE  TableInv'
<1>1. CASE UNCHANGED <<alive, files, sems, children, granted>>
  BY <1>1, TableSame
<1>2. CASE Ends(p)
  BY <1>2, TableEnds
<1>3. CASE ~Full(files[p]) /\ UNCHANGED <<alive, sems, children>> /\ \E d \in FreshDesc :
             /\ files' = [files EXCEPT ![p][FirstFree(files[p])] = d]
             /\ granted' = [granted EXCEPT ![p] = @ \union {<<Id(FL, FirstFree(files[p])), d>>}]
  <2>1. PICK d \in Descs :
          /\ files' = [files EXCEPT ![p][FirstFree(files[p])] = d]
          /\ granted' = [granted EXCEPT ![p] = @ \union {<<Id(FL, FirstFree(files[p])), d>>}]
    BY <1>3 DEF FreshDesc
  <2>2. p \in alive /\ d # None
    BY FilesAssumption DEF Open, Enter
  <2>3. PICK i \in 0..(NFILE - 1) : i = FirstFree(files[p]) /\ files[p][i] = None
    BY <1>3, TablesAre, FreeEntry DEF AreTables
  <2> DEFINE f == [files[p] EXCEPT ![i] = d]
             g == granted[p] \union {<<Id(FL, i), d>>}
  <2>4. f \in FileTables
    BY TablesAre DEF FileTables
  <2>5. NamesRight(g, f, sems[p], children[p])
    BY <2>2, <2>3, TablesAre, Granted
  <2> HIDE DEF f, g
  <2>6. /\ files' = [files EXCEPT ![p] = f] /\ granted' = [granted EXCEPT ![p] = g]
    BY <2>1, <2>3 DEF f, g
  <2>7. sems' = [sems EXCEPT ![p] = sems[p]] /\ children' = [children EXCEPT ![p] = children[p]]
        /\ alive' = alive
    BY <1>3 DEF TableInv
  <2>8. sems[p] \in SemTables /\ children[p] \in ChildTables
    BY TablesAre
  <2> QED BY <2>2, <2>4, <2>5, <2>6, <2>7, <2>8, TableCall
<1> QED BY <1>1, <1>2, <1>3 DEF Open

LEMMA TableNewSemaphore ==
  ASSUME TableInv, NEW p \in Procs, NEW init, NewSemaphore(p, init)
  PROVE  TableInv'
<1>1. PICK v \in SemObjects :
        /\ sems' = [sems EXCEPT ![p][FirstFree(sems[p])] = v]
        /\ granted' = [granted EXCEPT ![p] = @ \union {<<Id(SEM, FirstFree(sems[p])), v>>}]
  BY DEF NewSemaphore, FreshSem
<1>2. p \in alive /\ v # None /\ ~Full(sems[p])
  BY FilesAssumption DEF NewSemaphore, Enter
<1>3. PICK i \in 0..(NSEM - 1) : i = FirstFree(sems[p]) /\ sems[p][i] = None
  BY <1>2, TablesAre, FreeEntry DEF AreTables
<1> DEFINE s == [sems[p] EXCEPT ![i] = v]
           g == granted[p] \union {<<Id(SEM, i), v>>}
<1>4. s \in SemTables
  BY TablesAre DEF SemTables
<1>5. NamesRight(g, files[p], s, children[p])
  BY <1>2, <1>3, TablesAre, Granted
<1> HIDE DEF s, g
<1>6. sems' = [sems EXCEPT ![p] = s] /\ granted' = [granted EXCEPT ![p] = g]
  BY <1>1, <1>3 DEF s, g
<1>7. files' = [files EXCEPT ![p] = files[p]] /\ children' = [children EXCEPT ![p] = children[p]]
      /\ alive' = alive
  BY DEF NewSemaphore, TableInv
<1>8. files[p] \in FileTables /\ children[p] \in ChildTables
  BY TablesAre
<1> QED BY <1>2, <1>4, <1>5, <1>6, <1>7, <1>8, TableCall

LEMMA IdsNat ==
  ASSUME NEW id \in Ids
  PROVE  id \in Nat
<1>1. \A kind \in {FL, PROC, SEM}, i \in Nat : Id(kind, i) \in Nat
  BY Sizes, Kinds DEF Id
<1>2. 0..NFILE \subseteq Nat /\ 0..NCHILD \subseteq Nat /\ 0..NSEM \subseteq Nat
  BY Sizes
<1> QED BY <1>1, <1>2 DEF Ids

LEMMA TableClose ==
  ASSUME TableInv, NEW p \in Procs, NEW id \in Ids, Close(p, id)
  PROVE  TableInv'
<1>0. p \in alive /\ alive' = alive /\ id \in Nat
  BY IdsNat DEF Close, Enter
<1>1. granted' = [granted EXCEPT ![p] = {x \in granted[p] : x[1] # id}]
  BY DEF Close, Forget
<1>2. /\ files[p] \in FileTables /\ sems[p] \in SemTables /\ children[p] \in ChildTables
      /\ AreTables(files[p], sems[p], children[p])
      /\ NamesRight(granted[p], files[p], sems[p], children[p])
  BY <1>0, TablesAre
<1>a. files = [files EXCEPT ![p] = files[p]] /\ sems = [sems EXCEPT ![p] = sems[p]]
      /\ children = [children EXCEPT ![p] = children[p]]
  BY DEF TableInv
<1> DEFINE g == {x \in granted[p] : x[1] # id}
<1>3. CASE SemaphoreIndex(id) # -1 /\ sems' = [sems EXCEPT ![p][SemaphoreIndex(id)] = None]
           /\ UNCHANGED <<files, children>>
  <2>1. PICK i \in 0..(NSEM - 1) : i = SemaphoreIndex(id) /\ id = Id(SEM, i)
    BY <1>0, <1>3, Kinds, Sizes, IndexIs DEF SemaphoreIndex
  <2> DEFINE s == [sems[p] EXCEPT ![i] = None]
  <2>2. s \in SemTables
    BY <1>2 DEF SemTables
  <2>3. NamesRight(g, files[p], s, children[p])
    BY <1>2, <2>1, Forgotten
  <2> HIDE DEF s, g
  <2>4. sems' = [sems EXCEPT ![p] = s] /\ granted' = [granted EXCEPT ![p] = g]
    BY <1>1, <1>3, <2>1 DEF s, g
  <2>5. files' = [files EXCEPT ![p] = files[p]] /\ children' = [children EXCEPT ![p] = children[p]]
    BY <1>3, <1>a
  <2>6. files[p] \in FileTables /\ sems[p] \in SemTables /\ children[p] \in ChildTables
    BY <1>2
  <2> QED BY ONLY <1>0, TableInv, <2>2, <2>3, <2>4, <2>5, <2>6, TableCall
<1>4. CASE ChildIndex(id) # -1 /\ children' = [children EXCEPT ![p][ChildIndex(id)] = None]
           /\ UNCHANGED <<files, sems>>
  <2>1. PICK i \in 0..(NCHILD - 1) : i = ChildIndex(id) /\ id = Id(PROC, i)
    BY <1>0, <1>4, Kinds, Sizes, IndexIs DEF ChildIndex
  <2> DEFINE c == [children[p] EXCEPT ![i] = None]
  <2>2. c \in ChildTables
    BY <1>2 DEF ChildTables
  <2>3. NamesRight(g, files[p], sems[p], c)
    BY <1>2, <2>1, Forgotten
  <2> HIDE DEF c, g
  <2>4. children' = [children EXCEPT ![p] = c] /\ granted' = [granted EXCEPT ![p] = g]
    BY <1>1, <1>4, <2>1 DEF c, g
  <2>5. files' = [files EXCEPT ![p] = files[p]] /\ sems' = [sems EXCEPT ![p] = sems[p]]
    BY <1>4, <1>a
  <2>6. files[p] \in FileTables /\ sems[p] \in SemTables /\ children[p] \in ChildTables
    BY <1>2
  <2> QED BY ONLY <1>0, TableInv, <2>2, <2>3, <2>4, <2>5, <2>6, TableCall
<1>5. CASE FileIndex(id) # -1 /\ files' = [files EXCEPT ![p][FileIndex(id)] = None]
           /\ UNCHANGED <<sems, children>>
  <2>1. PICK i \in 0..(NFILE - 1) : i = FileIndex(id) /\ id = Id(FL, i)
    BY <1>0, <1>5, Kinds, Sizes, IndexIs DEF FileIndex
  <2> DEFINE f == [files[p] EXCEPT ![i] = None]
  <2>2. f \in FileTables
    BY <1>2 DEF FileTables
  <2>3. NamesRight(g, f, sems[p], children[p])
    BY <1>2, <2>1, Forgotten
  <2> HIDE DEF f, g
  <2>4. files' = [files EXCEPT ![p] = f] /\ granted' = [granted EXCEPT ![p] = g]
    BY <1>1, <1>5, <2>1 DEF f, g
  <2>5. sems' = [sems EXCEPT ![p] = sems[p]] /\ children' = [children EXCEPT ![p] = children[p]]
    BY <1>5, <1>a
  <2>6. files[p] \in FileTables /\ sems[p] \in SemTables /\ children[p] \in ChildTables
    BY <1>2
  <2> QED BY ONLY <1>0, TableInv, <2>2, <2>3, <2>4, <2>5, <2>6, TableCall
<1> QED BY <1>3, <1>4, <1>5 DEF Close

LEMMA TableWait ==
  ASSUME TableInv, NEW p \in Procs, NEW id \in Ids, Wait(p, id)
  PROVE  TableInv'
<1>1. /\ p \in alive /\ alive' = alive /\ id \in Nat
      /\ UNCHANGED <<files, sems>> /\ ChildIndex(id) # -1
      /\ children' = [children EXCEPT ![p][ChildIndex(id)] = None]
      /\ granted' = [granted EXCEPT ![p] = {x \in granted[p] : x[1] # id}]
  BY IdsNat DEF Wait, Enter, Forget
<1>2. /\ files[p] \in FileTables /\ sems[p] \in SemTables /\ children[p] \in ChildTables
      /\ AreTables(files[p], sems[p], children[p])
      /\ NamesRight(granted[p], files[p], sems[p], children[p])
  BY <1>1, TablesAre
<1>3. PICK i \in 0..(NCHILD - 1) : i = ChildIndex(id) /\ id = Id(PROC, i)
  BY <1>1, Kinds, Sizes, IndexIs DEF ChildIndex
<1> DEFINE g == {x \in granted[p] : x[1] # id}
           c == [children[p] EXCEPT ![i] = None]
<1>4. c \in ChildTables
  BY <1>2 DEF ChildTables
<1>5. NamesRight(g, files[p], sems[p], c)
  BY <1>2, <1>3, Forgotten
<1> HIDE DEF c, g
<1>6. children' = [children EXCEPT ![p] = c] /\ granted' = [granted EXCEPT ![p] = g]
  BY <1>1, <1>3 DEF c, g
<1>7. files' = [files EXCEPT ![p] = files[p]] /\ sems' = [sems EXCEPT ![p] = sems[p]]
  BY <1>1 DEF TableInv
<1>8. p \in alive /\ alive' = alive /\ files[p] \in FileTables /\ sems[p] \in SemTables
  BY <1>1, <1>2
<1> QED BY ONLY TableInv, <1>4, <1>5, <1>6, <1>7, <1>8, TableCall

LEMMA TableFork ==
  ASSUME TableInv, NEW p \in Procs, NEW c \in Procs, Fork(p, c)
  PROVE  TableInv'
<1> DEFINE i == FirstFree(children[p])
           gp == granted[p] \union {<<Id(PROC, i), c>>}
           gc == {x \in granted[p] : x[1] \div KindMod # PROC}
<1>0. p \in alive /\ c \notin alive /\ c # None /\ p # c /\ ~Full(children[p])
      /\ alive' = alive \union {c} /\ alive \subseteq Procs
  BY FilesAssumption DEF Fork, Enter, TableInv
<1>1. /\ children' = [children EXCEPT ![p][i] = c]
      /\ granted' = [granted EXCEPT ![p] = gp, ![c] = gc]
      /\ files' = [files EXCEPT ![c] = files[p]] /\ sems' = [sems EXCEPT ![c] = sems[p]]
  BY DEF Fork
<1>2. /\ files[p] \in FileTables /\ sems[p] \in SemTables /\ children[p] \in ChildTables
      /\ AreTables(files[p], sems[p], children[p])
      /\ NamesRight(granted[p], files[p], sems[p], children[p])
  BY <1>0, TablesAre
<1>3. i \in 0..(NCHILD - 1) /\ children[p][i] = None
  BY <1>0, <1>2, FreeEntry DEF AreTables
<1>4. NamesRight(gp, files[p], sems[p], [children[p] EXCEPT ![i] = c])
  BY <1>0, <1>2, <1>3, Granted
<1>5. NamesRight(gc, files[p], sems[p], NoTable(NCHILD))
  BY <1>2, Inherited
<1>6. children[c] = NoTable(NCHILD)
  BY <1>0, TablesAre
<1> HIDE DEF i, gp, gc
<1>7. files' \in [Procs -> FileTables] /\ sems' \in [Procs -> SemTables]
      /\ granted' = [q \in Procs |-> granted'[q]]
  BY <1>1, <1>2 DEF TableInv, FileTables, SemTables
<1>8. children' \in [Procs -> ChildTables]
  BY <1>1, <1>2, <1>3 DEF TableInv, ChildTables
<1>9. \A q \in Procs \ alive' : children'[q] = NoTable(NCHILD)
  BY <1>0, <1>1 DEF TableInv
<1>10. /\ granted'[p] = gp /\ files'[p] = files[p] /\ sems'[p] = sems[p]
       /\ children'[p] = [children[p] EXCEPT ![i] = c]
  BY <1>0, <1>1 DEF TableInv
<1>11. granted'[c] = gc /\ files'[c] = files[p] /\ sems'[c] = sems[p] /\ children'[c] = NoTable(NCHILD)
  BY <1>0, <1>1, <1>6 DEF TableInv
<1>12. \A q \in alive' : NamesRight(granted'[q], files'[q], sems'[q], children'[q])
  <2> TAKE q \in alive'
  <2>1. CASE q = p
    BY <1>4, <1>10, <2>1
  <2>2. CASE q = c
    BY <1>5, <1>11, <2>2
  <2>3. CASE q # p /\ q # c
    <3>1. q \in Procs /\ q \in alive
      BY <1>0, <2>3
    <3>2. granted'[q] = granted[q] /\ files'[q] = files[q] /\ sems'[q] = sems[q]
          /\ children'[q] = children[q]
      BY <1>1, <2>3, <3>1 DEF TableInv
    <3> QED BY <3>1, <3>2, TablesAre
  <2> QED BY <2>1, <2>2, <2>3
<1>13. HandlesStable'
  BY <1>12 DEF HandlesStable, NamesRight
<1> QED BY <1>0, <1>7, <1>8, <1>9, <1>13 DEF TableInv, FileTables, SemTables, ChildTables

LEMMA TableStep ==
  ASSUME TableInv, Next
  PROVE  TableInv'
<1>1. CASE UNCHANGED <<alive, files, sems, children, granted>>
  BY <1>1, TableSame
<1>2. ASSUME NEW p \in Procs, NEW path \in Paths, Open(p, path)
      PROVE  TableInv'
  BY <1>2, TableOpen
<1>3. ASSUME NEW p \in Procs, NEW init \in {0, 1}, NewSemaphore(p, init)
      PROVE  TableInv'
  BY <1>3, TableNewSemaphore
<1>4. ASSUME NEW p \in Procs, NEW id \in Ids, Close(p, id)
      PROVE  TableInv'
  BY <1>4, TableClose
<1>5. ASSUME NEW p \in Procs, NEW c \in Procs, Fork(p, c)
      PROVE  TableInv'
  BY <1>5, TableFork
<1>6. ASSUME NEW p \in Procs, Exit(p)
      PROVE  TableInv'
  BY <1>6, TableEnds DEF Exit
<1>7. ASSUME NEW p \in Procs, NEW id \in Ids, Wait(p, id)
      PROVE  TableInv'
  BY <1>7, TableWait
<1>8. \/ UNCHANGED <<alive, files, sems, children, granted>>
      \/ \E p \in Procs :
           \/ \E path \in Paths : Open(p, path)
           \/ \E init \in {0, 1} : NewSemaphore(p, init)
           \/ \E id \in Ids : Close(p, id) \/ Wait(p, id)
           \/ \E c \in Procs : Fork(p, c)
           \/ Exit(p)
  BY DEF Next, fileVars, Read, Seek, LoadOffset, ReadReturns, UseSemaphore
<1> QED BY <1>1, <1>2, <1>3, <1>4, <1>5, <1>6, <1>7, <1>8

-----------------------------------------------------------------------------
(* Steps and FileDescriptors.                                              *)
Used(d) == \E p \in Procs : reading[p] = d \/ \E i \in 0..(NFILE - 1) : files[p][i] = d

LEMMA DescIs ==
  DescInv <=> desc = [d \in Descs |-> desc[d]] /\ \A d \in Descs : Used(d) => desc[d] \in OpenDesc
BY DEF DescInv, Used

LEMMA DescFewer ==
  ASSUME DescInv, UNCHANGED desc, \A d \in Descs : Used(d)' => Used(d)
  PROVE  DescInv'
<1>1. desc = [d \in Descs |-> desc[d]] /\ \A d \in Descs : Used(d) => desc[d] \in OpenDesc
  BY DescIs
<1>2. desc' = [d \in Descs |-> desc'[d]] /\ \A d \in Descs : Used(d)' => desc'[d] \in OpenDesc
  BY <1>1
<1> QED BY <1>2 DEF DescInv, Used

(* The one descriptor whose contents change is one that is open.           *)
LEMMA DescChange ==
  ASSUME DescInv, NEW f \in Descs, NEW v \in OpenDesc, desc' = [desc EXCEPT ![f] = v],
         \A d \in Descs : Used(d)' => Used(d) \/ d = f
  PROVE  DescInv'
<1>1. desc = [d \in Descs |-> desc[d]] /\ \A d \in Descs : Used(d) => desc[d] \in OpenDesc
  BY DescIs
<1>2. desc' = [d \in Descs |-> desc'[d]] /\ \A d \in Descs : Used(d)' => desc'[d] \in OpenDesc
  BY <1>1
<1> QED BY <1>2 DEF DescInv, Used

LEMMA OffsetChange ==
  ASSUME NEW v \in OpenDesc, NEW o \in Nat
  PROVE  [v EXCEPT !.offset = o] \in OpenDesc
BY DEF OpenDesc

LEMMA GetFileIs ==
  ASSUME TableInv, DescInv, NEW p \in Procs, NEW fd \in 0..NFILE, Seekable(GetFile(p, fd))
  PROVE  /\ GetFile(p, fd) \in Descs /\ desc[GetFile(p, fd)] \in OpenDesc
         /\ Used(GetFile(p, fd))
<1>0. fd \in Nat
  BY Sizes
<1>1. ~(FileIndex(fd) < 0) /\ GetFile(p, fd) = files[p][fd]
  BY DEF GetFile, Seekable
<1>2. FileIndex(fd) # -1
  BY <1>1
<1>3. FileIndex(fd) \in 0..(NFILE - 1) /\ fd = Id(FL, FileIndex(fd))
  BY <1>0, <1>2, Sizes, Kinds, IndexIs DEF FileIndex
<1>4. fd \in 0..(NFILE - 1)
  BY <1>3, Sizes DEF Id, FL
<1>5. files[p][fd] \in Descs \union {None, Console}
  <2>1. files[p] \in FileTables
    BY TablesAre
  <2> QED BY <1>4, <2>1 DEF FileTables
<1>6. GetFile(p, fd) \in Descs /\ Used(GetFile(p, fd))
  BY <1>1, <1>4, <1>5 DEF Seekable, Used
<1> QED BY <1>6, DescIs

LEMMA DescEnds ==
  ASSUME TableInv, DescInv, NEW p \in Procs, Ends(p), UNCHANGED <<desc, reading>>
  PROVE  DescInv'
<1>1. \A q \in Procs : files'[q] = files[q] \/ files'[q] = NoTable(NFILE)
  BY DEF Ends, TableInv
<1>2. \A i \in 0..(NFILE - 1) : NoTable(NFILE)[i] \notin Descs
  BY FilesAssumption DEF NoTable
<1>3. \A d \in Descs : Used(d)' => Used(d)
  BY <1>1, <1>2 DEF Used
<1> QED BY <1>3, DescFewer

LEMMA DescOpen ==
  ASSUME TableInv, DescInv, NEW p \in Procs, NEW path \in Paths, Open(p, path)
  PROVE  DescInv'
<1>1. CASE UNCHANGED <<files, desc>>
  <2>1. \A d \in Descs : Used(d)' => Used(d)
    BY <1>1 DEF Used, Open
  <2> QED BY <1>1, <2>1, DescFewer
<1>2. CASE Ends(p) /\ UNCHANGED desc
  BY <1>2, DescEnds DEF Open
<1>3. CASE /\ Target[path] \notin Failures /\ ~Full(files[p])
           /\ \E d \in FreshDesc :
                /\ desc' = [desc EXCEPT ![d] = [node |-> Target[path], offset |-> 0, path |-> path]]
                /\ files' = [files EXCEPT ![p][FirstFree(files[p])] = d]
  <2>1. PICK f \in Descs :
          /\ desc' = [desc EXCEPT ![f] = [node |-> Target[path], offset |-> 0, path |-> path]]
          /\ files' = [files EXCEPT ![p][FirstFree(files[p])] = f]
    BY <1>3 DEF FreshDesc
  <2>2. [node |-> Target[path], offset |-> 0, path |-> path] \in OpenDesc
    BY <1>3 DEF OpenDesc, OpenNodes
  <2>3. FirstFree(files[p]) \in 0..(NFILE - 1)
    BY <1>3, TablesAre, FreeEntry DEF AreTables
  <2>4. \A q \in Procs, i \in 0..(NFILE - 1) : files'[q][i] = files[q][i] \/ files'[q][i] = f
    BY <2>1, <2>3 DEF TableInv
  <2>5. \A d \in Descs : Used(d)' => Used(d) \/ d = f
    BY <2>4 DEF Used, Open
  <2> QED BY <2>1, <2>2, <2>5, DescChange
<1> QED BY <1>1, <1>2, <1>3 DEF Open

LEMMA DescSeek ==
  ASSUME TableInv, DescInv, NEW p \in Procs, NEW fd \in 0..NFILE, NEW offset \in Offsets,
         Seek(p, fd, offset)
  PROVE  DescInv'
<1>0. offset \in Nat
  BY FilesAssumption
<1>1. \A d \in Descs : Used(d)' => Used(d)
  BY DEF Used, Seek
<1>2. CASE desc' = desc
  BY <1>1, <1>2, DescFewer
<1>3. CASE Seekable(GetFile(p, fd)) /\ desc' = [desc EXCEPT ![GetFile(p, fd)].offset = offset]
  <2>1. PICK f \in Descs : f = GetFile(p, fd) /\ desc[f] \in OpenDesc
    BY <1>3, GetFileIs
  <2>2. PICK v \in OpenDesc : v = [desc[f] EXCEPT !.offset = offset]
    BY <1>0, <2>1, OffsetChange
  <2>3. desc' = [desc EXCEPT ![f] = v]
    BY <1>3, <2>1, <2>2
  <2> QED BY <1>1, <2>3, DescChange
<1> QED BY <1>2, <1>3 DEF Seek

LEMMA DescRead ==
  ASSUME TableInv, DescInv, reading = [q \in Procs |-> reading[q]], NEW p \in Procs,
         NEW fd \in 0..NFILE, NEW n \in Lens, Read(p, fd, n)
  PROVE  DescInv'
<1>1. Used(GetFile(p, fd)) /\ reading' = [reading EXCEPT ![p] = GetFile(p, fd)]
      /\ UNCHANGED <<desc, files>>
  BY GetFileIs DEF Read
<1>2. \A q \in Procs : reading'[q] = reading[q] \/ reading'[q] = GetFile(p, fd)
  BY <1>1
<1>3. \A d \in Descs : Used(d)' => Used(d)
  BY <1>1, <1>2 DEF Used
<1> QED BY <1>1, <1>3, DescFewer

LEMMA DescReturns ==
  ASSUME TableInv, DescInv, ReadInv, NEW p \in Procs, ReadReturns(p)
  PROVE  DescInv'
<1>1. reading' = [reading EXCEPT ![p] = None] /\ UNCHANGED files
      /\ reading \in [Procs -> Descs \union {None}] /\ None \notin Descs
  BY FilesAssumption DEF ReadReturns, ReadInv
<1>2. \A q \in Procs : reading'[q] = reading[q] \/ reading'[q] = None
  BY <1>1
<1>3. \A d \in Descs : Used(d)' => Used(d)
  BY <1>1, <1>2 DEF Used
<1>4. CASE desc' = desc
  BY <1>3, <1>4, DescFewer
<1>5. CASE /\ job[p].pc = "store"
           /\ desc' = [desc EXCEPT ![reading[p]].offset = (loaded[p] + Result(job[p])) % OffsetMod]
  <2>1. reading[p] \in Descs /\ Finished(job[p]) /\ GoodRead(job[p]) /\ loaded[p] \in Nat
    BY <1>5 DEF ReadInv, NoJob
  <2>2. desc[reading[p]] \in OpenDesc
    BY <2>1, DescIs DEF Used
  <2>3. job[p].count \in Int
    <3>1. job[p].offset \in Nat /\ job[p].start \in Nat
      BY <2>1 DEF GoodRead
    <3> QED BY <2>1, <3>1 DEF Finished
  <2>4. (loaded[p] + Result(job[p])) % OffsetMod \in Nat
    <3>1. OffsetMod \in Nat \ {0}
      BY FilesAssumption
    <3>2. Result(job[p]) \in Nat
      BY <2>3, <3>1 DEF Result
    <3> QED BY <2>1, <3>1, <3>2
  <2>5. PICK f \in Descs, o \in Nat :
          f = reading[p] /\ o = (loaded[p] + Result(job[p])) % OffsetMod
    BY <2>1, <2>4
  <2>6. PICK v \in OpenDesc : v = [desc[f] EXCEPT !.offset = o]
    BY <2>2, <2>5, OffsetChange
  <2>7. desc' = [desc EXCEPT ![f] = v]
    BY <1>5, <2>5, <2>6
  <2> QED BY <1>3, <2>7, DescChange
<1> QED BY <1>4, <1>5 DEF ReadReturns

LEMMA DescStep ==
  ASSUME TableInv, DescInv, ReadInv, Next
  PROVE  DescInv'
<1>1. CASE UNCHANGED <<files, desc, reading>>
  <2>1. \A d \in Descs : Used(d)' => Used(d)
    BY <1>1 DEF Used
  <2> QED BY <1>1, <2>1, DescFewer
<1>2. ASSUME NEW p \in Procs, NEW path \in Paths, Open(p, path)
      PROVE  DescInv'
  BY <1>2, DescOpen
<1>3. ASSUME NEW p \in Procs, NEW fd \in 0..NFILE, NEW n \in Lens, Read(p, fd, n)
      PROVE  DescInv'
  BY <1>3, DescRead DEF ReadInv
<1>4. ASSUME NEW p \in Procs, NEW fd \in 0..NFILE, NEW offset \in Offsets, Seek(p, fd, offset)
      PROVE  DescInv'
  BY <1>4, DescSeek
<1>5. ASSUME NEW p \in Procs, ReadReturns(p)
      PROVE  DescInv'
  BY <1>5, DescReturns
<1>6. ASSUME NEW p \in Procs, NEW id \in Ids, Close(p, id)
      PROVE  DescInv'
  <2>1. UNCHANGED <<desc, reading>>
    BY <1>6 DEF Close
  <2>2. \A q \in Procs, i \in 0..(NFILE - 1) : files'[q][i] = files[q][i] \/ files'[q][i] = None
    <3>1. CASE UNCHANGED files
      BY <3>1
    <3>2. CASE files' = [files EXCEPT ![p][FileIndex(id)] = None]
      <4> DEFINE f == [files[p] EXCEPT ![FileIndex(id)] = None]
      <4>1. files[p] \in FileTables /\ DOMAIN files = Procs
        BY TablesAre DEF TableInv
      <4>2. \A i \in 0..(NFILE - 1) : f[i] = files[p][i] \/ f[i] = None
        BY <4>1 DEF FileTables
      <4>3. files' = [files EXCEPT ![p] = f]
        BY <3>2
      <4> HIDE DEF f
      <4>4. \A q \in Procs : files'[q] = IF q = p THEN f ELSE files[q]
        BY <4>1, <4>3
      <4> QED BY <4>2, <4>4
    <3> QED BY <1>6, <3>1, <3>2 DEF Close
  <2>3. \A d \in Descs : Used(d)' => Used(d)
    BY <2>1, <2>2, FilesAssumption DEF Used
  <2> QED BY <2>1, <2>3, DescFewer
<1>7. ASSUME NEW p \in Procs, NEW c \in Procs, Fork(p, c)
      PROVE  DescInv'
  <2>1. UNCHANGED <<desc, reading>>
    BY <1>7 DEF Fork
  <2>2. \A q \in Procs : files'[q] = files[q] \/ files'[q] = files[p]
    BY <1>7 DEF Fork, TableInv
  <2>3. \A d \in Descs : Used(d)' => Used(d)
    BY <2>1, <2>2 DEF Used
  <2> QED BY <2>1, <2>3, DescFewer
<1>8. ASSUME NEW p \in Procs, Exit(p)
      PROVE  DescInv'
  BY <1>8, DescEnds DEF Exit
<1>9. \/ UNCHANGED <<files, desc, reading>>
      \/ \E p \in Procs :
           \/ \E path \in Paths : Open(p, path)
           \/ \E fd \in 0..NFILE : \E n \in Lens : Read(p, fd, n)
           \/ \E fd \in 0..NFILE : \E offset \in Offsets : Seek(p, fd, offset)
           \/ ReadReturns(p)
           \/ \E id \in Ids : Close(p, id)
           \/ \E c \in Procs : Fork(p, c)
           \/ Exit(p)
  BY DEF Next, fileVars, LoadOffset, NewSemaphore, UseSemaphore, Wait
<1> QED BY <1>1, <1>2, <1>3, <1>4, <1>5, <1>6, <1>7, <1>8, <1>9

-----------------------------------------------------------------------------
(* Steps and reads.  What a process reads goes with its job.               *)
Holding == {"registers", "command", "wait"}
Reader(d, j) ==
  \/ d = None /\ j = NoJob
  \/ /\ d \in Descs /\ GoodRead(j)
     /\ \/ j.pc \in {"done", "store"} /\ Finished(j)
        \/ j.pc \in {"spin", "registers", "command", "wait"} /\ GoodDeviceRead(j)

LEMMA ReadIs ==
  ReadInv <=> /\ job = [p \in Procs |-> job[p]] /\ loaded \in [Procs -> Nat]
              /\ reading \in [Procs -> Descs \union {None}]
              /\ \A p \in Procs : Reader(reading[p], job[p])
BY DEF ReadInv, Reader

LEMMA ReadSame ==
  ASSUME ReadInv, UNCHANGED <<job, reading, loaded>>
  PROVE  ReadInv'
BY DEF ReadInv

(* A step changes the read of one process.                                 *)
LEMMA ReadChange ==
  ASSUME ReadInv, NEW p \in Procs, NEW d \in Descs \union {None}, NEW j, NEW l \in Nat,
         Reader(d, j), job' = [job EXCEPT ![p] = j], reading' = [reading EXCEPT ![p] = d],
         loaded' = [loaded EXCEPT ![p] = l]
  PROVE  ReadInv'
<1>1. /\ job = [q \in Procs |-> job[q]] /\ loaded \in [Procs -> Nat]
      /\ reading \in [Procs -> Descs \union {None}]
      /\ \A q \in Procs : Reader(reading[q], job[q])
  BY ReadIs
<1>2. /\ job' = [q \in Procs |-> job'[q]] /\ loaded' \in [Procs -> Nat]
      /\ reading' \in [Procs -> Descs \union {None}]
  BY <1>1
<1>3. ASSUME NEW q \in Procs PROVE Reader(reading'[q], job'[q])
  <2>1. CASE q = p
    <3>1. reading'[q] = d /\ job'[q] = j
      BY <1>1, <2>1
    <3> QED BY <3>1
  <2>2. CASE q # p
    <3>1. reading'[q] = reading[q] /\ job'[q] = job[q]
      BY <1>1, <2>2
    <3> QED BY <1>1, <3>1
  <2> QED BY <2>1, <2>2
<1> QED BY <1>2, <1>3 DEF ReadInv, Reader

(* The same when only the job does.                                        *)
LEMMA JobChange ==
  ASSUME ReadInv, NEW p \in Procs, NEW j, Reader(reading[p], j), job' = [job EXCEPT ![p] = j],
         UNCHANGED <<reading, loaded>>
  PROVE  ReadInv'
<1>1. reading[p] \in Descs \union {None} /\ loaded[p] \in Nat
  BY DEF ReadInv
<1>2. reading' = [reading EXCEPT ![p] = reading[p]] /\ loaded' = [loaded EXCEPT ![p] = loaded[p]]
  BY DEF ReadInv
<1> QED BY <1>1, <1>2, ReadChange

LEMMA PcChange ==
  ASSUME NEW j, GoodRead(j), NEW pc
  PROVE  LET k == [j EXCEPT !.pc = pc] IN
         /\ k.pc = pc /\ GoodRead(k) /\ Sector(k) = Sector(j)
         /\ Finished(j) => Finished(k)
         /\ GoodDeviceRead(j) => GoodDeviceRead(k)
<1> DEFINE K == [j EXCEPT !.pc = pc]
<1>1. PICK k : k = K
  OBVIOUS
<1>2. /\ DOMAIN K = JobFields /\ K.pc = pc /\ K.node = j.node /\ K.start = j.start
      /\ K.asked = j.asked /\ K.offset = j.offset /\ K.n = j.n /\ K.data = j.data
      /\ K.count = j.count /\ K.at = j.at /\ K.left = j.left /\ K.buf = j.buf /\ K.why = j.why
  <2>1. DOMAIN j = JobFields
    BY DEF GoodRead
  <2> QED BY ONLY <2>1 DEF JobFields
<1>3. /\ DOMAIN k = JobFields /\ k.pc = pc /\ k.node = j.node /\ k.start = j.start
      /\ k.asked = j.asked /\ k.offset = j.offset /\ k.n = j.n /\ k.data = j.data
      /\ k.count = j.count /\ k.at = j.at /\ k.left = j.left /\ k.buf = j.buf /\ k.why = j.why
  BY ONLY <1>1, <1>2, Zenon
<1> HIDE DEF K
<1>4. GoodRead(k)
  BY <1>3 DEF GoodRead
<1>5. Finished(j) => Finished(k)
  BY ONLY <1>3, Zenon DEF Finished
<1>6. GoodDeviceRead(j) => GoodDeviceRead(k)
  BY ONLY <1>3, Zenon DEF GoodDeviceRead
<1>7. Sector(k) = Sector(j)
  BY ONLY <1>3, Zenon DEF Sector
<1> QED BY <1>1, <1>3, <1>4, <1>5, <1>6, <1>7 DEF K

(* Who waits for the drive reads from the device.                          *)
LEMMA Waiting ==
  ASSUME ReadInv, NEW p \in Procs, job[p].pc \in {"spin", "registers", "command", "wait"}
  PROVE  reading[p] \in Descs /\ GoodRead(job[p]) /\ GoodDeviceRead(job[p])
BY DEF ReadInv, NoJob

LEMMA ReadDone ==
  ASSUME ReadInv, NEW p \in Procs, job[p].pc \in {"done", "store"}
  PROVE  reading[p] \in Descs /\ GoodRead(job[p]) /\ Finished(job[p])
BY DEF ReadInv, NoJob

LEMMA ReadWaits ==
  ASSUME ReadInv, NEW p \in Procs, job[p].pc \in {"spin", "registers", "command", "wait"},
         NEW pc \in {"spin", "registers", "command", "wait"},
         job' = [job EXCEPT ![p].pc = pc], UNCHANGED <<reading, loaded>>
  PROVE  ReadInv'
<1>1. reading[p] \in Descs /\ GoodRead(job[p]) /\ GoodDeviceRead(job[p])
  BY Waiting
<1>2. PICK k : k = [job[p] EXCEPT !.pc = pc]
  OBVIOUS
<1>3. k.pc = pc /\ GoodRead(k) /\ GoodDeviceRead(k)
  BY <1>1, <1>2, PcChange
<1>4. Reader(reading[p], k)
  BY <1>1, <1>3 DEF Reader
<1>5. job' = [job EXCEPT ![p] = k]
  BY <1>2
<1> QED BY <1>4, <1>5, JobChange

(* The sector that the drive hands over is the one that was asked for.     *)
LEMMA ReadTransfer ==
  ASSUME ReadInv, DriveInv, NEW p \in Procs, Transfer(p), UNCHANGED <<reading, loaded>>
  PROVE  ReadInv' /\ \E j : job' = [job EXCEPT ![p] = j] /\ j.pc \in {"done", "spin"}
<1>1. job[p].pc = "wait" /\ job' = [job EXCEPT ![p] = SectorRead(job[p], drive.sector)]
  BY DEF Transfer
<1>2. reading[p] \in Descs /\ GoodRead(job[p]) /\ GoodDeviceRead(job[p])
  BY <1>1, Waiting
<1>3. drive.sector = Sector(job[p])
  BY <1>1 DEF DriveInv
<1>4. PICK j : j = SectorRead(job[p], Sector(job[p]))
  OBVIOUS
<1>5. Progress(j)
  BY <1>2, <1>4, SectorReadGood
<1>6. Reader(reading[p], j) /\ j.pc \in {"done", "spin"}
  BY <1>2, <1>5 DEF Reader, Progress
<1>7. job' = [job EXCEPT ![p] = j]
  BY <1>1, <1>3, <1>4
<1> QED BY <1>6, <1>7, JobChange

(* A read starts with no cells.                                            *)
LEMMA FirstRound ==
  ASSUME NEW node \in OpenNodes, NEW offset \in Nat, NEW n \in Nat
  PROVE  Progress(Round([pc |-> "loop", node |-> node, start |-> offset, asked |-> n,
                         offset |-> offset, n |-> n, data |-> <<>>, count |-> 0,
                         at |-> 0, left |-> 0, buf |-> <<>>, why |-> "block"]))
<1> DEFINE J == [pc |-> "loop", node |-> node, start |-> offset, asked |-> n,
                 offset |-> offset, n |-> n, data |-> <<>>, count |-> 0,
                 at |-> 0, left |-> 0, buf |-> <<>>, why |-> "block"]
<1>1. PICK j : j = J
  OBVIOUS
<1>2. /\ DOMAIN J = JobFields /\ J.node = node /\ J.start = offset /\ J.asked = n
      /\ J.offset = offset /\ J.n = n /\ J.data = <<>>
  BY ONLY TRUE DEF JobFields
<1>3. /\ DOMAIN j = JobFields /\ j.node = node /\ j.start = offset /\ j.asked = n
      /\ j.offset = offset /\ j.n = n /\ j.data = <<>>
  BY ONLY <1>1, <1>2, Zenon
<1> HIDE DEF J
<1>4. CellsOf(node, offset, offset - offset) = <<>>
  <2>1. 1..(offset - offset) = {}
    OBVIOUS
  <2> QED BY <2>1 DEF CellsOf
<1>5. GoodRead(j)
  BY <1>3, <1>4 DEF GoodRead
<1>6. Progress(Round(j))
  BY <1>5, RoundGood
<1> QED BY <1>1, <1>6 DEF J

LEMMA ReadRead ==
  ASSUME TableInv, DescInv, ReadInv, NEW p \in Procs, NEW fd \in 0..NFILE, NEW n \in Lens,
         Read(p, fd, n)
  PROVE  /\ ReadInv' /\ job[p].pc = "idle"
         /\ \E j : job' = [job EXCEPT ![p] = j] /\ j.pc \in {"done", "spin"}
<1>1. Seekable(GetFile(p, fd)) /\ reading[p] = None /\ UNCHANGED loaded
  BY DEF Read, Enter
<1>2. PICK d : d = GetFile(p, fd)
  OBVIOUS
<1>3. d \in Descs /\ desc[d] \in OpenDesc
  BY <1>1, <1>2, GetFileIs
<1>4. desc[d].node \in OpenNodes /\ desc[d].offset \in Nat /\ n \in Nat
  BY <1>3, FilesAssumption DEF OpenDesc
<1>5. PICK j : j = Round([pc |-> "loop", node |-> desc[d].node, start |-> desc[d].offset,
                          asked |-> n, offset |-> desc[d].offset, n |-> n, data |-> <<>>,
                          count |-> 0, at |-> 0, left |-> 0, buf |-> <<>>, why |-> "block"])
  OBVIOUS
<1>6. Progress(j)
  BY <1>4, <1>5, FirstRound
<1>7. job' = [job EXCEPT ![p] = j] /\ reading' = [reading EXCEPT ![p] = d]
  BY <1>2, <1>5, Zenon DEF Read, StartRead
<1>8. Reader(d, j) /\ j.pc \in {"done", "spin"}
  BY <1>3, <1>6 DEF Reader, Progress
<1>9. loaded[p] \in Nat /\ loaded' = [loaded EXCEPT ![p] = loaded[p]]
  BY <1>1 DEF ReadInv
<1>10. ReadInv'
  BY <1>3, <1>7, <1>8, <1>9, ReadChange
<1>11. job[p].pc = "idle"
  <2>1. reading[p] \notin Descs
    BY <1>1, FilesAssumption
  <2> QED BY <2>1 DEF ReadInv, NoJob
<1> QED BY <1>7, <1>8, <1>10, <1>11

LEMMA ReadLoad ==
  ASSUME TableInv, DescInv, ReadInv, NEW p \in Procs, LoadOffset(p)
  PROVE  ReadInv'
<1>1. job[p].pc = "done" /\ UNCHANGED reading /\ loaded' = [loaded EXCEPT ![p] = desc[reading[p]].offset]
      /\ job' = [job EXCEPT ![p].pc = "store"]
  BY DEF LoadOffset
<1>2. reading[p] \in Descs /\ GoodRead(job[p]) /\ Finished(job[p])
  BY <1>1, ReadDone
<1>3. desc[reading[p]] \in OpenDesc
  BY <1>2, DescIs DEF Used
<1>4. PICK l \in Nat : l = desc[reading[p]].offset
  BY <1>3 DEF OpenDesc
<1>5. PICK k : k = [job[p] EXCEPT !.pc = "store"]
  OBVIOUS
<1>6. k.pc = "store" /\ GoodRead(k) /\ Finished(k)
  BY <1>2, <1>5, PcChange
<1>7. Reader(reading[p], k)
  BY <1>2, <1>6 DEF Reader
<1>8. job' = [job EXCEPT ![p] = k] /\ loaded' = [loaded EXCEPT ![p] = l]
      /\ reading' = [reading EXCEPT ![p] = reading[p]]
  BY <1>1, <1>4, <1>5 DEF ReadInv
<1> QED BY <1>2, <1>7, <1>8, ReadChange

LEMMA ReadEnds ==
  ASSUME ReadInv, NEW p \in Procs, ReadReturns(p)
  PROVE  ReadInv'
<1>1. job' = [job EXCEPT ![p] = NoJob] /\ reading' = [reading EXCEPT ![p] = None]
      /\ loaded' = [loaded EXCEPT ![p] = 0]
  BY DEF ReadReturns
<1>2. Reader(None, NoJob) /\ 0 \in Nat /\ None \in Descs \union {None}
  BY DEF Reader
<1> QED BY ONLY ReadInv, <1>1, <1>2, ReadChange

LEMMA ReadInvStep ==
  ASSUME FilesInv, Next
  PROVE  ReadInv'
<1>0. TableInv /\ DescInv /\ ReadInv /\ DriveInv
  BY DEF FilesInv
<1>1. CASE UNCHANGED <<job, reading, loaded>>
  BY <1>0, <1>1, ReadSame
<1>2. ASSUME NEW t \in Procs, LockIde(t) \/ WriteRegisters(t) \/ Command(t),
             UNCHANGED <<reading, loaded>>
      PROVE  ReadInv'
  <2>1. PICK pc \in {"spin", "registers", "command", "wait"} : job' = [job EXCEPT ![t].pc = pc]
    BY <1>2 DEF LockIde, WriteRegisters, Command
  <2>2. job[t].pc \in {"spin", "registers", "command", "wait"}
    BY <1>2 DEF LockIde, WriteRegisters, Command
  <2> QED BY <1>0, <1>2, <2>1, <2>2, ReadWaits
<1>3. ASSUME NEW t \in Procs, Transfer(t), UNCHANGED <<reading, loaded>>
      PROVE  ReadInv'
  BY <1>0, <1>3, ReadTransfer
<1>4. ASSUME NEW p \in Procs, NEW fd \in 0..NFILE, NEW n \in Lens, Read(p, fd, n)
      PROVE  ReadInv'
  BY <1>0, <1>4, ReadRead
<1>5. ASSUME NEW p \in Procs, LoadOffset(p)
      PROVE  ReadInv'
  BY <1>0, <1>5, ReadLoad
<1>6. ASSUME NEW p \in Procs, ReadReturns(p)
      PROVE  ReadInv'
  BY <1>0, <1>6, ReadEnds
<1>7. \/ UNCHANGED <<job, reading, loaded>>
      \/ \E t \in Procs : /\ LockIde(t) \/ WriteRegisters(t) \/ Command(t) \/ Transfer(t)
                          /\ UNCHANGED <<reading, loaded>>
      \/ \E p \in Procs :
           \/ \E fd \in 0..NFILE : \E n \in Lens : Read(p, fd, n)
           \/ LoadOffset(p) \/ ReadReturns(p)
  BY DEF Next, DiskNext, Procs, DriveReads, fileVars, diskVars, Open, Seek, NewSemaphore,
         UseSemaphore, Close, Wait, Fork, Exit
<1> QED BY <1>1, <1>2, <1>3, <1>4, <1>5, <1>6, <1>7

-----------------------------------------------------------------------------
(* Steps and the drive.                                                    *)
LEMMA DriveIs ==
  DriveInv <=> /\ DOMAIN drive = {"status", "regs", "sector"}
               /\ \A p \in Procs : /\ lock = p <=> job[p].pc \in Holding
                                   /\ job[p].pc = "command" => drive.regs = Sector(job[p])
                                   /\ job[p].pc = "wait" => drive.sector = Sector(job[p])
BY DEF DriveInv, Holding

(* A step of who neither has the lock nor takes it.                        *)
LEMMA DriveKeeps ==
  ASSUME ReadInv, DriveInv, UNCHANGED <<lock, drive>>, NEW p \in Procs, NEW j,
         job' = [job EXCEPT ![p] = j], job[p].pc \notin Holding, j.pc \notin Holding
  PROVE  DriveInv'
<1>1. \A q \in Procs : job'[q] = IF q = p THEN j ELSE job[q]
  BY DEF ReadInv
<1>2. /\ DOMAIN drive' = {"status", "regs", "sector"}
      /\ \A q \in Procs : /\ lock' = q <=> job'[q].pc \in Holding
                          /\ job'[q].pc = "command" => drive'.regs = Sector(job'[q])
                          /\ job'[q].pc = "wait" => drive'.sector = Sector(job'[q])
  BY <1>1, DriveIs DEF Holding
<1> QED BY <1>2 DEF DriveInv, Holding

LEMMA DriveSame ==
  ASSUME DriveInv, UNCHANGED <<lock, job, drive>>
  PROVE  DriveInv'
BY DEF DriveInv, Sector

(* The lock is free, or t has it: no other process holds it.               *)
LEMMA OthersOff ==
  ASSUME DriveInv, NEW t \in Procs, lock \in {None, t}
  PROVE  \A q \in Procs \ {t} : lock # q /\ job[q].pc \notin Holding
BY FilesAssumption, DriveIs

LEMMA DriveLock ==
  ASSUME ReadInv, DriveInv, NEW t \in Procs, LockIde(t)
  PROVE  DriveInv'
<1>1. \A q \in Procs \ {t} : job[q].pc \notin Holding
  BY OthersOff DEF LockIde, LockFree
<1>2. PICK k : k = [job[t] EXCEPT !.pc = "registers"]
  OBVIOUS
<1>3. k.pc = "registers"
  BY <1>2, Waiting, PcChange DEF LockIde
<1>4. \A q \in Procs : job'[q] = IF q = t THEN k ELSE job[q]
  BY <1>2 DEF LockIde, ReadInv
<1>5. lock' = t /\ drive' = drive /\ DOMAIN drive = {"status", "regs", "sector"}
  BY DEF LockIde, DriveInv
<1>6. \A q \in Procs : /\ lock' = q <=> job'[q].pc \in Holding
                       /\ job'[q].pc # "command" /\ job'[q].pc # "wait"
  BY <1>1, <1>3, <1>4, <1>5 DEF Holding
<1> QED BY <1>5, <1>6 DEF DriveInv, Holding

LEMMA DriveRegisters ==
  ASSUME ReadInv, DriveInv, NEW t \in Procs, WriteRegisters(t)
  PROVE  DriveInv'
<1>0. lock = t /\ lock' = t
  BY DEF WriteRegisters, DriveInv
<1>1. \A q \in Procs \ {t} : job[q].pc \notin Holding /\ t # q
  BY <1>0, OthersOff
<1>2. PICK k : k = [job[t] EXCEPT !.pc = "command"]
  OBVIOUS
<1>3. k.pc = "command" /\ Sector(k) = Sector(job[t])
  BY <1>2, Waiting, PcChange DEF WriteRegisters
<1>4. \A q \in Procs : job'[q] = IF q = t THEN k ELSE job[q]
  BY <1>2 DEF WriteRegisters, ReadInv
<1>5. DOMAIN drive' = {"status", "regs", "sector"} /\ drive'.regs = Sector(job[t])
  BY DEF WriteRegisters, DriveInv
<1>6. \A q \in Procs : /\ lock' = q <=> job'[q].pc \in Holding
                       /\ job'[q].pc = "command" => drive'.regs = Sector(job'[q])
                       /\ job'[q].pc # "wait"
  BY <1>0, <1>1, <1>3, <1>4, <1>5 DEF Holding
<1> QED BY <1>5, <1>6 DEF DriveInv, Holding

LEMMA DriveCommand ==
  ASSUME ReadInv, DriveInv, NEW t \in Procs, Command(t)
  PROVE  DriveInv'
<1>0. lock = t /\ lock' = t
  BY DEF Command, DriveInv
<1>1. \A q \in Procs \ {t} : job[q].pc \notin Holding /\ t # q
  BY <1>0, OthersOff
<1>2. PICK k : k = [job[t] EXCEPT !.pc = "wait"]
  OBVIOUS
<1>3. k.pc = "wait" /\ Sector(k) = Sector(job[t])
  BY <1>2, Waiting, PcChange DEF Command
<1>4. \A q \in Procs : job'[q] = IF q = t THEN k ELSE job[q]
  BY <1>2 DEF Command, ReadInv
<1>5. DOMAIN drive' = {"status", "regs", "sector"} /\ drive'.sector = drive.regs
      /\ drive.regs = Sector(job[t])
  BY DEF Command, DriveInv
<1>6. \A q \in Procs : /\ lock' = q <=> job'[q].pc \in Holding
                       /\ job'[q].pc = "wait" => drive'.sector = Sector(job'[q])
                       /\ job'[q].pc # "command"
  BY <1>0, <1>1, <1>3, <1>4, <1>5 DEF Holding
<1> QED BY <1>5, <1>6 DEF DriveInv, Holding

LEMMA DriveTransfer ==
  ASSUME ReadInv, DriveInv, NEW t \in Procs, Transfer(t), UNCHANGED <<reading, loaded>>
  PROVE  DriveInv'
<1>0. lock = t /\ lock' = None /\ DOMAIN drive' = {"status", "regs", "sector"}
  BY DEF Transfer, DriveInv
<1>1. \A q \in Procs \ {t} : job[q].pc \notin Holding
  BY <1>0, OthersOff
<1>2. PICK j : job' = [job EXCEPT ![t] = j] /\ j.pc \in {"done", "spin"}
  BY ReadTransfer
<1>3. \A q \in Procs : job'[q] = IF q = t THEN j ELSE job[q]
  BY <1>2 DEF ReadInv
<1>4. \A q \in Procs : lock' # q /\ job'[q].pc \notin Holding
  BY <1>0, <1>1, <1>2, <1>3, FilesAssumption DEF Holding
<1> QED BY <1>0, <1>4 DEF DriveInv, Holding

LEMMA DriveInvStep ==
  ASSUME FilesInv, Next
  PROVE  DriveInv'
<1>0. TableInv /\ DescInv /\ ReadInv /\ DriveInv
  BY DEF FilesInv
<1>1. CASE UNCHANGED <<lock, job, drive>>
  BY <1>0, <1>1, DriveSame
<1>2. CASE DriveReads
  BY <1>0, <1>2 DEF DriveReads, DriveInv, Sector
<1>3. ASSUME NEW t \in Procs, LockIde(t) \/ WriteRegisters(t) \/ Command(t)
      PROVE  DriveInv'
  BY <1>0, <1>3, DriveLock, DriveRegisters, DriveCommand
<1>4. ASSUME NEW t \in Procs, Transfer(t), UNCHANGED <<reading, loaded>>
      PROVE  DriveInv'
  BY <1>0, <1>4, DriveTransfer
<1>5. ASSUME NEW p \in Procs, NEW fd \in 0..NFILE, NEW n \in Lens, Read(p, fd, n)
      PROVE  DriveInv'
  <2>1. job[p].pc = "idle"
    BY <1>0, <1>5, ReadRead
  <2>2. PICK j : job' = [job EXCEPT ![p] = j] /\ j.pc \in {"done", "spin"}
    BY <1>0, <1>5, ReadRead
  <2>3. UNCHANGED <<lock, drive>> /\ job[p].pc \notin Holding /\ j.pc \notin Holding
    BY <1>5, <2>1, <2>2 DEF Read, Holding
  <2> QED BY <1>0, <2>2, <2>3, DriveKeeps
<1>6. ASSUME NEW p \in Procs, LoadOffset(p)
      PROVE  DriveInv'
  <2>1. PICK k : k = [job[p] EXCEPT !.pc = "store"]
    OBVIOUS
  <2>2. job[p].pc = "done" /\ UNCHANGED <<lock, drive>> /\ job' = [job EXCEPT ![p] = k]
    BY <1>6, <2>1 DEF LoadOffset
  <2>3. k.pc = "store"
    BY <1>0, <2>1, <2>2, ReadDone, PcChange
  <2>4. job[p].pc \notin Holding /\ k.pc \notin Holding
    BY <2>2, <2>3 DEF Holding
  <2> QED BY <1>0, <2>2, <2>4, DriveKeeps
<1>7. ASSUME NEW p \in Procs, ReadReturns(p)
      PROVE  DriveInv'
  <2>1. job' = [job EXCEPT ![p] = NoJob] /\ UNCHANGED <<lock, drive>>
    BY <1>7 DEF ReadReturns
  <2>2. job[p].pc \notin Holding /\ NoJob.pc \notin Holding
    BY <1>7 DEF ReadReturns, Holding, NoJob
  <2> QED BY <1>0, <2>1, <2>2, DriveKeeps
<1>8. \/ UNCHANGED <<lock, job, drive>>
      \/ DriveReads
      \/ \E t \in Procs : /\ LockIde(t) \/ WriteRegisters(t) \/ Command(t) \/ Transfer(t)
                          /\ UNCHANGED <<reading, loaded>>
      \/ \E p \in Procs :
           \/ \E fd \in 0..NFILE : \E n \in Lens : Read(p, fd, n)
           \/ LoadOffset(p) \/ ReadReturns(p)
  BY DEF Next, DiskNext, Procs, fileVars, diskVars, Open, Seek, NewSemaphore,
         UseSemaphore, Close, Wait, Fork, Exit
<1> QED BY <1>1, <1>2, <1>3, <1>4, <1>5, <1>6, <1>7, <1>8

-----------------------------------------------------------------------------
(* The invariant.                                                          *)
LEMMA InitTables ==
  ASSUME Init
  PROVE  TableInv
<1>0. 3 <= NFILE /\ NFILE \in Nat /\ First \in Procs /\ Console # None
  BY FilesAssumption
<1>1. /\ files \in [Procs -> [0..(NFILE - 1) -> Descs \union {None, Console}]]
      /\ sems \in [Procs -> [0..(NSEM - 1) -> SemObjects \union {None}]]
      /\ children \in [Procs -> [0..(NCHILD - 1) -> Procs \union {None}]]
      /\ granted = [p \in Procs |-> granted[p]]
      /\ alive \subseteq Procs
      /\ \A p \in Procs \ alive : children[p] = NoTable(NCHILD)
  BY <1>0 DEF Init, NoTable
<1>2. HandlesStable
  <2> DEFINE t == [i \in 0..(NFILE - 1) |-> IF i < 3 THEN Console ELSE None]
  <2>1. {k \in DOMAIN t : t[k] # None} = 0..2
    <3>1. ASSUME NEW k \in DOMAIN t, t[k] # None PROVE k \in 0..2
      BY <1>0, <3>1
    <3>2. ASSUME NEW k \in 0..2 PROVE k \in DOMAIN t /\ t[k] # None
      BY <1>0
    <3> QED BY <3>1, <3>2
  <2>2. \A i \in 0..2 : t[i] = Console
    BY <1>0
  <2> HIDE DEF t
  <2>3. Handles(FL, t) = {<<Id(FL, i), Console>> : i \in 0..2}
    BY <2>1, <2>2 DEF Handles
  <2>4. files[First] = t /\ sems[First] = NoTable(NSEM) /\ children[First] = NoTable(NCHILD)
        /\ granted[First] = {<<Id(FL, i), Console>> : i \in 0..2} /\ alive = {First}
    BY <1>0 DEF Init, t
  <2>5. Handles(SEM, NoTable(NSEM)) = {} /\ Handles(PROC, NoTable(NCHILD)) = {}
    BY HandlesNone
  <2> QED BY <2>3, <2>4, <2>5 DEF HandlesStable
<1> QED BY <1>1, <1>2 DEF TableInv

LEMMA InitFiles ==
  ASSUME Init
  PROVE  FilesInv
<1>1. TableInv
  BY InitTables
<1>2. DescInv
  <2>1. ASSUME NEW d \in Descs, NEW p \in Procs PROVE reading[p] # d
    BY FilesAssumption DEF Init
  <2>2. ASSUME NEW d \in Descs, NEW p \in Procs, NEW i \in 0..(NFILE - 1) PROVE files[p][i] # d
    BY FilesAssumption DEF Init, NoTable
  <2>3. desc = [d \in Descs |-> desc[d]]
    BY DEF Init
  <2> QED BY <2>1, <2>2, <2>3 DEF DescInv
<1>3. ReadInv
  BY DEF Init, DiskInit, ReadInv, Procs
<1>4. DriveInv
  <2>1. DOMAIN drive = {"status", "regs", "sector"} /\ lock = None
    BY DEF Init, DiskInit
  <2>2. \A p \in Procs : lock # p /\ job[p].pc = "idle"
    BY FilesAssumption DEF Init, DiskInit, Procs, NoJob
  <2> QED BY <2>1, <2>2 DEF DriveInv
<1> QED BY <1>1, <1>2, <1>3, <1>4 DEF FilesInv

LEMMA FilesStep ==
  ASSUME FilesInv, [Next]_vars
  PROVE  FilesInv'
<1>0. TableInv /\ DescInv /\ ReadInv /\ DriveInv
  BY DEF FilesInv
<1>1. CASE Next
  <2>1. TableInv' /\ DescInv'
    BY <1>0, <1>1, TableStep, DescStep
  <2>2. ReadInv' /\ DriveInv'
    BY <1>1, ReadInvStep, DriveInvStep
  <2> QED BY <2>1, <2>2 DEF FilesInv
<1>2. CASE UNCHANGED vars
  <2>1. UNCHANGED <<lock, drive, job, alive, files, sems, children, desc, reading, loaded, granted>>
    BY <1>2 DEF vars, diskVars, fileVars
  <2>2. TableInv'
    BY <1>0, <2>1 DEF TableInv, HandlesStable
  <2>3. DescInv'
    BY <1>0, <2>1 DEF DescInv
  <2>4. ReadInv' /\ DriveInv'
    BY <1>0, <2>1, ReadSame, DriveSame
  <2> QED BY <2>2, <2>3, <2>4 DEF FilesInv
<1> QED BY <1>1, <1>2

(* The tables, the FileDescriptors, the reads under way and the drive fit  *)
(* together after every step of the system calls of sys.cc, of the loops   *)
(* of BlockIO and of Ide::read_block, for every sound image.               *)
THEOREM FilesInvariant == Spec => []FilesInv
<1>1. Init => FilesInv
  BY InitFiles
<1>2. FilesInv /\ [Next]_vars => FilesInv'
  BY FilesStep
<1> QED BY <1>1, <1>2, PTL DEF Spec

(* An id that open, sem or fork gave (Process::setFile, newSemaphore and   *)
(* fork) names the same object until its process closes it or waits for it *)
(* (Process::close and wait), whatever other processes do and however      *)
(* their calls interleave.                                                 *)
THEOREM HandlesStableCorrect == Spec => []HandlesStable
<1>1. FilesInv => HandlesStable
  BY DEF FilesInv, TableInv
<1> QED BY <1>1, FilesInvariant, PTL

(* A finished read has the cells of its file from where it started.        *)
LEMMA FinishedReads ==
  ASSUME HoldsTheImage, NEW j, GoodRead(j), Finished(j)
  PROVE  LET all == Holds[j.node.number]
             end == Min({j.start + j.asked, Len(all)})
         IN /\ j.data = SubSeq(all, j.start + 1, end)
            /\ j.count = IF j.start > Len(all) /\ j.asked > 0 THEN -1 ELSE Len(j.data)
<1>1. PICK node \in OpenNodes : node = j.node
  BY DEF GoodRead
<1>2. PICK size \in Nat : size = node.size_low
  BY <1>1, SoundNodes DEF Sound
<1>3. PICK start \in Nat : start = j.start
  BY DEF GoodRead
<1>4. PICK asked \in Nat : asked = j.asked
  BY DEF GoodRead
<1>5. PICK offset \in Nat : offset = j.offset
  BY DEF GoodRead
<1>6. PICK n \in Nat : n = j.n
  BY DEF GoodRead
<1>7. /\ start <= offset /\ offset + n = start + asked /\ (offset <= size \/ offset = start)
      /\ n = 0 \/ offset >= size
      /\ j.data = CellsOf(node, start, offset - start)
      /\ j.count = IF start > size /\ asked > 0 THEN -1 ELSE offset - start
  BY <1>1, <1>2, <1>3, <1>4, <1>5, <1>6 DEF GoodRead, Finished
<1>8. PICK all : all = Holds[node.number]
  OBVIOUS
<1>9. all = CellsOf(node, 0, size) /\ Len(all) = size
  BY <1>2, <1>8, CellsLen DEF HoldsTheImage
<1>10. PICK got \in Nat : got = offset - start
  BY <1>7
<1>11. Len(j.data) = got
  BY <1>7, <1>10, CellsLen
<1>12. PICK end \in Nat : end = Min({start + asked, size})
  BY MinOfTwo
<1>13. end = IF start + asked <= size THEN start + asked ELSE size
  BY <1>12, MinOfTwo
<1>14. j.data = SubSeq(all, start + 1, end)
  <2>1. CASE start <= size
    <3>1. end = offset
      BY <1>7, <1>13, <2>1
    <3>2. PICK lo \in Nat : lo = start + 1
      OBVIOUS
    <3>3. Within(size, start, got, lo, end)
      BY <1>7, <1>10, <1>13, <3>1, <3>2 DEF Within
    <3>4. SubSeq(CellsOf(node, 0, size), lo, end) = CellsOf(node, start, got)
      BY ONLY <3>3, CellsPart
    <3> QED BY <1>7, <1>9, <1>10, <3>2, <3>4
  <2>2. CASE start > size
    <3>1. got = 0 /\ end < start + 1
      BY <1>7, <1>10, <1>13, <2>2
    <3>2. j.data = <<>>
      <4>1. 1..got = {}
        BY <3>1
      <4> QED BY <1>7, <1>10, <4>1 DEF CellsOf
    <3>3. SubSeq(all, start + 1, end) = <<>>
      BY <3>1, SubSeqEmpty
    <3> QED BY <3>2, <3>3
  <2> QED BY <2>1, <2>2
<1>15. j.count = IF start > Len(all) /\ asked > 0 THEN -1 ELSE Len(j.data)
  BY <1>7, <1>9, <1>10, <1>11
<1> QED BY <1>1, <1>3, <1>4, <1>8, <1>9, <1>12, <1>14, <1>15

(* Whatever the blocks of a file are, and however reads on several cores   *)
(* interleave at the drive, a read that Node::read_all and Ide::read_block *)
(* perform gives the bytes of the file from the offset it started at, as   *)
(* many as there are, and -1 past the end.  HoldsTheImage says what the    *)
(* bytes of a file are.                                                    *)
THEOREM ReadsTheFileCorrect ==
  ASSUME HoldsTheImage
  PROVE  Spec => []ReadsTheFile
<1>1. FilesInv => ReadsTheFile
  <2> SUFFICES ASSUME FilesInv, NEW p \in Procs, job[p].pc = "done"
               PROVE  LET j == job[p]
                          all == Holds[j.node.number]
                          end == Min({j.start + j.asked, Len(all)})
                      IN /\ j.data = SubSeq(all, j.start + 1, end)
                         /\ j.count = IF j.start > Len(all) /\ j.asked > 0 THEN -1 ELSE Len(j.data)
    BY Zenon DEF ReadsTheFile
  <2>1. PICK j : j = job[p]
    OBVIOUS
  <2>2. GoodRead(j) /\ Finished(j)
    BY <2>1, ReadDone DEF FilesInv
  <2> QED BY <2>1, <2>2, FinishedReads
<1> QED BY <1>1, FilesInvariant, PTL

=============================================================================
