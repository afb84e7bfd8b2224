------------------------------ MODULE VMMProofs ------------------------------
(***************************************************************************)
(* Proofs about VMM: SpaceInv is inductive whatever programs do, hence     *)
(* TypeOK; without shared mappings of files a frame has one use and none   *)
(* is lost (OwnInv); mmap keeps mappings apart (the walk of the list);     *)
(* with shared mappings a frame is freed when its last use ends and the    *)
(* uses are counted right (ShareInv).                                      *)
(***************************************************************************)
EXTENDS VMM, FiniteSetTheorems, SequenceTheorems, WellFoundedInduction, TLAPS

-----------------------------------------------------------------------------
(* Numbers and names.                                                      *)
LEMMA DivMult ==
  ASSUME NEW a \in Nat, NEW b \in Nat \ {0}
  PROVE  (a * b) \div b = a
<1> DEFINE q == (a * b) \div b
           r == (a * b) % b
<1>1. q \in Int /\ r \in 0..(b - 1) /\ a * b = b * q + r
  OBVIOUS
<1> HIDE DEF q, r
<1>2. b * (a - q) = r
  BY <1>1
<1>3. a - q = 0
  <2>1. CASE a - q >= 1
    BY <1>1, <1>2, <2>1
  <2>2. CASE a - q <= -1
    BY <1>1, <1>2, <2>2
  <2> QED BY <1>1, <2>1, <2>2
<1> QED BY <1>1, <1>3 DEF q

LEMMA DivDown ==
  ASSUME NEW a \in Nat, NEW b \in Nat \ {0}
  PROVE  /\ a \div b \in Nat
         /\ (a \div b) * b \in 0..a
<1>1. a \div b \in Int /\ (a % b) \in 0..(b - 1) /\ a = b * (a \div b) + (a % b)
  OBVIOUS
<1>2. PICK q, r : q = a \div b /\ r = a % b
  OBVIOUS
<1>3. q \in Int /\ r \in 0..(b - 1) /\ a = b * q + r
  BY <1>1, <1>2
<1>4. q >= 0
  <2>1. CASE q <= -1
    <3>1. b * q <= -b
      BY <1>3, <2>1
    <3> QED BY <3>1, <1>3
  <2> QED BY <1>3, <2>1
<1>5. b * q = q * b /\ b * q \in Int
  BY <1>3
<1> QED BY <1>2, <1>3, <1>4, <1>5

(* What the assumptions say of the constants.                              *)
LEMMA Constants ==
  /\ NFrames \in Nat /\ NFrames >= 2
  /\ NPages \in Nat /\ NPages > 0 /\ FrameSize \in Nat /\ FrameSize > 0
  /\ PtSpan \in Nat /\ PtSpan > 0 /\ NumMod \in Nat /\ NumMod > 1 /\ MaxNodes \in Nat
  /\ Base \in Nat /\ Base > 0 /\ Space \in Nat /\ Space > 0 /\ Base < Space
  /\ Vpns \subseteq Nat /\ Frames \subseteq Nat /\ NodeIds \subseteq Nat
  /\ None \notin Frames /\ Junk \notin Frames /\ None \notin NodeIds /\ Junk \notin NodeIds
  /\ None \notin Procs /\ None # Junk /\ None \notin Files
  /\ First \in Procs
  /\ ApicPage \in Vpns /\ Touches \subseteq Vpns \ {ApicPage}
<1>1. /\ NFrames \in Nat /\ NFrames >= 2
      /\ NPages \in Nat /\ NPages > 0 /\ FrameSize \in Nat /\ FrameSize > 0
      /\ PtSpan \in Nat /\ PtSpan > 0 /\ NumMod \in Nat /\ NumMod > 1 /\ MaxNodes \in Nat
  BY VMMAssumption
<1>2. Base \in Nat /\ Base > 0
  BY <1>1 DEF Base
<1>3. Space \in Nat /\ Space > 0 /\ Base < Space
  BY <1>2 DEF Space
<1>4. Vpns \subseteq Nat /\ Frames \subseteq Nat /\ NodeIds \subseteq Nat
  BY <1>1 DEF Vpns, Frames, NodeIds
<1>5. None \notin Int /\ Junk \notin Int /\ Nat \subseteq Int
  BY VMMAssumption
<1>6. /\ None \notin Procs /\ None # Junk /\ None \notin Files
      /\ First \in Procs
      /\ ApicPage \in Vpns /\ Touches \subseteq Vpns \ {ApicPage}
  BY VMMAssumption
<1>7. None \notin Frames /\ Junk \notin Frames /\ None \notin NodeIds /\ Junk \notin NodeIds
  BY <1>4, <1>5, Zenon
<1> QED BY <1>1, <1>2, <1>3, <1>4, <1>6, <1>7

LEMMA VpnOf ==
  ASSUME NEW v \in Vpns
  PROVE  v * FrameSize \in Nat /\ Vpn(v * FrameSize) = v
BY Constants, DivMult DEF Vpn

LEMMA PdiOf == \A v \in Vpns : Pdi(v) \in Pdis
BY DEF Pdis

LEMMA PdisNat == Pdis \subseteq Nat
<1> SUFFICES ASSUME NEW v \in Vpns PROVE Pdi(v) \in Nat
  BY DEF Pdis
<1> QED BY Constants, DivDown DEF Pdi

LEMMA EndType ==
  ASSUME NEW e \in Entry
  PROVE  End(e) \in 0..(Space - 1)
<1>1. e.start \in Nat /\ e.size \in Nat
  BY Constants DEF Entry
<1> QED BY <1>1, Constants DEF End

LEMMA FrameUpType ==
  ASSUME NEW a \in Nat
  PROVE  FrameUp(a) \in 0..(Space - 1)
<1>1. PICK x : x = (a + FrameSize - 1) % Space
  OBVIOUS
<1>2. x \in 0..(Space - 1)
  BY <1>1, Constants
<1>3. FrameDown(x) \in 0..x
  BY <1>2, Constants, DivDown DEF FrameDown
<1>4. FrameUp(a) = FrameDown(x)
  BY <1>1 DEF FrameUp
<1> QED BY <1>2, <1>3, <1>4, Constants

(* The lowest of some numbers.                                             *)
LEMMA LowestIn ==
  ASSUME NEW S, S \subseteq Nat, S # {}
  PROVE  Lowest(S) \in S /\ \A y \in S : Lowest(S) <= y
<1>1. PICK R : R = OpToRel(<, Nat)
  BY Zenon
<1>2. IsWellFoundedOn(R, Nat)
  BY <1>1, NatLessThanWellFounded, Zenon
<1>3. \A j, k \in Nat : j < k => <<j, k>> \in R
  BY <1>1, Zenon DEF OpToRel
<1>4. PICK i \in S : \A j \in S : ~(<<j, i>> \in R)
  BY <1>2, WFMin
<1>5. \A j \in S : ~(j < i)
  BY <1>3, <1>4
<1>6. \A j \in S : i <= j
  BY <1>5
<1> QED BY <1>6 DEF Lowest

-----------------------------------------------------------------------------
(* Lists.                                                                  *)
LEMMA SeqIs ==
  ASSUME NEW S, NEW s \in Seq(S)
  PROVE  /\ Len(s) \in Nat /\ DOMAIN s = 1..Len(s)
         /\ \A i \in 1..Len(s) : s[i] \in S
         /\ s = <<>> <=> Len(s) = 0
<1>1. Len(s) \in Nat /\ DOMAIN s = 1..Len(s)
  BY LenProperties
<1>2. \A i \in 1..Len(s) : s[i] \in S
  BY ElementOfSeq
<1>3. s = <<>> <=> Len(s) = 0
  BY EmptySeq
<1> QED BY <1>1, <1>2, <1>3

LEMMA RemoveAtIs ==
  ASSUME NEW S, NEW s \in Seq(S), NEW i \in 1..Len(s)
  PROVE  /\ RemoveAt(s, i) \in Seq(S)
         /\ Len(RemoveAt(s, i)) = Len(s) - 1
         /\ \A k \in 1..(i - 1) : RemoveAt(s, i)[k] = s[k]
         /\ \A k \in i..(Len(s) - 1) : RemoveAt(s, i)[k] = s[k + 1]
<1> DEFINE a == SubSeq(s, 1, i - 1)
           b == SubSeq(s, i + 1, Len(s))
<1>0. Len(s) \in Nat /\ DOMAIN s = 1..Len(s)
  BY SeqIs
<1>1. a \in Seq(S) /\ Len(a) = i - 1 /\ \A k \in 1..(i - 1) : a[k] = s[k]
  BY <1>0, SubSeqProperties
<1>2. b \in Seq(S) /\ Len(b) = Len(s) - i /\ \A k \in 1..(Len(s) - i) : b[k] = s[i + k]
  <2>0. \A k \in (i + 1)..Len(s) : s[k] \in S
    BY <1>0, SeqIs
  <2>1. b \in Seq(S) /\ Len(b) = Len(s) - i
    <3>1. b \in Seq(S)
          /\ Len(b) = IF i + 1 <= Len(s) THEN Len(s) - (i + 1) + 1 ELSE 0
      BY <1>0, <2>0, SubSeqProperties
    <3> HIDE DEF b
    <3>2. i \in Nat /\ i <= Len(s)
      BY <1>0
    <3>3. Len(b) = Len(s) - i
      <4>1. CASE i + 1 <= Len(s)
        BY <3>1, <3>2, <1>0, <4>1
      <4>2. CASE i = Len(s)
        BY <3>1, <3>2, <1>0, <4>2
      <4>3. ASSUME NEW n \in Nat, NEW j \in Nat, j <= n
            PROVE  j + 1 <= n \/ j = n
        BY <4>3
      <4> QED BY <3>2, <1>0, <4>1, <4>2, <4>3
    <3> QED BY <3>1, <3>3
  <2>2. \A k \in 1..(Len(s) - (i + 1) + 1) : b[k] = s[(i + 1) + k - 1]
    BY <1>0, <2>0, SubSeqProperties
  <2>3. \A k \in 1..(Len(s) - i) :
          k \in 1..(Len(s) - (i + 1) + 1) /\ (i + 1) + k - 1 = i + k
    BY <1>0
  <2>4. \A k \in 1..(Len(s) - i) : b[k] = s[i + k]
    BY <2>2, <2>3
  <2> QED BY <2>1, <2>4
<1>3. RemoveAt(s, i) = a \o b
  BY DEF RemoveAt
<1> HIDE DEF a, b
<1>4. /\ a \o b \in Seq(S) /\ Len(a \o b) = Len(a) + Len(b)
      /\ \A k \in 1..Len(a) : (a \o b)[k] = a[k]
      /\ \A k \in (Len(a) + 1)..(Len(a) + Len(b)) : (a \o b)[k] = b[k - Len(a)]
  <2>1. Len(a) \in Nat /\ Len(b) \in Nat
    BY <1>0, <1>1, <1>2
  <2>2. a \o b \in Seq(S) /\ Len(a \o b) = Len(a) + Len(b)
        /\ \A k \in 1..(Len(a) + Len(b)) :
             (a \o b)[k] = IF k <= Len(a) THEN a[k] ELSE b[k - Len(a)]
    BY <1>1, <1>2, ConcatProperties
  <2> QED BY <2>1, <2>2
<1>5. \A k \in i..(Len(s) - 1) : (a \o b)[k] = s[k + 1]
  <2> TAKE k \in i..(Len(s) - 1)
  <2>1. PICK j : j = k - Len(a)
    OBVIOUS
  <2>2. k \in (Len(a) + 1)..(Len(a) + Len(b)) /\ j \in 1..(Len(s) - i) /\ i + j = k + 1
    BY <1>0, <1>1, <1>2, <2>1
  <2>3. (a \o b)[k] = b[j]
    BY <1>4, <2>1, <2>2
  <2>4. b[j] = s[i + j]
    BY <1>2, <2>2
  <2> QED BY <2>2, <2>3, <2>4
<1> QED BY <1>0, <1>1, <1>2, <1>3, <1>4, <1>5

LEMMA HeadTailIs ==
  ASSUME NEW S, NEW s \in Seq(S), s # <<>>
  PROVE  /\ Head(s) \in S /\ Head(s) = s[1] /\ 1 \in DOMAIN s
         /\ Tail(s) \in Seq(S) /\ DOMAIN Tail(s) = 1..(Len(s) - 1)
         /\ \A i \in 1..(Len(s) - 1) : Tail(s)[i] = s[i + 1]
<1>1. Head(s) = s[1] /\ Head(s) \in S /\ Tail(s) \in Seq(S) /\ Len(Tail(s)) = Len(s) - 1
      /\ \A i \in 1..Len(Tail(s)) : Tail(s)[i] = s[i + 1]
  BY HeadTailProperties
<1>2. Len(s) \in Nat \ {0} /\ DOMAIN s = 1..Len(s) /\ DOMAIN Tail(s) = 1..Len(Tail(s))
  BY <1>1, SeqIs
<1> QED BY <1>1, <1>2

LEMMA ConsIs ==
  ASSUME NEW S, NEW s \in Seq(S), NEW x \in S
  PROVE  /\ <<x>> \o s \in Seq(S) /\ DOMAIN (<<x>> \o s) = 1..(Len(s) + 1)
         /\ (<<x>> \o s)[1] = x
         /\ \A i \in 1..Len(s) : (<<x>> \o s)[i + 1] = s[i]
<1>1. <<x>> \in Seq(S) /\ Len(<<x>>) = 1 /\ <<x>>[1] = x /\ Len(s) \in Nat
  BY SeqIs
<1>2. /\ <<x>> \o s \in Seq(S) /\ Len(<<x>> \o s) = 1 + Len(s)
      /\ \A k \in 1..1 : (<<x>> \o s)[k] = <<x>>[k]
      /\ \A k \in 2..(1 + Len(s)) : (<<x>> \o s)[k] = s[k - 1]
  BY <1>1, ConcatProperties
<1>3. DOMAIN (<<x>> \o s) = 1..(Len(s) + 1)
  BY <1>1, <1>2, SeqIs
<1>4. \A i \in 1..Len(s) : i + 1 \in 2..(1 + Len(s)) /\ (i + 1) - 1 = i
  BY <1>1
<1> QED BY <1>1, <1>2, <1>3, <1>4

(* Find() returns an entry, if any, that covers the address.               *)
LEMMA FindIs ==
  ASSUME NEW es \in Seq(Entry), NEW va, Find(es, va) # 0
  PROVE  /\ Find(es, va) \in 1..Len(es)
         /\ Covers(es[Find(es, va)], va)
         /\ es[Find(es, va)] \in Entry
<1> DEFINE hits == {i \in DOMAIN es : Covers(es[i], va)}
<1>0. DOMAIN es = 1..Len(es) /\ Len(es) \in Nat
  BY SeqIs
<1>1. Find(es, va) = Lowest(hits) /\ hits # {}
  BY DEF Find, Lowest
<1>2. hits \subseteq Nat
  BY <1>0
<1>3. Lowest(hits) \in hits
  BY <1>1, <1>2, LowestIn
<1>4. Find(es, va) \in hits
  BY <1>1, <1>3
<1>5. Find(es, va) \in 1..Len(es)
  BY <1>4, <1>0
<1> QED BY <1>4, <1>5, SeqIs

-----------------------------------------------------------------------------
(* Place().  SeenAt(.., f, k) is what the walk f has at entry k, given    *)
(* what it has before; a walk of n entries has it everywhere.              *)
SeenAt(es, va, size, f, k) ==
  IF k = 1 THEN [va |-> va, room |-> FALSE]
  ELSE IF f[k - 1].room THEN f[k - 1]
  ELSE LookAt(es, size, f[k - 1].va, k)
IsWalk(es, va, size, n, f) == f = [k \in 1..n |-> SeenAt(es, va, size, f, k)]
Found == [va : 0..(Space - 1), room : BOOLEAN]

LEMMA WalkExists ==
  ASSUME NEW es, NEW va, NEW size, NEW n \in Nat
  PROVE  \E f : IsWalk(es, va, size, n, f)
<1> DEFINE S == {m \in Nat : ~ \E f : IsWalk(es, va, size, m, f)}
<1> SUFFICES ASSUME S # {} PROVE FALSE
  OBVIOUS
<1>1. PICK m \in S : \A y \in S : m <= y
  BY LowestIn
<1>2. CASE m = 0
  <2>1. PICK f : f = [k \in 1..0 |-> 0]
    OBVIOUS
  <2>2. f = [k \in 1..0 |-> SeenAt(es, va, size, f, k)]
    BY <2>1
  <2> QED BY <1>1, <1>2, <2>2 DEF IsWalk
<1>3. CASE m > 0
  <2>1. m - 1 \in Nat /\ m - 1 \notin S
    BY <1>1, <1>3
  <2>2. PICK f : IsWalk(es, va, size, m - 1, f)
    BY <2>1
  <2>3. PICK g : g = [k \in 1..m |-> IF k < m THEN f[k] ELSE SeenAt(es, va, size, f, m)]
    OBVIOUS
  <2>4. \A k \in 1..m : g[k] = SeenAt(es, va, size, g, k)
    <3> TAKE k \in 1..m
    <3>1. SeenAt(es, va, size, g, k) = SeenAt(es, va, size, f, k)
      <4>1. CASE k = 1
        BY <4>1 DEF SeenAt
      <4>2. CASE k > 1
        <5>1. k - 1 \in 1..m /\ k - 1 < m
          BY <4>2, <1>1
        <5>2. g[k - 1] = f[k - 1]
          BY <5>1, <2>3
        <5> QED BY <5>2 DEF SeenAt
      <4> QED BY <4>1, <4>2
    <3>2. CASE k < m
      <4>1. k \in 1..(m - 1)
        BY <3>2, <1>1
      <4>2. f[k] = SeenAt(es, va, size, f, k)
        BY <4>1, <2>2, Zenon DEF IsWalk
      <4> QED BY <3>1, <3>2, <4>2, <2>3
    <3>3. CASE k = m
      BY <3>1, <3>3, <2>3
    <3> QED BY <3>2, <3>3, <1>1
  <2>5. g = [k \in 1..m |-> g[k]]
    BY <2>3, Zenon
  <2>6. g = [k \in 1..m |-> SeenAt(es, va, size, g, k)]
    BY <2>4, <2>5
  <2> QED BY <2>6, <1>1 DEF IsWalk
<1> QED BY <1>1, <1>2, <1>3

LEMMA LookAtType ==
  ASSUME NEW es \in Seq(Entry), NEW size, NEW va \in 0..(Space - 1), NEW k \in 2..Len(es)
  PROVE  LookAt(es, size, va, k) \in Found
<1>1. k - 1 \in 1..Len(es) /\ Len(es) \in Nat
  BY SeqIs
<1>2. End(es[k - 1]) \in 0..(Space - 1)
  BY <1>1, SeqIs, EndType
<1>3. Fits(End(es[k - 1]), size, es[k - 1], es[k]) \in BOOLEAN
  BY DEF Fits
<1> QED BY <1>2, <1>3 DEF LookAt, Found

LEMMA WalkType ==
  ASSUME NEW es \in Seq(Entry), NEW va \in 0..(Space - 1), NEW size, NEW f,
         IsWalk(es, va, size, Len(es), f)
  PROVE  \A k \in 1..Len(es) : f[k] \in Found
<1> DEFINE S == {k \in 1..Len(es) : f[k] \notin Found}
<1> SUFFICES ASSUME S # {} PROVE FALSE
  OBVIOUS
<1>0. Len(es) \in Nat
  BY SeqIs
<1>1. PICK m \in S : \A y \in S : m <= y
  <2>1. S \subseteq Nat
    BY <1>0
  <2> QED BY <2>1, LowestIn
<1>2. f[m] = SeenAt(es, va, size, f, m)
  BY <1>1 DEF IsWalk
<1>3. CASE m = 1
  <2>1. f[m] = [va |-> va, room |-> FALSE]
    BY <1>2, <1>3 DEF SeenAt
  <2>2. f[m] \in Found
    BY <2>1 DEF Found
  <2> QED BY <1>1, <2>2
<1>4. CASE m # 1
  <2>1. m - 1 \in 1..Len(es) /\ m - 1 \notin S /\ m \in 2..Len(es)
    BY <1>0, <1>1, <1>4
  <2>2. f[m - 1] \in Found
    BY <2>1
  <2>3. f[m - 1].va \in 0..(Space - 1)
    BY <2>2 DEF Found
  <2>4. LookAt(es, size, f[m - 1].va, m) \in Found
    BY <2>1, <2>3, LookAtType
  <2> QED BY <1>1, <1>2, <1>4, <2>2, <2>4 DEF SeenAt
<1> QED BY <1>3, <1>4

LEMMA UpToIs ==
  ASSUME NEW n \in Nat
  PROVE  IsFiniteSet(1..n) /\ Cardinality(1..n) = n
<1>1. 1 \in Int /\ n \in Int
  OBVIOUS
<1>2. IsFiniteSet(1..n) /\ Cardinality(1..n) = IF 1 > n THEN 0 ELSE n - 1 + 1
  BY ONLY <1>1, FS_Interval, Zenon
<1>3. CASE n = 0
  BY <1>2, <1>3
<1>4. CASE n > 0
  BY <1>2, <1>4
<1> QED BY <1>3, <1>4

(* Place() is where its walk ends.                                         *)
LEMMA PlaceIs ==
  ASSUME NEW es \in Seq(Entry), NEW va, NEW size, es # << >>
  PROVE  \E f : /\ IsWalk(es, va, size, Len(es), f)
               /\ Place(es, va, size).va = f[Len(es)].va
               /\ Place(es, va, size).after =
                    Len(es) - Cardinality({k \in 1..Len(es) : f[k].room})
<1> DEFINE f == CHOOSE w : w = [k \in 1..Len(es) |-> SeenAt(es, va, size, w, k)]
           found == {k \in 1..Len(es) : f[k].room}
<1>0. Len(es) \in Nat
  BY SeqIs
<1>1. IsWalk(es, va, size, Len(es), f)
  <2>1. \E w : w = [k \in 1..Len(es) |-> SeenAt(es, va, size, w, k)]
    <3>1. PICK w : IsWalk(es, va, size, Len(es), w)
      BY <1>0, WalkExists
    <3> QED BY <3>1, Zenon DEF IsWalk
  <2> QED BY <2>1, Zenon DEF IsWalk
<1>2. Place(es, va, size) =
        IF es = <<>> THEN [va |-> va, after |-> 0]
        ELSE [va |-> f[Len(es)].va, after |-> Len(es) - Cardinality(found)]
  BY Zenon DEF Place, SeenAt
<1>3. /\ Place(es, va, size).va = f[Len(es)].va
      /\ Place(es, va, size).after = Len(es) - Cardinality({k \in 1..Len(es) : f[k].room})
  BY <1>2
<1> HIDE DEF f
<1> QED BY <1>1, <1>3

(* It chooses an address of the space and a place in the list.             *)
LEMMA PlaceType ==
  ASSUME NEW es \in Seq(Entry), NEW va \in 0..(Space - 1), NEW size
  PROVE  /\ Place(es, va, size).va \in 0..(Space - 1)
         /\ Place(es, va, size).after \in 0..Len(es)
<1>0. Len(es) \in Nat /\ (es = <<>> <=> Len(es) = 0)
  BY SeqIs
<1>1. CASE es = <<>>
  <2>1. Place(es, va, size) = [va |-> va, after |-> 0]
    BY <1>1 DEF Place
  <2> QED BY <1>0, <2>1
<1>2. CASE es # <<>>
  <2>1. PICK f : /\ IsWalk(es, va, size, Len(es), f)
                 /\ Place(es, va, size).va = f[Len(es)].va
                 /\ Place(es, va, size).after =
                      Len(es) - Cardinality({k \in 1..Len(es) : f[k].room})
    BY <1>2, PlaceIs
  <2>2. PICK found : found = {k \in 1..Len(es) : f[k].room}
    OBVIOUS
  <2>3. f[Len(es)].va \in 0..(Space - 1)
    <3>1. f[Len(es)] \in Found
      BY <1>0, <1>2, <2>1, WalkType
    <3> QED BY <3>1 DEF Found
  <2>4. Cardinality(found) \in 0..Len(es)
    <3>1. IsFiniteSet(1..Len(es)) /\ Cardinality(1..Len(es)) = Len(es)
      BY <1>0, UpToIs
    <3>2. found \subseteq 1..Len(es)
      BY <2>2
    <3>3. IsFiniteSet(found) /\ Cardinality(found) <= Len(es)
      BY <3>1, <3>2, FS_Subset
    <3>4. Cardinality(found) \in Nat
      BY <3>3, FS_CardinalityType
    <3> QED BY <3>3, <3>4, <1>0
  <2>5. Len(es) - Cardinality(found) \in 0..Len(es)
    BY <1>0, <2>4
  <2> QED BY <2>1, <2>2, <2>3, <2>5
<1> QED BY <1>1, <1>2

(* Insert() adds one entry to the list, made of the request and the node. *)
LEMMA InsertIn ==
  ASSUME NEW E, E \subseteq Entry, NEW es \in Seq(E), NEW node,
         NEW r \in [addr : 0..(Space - 1), length : Nat, file : Files \union {None},
                    off : Nat, shared : BOOLEAN, fixed : BOOLEAN, read : BOOLEAN],
         \A va \in 0..(Space - 1), size \in 0..(Space - 1) :
           [start |-> va, size |-> size, file |-> r.file, off |-> r.off,
            shared |-> r.shared, read |-> r.read, node |-> node] \in E
  PROVE  Insert(es, r, node) \in Seq(E)
<1> DEFINE va == IF r.addr = 0 THEN Base ELSE r.addr
<1>0. Len(es) \in Nat /\ es \in Seq(Entry) /\ \A i \in 1..Len(es) : es[i] \in E
  BY SeqIs, SeqMonotonic
<1>1. va \in 0..(Space - 1)
  BY Constants
<1>2. FrameUp(r.length) \in 0..(Space - 1)
  BY FrameUpType
<1>3. PICK p : p = Place(es, va, FrameUp(r.length))
  OBVIOUS
<1>4. p.va \in 0..(Space - 1) /\ p.after \in 0..Len(es)
  BY <1>0, <1>1, <1>3, PlaceType
<1>5. PICK e : e = [start |-> p.va, size |-> FrameUp(r.length), file |-> r.file,
            off |-> r.off, shared |-> r.shared, read |-> r.read, node |-> node]
  OBVIOUS
<1>6. e \in E
  BY <1>2, <1>4, <1>5
<1>7. Insert(es, r, node) = SubSeq(es, 1, p.after) \o <<e>> \o SubSeq(es, p.after + 1, Len(es))
  BY <1>3, <1>5, Zenon DEF Insert
<1>8. p.after \in Int /\ p.after + 1 \in Int /\ Len(es) \in Int
  BY <1>0, <1>4
<1>9. \A i \in 1..p.after : es[i] \in E
  BY <1>0, <1>4
<1>10. \A i \in (p.after + 1)..Len(es) : es[i] \in E
  BY <1>0, <1>4
<1>11. SubSeq(es, 1, p.after) \in Seq(E)
  BY <1>8, <1>9, SubSeqProperties
<1>12. SubSeq(es, p.after + 1, Len(es)) \in Seq(E)
  BY <1>8, <1>10, SubSeqProperties
<1>13. <<e>> \in Seq(E)
  BY <1>6
<1> QED BY <1>7, <1>11, <1>12, <1>13, ConcatProperties

LEMMA InsertType ==
  ASSUME NEW es \in Seq(Entry), NEW node \in NodeIds \union StaleIds \union {None, Junk},
         NEW r \in [addr : 0..(Space - 1), length : Nat, file : Files \union {None},
                    off : Nat, shared : BOOLEAN, fixed : BOOLEAN, read : BOOLEAN]
  PROVE  Insert(es, r, node) \in Seq(Entry)
<1>1. \A va \in 0..(Space - 1), size \in 0..(Space - 1) :
        [start |-> va, size |-> size, file |-> r.file, off |-> r.off,
         shared |-> r.shared, read |-> r.read, node |-> node] \in Entry
  BY DEF Entry
<1> QED BY <1>1, InsertIn

(* A pointer left over is no node that a fault has set.                    *)
LEMMA StaleApart ==
  /\ StaleIds \intersect NodeIds = {} /\ None \notin StaleIds /\ Junk \notin StaleIds
  /\ \A k \in NodeIds : -k \in StaleIds
  /\ \A j \in StaleIds : -j \in NodeIds
<1>1. NodeIds \subseteq Nat \ {0} /\ None \notin Int /\ Junk \notin Int
  BY Constants, VMMAssumption DEF NodeIds
<1>2. \A k \in NodeIds : k > 0 /\ -k < 0 /\ -(-k) = k /\ -k \in Int
  BY <1>1
<1>3. \A k \in NodeIds : -k \in StaleIds
  BY DEF StaleIds
<1>4. \A j \in StaleIds : j < 0 /\ j \in Int /\ -j \in NodeIds
  BY <1>2 DEF StaleIds
<1>5. StaleIds \intersect NodeIds = {}
  BY <1>1, <1>2, <1>4
<1> QED BY <1>1, <1>3, <1>4, <1>5

LEMMA PointeeType ==
  ASSUME NEW e \in Entry
  PROVE  /\ Pointee(e) \in NodeIds \union {None, Junk}
         /\ e.node \notin StaleIds => Pointee(e) = e.node
<1>1. e.node \in NodeIds \union StaleIds \union {None, Junk}
  BY DEF Entry
<1>2. CASE e.node \in StaleIds
  BY <1>2, StaleApart DEF Pointee
<1>3. CASE e.node \notin StaleIds
  BY <1>1, <1>3 DEF Pointee
<1> QED BY <1>2, <1>3

LEMMA LeftoversType ==
  ASSUME TypeOK
  PROVE  Leftovers \subseteq StaleIds \union {None, Junk}
BY StaleApart, VMMAssumption DEF TypeOK, Leftovers

-----------------------------------------------------------------------------
(* SpaceInv.                                                               *)
ProcInv(p) == CallInv(p) /\ FaultInv(p) /\ TableInv(p)

(* Process q is left alone.                                                *)
Same(q) ==
  /\ status'[q] = status[q] /\ pc'[q] = pc[q]
  /\ pd'[q] = pd[q] /\ table'[q] = table[q] /\ page'[q] = page[q]
  /\ entries'[q] = entries[q] /\ call'[q] = call[q]

LEMMA SameInv ==
  ASSUME NEW q \in Procs, ProcInv(q), Same(q), DOMAIN nodes \subseteq DOMAIN nodes'
  PROVE  ProcInv(q)'
<1>1. CallInv(q)'
  BY DEF ProcInv, Same, CallInv, NoCall
<1>2. FaultInv(q)'
  <2>1. FaultEntry(q, call[q].va)' = FaultEntry(q, call[q].va)
    BY DEF Same, FaultEntry
  <2> QED BY <2>1 DEF ProcInv, Same, FaultInv, FromList
<1>3. TableInv(q)'
  BY DEF ProcInv, Same, TableInv
<1> QED BY <1>1, <1>2, <1>3 DEF ProcInv

(* A step of p, which may be about c too.                                  *)
LEMMA Assemble ==
  ASSUME SpaceInv, NEW p \in Procs, NEW c \in Procs,
         \A q \in Procs \ {p, c} : Same(q),
         DOMAIN nodes \subseteq DOMAIN nodes', Len(nodes') <= MaxNodes,
         TypeOK', ForkInv', ProcInv(p)', ProcInv(c)'
  PROVE  SpaceInv'
<1>1. \A q \in Procs : ProcInv(q)'
  <2> TAKE q \in Procs
  <2>1. ProcInv(q)
    BY DEF SpaceInv, ProcInv
  <2>2. CASE q \in {p, c}
    BY <2>2
  <2>3. CASE q \notin {p, c}
    <3>1. Same(q)
      BY <2>3
    <3> QED BY <2>1, <3>1, SameInv
  <2> QED BY <2>2, <2>3
<1> QED BY <1>1 DEF SpaceInv, ProcInv

LEMMA ForkSame ==
  ASSUME ForkInv,
         \A q \in Procs : pc'[q] = "fork" => pc[q] = "fork" /\ call'[q].child = call[q].child,
         \A c \in Procs : status[c] = "young" => status'[c] = "young"
  PROVE  ForkInv'
BY DEF ForkInv

LEMMA NodesIs ==
  ASSUME SpaceInv
  PROVE  /\ Len(nodes) \in Nat /\ DOMAIN nodes = 1..Len(nodes) /\ DOMAIN nodes \subseteq NodeIds
         /\ \A k \in DOMAIN nodes : nodes[k] \in [file : Files, pa : Frames, num : 0..(NumMod - 1)]
         /\ Len(nodeList) \in Nat /\ DOMAIN nodeList = 1..Len(nodeList)
         /\ \A i \in DOMAIN nodeList : nodeList[i] \in DOMAIN nodes
<1>1. Len(nodes) \in Nat /\ DOMAIN nodes = 1..Len(nodes) /\ Len(nodes) <= MaxNodes
  BY SeqIs DEF SpaceInv, TypeOK
<1>2. DOMAIN nodes \subseteq NodeIds
  BY <1>1, Constants DEF NodeIds
<1>3. nodes \in Seq([file : Files, pa : Frames, num : 0..(NumMod - 1)]) /\ nodeList \in Seq(DOMAIN nodes)
  BY DEF SpaceInv, TypeOK
<1>4. \A k \in DOMAIN nodes : nodes[k] \in [file : Files, pa : Frames, num : 0..(NumMod - 1)]
  BY <1>1, <1>3, SeqIs
<1>5. Len(nodeList) \in Nat /\ DOMAIN nodeList = 1..Len(nodeList)
         /\ \A i \in DOMAIN nodeList : nodeList[i] \in DOMAIN nodes
  BY <1>3, SeqIs
<1> QED BY <1>1, <1>2, <1>4, <1>5

LEMMA ListedIs ==
  ASSUME SpaceInv, NEW f, Listed(f) # 0
  PROVE  /\ Listed(f) \in DOMAIN nodeList /\ nodeList[Listed(f)] \in DOMAIN nodes
         /\ nodes[nodeList[Listed(f)]].file = f
<1> DEFINE hits == {i \in DOMAIN nodeList : nodes[nodeList[i]].file = f}
<1>1. hits \subseteq Nat /\ hits # {} /\ Listed(f) = Lowest(hits)
  BY NodesIs DEF Listed
<1>2. Listed(f) \in hits
  BY <1>1, LowestIn
<1> QED BY <1>2, NodesIs

LEMMA AllocType ==
  ASSUME TypeOK, NEW x, x \in {Zeroes, FreeLink} \union (Files \X Nat), Alloc(x)
  PROVE  /\ Head(supply) \in Frames /\ Head(supply) # None
         /\ supply' \in Seq(Frames)
         /\ shows' \in [Frames -> {Zeroes, FreeLink} \union (Files \X Nat)]
<1>1. Head(supply) \in Frames /\ supply' \in Seq(Frames)
  BY HeadTailIs DEF TypeOK, Alloc
<1>2. Head(supply) # None
  BY <1>1, Constants
<1>3. shows' \in [Frames -> {Zeroes, FreeLink} \union (Files \X Nat)]
  BY <1>1 DEF TypeOK, Alloc
<1> QED BY <1>1, <1>2, <1>3

LEMMA DeallocType ==
  ASSUME TypeOK, NEW f \in Frames, Dealloc(f)
  PROVE  /\ supply' \in Seq(Frames)
         /\ shows' \in [Frames -> {Zeroes, FreeLink} \union (Files \X Nat)]
<1>1. supply' \in Seq(Frames)
  BY ConsIs DEF TypeOK, Dealloc
<1>3. shows' \in [Frames -> {Zeroes, FreeLink} \union (Files \X Nat)]
  BY DEF TypeOK, Dealloc
<1> QED BY <1>1, <1>3

LEMMA NoCallType == NoCall \in Call
BY Constants DEF NoCall, Call, FrameOrNone

LEMMA GotoIs ==
  ASSUME TypeOK, NEW p \in Procs, NEW l \in Points, Goto(p, l)
  PROVE  /\ pc' \in [Procs -> Points] /\ pc'[p] = l
         /\ \A q \in Procs \ {p} : pc'[q] = pc[q]
BY DEF TypeOK, Goto

LEMMA ReturnIs ==
  ASSUME TypeOK, NEW p \in Procs, Return(p)
  PROVE  /\ pc' \in [Procs -> Points] /\ pc'[p] = "user"
         /\ call' \in [Procs -> Call] /\ call'[p] = NoCall
         /\ \A q \in Procs \ {p} : pc'[q] = pc[q] /\ call'[q] = call[q]
<1>1. Goto(p, "user") /\ "user" \in Points
  BY DEF Return, Points
<1>2. /\ pc' \in [Procs -> Points] /\ pc'[p] = "user"
      /\ \A q \in Procs \ {p} : pc'[q] = pc[q]
  BY <1>1, GotoIs
<1>3. /\ call' \in [Procs -> Call] /\ call'[p] = NoCall
      /\ \A q \in Procs \ {p} : call'[q] = call[q]
  BY NoCallType DEF TypeOK, Return
<1> QED BY <1>2, <1>3

LEMMA AtIs ==
  ASSUME SpaceInv, NEW p \in Procs, NEW l, At(p, l)
  PROVE  /\ status[p] = "live" /\ pc[p] = l
         /\ TypeOK /\ ForkInv /\ CallInv(p) /\ FaultInv(p) /\ TableInv(p) /\ ProcInv(p)
         /\ pd[p] # None
BY DEF SpaceInv, At, CallInv, ProcInv

LEMMA DieInv ==
  ASSUME SpaceInv, NEW p \in Procs, status[p] = "live", Die(p), UNCHANGED spaceVars,
         Len(nodes') <= MaxNodes, DOMAIN nodes \subseteq DOMAIN nodes',
         supply' = supply, shows' = shows, halt' \in {"no", "panic", "wild"},
         nodes' \in Seq([file : Files, pa : Frames, num : 0..(NumMod - 1)]),
         nodeList' \in Seq(DOMAIN nodes'), freed' \subseteq NodeIds
  PROVE  SpaceInv'
<1>0. TypeOK /\ ForkInv /\ ProcInv(p)
  BY DEF SpaceInv, ProcInv
<1>1. /\ pc' \in [Procs -> Points] /\ pc'[p] = "user"
      /\ call' \in [Procs -> Call] /\ call'[p] = NoCall
      /\ \A q \in Procs \ {p} : pc'[q] = pc[q] /\ call'[q] = call[q]
  BY <1>0, ReturnIs DEF Die
<1>2. /\ status' \in [Procs -> {"unborn", "young", "live", "exited", "gone"}]
      /\ status'[p] = "exited" /\ \A q \in Procs \ {p} : status'[q] = status[q]
  BY <1>0 DEF TypeOK, Die
<1>3. /\ entries' \in [Procs -> Seq(Entry)]
      /\ \A q \in Procs \ {p} : entries'[q] = entries[q]
  BY <1>0 DEF TypeOK, Die
<1>4. pd' = pd /\ table' = table /\ page' = page
  BY DEF spaceVars
<1>5. TypeOK'
  BY <1>0, <1>1, <1>2, <1>3, <1>4 DEF TypeOK
<1>6. \A q \in Procs \ {p} : Same(q)
  BY <1>1, <1>2, <1>3, <1>4 DEF Same
<1>7. ForkInv'
  <2>1. \A q \in Procs : pc'[q] = "fork" => pc[q] = "fork" /\ call'[q].child = call[q].child
    BY <1>1
  <2>2. \A c \in Procs : status[c] = "young" => status'[c] = "young"
    BY <1>2
  <2> QED BY <1>0, <2>1, <2>2, ForkSame
<1>8. ProcInv(p)'
  <2>1. CallInv(p)'
    BY <1>0, <1>1, <1>2, <1>4 DEF ProcInv, CallInv, NoCall
  <2>2. FaultInv(p)'
    BY <1>1 DEF FaultInv, NoCall, Faulting
  <2>3. TableInv(p)'
    BY <1>0, <1>2, <1>4 DEF ProcInv, TableInv
  <2> QED BY <2>1, <2>2, <2>3 DEF ProcInv
<1> QED BY <1>5, <1>6, <1>7, <1>8, Assemble

LEMMA MmapInv ==
  ASSUME SpaceInv, NEW p \in Procs, NEW r \in Requests, Mmap(p, r)
  PROVE  SpaceInv'
<1>0. At(p, "user")
  BY DEF Mmap
<1>1. status[p] = "live" /\ pc[p] = "user" /\ TypeOK /\ ForkInv /\ ProcInv(p)
  BY <1>0, AtIs
<1>2. PICK node \in Leftovers : entries' = [entries EXCEPT ![p] = Insert(@, r, node)]
  BY DEF Mmap
<1>3. /\ supply' = supply /\ status' = status /\ pc' = pc /\ pd' = pd /\ table' = table
      /\ page' = page /\ call' = call /\ nodes' = nodes /\ nodeList' = nodeList /\ freed' = freed
      /\ shows' = shows /\ halt' = halt
  BY DEF Mmap, spaceVars, nodeVars
<1>4. entries' \in [Procs -> Seq(Entry)] /\ \A q \in Procs \ {p} : entries'[q] = entries[q]
  <2>1. node \in NodeIds \union StaleIds \union {None, Junk}
    BY <1>1, LeftoversType
  <2>2. r \in [addr : 0..(Space - 1), length : Nat, file : Files \union {None},
                    off : Nat, shared : BOOLEAN, fixed : BOOLEAN, read : BOOLEAN]
    BY VMMAssumption
  <2>3. Insert(entries[p], r, node) \in Seq(Entry)
    BY <1>1, <2>1, <2>2, InsertType DEF TypeOK
  <2> QED BY <1>1, <1>2, <2>3 DEF TypeOK
<1>5. TypeOK'
  BY <1>1, <1>3, <1>4 DEF TypeOK
<1>6. \A q \in Procs \ {p} : Same(q)
  BY <1>3, <1>4 DEF Same
<1>7. ForkInv'
  BY <1>1, <1>3 DEF ForkInv
<1>8. ProcInv(p)'
  <2>1. CallInv(p)'
    BY <1>1, <1>3 DEF ProcInv, CallInv, NoCall
  <2>2. FaultInv(p)'
    BY <1>1, <1>3 DEF ProcInv, FaultInv, Faulting
  <2>3. TableInv(p)'
    BY <1>1, <1>3 DEF ProcInv, TableInv
  <2> QED BY <2>1, <2>2, <2>3 DEF ProcInv
<1>9. Len(nodes') <= MaxNodes /\ DOMAIN nodes \subseteq DOMAIN nodes'
  BY <1>3 DEF SpaceInv
<1> QED BY <1>5, <1>6, <1>7, <1>8, <1>9, Assemble

LEMMA FaultFatalInv ==
  ASSUME SpaceInv, NEW p \in Procs, FaultFatal(p)
  PROVE  SpaceInv'
<1>0. At(p, "user")
  BY DEF FaultFatal
<1>1. status[p] = "live" /\ TypeOK /\ Len(nodes) <= MaxNodes
  BY <1>0, AtIs DEF SpaceInv
<1>2. /\ supply' = supply /\ UNCHANGED spaceVars /\ Die(p) /\ nodes' = nodes /\ nodeList' = nodeList /\ freed' = freed
      /\ shows' = shows /\ halt' = halt
  BY DEF FaultFatal, nodeVars
<1> QED BY <1>1, <1>2, DieInv DEF TypeOK

LEMMA KillInv ==
  ASSUME SpaceInv, NEW p \in Procs, Kill(p)
  PROVE  SpaceInv'
<1>0. PICK l : At(p, l)
  BY DEF Kill
<1>1. status[p] = "live" /\ TypeOK /\ Len(nodes) <= MaxNodes
  BY <1>0, AtIs DEF SpaceInv
<1>2. /\ supply' = supply /\ UNCHANGED spaceVars /\ Die(p) /\ nodes' = nodes /\ nodeList' = nodeList /\ freed' = freed
      /\ shows' = shows /\ halt' = halt
  BY DEF Kill, nodeVars
<1> QED BY <1>1, <1>2, DieInv DEF TypeOK

LEMMA FaultMissInv ==
  ASSUME SpaceInv, NEW p \in Procs, NEW v \in Touches, FaultMiss(p, v)
  PROVE  SpaceInv'
<1> DEFINE va == v * FrameSize
           e == FaultEntry(p, va)
           tail == IF FromList(e) /\ nodeList # << >> THEN Last(nodeList) ELSE None
<1>0. At(p, "user") /\ page[p][v] = None /\ Find(entries[p], va) # 0 /\ Goto(p, "alloc")
      /\ call' = [call EXCEPT ![p].va = va, ![p].tail = tail]
  BY DEF FaultMiss
<1>1. status[p] = "live" /\ pc[p] = "user" /\ TypeOK /\ ForkInv /\ ProcInv(p) /\ pd[p] # None
      /\ call[p] = NoCall
  BY <1>0, AtIs DEF CallInv
<1>2. /\ supply' = supply /\ status' = status /\ pd' = pd /\ table' = table
      /\ page' = page /\ entries' = entries /\ nodes' = nodes /\ nodeList' = nodeList /\ freed' = freed
      /\ shows' = shows /\ halt' = halt
  BY DEF FaultMiss, spaceVars, nodeVars
<1>3. va \in Nat
  BY VpnOf, Constants
<1>4. tail \in NodeIds \union {None}
  <2>1. nodeList # <<>> => Last(nodeList) \in DOMAIN nodes
    <3>1. nodeList \in Seq(DOMAIN nodes)
      BY <1>1 DEF TypeOK
    <3> QED BY <3>1, SeqIs DEF Last
  <2> QED BY <2>1, NodesIs
<1> HIDE DEF va, tail, e
<1>5. /\ call' \in [Procs -> Call] /\ call'[p].va = va /\ call'[p].frame = None
      /\ \A q \in Procs \ {p} : call'[q] = call[q]
  <2>1. call'[p] = [NoCall EXCEPT !.va = va, !.tail = tail]
    BY <1>0, <1>1 DEF TypeOK
  <2>2. call'[p] \in Call /\ call'[p].va = va /\ call'[p].frame = None
    BY <2>1, <1>3, <1>4, NoCallType DEF NoCall, Call
  <2> QED BY <1>0, <1>1, <2>2 DEF TypeOK
<1>6. /\ pc' \in [Procs -> Points] /\ pc'[p] = "alloc" /\ \A q \in Procs \ {p} : pc'[q] = pc[q]
  BY <1>0, <1>1, GotoIs DEF Points
<1>7. TypeOK'
  BY <1>1, <1>2, <1>5, <1>6 DEF TypeOK
<1>8. \A q \in Procs \ {p} : Same(q)
  BY <1>2, <1>5, <1>6 DEF Same
<1>9. ForkInv'
  <2>1. \A q \in Procs : pc'[q] = "fork" => pc[q] = "fork" /\ call'[q].child = call[q].child
    BY <1>5, <1>6
  <2> QED BY <1>1, <1>2, <2>1, ForkSame
<1>10. ProcInv(p)'
  <2>1. CallInv(p)'
    BY <1>1, <1>2, <1>6 DEF CallInv, ProcInv
  <2>2. FaultInv(p)'
    BY <1>0, <1>2, <1>5, <1>6 DEF FaultInv, Faulting, va
  <2>3. TableInv(p)'
    BY <1>1, <1>2 DEF ProcInv, TableInv
  <2> QED BY <2>1, <2>2, <2>3 DEF ProcInv
<1>11. Len(nodes') <= MaxNodes /\ DOMAIN nodes \subseteq DOMAIN nodes'
  BY <1>2 DEF SpaceInv
<1> QED BY <1>7, <1>8, <1>9, <1>10, <1>11, Assemble

(* The node of an entry, and the count of a node, are changed.             *)
LEMMA NodeSet ==
  ASSUME TypeOK, NEW p \in Procs, NEW i \in 1..Len(entries[p]), NEW k \in NodeIds,
         entries' = [entries EXCEPT ![p][i].node = k]
  PROVE  entries' \in [Procs -> Seq(Entry)] /\ \A q \in Procs \ {p} : entries'[q] = entries[q]
<1>1. entries[p] \in Seq(Entry)
  BY DEF TypeOK
<1>2. entries[p][i] \in Entry
  BY <1>1, SeqIs
<1>3. PICK e : e = [entries[p][i] EXCEPT !.node = k]
  OBVIOUS
<1>4. e \in Entry
  BY <1>2, <1>3 DEF Entry
<1>5. PICK es : es = [entries[p] EXCEPT ![i] = e]
  OBVIOUS
<1>6. es \in Seq(Entry)
  BY <1>1, <1>4, <1>5, ExceptSeq
<1>7. entries' = [entries EXCEPT ![p] = es]
  BY <1>3, <1>5
<1> QED BY <1>6, <1>7 DEF TypeOK

LEMMA FunIsSeq ==
  ASSUME NEW S, NEW n \in Nat, NEW s \in [1..n -> S]
  PROVE  s \in Seq(S) /\ Len(s) = n
<1>1. s \in Seq(S)
  BY SeqDef
<1>2. Len(s) \in Nat /\ 1..n = 1..Len(s)
  BY <1>1, LenProperties
<1>3. CASE n < Len(s)
  <2>1. Len(s) \in 1..Len(s) /\ Len(s) \notin 1..n
    BY <1>2, <1>3
  <2> QED BY <1>2, <2>1
<1>4. CASE Len(s) < n
  <2>1. n \in 1..n /\ n \notin 1..Len(s)
    BY <1>2, <1>4
  <2> QED BY <1>2, <2>1
<1> QED BY <1>1, <1>2, <1>3, <1>4

LEMMA NumSet ==
  ASSUME SpaceInv, NEW k, NEW m \in 0..(NumMod - 1),
         nodes' = [nodes EXCEPT ![k].num = m]
  PROVE  /\ nodes' \in Seq([file : Files, pa : Frames, num : 0..(NumMod - 1)])
         /\ DOMAIN nodes' = DOMAIN nodes /\ Len(nodes') = Len(nodes)
<1> DEFINE N == [file : Files, pa : Frames, num : 0..(NumMod - 1)]
<1>1. DOMAIN nodes = 1..Len(nodes) /\ Len(nodes) \in Nat
  BY NodesIs
<1>2. DOMAIN nodes' = DOMAIN nodes
  OBVIOUS
<1>3. \A j \in DOMAIN nodes : nodes'[j] \in N
  <2> TAKE j \in DOMAIN nodes
  <2>1. nodes[j] \in N
    BY NodesIs
  <2>2. CASE j # k
    BY <2>1, <2>2
  <2>3. CASE j = k
    <3>3. nodes'[j] = [nodes[j] EXCEPT !.num = m]
      BY <2>3
    <3> QED BY <2>1, <3>3
  <2> QED BY <2>2, <2>3
<1>4. nodes' \in [1..Len(nodes) -> N]
  <2>1. nodes \in [1..Len(nodes) -> N]
    BY LenProperties DEF SpaceInv, TypeOK
  <2>2. PICK x : x = nodes'
    OBVIOUS
  <2>3. x = [nodes EXCEPT ![k].num = m] /\ DOMAIN x = 1..Len(nodes)
        /\ \A j \in 1..Len(nodes) : x[j] \in N
    BY <2>2, <1>1, <1>2, <1>3
  <2>4. x \in [1..Len(nodes) -> N]
    BY <2>1, <2>3
  <2> QED BY <2>2, <2>4
<1>5. nodes' \in Seq(N) /\ Len(nodes') = Len(nodes)
  <2>1. PICK x, n : x = nodes' /\ n = Len(nodes)
    OBVIOUS
  <2>2. n \in Nat /\ x \in [1..n -> N]
    BY <1>1, <1>4, <2>1
  <2>3. x \in Seq(N) /\ Len(x) = n
    BY <2>2, FunIsSeq
  <2> QED BY <2>1, <2>3
<1> QED BY <1>2, <1>5

LEMMA FaultHitInv ==
  ASSUME SpaceInv, NEW p \in Procs, NEW v \in Touches, FaultHit(p, v)
  PROVE  SpaceInv'
<1> DEFINE va == v * FrameSize
           i == Find(entries[p], va)
           k == nodeList[Listed(entries[p][i].file)]
<1>0. At(p, "user") /\ page[p][v] = None /\ i # 0 /\ Listed(entries[p][i].file) # 0
      /\ Goto(p, "map") /\ entries' = [entries EXCEPT ![p][i].node = k]
      /\ nodes' = [nodes EXCEPT ![k].num = (@ + 1) % NumMod]
      /\ call' = [call EXCEPT ![p].va = va, ![p].frame = nodes[k].pa]
  BY DEF FaultHit
<1>1. status[p] = "live" /\ pc[p] = "user" /\ TypeOK /\ ForkInv /\ ProcInv(p) /\ pd[p] # None
      /\ call[p] = NoCall
  BY <1>0, AtIs DEF CallInv
<1>2. /\ supply' = supply /\ status' = status /\ pd' = pd /\ table' = table
      /\ page' = page /\ nodeList' = nodeList /\ freed' = freed
      /\ shows' = shows /\ halt' = halt
  BY DEF FaultHit, spaceVars
<1>3. va \in Nat
  BY VpnOf, Constants
<1>4. k \in DOMAIN nodes /\ k \in NodeIds /\ nodes[k].pa \in Frames /\ nodes[k].pa # None
  <2>1. k \in DOMAIN nodes
    BY <1>0, ListedIs
  <2>2. k \in NodeIds /\ nodes[k].pa \in Frames
    BY <2>1, NodesIs
  <2> QED BY <2>1, <2>2, Constants
<1>5. i \in 1..Len(entries[p])
  BY <1>0, <1>1, FindIs DEF TypeOK
<1> HIDE DEF va, i, k
<1>6. entries' \in [Procs -> Seq(Entry)] /\ \A q \in Procs \ {p} : entries'[q] = entries[q]
  BY <1>0, <1>1, <1>4, <1>5, NodeSet
<1>7. /\ nodes' \in Seq([file : Files, pa : Frames, num : 0..(NumMod - 1)])
      /\ DOMAIN nodes' = DOMAIN nodes /\ Len(nodes') = Len(nodes)
  <2>1. PICK m : m = (nodes[k].num + 1) % NumMod
    OBVIOUS
  <2>2. nodes[k].num \in Nat
    BY <1>4, NodesIs
  <2>3. m \in 0..(NumMod - 1)
    BY <2>1, <2>2, Constants
  <2>4. nodes' = [nodes EXCEPT ![k].num = m]
    BY <1>0, <2>1
  <2> QED BY <2>3, <2>4, NumSet
<1>8. /\ call' \in [Procs -> Call] /\ call'[p].va = va /\ call'[p].frame # None
      /\ \A q \in Procs \ {p} : call'[q] = call[q]
  <2>1. call'[p] = [NoCall EXCEPT !.va = va, !.frame = nodes[k].pa]
    BY <1>0, <1>1 DEF TypeOK
  <2>2. call'[p] \in Call /\ call'[p].va = va /\ call'[p].frame = nodes[k].pa
    BY <2>1, <1>3, <1>4, NoCallType DEF NoCall, Call, FrameOrNone
  <2> QED BY <1>0, <1>1, <1>4, <2>2 DEF TypeOK
<1>9. /\ pc' \in [Procs -> Points] /\ pc'[p] = "map" /\ \A q \in Procs \ {p} : pc'[q] = pc[q]
  BY <1>0, <1>1, GotoIs DEF Points
<1>10. TypeOK'
  BY <1>1, <1>2, <1>6, <1>7, <1>8, <1>9 DEF TypeOK
<1>11. \A q \in Procs \ {p} : Same(q)
  BY <1>2, <1>6, <1>8, <1>9 DEF Same
<1>12. ForkInv'
  <2>1. \A q \in Procs : pc'[q] = "fork" => pc[q] = "fork" /\ call'[q].child = call[q].child
    BY <1>8, <1>9
  <2> QED BY <1>1, <1>2, <2>1, ForkSame
<1>13. ProcInv(p)'
  <2>1. CallInv(p)'
    BY <1>1, <1>2, <1>9 DEF CallInv, ProcInv
  <2>2. FaultInv(p)'
    BY <1>0, <1>2, <1>8, <1>9 DEF FaultInv, Faulting, va
  <2>3. TableInv(p)'
    BY <1>1, <1>2 DEF ProcInv, TableInv
  <2> QED BY <2>1, <2>2, <2>3 DEF ProcInv
<1>14. Len(nodes') <= MaxNodes /\ DOMAIN nodes \subseteq DOMAIN nodes'
  BY <1>7 DEF SpaceInv
<1> QED BY <1>10, <1>11, <1>12, <1>13, <1>14, Assemble

LEMMA FaultAllocInv ==
  ASSUME SpaceInv, NEW p \in Procs, FaultAlloc(p)
  PROVE  SpaceInv'
<1> DEFINE e == FaultEntry(p, call[p].va)
           N == [file : Files, pa : Frames, num : 0..(NumMod - 1)]
<1>0. At(p, "alloc") /\ Alloc(Zeroes)
  BY DEF FaultAlloc
<1>1. status[p] = "live" /\ pc[p] = "alloc" /\ TypeOK /\ ForkInv /\ ProcInv(p) /\ pd[p] # None
  BY <1>0, AtIs
<1>2. /\ status' = status /\ pd' = pd /\ table' = table /\ page' = page
      /\ entries' = entries /\ nodeList' = nodeList /\ freed' = freed /\ halt' = halt
  BY DEF FaultAlloc, spaceVars
<1>3. /\ Head(supply) \in Frames /\ Head(supply) # None /\ supply' \in Seq(Frames)
      /\ shows' \in [Frames -> {Zeroes, FreeLink} \union (Files \X Nat)]
  BY <1>0, <1>1, AllocType
<1>4. Find(entries[p], call[p].va) # 0 /\ e \in Entry
      /\ \E v \in Touches : call[p].va = v * FrameSize /\ page[p][v] = None
  BY <1>1, FindIs DEF ProcInv, FaultInv, Faulting, FaultEntry, TypeOK
<1>5. Len(nodes) \in Nat /\ DOMAIN nodes = 1..Len(nodes) /\ nodes \in Seq(N)
      /\ Len(nodes) <= MaxNodes /\ nodeList \in Seq(DOMAIN nodes)
  BY NodesIs DEF SpaceInv, TypeOK
<1>6. call[p] \in Call /\ call \in [Procs -> Call]
  BY <1>1 DEF TypeOK
<1>7. CASE FromList(e)
  <2>1. /\ Len(nodes) < MaxNodes
        /\ nodes' = Append(nodes, [file |-> e.file, pa |-> Head(supply), num |-> 1])
        /\ call' = [call EXCEPT ![p].frame = Head(supply), ![p].node = Len(nodes) + 1]
        /\ Goto(p, "link")
    BY <1>7 DEF FaultAlloc
  <2>2. [file |-> e.file, pa |-> Head(supply), num |-> 1] \in N
    <3>1. e.file \in Files
      BY <1>4, <1>7 DEF FromList, Entry
    <3> QED BY <3>1, <1>3, Constants
  <2>3. nodes' \in Seq(N) /\ Len(nodes') = Len(nodes) + 1 /\ DOMAIN nodes' = 1..(Len(nodes) + 1)
    BY <2>1, <2>2, <1>5, AppendProperties
  <2>4. nodeList' \in Seq(DOMAIN nodes')
    <3>1. DOMAIN nodes \subseteq DOMAIN nodes'
      BY <2>3, <1>5
    <3> QED BY <1>2, <1>5, <3>1, SeqMonotonic
  <2>5. Len(nodes) + 1 \in NodeIds
    BY <2>1, <1>5, Constants DEF NodeIds
  <2>6. call'[p] = [call[p] EXCEPT !.frame = Head(supply), !.node = Len(nodes) + 1]
        /\ \A q \in Procs \ {p} : call'[q] = call[q]
    BY <2>1, <1>6
  <2>7. /\ call'[p] \in Call /\ call'[p].frame # None /\ call'[p].node = Len(nodes) + 1
        /\ call'[p].va = call[p].va
    BY <2>5, <2>6, <1>3, <1>6 DEF Call, FrameOrNone
  <2>8. call' \in [Procs -> Call]
    BY <2>1, <2>7, <1>6
  <2>9. /\ pc' \in [Procs -> Points] /\ pc'[p] = "link" /\ \A q \in Procs \ {p} : pc'[q] = pc[q]
    BY <1>1, <2>1, GotoIs DEF Points
  <2>10. TypeOK'
    BY <1>1, <1>2, <1>3, <2>3, <2>4, <2>8, <2>9 DEF TypeOK
  <2>11. \A q \in Procs \ {p} : Same(q)
    BY <1>2, <2>6, <2>9 DEF Same
  <2>12. ForkInv'
    <3>1. \A q \in Procs : pc'[q] = "fork" => pc[q] = "fork" /\ call'[q].child = call[q].child
      BY <2>6, <2>9
    <3> QED BY <1>1, <1>2, <3>1, ForkSame
  <2>13. ProcInv(p)'
    <3>1. CallInv(p)'
      BY <1>1, <1>2, <2>9 DEF CallInv, ProcInv
    <3>2. FaultInv(p)'
      <4>1. FaultEntry(p, call[p].va)' = e
        BY <1>2, <2>7 DEF FaultEntry
      <4>2. FromList(FaultEntry(p, call[p].va)')
        BY <1>7, <4>1
      <4> QED BY <1>2, <1>4, <2>3, <1>5, <2>7, <2>9, <4>2 DEF FaultInv, Faulting, FromList
    <3>3. TableInv(p)'
      BY <1>1, <1>2 DEF ProcInv, TableInv
    <3> QED BY <3>1, <3>2, <3>3 DEF ProcInv
  <2>14. Len(nodes') <= MaxNodes /\ DOMAIN nodes \subseteq DOMAIN nodes'
    BY <2>1, <2>3, <1>5, Constants
  <2> QED BY <2>10, <2>11, <2>12, <2>13, <2>14, Assemble
<1>8. CASE ~FromList(e)
  <2>1. nodes' = nodes /\ call' = [call EXCEPT ![p].frame = Head(supply)] /\ Goto(p, "map")
    BY <1>8 DEF FaultAlloc
  <2>2. call'[p] = [call[p] EXCEPT !.frame = Head(supply)]
        /\ \A q \in Procs \ {p} : call'[q] = call[q]
    BY <2>1, <1>6
  <2>3. call'[p] \in Call /\ call'[p].frame # None /\ call'[p].va = call[p].va
    BY <2>2, <1>3, <1>6 DEF Call, FrameOrNone
  <2>4. call' \in [Procs -> Call]
    BY <2>1, <2>3, <1>6
  <2>5. /\ pc' \in [Procs -> Points] /\ pc'[p] = "map" /\ \A q \in Procs \ {p} : pc'[q] = pc[q]
    BY <1>1, <2>1, GotoIs DEF Points
  <2>6. TypeOK'
    BY <1>1, <1>2, <1>3, <2>1, <2>4, <2>5 DEF TypeOK
  <2>7. \A q \in Procs \ {p} : Same(q)
    BY <1>2, <2>2, <2>5 DEF Same
  <2>8. ForkInv'
    <3>1. \A q \in Procs : pc'[q] = "fork" => pc[q] = "fork" /\ call'[q].child = call[q].child
      BY <2>2, <2>5
    <3> QED BY <1>1, <1>2, <3>1, ForkSame
  <2>9. ProcInv(p)'
    <3>1. CallInv(p)'
      BY <1>1, <1>2, <2>5 DEF CallInv, ProcInv
    <3>2. FaultInv(p)'
      BY <1>2, <1>4, <2>3, <2>5 DEF FaultInv, Faulting
    <3>3. TableInv(p)'
      BY <1>1, <1>2 DEF ProcInv, TableInv
    <3> QED BY <3>1, <3>2, <3>3 DEF ProcInv
  <2>10. Len(nodes') <= MaxNodes /\ DOMAIN nodes \subseteq DOMAIN nodes'
    BY <2>1, <1>5
  <2> QED BY <2>6, <2>7, <2>8, <2>9, <2>10, Assemble
<1> QED BY <1>7, <1>8

LEMMA LinkNodeInv ==
  ASSUME SpaceInv, NEW p \in Procs, LinkNode(p)
  PROVE  SpaceInv'
<1> DEFINE i == {j \in DOMAIN nodeList : nodeList[j] = call[p].tail}
           new == <<call[p].node>>
<1>0. /\ At(p, "link") /\ Goto(p, "read")
      /\ nodeList' = IF call[p].tail = None THEN new
                     ELSE IF i = {} THEN nodeList
                     ELSE SubSeq(nodeList, 1, Lowest(i)) \o new
  BY DEF LinkNode
<1>1. status[p] = "live" /\ pc[p] = "link" /\ TypeOK /\ ForkInv /\ ProcInv(p) /\ pd[p] # None
  BY <1>0, AtIs
<1>2. /\ supply' = supply /\ status' = status /\ pd' = pd /\ table' = table
      /\ page' = page /\ entries' = entries /\ call' = call /\ nodes' = nodes
      /\ freed' = freed /\ shows' = shows /\ halt' = halt
  BY DEF LinkNode, spaceVars
<1>3. call[p].node \in DOMAIN nodes
  BY <1>1 DEF ProcInv, FaultInv
<1>4. nodeList' \in Seq(DOMAIN nodes)
  <2>1. nodeList \in Seq(DOMAIN nodes) /\ new \in Seq(DOMAIN nodes)
    BY <1>1, <1>3 DEF TypeOK
  <2>2. ASSUME i # {}
        PROVE  SubSeq(nodeList, 1, Lowest(i)) \o new \in Seq(DOMAIN nodes)
    <3>1. i \subseteq Nat
      BY NodesIs
    <3>2. Lowest(i) \in i
      BY <2>2, <3>1, LowestIn
    <3>3. Lowest(i) \in 1..Len(nodeList) /\ Len(nodeList) \in Nat
      BY <3>2, NodesIs
    <3>4. SubSeq(nodeList, 1, Lowest(i)) \in Seq(DOMAIN nodes)
      <4>1. PICK n : n = Lowest(i)
        OBVIOUS
      <4>2. n \in 1..Len(nodeList) /\ Len(nodeList) \in Nat
        BY <4>1, <3>3
      <4>2a. n \in Int /\ \A j \in 1..n : j \in 1..Len(nodeList)
        BY <4>2
      <4>2b. \A j \in 1..n : nodeList[j] \in DOMAIN nodes
        BY <4>2a, NodesIs
      <4>3. SubSeq(nodeList, 1, n) \in Seq(DOMAIN nodes)
        BY <4>2a, <4>2b, SubSeqProperties
      <4> QED BY <4>1, <4>3
    <3> QED BY <2>1, <3>4, ConcatProperties
  <2>3. CASE call[p].tail = None
    BY <1>0, <2>1, <2>3
  <2>4. CASE call[p].tail # None /\ i = {}
    BY <1>0, <2>1, <2>4
  <2>5. CASE call[p].tail # None /\ i # {}
    <3>1. nodeList' = SubSeq(nodeList, 1, Lowest(i)) \o new
      BY <1>0, <2>5
    <3> QED BY <2>2, <2>5, <3>1, Zenon
  <2> QED BY <2>3, <2>4, <2>5
<1>5. /\ pc' \in [Procs -> Points] /\ pc'[p] = "read" /\ \A q \in Procs \ {p} : pc'[q] = pc[q]
  BY <1>1, <1>0, GotoIs DEF Points
<1>6. TypeOK'
  BY <1>1, <1>2, <1>4, <1>5 DEF TypeOK
<1>7. \A q \in Procs \ {p} : Same(q)
  BY <1>2, <1>5 DEF Same
<1>8. ForkInv'
  <2>1. \A q \in Procs : pc'[q] = "fork" => pc[q] = "fork" /\ call'[q].child = call[q].child
    BY <1>2, <1>5
  <2> QED BY <1>1, <1>2, <2>1, ForkSame
<1>9. ProcInv(p)'
  <2>1. CallInv(p)'
    BY <1>1, <1>2, <1>5 DEF CallInv, ProcInv
  <2>2. FaultInv(p)'
    <3>1. FaultEntry(p, call[p].va)' = FaultEntry(p, call[p].va)
      BY <1>2 DEF FaultEntry
    <3> QED BY <1>1, <1>2, <1>5, <3>1 DEF ProcInv, FaultInv, Faulting, FromList
  <2>3. TableInv(p)'
    BY <1>1, <1>2 DEF ProcInv, TableInv
  <2> QED BY <2>1, <2>2, <2>3 DEF ProcInv
<1>10. Len(nodes') <= MaxNodes /\ DOMAIN nodes \subseteq DOMAIN nodes'
  BY <1>2 DEF SpaceInv
<1> QED BY <1>6, <1>7, <1>8, <1>9, <1>10, Assemble

LEMMA ReadFileInv ==
  ASSUME SpaceInv, NEW p \in Procs, ReadFile(p)
  PROVE  SpaceInv'
<1> DEFINE i == Find(entries[p], call[p].va)
           e == entries[p][i]
           new == IF e.read THEN <<e.file, Vpn(e.off + call[p].va - e.start)>> ELSE Zeroes
<1>0. /\ At(p, "read") /\ Goto(p, "map")
      /\ shows' = [shows EXCEPT ![call[p].frame] = new]
      /\ entries' = [entries EXCEPT ![p][i].node = call[p].node]
  BY DEF ReadFile
<1>1. status[p] = "live" /\ pc[p] = "read" /\ TypeOK /\ ForkInv /\ ProcInv(p) /\ pd[p] # None
  BY <1>0, AtIs
<1>2. /\ supply' = supply /\ status' = status /\ pd' = pd /\ table' = table
      /\ page' = page /\ call' = call /\ nodes' = nodes /\ nodeList' = nodeList /\ freed' = freed
      /\ halt' = halt
  BY DEF ReadFile, spaceVars, nodeVars
<1>3. /\ i # 0 /\ call[p].node \in NodeIds /\ FromList(e) /\ call[p].frame # None
      /\ \E v \in Touches : call[p].va = v * FrameSize /\ page[p][v] = None
  BY <1>1, NodesIs DEF ProcInv, FaultInv, FaultEntry, Faulting
<1>4. i \in 1..Len(entries[p]) /\ e \in Entry /\ Covers(e, call[p].va)
  BY <1>1, <1>3, FindIs DEF TypeOK
<1>5. call[p] \in Call
  BY <1>1 DEF TypeOK
<1> HIDE DEF i, e
<1>6. new \in {Zeroes, FreeLink} \union (Files \X Nat)
  <2>1. e.file \in Files
    BY <1>3, <1>4 DEF FromList, Entry
  <2>2. PICK x : x = e.off + call[p].va - e.start
    OBVIOUS
  <2>3. x \in Nat
    BY <1>4, <1>5, <2>2, Constants DEF Entry, Call, Covers
  <2>4. Vpn(x) \in Nat
    BY <2>3, Constants, DivDown DEF Vpn
  <2>5. <<e.file, Vpn(x)>> \in Files \X Nat
    BY <2>1, <2>4
  <2> QED BY <2>2, <2>5
<1> HIDE DEF new
<1>7. shows' \in [Frames -> {Zeroes, FreeLink} \union (Files \X Nat)]
  BY <1>0, <1>1, <1>6 DEF TypeOK
<1>8. entries' \in [Procs -> Seq(Entry)] /\ \A q \in Procs \ {p} : entries'[q] = entries[q]
  BY <1>0, <1>1, <1>3, <1>4, NodeSet
<1>9. /\ pc' \in [Procs -> Points] /\ pc'[p] = "map" /\ \A q \in Procs \ {p} : pc'[q] = pc[q]
  BY <1>1, <1>0, GotoIs DEF Points
<1>10. TypeOK'
  BY <1>1, <1>2, <1>7, <1>8, <1>9 DEF TypeOK
<1>11. \A q \in Procs \ {p} : Same(q)
  BY <1>2, <1>8, <1>9 DEF Same
<1>12. ForkInv'
  <2>1. \A q \in Procs : pc'[q] = "fork" => pc[q] = "fork" /\ call'[q].child = call[q].child
    BY <1>2, <1>9
  <2> QED BY <1>1, <1>2, <2>1, ForkSame
<1>13. ProcInv(p)'
  <2>1. CallInv(p)'
    BY <1>1, <1>2, <1>9 DEF CallInv, ProcInv
  <2>2. FaultInv(p)'
    BY <1>2, <1>3, <1>9 DEF FaultInv, Faulting
  <2>3. TableInv(p)'
    BY <1>1, <1>2 DEF ProcInv, TableInv
  <2> QED BY <2>1, <2>2, <2>3 DEF ProcInv
<1>14. Len(nodes') <= MaxNodes /\ DOMAIN nodes \subseteq DOMAIN nodes'
  BY <1>2 DEF SpaceInv
<1> QED BY <1>10, <1>11, <1>12, <1>13, <1>14, Assemble

(* The page of a fault is below Space and in a table of the space.         *)
LEMMA FaultVpn ==
  ASSUME SpaceInv, NEW p \in Procs, pc[p] \in Faulting
  PROVE  /\ Vpn(call[p].va) \in Touches /\ Vpn(call[p].va) \in Vpns
         /\ call[p].va = Vpn(call[p].va) * FrameSize
         /\ page[p][Vpn(call[p].va)] = None
         /\ Pdi(Vpn(call[p].va)) \in Pdis
<1>1. PICK v \in Touches : call[p].va = v * FrameSize /\ page[p][v] = None
  BY DEF SpaceInv, FaultInv
<1>2. v \in Vpns
  BY Constants
<1>3. Vpn(call[p].va) = v
  BY <1>1, <1>2, VpnOf
<1> QED BY <1>1, <1>2, <1>3, PdiOf

LEMMA MapTableInv ==
  ASSUME SpaceInv, NEW p \in Procs, MapTable(p)
  PROVE  SpaceInv'
<1> DEFINE i == Pdi(Vpn(call[p].va))
<1>0. /\ At(p, "map") /\ table[p][i] = None /\ Alloc(Zeroes)
      /\ table' = [table EXCEPT ![p][i] = Head(supply)]
  BY DEF MapTable
<1>1. status[p] = "live" /\ pc[p] = "map" /\ TypeOK /\ ForkInv /\ ProcInv(p) /\ pd[p] # None
  BY <1>0, AtIs
<1>2. /\ status' = status /\ pc' = pc /\ pd' = pd /\ page' = page /\ call' = call
      /\ entries' = entries /\ nodes' = nodes /\ nodeList' = nodeList /\ freed' = freed /\ halt' = halt
  BY DEF MapTable, nodeVars
<1>3. /\ Head(supply) \in Frames /\ Head(supply) # None /\ supply' \in Seq(Frames)
      /\ shows' \in [Frames -> {Zeroes, FreeLink} \union (Files \X Nat)]
  BY <1>0, <1>1, AllocType
<1> HIDE DEF i
<1>4. /\ table' \in [Procs -> [Pdis -> FrameOrNone]]
      /\ \A q \in Procs \ {p} : table'[q] = table[q]
      /\ \A j \in Pdis : table[p][j] # None => table'[p][j] # None
  BY <1>0, <1>1, <1>3 DEF TypeOK, FrameOrNone
<1>5. TypeOK'
  BY <1>1, <1>2, <1>3, <1>4 DEF TypeOK
<1>6. \A q \in Procs \ {p} : Same(q)
  BY <1>2, <1>4 DEF Same
<1>7. ForkInv'
  BY <1>1, <1>2 DEF ForkInv
<1>8. ProcInv(p)'
  <2>1. CallInv(p)'
    BY <1>1, <1>2 DEF CallInv, ProcInv
  <2>2. FaultInv(p)'
    BY <1>1, <1>2 DEF ProcInv, FaultInv, Faulting
  <2>3. TableInv(p)'
    BY <1>1, <1>2, <1>4, PdiOf DEF ProcInv, TableInv
  <2> QED BY <2>1, <2>2, <2>3 DEF ProcInv
<1>9. Len(nodes') <= MaxNodes /\ DOMAIN nodes \subseteq DOMAIN nodes'
  BY <1>2 DEF SpaceInv
<1> QED BY <1>5, <1>6, <1>7, <1>8, <1>9, Assemble

LEMMA MapPageInv ==
  ASSUME SpaceInv, NEW p \in Procs, MapPage(p)
  PROVE  SpaceInv'
<1> DEFINE v == Vpn(call[p].va)
<1>0. /\ At(p, "map") /\ table[p][Pdi(v)] # None /\ Return(p)
      /\ page' = [page EXCEPT ![p][v] = call[p].frame]
  BY DEF MapPage
<1>1. status[p] = "live" /\ pc[p] = "map" /\ TypeOK /\ ForkInv /\ ProcInv(p) /\ pd[p] # None
  BY <1>0, AtIs
<1>2. /\ supply' = supply /\ status' = status /\ pd' = pd /\ table' = table /\ shows' = shows
      /\ entries' = entries /\ nodes' = nodes /\ nodeList' = nodeList /\ freed' = freed /\ halt' = halt
  BY DEF MapPage, nodeVars
<1>3. /\ pc' \in [Procs -> Points] /\ pc'[p] = "user"
      /\ call' \in [Procs -> Call] /\ call'[p] = NoCall
      /\ \A q \in Procs \ {p} : pc'[q] = pc[q] /\ call'[q] = call[q]
  BY <1>0, <1>1, ReturnIs
<1> HIDE DEF v
<1>4. /\ page' \in [Procs -> [Vpns -> FrameOrNone]]
      /\ \A q \in Procs \ {p} : page'[q] = page[q]
      /\ \A w \in Vpns : page'[p][w] # None => table[p][Pdi(w)] # None
  <2>1. call[p].frame \in FrameOrNone
    BY <1>1 DEF TypeOK, Call
  <2>2. \A w \in Vpns : page[p][w] # None => table[p][Pdi(w)] # None
    BY <1>1 DEF ProcInv, TableInv
  <2> QED BY <1>0, <1>1, <2>1, <2>2 DEF TypeOK
<1>5. TypeOK'
  BY <1>1, <1>2, <1>3, <1>4 DEF TypeOK
<1>6. \A q \in Procs \ {p} : Same(q)
  BY <1>2, <1>3, <1>4 DEF Same
<1>7. ForkInv'
  <2>1. \A q \in Procs : pc'[q] = "fork" => pc[q] = "fork" /\ call'[q].child = call[q].child
    BY <1>3
  <2> QED BY <1>1, <1>2, <2>1, ForkSame
<1>8. ProcInv(p)'
  <2>1. CallInv(p)'
    BY <1>1, <1>2, <1>3 DEF CallInv, ProcInv, NoCall
  <2>2. FaultInv(p)'
    BY <1>3 DEF FaultInv, Faulting, NoCall
  <2>3. TableInv(p)'
    BY <1>1, <1>2, <1>4 DEF TableInv
  <2> QED BY <2>1, <2>2, <2>3 DEF ProcInv
<1>9. Len(nodes') <= MaxNodes /\ DOMAIN nodes \subseteq DOMAIN nodes'
  BY <1>2 DEF SpaceInv
<1> QED BY <1>5, <1>6, <1>7, <1>8, <1>9, Assemble

LEMMA MunmapInv ==
  ASSUME SpaceInv, NEW p \in Procs, NEW i \in DOMAIN entries[p], Munmap(p, i)
  PROVE  SpaceInv'
<1> DEFINE e == entries[p][i]
           k0 == Pointee(e)
           N == [file : Files, pa : Frames, num : 0..(NumMod - 1)]
<1>0. At(p, "user")
  BY DEF Munmap
<1>1. status[p] = "live" /\ pc[p] = "user" /\ TypeOK /\ ForkInv /\ ProcInv(p) /\ pd[p] # None
      /\ call[p] = NoCall /\ Len(nodes) <= MaxNodes
  BY <1>0, AtIs DEF CallInv, SpaceInv
<1>2. /\ supply' = supply /\ UNCHANGED spaceVars /\ nodeList' = nodeList /\ freed' = freed /\ shows' = shows
      /\ pd' = pd /\ table' = table /\ page' = page
  BY DEF Munmap, spaceVars
<1>3. entries[p] \in Seq(Entry) /\ i \in 1..Len(entries[p]) /\ e \in Entry
  BY <1>1, SeqIs DEF TypeOK
<1>4. CASE /\ e.shared => k0 \in NodeIds
           /\ entries' = [entries EXCEPT ![p] = RemoveAt(@, i)]
           /\ nodes' = IF e.shared THEN [nodes EXCEPT ![k0].num = (@ - 1) % NumMod]
                       ELSE nodes
           /\ call' = [call EXCEPT ![p].va = e.start, ![p].end = End(e), ![p].node = k0,
                                   ![p].physical = e.shared => LastToGo(k0)]
           /\ Goto(p, "unmap")
           /\ UNCHANGED <<status, halt>>
  <2>1. RemoveAt(entries[p], i) \in Seq(Entry)
    BY <1>3, RemoveAtIs
  <2>2. entries' \in [Procs -> Seq(Entry)] /\ \A q \in Procs \ {p} : entries'[q] = entries[q]
    BY <1>1, <1>4, <2>1 DEF TypeOK
  <2>3. nodes' \in Seq(N) /\ DOMAIN nodes' = DOMAIN nodes /\ Len(nodes') = Len(nodes)
    <3>1. CASE ~e.shared
      BY <1>1, <1>4, <3>1 DEF TypeOK
    <3>2. CASE e.shared /\ k0 \notin DOMAIN nodes
      <4>1. nodes' = nodes
        <5>1. nodes' = [nodes EXCEPT ![k0].num = (@ - 1) % NumMod]
          BY <1>4, <3>2
        <5>2. nodes \in [1..Len(nodes) -> N]
          BY <1>1, LenProperties DEF TypeOK
        <5> QED BY <3>2, <5>1, <5>2
      <4> QED BY <1>1, <4>1 DEF TypeOK
    <3>3. CASE e.shared /\ k0 \in DOMAIN nodes
      <4>1. PICK k, m : k = k0 /\ m = (nodes[k].num - 1) % NumMod
        OBVIOUS
      <4>2. nodes[k].num \in Nat
        BY <3>3, <4>1, NodesIs
      <4>3. m \in 0..(NumMod - 1)
        BY <4>1, <4>2, Constants
      <4>4. nodes' = [nodes EXCEPT ![k].num = m]
        BY <1>4, <3>3, <4>1
      <4> QED BY <4>3, <4>4, NumSet
    <3> QED BY <3>1, <3>2, <3>3
  <2>4. nodeList' \in Seq(DOMAIN nodes')
    BY <1>1, <1>2, <2>3 DEF TypeOK
  <2>5. PICK b : b = (e.shared => LastToGo(k0))
    OBVIOUS
  <2>6. b \in BOOLEAN
    BY <2>5, Zenon
  <2>7. PICK en : en = End(e)
    OBVIOUS
  <2>8. en \in 0..(Space - 1)
    BY <1>3, <2>7, EndType
  <2>9. call' = [call EXCEPT ![p].va = e.start, ![p].end = en, ![p].node = k0, ![p].physical = b]
    BY <1>4, <2>5, <2>7
  <2>10. /\ call'[p] = [NoCall EXCEPT !.va = e.start, !.end = en, !.node = k0, !.physical = b]
         /\ \A q \in Procs \ {p} : call'[q] = call[q]
    BY <1>1, <2>9 DEF TypeOK
  <2>11. call'[p] \in Call /\ call'[p].frame = None
    <3>1. e.start \in Nat
      BY <1>3, Constants DEF Entry
    <3>2. k0 \in NodeIds \union {None, Junk}
      BY <1>3, PointeeType
    <3> HIDE DEF e, k0
    <3> QED BY <2>6, <2>8, <2>10, <3>1, <3>2, NoCallType DEF Call, NoCall
  <2>12. call' \in [Procs -> Call]
    BY <1>1, <2>9, <2>11 DEF TypeOK
  <2>13. /\ pc' \in [Procs -> Points] /\ pc'[p] = "unmap" /\ \A q \in Procs \ {p} : pc'[q] = pc[q]
    BY <1>1, <1>4, GotoIs DEF Points
  <2>14. status' = status /\ halt' = halt
    BY <1>4
  <2>15. TypeOK'
    BY <1>1, <1>2, <2>2, <2>3, <2>4, <2>12, <2>13, <2>14 DEF TypeOK
  <2>16. \A q \in Procs \ {p} : Same(q)
    BY <1>2, <2>2, <2>10, <2>13, <2>14 DEF Same
  <2>17. ForkInv'
    <3>1. \A q \in Procs : pc'[q] = "fork" => pc[q] = "fork" /\ call'[q].child = call[q].child
      BY <2>10, <2>13
    <3> QED BY <1>1, <2>14, <3>1, ForkSame
  <2>18. ProcInv(p)'
    <3>1. CallInv(p)'
      BY <1>1, <1>2, <2>13, <2>14 DEF CallInv, ProcInv
    <3>2. FaultInv(p)'
      BY <2>11, <2>13 DEF FaultInv, Faulting
    <3>3. TableInv(p)'
      BY <1>1, <1>2, <2>14 DEF ProcInv, TableInv
    <3> QED BY <3>1, <3>2, <3>3 DEF ProcInv
  <2>19. Len(nodes') <= MaxNodes /\ DOMAIN nodes \subseteq DOMAIN nodes'
    BY <1>1, <2>3
  <2> QED BY <2>15, <2>16, <2>17, <2>18, <2>19, Assemble
<1>5. CASE e.shared /\ k0 = None /\ Die(p) /\ UNCHANGED <<nodes, halt>>
  BY <1>1, <1>2, <1>5, DieInv DEF TypeOK
<1>6. CASE halt' = "wild" /\ UNCHANGED <<status, pc, entries, call, nodes>>
  <2>1. TypeOK'
    BY <1>1, <1>2, <1>6 DEF TypeOK
  <2>2. \A q \in Procs : Same(q)
    BY <1>2, <1>6 DEF Same
  <2>3. ForkInv'
    BY <1>1, <1>6 DEF ForkInv
  <2>4. Len(nodes') <= MaxNodes /\ DOMAIN nodes \subseteq DOMAIN nodes'
    BY <1>1, <1>6
  <2>5. ProcInv(p)'
    BY <1>1, <2>2, <2>4, SameInv
  <2> QED BY <2>1, <2>2, <2>3, <2>4, <2>5, Assemble
<1> QED BY <1>4, <1>5, <1>6 DEF Munmap

LEMMA UnmapInv ==
  ASSUME SpaceInv, NEW p \in Procs, Unmap(p)
  PROVE  SpaceInv'
<1> DEFINE v == Vpn(call[p].va)
<1>0. At(p, "unmap")
  BY DEF Unmap
<1>1. status[p] = "live" /\ pc[p] = "unmap" /\ TypeOK /\ ForkInv /\ ProcInv(p) /\ pd[p] # None
      /\ Len(nodes) <= MaxNodes
  BY <1>0, AtIs DEF SpaceInv
<1>2. /\ status' = status /\ pc' = pc /\ pd' = pd /\ table' = table /\ entries' = entries
      /\ nodes' = nodes /\ nodeList' = nodeList /\ freed' = freed
  BY DEF Unmap, nodeVars
<1>3. CASE /\ v \in Vpns \ {ApicPage}
           /\ page' = [page EXCEPT ![p][v] = None]
           /\ IF call[p].physical /\ page[p][v] # None THEN Dealloc(page[p][v])
              ELSE UNCHANGED <<supply, shows>>
           /\ call' = [call EXCEPT ![p].va = @ + FrameSize]
           /\ UNCHANGED halt
  <2> HIDE DEF v
  <2>1. /\ page' \in [Procs -> [Vpns -> FrameOrNone]]
        /\ \A q \in Procs \ {p} : page'[q] = page[q]
        /\ \A w \in Vpns : page'[p][w] \in {None, page[p][w]}
    BY <1>1, <1>3 DEF TypeOK, FrameOrNone
  <2>2. /\ supply' \in Seq(Frames)
        /\ shows' \in [Frames -> {Zeroes, FreeLink} \union (Files \X Nat)]
    <3>1. CASE call[p].physical /\ page[p][v] # None
      <4>1. page[p][v] \in Frames /\ Dealloc(page[p][v])
        BY <1>1, <1>3, <3>1 DEF TypeOK, FrameOrNone
      <4> QED BY <1>1, <4>1, DeallocType
    <3>2. CASE ~(call[p].physical /\ page[p][v] # None)
      <4>1. supply' = supply /\ shows' = shows
        BY <1>3, <3>2
      <4> QED BY <1>1, <4>1 DEF TypeOK
    <3> QED BY <3>1, <3>2
  <2>3. /\ call' \in [Procs -> Call]
        /\ \A q \in Procs : /\ call'[q].frame = call[q].frame /\ call'[q].child = call[q].child
                            /\ q # p => call'[q] = call[q]
    <3>1. call[p] \in Call /\ call \in [Procs -> Call] /\ FrameSize \in Nat
      BY <1>1, Constants DEF TypeOK
    <3>2. call'[p] = [call[p] EXCEPT !.va = call[p].va + FrameSize]
      BY <1>3, <3>1
    <3>3. call'[p] \in Call /\ call'[p].frame = call[p].frame /\ call'[p].child = call[p].child
      BY <3>1, <3>2 DEF Call
    <3> QED BY <1>3, <3>1, <3>3
  <2>4. halt' = halt
    BY <1>3
  <2>5. TypeOK'
    BY <1>1, <1>2, <2>1, <2>2, <2>3, <2>4 DEF TypeOK
  <2>6. \A q \in Procs \ {p} : Same(q)
    BY <1>2, <2>1, <2>3 DEF Same
  <2>7. ForkInv'
    BY <1>1, <1>2, <2>3, ForkSame
  <2>8. ProcInv(p)'
    <3>1. CallInv(p)'
      BY <1>1, <1>2 DEF CallInv, ProcInv
    <3>2. FaultInv(p)'
      BY <1>1, <1>2, <2>3 DEF ProcInv, FaultInv, Faulting
    <3>3. TableInv(p)'
      BY <1>1, <1>2, <2>1 DEF ProcInv, TableInv
    <3> QED BY <3>1, <3>2, <3>3 DEF ProcInv
  <2>9. Len(nodes') <= MaxNodes /\ DOMAIN nodes \subseteq DOMAIN nodes'
    BY <1>1, <1>2
  <2> QED BY <2>5, <2>6, <2>7, <2>8, <2>9, Assemble
<1>4. CASE halt' = "wild" /\ UNCHANGED <<page, supply, shows, call>>
  <2>1. TypeOK'
    BY <1>1, <1>2, <1>4 DEF TypeOK
  <2>2. \A q \in Procs : Same(q)
    BY <1>2, <1>4 DEF Same
  <2>3. ForkInv'
    BY <1>1, <1>2, <1>4 DEF ForkInv
  <2>4. Len(nodes') <= MaxNodes /\ DOMAIN nodes \subseteq DOMAIN nodes'
    BY <1>1, <1>2
  <2>5. ProcInv(p)'
    BY <1>1, <2>2, <2>4, SameInv
  <2> QED BY <2>1, <2>2, <2>3, <2>4, <2>5, Assemble
<1> QED BY <1>3, <1>4 DEF Unmap

LEMMA UnlinkInv ==
  ASSUME SpaceInv, NEW p \in Procs, Unlink(p)
  PROVE  SpaceInv'
<1> DEFINE k == call[p].node
           i == Listed(nodes[k].file)
<1>0. At(p, "unmap")
  BY DEF Unlink
<1>1. status[p] = "live" /\ pc[p] = "unmap" /\ TypeOK /\ ForkInv /\ ProcInv(p) /\ pd[p] # None
      /\ Len(nodes) <= MaxNodes
  BY <1>0, AtIs DEF SpaceInv
<1>2. /\ supply' = supply /\ UNCHANGED spaceVars /\ nodes' = nodes /\ shows' = shows
      /\ pd' = pd /\ table' = table /\ page' = page
  BY DEF Unlink, spaceVars
<1>3. ASSUME Return(p), UNCHANGED <<status, entries, halt>>,
             freed' \subseteq NodeIds, nodeList' = nodeList \/ (i # 0 /\ nodeList' = RemoveAt(nodeList, i))
      PROVE  SpaceInv'
  <2>1. /\ pc' \in [Procs -> Points] /\ pc'[p] = "user"
        /\ call' \in [Procs -> Call] /\ call'[p] = NoCall
        /\ \A q \in Procs \ {p} : pc'[q] = pc[q] /\ call'[q] = call[q]
    BY <1>1, <1>3, ReturnIs
  <2>2. status' = status /\ entries' = entries /\ halt' = halt
    BY <1>3
  <2>3. nodeList' \in Seq(DOMAIN nodes)
    <3>1. nodeList \in Seq(DOMAIN nodes)
      BY <1>1 DEF TypeOK
    <3>2. CASE i # 0 /\ nodeList' = RemoveAt(nodeList, i)
      <4>1. i \in 1..Len(nodeList)
        BY <3>2, ListedIs, NodesIs
      <4> HIDE DEF i
      <4> QED BY <3>1, <3>2, <4>1, RemoveAtIs
    <3> QED BY <1>3, <3>1, <3>2
  <2>4. TypeOK'
    BY <1>1, <1>2, <1>3, <2>1, <2>2, <2>3 DEF TypeOK
  <2>5. \A q \in Procs \ {p} : Same(q)
    BY <1>2, <2>1, <2>2 DEF Same
  <2>6. ForkInv'
    <3>1. \A q \in Procs : pc'[q] = "fork" => pc[q] = "fork" /\ call'[q].child = call[q].child
      BY <2>1
    <3> QED BY <1>1, <2>2, <3>1, ForkSame
  <2>7. ProcInv(p)'
    <3>1. CallInv(p)'
      BY <1>1, <1>2, <2>1, <2>2 DEF CallInv, ProcInv, NoCall
    <3>2. FaultInv(p)'
      BY <2>1 DEF FaultInv, Faulting, NoCall
    <3>3. TableInv(p)'
      BY <1>1, <1>2, <2>2 DEF ProcInv, TableInv
    <3> QED BY <3>1, <3>2, <3>3 DEF ProcInv
  <2>8. Len(nodes') <= MaxNodes /\ DOMAIN nodes \subseteq DOMAIN nodes'
    BY <1>1, <1>2
  <2> QED BY <2>4, <2>5, <2>6, <2>7, <2>8, Assemble
<1>4. CASE Die(p) /\ UNCHANGED <<nodeList, freed, halt>>
  BY <1>1, <1>2, <1>4, DieInv DEF TypeOK
<1>5. CASE halt' = "wild" /\ UNCHANGED <<status, pc, entries, call, nodeList, freed>>
  <2>1. TypeOK'
    BY <1>1, <1>2, <1>5 DEF TypeOK
  <2>2. \A q \in Procs : Same(q)
    BY <1>2, <1>5 DEF Same
  <2>3. ForkInv'
    BY <1>1, <1>2, <1>5 DEF ForkInv
  <2>4. Len(nodes') <= MaxNodes /\ DOMAIN nodes \subseteq DOMAIN nodes'
    BY <1>1, <1>2
  <2>5. ProcInv(p)'
    BY <1>1, <2>2, <2>4, SameInv
  <2> QED BY <2>1, <2>2, <2>3, <2>4, <2>5, Assemble
<1>6. freed \subseteq NodeIds
  BY <1>1 DEF TypeOK
<1>7. CASE Return(p) /\ UNCHANGED <<status, entries, nodeList, halt>>
           /\ freed' = freed \union ({k} \intersect NodeIds)
  BY <1>3, <1>6, <1>7
<1>8. CASE Return(p) /\ UNCHANGED <<status, entries, halt>> /\ k \in NodeIds
           /\ nodeList' = (IF i = 0 THEN nodeList ELSE RemoveAt(nodeList, i))
           /\ freed' = freed \union {k}
  BY <1>3, <1>6, <1>8
<1> HIDE DEF i
<1> QED BY <1>4, <1>5, <1>7, <1>8 DEF Unlink, i

LEMMA ForkStartInv ==
  ASSUME SpaceInv, NEW p \in Procs, Fork(p)
  PROVE  SpaceInv'
<1>0. At(p, "user") /\ Goto(p, "fork")
  BY DEF Fork
<1>1. status[p] = "live" /\ pc[p] = "user" /\ TypeOK /\ ForkInv /\ ProcInv(p) /\ pd[p] # None
      /\ call[p] = NoCall /\ Len(nodes) <= MaxNodes
  BY <1>0, AtIs DEF CallInv, SpaceInv
<1>2. PICK c \in Procs : /\ status[c] = "unborn"
                         /\ status' = [status EXCEPT ![c] = "young"]
                         /\ call' = [call EXCEPT ![p].child = c]
  BY DEF Fork
<1>3. /\ supply' = supply /\ pd' = pd /\ table' = table /\ page' = page /\ entries' = entries
      /\ nodes' = nodes /\ nodeList' = nodeList /\ freed' = freed /\ shows' = shows /\ halt' = halt
  BY DEF Fork, spaceVars, nodeVars
<1>4. c # p /\ ProcInv(c) /\ pc[c] = "user"
  BY <1>1, <1>2 DEF SpaceInv, CallInv, ProcInv
<1>5. /\ pc' \in [Procs -> Points] /\ pc'[p] = "fork" /\ \A q \in Procs \ {p} : pc'[q] = pc[q]
  BY <1>1, <1>0, GotoIs DEF Points
<1>6. /\ status' \in [Procs -> {"unborn", "young", "live", "exited", "gone"}]
      /\ status'[c] = "young" /\ \A q \in Procs \ {c} : status'[q] = status[q]
  BY <1>1, <1>2 DEF TypeOK
<1>7. /\ call' \in [Procs -> Call] /\ call'[p].child = c /\ call'[p].frame = None
      /\ \A q \in Procs \ {p} : call'[q] = call[q]
  <2>1. call'[p] = [NoCall EXCEPT !.child = c]
    BY <1>1, <1>2 DEF TypeOK
  <2>2. call'[p] \in Call /\ call'[p].child = c /\ call'[p].frame = None
    BY <2>1, NoCallType DEF NoCall, Call
  <2> QED BY <1>1, <1>2, <2>2 DEF TypeOK
<1>8. TypeOK'
  BY <1>1, <1>3, <1>5, <1>6, <1>7 DEF TypeOK
<1>9. \A q \in Procs \ {p, c} : Same(q)
  BY <1>3, <1>5, <1>6, <1>7 DEF Same
<1>10. ForkInv'
  <2>1. \A q \in Procs \ {p} : pc'[q] = "fork" =>
          /\ pc[q] = "fork" /\ call'[q].child = call[q].child
          /\ call[q].child \in Procs /\ status[call[q].child] = "young" /\ call[q].child # c
          /\ \A r \in Procs : pc[r] = "fork" /\ call[r].child = call[q].child => r = q
    BY <1>1, <1>2, <1>5, <1>7 DEF ForkInv
  <2>2. \A q \in Procs \ {p} : pc'[q] = "fork" =>
          /\ call'[q].child \in Procs /\ status'[call'[q].child] = "young"
          /\ call'[q].child # c
          /\ \A r \in Procs \ {p} : pc'[r] = "fork" /\ call'[r].child = call'[q].child => r = q
    BY <2>1, <1>6
  <2>3. /\ call'[p].child \in Procs /\ status'[call'[p].child] = "young"
        /\ \A q \in Procs : pc'[q] = "fork" /\ call'[q].child = call'[p].child => q = p
    BY <2>2, <1>6, <1>7
  <2>4. \A q \in Procs : pc'[q] = "fork" =>
          /\ call'[q].child \in Procs /\ status'[call'[q].child] = "young"
          /\ \A r \in Procs : pc'[r] = "fork" /\ call'[r].child = call'[q].child => r = q
    BY <2>2, <2>3, <1>7
  <2> QED BY <2>4 DEF ForkInv
<1>11. ProcInv(p)'
  <2>1. CallInv(p)'
    BY <1>1, <1>3, <1>4, <1>5, <1>6 DEF CallInv, ProcInv
  <2>2. FaultInv(p)'
    BY <1>5, <1>7 DEF FaultInv, Faulting
  <2>3. TableInv(p)'
    BY <1>1, <1>3, <1>4, <1>6 DEF ProcInv, TableInv
  <2> QED BY <2>1, <2>2, <2>3 DEF ProcInv
<1>12. ProcInv(c)'
  <2>1. CallInv(c)'
    BY <1>4, <1>5, <1>6, <1>7 DEF CallInv, ProcInv, NoCall
  <2>2. FaultInv(c)'
    BY <1>4, <1>5, <1>7 DEF FaultInv, Faulting, ProcInv
  <2>3. TableInv(c)'
    BY <1>3, <1>4, <1>6 DEF ProcInv, TableInv
  <2> QED BY <2>1, <2>2, <2>3 DEF ProcInv
<1>13. Len(nodes') <= MaxNodes /\ DOMAIN nodes \subseteq DOMAIN nodes'
  BY <1>1, <1>3
<1> QED BY <1>8, <1>9, <1>10, <1>11, <1>12, <1>13, Assemble

(* A parent at work on its child.                                          *)
LEMMA ChildIs ==
  ASSUME SpaceInv, NEW p \in Procs, At(p, "fork")
  PROVE  /\ call[p].child \in Procs /\ status[call[p].child] = "young" /\ call[p].child # p
         /\ pc[call[p].child] = "user" /\ call[call[p].child] = NoCall
         /\ ProcInv(call[p].child)
<1>1. call[p].child \in Procs /\ status[call[p].child] = "young" /\ status[p] = "live"
  BY AtIs DEF ForkInv
<1> QED BY <1>1 DEF SpaceInv, CallInv, ProcInv

(* The child gets a frame: a directory, a table or a page.                 *)
LEMMA ChildGrows ==
  ASSUME SpaceInv, NEW p \in Procs, At(p, "fork"), NEW c \in Procs, c = call[p].child,
         /\ status' = status /\ pc' = pc /\ call' = call /\ entries' = entries
         /\ nodes' = nodes /\ nodeList' = nodeList /\ freed' = freed /\ halt' = halt,
         supply' \in Seq(Frames),
         shows' \in [Frames -> {Zeroes, FreeLink} \union (Files \X Nat)],
         /\ pd' \in [Procs -> FrameOrNone]
         /\ table' \in [Procs -> [Pdis -> FrameOrNone]]
         /\ page' \in [Procs -> [Vpns -> FrameOrNone]],
         \A q \in Procs \ {c} : pd'[q] = pd[q] /\ table'[q] = table[q] /\ page'[q] = page[q],
         \A v \in Vpns : page'[c][v] # None => table'[c][Pdi(v)] # None
  PROVE  SpaceInv'
<1>1. TypeOK /\ ForkInv /\ ProcInv(p) /\ Len(nodes) <= MaxNodes
  BY AtIs DEF SpaceInv
<1>2. status[c] = "young" /\ c # p /\ ProcInv(c) /\ pc[c] = "user" /\ call[c] = NoCall
  BY ChildIs
<1>3. TypeOK'
  BY <1>1 DEF TypeOK
<1>4. \A q \in Procs \ {c} : Same(q)
  BY DEF Same
<1>5. ForkInv'
  BY <1>1 DEF ForkInv
<1>6. Len(nodes') <= MaxNodes /\ DOMAIN nodes \subseteq DOMAIN nodes'
  BY <1>1
<1>7. ProcInv(p)'
  BY <1>1, <1>2, <1>4, <1>6, SameInv
<1>8. ProcInv(c)'
  <2>1. CallInv(c)'
    BY <1>2 DEF CallInv, ProcInv, NoCall
  <2>2. FaultInv(c)'
    BY <1>2 DEF FaultInv, Faulting, NoCall
  <2>3. TableInv(c)'
    BY <1>2 DEF TableInv
  <2> QED BY <2>1, <2>2, <2>3 DEF ProcInv
<1> QED BY <1>3, <1>4, <1>5, <1>6, <1>7, <1>8, Assemble

LEMMA ApicPdiIn == ApicPdi \in Pdis
BY Constants, PdiOf DEF ApicPdi

LEMMA ForkPdInv ==
  ASSUME SpaceInv, NEW p \in Procs, ForkPd(p)
  PROVE  SpaceInv'
<1>0. At(p, "fork") /\ Alloc(Zeroes)
  BY DEF ForkPd
<1>1. PICK c : c = call[p].child
  OBVIOUS
<1>2. c \in Procs /\ TypeOK /\ TableInv(c)
  BY <1>0, <1>1, ChildIs, AtIs DEF ProcInv
<1>3. /\ Head(supply) \in Frames /\ Head(supply) # None /\ supply' \in Seq(Frames)
      /\ shows' \in [Frames -> {Zeroes, FreeLink} \union (Files \X Nat)]
  BY <1>0, <1>2, AllocType
<1>4. /\ status' = status /\ pc' = pc /\ call' = call /\ entries' = entries /\ page' = page
      /\ nodes' = nodes /\ nodeList' = nodeList /\ freed' = freed /\ halt' = halt
  BY DEF ForkPd, nodeVars
<1>5. \/ pd' = [pd EXCEPT ![c] = Head(supply)] /\ table' = table
      \/ table' = [table EXCEPT ![c][ApicPdi] = Head(supply)] /\ pd' = pd
  BY <1>1 DEF ForkPd
<1>6. /\ pd' \in [Procs -> FrameOrNone]
      /\ table' \in [Procs -> [Pdis -> FrameOrNone]]
      /\ page' \in [Procs -> [Vpns -> FrameOrNone]]
  <2>1. CASE pd' = [pd EXCEPT ![c] = Head(supply)] /\ table' = table
    BY <1>2, <1>3, <1>4, <2>1 DEF TypeOK, FrameOrNone
  <2>2. CASE table' = [table EXCEPT ![c][ApicPdi] = Head(supply)] /\ pd' = pd
    BY <1>2, <1>3, <1>4, <2>2, ApicPdiIn DEF TypeOK, FrameOrNone
  <2> QED BY <1>5, <2>1, <2>2
<1>7. \A q \in Procs \ {c} : pd'[q] = pd[q] /\ table'[q] = table[q] /\ page'[q] = page[q]
  BY <1>2, <1>4, <1>5 DEF TypeOK
<1>8. \A v \in Vpns : page'[c][v] # None => table'[c][Pdi(v)] # None
  <2>1. \A j \in Pdis : table[c][j] # None => table'[c][j] # None
    BY <1>2, <1>3, <1>5 DEF TypeOK
  <2>2. \A v \in Vpns : page'[c][v] # None => table[c][Pdi(v)] # None
    BY <1>2, <1>4 DEF TableInv
  <2> QED BY <2>1, <2>2, PdiOf
<1> QED BY <1>0, <1>1, <1>2, <1>3, <1>4, <1>6, <1>7, <1>8, ChildGrows

LEMMA ForkCopyInv ==
  ASSUME SpaceInv, NEW p \in Procs, ForkCopy(p)
  PROVE  SpaceInv'
<1>0. At(p, "fork")
  BY DEF ForkCopy
<1>1. PICK c : c = call[p].child
  OBVIOUS
<1>2. c \in Procs /\ TypeOK /\ TableInv(c)
  BY <1>0, <1>1, ChildIs, AtIs DEF ProcInv
<1>3. PICK i : i = Lowest(Uncopied(p, c))
  OBVIOUS
<1>4. Uncopied(p, c) # {}
  BY <1>1 DEF ForkCopy
<1>5. i \in Uncopied(p, c)
  <2>1. Uncopied(p, c) \subseteq Nat
    BY PdisNat DEF Uncopied
  <2> QED BY <1>3, <1>4, <2>1, LowestIn
<1>6. i \in Pdis
  BY <1>5 DEF Uncopied
<1>7. /\ status' = status /\ pc' = pc /\ call' = call /\ entries' = entries /\ pd' = pd
      /\ nodes' = nodes /\ nodeList' = nodeList /\ freed' = freed /\ halt' = halt
  BY DEF ForkCopy, nodeVars
<1>8. CASE table[c][i] = None
  <2>1. Alloc(Zeroes) /\ table' = [table EXCEPT ![c][i] = Head(supply)] /\ page' = page
    BY <1>1, <1>3, <1>8 DEF ForkCopy
  <2>2. /\ Head(supply) \in Frames /\ Head(supply) # None /\ supply' \in Seq(Frames)
        /\ shows' \in [Frames -> {Zeroes, FreeLink} \union (Files \X Nat)]
    BY <2>1, <1>2, AllocType
  <2>3. /\ pd' \in [Procs -> FrameOrNone]
        /\ table' \in [Procs -> [Pdis -> FrameOrNone]]
        /\ page' \in [Procs -> [Vpns -> FrameOrNone]]
    BY <1>2, <1>6, <1>7, <2>1, <2>2 DEF TypeOK, FrameOrNone
  <2>4. \A q \in Procs \ {c} : pd'[q] = pd[q] /\ table'[q] = table[q] /\ page'[q] = page[q]
    BY <1>2, <1>7, <2>1 DEF TypeOK
  <2>5. \A v \in Vpns : page'[c][v] # None => table'[c][Pdi(v)] # None
    BY <1>2, <2>1, <2>2, PdiOf DEF TypeOK, TableInv
  <2> QED BY <1>0, <1>1, <1>2, <1>7, <2>2, <2>3, <2>4, <2>5, ChildGrows
<1>9. CASE table[c][i] # None
  <2> DEFINE W == {w \in Vpns : Pdi(w) = i /\ page[p][w] # None /\ page[c][w] = None}
  <2>1. PICK v : v = Lowest(W)
    OBVIOUS
  <2>2. W # {} /\ W \subseteq Nat
    BY <1>5, <1>9, Constants DEF Uncopied
  <2>3. v \in W
    BY <2>1, <2>2, LowestIn
  <2>4. v \in Vpns /\ Pdi(v) = i /\ page[p][v] # None
    BY <2>3
  <2>5. Alloc(shows[page[p][v]]) /\ page' = [page EXCEPT ![c][v] = Head(supply)] /\ table' = table
    BY <1>1, <1>3, <1>9, <2>1 DEF ForkCopy
  <2>6. PICK x : x = shows[page[p][v]]
    OBVIOUS
  <2>7. x \in {Zeroes, FreeLink} \union (Files \X Nat) /\ Alloc(x)
    BY <1>2, <2>4, <2>5, <2>6 DEF TypeOK, FrameOrNone
  <2>8. /\ Head(supply) \in Frames /\ Head(supply) # None /\ supply' \in Seq(Frames)
        /\ shows' \in [Frames -> {Zeroes, FreeLink} \union (Files \X Nat)]
    BY <2>7, <1>2, AllocType
  <2>9. /\ pd' \in [Procs -> FrameOrNone]
        /\ table' \in [Procs -> [Pdis -> FrameOrNone]]
        /\ page' \in [Procs -> [Vpns -> FrameOrNone]]
    BY <1>2, <1>7, <2>4, <2>5, <2>8 DEF TypeOK, FrameOrNone
  <2>10. \A q \in Procs \ {c} : pd'[q] = pd[q] /\ table'[q] = table[q] /\ page'[q] = page[q]
    BY <1>2, <1>7, <2>5 DEF TypeOK
  <2>11. \A w \in Vpns : page'[c][w] # None => table'[c][Pdi(w)] # None
    BY <1>2, <1>9, <2>4, <2>5 DEF TypeOK, TableInv
  <2> QED BY <1>0, <1>1, <1>2, <1>7, <2>8, <2>9, <2>10, <2>11, ChildGrows
<1> QED BY <1>8, <1>9

LEMMA CountType ==
  ASSUME SpaceInv, NEW es \in Seq(Entry), NEW n \in Int, Count(es, n)
  PROVE  /\ nodes' \in Seq([file : Files, pa : Frames, num : 0..(NumMod - 1)])
         /\ DOMAIN nodes' = DOMAIN nodes /\ Len(nodes') = Len(nodes)
         /\ halt' \in {"no", "panic", "wild"}
<1> DEFINE N == [file : Files, pa : Frames, num : 0..(NumMod - 1)]
           refs(k) == {i \in DOMAIN es : Pointee(es[i]) = k}
           new(k) == [nodes[k] EXCEPT !.num = (@ + n * Cardinality(refs(k))) % NumMod]
<1>0. nodes' = [k \in DOMAIN nodes |-> new(k)]
  BY DEF Count
<1>1. Len(nodes) \in Nat /\ DOMAIN nodes = 1..Len(nodes)
  BY NodesIs
<1>2. ASSUME NEW k \in DOMAIN nodes
      PROVE  new(k) \in N
  <2>1. IsFiniteSet(refs(k))
    <3>1. IsFiniteSet(1..Len(es)) /\ DOMAIN es = 1..Len(es)
      BY SeqIs, UpToIs
    <3>2. refs(k) \subseteq 1..Len(es)
      BY <3>1
    <3> QED BY <3>1, <3>2, FS_Subset
  <2>2. PICK m : m = Cardinality(refs(k))
    OBVIOUS
  <2>3. m \in Nat
    BY <2>1, <2>2, FS_CardinalityType
  <2>4. nodes[k] \in N
    BY NodesIs
  <2>5. PICK x : x = nodes[k].num + n * m
    OBVIOUS
  <2>6. n * m \in Int
    BY <2>3
  <2>7. x \in Int
    BY <2>4, <2>5, <2>6
  <2>8. x % NumMod \in 0..(NumMod - 1)
    BY <2>7, Constants
  <2>9. new(k) = [nodes[k] EXCEPT !.num = x % NumMod]
    BY <2>2, <2>5
  <2> HIDE DEF new
  <2> QED BY <2>4, <2>8, <2>9
<1> HIDE DEF new
<1>3. PICK s, l : s = nodes' /\ l = Len(nodes)
  OBVIOUS
<1>4. l \in Nat /\ s \in [1..l -> N]
  BY <1>0, <1>1, <1>2, <1>3
<1>5. s \in Seq(N) /\ Len(s) = l
  BY <1>4, FunIsSeq
<1>6. halt' \in {"no", "panic", "wild"}
  <2>1. halt \in {"no", "panic", "wild"} /\ (halt' = halt \/ halt' = "wild")
    BY DEF SpaceInv, TypeOK, Count
  <2> QED BY <2>1
<1> QED BY <1>0, <1>3, <1>5, <1>6

LEMMA ForkEndInv ==
  ASSUME SpaceInv, NEW p \in Procs, ForkEnd(p)
  PROVE  SpaceInv'
<1>0. At(p, "fork") /\ Return(p) /\ Count(entries[p], 1)
  BY DEF ForkEnd
<1>1. PICK c : c = call[p].child
  OBVIOUS
<1>2. /\ c \in Procs /\ status[c] = "young" /\ c # p /\ pc[c] = "user"
      /\ call[c] = NoCall /\ ProcInv(c)
  BY <1>0, <1>1, ChildIs
<1>3. TypeOK /\ ForkInv /\ ProcInv(p) /\ pc[p] = "fork" /\ status[p] = "live" /\ Len(nodes) <= MaxNodes
      /\ entries[p] \in Seq(Entry)
  BY <1>0, AtIs DEF SpaceInv, TypeOK
<1>4. /\ pd[c] # None /\ entries' = [entries EXCEPT ![c] = entries[p]]
      /\ status' = [status EXCEPT ![c] = "live"]
      /\ supply' = supply /\ pd' = pd /\ table' = table /\ page' = page
      /\ nodeList' = nodeList /\ freed' = freed /\ shows' = shows
  BY <1>1 DEF ForkEnd, spaceVars
<1>5. /\ nodes' \in Seq([file : Files, pa : Frames, num : 0..(NumMod - 1)])
      /\ DOMAIN nodes' = DOMAIN nodes /\ Len(nodes') = Len(nodes)
      /\ halt' \in {"no", "panic", "wild"}
  <2>1. 1 \in Int
    OBVIOUS
  <2> QED BY <1>0, <1>3, <2>1, CountType
<1>6. /\ pc' \in [Procs -> Points] /\ pc'[p] = "user"
      /\ call' \in [Procs -> Call] /\ call'[p] = NoCall
      /\ \A q \in Procs \ {p} : pc'[q] = pc[q] /\ call'[q] = call[q]
  BY <1>0, <1>3, ReturnIs
<1>7. /\ status' \in [Procs -> {"unborn", "young", "live", "exited", "gone"}]
      /\ status'[c] = "live" /\ \A q \in Procs \ {c} : status'[q] = status[q]
  BY <1>2, <1>3, <1>4 DEF TypeOK
<1>8. /\ entries' \in [Procs -> Seq(Entry)] /\ \A q \in Procs \ {c} : entries'[q] = entries[q]
  BY <1>2, <1>3, <1>4 DEF TypeOK
<1>9. TypeOK'
  BY <1>3, <1>4, <1>5, <1>6, <1>7, <1>8 DEF TypeOK
<1>10. \A q \in Procs \ {p, c} : Same(q)
  BY <1>4, <1>6, <1>7, <1>8 DEF Same
<1>11. ForkInv'
  <2>1. \A q \in Procs : pc'[q] = "fork" =>
          /\ q # p /\ pc[q] = "fork" /\ call'[q].child = call[q].child
          /\ call[q].child \in Procs /\ status[call[q].child] = "young" /\ call[q].child # c
          /\ \A r \in Procs : pc[r] = "fork" /\ call[r].child = call[q].child => r = q
    BY <1>1, <1>3, <1>6 DEF ForkInv
  <2>2. \A q \in Procs : pc'[q] = "fork" =>
          /\ call'[q].child \in Procs /\ status'[call'[q].child] = "young"
          /\ \A r \in Procs : pc'[r] = "fork" /\ call'[r].child = call'[q].child => r = q
    BY <2>1, <1>7
  <2> QED BY <2>2 DEF ForkInv
<1>12. ProcInv(p)'
  <2>1. CallInv(p)'
    BY <1>2, <1>3, <1>4, <1>6, <1>7 DEF CallInv, ProcInv, NoCall
  <2>2. FaultInv(p)'
    BY <1>6 DEF FaultInv, Faulting, NoCall
  <2>3. TableInv(p)'
    BY <1>2, <1>3, <1>4, <1>7 DEF ProcInv, TableInv
  <2> QED BY <2>1, <2>2, <2>3 DEF ProcInv
<1>13. ProcInv(c)'
  <2>1. CallInv(c)'
    BY <1>2, <1>4, <1>6, <1>7 DEF CallInv, NoCall
  <2>2. FaultInv(c)'
    BY <1>2, <1>6 DEF FaultInv, Faulting, NoCall
  <2>3. TableInv(c)'
    BY <1>2, <1>4, <1>7 DEF ProcInv, TableInv
  <2> QED BY <2>1, <2>2, <2>3 DEF ProcInv
<1>14. Len(nodes') <= MaxNodes /\ DOMAIN nodes \subseteq DOMAIN nodes'
  BY <1>3, <1>5
<1> QED BY <1>2, <1>9, <1>10, <1>11, <1>12, <1>13, <1>14, Assemble

LEMMA ExecInv ==
  ASSUME SpaceInv, NEW p \in Procs, Exec(p)
  PROVE  SpaceInv'
<1>0. At(p, "user") /\ Goto(p, "clear")
  BY DEF Exec
<1>1. TypeOK /\ ForkInv /\ ProcInv(p) /\ status[p] = "live" /\ pc[p] = "user" /\ Len(nodes) <= MaxNodes
      /\ call[p] = NoCall
  BY <1>0, AtIs DEF SpaceInv, CallInv
<1>2. /\ supply' = supply /\ status' = status /\ pd' = pd /\ table' = table /\ page' = page
      /\ entries' = entries /\ call' = call /\ nodes' = nodes /\ nodeList' = nodeList /\ freed' = freed
      /\ shows' = shows /\ halt' = halt
  BY DEF Exec, spaceVars, nodeVars
<1>3. /\ pc' \in [Procs -> Points] /\ pc'[p] = "clear" /\ \A q \in Procs \ {p} : pc'[q] = pc[q]
  BY <1>1, <1>0, GotoIs DEF Points
<1>4. TypeOK'
  BY <1>1, <1>2, <1>3 DEF TypeOK
<1>5. \A q \in Procs \ {p} : Same(q)
  BY <1>2, <1>3 DEF Same
<1>6. ForkInv'
  <2>1. \A q \in Procs : pc'[q] = "fork" => pc[q] = "fork" /\ call'[q].child = call[q].child
    BY <1>2, <1>3
  <2> QED BY <1>1, <1>2, <2>1, ForkSame
<1>7. ProcInv(p)'
  <2>1. CallInv(p)'
    BY <1>1, <1>2, <1>3 DEF CallInv, ProcInv
  <2>2. FaultInv(p)'
    BY <1>1, <1>2, <1>3 DEF FaultInv, Faulting, NoCall
  <2>3. TableInv(p)'
    BY <1>1, <1>2 DEF ProcInv, TableInv
  <2> QED BY <2>1, <2>2, <2>3 DEF ProcInv
<1>8. Len(nodes') <= MaxNodes /\ DOMAIN nodes \subseteq DOMAIN nodes'
  BY <1>1, <1>2
<1> QED BY <1>4, <1>5, <1>6, <1>7, <1>8, Assemble

(* FreeIn() of a table that is there.                                      *)
LEMMA FreeInIs ==
  ASSUME TypeOK, NEW p \in Procs, NEW i \in Pdis, table[p][i] # None, FreeIn(p, i), TableInv(p)
  PROVE  /\ supply' \in Seq(Frames)
         /\ shows' \in [Frames -> {Zeroes, FreeLink} \union (Files \X Nat)]
         /\ table' \in [Procs -> [Pdis -> FrameOrNone]]
         /\ page' \in [Procs -> [Vpns -> FrameOrNone]]
         /\ \A q \in Procs \ {p} : table'[q] = table[q] /\ page'[q] = page[q]
         /\ \A v \in Vpns : page'[p][v] # None => table'[p][Pdi(v)] # None
         /\ \A v \in Vpns : page'[p][v] \in {None, page[p][v]}
         /\ \/ \E v \in Vpns : /\ page[p][v] # None /\ Dealloc(page[p][v])
                               /\ page' = [page EXCEPT ![p][v] = None] /\ table' = table
            \/ Dealloc(table[p][i]) /\ table' = [table EXCEPT ![p][i] = None] /\ page' = page
<1>1. CASE PagesIn(p, i) # {}
  <2>1. PICK v : v = Lowest(PagesIn(p, i))
    OBVIOUS
  <2>2. v \in PagesIn(p, i)
    <3>1. PagesIn(p, i) \subseteq Nat
      BY Constants DEF PagesIn
    <3> QED BY <1>1, <2>1, <3>1, LowestIn
  <2>3. v \in Vpns /\ page[p][v] # None /\ page[p][v] \in Frames
    BY <2>2 DEF PagesIn, TypeOK, FrameOrNone
  <2>4. Dealloc(page[p][v]) /\ page' = [page EXCEPT ![p][v] = None] /\ table' = table
    BY <1>1, <2>1 DEF FreeIn
  <2>5. /\ supply' \in Seq(Frames)
        /\ shows' \in [Frames -> {Zeroes, FreeLink} \union (Files \X Nat)]
    BY <2>3, <2>4, DeallocType
  <2>6. /\ page' \in [Procs -> [Vpns -> FrameOrNone]]
        /\ \A q \in Procs \ {p} : page'[q] = page[q]
        /\ \A w \in Vpns : page'[p][w] \in {None, page[p][w]}
    BY <2>3, <2>4 DEF TypeOK, FrameOrNone
  <2>7. \A w \in Vpns : page'[p][w] # None => table'[p][Pdi(w)] # None
    BY <2>4, <2>6 DEF TableInv
  <2> QED BY <2>3, <2>4, <2>5, <2>6, <2>7 DEF TypeOK
<1>2. CASE PagesIn(p, i) = {}
  <2>1. Dealloc(table[p][i]) /\ table' = [table EXCEPT ![p][i] = None] /\ page' = page
    BY <1>2 DEF FreeIn
  <2>2. table[p][i] \in Frames
    BY DEF TypeOK, FrameOrNone
  <2>3. /\ supply' \in Seq(Frames)
        /\ shows' \in [Frames -> {Zeroes, FreeLink} \union (Files \X Nat)]
    BY <2>1, <2>2, DeallocType
  <2>4. /\ table' \in [Procs -> [Pdis -> FrameOrNone]]
        /\ \A q \in Procs \ {p} : table'[q] = table[q]
        /\ \A j \in Pdis \ {i} : table'[p][j] = table[p][j]
    BY <2>1 DEF TypeOK, FrameOrNone
  <2>5. \A w \in Vpns : page[p][w] # None => Pdi(w) # i /\ table[p][Pdi(w)] # None
    BY <1>2 DEF PagesIn, TableInv
  <2>6. \A w \in Vpns : page'[p][w] # None => table'[p][Pdi(w)] # None
    BY <2>1, <2>4, <2>5, PdiOf
  <2> QED BY <2>1, <2>3, <2>4, <2>6 DEF TypeOK
<1> QED BY <1>1, <1>2

LEMMA ClearableIs ==
  ASSUME NEW p, Clearable(p) # {}
  PROVE  Lowest(Clearable(p)) \in Pdis /\ table[p][Lowest(Clearable(p))] # None
<1>1. Clearable(p) \subseteq Nat
  BY PdisNat DEF Clearable
<1>2. Lowest(Clearable(p)) \in Clearable(p)
  BY <1>1, LowestIn
<1> QED BY <1>2 DEF Clearable

LEMMA ExecClearInv ==
  ASSUME SpaceInv, NEW p \in Procs, ExecClear(p)
  PROVE  SpaceInv'
<1>0. At(p, "clear") /\ Clearable(p) # {}
  BY DEF ExecClear
<1>1. TypeOK /\ ForkInv /\ ProcInv(p) /\ TableInv(p) /\ status[p] = "live" /\ pc[p] = "clear"
      /\ Len(nodes) <= MaxNodes
  BY <1>0, AtIs DEF SpaceInv
<1>2. PICK i : i = Lowest(Clearable(p))
  OBVIOUS
<1>3. i \in Pdis /\ table[p][i] # None /\ FreeIn(p, i)
  BY <1>0, <1>2, ClearableIs DEF ExecClear
<1>4. /\ status' = status /\ pc' = pc /\ pd' = pd /\ entries' = entries /\ call' = call
      /\ nodes' = nodes /\ nodeList' = nodeList /\ freed' = freed /\ halt' = halt
  BY DEF ExecClear, nodeVars
<1>5. /\ supply' \in Seq(Frames)
      /\ shows' \in [Frames -> {Zeroes, FreeLink} \union (Files \X Nat)]
      /\ table' \in [Procs -> [Pdis -> FrameOrNone]]
      /\ page' \in [Procs -> [Vpns -> FrameOrNone]]
      /\ \A q \in Procs \ {p} : table'[q] = table[q] /\ page'[q] = page[q]
      /\ \A v \in Vpns : page'[p][v] # None => table'[p][Pdi(v)] # None
  BY <1>1, <1>3, FreeInIs
<1>6. TypeOK'
  BY <1>1, <1>4, <1>5 DEF TypeOK
<1>7. \A q \in Procs \ {p} : Same(q)
  BY <1>4, <1>5 DEF Same
<1>8. ForkInv'
  BY <1>1, <1>4 DEF ForkInv
<1>9. ProcInv(p)'
  <2>1. CallInv(p)'
    BY <1>1, <1>4 DEF CallInv, ProcInv
  <2>2. FaultInv(p)'
    BY <1>1, <1>4 DEF ProcInv, FaultInv, Faulting
  <2>3. TableInv(p)'
    BY <1>1, <1>4, <1>5 DEF TableInv
  <2> QED BY <2>1, <2>2, <2>3 DEF ProcInv
<1>10. Len(nodes') <= MaxNodes /\ DOMAIN nodes \subseteq DOMAIN nodes'
  BY <1>1, <1>4
<1> QED BY <1>6, <1>7, <1>8, <1>9, <1>10, Assemble

LEMMA AnonymousType ==
  ASSUME NEW m \in {Image, Stack}
  PROVE  Anonymous(m) \in [addr : 0..(Space - 1), length : Nat, file : Files \union {None},
                           off : Nat, shared : BOOLEAN, fixed : BOOLEAN, read : BOOLEAN]
<1>1. m \in [addr : 0..(Space - 1), length : Nat]
  BY VMMAssumption
<1> QED BY <1>1 DEF Anonymous

LEMMA ExecLoadInv ==
  ASSUME SpaceInv, NEW p \in Procs, ExecLoad(p)
  PROVE  SpaceInv'
<1>0. At(p, "clear") /\ Return(p)
  BY DEF ExecLoad
<1>1. TypeOK /\ ForkInv /\ ProcInv(p) /\ status[p] = "live" /\ pc[p] = "clear"
      /\ Len(nodes) <= MaxNodes
  BY <1>0, AtIs DEF SpaceInv
<1>2. /\ supply' = supply /\ status' = status /\ pd' = pd /\ table' = table /\ page' = page
      /\ nodes' = nodes /\ nodeList' = nodeList /\ freed' = freed /\ shows' = shows /\ halt' = halt
  BY DEF ExecLoad, spaceVars, nodeVars
<1>3. PICK image, stack \in Leftovers :
        entries' = [entries EXCEPT
          ![p] = Insert(Insert(@, Anonymous(Image), image), Anonymous(Stack), stack)]
  BY DEF ExecLoad
<1>4. entries' \in [Procs -> Seq(Entry)] /\ \A q \in Procs \ {p} : entries'[q] = entries[q]
  <2>1. {image, stack} \subseteq NodeIds \union StaleIds \union {None, Junk}
    BY <1>1, LeftoversType
  <2>2. PICK es : es = Insert(entries[p], Anonymous(Image), image)
    OBVIOUS
  <2>3. es \in Seq(Entry)
    BY <1>1, <2>1, <2>2, AnonymousType, InsertType DEF TypeOK
  <2>4. Insert(es, Anonymous(Stack), stack) \in Seq(Entry)
    BY <2>1, <2>3, AnonymousType, InsertType
  <2> QED BY <1>1, <1>3, <2>2, <2>4 DEF TypeOK
<1>5. /\ pc' \in [Procs -> Points] /\ pc'[p] = "user"
      /\ call' \in [Procs -> Call] /\ call'[p] = NoCall
      /\ \A q \in Procs \ {p} : pc'[q] = pc[q] /\ call'[q] = call[q]
  BY <1>0, <1>1, ReturnIs
<1>6. TypeOK'
  BY <1>1, <1>2, <1>4, <1>5 DEF TypeOK
<1>7. \A q \in Procs \ {p} : Same(q)
  BY <1>2, <1>4, <1>5 DEF Same
<1>8. ForkInv'
  <2>1. \A q \in Procs : pc'[q] = "fork" => pc[q] = "fork" /\ call'[q].child = call[q].child
    BY <1>5
  <2> QED BY <1>1, <1>2, <2>1, ForkSame
<1>9. ProcInv(p)'
  <2>1. CallInv(p)'
    BY <1>1, <1>2, <1>5 DEF CallInv, ProcInv, NoCall
  <2>2. FaultInv(p)'
    BY <1>5 DEF FaultInv, Faulting, NoCall
  <2>3. TableInv(p)'
    BY <1>1, <1>2 DEF ProcInv, TableInv
  <2> QED BY <2>1, <2>2, <2>3 DEF ProcInv
<1>10. Len(nodes') <= MaxNodes /\ DOMAIN nodes \subseteq DOMAIN nodes'
  BY <1>1, <1>2
<1> QED BY <1>6, <1>7, <1>8, <1>9, <1>10, Assemble

LEMMA ExitInv ==
  ASSUME SpaceInv, NEW p \in Procs, Exit(p)
  PROVE  SpaceInv'
<1>0. At(p, "user") /\ Count(entries[p], -1) /\ Die(p)
  BY DEF Exit
<1>1. TypeOK /\ status[p] = "live" /\ Len(nodes) <= MaxNodes /\ entries[p] \in Seq(Entry)
  BY <1>0, AtIs DEF SpaceInv, TypeOK
<1>2. /\ supply' = supply /\ UNCHANGED spaceVars /\ nodeList' = nodeList /\ freed' = freed /\ shows' = shows
  BY DEF Exit
<1>3. /\ nodes' \in Seq([file : Files, pa : Frames, num : 0..(NumMod - 1)])
      /\ DOMAIN nodes' = DOMAIN nodes /\ Len(nodes') = Len(nodes)
      /\ halt' \in {"no", "panic", "wild"}
  <2>1. -1 \in Int
    OBVIOUS
  <2> QED BY <1>0, <1>1, <2>1, CountType
<1>4. nodeList' \in Seq(DOMAIN nodes') /\ freed' \subseteq NodeIds
  BY <1>1, <1>2, <1>3 DEF TypeOK
<1> QED BY <1>0, <1>1, <1>2, <1>3, <1>4, DieInv

LEMMA DeletePdInv ==
  ASSUME SpaceInv, NEW p \in Procs, DeletePd(p)
  PROVE  SpaceInv'
<1> DEFINE left == {i \in Pdis : table[p][i] # None}
<1>0. status[p] = "exited"
  BY DEF DeletePd
<1>1. TypeOK /\ ForkInv /\ ProcInv(p) /\ TableInv(p) /\ Len(nodes) <= MaxNodes
      /\ pc[p] = "user" /\ call[p] = NoCall /\ pd[p] # None
  BY <1>0 DEF SpaceInv, ProcInv, CallInv
<1>2. /\ pc' = pc /\ entries' = entries /\ call' = call /\ nodes' = nodes /\ nodeList' = nodeList /\ freed' = freed
      /\ halt' = halt
  BY DEF DeletePd, nodeVars
<1>3. Len(nodes') <= MaxNodes /\ DOMAIN nodes \subseteq DOMAIN nodes'
  BY <1>1, <1>2
<1>4. CASE left # {}
  <2>1. PICK i : i = Lowest(left)
    OBVIOUS
  <2>2. i \in left
    BY <1>4, <2>1, PdisNat, LowestIn
  <2>3. i \in Pdis /\ table[p][i] # None /\ FreeIn(p, i) /\ pd' = pd /\ status' = status
    BY <1>4, <2>1, <2>2 DEF DeletePd
  <2>4. /\ supply' \in Seq(Frames)
        /\ shows' \in [Frames -> {Zeroes, FreeLink} \union (Files \X Nat)]
        /\ table' \in [Procs -> [Pdis -> FrameOrNone]]
        /\ page' \in [Procs -> [Vpns -> FrameOrNone]]
        /\ \A q \in Procs \ {p} : table'[q] = table[q] /\ page'[q] = page[q]
        /\ \A v \in Vpns : page'[p][v] # None => table'[p][Pdi(v)] # None
    BY <1>1, <2>3, FreeInIs
  <2>5. TypeOK'
    BY <1>1, <1>2, <2>3, <2>4 DEF TypeOK
  <2>6. \A q \in Procs \ {p} : Same(q)
    BY <1>2, <2>3, <2>4 DEF Same
  <2>7. ForkInv'
    BY <1>1, <1>2, <2>3 DEF ForkInv
  <2>8. ProcInv(p)'
    <3>1. CallInv(p)'
      BY <1>1, <1>2, <2>3 DEF CallInv, ProcInv, NoCall
    <3>2. FaultInv(p)'
      BY <1>1, <1>2 DEF FaultInv, Faulting, NoCall
    <3>3. TableInv(p)'
      BY <1>0, <2>3, <2>4 DEF TableInv
    <3> QED BY <3>1, <3>2, <3>3 DEF ProcInv
  <2> QED BY <1>3, <2>5, <2>6, <2>7, <2>8, Assemble
<1>5. CASE left = {}
  <2>1. /\ Dealloc(pd[p]) /\ pd' = [pd EXCEPT ![p] = None]
        /\ status' = [status EXCEPT ![p] = "gone"] /\ table' = table /\ page' = page
    BY <1>5 DEF DeletePd
  <2>2. pd[p] \in Frames
    BY <1>1 DEF TypeOK, FrameOrNone
  <2>3. /\ supply' \in Seq(Frames)
        /\ shows' \in [Frames -> {Zeroes, FreeLink} \union (Files \X Nat)]
    BY <1>1, <2>1, <2>2, DeallocType
  <2>4. /\ pd' \in [Procs -> FrameOrNone] /\ pd'[p] = None /\ \A q \in Procs \ {p} : pd'[q] = pd[q]
    BY <1>1, <2>1 DEF TypeOK, FrameOrNone
  <2>5. /\ status' \in [Procs -> {"unborn", "young", "live", "exited", "gone"}]
        /\ status'[p] = "gone" /\ \A q \in Procs \ {p} : status'[q] = status[q]
    BY <1>1, <2>1 DEF TypeOK
  <2>6. TypeOK'
    BY <1>1, <1>2, <2>1, <2>3, <2>4, <2>5 DEF TypeOK
  <2>7. \A q \in Procs \ {p} : Same(q)
    BY <1>2, <2>1, <2>4, <2>5 DEF Same
  <2>8. ForkInv'
    <3>1. \A c \in Procs : status[c] = "young" => status'[c] = "young"
      BY <1>0, <2>5
    <3> QED BY <1>1, <1>2, <3>1, ForkSame
  <2>9. ProcInv(p)'
    <3>1. CallInv(p)'
      BY <1>1, <1>2, <2>5 DEF CallInv, NoCall
    <3>2. FaultInv(p)'
      BY <1>1, <1>2 DEF FaultInv, Faulting, NoCall
    <3>3. TableInv(p)'
      BY <1>1, <1>5, <2>1, <2>4 DEF TableInv
    <3> QED BY <3>1, <3>2, <3>3 DEF ProcInv
  <2> QED BY <1>3, <2>6, <2>7, <2>8, <2>9, Assemble
<1> QED BY <1>4, <1>5

LEMMA OutOfFramesInv ==
  ASSUME SpaceInv, NEW p \in Procs, OutOfFrames(p)
  PROVE  SpaceInv'
<1>1. TypeOK /\ ForkInv /\ Len(nodes) <= MaxNodes /\ ProcInv(p)
  BY DEF SpaceInv, ProcInv
<1>2. /\ supply' = supply /\ status' = status /\ pc' = pc /\ pd' = pd /\ table' = table
      /\ page' = page /\ entries' = entries /\ call' = call /\ nodes' = nodes
      /\ nodeList' = nodeList /\ freed' = freed /\ shows' = shows /\ halt' = "panic"
  BY DEF OutOfFrames, spaceVars, nodeVars
<1>3. TypeOK'
  BY <1>1, <1>2 DEF TypeOK
<1>4. \A q \in Procs : Same(q)
  BY <1>2 DEF Same
<1>5. ForkInv'
  BY <1>1, <1>2 DEF ForkInv
<1>6. Len(nodes') <= MaxNodes /\ DOMAIN nodes \subseteq DOMAIN nodes'
  BY <1>1, <1>2
<1>7. ProcInv(p)'
  BY <1>1, <1>4, <1>6, SameInv
<1> QED BY <1>3, <1>4, <1>5, <1>6, <1>7, Assemble

LEMMA InitSpaceInv == Init => SpaceInv
<1> SUFFICES ASSUME Init PROVE SpaceInv
  OBVIOUS
<1>1. TypeOK
  <2>1. supply \in Seq(Frames)
    <3>1. PICK n : n = NFrames - 2
      OBVIOUS
    <3>2. n \in Nat /\ supply = [i \in 1..n |-> i + 2]
      BY <3>1, Constants DEF Init
    <3>3. \A i \in 1..n : i + 2 \in Frames
      BY <3>1, Constants DEF Frames
    <3>4. supply \in [1..n -> Frames]
      BY <3>2, <3>3
    <3> QED BY <3>2, <3>4, FunIsSeq
  <2>2. /\ status \in [Procs -> {"unborn", "young", "live", "exited", "gone"}]
        /\ pc \in [Procs -> Points]
        /\ entries \in [Procs -> Seq(Entry)]
        /\ halt \in {"no", "panic", "wild"}
    BY DEF Init, Points
  <2>3. /\ pd \in [Procs -> FrameOrNone]
        /\ table \in [Procs -> [Pdis -> FrameOrNone]]
        /\ page \in [Procs -> [Vpns -> FrameOrNone]]
    <3>1. 1 \in Frames /\ 2 \in Frames
      BY Constants DEF Frames
    <3> QED BY <3>1 DEF Init, FrameOrNone, Nowhere
  <2>4. call \in [Procs -> Call]
    BY NoCallType DEF Init
  <2>5. nodes \in Seq([file : Files, pa : Frames, num : 0..(NumMod - 1)]) /\ nodeList \in Seq(DOMAIN nodes)
        /\ freed \subseteq NodeIds
    BY DEF Init
  <2>6. shows \in [Frames -> {Zeroes, FreeLink} \union (Files \X Nat)]
    BY DEF Init
  <2> QED BY <2>1, <2>2, <2>3, <2>4, <2>5, <2>6 DEF TypeOK
<1>2. Len(nodes) <= MaxNodes
  BY Constants DEF Init
<1>3. ASSUME NEW p \in Procs PROVE CallInv(p) /\ FaultInv(p) /\ TableInv(p)
  <2>0. 1 # None
    <3>1. 1 \in Frames
      BY Constants DEF Frames
    <3> QED BY <3>1, Constants
  <2>1. CallInv(p)
    BY <2>0 DEF Init, CallInv
  <2>2. FaultInv(p)
    BY DEF Init, FaultInv, Faulting, NoCall
  <2>3. TableInv(p)
    BY DEF Init, TableInv, Nowhere
  <2> QED BY <2>1, <2>2, <2>3
<1>4. ForkInv
  BY DEF Init, ForkInv
<1> QED BY <1>1, <1>2, <1>3, <1>4 DEF SpaceInv

LEMMA NextSpaceInv == SpaceInv /\ [Next]_vars => SpaceInv'
<1> SUFFICES ASSUME SpaceInv, [Next]_vars PROVE SpaceInv'
  OBVIOUS
<1>1. CASE UNCHANGED vars
  <2>1. /\ supply' = supply /\ status' = status /\ pc' = pc /\ pd' = pd /\ table' = table
        /\ page' = page /\ entries' = entries /\ call' = call /\ nodes' = nodes
        /\ nodeList' = nodeList /\ freed' = freed /\ shows' = shows /\ halt' = halt
    BY <1>1 DEF vars, spaceVars, nodeVars
  <2>2. TypeOK'
    BY <2>1 DEF SpaceInv, TypeOK
  <2>3. \A q \in Procs : Same(q)
    BY <2>1 DEF Same
  <2>4. ForkInv' /\ Len(nodes') <= MaxNodes
    BY <2>1 DEF SpaceInv, ForkInv
  <2>5. \A q \in Procs : ProcInv(q)'
    BY <2>1, <2>3, SameInv DEF SpaceInv, ProcInv
  <2> QED BY <2>2, <2>4, <2>5 DEF SpaceInv, ProcInv
<1>2. CASE Next
  <2>1. PICK p \in Procs : Step(p)
    BY <1>2 DEF Next
  <2>2. CASE \E r \in Requests : Mmap(p, r)
    BY <2>2, MmapInv
  <2>3. CASE FaultFatal(p)
    BY <2>3, FaultFatalInv
  <2>4. CASE \E v \in Touches : FaultMiss(p, v)
    BY <2>4, FaultMissInv
  <2>5. CASE \E v \in Touches : FaultHit(p, v)
    BY <2>5, FaultHitInv
  <2>6. CASE \E i \in DOMAIN entries[p] : Munmap(p, i)
    BY <2>6, MunmapInv
  <2> QED
    BY <2>1, <2>2, <2>3, <2>4, <2>5, <2>6, FaultAllocInv, LinkNodeInv, ReadFileInv, MapTableInv,
       MapPageInv, UnmapInv, UnlinkInv, ForkStartInv, ForkPdInv, ForkCopyInv, ForkEndInv,
       ExecInv, ExecClearInv, ExecLoadInv, ExitInv, KillInv, DeletePdInv, OutOfFramesInv
    DEF Step
<1> QED BY <1>1, <1>2

(* The state of the address spaces, of the node list and of the calls under *)
(* way keeps its shape, and a call keeps in hand what its next step needs.  *)
THEOREM SpaceInvariant == Spec => []SpaceInv
<1> QED BY InitSpaceInv, NextSpaceInv, PTL DEF Spec

(* ... in particular every frame number that the kernel dereferences or    *)
(* frees is one.                                                           *)
THEOREM VMMTypeCorrect == Spec => []TypeOK
<1>1. SpaceInv => TypeOK
  BY DEF SpaceInv
<1> QED BY <1>1, SpaceInvariant, PTL

-----------------------------------------------------------------------------
(* Who owns the frames.  supply and the slots are a list q and a function  *)
(* R of slots to frames; the lemmas say what taking a frame, giving it     *)
(* back, moving it and dropping it do to any of them.                      *)
Exclusive(S, q, R) ==
  /\ \A i, j \in DOMAIN q : q[i] = q[j] => i = j
  /\ \A i \in DOMAIN q : \A s \in S : R[s] # q[i]
  /\ \A s, t \in S : R[s] = R[t] /\ R[s] # None => s = t
Complete(S, q, R) ==
  \A f \in Frames : (\E i \in DOMAIN q : q[i] = f) \/ \E s \in S : R[s] = f

LEMMA TakeFrame ==
  ASSUME NEW S, NEW q \in Seq(Frames), NEW R \in [S -> FrameOrNone], NEW Q \in [S -> FrameOrNone],
         NEW s \in S, q # <<>>, R[s] = None, Q[s] = Head(q), \A t \in S : t # s => Q[t] = R[t],
         Exclusive(S, q, R)
  PROVE  /\ Exclusive(S, Tail(q), Q)
         /\ Complete(S, q, R) => Complete(S, Tail(q), Q)
<1> DEFINE z == Tail(q)
           n == Len(q)
<1>1. /\ Head(q) \in Frames /\ Head(q) = q[1] /\ DOMAIN z = 1..(n - 1)
      /\ \A i \in 1..(n - 1) : z[i] = q[i + 1]
  BY HeadTailIs
<1>2. n \in Nat /\ n > 0 /\ DOMAIN q = 1..n /\ \A i \in 1..n : q[i] \in Frames
  BY SeqIs
<1> HIDE DEF z, n
<1>3. \A i \in DOMAIN z : i + 1 \in DOMAIN q /\ i + 1 # 1 /\ z[i] = q[i + 1] /\ i \in Nat
  BY <1>1, <1>2
<1>4. \A i \in DOMAIN q : i # 1 => i - 1 \in DOMAIN z /\ z[i - 1] = q[i]
  BY <1>1, <1>2
<1>5. 1 \in DOMAIN q /\ None \notin Frames
  BY <1>2, Constants
<1>6. \A i, j \in DOMAIN z : z[i] = z[j] => i = j
  <2> SUFFICES ASSUME NEW i \in DOMAIN z, NEW j \in DOMAIN z, z[i] = z[j] PROVE i = j
    OBVIOUS
  <2>1. i + 1 = j + 1
    BY <1>3 DEF Exclusive
  <2> QED BY <1>3, <2>1
<1>7. \A i \in DOMAIN z : \A t \in S : Q[t] # z[i]
  <2> SUFFICES ASSUME NEW i \in DOMAIN z, NEW t \in S PROVE Q[t] # z[i]
    OBVIOUS
  <2>1. CASE t = s
    BY <2>1, <1>1, <1>3, <1>5 DEF Exclusive
  <2>2. CASE t # s
    BY <2>2, <1>3 DEF Exclusive
  <2> QED BY <2>1, <2>2
<1>8. \A t, u \in S : Q[t] = Q[u] /\ Q[t] # None => t = u
  BY <1>1, <1>5 DEF Exclusive
<1>9. ASSUME Complete(S, q, R) PROVE Complete(S, z, Q)
  <2> SUFFICES ASSUME NEW f \in Frames
               PROVE  (\E i \in DOMAIN z : z[i] = f) \/ \E t \in S : Q[t] = f
    BY DEF Complete
  <2>1. CASE \E i \in DOMAIN q : q[i] = f
    BY <2>1, <1>1, <1>4
  <2>2. CASE \E t \in S : R[t] = f
    BY <2>2, <1>5
  <2> QED BY <1>9, <2>1, <2>2 DEF Complete
<1> QED BY <1>6, <1>7, <1>8, <1>9 DEF Exclusive, z

LEMMA GiveFrame ==
  ASSUME NEW S, NEW q \in Seq(Frames), NEW R \in [S -> FrameOrNone], NEW Q \in [S -> FrameOrNone],
         NEW s \in S, R[s] # None, Q[s] = None, \A t \in S : t # s => Q[t] = R[t],
         Exclusive(S, q, R)
  PROVE  /\ Exclusive(S, <<R[s]>> \o q, Q)
         /\ Complete(S, q, R) => Complete(S, <<R[s]>> \o q, Q)
<1> DEFINE z == <<R[s]>> \o q
           n == Len(q)
<1>0. R[s] \in Frames
  BY DEF FrameOrNone
<1>1. /\ DOMAIN z = 1..(n + 1) /\ z[1] = R[s] /\ \A i \in 1..n : z[i + 1] = q[i]
  BY <1>0, ConsIs
<1>2. n \in Nat /\ DOMAIN q = 1..n /\ \A i \in 1..n : q[i] \in Frames
  BY SeqIs
<1> HIDE DEF z, n
<1>3. \A i \in DOMAIN q : i + 1 \in DOMAIN z /\ z[i + 1] = q[i]
  BY <1>1, <1>2
<1>4. \A i \in DOMAIN z : i # 1 => i - 1 \in DOMAIN q /\ z[i] = q[i - 1] /\ i \in Nat
  <2> TAKE i \in DOMAIN z
  <2>1. i # 1 => i - 1 \in 1..n /\ (i - 1) + 1 = i
    BY <1>1, <1>2
  <2> QED BY <2>1, <1>1, <1>2
<1>5. 1 \in DOMAIN z /\ None \notin Frames
  BY <1>1, <1>2, Constants
<1>6. \A i, j \in DOMAIN z : z[i] = z[j] => i = j
  <2> SUFFICES ASSUME NEW i \in DOMAIN z, NEW j \in DOMAIN z, z[i] = z[j] PROVE i = j
    OBVIOUS
  <2>1. CASE i = 1 /\ j # 1
    BY <2>1, <1>1, <1>4 DEF Exclusive
  <2>2. CASE i # 1 /\ j = 1
    BY <2>2, <1>1, <1>4 DEF Exclusive
  <2>3. CASE i # 1 /\ j # 1
    <3>1. i - 1 = j - 1
      BY <2>3, <1>4 DEF Exclusive
    <3> QED BY <2>3, <3>1, <1>4
  <2> QED BY <2>1, <2>2, <2>3
<1>7. \A i \in DOMAIN z : \A t \in S : Q[t] # z[i]
  <2> SUFFICES ASSUME NEW i \in DOMAIN z, NEW t \in S PROVE Q[t] # z[i]
    OBVIOUS
  <2>1. CASE i = 1
    BY <2>1, <1>0, <1>1, <1>5 DEF Exclusive
  <2>2. CASE i # 1
    BY <2>2, <1>2, <1>4, <1>5 DEF Exclusive
  <2> QED BY <2>1, <2>2
<1>8. \A t, u \in S : Q[t] = Q[u] /\ Q[t] # None => t = u
  BY DEF Exclusive
<1>9. ASSUME Complete(S, q, R) PROVE Complete(S, z, Q)
  <2> SUFFICES ASSUME NEW f \in Frames
               PROVE  (\E i \in DOMAIN z : z[i] = f) \/ \E t \in S : Q[t] = f
    BY DEF Complete
  <2>1. CASE \E i \in DOMAIN q : q[i] = f
    BY <2>1, <1>3
  <2>2. CASE \E t \in S : R[t] = f
    BY <2>2, <1>1, <1>5
  <2> QED BY <1>9, <2>1, <2>2 DEF Complete
<1> QED BY <1>6, <1>7, <1>8, <1>9 DEF Exclusive, z

LEMMA MoveFrame ==
  ASSUME NEW S, NEW q \in Seq(Frames), NEW R \in [S -> FrameOrNone], NEW Q \in [S -> FrameOrNone],
         NEW s \in S, NEW t \in S, s # t, R[t] = None, Q[s] = None, Q[t] = R[s],
         \A u \in S \ {s, t} : Q[u] = R[u],
         Exclusive(S, q, R)
  PROVE  Exclusive(S, q, Q) /\ (Complete(S, q, R) => Complete(S, q, Q))
<1>1. \A i \in DOMAIN q : q[i] # None
  BY SeqIs, Constants
<1>2. \A i \in DOMAIN q : \A u \in S : Q[u] # q[i]
  BY <1>1 DEF Exclusive
<1>3. \A u, v \in S : Q[u] = Q[v] /\ Q[u] # None => u = v
  BY DEF Exclusive
<1>4. ASSUME Complete(S, q, R) PROVE Complete(S, q, Q)
  BY <1>4, Constants DEF Complete
<1> QED BY <1>2, <1>3, <1>4 DEF Exclusive

LEMMA DropFrame ==
  ASSUME NEW S, NEW q \in Seq(Frames), NEW R \in [S -> FrameOrNone], NEW Q \in [S -> FrameOrNone],
         NEW s \in S, Q[s] = None, \A t \in S : t # s => Q[t] = R[t],
         Exclusive(S, q, R)
  PROVE  Exclusive(S, q, Q)
<1>1. \A i \in DOMAIN q : q[i] # None
  BY SeqIs, Constants
<1> QED BY <1>1 DEF Exclusive

Refs == [s \in Slots |-> Ref(s)]

(* What a step may do with frames.                                         *)
OnlyAt(T) == \A t \in Slots \ T : Refs'[t] = Refs[t]
Keeps == supply' = supply /\ OnlyAt({})
Takes(s) == /\ supply # << >> /\ supply' = Tail(supply)
            /\ Refs[s] = None /\ Refs'[s] = Head(supply) /\ OnlyAt({s})
Gives(s) == /\ Refs[s] # None /\ supply' = <<Refs[s]>> \o supply
            /\ Refs'[s] = None /\ OnlyAt({s})
Moves(s, t) == /\ s # t /\ supply' = supply /\ Refs[t] = None
               /\ Refs'[s] = None /\ Refs'[t] = Refs[s] /\ OnlyAt({s, t})
Drops(s) == supply' = supply /\ Refs'[s] = None /\ OnlyAt({s})
FrameStep(p) ==
  \/ Keeps
  \/ \E s \in Slots : Takes(s) \/ Gives(s)
  \/ \E s, t \in Slots : Moves(s, t)
  \/ p \in Killable /\ status'[p] = "exited" /\ \E s \in Slots : Drops(s)

PdSlot(p) == <<"pd", p, 0>>
FaultSlot(p) == <<"fault", p, 0>>
TableSlot(p, i) == <<"table", p, i>>
PageSlot(p, v) == <<"page", p, v>>

LEMMA SlotKinds ==
  ASSUME NEW s \in Slots
  PROVE  \/ \E p \in Procs : s = PdSlot(p) \/ s = FaultSlot(p)
         \/ \E p \in Procs, i \in Pdis : s = TableSlot(p, i)
         \/ \E p \in Procs, v \in Vpns : s = PageSlot(p, v)
BY DEF Slots, PdSlot, FaultSlot, TableSlot, PageSlot

LEMMA SlotsIn ==
  ASSUME NEW p \in Procs
  PROVE  /\ PdSlot(p) \in Slots /\ FaultSlot(p) \in Slots
         /\ \A i \in Pdis : TableSlot(p, i) \in Slots
         /\ \A v \in Vpns : PageSlot(p, v) \in Slots
BY DEF Slots, PdSlot, FaultSlot, TableSlot, PageSlot

LEMMA SlotsDiffer ==
  ASSUME NEW p, NEW q, NEW i, NEW v, NEW j, NEW w
  PROVE  /\ PdSlot(p) = PdSlot(q) <=> p = q
         /\ FaultSlot(p) = FaultSlot(q) <=> p = q
         /\ TableSlot(p, i) = TableSlot(q, j) <=> p = q /\ i = j
         /\ PageSlot(p, v) = PageSlot(q, w) <=> p = q /\ v = w
         /\ PdSlot(p) # FaultSlot(q) /\ PdSlot(p) # TableSlot(q, i) /\ PdSlot(p) # PageSlot(q, v)
         /\ FaultSlot(p) # TableSlot(q, i) /\ FaultSlot(p) # PageSlot(q, v)
         /\ TableSlot(p, i) # PageSlot(q, v)
BY DEF PdSlot, FaultSlot, TableSlot, PageSlot

LEMMA RefsAre ==
  ASSUME NEW p \in Procs
  PROVE  /\ Refs[PdSlot(p)] = pd[p] /\ Refs'[PdSlot(p)] = pd'[p]
         /\ Refs[FaultSlot(p)] = call[p].frame /\ Refs'[FaultSlot(p)] = call'[p].frame
         /\ \A i \in Pdis : /\ Refs[TableSlot(p, i)] = table[p][i]
                            /\ Refs'[TableSlot(p, i)] = table'[p][i]
         /\ \A v \in Vpns : /\ Refs[PageSlot(p, v)] = page[p][v]
                            /\ Refs'[PageSlot(p, v)] = page'[p][v]
<1>1. \A s \in Slots : Refs[s] = Ref(s) /\ Refs'[s] = Ref(s)'
  BY DEF Refs
<1>2. /\ Ref(PdSlot(p)) = pd[p] /\ Ref(PdSlot(p))' = pd'[p]
      /\ Ref(FaultSlot(p)) = call[p].frame /\ Ref(FaultSlot(p))' = call'[p].frame
  BY DEF Ref, PdSlot, FaultSlot
<1>3. \A i \in Pdis : Ref(TableSlot(p, i)) = table[p][i] /\ Ref(TableSlot(p, i))' = table'[p][i]
  BY DEF Ref, TableSlot
<1>4. \A v \in Vpns : Ref(PageSlot(p, v)) = page[p][v] /\ Ref(PageSlot(p, v))' = page'[p][v]
  BY DEF Ref, PageSlot
<1> QED BY <1>1, <1>2, <1>3, <1>4, SlotsIn

LEMMA RefsType ==
  /\ TypeOK => Refs \in [Slots -> FrameOrNone]
  /\ TypeOK' => Refs' \in [Slots -> FrameOrNone]
<1>1. ASSUME NEW s \in Slots
      PROVE  (TypeOK => Refs[s] \in FrameOrNone) /\ (TypeOK' => Refs'[s] \in FrameOrNone)
  <2>1. CASE \E p \in Procs : s = PdSlot(p) \/ s = FaultSlot(p)
    BY <2>1, RefsAre DEF TypeOK, Call
  <2>2. CASE \E p \in Procs, i \in Pdis : s = TableSlot(p, i)
    BY <2>2, RefsAre DEF TypeOK
  <2>3. CASE \E p \in Procs, v \in Vpns : s = PageSlot(p, v)
    BY <2>3, RefsAre DEF TypeOK
  <2> QED BY <2>1, <2>2, <2>3, SlotKinds
<1>2. Refs = [s \in Slots |-> Refs[s]] /\ Refs' = [s \in Slots |-> Refs'[s]]
  BY DEF Refs
<1> QED BY <1>1, <1>2

(* Slots outside T, when each of them is known to be kept.                 *)
LEMMA OnlyAtIs ==
  ASSUME NEW T,
         \A p \in Procs : PdSlot(p) \notin T => pd'[p] = pd[p],
         \A p \in Procs : FaultSlot(p) \notin T => call'[p].frame = call[p].frame,
         \A p \in Procs, i \in Pdis : TableSlot(p, i) \notin T => table'[p][i] = table[p][i],
         \A p \in Procs, v \in Vpns : PageSlot(p, v) \notin T => page'[p][v] = page[p][v]
  PROVE  OnlyAt(T)
<1> SUFFICES ASSUME NEW s \in Slots \ T PROVE Refs'[s] = Refs[s]
  BY DEF OnlyAt
<1>1. CASE \E p \in Procs : s = PdSlot(p) \/ s = FaultSlot(p)
  BY <1>1, RefsAre
<1>2. CASE \E p \in Procs, i \in Pdis : s = TableSlot(p, i)
  BY <1>2, RefsAre
<1>3. CASE \E p \in Procs, v \in Vpns : s = PageSlot(p, v)
  BY <1>3, RefsAre
<1> QED BY <1>1, <1>2, <1>3, SlotKinds

LEMMA KeepsIs ==
  ASSUME supply' = supply, pd' = pd, table' = table, page' = page,
         \A q \in Procs : call'[q].frame = call[q].frame
  PROVE  Keeps
<1>1. OnlyAt({})
  BY OnlyAtIs
<1> QED BY <1>1 DEF Keeps

LEMMA TakesTable ==
  ASSUME TypeOK, NEW p \in Procs, NEW i \in Pdis, NEW x, table[p][i] = None, Alloc(x),
         table' = [table EXCEPT ![p][i] = Head(supply)],
         pd' = pd, page' = page, call' = call
  PROVE  TableSlot(p, i) \in Slots /\ Takes(TableSlot(p, i))
<1>1. /\ table'[p][i] = Head(supply)
      /\ \A q \in Procs, j \in Pdis : ~(q = p /\ j = i) => table'[q][j] = table[q][j]
  BY DEF TypeOK
<1>2. OnlyAt({TableSlot(p, i)})
  <2>1. \A q \in Procs, j \in Pdis :
          TableSlot(q, j) \notin {TableSlot(p, i)} => table'[q][j] = table[q][j]
    BY <1>1
  <2> QED BY <2>1, OnlyAtIs
<1>3. Refs[TableSlot(p, i)] = None /\ Refs'[TableSlot(p, i)] = Head(supply)
  BY <1>1, RefsAre
<1>4. supply # << >> /\ supply' = Tail(supply)
  BY DEF Alloc
<1> QED BY <1>2, <1>3, <1>4, SlotsIn DEF Takes

LEMMA TakesPage ==
  ASSUME TypeOK, NEW p \in Procs, NEW v \in Vpns, NEW x, page[p][v] = None, Alloc(x),
         page' = [page EXCEPT ![p][v] = Head(supply)],
         pd' = pd, table' = table, call' = call
  PROVE  PageSlot(p, v) \in Slots /\ Takes(PageSlot(p, v))
<1>1. /\ page'[p][v] = Head(supply)
      /\ \A q \in Procs, w \in Vpns : ~(q = p /\ w = v) => page'[q][w] = page[q][w]
  BY DEF TypeOK
<1>2. OnlyAt({PageSlot(p, v)})
  <2>1. \A q \in Procs, w \in Vpns :
          PageSlot(q, w) \notin {PageSlot(p, v)} => page'[q][w] = page[q][w]
    BY <1>1
  <2> QED BY <2>1, OnlyAtIs
<1>3. Refs[PageSlot(p, v)] = None /\ Refs'[PageSlot(p, v)] = Head(supply)
  BY <1>1, RefsAre
<1>4. supply # << >> /\ supply' = Tail(supply)
  BY DEF Alloc
<1> QED BY <1>2, <1>3, <1>4, SlotsIn DEF Takes

LEMMA TakesPd ==
  ASSUME TypeOK, NEW p \in Procs, NEW x, pd[p] = None, Alloc(x),
         pd' = [pd EXCEPT ![p] = Head(supply)],
         page' = page, table' = table, call' = call
  PROVE  PdSlot(p) \in Slots /\ Takes(PdSlot(p))
<1>1. pd'[p] = Head(supply) /\ \A q \in Procs : q # p => pd'[q] = pd[q]
  BY DEF TypeOK
<1>2. OnlyAt({PdSlot(p)})
  <2>1. \A q \in Procs : PdSlot(q) \notin {PdSlot(p)} => pd'[q] = pd[q]
    BY <1>1
  <2> QED BY <2>1, OnlyAtIs
<1>3. Refs[PdSlot(p)] = None /\ Refs'[PdSlot(p)] = Head(supply)
  BY <1>1, RefsAre
<1>4. supply # << >> /\ supply' = Tail(supply)
  BY DEF Alloc
<1> QED BY <1>2, <1>3, <1>4, SlotsIn DEF Takes

LEMMA TakesFault ==
  ASSUME TypeOK, NEW p \in Procs, NEW x, call[p].frame = None, Alloc(x),
         call'[p].frame = Head(supply), \A q \in Procs \ {p} : call'[q] = call[q],
         page' = page, table' = table, pd' = pd
  PROVE  FaultSlot(p) \in Slots /\ Takes(FaultSlot(p))
<1>2. OnlyAt({FaultSlot(p)})
  <2>1. \A q \in Procs : FaultSlot(q) \notin {FaultSlot(p)} => call'[q].frame = call[q].frame
    OBVIOUS
  <2> QED BY <2>1, OnlyAtIs
<1>3. Refs[FaultSlot(p)] = None /\ Refs'[FaultSlot(p)] = Head(supply)
  BY RefsAre
<1>4. supply # << >> /\ supply' = Tail(supply)
  BY DEF Alloc
<1> QED BY <1>2, <1>3, <1>4, SlotsIn DEF Takes

LEMMA GivesPage ==
  ASSUME TypeOK, NEW p \in Procs, NEW v \in Vpns, page[p][v] # None, Dealloc(page[p][v]),
         page' = [page EXCEPT ![p][v] = None],
         pd' = pd, table' = table, \A q \in Procs : call'[q].frame = call[q].frame
  PROVE  PageSlot(p, v) \in Slots /\ Gives(PageSlot(p, v))
<1>1. /\ page'[p][v] = None
      /\ \A q \in Procs, w \in Vpns : ~(q = p /\ w = v) => page'[q][w] = page[q][w]
  BY DEF TypeOK
<1>2. OnlyAt({PageSlot(p, v)})
  <2>1. \A q \in Procs, w \in Vpns :
          PageSlot(q, w) \notin {PageSlot(p, v)} => page'[q][w] = page[q][w]
    BY <1>1
  <2> QED BY <2>1, OnlyAtIs
<1>3. Refs[PageSlot(p, v)] = page[p][v] /\ Refs'[PageSlot(p, v)] = None
  BY <1>1, RefsAre
<1>4. supply' = <<page[p][v]>> \o supply
  BY DEF Dealloc
<1> QED BY <1>2, <1>3, <1>4, SlotsIn DEF Gives

LEMMA GivesTable ==
  ASSUME TypeOK, NEW p \in Procs, NEW i \in Pdis, table[p][i] # None, Dealloc(table[p][i]),
         table' = [table EXCEPT ![p][i] = None], pd' = pd, page' = page, call' = call
  PROVE  TableSlot(p, i) \in Slots /\ Gives(TableSlot(p, i))
<1>1. /\ table'[p][i] = None
      /\ \A q \in Procs, j \in Pdis : ~(q = p /\ j = i) => table'[q][j] = table[q][j]
  BY DEF TypeOK
<1>2. OnlyAt({TableSlot(p, i)})
  <2>1. \A q \in Procs, j \in Pdis :
          TableSlot(q, j) \notin {TableSlot(p, i)} => table'[q][j] = table[q][j]
    BY <1>1
  <2> QED BY <2>1, OnlyAtIs
<1>3. Refs[TableSlot(p, i)] = table[p][i] /\ Refs'[TableSlot(p, i)] = None
  BY <1>1, RefsAre
<1>4. supply' = <<table[p][i]>> \o supply
  BY DEF Dealloc
<1> QED BY <1>2, <1>3, <1>4, SlotsIn DEF Gives

LEMMA GivesPd ==
  ASSUME TypeOK, NEW p \in Procs, pd[p] # None, Dealloc(pd[p]),
         pd' = [pd EXCEPT ![p] = None], table' = table, page' = page, call' = call
  PROVE  PdSlot(p) \in Slots /\ Gives(PdSlot(p))
<1>1. pd'[p] = None /\ \A q \in Procs : q # p => pd'[q] = pd[q]
  BY DEF TypeOK
<1>2. OnlyAt({PdSlot(p)})
  <2>1. \A q \in Procs : PdSlot(q) \notin {PdSlot(p)} => pd'[q] = pd[q]
    BY <1>1
  <2> QED BY <2>1, OnlyAtIs
<1>3. Refs[PdSlot(p)] = pd[p] /\ Refs'[PdSlot(p)] = None
  BY <1>1, RefsAre
<1>4. supply' = <<pd[p]>> \o supply
  BY DEF Dealloc
<1> QED BY <1>2, <1>3, <1>4, SlotsIn DEF Gives

LEMMA FreeInGives ==
  ASSUME TypeOK, NEW p \in Procs, NEW i \in Pdis, table[p][i] # None, FreeIn(p, i), TableInv(p),
         pd' = pd, call' = call
  PROVE  \E s \in Slots : s[2] = p /\ Gives(s)
<1>1. CASE \E v \in Vpns : /\ page[p][v] # None /\ Dealloc(page[p][v])
                           /\ page' = [page EXCEPT ![p][v] = None] /\ table' = table
  <2>1. PICK v \in Vpns : /\ page[p][v] # None /\ Dealloc(page[p][v])
                          /\ page' = [page EXCEPT ![p][v] = None] /\ table' = table
    BY <1>1
  <2>2. PageSlot(p, v) \in Slots /\ Gives(PageSlot(p, v))
    BY <2>1, GivesPage
  <2> QED BY <2>2 DEF PageSlot
<1>2. CASE Dealloc(table[p][i]) /\ table' = [table EXCEPT ![p][i] = None] /\ page' = page
  <2>1. TableSlot(p, i) \in Slots /\ Gives(TableSlot(p, i))
    BY <1>2, GivesTable
  <2> QED BY <2>1 DEF TableSlot
<1> QED BY <1>1, <1>2, FreeInIs

(* A step of p where no file is mapped shared.                             *)
Ends == \A q \in Procs : status[q] \in {"exited", "gone"} => status'[q] \in {"exited", "gone"}
OwnStep(p) == PrivateInv' /\ FrameStep(p) /\ Ends

LEMMA PrivateKept ==
  ASSUME PrivateInv, nodes' = nodes, nodeList' = nodeList /\ freed' = freed,
         \A q \in Procs : entries'[q] \in Seq(Private),
         \A q \in Procs : pc'[q] = "unmap" => call'[q].physical
  PROVE  PrivateInv'
BY DEF PrivateInv

LEMMA PrivateEntry ==
  ASSUME SpaceInv, PrivateInv, NEW p \in Procs, NEW va, Find(entries[p], va) # 0
  PROVE  ~FromList(FaultEntry(p, va))
<1>1. entries[p] \in Seq(Private) /\ entries[p] \in Seq(Entry)
  BY DEF PrivateInv, SpaceInv, TypeOK
<1>2. Find(entries[p], va) \in 1..Len(entries[p])
  BY <1>1, FindIs
<1>3. FaultEntry(p, va) \in Private
  BY <1>1, <1>2, SeqIs DEF FaultEntry
<1> QED BY <1>3 DEF Private

LEMMA NoneListed ==
  ASSUME PrivateInv, NEW f
  PROVE  Listed(f) = 0
<1>1. DOMAIN nodeList = {}
  BY DEF PrivateInv
<1> QED BY <1>1 DEF Listed

LEMMA DieOwn ==
  ASSUME SpaceInv, PrivateInv, NEW p \in Procs, Die(p), UNCHANGED spaceVars, supply' = supply,
         nodes' = nodes, nodeList' = nodeList /\ freed' = freed, p \in Killable \/ call[p].frame = None
  PROVE  OwnStep(p)
<1>0. TypeOK
  BY DEF SpaceInv
<1>1. /\ pc'[p] = "user" /\ call'[p] = NoCall
      /\ \A q \in Procs \ {p} : pc'[q] = pc[q] /\ call'[q] = call[q]
  BY <1>0, ReturnIs DEF Die
<1>2. status'[p] = "exited" /\ \A q \in Procs \ {p} : status'[q] = status[q]
  BY <1>0 DEF TypeOK, Die
<1>3. entries'[p] = <<>> /\ \A q \in Procs \ {p} : entries'[q] = entries[q]
  BY <1>0 DEF TypeOK, Die
<1>4. pd' = pd /\ table' = table /\ page' = page
  BY DEF spaceVars
<1>5. PrivateInv'
  <2>0. <<>> \in Seq(Private)
    BY EmptySeq
  <2>1. \A q \in Procs : entries'[q] \in Seq(Private)
    BY <1>3, <2>0 DEF PrivateInv
  <2>2. \A q \in Procs : pc'[q] = "unmap" => call'[q].physical
    BY <1>1 DEF PrivateInv
  <2> QED BY <2>1, <2>2, PrivateKept
<1>6. FrameStep(p)
  <2>0. call'[p].frame = None
    BY <1>1 DEF NoCall
  <2>1. CASE call[p].frame = None
    <3>1. \A q \in Procs : call'[q].frame = call[q].frame
      BY <1>1, <2>0, <2>1
    <3> QED BY <1>4, <3>1, KeepsIs DEF FrameStep
  <2>2. CASE p \in Killable
    <3>1. OnlyAt({FaultSlot(p)})
      <4>1. \A q \in Procs : FaultSlot(q) \notin {FaultSlot(p)} => call'[q].frame = call[q].frame
        BY <1>1
      <4> QED BY <1>4, <4>1, OnlyAtIs
    <3>2. Refs'[FaultSlot(p)] = None /\ FaultSlot(p) \in Slots
      BY <2>0, RefsAre, SlotsIn
    <3>3. Drops(FaultSlot(p))
      BY <3>1, <3>2 DEF Drops
    <3> QED BY <1>2, <2>2, <3>2, <3>3 DEF FrameStep
  <2> QED BY <2>1, <2>2
<1>7. Ends
  BY <1>2 DEF Ends
<1> QED BY <1>5, <1>6, <1>7 DEF OwnStep

(* A step that leaves frames, status, entries and nodes alone.             *)
LEMMA QuietOwn ==
  ASSUME SpaceInv, PrivateInv, NEW p \in Procs,
         supply' = supply /\ status' = status /\ pd' = pd /\ table' = table /\ page' = page,
         nodes' = nodes /\ nodeList' = nodeList /\ freed' = freed /\ entries' = entries,
         \A q \in Procs \ {p} : pc'[q] = pc[q] /\ call'[q] = call[q],
         call'[p].frame = call[p].frame,
         pc'[p] = "unmap" => call'[p].physical
  PROVE  OwnStep(p)
<1>1. \A q \in Procs : call'[q].frame = call[q].frame
  OBVIOUS
<1>2. FrameStep(p)
  BY <1>1, KeepsIs DEF FrameStep
<1>3. PrivateInv'
  <2>1. \A q \in Procs : pc'[q] = "unmap" => call'[q].physical
    BY DEF PrivateInv
  <2>2. \A q \in Procs : entries'[q] \in Seq(Private)
    BY DEF PrivateInv
  <2> QED BY <2>1, <2>2, PrivateKept
<1> QED BY <1>2, <1>3 DEF OwnStep, Ends

(* Without shared file mappings no freed block has a pointer to a node.    *)
LEMMA PrivateLeftovers ==
  ASSUME PrivateInv
  PROVE  Leftovers \subseteq {None, Junk}
BY VMMAssumption DEF PrivateInv, Leftovers

LEMMA PrivateInsert ==
  ASSUME NEW es \in Seq(Private), NEW node \in {None, Junk},
         NEW r \in [addr : 0..(Space - 1), length : Nat, file : Files \union {None},
                    off : Nat, shared : BOOLEAN, fixed : BOOLEAN, read : BOOLEAN], ~FromList(r)
  PROVE  Insert(es, r, node) \in Seq(Private)
<1>2. Private \subseteq Entry
  BY DEF Private
<1>3. ASSUME NEW va \in 0..(Space - 1), NEW size \in 0..(Space - 1)
      PROVE  [start |-> va, size |-> size, file |-> r.file, off |-> r.off,
              shared |-> r.shared, read |-> r.read, node |-> node] \in Private
  <2>1. PICK e : e = [start |-> va, size |-> size, file |-> r.file, off |-> r.off,
              shared |-> r.shared, read |-> r.read, node |-> node]
    OBVIOUS
  <2>2. e \in Entry
    BY <2>1 DEF Entry
  <2>3. ~FromList(e) /\ e.node \in {None, Junk}
    BY <2>1 DEF FromList
  <2> QED BY <2>1, <2>2, <2>3 DEF Private
<1> QED BY <1>2, <1>3, InsertIn

LEMMA MmapOwn ==
  ASSUME SpaceInv, PrivateInv, NoSharedFiles, NEW p \in Procs, NEW r \in Requests, Mmap(p, r)
  PROVE  OwnStep(p)
<1>0. TypeOK
  BY DEF SpaceInv
<1>2. PICK node \in Leftovers : entries' = [entries EXCEPT ![p] = Insert(@, r, node)]
  BY DEF Mmap
<1>3. /\ supply' = supply /\ status' = status /\ pc' = pc /\ pd' = pd /\ table' = table
      /\ page' = page /\ call' = call /\ nodes' = nodes /\ nodeList' = nodeList /\ freed' = freed
  BY DEF Mmap, spaceVars, nodeVars
<1>4. \A q \in Procs : entries'[q] \in Seq(Private)
  <2>1. r \in [addr : 0..(Space - 1), length : Nat, file : Files \union {None},
                    off : Nat, shared : BOOLEAN, fixed : BOOLEAN, read : BOOLEAN] /\ ~FromList(r)
    BY VMMAssumption DEF NoSharedFiles
  <2>2. Insert(entries[p], r, node) \in Seq(Private)
    BY <2>1, PrivateLeftovers, PrivateInsert DEF PrivateInv
  <2> QED BY <1>0, <1>2, <2>2 DEF TypeOK, PrivateInv
<1>5. PrivateInv'
  <2>1. \A q \in Procs : pc'[q] = "unmap" => call'[q].physical
    BY <1>3 DEF PrivateInv
  <2> QED BY <1>3, <1>4, <2>1, PrivateKept
<1>6. FrameStep(p)
  <2>1. \A q \in Procs : call'[q].frame = call[q].frame
    BY <1>3
  <2> QED BY <1>3, <2>1, KeepsIs DEF FrameStep
<1> QED BY <1>3, <1>5, <1>6 DEF OwnStep, Ends

LEMMA FaultMissOwn ==
  ASSUME SpaceInv, PrivateInv, NEW p \in Procs, NEW v \in Touches, FaultMiss(p, v)
  PROVE  OwnStep(p)
<1>0. TypeOK /\ Goto(p, "alloc")
  BY DEF SpaceInv, FaultMiss
<1>1. /\ supply' = supply /\ status' = status /\ pd' = pd /\ table' = table
      /\ page' = page /\ entries' = entries /\ nodes' = nodes /\ nodeList' = nodeList /\ freed' = freed
  BY DEF FaultMiss, spaceVars, nodeVars
<1>2. PICK x, y : call' = [call EXCEPT ![p].va = x, ![p].tail = y]
  BY DEF FaultMiss
<1>3. pc'[p] = "alloc" /\ \A q \in Procs \ {p} : pc'[q] = pc[q]
  BY <1>0, GotoIs DEF Points
<1>4. call'[p].frame = call[p].frame /\ \A q \in Procs \ {p} : call'[q] = call[q]
  <2>1. call \in [Procs -> Call] /\ call[p] \in Call
    BY <1>0 DEF TypeOK
  <2>2. call'[p] = [call[p] EXCEPT !.va = x, !.tail = y] /\ \A q \in Procs \ {p} : call'[q] = call[q]
    BY <1>2, <2>1
  <2> QED BY <2>1, <2>2 DEF Call
<1> QED BY <1>1, <1>3, <1>4, QuietOwn

LEMMA FaultAllocOwn ==
  ASSUME SpaceInv, PrivateInv, NEW p \in Procs, FaultAlloc(p)
  PROVE  OwnStep(p)
<1>0. At(p, "alloc") /\ Alloc(Zeroes)
  BY DEF FaultAlloc
<1>1. TypeOK /\ pc[p] = "alloc" /\ FaultInv(p)
  BY <1>0, AtIs
<1>2. ~FromList(FaultEntry(p, call[p].va)) /\ call[p].frame = None
  BY <1>1, PrivateEntry DEF FaultInv
<1>3. nodes' = nodes /\ call' = [call EXCEPT ![p].frame = Head(supply)] /\ Goto(p, "map")
  BY <1>2 DEF FaultAlloc
<1>4. /\ status' = status /\ pd' = pd /\ table' = table /\ page' = page
      /\ entries' = entries /\ nodeList' = nodeList /\ freed' = freed
  BY DEF FaultAlloc, spaceVars
<1>5. pc'[p] = "map" /\ \A q \in Procs \ {p} : pc'[q] = pc[q]
  BY <1>1, <1>3, GotoIs DEF Points
<1>6. call'[p].frame = Head(supply) /\ \A q \in Procs \ {p} : call'[q] = call[q]
  <2>1. call \in [Procs -> Call] /\ call[p] \in Call
    BY <1>1 DEF TypeOK
  <2>2. call'[p] = [call[p] EXCEPT !.frame = Head(supply)] /\ \A q \in Procs \ {p} : call'[q] = call[q]
    BY <1>3, <2>1
  <2> QED BY <2>1, <2>2 DEF Call
<1>7. FrameStep(p)
  <2>1. FaultSlot(p) \in Slots /\ Takes(FaultSlot(p))
    BY <1>0, <1>1, <1>2, <1>4, <1>6, TakesFault
  <2> QED BY <2>1 DEF FrameStep
<1>8. PrivateInv'
  <2>1. \A q \in Procs : pc'[q] = "unmap" => call'[q].physical
    BY <1>5, <1>6 DEF PrivateInv
  <2>2. \A q \in Procs : entries'[q] \in Seq(Private)
    BY <1>4 DEF PrivateInv
  <2> QED BY <1>3, <1>4, <2>1, <2>2, PrivateKept
<1> QED BY <1>4, <1>7, <1>8 DEF OwnStep, Ends

LEMMA MapTableOwn ==
  ASSUME SpaceInv, PrivateInv, NEW p \in Procs, MapTable(p)
  PROVE  OwnStep(p)
<1>1. PICK i : i = Pdi(Vpn(call[p].va))
  OBVIOUS
<1>2. /\ At(p, "map") /\ table[p][i] = None /\ Alloc(Zeroes)
      /\ table' = [table EXCEPT ![p][i] = Head(supply)]
  BY <1>1 DEF MapTable
<1>3. /\ status' = status /\ pc' = pc /\ pd' = pd /\ page' = page /\ call' = call
      /\ entries' = entries /\ nodes' = nodes /\ nodeList' = nodeList /\ freed' = freed
  BY DEF MapTable, nodeVars
<1>4. TypeOK /\ i \in Pdis
  BY <1>1, <1>2, AtIs, FaultVpn DEF Faulting
<1>5. TableSlot(p, i) \in Slots /\ Takes(TableSlot(p, i))
  BY <1>2, <1>3, <1>4, TakesTable
<1>6. PrivateInv'
  BY <1>3 DEF PrivateInv
<1> QED BY <1>3, <1>5, <1>6 DEF OwnStep, Ends, FrameStep

LEMMA MapPageOwn ==
  ASSUME SpaceInv, PrivateInv, NEW p \in Procs, MapPage(p)
  PROVE  OwnStep(p)
<1>1. PICK v : v = Vpn(call[p].va)
  OBVIOUS
<1>2. At(p, "map") /\ Return(p) /\ page' = [page EXCEPT ![p][v] = call[p].frame]
  BY <1>1 DEF MapPage
<1>3. /\ supply' = supply /\ status' = status /\ pd' = pd /\ table' = table
      /\ entries' = entries /\ nodes' = nodes /\ nodeList' = nodeList /\ freed' = freed
  BY DEF MapPage, nodeVars
<1>4. TypeOK /\ v \in Vpns /\ page[p][v] = None
  BY <1>1, <1>2, AtIs, FaultVpn DEF Faulting
<1>5. /\ pc'[p] = "user" /\ call'[p] = NoCall
      /\ \A q \in Procs \ {p} : pc'[q] = pc[q] /\ call'[q] = call[q]
  BY <1>2, <1>4, ReturnIs
<1>6. PrivateInv'
  <2>1. \A q \in Procs : pc'[q] = "unmap" => call'[q].physical
    BY <1>5 DEF PrivateInv
  <2>2. \A q \in Procs : entries'[q] \in Seq(Private)
    BY <1>3 DEF PrivateInv
  <2> QED BY <1>3, <2>1, <2>2, PrivateKept
<1>7. Moves(FaultSlot(p), PageSlot(p, v)) /\ FaultSlot(p) \in Slots /\ PageSlot(p, v) \in Slots
  <2>1. /\ page'[p][v] = call[p].frame /\ call'[p].frame = None
        /\ \A q \in Procs, w \in Vpns : ~(q = p /\ w = v) => page'[q][w] = page[q][w]
    BY <1>2, <1>4, <1>5 DEF TypeOK, NoCall
  <2>2. OnlyAt({FaultSlot(p), PageSlot(p, v)})
    <3> DEFINE T == {FaultSlot(p), PageSlot(p, v)}
    <3>1. \A q \in Procs, w \in Vpns : PageSlot(q, w) \notin T => page'[q][w] = page[q][w]
      BY <2>1
    <3>2. \A q \in Procs : FaultSlot(q) \notin T => call'[q].frame = call[q].frame
      BY <1>5
    <3> HIDE DEF T
    <3>3. OnlyAt(T)
      BY <1>3, <3>1, <3>2, OnlyAtIs
    <3> QED BY <3>3 DEF T
  <2>3. /\ Refs[PageSlot(p, v)] = None /\ Refs'[FaultSlot(p)] = None
        /\ Refs'[PageSlot(p, v)] = Refs[FaultSlot(p)]
    BY <1>4, <2>1, RefsAre
  <2> QED BY <1>3, <1>4, <2>2, <2>3, SlotsIn, SlotsDiffer DEF Moves
<1> QED BY <1>3, <1>6, <1>7 DEF OwnStep, Ends, FrameStep

LEMMA MunmapOwn ==
  ASSUME SpaceInv, PrivateInv, NEW p \in Procs, NEW i \in DOMAIN entries[p], Munmap(p, i)
  PROVE  OwnStep(p)
<1>1. PICK e : e = entries[p][i]
  OBVIOUS
<1>2. At(p, "user")
  BY DEF Munmap
<1>3. TypeOK /\ pc[p] = "user" /\ call[p] = NoCall
  BY <1>2, AtIs DEF CallInv
<1>4. entries[p] \in Seq(Private) /\ i \in 1..Len(entries[p]) /\ e \in Private
  BY <1>1, SeqIs DEF PrivateInv
<1>5. Pointee(e) = e.node /\ e.node \notin NodeIds /\ e.shared \in BOOLEAN
  BY <1>4, PointeeType, StaleApart, Constants DEF Private, Entry
<1>6. /\ supply' = supply /\ UNCHANGED spaceVars /\ nodeList' = nodeList /\ freed' = freed
      /\ pd' = pd /\ table' = table /\ page' = page
  BY DEF Munmap, spaceVars
<1>7. CASE /\ e.shared => Pointee(e) \in NodeIds
           /\ entries' = [entries EXCEPT ![p] = RemoveAt(@, i)]
           /\ nodes' = IF e.shared THEN [nodes EXCEPT ![Pointee(e)].num = (@ - 1) % NumMod]
                       ELSE nodes
           /\ call' = [call EXCEPT ![p].va = e.start, ![p].end = End(e), ![p].node = Pointee(e),
                                   ![p].physical = e.shared => LastToGo(Pointee(e))]
           /\ Goto(p, "unmap")
           /\ UNCHANGED <<status, halt>>
  <2>1. ~e.shared /\ nodes' = nodes /\ status' = status
    BY <1>5, <1>7
  <2>2. PICK x, y, z, b : /\ call' = [call EXCEPT ![p].va = x, ![p].end = y, ![p].node = z, ![p].physical = b]
                          /\ b = (e.shared => LastToGo(Pointee(e)))
    BY <1>7
  <2>3. b
    BY <2>1, <2>2
  <2>4. /\ call'[p].physical /\ call'[p].frame = call[p].frame
        /\ \A q \in Procs \ {p} : call'[q] = call[q]
    <3>1. call'[p] = [NoCall EXCEPT !.va = x, !.end = y, !.node = z, !.physical = b]
          /\ \A q \in Procs \ {p} : call'[q] = call[q]
      BY <1>3, <2>2 DEF TypeOK
    <3> QED BY <1>3, <2>3, <3>1 DEF NoCall
  <2>5. \A q \in Procs \ {p} : pc'[q] = pc[q]
    BY <1>3, <1>7, GotoIs DEF Points
  <2>6. RemoveAt(entries[p], i) \in Seq(Private)
    BY <1>4, RemoveAtIs
  <2>7. \A q \in Procs : entries'[q] \in Seq(Private)
    BY <1>3, <1>7, <2>6 DEF TypeOK, PrivateInv
  <2>8. PrivateInv'
    <3>1. \A q \in Procs : pc'[q] = "unmap" => call'[q].physical
      BY <2>4, <2>5 DEF PrivateInv
    <3> QED BY <1>6, <2>1, <2>7, <3>1, PrivateKept
  <2>9. FrameStep(p)
    <3>1. \A q \in Procs : call'[q].frame = call[q].frame
      BY <2>4
    <3> QED BY <1>6, <3>1, KeepsIs DEF FrameStep
  <2> QED BY <2>1, <2>8, <2>9 DEF OwnStep, Ends
<1>8. CASE Die(p) /\ UNCHANGED <<nodes, halt>>
  <2>1. call[p].frame = None
    BY <1>3 DEF NoCall
  <2> QED BY <1>6, <1>8, <2>1, DieOwn
<1>9. CASE halt' = "wild" /\ UNCHANGED <<status, pc, entries, call, nodes>>
  <2>1. pc'[p] = "unmap" => call'[p].physical
    BY <1>3, <1>9
  <2> QED BY <1>6, <1>9, <2>1, QuietOwn
<1> QED BY <1>1, <1>7, <1>8, <1>9 DEF Munmap

LEMMA UnmapOwn ==
  ASSUME SpaceInv, PrivateInv, NEW p \in Procs, Unmap(p)
  PROVE  OwnStep(p)
<1>1. PICK v : v = Vpn(call[p].va)
  OBVIOUS
<1>2. At(p, "unmap")
  BY DEF Unmap
<1>3. TypeOK /\ pc[p] = "unmap" /\ call[p].physical
  BY <1>2, AtIs DEF PrivateInv
<1>4. /\ status' = status /\ pc' = pc /\ pd' = pd /\ table' = table /\ entries' = entries
      /\ nodes' = nodes /\ nodeList' = nodeList /\ freed' = freed
  BY DEF Unmap, nodeVars
<1>5. CASE /\ v \in Vpns \ {ApicPage}
           /\ page' = [page EXCEPT ![p][v] = None]
           /\ IF call[p].physical /\ page[p][v] # None THEN Dealloc(page[p][v])
              ELSE UNCHANGED <<supply, shows>>
           /\ call' = [call EXCEPT ![p].va = @ + FrameSize]
           /\ UNCHANGED halt
  <2>1. \A q \in Procs : call'[q].frame = call[q].frame /\ call'[q].physical = call[q].physical
    <3>1. call \in [Procs -> Call] /\ call[p] \in Call
      BY <1>3 DEF TypeOK
    <3>2. call'[p] = [call[p] EXCEPT !.va = call[p].va + FrameSize]
          /\ \A q \in Procs \ {p} : call'[q] = call[q]
      BY <1>5, <3>1
    <3> QED BY <3>1, <3>2 DEF Call
  <2>2. PrivateInv'
    <3>1. \A q \in Procs : pc'[q] = "unmap" => call'[q].physical
      BY <1>4, <2>1 DEF PrivateInv
    <3>2. \A q \in Procs : entries'[q] \in Seq(Private)
      BY <1>4 DEF PrivateInv
    <3> QED BY <1>4, <3>1, <3>2, PrivateKept
  <2>3. CASE page[p][v] # None
    <3>1. v \in Vpns /\ Dealloc(page[p][v]) /\ page' = [page EXCEPT ![p][v] = None]
      BY <1>3, <1>5, <2>3
    <3>2. \A q \in Procs : call'[q].frame = call[q].frame
      BY <2>1
    <3>3. PageSlot(p, v) \in Slots /\ Gives(PageSlot(p, v))
      BY <1>3, <1>4, <2>3, <3>1, <3>2, GivesPage
    <3> QED BY <1>4, <2>2, <3>3 DEF OwnStep, Ends, FrameStep
  <2>4. CASE page[p][v] = None
    <3>1. supply' = supply /\ page' = page
      <4>1. page \in [Procs -> [Vpns -> FrameOrNone]] /\ v \in Vpns
        BY <1>3, <1>5 DEF TypeOK
      <4>2. page' = page
        BY <1>5, <2>4, <4>1
      <4> QED BY <1>5, <2>4, <4>2
    <3>2. \A q \in Procs : call'[q].frame = call[q].frame
      BY <2>1
    <3>3. Keeps
      BY <1>4, <3>1, <3>2, KeepsIs
    <3> QED BY <1>4, <2>2, <3>3 DEF OwnStep, Ends, FrameStep
  <2> QED BY <2>3, <2>4
<1>6. CASE halt' = "wild" /\ UNCHANGED <<page, supply, shows, call>>
  BY <1>3, <1>4, <1>6, QuietOwn
<1> QED BY <1>1, <1>5, <1>6 DEF Unmap

LEMMA UnlinkOwn ==
  ASSUME SpaceInv, PrivateInv, NEW p \in Procs, Unlink(p)
  PROVE  OwnStep(p)
<1>0. At(p, "unmap")
  BY DEF Unlink
<1>1. TypeOK /\ pc[p] = "unmap" /\ call[p].physical /\ nodeList = <<>> /\ FaultInv(p)
  BY <1>0, AtIs DEF PrivateInv
<1>2. call[p].frame = None
  BY <1>1 DEF FaultInv
<1>3. /\ supply' = supply /\ UNCHANGED spaceVars /\ nodes' = nodes
  BY DEF Unlink
<1>4. Die(p) /\ nodeList' = nodeList /\ freed' = freed
  BY <1>1 DEF Unlink
<1> QED BY <1>2, <1>3, <1>4, DieOwn

LEMMA ForkOwn ==
  ASSUME SpaceInv, PrivateInv, NEW p \in Procs, Fork(p)
  PROVE  OwnStep(p)
<1>0. At(p, "user") /\ Goto(p, "fork")
  BY DEF Fork
<1>1. TypeOK
  BY <1>0, AtIs
<1>2. PICK c \in Procs : /\ status[c] = "unborn"
                         /\ status' = [status EXCEPT ![c] = "young"]
                         /\ call' = [call EXCEPT ![p].child = c]
  BY DEF Fork
<1>3. /\ supply' = supply /\ pd' = pd /\ table' = table /\ page' = page /\ entries' = entries
      /\ nodes' = nodes /\ nodeList' = nodeList /\ freed' = freed
  BY DEF Fork, spaceVars, nodeVars
<1>4. pc'[p] = "fork" /\ \A q \in Procs \ {p} : pc'[q] = pc[q]
  BY <1>0, <1>1, GotoIs DEF Points
<1>5. Ends
  BY <1>1, <1>2 DEF Ends, TypeOK
<1>6. call'[p].frame = call[p].frame /\ \A q \in Procs \ {p} : call'[q] = call[q]
  <2>1. call \in [Procs -> Call] /\ call[p] \in Call
    BY <1>1 DEF TypeOK
  <2>2. call'[p] = [call[p] EXCEPT !.child = c] /\ \A q \in Procs \ {p} : call'[q] = call[q]
    BY <1>2, <2>1
  <2> QED BY <2>1, <2>2 DEF Call
<1>7. PrivateInv'
  <2>1. \A q \in Procs : pc'[q] = "unmap" => call'[q].physical
    BY <1>4, <1>6 DEF PrivateInv
  <2>2. \A q \in Procs : entries'[q] \in Seq(Private)
    BY <1>3 DEF PrivateInv
  <2> QED BY <1>3, <2>1, <2>2, PrivateKept
<1>8. Keeps
  <2>1. \A q \in Procs : call'[q].frame = call[q].frame
    BY <1>6
  <2> QED BY <1>3, <2>1, KeepsIs
<1> QED BY <1>5, <1>7, <1>8 DEF OwnStep, FrameStep

LEMMA ForkPdOwn ==
  ASSUME SpaceInv, PrivateInv, NEW p \in Procs, ForkPd(p)
  PROVE  OwnStep(p)
<1>0. At(p, "fork") /\ Alloc(Zeroes)
  BY DEF ForkPd
<1>1. PICK c : c = call[p].child
  OBVIOUS
<1>2. c \in Procs /\ TypeOK
  BY <1>0, <1>1, ChildIs, AtIs
<1>3. /\ status' = status /\ pc' = pc /\ call' = call /\ entries' = entries /\ page' = page
      /\ nodes' = nodes /\ nodeList' = nodeList /\ freed' = freed
  BY DEF ForkPd, nodeVars
<1>4. PrivateInv'
  BY <1>3 DEF PrivateInv
<1>5. CASE pd[c] = None /\ pd' = [pd EXCEPT ![c] = Head(supply)] /\ table' = table
  <2>1. PdSlot(c) \in Slots /\ Takes(PdSlot(c))
    BY <1>0, <1>2, <1>3, <1>5, TakesPd
  <2> QED BY <1>3, <1>4, <2>1 DEF OwnStep, Ends, FrameStep
<1>6. CASE table[c][ApicPdi] = None /\ table' = [table EXCEPT ![c][ApicPdi] = Head(supply)] /\ pd' = pd
  <2>1. TableSlot(c, ApicPdi) \in Slots /\ Takes(TableSlot(c, ApicPdi))
    BY <1>0, <1>2, <1>3, <1>6, ApicPdiIn, TakesTable
  <2> QED BY <1>3, <1>4, <2>1 DEF OwnStep, Ends, FrameStep
<1> QED BY <1>1, <1>5, <1>6 DEF ForkPd

LEMMA ForkCopyOwn ==
  ASSUME SpaceInv, PrivateInv, NEW p \in Procs, ForkCopy(p)
  PROVE  OwnStep(p)
<1>0. At(p, "fork")
  BY DEF ForkCopy
<1>1. PICK c : c = call[p].child
  OBVIOUS
<1>2. c \in Procs /\ TypeOK
  BY <1>0, <1>1, ChildIs, AtIs
<1>3. PICK i : i = Lowest(Uncopied(p, c))
  OBVIOUS
<1>4. i \in Uncopied(p, c)
  <2>1. Uncopied(p, c) \subseteq Nat
    BY PdisNat DEF Uncopied
  <2>2. Uncopied(p, c) # {}
    BY <1>1 DEF ForkCopy
  <2> QED BY <1>3, <2>1, <2>2, LowestIn
<1>5. i \in Pdis
  BY <1>4 DEF Uncopied
<1>6. /\ status' = status /\ pc' = pc /\ call' = call /\ entries' = entries /\ pd' = pd
      /\ nodes' = nodes /\ nodeList' = nodeList /\ freed' = freed
  BY DEF ForkCopy, nodeVars
<1>7. PrivateInv'
  BY <1>6 DEF PrivateInv
<1>8. CASE table[c][i] = None
  <2>1. Alloc(Zeroes) /\ table' = [table EXCEPT ![c][i] = Head(supply)] /\ page' = page
    BY <1>1, <1>3, <1>8 DEF ForkCopy
  <2>2. TableSlot(c, i) \in Slots /\ Takes(TableSlot(c, i))
    BY <1>2, <1>5, <1>6, <1>8, <2>1, TakesTable
  <2> QED BY <1>6, <1>7, <2>2 DEF OwnStep, Ends, FrameStep
<1>9. CASE table[c][i] # None
  <2> DEFINE W == {w \in Vpns : Pdi(w) = i /\ page[p][w] # None /\ page[c][w] = None}
  <2>1. PICK v : v = Lowest(W)
    OBVIOUS
  <2>2. W # {} /\ W \subseteq Nat
    BY <1>4, <1>9, Constants DEF Uncopied
  <2>3. v \in W
    BY <2>1, <2>2, LowestIn
  <2>4. v \in Vpns /\ page[c][v] = None
    BY <2>3
  <2>5. Alloc(shows[page[p][v]]) /\ page' = [page EXCEPT ![c][v] = Head(supply)] /\ table' = table
    BY <1>1, <1>3, <1>9, <2>1 DEF ForkCopy
  <2>6. PICK x : x = shows[page[p][v]]
    OBVIOUS
  <2>7. Alloc(x)
    BY <2>5, <2>6
  <2>8. PageSlot(c, v) \in Slots /\ Takes(PageSlot(c, v))
    BY <1>2, <1>6, <2>4, <2>5, <2>7, TakesPage
  <2> QED BY <1>6, <1>7, <2>8 DEF OwnStep, Ends, FrameStep
<1> QED BY <1>8, <1>9

(* Without nodes nothing is counted.                                       *)
LEMMA CountNone ==
  ASSUME SpaceInv, PrivateInv, NEW es \in Seq(Entry), NEW n \in Int, Count(es, n)
  PROVE  nodes' = nodes
<1>1. nodes' \in Seq([file : Files, pa : Frames, num : 0..(NumMod - 1)]) /\ Len(nodes') = Len(nodes)
  BY CountType
<1>2. nodes = <<>> /\ Len(nodes) = 0
  BY DEF PrivateInv
<1>3. nodes' = <<>>
  BY <1>1, <1>2, EmptySeq
<1> QED BY <1>2, <1>3

LEMMA ForkEndOwn ==
  ASSUME SpaceInv, PrivateInv, NEW p \in Procs, ForkEnd(p)
  PROVE  OwnStep(p)
<1>0. At(p, "fork") /\ Return(p) /\ Count(entries[p], 1)
  BY DEF ForkEnd
<1>1. PICK c : c = call[p].child
  OBVIOUS
<1>2. c \in Procs /\ status[c] = "young"
  BY <1>0, <1>1, ChildIs
<1>3. TypeOK /\ pc[p] = "fork" /\ FaultInv(p) /\ entries[p] \in Seq(Entry)
  BY <1>0, AtIs DEF TypeOK
<1>4. /\ entries' = [entries EXCEPT ![c] = entries[p]]
      /\ status' = [status EXCEPT ![c] = "live"]
      /\ supply' = supply /\ pd' = pd /\ table' = table /\ page' = page
      /\ nodeList' = nodeList /\ freed' = freed
  BY <1>1 DEF ForkEnd, spaceVars
<1>5. nodes' = nodes
  <2>1. 1 \in Int
    OBVIOUS
  <2> QED BY <1>0, <1>3, <2>1, CountNone
<1>6. /\ pc'[p] = "user" /\ call'[p] = NoCall
      /\ \A q \in Procs \ {p} : pc'[q] = pc[q] /\ call'[q] = call[q]
  BY <1>0, <1>3, ReturnIs
<1>7. Ends
  BY <1>2, <1>3, <1>4 DEF Ends, TypeOK
<1>8. PrivateInv'
  <2>1. \A q \in Procs : pc'[q] = "unmap" => call'[q].physical
    BY <1>6 DEF PrivateInv
  <2>2. \A q \in Procs : entries'[q] \in Seq(Private)
    BY <1>3, <1>4 DEF PrivateInv, TypeOK
  <2> QED BY <1>4, <1>5, <2>1, <2>2, PrivateKept
<1>9. Keeps
  <2>1. call[p].frame = None /\ call'[p].frame = None
    BY <1>3, <1>6 DEF FaultInv, NoCall
  <2>2. \A q \in Procs : call'[q].frame = call[q].frame
    BY <1>6, <2>1
  <2> QED BY <1>4, <2>2, KeepsIs
<1> QED BY <1>7, <1>8, <1>9 DEF OwnStep, FrameStep

LEMMA ExecOwn ==
  ASSUME SpaceInv, PrivateInv, NEW p \in Procs, Exec(p)
  PROVE  OwnStep(p)
<1>0. At(p, "user") /\ Goto(p, "clear")
  BY DEF Exec
<1>1. TypeOK
  BY <1>0, AtIs
<1>2. /\ supply' = supply /\ status' = status /\ pd' = pd /\ table' = table /\ page' = page
      /\ entries' = entries /\ call' = call /\ nodes' = nodes /\ nodeList' = nodeList /\ freed' = freed
  BY DEF Exec, spaceVars, nodeVars
<1>3. pc'[p] = "clear" /\ \A q \in Procs \ {p} : pc'[q] = pc[q]
  BY <1>1, <1>0, GotoIs DEF Points
<1> QED BY <1>2, <1>3, QuietOwn

LEMMA ExecClearOwn ==
  ASSUME SpaceInv, PrivateInv, NEW p \in Procs, ExecClear(p)
  PROVE  OwnStep(p)
<1>0. At(p, "clear") /\ Clearable(p) # {}
  BY DEF ExecClear
<1>1. TypeOK /\ TableInv(p)
  BY <1>0, AtIs
<1>2. PICK i : i = Lowest(Clearable(p))
  OBVIOUS
<1>3. i \in Pdis /\ table[p][i] # None /\ FreeIn(p, i)
  BY <1>0, <1>2, ClearableIs DEF ExecClear
<1>4. /\ status' = status /\ pc' = pc /\ pd' = pd /\ entries' = entries /\ call' = call
      /\ nodes' = nodes /\ nodeList' = nodeList /\ freed' = freed
  BY DEF ExecClear, nodeVars
<1>5. \E s \in Slots : Gives(s)
  BY <1>1, <1>3, <1>4, FreeInGives
<1>6. PrivateInv'
  BY <1>4 DEF PrivateInv
<1> QED BY <1>4, <1>5, <1>6 DEF OwnStep, Ends, FrameStep

LEMMA ExecLoadOwn ==
  ASSUME SpaceInv, PrivateInv, NEW p \in Procs, ExecLoad(p)
  PROVE  OwnStep(p)
<1>0. At(p, "clear") /\ Return(p)
  BY DEF ExecLoad
<1>1. TypeOK /\ pc[p] = "clear" /\ FaultInv(p)
  BY <1>0, AtIs
<1>2. /\ supply' = supply /\ status' = status /\ pd' = pd /\ table' = table /\ page' = page
      /\ nodes' = nodes /\ nodeList' = nodeList /\ freed' = freed
  BY DEF ExecLoad, spaceVars, nodeVars
<1>3. PICK image, stack \in Leftovers :
        entries' = [entries EXCEPT
          ![p] = Insert(Insert(@, Anonymous(Image), image), Anonymous(Stack), stack)]
  BY DEF ExecLoad
<1>4. \A q \in Procs : entries'[q] \in Seq(Private)
  <2>1. ~FromList(Anonymous(Image)) /\ ~FromList(Anonymous(Stack))
    BY DEF FromList, Anonymous
  <2>2. PICK es : es = Insert(entries[p], Anonymous(Image), image)
    OBVIOUS
  <2>3. es \in Seq(Private)
    BY <2>1, <2>2, AnonymousType, PrivateLeftovers, PrivateInsert DEF PrivateInv
  <2>4. Insert(es, Anonymous(Stack), stack) \in Seq(Private)
    BY <2>1, <2>3, AnonymousType, PrivateLeftovers, PrivateInsert
  <2> QED BY <1>1, <1>3, <2>2, <2>4 DEF TypeOK, PrivateInv
<1>5. /\ pc'[p] = "user" /\ call'[p] = NoCall
      /\ \A q \in Procs \ {p} : pc'[q] = pc[q] /\ call'[q] = call[q]
  BY <1>0, <1>1, ReturnIs
<1>6. PrivateInv'
  <2>1. \A q \in Procs : pc'[q] = "unmap" => call'[q].physical
    BY <1>5 DEF PrivateInv
  <2> QED BY <1>2, <1>4, <2>1, PrivateKept
<1>7. Keeps
  <2>1. call[p].frame = None /\ call'[p].frame = None
    BY <1>1, <1>5 DEF FaultInv, NoCall
  <2>2. \A q \in Procs : call'[q].frame = call[q].frame
    BY <1>5, <2>1
  <2> QED BY <1>2, <2>2, KeepsIs
<1> QED BY <1>2, <1>6, <1>7 DEF OwnStep, Ends, FrameStep

LEMMA FaultFatalOwn ==
  ASSUME SpaceInv, PrivateInv, NEW p \in Procs, FaultFatal(p)
  PROVE  OwnStep(p)
<1>0. At(p, "user") /\ Die(p)
  BY DEF FaultFatal
<1>1. call[p].frame = None
  BY <1>0, AtIs DEF FaultInv
<1>2. /\ supply' = supply /\ UNCHANGED spaceVars /\ nodes' = nodes /\ nodeList' = nodeList /\ freed' = freed
  BY DEF FaultFatal, nodeVars
<1> QED BY <1>0, <1>1, <1>2, DieOwn

LEMMA KillOwn ==
  ASSUME SpaceInv, PrivateInv, NEW p \in Procs, Kill(p)
  PROVE  OwnStep(p)
<1>1. Die(p) /\ p \in Killable
  BY DEF Kill
<1>2. /\ supply' = supply /\ UNCHANGED spaceVars /\ nodes' = nodes /\ nodeList' = nodeList /\ freed' = freed
  BY DEF Kill, nodeVars
<1> QED BY <1>1, <1>2, DieOwn

LEMMA ExitOwn ==
  ASSUME SpaceInv, PrivateInv, NEW p \in Procs, Exit(p)
  PROVE  OwnStep(p)
<1>0. At(p, "user") /\ Count(entries[p], -1) /\ Die(p)
  BY DEF Exit
<1>1. call[p].frame = None /\ entries[p] \in Seq(Entry)
  <2>1. call[p].frame = None
    BY <1>0, AtIs DEF FaultInv
  <2>2. entries[p] \in Seq(Entry)
    BY DEF SpaceInv, TypeOK
  <2> QED BY <2>1, <2>2
<1>2. /\ supply' = supply /\ UNCHANGED spaceVars /\ nodeList' = nodeList /\ freed' = freed
  BY DEF Exit
<1>3. nodes' = nodes
  <2>1. -1 \in Int
    OBVIOUS
  <2> QED BY <1>0, <1>1, <2>1, CountNone
<1> QED BY <1>0, <1>1, <1>2, <1>3, DieOwn

LEMMA DeletePdOwn ==
  ASSUME SpaceInv, PrivateInv, NEW p \in Procs, DeletePd(p)
  PROVE  OwnStep(p)
<1>0. status[p] = "exited"
  BY DEF DeletePd
<1>1. TypeOK /\ TableInv(p) /\ pd[p] # None
  BY <1>0 DEF SpaceInv, CallInv
<1>2. /\ pc' = pc /\ entries' = entries /\ call' = call /\ nodes' = nodes /\ nodeList' = nodeList /\ freed' = freed
  BY DEF DeletePd, nodeVars
<1>3. PrivateInv'
  BY <1>2 DEF PrivateInv
<1>4. CASE {i \in Pdis : table[p][i] # None} # {}
  <2>1. PICK i : i = Lowest({j \in Pdis : table[p][j] # None})
    OBVIOUS
  <2>2. i \in {j \in Pdis : table[p][j] # None}
    BY <1>4, <2>1, PdisNat, LowestIn
  <2>3. FreeIn(p, i) /\ pd' = pd /\ status' = status
    BY <1>4, <2>1 DEF DeletePd
  <2>4. \E s \in Slots : Gives(s)
    BY <1>1, <1>2, <2>2, <2>3, FreeInGives
  <2> QED BY <1>3, <2>3, <2>4 DEF OwnStep, Ends, FrameStep
<1>5. CASE {i \in Pdis : table[p][i] # None} = {}
  <2>1. /\ Dealloc(pd[p]) /\ pd' = [pd EXCEPT ![p] = None]
        /\ status' = [status EXCEPT ![p] = "gone"] /\ table' = table /\ page' = page
    BY <1>5 DEF DeletePd
  <2>2. PdSlot(p) \in Slots /\ Gives(PdSlot(p))
    BY <1>1, <1>2, <2>1, GivesPd
  <2>3. Ends
    BY <1>1, <2>1 DEF Ends, TypeOK
  <2> QED BY <1>3, <2>2, <2>3 DEF OwnStep, FrameStep
<1> QED BY <1>4, <1>5

LEMMA OutOfFramesOwn ==
  ASSUME SpaceInv, PrivateInv, NEW p \in Procs, OutOfFrames(p)
  PROVE  OwnStep(p)
<1>1. /\ supply' = supply /\ status' = status /\ pc' = pc /\ pd' = pd /\ table' = table
      /\ page' = page /\ entries' = entries /\ call' = call /\ nodes' = nodes
      /\ nodeList' = nodeList /\ freed' = freed
  BY DEF OutOfFrames, spaceVars, nodeVars
<1>2. pc'[p] = "unmap" => call'[p].physical
  BY <1>1 DEF PrivateInv
<1> QED BY <1>1, <1>2, QuietOwn

(* The steps of shared file pages are not taken.                           *)
LEMMA SharedNever ==
  ASSUME SpaceInv, PrivateInv, NEW p \in Procs
  PROVE  ~LinkNode(p) /\ ~ReadFile(p) /\ \A v : ~FaultHit(p, v)
<1>1. ~(pc[p] \in {"link", "read"})
  <2> SUFFICES ASSUME pc[p] \in {"link", "read"} PROVE FALSE
    OBVIOUS
  <2>1. FaultInv(p)
    BY DEF SpaceInv
  <2>2. Find(entries[p], call[p].va) # 0 /\ FromList(FaultEntry(p, call[p].va))
    BY <2>1 DEF FaultInv
  <2> QED BY <2>2, PrivateEntry
<1>2. ~LinkNode(p) /\ ~ReadFile(p)
  BY <1>1 DEF LinkNode, ReadFile, At
<1>3. \A v : ~FaultHit(p, v)
  BY NoneListed DEF FaultHit
<1> QED BY <1>2, <1>3

LEMMA StepOwn ==
  ASSUME SpaceInv, PrivateInv, NoSharedFiles, NEW p \in Procs, Step(p)
  PROVE  OwnStep(p)
<1>1. CASE \E r \in Requests : Mmap(p, r)
  BY <1>1, MmapOwn
<1>2. CASE \E v \in Touches : FaultMiss(p, v)
  BY <1>2, FaultMissOwn
<1>3. CASE \E i \in DOMAIN entries[p] : Munmap(p, i)
  BY <1>3, MunmapOwn
<1> QED
  BY <1>1, <1>2, <1>3, SharedNever, FaultFatalOwn, FaultAllocOwn, MapTableOwn, MapPageOwn,
     UnmapOwn, UnlinkOwn, ForkOwn, ForkPdOwn, ForkCopyOwn, ForkEndOwn, ExecOwn, ExecClearOwn,
     ExecLoadOwn, ExitOwn, KillOwn, DeletePdOwn, OutOfFramesOwn
  DEF Step

-----------------------------------------------------------------------------
(* The inductive invariant of the regime without shared file mappings:     *)
(* every frame is in the supply once or in one slot, and in one of them as *)
(* long as no killable process has ended.                                  *)
NoneKilled == \A p \in Killable : status[p] \notin {"exited", "gone"}
OwnInv ==
  /\ PrivateInv
  /\ Exclusive(Slots, supply, Refs)
  /\ NoneKilled => Complete(Slots, supply, Refs)

LEMMA InitOwnInv == Init => OwnInv
<1> SUFFICES ASSUME Init PROVE OwnInv
  OBVIOUS
<1>1. PrivateInv
  <2>1. <<>> \in Seq(Private)
    BY EmptySeq
  <2> QED BY <2>1 DEF Init, PrivateInv
<1>2. PICK n : n = NFrames - 2
  OBVIOUS
<1>3. n \in Nat /\ NFrames = n + 2 /\ DOMAIN supply = 1..n /\ \A i \in 1..n : supply[i] = i + 2
  BY <1>2, Constants DEF Init
<1>4. PICK P, T : P = PdSlot(First) /\ T = TableSlot(First, ApicPdi)
  OBVIOUS
<1>5. P \in Slots /\ T \in Slots /\ P # T /\ First \in Procs
  BY <1>4, SlotsIn, SlotsDiffer, ApicPdiIn, VMMAssumption
<1>6. Refs[P] = 1 /\ Refs[T] = 2
  <2>1. Refs[P] = pd[First] /\ Refs[T] = table[First][ApicPdi]
    BY <1>4, <1>5, RefsAre, ApicPdiIn
  <2> QED BY <1>5, <2>1, ApicPdiIn DEF Init
<1>7. ASSUME NEW s \in Slots, s # P, s # T PROVE Refs[s] = None
  <2>1. CASE \E p \in Procs : s = PdSlot(p)
    <3>1. PICK p \in Procs : s = PdSlot(p)
      BY <2>1
    <3>2. p # First
      BY <1>4, <1>7, <3>1
    <3> QED BY <3>1, <3>2, RefsAre DEF Init
  <2>2. CASE \E p \in Procs : s = FaultSlot(p)
    BY <2>2, RefsAre DEF Init, NoCall
  <2>3. CASE \E p \in Procs, i \in Pdis : s = TableSlot(p, i)
    <3>1. PICK p \in Procs, i \in Pdis : s = TableSlot(p, i)
      BY <2>3
    <3>2. ~(p = First /\ i = ApicPdi)
      BY <1>4, <1>7, <3>1
    <3>3. table[p][i] = None
      BY <3>2 DEF Init
    <3> QED BY <3>1, <3>3, RefsAre
  <2>4. CASE \E p \in Procs, v \in Vpns : s = PageSlot(p, v)
    BY <2>4, RefsAre DEF Init, Nowhere
  <2> QED BY <2>1, <2>2, <2>3, <2>4, SlotKinds
<1>8. None \notin Int
  BY VMMAssumption
<1>9. Exclusive(Slots, supply, Refs)
  <2>1. \A i, j \in DOMAIN supply : supply[i] = supply[j] => i = j
    BY <1>3
  <2>2. \A i \in DOMAIN supply : \A s \in Slots : Refs[s] # supply[i]
    <3>1. \A i \in DOMAIN supply : supply[i] # 1 /\ supply[i] # 2 /\ supply[i] # None
      BY <1>3, <1>8
    <3> QED BY <3>1, <1>6, <1>7
  <2>3. \A s, t \in Slots : Refs[s] = Refs[t] /\ Refs[s] # None => s = t
    BY <1>6, <1>7, <1>8
  <2> QED BY <2>1, <2>2, <2>3 DEF Exclusive
<1>10. Complete(Slots, supply, Refs)
  <2> SUFFICES ASSUME NEW f \in Frames
               PROVE  (\E i \in DOMAIN supply : supply[i] = f) \/ \E s \in Slots : Refs[s] = f
    BY DEF Complete
  <2>1. CASE f \in {1, 2}
    BY <2>1, <1>5, <1>6
  <2>2. CASE f \notin {1, 2}
    <3>1. f - 2 \in 1..n /\ (f - 2) + 2 = f
      BY <1>3, <2>2, Constants DEF Frames
    <3> QED BY <1>3, <3>1
  <2> QED BY <2>1, <2>2
<1> QED BY <1>1, <1>9, <1>10 DEF OwnInv

LEMMA FrameStepOwn ==
  ASSUME TypeOK, TypeOK', Exclusive(Slots, supply, Refs), NEW p \in Procs, FrameStep(p),
         NoneKilled' => NoneKilled
  PROVE  /\ Exclusive(Slots, supply', Refs')
         /\ (NoneKilled => Complete(Slots, supply, Refs)) =>
              (NoneKilled' => Complete(Slots, supply', Refs'))
<1>1. PICK R, Q, q : R = Refs /\ Q = Refs' /\ q = supply
  OBVIOUS
<1>2. R \in [Slots -> FrameOrNone] /\ q \in Seq(Frames) /\ Exclusive(Slots, q, R)
  BY <1>1, RefsType DEF TypeOK
<1>3. Q \in [Slots -> FrameOrNone]
  BY <1>1, RefsType
<1>4. CASE Keeps
  <2>1. supply' = q /\ \A s \in Slots : Q[s] = R[s]
    BY <1>1, <1>4 DEF Keeps, OnlyAt
  <2>2. Q = R
    BY <1>2, <1>3, <2>1
  <2> QED BY <1>1, <1>2, <2>1, <2>2
<1>5. CASE \E s \in Slots : Takes(s)
  <2>1. PICK s \in Slots : Takes(s)
    BY <1>5
  <2>2. /\ q # << >> /\ supply' = Tail(q) /\ R[s] = None /\ Q[s] = Head(q)
        /\ \A t \in Slots : t # s => Q[t] = R[t]
    BY <1>1, <2>1 DEF Takes, OnlyAt
  <2>3. Exclusive(Slots, Tail(q), Q) /\ (Complete(Slots, q, R) => Complete(Slots, Tail(q), Q))
    BY <1>2, <1>3, <2>2, TakeFrame
  <2> QED BY <1>1, <2>2, <2>3
<1>6. CASE \E s \in Slots : Gives(s)
  <2>1. PICK s \in Slots : Gives(s)
    BY <1>6
  <2>2. /\ R[s] # None /\ supply' = <<R[s]>> \o q /\ Q[s] = None
        /\ \A t \in Slots : t # s => Q[t] = R[t]
    BY <1>1, <2>1 DEF Gives, OnlyAt
  <2>3. Exclusive(Slots, <<R[s]>> \o q, Q)
        /\ (Complete(Slots, q, R) => Complete(Slots, <<R[s]>> \o q, Q))
    BY <1>2, <1>3, <2>2, GiveFrame
  <2> QED BY <1>1, <2>2, <2>3
<1>7. CASE \E s, t \in Slots : Moves(s, t)
  <2>1. PICK s, t \in Slots : Moves(s, t)
    BY <1>7
  <2>2. /\ s # t /\ supply' = q /\ R[t] = None /\ Q[s] = None /\ Q[t] = R[s]
        /\ \A u \in Slots \ {s, t} : Q[u] = R[u]
    BY <1>1, <2>1 DEF Moves, OnlyAt
  <2>3. Exclusive(Slots, q, Q) /\ (Complete(Slots, q, R) => Complete(Slots, q, Q))
    BY <1>2, <1>3, <2>2, MoveFrame
  <2> QED BY <1>1, <2>2, <2>3
<1>8. CASE p \in Killable /\ status'[p] = "exited" /\ \E s \in Slots : Drops(s)
  <2>1. PICK s \in Slots : Drops(s)
    BY <1>8
  <2>2. supply' = q /\ Q[s] = None /\ \A t \in Slots : t # s => Q[t] = R[t]
    BY <1>1, <2>1 DEF Drops, OnlyAt
  <2>3. Exclusive(Slots, q, Q)
    BY <1>2, <1>3, <2>2, DropFrame
  <2>4. ~NoneKilled'
    BY <1>8 DEF NoneKilled
  <2> QED BY <1>1, <2>2, <2>3, <2>4
<1> QED BY <1>4, <1>5, <1>6, <1>7, <1>8 DEF FrameStep

LEMMA NextOwnInv ==
  ASSUME NoSharedFiles, SpaceInv, SpaceInv', OwnInv, [Next]_vars
  PROVE  OwnInv'
<1>1. TypeOK /\ TypeOK' /\ PrivateInv
  BY DEF SpaceInv, OwnInv
<1>2. CASE Next
  <2>1. PICK p \in Procs : Step(p)
    BY <1>2 DEF Next
  <2>2. PrivateInv' /\ FrameStep(p) /\ Ends
    BY <1>1, <2>1, StepOwn DEF OwnStep
  <2>3. NoneKilled' => NoneKilled
    BY <2>2, VMMAssumption DEF Ends, NoneKilled
  <2>4. /\ Exclusive(Slots, supply', Refs')
        /\ NoneKilled' => Complete(Slots, supply', Refs')
    BY <1>1, <2>2, <2>3, FrameStepOwn DEF OwnInv
  <2>5. Slots' = Slots
    BY DEF Slots, Pdis, Vpns
  <2>6. Exclusive(Slots, supply, Refs)' /\ (NoneKilled' => Complete(Slots, supply, Refs)')
    BY <2>4, <2>5 DEF Exclusive, Complete
  <2> QED BY <2>2, <2>6 DEF OwnInv
<1>3. CASE UNCHANGED vars
  <2>1. /\ supply' = supply /\ status' = status /\ pc' = pc /\ pd' = pd /\ table' = table
        /\ page' = page /\ entries' = entries /\ call' = call /\ nodes' = nodes
        /\ nodeList' = nodeList /\ freed' = freed
    BY <1>3 DEF vars, spaceVars, nodeVars
  <2>2. Refs' = Refs
    BY <2>1 DEF Refs, Ref, Slots, Pdis, Vpns
  <2>3. PrivateInv'
    BY <1>1, <2>1 DEF PrivateInv
  <2>4. Exclusive(Slots, supply, Refs)'
    BY <2>1, <2>2 DEF OwnInv, Exclusive, Slots
  <2>5. NoneKilled' => Complete(Slots, supply, Refs)'
    BY <2>1, <2>2 DEF OwnInv, Complete, NoneKilled, Slots
  <2> QED BY <2>3, <2>4, <2>5 DEF OwnInv
<1> QED BY <1>2, <1>3

LEMMA SpecOwnInv == ASSUME NoSharedFiles PROVE Spec => []OwnInv
<1>1. SpaceInv /\ SpaceInv' /\ OwnInv /\ [Next]_vars => OwnInv'
  BY NextOwnInv
<1> QED BY <1>1, InitOwnInv, SpaceInvariant, PTL DEF Spec

LEMMA OwnersIs ==
  ASSUME NEW f, NEW x \in Owners(f)
  PROVE  \/ \E i \in DOMAIN supply : x = <<"supply", i>> /\ supply[i] = f
         \/ x \in Slots /\ Refs[x] = f
BY DEF Owners, Refs

LEMMA OwnInvOneOwner == ASSUME SpaceInv, OwnInv PROVE OneOwner
<1> SUFFICES ASSUME NEW f \in Frames, NEW x \in Owners(f), NEW y \in Owners(f) PROVE x = y
  BY DEF OneOwner
<1>0. f # None
  BY Constants
<1>1. Exclusive(Slots, supply, Refs)
  BY DEF OwnInv
<1>2. CASE x \in Slots /\ Refs[x] = f
  <2>1. CASE y \in Slots /\ Refs[y] = f
    BY <1>0, <1>1, <1>2, <2>1 DEF Exclusive
  <2>2. CASE \E i \in DOMAIN supply : y = <<"supply", i>> /\ supply[i] = f
    BY <1>1, <1>2, <2>2 DEF Exclusive
  <2> QED BY <2>1, <2>2, OwnersIs
<1>3. CASE \E i \in DOMAIN supply : x = <<"supply", i>> /\ supply[i] = f
  <2>1. CASE y \in Slots /\ Refs[y] = f
    BY <1>1, <1>3, <2>1 DEF Exclusive
  <2>2. CASE \E i \in DOMAIN supply : y = <<"supply", i>> /\ supply[i] = f
    BY <1>1, <1>3, <2>2 DEF Exclusive
  <2> QED BY <2>1, <2>2, OwnersIs
<1> QED BY <1>2, <1>3, OwnersIs

LEMMA OwnInvNoLeak == ASSUME SpaceInv, OwnInv PROVE NoLeak
<1>1. ASSUME NoneKilled, NEW f \in Frames PROVE Owners(f) # {}
  <2>1. (\E i \in DOMAIN supply : supply[i] = f) \/ \E s \in Slots : Refs[s] = f
    BY <1>1 DEF OwnInv, Complete
  <2> QED BY <2>1 DEF Owners, Refs
<1>2. ASSUME NEW s \in Slots, status[s[2]] \in {"unborn", "gone"} PROVE Ref(s) = None
  <2>0. Ref(s) = Refs[s]
    BY DEF Refs
  <2>1. ASSUME NEW p \in Procs, status[p] \in {"unborn", "gone"}
        PROVE  /\ pd[p] = None /\ call[p].frame = None
               /\ \A i \in Pdis : table[p][i] = None
               /\ \A v \in Vpns : page[p][v] = None
    <3>1. CallInv(p) /\ TableInv(p)
      BY DEF SpaceInv
    <3>2. call[p] = NoCall
      BY <2>1, <3>1 DEF CallInv
    <3>3. pd[p] = None /\ \A i \in Pdis : table[p][i] = None
      BY <2>1, <3>1 DEF TableInv
    <3>4. \A v \in Vpns : page[p][v] = None
      BY <3>1, <3>3, PdiOf DEF TableInv
    <3> QED BY <3>2, <3>3, <3>4 DEF NoCall
  <2>2. CASE \E p \in Procs : s = PdSlot(p) \/ s = FaultSlot(p)
    <3>1. PICK p \in Procs : s = PdSlot(p) \/ s = FaultSlot(p)
      BY <2>2
    <3>2. s[2] = p
      BY <3>1 DEF PdSlot, FaultSlot
    <3> QED BY <1>2, <2>0, <2>1, <3>1, <3>2, RefsAre
  <2>3. CASE \E p \in Procs, i \in Pdis : s = TableSlot(p, i)
    <3>1. PICK p \in Procs, i \in Pdis : s = TableSlot(p, i)
      BY <2>3
    <3>2. s[2] = p
      BY <3>1 DEF TableSlot
    <3> QED BY <1>2, <2>0, <2>1, <3>1, <3>2, RefsAre
  <2>4. CASE \E p \in Procs, v \in Vpns : s = PageSlot(p, v)
    <3>1. PICK p \in Procs, v \in Vpns : s = PageSlot(p, v)
      BY <2>4
    <3>2. s[2] = p
      BY <3>1 DEF PageSlot
    <3> QED BY <1>2, <2>0, <2>1, <3>1, <3>2, RefsAre
  <2> QED BY <2>2, <2>3, <2>4, SlotKinds
<1> QED BY <1>1, <1>2 DEF NoLeak, NoneKilled

(* As long as no program maps a file shared, a physical frame is free, a   *)
(* directory, a table, a page or in the hand of a fault, and only one of   *)
(* these, once and for one process: wherever a kill stops a process, and   *)
(* however faults, fork, exec, munmap and delete_pd() of different         *)
(* processes interleave.                                                   *)
THEOREM FramesOneOwner == ASSUME NoSharedFiles PROVE Spec => []OneOwner
<1>1. SpaceInv /\ OwnInv => OneOwner
  BY OwnInvOneOwner
<1> QED BY <1>1, SpaceInvariant, SpecOwnInv, PTL

(* ... no frame is lost unless a process that may be killed has ended (the *)
(* frame in the hand of a killed fault is), and what delete_pd() is done   *)
(* with has none left.                                                     *)
THEOREM FramesNoLeak == ASSUME NoSharedFiles PROVE Spec => []NoLeak
<1>1. SpaceInv /\ OwnInv => NoLeak
  BY OwnInvNoLeak
<1> QED BY <1>1, SpaceInvariant, SpecOwnInv, PTL

-----------------------------------------------------------------------------
(* mmap with room.                                                         *)

(* In a list whose mappings are apart only the last may reach the end of   *)
(* the space.                                                              *)
LEMMA ApartIs ==
  ASSUME NEW es \in Seq(Entry), Apart(es), NEW i \in 1..Len(es), NEW j \in 1..Len(es), i < j
  PROVE  /\ es[i].start \in Nat /\ es[j].start \in Nat /\ es[i].size \in Nat
         /\ es[j].start < Space /\ es[i].start <= es[j].start
         /\ End(es[i]) = es[i].start + es[i].size
         /\ End(es[i]) \in Nat /\ es[i].start <= End(es[i]) /\ End(es[i]) <= es[j].start
<1>1. es[i] \in Entry /\ es[j] \in Entry /\ DOMAIN es = 1..Len(es)
  BY SeqIs
<1>2. PICK x, y, z : x = es[i].start /\ y = es[i].size /\ z = es[j].start
  OBVIOUS
<1>3. Space \in Nat /\ Space > 0
  BY Constants
<1>4. x \in 0..(Space - 1) /\ y \in 0..(Space - 1) /\ z \in 0..(Space - 1)
  BY <1>1, <1>2 DEF Entry
<1>5. x + y <= z
  BY <1>1, <1>2 DEF Apart
<1>6. x \in Nat /\ y \in Nat /\ z \in Nat /\ z < Space /\ x + y \in 0..(Space - 1)
      /\ x + y \in Nat /\ x <= x + y /\ x <= z
  BY ONLY <1>3, <1>4, <1>5
<1>7. ((x + y) % Space) = x + y
  BY ONLY <1>3, <1>6
<1>8. End(es[i]) = x + y
  BY <1>2, <1>7 DEF End
<1> QED BY <1>2, <1>5, <1>6, <1>8, Zenon

(* A look of the walk at an entry before the gap, or at the gap.           *)
LEMMA LookFinds ==
  ASSUME NEW es \in Seq(Entry), Apart(es), NEW size \in Nat, NEW k1 \in 2..Len(es),
         End(es[k1 - 1]) + size < es[k1].start,
         NEW w \in Nat, w < es[k1].start, w + size < Space, NEW m \in 2..k1,
         NEW g, g = LookAt(es, size, w, m)
  PROVE  \/ g.room /\ g.va + size < Space /\ g.va \in Nat
         \/ ~g.room /\ m < k1 /\ g.va \in Nat /\ g.va < es[k1].start /\ g.va + size < Space
<1>0. /\ k1 - 1 \in 1..Len(es) /\ k1 \in 1..Len(es) /\ k1 - 1 < k1
      /\ m - 1 \in 1..Len(es) /\ m \in 1..Len(es) /\ m - 1 < m /\ (m = k1 \/ m < k1)
      /\ (m < k1 => m = k1 - 1 \/ m < k1 - 1)
  BY SeqIs
<1>1. Space \in Nat /\ Space > 0
  BY Constants
<1>2. PICK b, c, d, e, t : /\ b = End(es[m - 1]) /\ c = End(es[k1 - 1]) /\ d = es[k1].start
                           /\ e = es[m].start /\ t = es[k1 - 1].start
  OBVIOUS
<1>3. b \in Nat /\ e \in Nat /\ b <= e
  BY <1>0, <1>2, ApartIs, Zenon
<1>4. c \in Nat /\ d \in Nat /\ t \in Nat /\ t <= c /\ d < Space
  BY <1>0, <1>2, ApartIs, Zenon
<1>5. c + size < d /\ w < d
  BY <1>2
<1>6. m < k1 => e <= t
  <2>1. CASE m = k1 - 1
    BY ONLY <1>2, <1>4, <2>1
  <2>2. CASE m < k1 - 1
    BY <1>0, <1>2, <2>2, ApartIs, Zenon
  <2> QED BY <1>0, <2>1, <2>2
<1>7. CASE w >= e
  <2>1. g = [va |-> w, room |-> FALSE]
    BY <1>2, <1>7 DEF LookAt
  <2>2. m # k1
    BY ONLY <1>2, <1>4, <1>5, <1>7, w \in Nat
  <2> QED BY <1>0, <1>2, <1>5, <2>1, <2>2
<1>8. CASE ~(w >= e) /\ Fits(w, size, es[m - 1], es[m])
  <2>1. g = [va |-> w, room |-> TRUE]
    BY <1>2, <1>8 DEF LookAt
  <2> QED BY <2>1
<1>9. CASE ~(w >= e) /\ ~Fits(w, size, es[m - 1], es[m])
  <2>1. g = [va |-> b, room |-> Fits(b, size, es[m - 1], es[m])]
    BY <1>2, <1>9 DEF LookAt
  <2>2. g.va = b /\ g.room = Fits(b, size, es[m - 1], es[m]) /\ g.room \in BOOLEAN
    BY <2>1 DEF Fits
  <2>3. CASE m = k1
    <3>1. b = c /\ e = d
      BY ONLY <1>2, <2>3
    <3>2. b + size < e /\ b + size \in 0..(Space - 1)
      BY ONLY <1>1, <1>3, <1>4, <1>5, <3>1, size \in Nat
    <3>3. ((b + size) % Space) = b + size
      BY ONLY <1>1, <3>2
    <3>4. Fits(b, size, es[m - 1], es[m])
      BY <1>2, <1>3, <3>2, <3>3 DEF Fits
    <3>5. b + size < Space
      BY ONLY <1>1, <3>2
    <3> QED BY <1>3, <2>2, <3>4, <3>5
  <2>4. CASE m < k1
    <3>1. b <= c
      BY ONLY <1>3, <1>4, <1>6, <2>4
    <3>2. b < d /\ b + size < Space
      BY ONLY <1>1, <1>3, <1>4, <1>5, <3>1, size \in Nat
    <3> QED BY <1>2, <1>3, <2>2, <2>4, <3>2
  <2> QED BY <1>0, <2>3, <2>4
<1> QED BY <1>7, <1>8, <1>9

(* Until it has found room, the walk has an address before the gap.        *)
LEMMA WalkFinds ==
  ASSUME NEW es \in Seq(Entry), Apart(es), NEW va \in Nat, va < Space, NEW size \in Nat,
         va + size < Space, NEW k1 \in 2..Len(es), va < es[k1].start,
         End(es[k1 - 1]) + size < es[k1].start,
         NEW f, IsWalk(es, va, size, Len(es), f)
  PROVE  \A k \in 1..k1 :
           \/ f[k].room /\ f[k].va + size < Space /\ f[k].va \in Nat
           \/ ~f[k].room /\ k < k1 /\ f[k].va \in Nat /\ f[k].va < es[k1].start /\ f[k].va + size < Space
<1> DEFINE Good(k) ==
             \/ f[k].room /\ f[k].va + size < Space /\ f[k].va \in Nat
             \/ ~f[k].room /\ k < k1 /\ f[k].va \in Nat /\ f[k].va < es[k1].start /\ f[k].va + size < Space
           S == {k \in 1..k1 : ~Good(k)}
<1> SUFFICES ASSUME S # {} PROVE FALSE
  OBVIOUS
<1>0. Len(es) \in Nat /\ k1 \in Nat /\ k1 <= Len(es) /\ k1 > 1
  BY SeqIs
<1>1. PICK m \in 1..k1 : ~Good(m) /\ \A y \in 1..k1 : ~Good(y) => m <= y
  <2>1. S \subseteq Nat
    BY <1>0
  <2> QED BY <2>1, LowestIn
<1>2. m \in 1..Len(es) /\ f[m] = SeenAt(es, va, size, f, m)
  <2>1. m \in 1..Len(es)
    BY <1>0
  <2> QED BY <2>1 DEF IsWalk
<1>3. CASE m = 1
  <2>1. f[m] = [va |-> va, room |-> FALSE]
    BY <1>2, <1>3 DEF SeenAt
  <2>2. f[m].va = va /\ ~f[m].room
    BY <2>1
  <2>3. Good(m)
    BY <1>0, <1>3, <2>2
  <2> QED BY <1>1, <2>3
<1>4. CASE m # 1
  <2>1. m - 1 \in 1..k1 /\ ~(m <= m - 1) /\ m \in 2..k1
    BY <1>0, <1>4
  <2>2. Good(m - 1)
    BY <1>1, <2>1
  <2>3. CASE f[m - 1].room
    <3>1. f[m] = f[m - 1]
      BY <1>2, <1>4, <2>3 DEF SeenAt
    <3>2. Good(m)
      BY <2>2, <2>3, <3>1
    <3> QED BY <1>1, <3>2
  <2>4. CASE ~f[m - 1].room
    <3>1. PICK w : w = f[m - 1].va
      OBVIOUS
    <3>2. w \in Nat /\ w < es[k1].start /\ w + size < Space
      BY <2>2, <2>4, <3>1
    <3>3. f[m] = LookAt(es, size, w, m)
      BY <1>2, <1>4, <2>4, <3>1 DEF SeenAt
    <3>4. Good(m)
      BY <2>1, <3>2, <3>3, LookFinds
    <3> QED BY <1>1, <3>4
  <2> QED BY <2>3, <2>4
<1> QED BY <1>3, <1>4

(* Once it has found room, it stays there.                                 *)
LEMMA WalkStays ==
  ASSUME NEW es \in Seq(Entry), NEW va, NEW size, NEW f, IsWalk(es, va, size, Len(es), f),
         NEW m \in 1..Len(es), f[m].room
  PROVE  \A k \in m..Len(es) : f[k] = f[m]
<1> DEFINE S == {k \in m..Len(es) : f[k] # f[m]}
<1> SUFFICES ASSUME S # {} PROVE FALSE
  OBVIOUS
<1>0. Len(es) \in Nat /\ m \in Nat /\ m >= 1
  BY SeqIs
<1>1. PICK n \in m..Len(es) : f[n] # f[m] /\ \A y \in m..Len(es) : f[y] # f[m] => n <= y
  <2>1. S \subseteq Nat
    BY <1>0
  <2> QED BY <2>1, LowestIn
<1>2. n # m /\ n \in Nat
  BY <1>0, <1>1
<1>3. n - 1 \in m..Len(es) /\ ~(n <= n - 1) /\ n # 1 /\ n \in 1..Len(es)
  BY <1>0, <1>2
<1>4. f[n - 1] = f[m]
  BY <1>1, <1>3
<1>5. f[n] = SeenAt(es, va, size, f, n)
  BY <1>3 DEF IsWalk
<1>6. f[n] = f[n - 1]
  BY <1>3, <1>4, <1>5 DEF SeenAt
<1> QED BY <1>1, <1>4, <1>6

LEMMA UpFromIs ==
  ASSUME NEW m \in Nat, NEW n \in Nat, 1 <= m, m <= n
  PROVE  Cardinality(m..n) = n - m + 1
<1>1. m \in Int /\ n \in Int
  OBVIOUS
<1>2. Cardinality(m..n) = IF m > n THEN 0 ELSE n - m + 1
  BY ONLY <1>1, FS_Interval, Zenon
<1> QED BY <1>2

(* With room, mmap puts a mapping of size bytes between two others.        *)
LEMMA PlaceFits ==
  ASSUME NEW es \in Seq(Entry), Apart(es), NEW va \in Nat, va < Space, NEW size \in Nat,
         va + size < Space, NEW k1 \in 2..Len(es), va < es[k1].start,
         End(es[k1 - 1]) + size < es[k1].start
  PROVE  \E m \in 2..Len(es) :
           /\ Place(es, va, size).after = m - 1
           /\ Place(es, va, size).va \in Nat
           /\ End(es[m - 1]) <= Place(es, va, size).va
           /\ Place(es, va, size).va + size < es[m].start
<1>0. Len(es) \in Nat /\ k1 \in 1..Len(es) /\ es # <<>> /\ k1 \in Nat
  BY SeqIs
<1>1. PICK f : /\ IsWalk(es, va, size, Len(es), f)
               /\ Place(es, va, size).va = f[Len(es)].va
               /\ Place(es, va, size).after = Len(es) - Cardinality({k \in 1..Len(es) : f[k].room})
  BY <1>0, PlaceIs
<1>2. \A k \in 1..k1 :
           \/ f[k].room /\ f[k].va + size < Space /\ f[k].va \in Nat
           \/ ~f[k].room /\ k < k1 /\ f[k].va \in Nat /\ f[k].va < es[k1].start /\ f[k].va + size < Space
  BY <1>1, WalkFinds
<1>3. PICK m \in 1..k1 : f[m].room /\ \A y \in 1..k1 : f[y].room => m <= y
  <2> DEFINE S == {k \in 1..k1 : f[k].room}
  <2>1. k1 \in S /\ S \subseteq Nat
    BY <1>0, <1>2
  <2> QED BY <2>1, LowestIn
<1>4. m \in 1..Len(es) /\ m \in Nat /\ m <= Len(es) /\ f[m] = SeenAt(es, va, size, f, m)
  <2>1. m \in 1..Len(es) /\ m \in Nat /\ m <= Len(es)
    BY <1>0
  <2> QED BY <1>1, <2>1 DEF IsWalk
<1>5. m # 1
  <2> SUFFICES ASSUME m = 1 PROVE FALSE
    OBVIOUS
  <2>1. f[m] = [va |-> va, room |-> FALSE]
    BY <1>4 DEF SeenAt
  <2> QED BY <1>3, <2>1
<1>6. m - 1 \in 1..k1 /\ ~(m <= m - 1) /\ m \in 2..Len(es) /\ m - 1 \in 1..Len(es) /\ m - 1 < m
  BY <1>0, <1>4, <1>5
<1>7. ~f[m - 1].room
  BY <1>3, <1>6
<1>8. PICK w, x : w = f[m - 1].va /\ x = f[m].va
  OBVIOUS
<1>9. f[m] = LookAt(es, size, w, m) /\ x \in Nat /\ x + size < Space
  BY <1>2, <1>3, <1>4, <1>5, <1>7, <1>8 DEF SeenAt
<1>10. Fits(x, size, es[m - 1], es[m])
  <2>1. CASE w >= es[m].start
    BY <1>3, <1>9, <2>1 DEF LookAt
  <2>2. CASE ~(w >= es[m].start) /\ Fits(w, size, es[m - 1], es[m])
    BY <1>8, <1>9, <2>2 DEF LookAt
  <2>3. CASE ~(w >= es[m].start) /\ ~Fits(w, size, es[m - 1], es[m])
    <3>1. f[m] = [va |-> End(es[m - 1]),
                  room |-> Fits(End(es[m - 1]), size, es[m - 1], es[m])]
      BY <1>9, <2>3 DEF LookAt
    <3> QED BY <1>3, <1>8, <3>1
  <2> QED BY <2>1, <2>2, <2>3
<1>11. x >= End(es[m - 1]) /\ ((x + size) % Space) < es[m].start
  BY <1>10 DEF Fits
<1>12. ((x + size) % Space) = x + size
  BY ONLY <1>9, Constants, size \in Nat
<1>13. \A k \in m..Len(es) : f[k] = f[m]
  BY <1>1, <1>3, <1>4, WalkStays
<1>14. {k \in 1..Len(es) : f[k].room} = m..Len(es)
  <2>1. ASSUME NEW k \in 1..Len(es), f[k].room PROVE k \in m..Len(es)
    <3>1. k \in Nat /\ k <= Len(es)
      BY <1>0
    <3>2. CASE k <= k1
      BY <1>0, <1>3, <1>4, <2>1, <3>1, <3>2
    <3>3. CASE k > k1
      BY <1>0, <1>3, <1>4, <3>1, <3>3
    <3> QED BY <1>0, <3>1, <3>2, <3>3
  <2>2. ASSUME NEW k \in m..Len(es) PROVE k \in 1..Len(es) /\ f[k].room
    BY <1>0, <1>3, <1>4, <1>13
  <2> QED BY <2>1, <2>2
<1>15. Cardinality(m..Len(es)) = Len(es) - m + 1
  <2>1. 1 <= m
    BY <1>4
  <2> QED BY <1>0, <1>4, <2>1, UpFromIs
<1>16. Place(es, va, size).after = m - 1
  <2>1. PICK n : n = Len(es)
    OBVIOUS
  <2>2. Place(es, va, size).after = n - (n - m + 1) /\ n \in Nat
    BY <1>0, <1>1, <1>14, <1>15, <2>1
  <2> QED BY ONLY <1>4, <2>2
<1>17. Place(es, va, size).va = x
  BY <1>0, <1>1, <1>4, <1>8, <1>13
<1>18. End(es[m - 1]) \in Nat
  BY <1>4, <1>6, ApartIs
<1>19. x + size < es[m].start
  BY <1>11, <1>12
<1> QED BY <1>6, <1>9, <1>11, <1>16, <1>17, <1>19

(* The list with e behind its entry a.                                     *)
Spliced(es, e, a, ns) ==
  /\ DOMAIN ns = 1..(Len(es) + 1)
  /\ \A i \in 1..(Len(es) + 1) :
       ns[i] = IF i <= a THEN es[i] ELSE IF i = a + 1 THEN e ELSE es[i - 1]

LEMMA SpliceIs ==
  ASSUME NEW E, NEW es \in Seq(E), NEW e \in E, NEW a \in 0..Len(es), NEW ns,
         ns = SubSeq(es, 1, a) \o <<e>> \o SubSeq(es, a + 1, Len(es))
  PROVE  Spliced(es, e, a, ns)
<1>0. Len(es) \in Nat /\ a \in Nat /\ a <= Len(es) /\ \A i \in 1..Len(es) : es[i] \in E
  BY SeqIs
<1>1. PICK x, y, n : x = SubSeq(es, 1, a) /\ y = SubSeq(es, a + 1, Len(es)) /\ n = Len(es)
  OBVIOUS
<1>2. x \in Seq(E) /\ Len(x) = a /\ \A i \in 1..a : x[i] = es[i]
  <2>1. 1 \in Int /\ a \in Int /\ \A i \in 1..a : es[i] \in E
    BY <1>0
  <2>2. /\ SubSeq(es, 1, a) \in Seq(E)
        /\ Len(SubSeq(es, 1, a)) = IF 1 <= a THEN a - 1 + 1 ELSE 0
        /\ \A i \in 1..a - 1 + 1 : SubSeq(es, 1, a)[i] = es[1 + i - 1]
    BY <2>1, SubSeqProperties
  <2>3. Len(x) = a
    BY <1>0, <1>1, <2>2
  <2>4. ASSUME NEW i \in 1..a PROVE x[i] = es[i]
    <3>1. i \in 1..(a - 1 + 1) /\ 1 + i - 1 = i
      BY <1>0
    <3> QED BY <1>1, <2>2, <3>1
  <2> QED BY <1>1, <2>2, <2>3, <2>4
<1>3. y \in Seq(E) /\ Len(y) = n - a /\ \A i \in 1..(n - a) : y[i] = es[a + i]
  <2>1. a + 1 \in Int /\ Len(es) \in Int /\ \A i \in (a + 1)..Len(es) : es[i] \in E
    BY <1>0
  <2>2. /\ SubSeq(es, a + 1, Len(es)) \in Seq(E)
        /\ Len(SubSeq(es, a + 1, Len(es))) = IF a + 1 <= Len(es) THEN Len(es) - (a + 1) + 1 ELSE 0
        /\ \A i \in 1..Len(es) - (a + 1) + 1 :
             SubSeq(es, a + 1, Len(es))[i] = es[a + 1 + i - 1]
    BY <2>1, SubSeqProperties
  <2>3. Len(y) = n - a
    BY <1>0, <1>1, <2>2
  <2>4. ASSUME NEW i \in 1..(n - a) PROVE y[i] = es[a + i]
    <3>1. i \in 1..(Len(es) - (a + 1) + 1) /\ a + 1 + i - 1 = a + i
      BY <1>0, <1>1
    <3> QED BY <1>1, <2>2, <3>1
  <2> QED BY <1>1, <2>2, <2>3, <2>4
<1>4. PICK z : z = x \o <<e>>
  OBVIOUS
<1>5. z \in Seq(E) /\ Len(z) = a + 1 /\ \A i \in 1..(a + 1) : z[i] = IF i <= a THEN es[i] ELSE e
  <2>1. <<e>> \in Seq(E) /\ Len(<<e>>) = 1 /\ <<e>>[1] = e
    OBVIOUS
  <2>2. /\ z \in Seq(E) /\ Len(z) = Len(x) + Len(<<e>>)
        /\ \A i \in 1..Len(x) + Len(<<e>>) :
             z[i] = IF i <= Len(x) THEN x[i] ELSE <<e>>[i - Len(x)]
    BY <1>2, <1>4, <2>1, ConcatProperties
  <2>3. ASSUME NEW i \in 1..(a + 1) PROVE z[i] = IF i <= a THEN es[i] ELSE e
    <3>1. CASE i <= a
      BY <1>0, <1>2, <2>1, <2>2, <3>1
    <3>2. CASE i = a + 1
      <4>1. i - Len(x) = 1 /\ ~(i <= Len(x)) /\ i \in 1..Len(x) + Len(<<e>>)
        BY <1>0, <1>2, <2>1, <3>2
      <4>2. z[i] = <<e>>[i - Len(x)]
        BY <2>2, <4>1
      <4>3. z[i] = e
        BY <2>1, <4>1, <4>2
      <4> QED BY <1>0, <3>2, <4>3
    <3> QED BY <1>0, <3>1, <3>2
  <2> QED BY <1>2, <2>1, <2>2, <2>3
<1>6. ns = z \o y
  BY <1>1, <1>4
<1>7. /\ ns \in Seq(E) /\ Len(ns) = Len(z) + Len(y)
      /\ \A i \in 1..Len(z) + Len(y) : ns[i] = IF i <= Len(z) THEN z[i] ELSE y[i - Len(z)]
  <2>1. z \in Seq(E) /\ y \in Seq(E)
    BY <1>3, <1>5
  <2>2. /\ z \o y \in Seq(E) /\ Len(z \o y) = Len(z) + Len(y)
        /\ \A i \in 1..Len(z) + Len(y) : (z \o y)[i] = IF i <= Len(z) THEN z[i] ELSE y[i - Len(z)]
    BY ONLY <2>1, ConcatProperties
  <2> QED BY ONLY <1>6, <2>2
<1>8. DOMAIN ns = 1..(n + 1)
  <2>1. DOMAIN ns = 1..Len(ns)
    BY <1>7, SeqIs
  <2>2. Len(ns) = n + 1
    BY ONLY <1>0, <1>1, <1>3, <1>5, <1>7
  <2> QED BY <2>1, <2>2
<1>9. ASSUME NEW i \in 1..(n + 1)
      PROVE  ns[i] = IF i <= a THEN es[i] ELSE IF i = a + 1 THEN e ELSE es[i - 1]
  <2>0. i \in 1..Len(z) + Len(y) /\ i \in Nat
    BY <1>0, <1>1, <1>3, <1>5
  <2>1. CASE i <= a + 1
    <3>1. i \in 1..(a + 1) /\ i <= Len(z)
      BY <1>0, <1>5, <2>0, <2>1
    <3>2. ns[i] = z[i]
      BY <1>7, <2>0, <3>1
    <3>3. z[i] = IF i <= a THEN es[i] ELSE e
      BY <1>5, <3>1
    <3>4. ~(i <= a) => i = a + 1
      BY ONLY <1>0, <2>0, <2>1
    <3> QED BY ONLY <3>2, <3>3, <3>4
  <2>2. CASE ~(i <= a + 1)
    <3>1. /\ ~(i <= Len(z)) /\ i - Len(z) \in 1..(n - a) /\ a + (i - Len(z)) = i - 1
      BY <1>0, <1>1, <1>5, <2>0, <2>2
    <3>2. ns[i] = y[i - Len(z)]
      BY <1>7, <2>0, <3>1
    <3>3. ns[i] = es[i - 1]
      BY <1>3, <3>1, <3>2
    <3>4. ~(i <= a) /\ i # a + 1
      BY ONLY <1>0, <2>0, <2>2
    <3> QED BY ONLY <3>3, <3>4
  <2> QED BY <2>1, <2>2
<1> QED BY <1>1, <1>8, <1>9 DEF Spliced

LEMMA InsertApart ==
  ASSUME NEW es \in Seq(Entry), NEW node \in NodeIds \union StaleIds \union {None, Junk},
         NEW r \in [addr : 0..(Space - 1), length : Nat, file : Files \union {None},
                    off : Nat, shared : BOOLEAN, fixed : BOOLEAN, read : BOOLEAN],
         Apart(es), Room(es, r)
  PROVE  Apart(Insert(es, r, node))
<1>1. PICK va, size : va = (IF r.addr = 0 THEN Base ELSE r.addr) /\ size = FrameUp(r.length)
  OBVIOUS
<1>2. va \in Nat /\ va < Space /\ size \in Nat /\ va \in 0..(Space - 1) /\ size \in 0..(Space - 1)
  <2>1. size \in 0..(Space - 1)
    BY <1>1, FrameUpType
  <2>2. va \in 0..(Space - 1)
    BY <1>1, Constants
  <2> QED BY ONLY <2>1, <2>2, Constants
<1>3. /\ va + size < Space
      /\ \E k \in 2..Len(es) : va < es[k].start /\ End(es[k - 1]) + size < es[k].start
  BY <1>1 DEF Room
<1>4. PICK p : p = Place(es, va, size)
  OBVIOUS
<1>5. PICK m \in 2..Len(es) : /\ p.after = m - 1 /\ p.va \in Nat
                              /\ End(es[m - 1]) <= p.va /\ p.va + size < es[m].start
  BY <1>2, <1>3, <1>4, PlaceFits
<1>6. PICK e : e = [start |-> p.va, size |-> size, file |-> r.file, off |-> r.off,
                    shared |-> r.shared, read |-> r.read, node |-> node]
  OBVIOUS
<1>7. PICK ns : ns = Insert(es, r, node)
  OBVIOUS
<1>8. ns = SubSeq(es, 1, p.after) \o <<e>> \o SubSeq(es, p.after + 1, Len(es))
  BY <1>1, <1>4, <1>6, <1>7, Zenon DEF Insert
<1>9. e \in Entry /\ e.start = p.va /\ e.size = size
  <2>1. p.va \in 0..(Space - 1)
    BY <1>2, <1>4, PlaceType
  <2> QED BY <1>2, <1>6, <2>1 DEF Entry
<1>10. PICK n, a : n = Len(es) /\ a = p.after
  OBVIOUS
<1>11. n \in Nat /\ a \in 0..n /\ a \in Nat /\ a = m - 1 /\ m \in Nat /\ m <= n /\ a >= 1
       /\ DOMAIN es = 1..n
  BY <1>5, <1>10, SeqIs
<1>12. /\ DOMAIN ns = 1..(n + 1)
       /\ \A i \in 1..(n + 1) :
            ns[i] = IF i <= a THEN es[i] ELSE IF i = a + 1 THEN e ELSE es[i - 1]
  <2>1. Spliced(es, e, a, ns)
    BY <1>8, <1>9, <1>10, <1>11, SpliceIs
  <2> QED BY <1>10, <2>1 DEF Spliced
<1>13. ASSUME NEW i \in 1..n, i <= a
       PROVE  es[i].start + es[i].size <= e.start
  <2>1. m - 1 \in 1..n /\ m \in 1..n /\ m - 1 < m
    BY <1>11
  <2>2. /\ es[m - 1].start \in Nat /\ es[m - 1].start <= End(es[m - 1])
        /\ End(es[m - 1]) = es[m - 1].start + es[m - 1].size /\ End(es[m - 1]) \in Nat
    BY <1>10, <2>1, ApartIs
  <2>3. CASE i = m - 1
    BY <1>5, <1>9, <2>2, <2>3
  <2>4. CASE i < m - 1
    <3>1. End(es[i]) <= es[m - 1].start /\ End(es[i]) \in Nat /\ End(es[i]) = es[i].start + es[i].size
      BY <1>10, <2>1, <2>4, ApartIs
    <3>2. PICK x, y, z, w : x = End(es[i]) /\ y = es[m - 1].start /\ z = End(es[m - 1]) /\ w = p.va
      OBVIOUS
    <3>3. x <= w
      BY ONLY <1>5, <2>2, <3>1, <3>2
    <3> QED BY <1>9, <3>1, <3>2, <3>3
  <2> QED BY <1>11, <1>13, <2>3, <2>4
<1>14. ASSUME NEW j \in 1..n, j > a
       PROVE  e.start + e.size <= es[j].start
  <2>1. m - 1 \in 1..n /\ m \in 1..n /\ m - 1 < m
    BY <1>11
  <2>2. es[m].start \in Nat
    BY <1>10, <2>1, ApartIs
  <2>3. CASE j = m
    BY <1>2, <1>5, <1>9, <2>2, <2>3
  <2>4. CASE j > m
    <3>1. es[j].start \in Nat /\ es[m].start <= es[j].start
      BY <1>10, <2>1, <2>4, ApartIs
    <3>2. PICK x, y, z : x = p.va + size /\ y = es[m].start /\ z = es[j].start
      OBVIOUS
    <3>3. x <= z
      <4>1. x < y
        BY <1>5, <3>2
      <4>2. p.va \in Nat /\ x \in Nat /\ y \in Nat /\ z \in Nat /\ y <= z
        <5>1. p.va \in Nat
          BY <1>5
        <5> QED BY ONLY <1>2, <2>2, <3>1, <3>2, <5>1
      <4> QED BY ONLY <4>1, <4>2
    <3> QED BY <1>9, <3>2, <3>3
  <2> QED BY <1>11, <1>14, <2>3, <2>4
<1>15. \A i, j \in 1..n : i < j => es[i].start + es[i].size <= es[j].start
  BY <1>11 DEF Apart
<1>16. ASSUME NEW i \in 1..(n + 1), NEW j \in 1..(n + 1), i < j
       PROVE  ns[i].start + ns[i].size <= ns[j].start
  <2>1. CASE i <= a /\ j <= a
    BY <1>11, <1>12, <1>15, <1>16, <2>1
  <2>2. CASE i <= a /\ j = a + 1
    BY <1>11, <1>12, <1>13, <2>2
  <2>3. CASE i <= a /\ j > a + 1
    <3>1. i \in 1..n /\ j - 1 \in 1..n /\ i < j - 1 /\ ~(j <= a) /\ j # a + 1
      BY <1>11, <2>3
    <3> QED BY <1>12, <1>15, <2>3, <3>1
  <2>4. CASE i = a + 1
    <3>1. j - 1 \in 1..n /\ j - 1 > a /\ ~(j <= a) /\ j # a + 1 /\ ~(i <= a)
      BY <1>11, <1>16, <2>4
    <3> QED BY <1>12, <1>14, <2>4, <3>1
  <2>5. CASE i > a + 1
    <3>1. i - 1 \in 1..n /\ j - 1 \in 1..n /\ i - 1 < j - 1 /\ ~(j <= a) /\ j # a + 1 /\ ~(i <= a) /\ i # a + 1
      BY <1>11, <1>16, <2>5
    <3> QED BY <1>12, <1>15, <3>1
  <2> QED BY <1>11, <1>16, <2>1, <2>2, <2>3, <2>4, <2>5
<1> QED BY <1>7, <1>12, <1>16 DEF Apart

(* mmap never makes two mappings of a process overlap, and keeps the list  *)
(* in the order its walk relies on, as long as it started from such a list *)
(* and there was a gap large enough: whatever lengths and addresses are    *)
(* asked for, page aligned or not.                                         *)
THEOREM MmapKeepsApartCorrect == Spec => MmapKeepsApart
<1>1. ASSUME SpaceInv, NEW p \in Procs, NEW r \in Requests,
             Mmap(p, r), Apart(entries[p]), Room(entries[p], r)
      PROVE  Apart(entries'[p])
  <2>1. PICK node \in Leftovers : entries' = [entries EXCEPT ![p] = Insert(@, r, node)]
    BY <1>1 DEF Mmap
  <2>2. entries \in [Procs -> Seq(Entry)] /\ entries[p] \in Seq(Entry)
    BY <1>1 DEF SpaceInv, TypeOK
  <2>3. r \in [addr : 0..(Space - 1), length : Nat, file : Files \union {None},
               off : Nat, shared : BOOLEAN, fixed : BOOLEAN, read : BOOLEAN]
    BY VMMAssumption
  <2>4. node \in NodeIds \union StaleIds \union {None, Junk}
    BY <1>1, <2>1, LeftoversType DEF SpaceInv
  <2>5. Apart(Insert(entries[p], r, node))
    BY <1>1, <2>2, <2>3, <2>4, InsertApart
  <2> QED BY <2>1, <2>2, <2>5
<1>2. SpaceInv /\ [Next]_vars =>
        [\A p \in Procs, r \in Requests :
           Mmap(p, r) /\ Apart(entries[p]) /\ Room(entries[p], r) => Apart(entries'[p])]_vars
  BY <1>1
<1> QED BY <1>2, SpaceInvariant, PTL DEF Spec, MmapKeepsApart

-----------------------------------------------------------------------------
(***************************************************************************)
(* Shared mappings of files, where programs keep to what the code is made  *)
(* for: one call at a time, mappings of one page at page boundaries, and   *)
(* no process that ends or forks while it maps a file, or with a mapping   *)
(* whose memory was that of one that munmap has deleted.                   *)
(***************************************************************************)
Aligned(a) == FrameDown(a) = a
Disciplined ==
  /\ ~Preempt /\ Tidy /\ Early /\ Killable = {}
  /\ Aligned(Image.addr) /\ Aligned(Stack.addr)
  /\ \A r \in Requests : Aligned(r.addr) /\ (FromList(r) => r.length \in 1..FrameSize)
  /\ MaxEntries \in Nat \ {0, 1}
  /\ IsFiniteSet(Procs) /\ Cardinality(Procs \X Touches) < NumMod

(* The pages of the mappings in es that have a node, with the node.        *)
MarksOf(es) ==
  {x \in Touches \X NodeIds :
     \E i \in DOMAIN es : es[i].start = x[1] * FrameSize /\ es[i].node = x[2]}
Marks(p) == MarksOf(entries[p])
NoFiles(es) == \A i \in DOMAIN es : es[i].file = None

(* What the node of a new mapping may be.                                  *)
Unset == StaleIds \union {None, Junk}

(* A mapping of a file is of one page; one that has a node is of a page    *)
(* that was touched, and there is one such mapping for a page.             *)
GoodEntry(e) ==
  /\ Aligned(e.start) /\ Aligned(e.size) /\ (FromList(e) => e.size = FrameSize)
  /\ e.node \in NodeIds => /\ FromList(e) /\ End(e) = e.start + FrameSize
                           /\ \E v \in Touches : e.start = v * FrameSize
GoodEntries(es) ==
  /\ \A i \in DOMAIN es : GoodEntry(es[i])
  /\ \A i, j \in DOMAIN es :
       {es[i].node, es[j].node} \subseteq NodeIds /\ es[i].start = es[j].start => i = j

(* The mappings of p, and the pages of those that have a node.             *)
EntryInv(p) ==
  /\ Len(entries[p]) <= MaxEntries
  /\ pc[p] = "clear" => Len(entries[p]) + 2 <= MaxEntries
  /\ pc[p] = "fork" => ~HasStale(p)
  /\ pc[p] \in {"fork", "clear"} \/ status[p] # "live" => NoFiles(entries[p])
  /\ GoodEntries(entries[p])
MarkInv(p) ==
  \A x \in Marks(p) :
    /\ x[2] \in DOMAIN nodes
    /\ \/ page[p][x[1]] = nodes[x[2]].pa
       \/ /\ pc[p] = "map" /\ call[p].va = x[1] * FrameSize
          /\ call[p].frame = nodes[x[2]].pa

(* Who uses node k, and where: who has mapped it, or is about to.          *)
Pending(p) == IF pc[p] \in {"link", "read"} THEN {<<Vpn(call[p].va), call[p].node>>} ELSE {}
Users(k) == {x \in Procs \X Touches : <<x[2], k>> \in Marks(x[1]) \union Pending(x[1])}

(* The fault or munmap that p is in.                                       *)
FaultShare(p) ==
  LET e == FaultEntry(p, call[p].va)
      k == call[p].node
  IN /\ pc[p] \in {"alloc", "link"} /\ FromList(e) =>
          /\ \A j \in DOMAIN nodeList : nodes[nodeList[j]].file # e.file
          /\ call[p].tail = IF nodeList = << >> THEN None ELSE Last(nodeList)
     /\ pc[p] \in {"link", "read"} => call[p].frame = nodes[k].pa /\ nodes[k].file = e.file
Unmapping(p, v) ==
  /\ pc[p] = "unmap" /\ call[p].va = v * FrameSize /\ call[p].end = v * FrameSize + FrameSize
UnmapShare(p) ==
  LET k == call[p].node
  IN pc[p] = "unmap" =>
       /\ k \in Range(nodeList)
       /\ call[p].physical <=> Users(k) = {}
       /\ \/ call[p].va = call[p].end
          \/ \E v \in Touches : /\ Unmapping(p, v)
                                /\ page[p][v] = nodes[k].pa
                                /\ \A m \in NodeIds : <<v, m>> \notin Marks(p)

(* One call at a time.                                                     *)
Alone == \A p, q \in Procs : pc[p] # "user" /\ pc[q] # "user" => p = q

(* node_list has one node for a file, and those in use; num is the number  *)
(* of uses.                                                                *)
Linking(k) == \E p \in Procs : pc[p] = "link" /\ call[p].node = k
Freeing(k) == \E p \in Procs : pc[p] = "unmap" /\ call[p].physical /\ call[p].node = k
NodeInv ==
  /\ \A i, j \in DOMAIN nodeList :
       nodes[nodeList[i]].file = nodes[nodeList[j]].file => i = j
  /\ \A k \in DOMAIN nodes :
       /\ nodes[k].num = Cardinality(Users(k))
       /\ Users(k) # {} => k \in Range(nodeList) \/ Linking(k)
       /\ k \in Range(nodeList) => Users(k) # {} \/ Freeing(k)

(* The frame of a node belongs to the node while it is used or freed; the  *)
(* pages and faults that show it only borrow it.                           *)
InUse(k) ==
  \/ Users(k) # {}
  \/ \E p \in Procs, v \in Touches : Unmapping(p, v) /\ call[p].physical /\ call[p].node = k
Lent(p, v) == (\E m \in NodeIds : <<v, m>> \in Marks(p)) \/ Unmapping(p, v)
FaultLent(p) == pc[p] \in {"link", "read"} \/ (pc[p] = "map" /\ Lent(p, Vpn(call[p].va)))
PageHold(p, v) == IF Lent(p, v) THEN None ELSE page[p][v]
FaultHold(p) == IF FaultLent(p) THEN None ELSE call[p].frame
NodeHold(k) == IF k \in DOMAIN nodes /\ InUse(k) THEN nodes[k].pa ELSE None
Holders == Slots \union ({"node"} \X NodeIds \X {0})
Hold(s) ==
  CASE s[1] = "page" -> PageHold(s[2], s[3])
    [] s[1] = "fault" -> FaultHold(s[2])
    [] s[1] = "node" -> NodeHold(s[2])
    [] s[1] \in {"pd", "table"} -> Ref(s)
Holds == [s \in Holders |-> Hold(s)]
ShareInv ==
  /\ \A p \in Procs : EntryInv(p) /\ MarkInv(p) /\ FaultShare(p) /\ UnmapShare(p)
  /\ Alone /\ NodeInv /\ Exclusive(Holders, supply, Holds)

-----------------------------------------------------------------------------
(* Pages.                                                                  *)
LEMMA AlignedIs ==
  ASSUME NEW a \in Nat
  PROVE  Aligned(a) <=> \E n \in Nat : a = n * FrameSize
<1>1. ASSUME Aligned(a) PROVE \E n \in Nat : a = n * FrameSize
  <2>1. a \div FrameSize \in Nat
    BY Constants, DivDown
  <2>2. (a \div FrameSize) * FrameSize = a
    BY <1>1 DEF Aligned, FrameDown
  <2> QED BY <2>1, <2>2
<1>2. ASSUME NEW n \in Nat, a = n * FrameSize PROVE Aligned(a)
  <2>1. a \div FrameSize = n
    BY <1>2, Constants, DivMult
  <2> QED BY <1>2, <2>1 DEF Aligned, FrameDown
<1> QED BY <1>1, <1>2

(* A product of frame sizes, and how such compare.                         *)
LEMMA TimesFrame ==
  ASSUME NEW m \in Nat, NEW n \in Nat
  PROVE  /\ m * FrameSize \in Nat
         /\ m * FrameSize < n * FrameSize + FrameSize => m <= n
         /\ m * FrameSize <= n * FrameSize => m <= n
         /\ m * FrameSize = n * FrameSize => m = n
<1>0. FrameSize \in Nat /\ FrameSize > 0
  BY Constants
<1>1. ASSUME m >= n + 1 PROVE m * FrameSize >= n * FrameSize + FrameSize
  <2>1. PICK d \in Nat : m = n + 1 + d
    <3>1. m - (n + 1) \in Nat /\ m = n + 1 + (m - (n + 1))
      BY <1>1
    <3> QED BY <3>1
  <2>2. m * FrameSize = n * FrameSize + FrameSize + d * FrameSize /\ d * FrameSize >= 0
    BY <1>0, <2>1
  <2> QED BY <1>0, <2>2
<1>2. ASSUME n >= m + 1 PROVE n * FrameSize >= m * FrameSize + FrameSize
  <2>1. PICK d \in Nat : n = m + 1 + d
    <3>1. n - (m + 1) \in Nat /\ n = m + 1 + (n - (m + 1))
      BY <1>2
    <3> QED BY <3>1
  <2>2. n * FrameSize = m * FrameSize + FrameSize + d * FrameSize /\ d * FrameSize >= 0
    BY <1>0, <2>1
  <2> QED BY <1>0, <2>2
<1>3. m * FrameSize \in Nat /\ n * FrameSize \in Nat
  BY <1>0
<1>4. PICK x \in Nat, y \in Nat : x = m * FrameSize /\ y = n * FrameSize
  BY <1>3
<1>5. (m >= n + 1 => x >= y + FrameSize) /\ (n >= m + 1 => y >= x + FrameSize)
  BY <1>1, <1>2, <1>4
<1>6. (x < y + FrameSize => m <= n) /\ (x <= y => m <= n) /\ (x = y => m = n)
  BY ONLY <1>0, <1>5, m \in Nat, n \in Nat, x \in Nat, y \in Nat
<1> QED BY <1>4, <1>6

(* Space is a number of frames, at least two.                              *)
LEMMA SpaceFrames ==
  /\ Space = (2 * NPages) * FrameSize /\ Space >= 2 * FrameSize
  /\ Aligned(Base)
<1>1. Space = (2 * NPages) * FrameSize /\ Base = NPages * FrameSize
  BY Constants DEF Space, Base
<1>2. NPages * FrameSize >= FrameSize
  <2>1. NPages \in Nat /\ 1 \in Nat /\ FrameSize \in Nat /\ FrameSize > 0 /\ NPages > 0
    BY Constants
  <2>2. PICK d \in Nat : NPages = 1 + d
    <3>1. NPages - 1 \in Nat /\ NPages = 1 + (NPages - 1)
      BY <2>1
    <3> QED BY <3>1
  <2>3. NPages * FrameSize = FrameSize + d * FrameSize /\ d * FrameSize >= 0
    BY <2>1, <2>2
  <2> QED BY <2>1, <2>3
<1>3. Aligned(Base)
  BY <1>1, Constants, AlignedIs
<1>4. Space = 2 * (NPages * FrameSize)
  BY DEF Space, Base
<1>5. PICK x : x = NPages * FrameSize
  OBVIOUS
<1>6. x \in Nat
  BY <1>5, Constants
<1>7. Space >= 2 * FrameSize
  BY <1>2, <1>4, <1>5, <1>6, Constants
<1> QED BY <1>1, <1>3, <1>7

(* What an address modulo Space is.                                        *)
LEMMA SpaceMod ==
  ASSUME NEW a \in Nat, a < 2 * Space
  PROVE  a % Space = IF a < Space THEN a ELSE a - Space
<1>0. Space \in Nat /\ Space > 0
  BY Constants
<1> QED BY <1>0

LEMMA EndAligned ==
  ASSUME NEW e \in Entry, Aligned(e.start), Aligned(e.size)
  PROVE  Aligned(End(e))
<1>1. /\ e.start \in Nat /\ e.size \in Nat /\ e.start < Space /\ e.size < Space
      /\ Space \in Nat /\ NPages \in Nat /\ FrameSize \in Nat
  BY Constants DEF Entry
<1>2. PICK m \in Nat : e.start = m * FrameSize
  BY <1>1, AlignedIs
<1>3. PICK n \in Nat : e.size = n * FrameSize
  BY <1>1, AlignedIs
<1>4. e.start + e.size = (m + n) * FrameSize /\ e.start + e.size \in Nat
  BY <1>1, <1>2, <1>3
<1>5. CASE e.start + e.size < Space
  <2>1. End(e) = (m + n) * FrameSize
    BY <1>1, <1>4, <1>5, SpaceMod DEF End
  <2>2. End(e) \in Nat /\ m + n \in Nat
    BY <1>4, <2>1
  <2> QED BY <2>1, <2>2, AlignedIs
<1>6. CASE ~(e.start + e.size < Space)
  <2>1. End(e) = (e.start + e.size) - Space /\ End(e) \in Nat
    <3>1. PICK s \in Nat : s = e.start + e.size
      BY <1>4
    <3>2. s < 2 * Space /\ ~(s < Space) /\ s - Space \in Nat
      BY <1>1, <1>6, <3>1
    <3>3. s % Space = s - Space
      BY <3>2, SpaceMod
    <3> QED BY <3>1, <3>2, <3>3 DEF End
  <2>2. (2 * NPages) * FrameSize <= (m + n) * FrameSize
    BY <1>1, <1>4, <1>6, SpaceFrames
  <2>3. 2 * NPages <= m + n
    BY <1>1, <2>2, TimesFrame
  <2>4. m + n - 2 * NPages \in Nat
    BY <1>1, <2>3
  <2>5. End(e) = (m + n - 2 * NPages) * FrameSize
    BY <1>1, <1>4, <2>1, <2>4, SpaceFrames
  <2> QED BY <2>1, <2>4, <2>5, AlignedIs
<1> QED BY <1>5, <1>6

LEMMA FrameUpAligned ==
  ASSUME NEW a \in Nat
  PROVE  Aligned(FrameUp(a)) /\ (a \in 1..FrameSize => FrameUp(a) = FrameSize)
<1>1. PICK x : x = (a + FrameSize - 1) % Space
  OBVIOUS
<1>2. x \in Nat
  BY <1>1, Constants
<1>3. FrameUp(a) = (x \div FrameSize) * FrameSize
  BY <1>1 DEF FrameUp, FrameDown
<1>4. x \div FrameSize \in Nat /\ FrameUp(a) \in Nat
  BY <1>2, <1>3, Constants, DivDown
<1>5. Aligned(FrameUp(a))
  BY <1>3, <1>4, AlignedIs
<1>6. ASSUME a \in 1..FrameSize PROVE FrameUp(a) = FrameSize
  <2>0. FrameSize \in Nat /\ FrameSize > 0 /\ Space \in Nat /\ Space >= 2 * FrameSize
    BY Constants, SpaceFrames
  <2>1. x = a + FrameSize - 1
    <3>1. a + FrameSize - 1 \in Nat /\ a + FrameSize - 1 < Space
      BY <1>6, <2>0
    <3> QED BY <1>1, <2>0, <3>1, SpaceMod
  <2>2. PICK q : q = x \div FrameSize
    OBVIOUS
  <2>3. PICK y \in Nat : y = q * FrameSize
    BY <1>3, <1>4, <2>2
  <2>4. q \in Nat /\ y <= x /\ x < y + FrameSize
    BY <1>2, <1>4, <2>0, <2>2, <2>3
  <2>5. q * FrameSize < 1 * FrameSize + FrameSize /\ 1 * FrameSize < q * FrameSize + FrameSize
    BY <1>6, <2>0, <2>1, <2>3, <2>4
  <2>6. q <= 1 /\ 1 <= q
    BY <2>4, <2>5, TimesFrame
  <2>7. q = 1
    BY <2>4, <2>6
  <2> QED BY <1>3, <2>0, <2>2, <2>7
<1> QED BY <1>5, <1>6

(* A mapping of one page that covers a page starts there.                  *)
LEMMA CoversOne ==
  ASSUME NEW e \in Entry, Aligned(e.start), e.size = FrameSize, NEW v \in Nat,
         Covers(e, v * FrameSize)
  PROVE  e.start = v * FrameSize /\ End(e) = e.start + FrameSize
<1>0. /\ e.start \in Nat /\ e.start < Space /\ Space \in Nat /\ FrameSize \in Nat /\ FrameSize > 0
      /\ Space >= 2 * FrameSize /\ v * FrameSize \in Nat
  BY Constants, SpaceFrames, TimesFrame DEF Entry
<1>1. PICK n \in Nat : e.start = n * FrameSize
  BY <1>0, AlignedIs
<1>2. End(e) = IF e.start + FrameSize < Space THEN e.start + FrameSize
               ELSE e.start + FrameSize - Space
  BY <1>0, SpaceMod DEF End
<1>3. v * FrameSize >= e.start /\ v * FrameSize < End(e)
  BY DEF Covers
<1>4. End(e) = e.start + FrameSize
  BY <1>0, <1>2, <1>3
<1>5. n * FrameSize <= v * FrameSize /\ v * FrameSize < n * FrameSize + FrameSize
  BY <1>0, <1>1, <1>3, <1>4
<1>6. n <= v /\ v <= n
  BY <1>5, TimesFrame
<1>7. n = v
  BY <1>6
<1> QED BY <1>1, <1>4, <1>7

-----------------------------------------------------------------------------
(* The list: what mmap, munmap and a fault do to it.                       *)
LEMMA PlaceAligned ==
  ASSUME NEW es \in Seq(Entry), NEW va \in 0..(Space - 1), NEW size, Aligned(va),
         \A i \in DOMAIN es : Aligned(es[i].start) /\ Aligned(es[i].size)
  PROVE  Aligned(Place(es, va, size).va)
<1>0. /\ Len(es) \in Nat /\ DOMAIN es = 1..Len(es) /\ (es = <<>> <=> Len(es) = 0)
      /\ \A i \in 1..Len(es) : es[i] \in Entry
  BY SeqIs
<1>1. CASE es = <<>>
  <2>1. Place(es, va, size) = [va |-> va, after |-> 0]
    BY <1>1 DEF Place
  <2> QED BY <2>1
<1>2. CASE es # <<>>
  <2>1. PICK f : /\ IsWalk(es, va, size, Len(es), f)
                 /\ Place(es, va, size).va = f[Len(es)].va
    BY <1>2, PlaceIs
  <2> DEFINE S == {k \in 1..Len(es) : ~Aligned(f[k].va)}
  <2>2. ASSUME S # {} PROVE FALSE
    <3>0. S \subseteq Nat
      BY <1>0
    <3>1. PICK m \in S : \A y \in S : m <= y
      BY <2>2, <3>0, LowestIn
    <3>2. f[m] = SeenAt(es, va, size, f, m)
      BY <2>1, <3>1 DEF IsWalk
    <3>3. CASE m = 1
      <4>1. f[m].va = va
        BY <3>2, <3>3 DEF SeenAt
      <4> QED BY <3>1, <4>1
    <3>4. CASE m # 1
      <4>1. m - 1 \in 1..Len(es) /\ m - 1 \notin S
        BY <1>0, <3>1, <3>4
      <4>2. Aligned(f[m - 1].va) /\ Aligned(End(es[m - 1]))
        BY <1>0, <4>1, EndAligned
      <4>3. f[m].va \in {f[m - 1].va, End(es[m - 1])}
        BY <3>2, <3>4 DEF SeenAt, LookAt
      <4> QED BY <3>1, <4>2, <4>3
    <3> QED BY <3>3, <3>4
  <2>3. Len(es) \in 1..Len(es)
    BY <1>0, <1>2
  <2> QED BY <2>1, <2>2, <2>3
<1> QED BY <1>1, <1>2

(* A mapping that mmap adds has no node: the marks stay.                   *)
LEMMA InsertShare ==
  ASSUME NEW es \in Seq(Entry), GoodEntries(es), NEW node \in Unset,
         NEW r \in [addr : 0..(Space - 1), length : Nat, file : Files \union {None},
                    off : Nat, shared : BOOLEAN, fixed : BOOLEAN, read : BOOLEAN],
         Aligned(r.addr), FromList(r) => r.length \in 1..FrameSize
  PROVE  /\ GoodEntries(Insert(es, r, node))
         /\ MarksOf(Insert(es, r, node)) = MarksOf(es)
         /\ Insert(es, r, node) \in Seq(Entry)
         /\ Len(Insert(es, r, node)) = Len(es) + 1
         /\ NoFiles(es) /\ r.file = None => NoFiles(Insert(es, r, node))
<1>1. PICK va, size : va = (IF r.addr = 0 THEN Base ELSE r.addr) /\ size = FrameUp(r.length)
  OBVIOUS
<1>2. va \in 0..(Space - 1) /\ size \in 0..(Space - 1)
  <2>1. size \in 0..(Space - 1)
    BY <1>1, FrameUpType
  <2>2. va \in 0..(Space - 1)
    BY <1>1, Constants
  <2> QED BY <2>1, <2>2
<1>3. PICK p : p = Place(es, va, size)
  OBVIOUS
<1>4. PICK e : e = [start |-> p.va, size |-> size, file |-> r.file, off |-> r.off,
                    shared |-> r.shared, read |-> r.read, node |-> node]
  OBVIOUS
<1>5. PICK ns : ns = Insert(es, r, node)
  OBVIOUS
<1>6. ns = SubSeq(es, 1, p.after) \o <<e>> \o SubSeq(es, p.after + 1, Len(es))
  BY <1>1, <1>3, <1>4, <1>5, Zenon DEF Insert
<1>7. p.va \in 0..(Space - 1) /\ p.after \in 0..Len(es)
  BY <1>2, <1>3, PlaceType
<1>8. e \in Entry /\ e.node = node /\ node \notin NodeIds /\ e.start = p.va /\ e.size = size /\ e.file = r.file
      /\ e.shared = r.shared
  BY <1>2, <1>4, <1>7, StaleApart, Constants DEF Entry, Unset
<1>9. GoodEntry(e)
  <2>1. Aligned(va)
    BY <1>1, SpaceFrames
  <2>2. Aligned(p.va)
    BY <1>2, <1>3, <2>1, PlaceAligned DEF GoodEntries, GoodEntry
  <2>3. Aligned(size) /\ (r.length \in 1..FrameSize => size = FrameSize)
    BY <1>1, FrameUpAligned
  <2>4. FromList(e) <=> FromList(r)
    BY <1>8 DEF FromList
  <2> QED BY <1>8, <2>2, <2>3, <2>4 DEF GoodEntry
<1>10. PICK n, a : n = Len(es) /\ a = p.after
  OBVIOUS
<1>11. n \in Nat /\ a \in 0..n /\ a \in Nat /\ DOMAIN es = 1..n
  BY <1>7, <1>10, SeqIs
<1>12. /\ DOMAIN ns = 1..(n + 1)
       /\ \A i \in 1..(n + 1) :
            ns[i] = IF i <= a THEN es[i] ELSE IF i = a + 1 THEN e ELSE es[i - 1]
  <2>1. ns = SubSeq(es, 1, a) \o <<e>> \o SubSeq(es, a + 1, Len(es))
    BY <1>6, <1>10
  <2>2. a \in 0..Len(es) /\ e \in Entry
    BY <1>7, <1>8, <1>10
  <2>3. Spliced(es, e, a, ns)
    BY <2>1, <2>2, SpliceIs
  <2> QED BY <1>10, <2>3 DEF Spliced
<1>13. ns \in Seq(Entry)
  BY <1>5, InsertType DEF Unset
<1>14. Len(ns) = n + 1
  <2>1. DOMAIN ns = 1..Len(ns) /\ Len(ns) \in Nat
    BY <1>13, SeqIs
  <2> QED BY <1>11, <1>12, <2>1
<1>15. \A i \in DOMAIN ns : ns[i] = e \/ \E j \in DOMAIN es : ns[i] = es[j]
  <2> TAKE i \in DOMAIN ns
  <2>1. CASE i <= a
    BY <1>11, <1>12, <2>1
  <2>2. CASE i = a + 1
    BY <1>11, <1>12, <2>2
  <2>3. CASE ~(i <= a) /\ i # a + 1
    <3>1. i - 1 \in 1..n
      BY <1>11, <1>12, <2>3
    <3> QED BY <1>11, <1>12, <2>3, <3>1
  <2> QED BY <2>1, <2>2, <2>3
<1>16. \A i \in DOMAIN es : \E j \in DOMAIN ns : ns[j] = es[i]
  <2> TAKE i \in DOMAIN es
  <2>1. CASE i <= a
    BY <1>11, <1>12, <2>1
  <2>2. CASE ~(i <= a)
    <3>1. i + 1 \in 1..(n + 1) /\ ~(i + 1 <= a) /\ i + 1 # a + 1 /\ (i + 1) - 1 = i
      BY <1>11, <2>2
    <3>2. ns[i + 1] = es[i]
      BY <1>12, <3>1
    <3> QED BY <1>12, <3>1, <3>2
  <2> QED BY <2>1, <2>2
<1>17. MarksOf(ns) = MarksOf(es)
  <2>1. node \notin NodeIds
    BY <1>8
  <2>2. ASSUME NEW x \in MarksOf(ns) PROVE x \in MarksOf(es)
    BY <1>8, <1>15, <2>1, <2>2 DEF MarksOf
  <2>3. ASSUME NEW x \in MarksOf(es) PROVE x \in MarksOf(ns)
    BY <1>16, <2>3 DEF MarksOf
  <2> QED BY <2>2, <2>3
<1>18. GoodEntries(ns)
  <2>1. \A i \in DOMAIN ns : GoodEntry(ns[i])
    BY <1>9, <1>15 DEF GoodEntries
  <2>2. ASSUME NEW i \in DOMAIN ns, NEW j \in DOMAIN ns,
               ns[i].node \in NodeIds, ns[j].node \in NodeIds, ns[i].start = ns[j].start
        PROVE  i = j
    <3>1. i # a + 1 /\ j # a + 1 /\ i \in 1..(n + 1) /\ j \in 1..(n + 1)
      BY <1>8, <1>11, <1>12, <2>2
    <3>2. \A k, l \in DOMAIN es :
            es[k].node \in NodeIds /\ es[l].node \in NodeIds /\ es[k].start = es[l].start => k = l
      BY DEF GoodEntries
    <3>3. PICK k \in DOMAIN es : ns[i] = es[k] /\ (IF i <= a THEN k = i ELSE k = i - 1)
      BY <1>11, <1>12, <3>1
    <3>4. PICK l \in DOMAIN es : ns[j] = es[l] /\ (IF j <= a THEN l = j ELSE l = j - 1)
      BY <1>11, <1>12, <3>1
    <3>5. k = l
      BY <2>2, <3>2, <3>3, <3>4
    <3> QED BY <1>11, <3>1, <3>3, <3>4, <3>5
  <2> QED BY <2>1, <2>2 DEF GoodEntries
<1>19. NoFiles(es) /\ r.file = None => NoFiles(ns)
  BY <1>8, <1>15 DEF NoFiles
<1> QED BY <1>5, <1>10, <1>13, <1>14, <1>17, <1>18, <1>19

(* A list without one of its elements: what is where.                      *)
Removed(es, i, ns) ==
  /\ \A j \in DOMAIN ns : \E l \in DOMAIN es :
       l # i /\ ns[j] = es[l] /\ (IF j < i THEN l = j ELSE l = j + 1)
  /\ \A l \in DOMAIN es : l # i => \E j \in DOMAIN ns : ns[j] = es[l]
  /\ DOMAIN ns \subseteq Nat /\ i \in Nat

LEMMA RemoveAtMaps ==
  ASSUME NEW S, NEW es \in Seq(S), NEW i \in DOMAIN es, NEW ns, ns = RemoveAt(es, i)
  PROVE  Removed(es, i, ns)
<1>0. PICK n : n = Len(es)
  OBVIOUS
<1>1. n \in Nat /\ DOMAIN es = 1..n /\ i \in 1..n /\ i \in 1..Len(es)
  BY <1>0, SeqIs
<1>2. /\ ns \in Seq(S) /\ Len(ns) = n - 1
      /\ \A j \in 1..(i - 1) : ns[j] = es[j]
      /\ \A j \in i..(n - 1) : ns[j] = es[j + 1]
  BY <1>0, <1>1, RemoveAtIs
<1>3. DOMAIN ns = 1..(n - 1)
  BY <1>2, SeqIs
<1>4. \A j \in DOMAIN ns : \E l \in DOMAIN es :
        l # i /\ ns[j] = es[l] /\ (IF j < i THEN l = j ELSE l = j + 1)
  <2> TAKE j \in DOMAIN ns
  <2>1. CASE j < i
    BY <1>1, <1>2, <1>3, <2>1
  <2>2. CASE ~(j < i)
    <3>1. j + 1 \in 1..n /\ j + 1 # i /\ j \in i..(n - 1)
      BY <1>1, <1>3, <2>2
    <3> QED BY <1>1, <1>2, <2>2, <3>1
  <2> QED BY <2>1, <2>2
<1>5. \A l \in DOMAIN es : l # i => \E j \in DOMAIN ns : ns[j] = es[l]
  <2> SUFFICES ASSUME NEW l \in DOMAIN es, l # i PROVE \E j \in DOMAIN ns : ns[j] = es[l]
    OBVIOUS
  <2>1. CASE l < i
    <3>1. l \in 1..(i - 1) /\ l \in 1..(n - 1)
      BY <1>1, <2>1
    <3> QED BY <1>2, <1>3, <3>1
  <2>2. CASE ~(l < i)
    <3>1. l - 1 \in i..(n - 1) /\ l - 1 \in 1..(n - 1) /\ (l - 1) + 1 = l
      BY <1>1, <2>2
    <3> QED BY <1>2, <1>3, <3>1
  <2> QED BY <2>1, <2>2
<1> QED BY <1>1, <1>3, <1>4, <1>5 DEF Removed

(* munmap takes the mark of the mapping away.                              *)
LEMMA RemoveShare ==
  ASSUME NEW es \in Seq(Entry), GoodEntries(es), NEW i \in DOMAIN es, es[i].node \in NodeIds,
         NEW v \in Touches, es[i].start = v * FrameSize
  PROVE  /\ GoodEntries(RemoveAt(es, i))
         /\ MarksOf(RemoveAt(es, i)) = MarksOf(es) \ {<<v, es[i].node>>}
         /\ \A m \in NodeIds : <<v, m>> \in MarksOf(es) => m = es[i].node
         /\ <<v, es[i].node>> \in MarksOf(es)
         /\ Len(RemoveAt(es, i)) <= Len(es)
<1>0. PICK n, ns, k : n = Len(es) /\ ns = RemoveAt(es, i) /\ k = es[i].node
  OBVIOUS
<1>1. n \in Nat /\ DOMAIN es = 1..n /\ i \in 1..n /\ i \in 1..Len(es)
  BY <1>0, SeqIs
<1>2. /\ ns \in Seq(Entry) /\ Len(ns) = n - 1
      /\ \A j \in 1..(i - 1) : ns[j] = es[j]
      /\ \A j \in i..(n - 1) : ns[j] = es[j + 1]
  BY <1>0, <1>1, RemoveAtIs
<1>3. DOMAIN ns = 1..(n - 1)
  BY <1>2, SeqIs
<1>4. /\ \A j \in DOMAIN ns : \E l \in DOMAIN es :
           l # i /\ ns[j] = es[l] /\ (IF j < i THEN l = j ELSE l = j + 1)
      /\ \A l \in DOMAIN es : l # i => \E j \in DOMAIN ns : ns[j] = es[l]
  <2>1. Removed(es, i, ns)
    BY <1>0, RemoveAtMaps
  <2> QED BY <2>1 DEF Removed
<1>5. \A l \in DOMAIN es : l # i => \E j \in DOMAIN ns : ns[j] = es[l]
  BY <1>4
<1>6. k \in NodeIds
  BY <1>0
<1>7. \A j \in DOMAIN es : es[j].node \in NodeIds /\ es[j].start = v * FrameSize => j = i
  BY DEF GoodEntries
<1>8. GoodEntries(ns)
  <2>1. \A j \in DOMAIN ns : GoodEntry(ns[j])
    BY <1>4 DEF GoodEntries
  <2>2. ASSUME NEW j \in DOMAIN ns, NEW m \in DOMAIN ns,
               ns[j].node \in NodeIds, ns[m].node \in NodeIds, ns[j].start = ns[m].start
        PROVE  j = m
    <3>1. PICK l \in DOMAIN es : ns[j] = es[l] /\ (IF j < i THEN l = j ELSE l = j + 1) /\ l # i
      BY <1>4
    <3>2. PICK t \in DOMAIN es : ns[m] = es[t] /\ (IF m < i THEN t = m ELSE t = m + 1) /\ t # i
      BY <1>4
    <3>3. l = t
      BY <2>2, <3>1, <3>2 DEF GoodEntries
    <3>4. j \in Nat /\ m \in Nat /\ i \in Nat
      BY <1>1, <1>3
    <3> QED BY <3>1, <3>2, <3>3, <3>4
  <2> QED BY <2>1, <2>2 DEF GoodEntries
<1>9. \A j \in DOMAIN es : es[j].start = v * FrameSize /\ es[j].node \in NodeIds => j = i
  BY <1>6, <1>7
<1>10. \A m \in NodeIds : <<v, m>> \in MarksOf(es) => m = k
  BY <1>0, <1>9 DEF MarksOf
<1>11. <<v, k>> \in MarksOf(es)
  BY <1>0, <1>6 DEF MarksOf
<1>12. \A x \in Touches \X NodeIds : x = <<x[1], x[2]>> /\ x[1] \in Touches /\ x[2] \in NodeIds
  OBVIOUS
<1>13. ASSUME NEW x \in MarksOf(ns) PROVE x \in MarksOf(es) \ {<<v, k>>}
  <2>1. x \in Touches \X NodeIds
        /\ \E j \in DOMAIN ns : ns[j].start = x[1] * FrameSize /\ ns[j].node = x[2]
    BY <1>13 DEF MarksOf
  <2>2. PICK l \in DOMAIN es : l # i /\ es[l].start = x[1] * FrameSize /\ es[l].node = x[2]
    BY <1>4, <2>1
  <2>3. x \in MarksOf(es)
    BY <2>1, <2>2 DEF MarksOf
  <2>4. x # <<v, k>>
    <3> SUFFICES ASSUME x = <<v, k>> PROVE FALSE
      OBVIOUS
    <3>1. x[1] = v /\ x[2] = k
      OBVIOUS
    <3> QED BY <1>6, <1>9, <2>2, <3>1
  <2> QED BY <2>3, <2>4
<1>14. ASSUME NEW x \in MarksOf(es), x # <<v, k>> PROVE x \in MarksOf(ns)
  <2>1. x \in Touches \X NodeIds
        /\ \E l \in DOMAIN es : es[l].start = x[1] * FrameSize /\ es[l].node = x[2]
    BY <1>14 DEF MarksOf
  <2>2. PICK l \in DOMAIN es : es[l].start = x[1] * FrameSize /\ es[l].node = x[2]
    BY <2>1
  <2>3. l # i
    <3> SUFFICES ASSUME l = i PROVE FALSE
      OBVIOUS
    <3>1. x[1] \in Nat /\ v \in Nat /\ x[1] * FrameSize = v * FrameSize /\ x[2] = k
      BY <1>0, <1>12, <2>1, <2>2, Constants
    <3>2. x[1] = v
      BY <3>1, TimesFrame
    <3> QED BY <1>12, <1>14, <2>1, <3>1, <3>2
  <2>4. \E j \in DOMAIN ns : ns[j] = es[l]
    BY <1>5, <2>3
  <2> QED BY <2>1, <2>2, <2>4 DEF MarksOf
<1>15. MarksOf(ns) = MarksOf(es) \ {<<v, k>>}
  BY <1>13, <1>14
<1>16. Len(ns) <= Len(es)
  BY <1>0, <1>1, <1>2
<1> QED BY <1>0, <1>8, <1>10, <1>11, <1>15, <1>16

(* A fault gives the mapping of the page its node.                         *)
Marked(es, ns, v, k) ==
  GoodEntries(ns) /\ MarksOf(ns) = MarksOf(es) \union {<<v, k>>} /\ Len(ns) = Len(es)

LEMMA SetNodeShare ==
  ASSUME NEW es \in Seq(Entry), GoodEntries(es), NEW i \in DOMAIN es, NEW k \in NodeIds,
         NEW v \in Touches, es[i].start = v * FrameSize, FromList(es[i]),
         End(es[i]) = es[i].start + FrameSize,
         \A m \in NodeIds : <<v, m>> \notin MarksOf(es),
         NEW ns, ns = [es EXCEPT ![i].node = k]
  PROVE  Marked(es, ns, v, k)
<1>1. PICK n : n = Len(es)
  OBVIOUS
<1>2. n \in Nat /\ DOMAIN es = 1..n /\ i \in 1..n /\ \A j \in 1..n : es[j] \in Entry
  BY <1>1, SeqIs
<1>3. /\ DOMAIN ns = 1..n /\ \A j \in 1..n : j # i => ns[j] = es[j]
      /\ ns[i] = [es[i] EXCEPT !.node = k]
  BY <1>2
<1>4. ns \in Seq(Entry) /\ Len(ns) = n
  <2>1. ns[i] \in Entry
    BY <1>2, <1>3 DEF Entry
  <2>2. \A j \in 1..n : ns[j] \in Entry
    BY <1>2, <1>3, <2>1
  <2>3. ns = [j \in 1..n |-> ns[j]]
    BY <1>2, Zenon
  <2>4. ns \in Seq(Entry)
    BY <1>2, <2>2, <2>3, FunIsSeq
  <2>5. DOMAIN ns = 1..Len(ns) /\ Len(ns) \in Nat
    BY <2>4, SeqIs
  <2> QED BY <1>2, <1>3, <2>4, <2>5
<1>5. /\ ns[i].node = k /\ ns[i].start = es[i].start /\ ns[i].size = es[i].size
      /\ ns[i].file = es[i].file /\ ns[i].shared = es[i].shared
  BY <1>2, <1>3 DEF Entry
<1>7. \A j \in DOMAIN es : es[j].start = v * FrameSize => es[j].node \notin NodeIds
  <2> SUFFICES ASSUME NEW j \in DOMAIN es, es[j].start = v * FrameSize, es[j].node \in NodeIds
               PROVE  FALSE
    OBVIOUS
  <2>2. <<v, es[j].node>> \in MarksOf(es)
    BY DEF MarksOf
  <2> QED BY <2>2
<1>8. GoodEntry(ns[i])
  <2>1. FromList(ns[i]) /\ End(ns[i]) = ns[i].start + FrameSize
    BY <1>5 DEF FromList, End
  <2>2. GoodEntry(es[i])
    BY DEF GoodEntries
  <2> QED BY <1>5, <2>1, <2>2 DEF GoodEntry
<1>9. GoodEntries(ns)
  <2>1. \A j \in DOMAIN ns : GoodEntry(ns[j])
    BY <1>2, <1>3, <1>8 DEF GoodEntries
  <2>2. ASSUME NEW j \in DOMAIN ns, NEW m \in DOMAIN ns,
               ns[j].node \in NodeIds, ns[m].node \in NodeIds, ns[j].start = ns[m].start
        PROVE  j = m
    <3>1. CASE j = i /\ m # i
      BY <1>2, <1>3, <1>5, <1>7, <2>2, <3>1
    <3>2. CASE j # i /\ m = i
      BY <1>2, <1>3, <1>5, <1>7, <2>2, <3>2
    <3>3. CASE j # i /\ m # i
      BY <1>2, <1>3, <2>2, <3>3 DEF GoodEntries
    <3> QED BY <3>1, <3>2, <3>3
  <2> QED BY <2>1, <2>2 DEF GoodEntries
<1>10. ASSUME NEW x \in MarksOf(ns) PROVE x \in MarksOf(es) \union {<<v, k>>}
  <2>1. x \in Touches \X NodeIds
        /\ \E j \in DOMAIN ns : ns[j].start = x[1] * FrameSize /\ ns[j].node = x[2]
    BY <1>10 DEF MarksOf
  <2>2. PICK j \in DOMAIN ns : ns[j].start = x[1] * FrameSize /\ ns[j].node = x[2]
    BY <2>1
  <2>3. CASE j # i
    BY <1>2, <1>3, <2>1, <2>2, <2>3 DEF MarksOf
  <2>4. CASE j = i
    <3>1. x[1] \in Nat /\ v \in Nat /\ x[1] * FrameSize = v * FrameSize /\ x[2] = k
      BY <1>5, <2>1, <2>2, <2>4, Constants
    <3>2. x[1] = v
      BY <3>1, TimesFrame
    <3>3. x = <<x[1], x[2]>>
      BY <2>1
    <3> QED BY <3>1, <3>2, <3>3
  <2> QED BY <2>3, <2>4
<1>11. <<v, k>> \in MarksOf(ns)
  BY <1>2, <1>3, <1>5 DEF MarksOf
<1>12. ASSUME NEW x \in MarksOf(es) PROVE x \in MarksOf(ns)
  <2>1. x \in Touches \X NodeIds
        /\ \E j \in DOMAIN es : es[j].start = x[1] * FrameSize /\ es[j].node = x[2]
    BY <1>12 DEF MarksOf
  <2>2. PICK j \in DOMAIN es : es[j].start = x[1] * FrameSize /\ es[j].node = x[2]
    BY <2>1
  <2>3. j # i
    BY <1>7, <2>1, <2>2
  <2>4. ns[j] = es[j] /\ j \in DOMAIN ns
    BY <1>2, <1>3, <2>3
  <2> QED BY <2>1, <2>2, <2>4 DEF MarksOf
<1>13. MarksOf(ns) = MarksOf(es) \union {<<v, k>>}
  BY <1>10, <1>11, <1>12
<1> QED BY <1>1, <1>4, <1>9, <1>13 DEF Marked

(* Entries without files have no marks.                                    *)
LEMMA NoFilesMarks ==
  ASSUME NEW es, GoodEntries(es), NoFiles(es)
  PROVE  MarksOf(es) = {} /\ \A i \in DOMAIN es : es[i].node \notin NodeIds
<1>1. \A i \in DOMAIN es : es[i].node \notin NodeIds
  BY DEF GoodEntries, GoodEntry, NoFiles, FromList
<1> QED BY <1>1 DEF MarksOf

-----------------------------------------------------------------------------
(* Who uses a node.                                                        *)
LEMMA MarksIn ==
  ASSUME NEW es, NEW x \in MarksOf(es)
  PROVE  x = <<x[1], x[2]>> /\ x[1] \in Touches /\ x[1] \in Vpns /\ x[2] \in NodeIds
<1>1. x \in Touches \X NodeIds /\ Touches \subseteq Vpns
  BY Constants DEF MarksOf
<1> QED BY <1>1

LEMMA UsesCounted ==
  ASSUME Disciplined, NEW S, S \subseteq Procs \X Touches
  PROVE  /\ IsFiniteSet(S) /\ Cardinality(S) \in Nat /\ Cardinality(S) < NumMod
         /\ S = {} <=> Cardinality(S) = 0
<1>1. IsFiniteSet(Touches)
  <2>1. NPages \in Int /\ 2 * NPages - 1 \in Int
    BY Constants
  <2>2. IsFiniteSet(Vpns)
    BY <2>1, FS_Interval DEF Vpns
  <2>3. Touches \subseteq Vpns
    BY Constants
  <2> QED BY <2>2, <2>3, FS_Subset
<1>2. IsFiniteSet(Procs \X Touches)
  BY <1>1, FS_Product DEF Disciplined
<1>3. IsFiniteSet(S) /\ Cardinality(S) <= Cardinality(Procs \X Touches)
  BY <1>2, FS_Subset
<1>4. Cardinality(S) \in Nat /\ Cardinality(Procs \X Touches) \in Nat
  BY <1>2, <1>3, FS_CardinalityType
<1>5. Cardinality(S) < NumMod
  BY <1>3, <1>4, Constants DEF Disciplined
<1>6. S = {} <=> Cardinality(S) = 0
  BY <1>3, FS_EmptySet
<1> QED BY <1>3, <1>4, <1>5, <1>6

LEMMA UsersIn == \A k : Users(k) \subseteq Procs \X Touches /\ Users(k)' \subseteq Procs \X Touches
BY DEF Users

LEMMA UsersAre ==
  ASSUME NEW q \in Procs, NEW v \in Touches, NEW k
  PROVE  /\ <<q, v>> \in Users(k) <=> <<v, k>> \in Marks(q) \/ <<v, k>> \in Pending(q)
         /\ <<q, v>> \in Users(k)' <=> <<v, k>> \in Marks(q)' \/ <<v, k>> \in Pending(q)'
BY DEF Users

(* A node that was never made has no users.                                *)
LEMMA NoUsers ==
  ASSUME SpaceInv, ShareInv, NEW k, k \notin DOMAIN nodes
  PROVE  Users(k) = {}
<1> SUFFICES ASSUME NEW q \in Procs, NEW v \in Touches, <<q, v>> \in Users(k) PROVE FALSE
  BY UsersIn
<1>1. <<v, k>> \in Marks(q) \/ <<v, k>> \in Pending(q)
  BY UsersAre
<1>2. <<v, k>> \notin Marks(q)
  BY DEF ShareInv, MarkInv
<1>3. <<v, k>> \notin Pending(q)
  BY DEF Pending, SpaceInv, FaultInv
<1> QED BY <1>1, <1>2, <1>3

LEMMA UsersKept ==
  ASSUME \A q \in Procs : Marks(q)' = Marks(q) /\ Pending(q)' = Pending(q)
  PROVE  \A k : Users(k)' = Users(k)
BY DEF Users

(* Where calls are made one at a time, all but p are in their programs.    *)
LEMMA OthersIdle ==
  ASSUME SpaceInv, Disciplined, NEW p \in Procs, NEW l, At(p, l)
  PROVE  \A q \in Procs \ {p} : pc[q] = "user"
<1> TAKE q \in Procs \ {p}
<1>1. status[q] = "live" => pc[q] = "user"
  BY DEF Disciplined, At
<1>2. status[q] # "live" => pc[q] = "user"
  BY DEF SpaceInv, CallInv
<1> QED BY <1>1, <1>2

NodesKept ==
  \A k \in DOMAIN nodes : /\ k \in DOMAIN nodes' /\ nodes'[k].pa = nodes[k].pa
                          /\ nodes'[k].file = nodes[k].file
ShareOf(q) == EntryInv(q) /\ MarkInv(q) /\ FaultShare(q) /\ UnmapShare(q)

(* A process in its program that the step leaves alone.                    *)
LEMMA IdleKept ==
  ASSUME ShareInv, NodesKept, NEW q \in Procs, Same(q), pc[q] = "user"
  PROVE  ShareOf(q)'
<1>1. EntryInv(q) /\ MarkInv(q)
  BY DEF ShareInv
<1>2. EntryInv(q)'
  BY <1>1 DEF EntryInv, Same
<1>3. MarkInv(q)'
  <2>1. Marks(q)' = Marks(q)
    BY DEF Marks, Same
  <2>2. \A x \in Marks(q) : x[2] \in DOMAIN nodes /\ page[q][x[1]] = nodes[x[2]].pa
    BY <1>1 DEF MarkInv
  <2> QED BY <2>1, <2>2 DEF MarkInv, NodesKept, Same
<1>4. FaultShare(q)' /\ UnmapShare(q)'
  BY DEF FaultShare, UnmapShare, Same
<1> QED BY <1>2, <1>3, <1>4 DEF ShareOf

LEMMA AloneIs ==
  ASSUME NEW p \in Procs, \A q \in Procs \ {p} : pc'[q] = "user"
  PROVE  Alone'
BY DEF Alone

(* A step of p on its own.                                                 *)
LEMMA ShareAssemble ==
  ASSUME ShareInv, NodesKept, NEW p \in Procs,
         \A q \in Procs \ {p} : Same(q) /\ pc[q] = "user",
         ShareOf(p)', NodeInv', Exclusive(Holders, supply', Holds')
  PROVE  ShareInv'
<1>1. \A q \in Procs : ShareOf(q)'
  BY IdleKept
<1>2. Alone'
  <2>1. \A q \in Procs \ {p} : pc'[q] = "user"
    BY DEF Same
  <2> QED BY <2>1, AloneIs
<1>3. Exclusive(Holders, supply, Holds)'
  BY DEF Exclusive
<1> QED BY <1>1, <1>2, <1>3 DEF ShareInv, ShareOf

NodeSlot(k) == <<"node", k, 0>>
Lends(s) == (s[1] = "page" /\ Lent(s[2], s[3])) \/ (s[1] = "fault" /\ FaultLent(s[2]))

LEMMA HoldsAre ==
  /\ \A s \in Slots : /\ s \in Holders /\ Holds[s] = IF Lends(s) THEN None ELSE Refs[s]
                      /\ Holds'[s] = IF Lends(s)' THEN None ELSE Refs'[s]
  /\ \A k \in NodeIds : /\ NodeSlot(k) \in Holders /\ NodeSlot(k) \notin Slots
                        /\ Holds[NodeSlot(k)] = NodeHold(k) /\ Holds'[NodeSlot(k)] = NodeHold(k)'
  /\ \A s \in Holders : s \in Slots \/ \E k \in NodeIds : s = NodeSlot(k)
<1>1. ASSUME NEW s \in Slots
      PROVE  /\ s \in Holders /\ Holds[s] = IF Lends(s) THEN None ELSE Refs[s]
             /\ Holds'[s] = IF Lends(s)' THEN None ELSE Refs'[s]
  <2>0. s \in Holders
    BY DEF Holders
  <2>1. Refs[s] = Ref(s) /\ Refs'[s] = Ref(s)'
    BY DEF Refs
  <2>2. CASE \E q \in Procs : s = PdSlot(q)
    <3>1. s[1] = "pd"
      BY <2>2 DEF PdSlot
    <3> QED BY <2>0, <2>1, <3>1 DEF Holds, Hold, Lends
  <2>3. CASE \E q \in Procs, i \in Pdis : s = TableSlot(q, i)
    <3>1. s[1] = "table"
      BY <2>3 DEF TableSlot
    <3> QED BY <2>0, <2>1, <3>1 DEF Holds, Hold, Lends
  <2>4. CASE \E q \in Procs : s = FaultSlot(q)
    <3>1. s[1] = "fault"
      BY <2>4 DEF FaultSlot
    <3>2. Ref(s) = call[s[2]].frame /\ Ref(s)' = call'[s[2]].frame
      BY <3>1 DEF Ref
    <3>3. Holds[s] = FaultHold(s[2]) /\ Holds'[s] = FaultHold(s[2])'
      BY <2>0, <3>1 DEF Holds, Hold
    <3> QED BY <2>0, <2>1, <3>1, <3>2, <3>3 DEF FaultHold, Lends
  <2>5. CASE \E q \in Procs, v \in Vpns : s = PageSlot(q, v)
    <3>1. s[1] = "page"
      BY <2>5 DEF PageSlot
    <3>2. Ref(s) = page[s[2]][s[3]] /\ Ref(s)' = page'[s[2]][s[3]]
      BY <3>1 DEF Ref
    <3>3. Holds[s] = PageHold(s[2], s[3]) /\ Holds'[s] = PageHold(s[2], s[3])'
      BY <2>0, <3>1 DEF Holds, Hold
    <3> QED BY <2>0, <2>1, <3>1, <3>2, <3>3 DEF PageHold, Lends
  <2> QED BY <2>2, <2>3, <2>4, <2>5, SlotKinds
<1>2. ASSUME NEW k \in NodeIds
      PROVE  /\ NodeSlot(k) \in Holders /\ NodeSlot(k) \notin Slots
             /\ Holds[NodeSlot(k)] = NodeHold(k) /\ Holds'[NodeSlot(k)] = NodeHold(k)'
  <2>1. NodeSlot(k) \in Holders
    BY DEF Holders, NodeSlot
  <2>2. NodeSlot(k) \notin Slots
    BY DEF Slots, NodeSlot
  <2>3. NodeSlot(k)[1] = "node" /\ NodeSlot(k)[2] = k
    BY DEF NodeSlot
  <2> QED BY <2>1, <2>2, <2>3 DEF Holds, Hold
<1>3. ASSUME NEW s \in Holders PROVE s \in Slots \/ \E k \in NodeIds : s = NodeSlot(k)
  BY DEF Holders, NodeSlot
<1> QED BY <1>1, <1>2, <1>3

LEMMA HoldsType ==
  /\ SpaceInv => Holds \in [Holders -> FrameOrNone]
  /\ SpaceInv' => Holds' \in [Holders -> FrameOrNone]
<1>1. Holds = [s \in Holders |-> Holds[s]] /\ Holds' = [s \in Holders |-> Holds'[s]]
  BY DEF Holds
<1>2. ASSUME SpaceInv, NEW s \in Holders PROVE Holds[s] \in FrameOrNone
  <2>0. TypeOK
    BY <1>2 DEF SpaceInv
  <2>1. CASE s \in Slots
    BY <2>0, <2>1, HoldsAre, RefsType DEF FrameOrNone
  <2>2. ASSUME NEW k \in NodeIds, s = NodeSlot(k) PROVE Holds[s] \in FrameOrNone
    <3>1. k \in DOMAIN nodes => nodes[k].pa \in Frames
      BY <1>2, NodesIs
    <3> QED BY <2>2, <3>1, HoldsAre DEF NodeHold, FrameOrNone
  <2> QED BY <2>1, <2>2, HoldsAre
<1>3. ASSUME SpaceInv', NEW s \in Holders PROVE Holds'[s] \in FrameOrNone
  <2>0. TypeOK'
    BY <1>3 DEF SpaceInv
  <2>1. CASE s \in Slots
    BY <2>0, <2>1, HoldsAre, RefsType DEF FrameOrNone
  <2>2. ASSUME NEW k \in NodeIds, s = NodeSlot(k) PROVE Holds'[s] \in FrameOrNone
    <3>1. k \in DOMAIN nodes' => nodes'[k].pa \in Frames
      <4>1. nodes' \in Seq([file : Files, pa : Frames, num : 0..(NumMod - 1)])
        BY <2>0 DEF TypeOK
      <4>2. k \in DOMAIN nodes' => nodes'[k] \in [file : Files, pa : Frames, num : 0..(NumMod - 1)]
        BY <4>1, SeqIs
      <4> QED BY <4>2
    <3> QED BY <2>2, <3>1, HoldsAre DEF NodeHold, FrameOrNone
  <2> QED BY <2>1, <2>2, HoldsAre
<1> QED BY <1>1, <1>2, <1>3

(* A step that moves no frame.                                             *)
LEMMA HoldsKept ==
  ASSUME ShareInv, supply' = supply, pd' = pd, table' = table,
         \A q \in Procs : FaultHold(q)' = FaultHold(q),
         \A q \in Procs, v \in Vpns : PageHold(q, v)' = PageHold(q, v),
         \A k \in NodeIds : NodeHold(k)' = NodeHold(k)
  PROVE  Exclusive(Holders, supply', Holds')
<1>1. \A s \in Holders : Holds'[s] = Holds[s]
  <2> TAKE s \in Holders
  <2>1. CASE \E q \in Procs : s = PdSlot(q)
    <3>1. s[1] = "pd" /\ Ref(s)' = Ref(s)
      BY <2>1 DEF PdSlot, Ref
    <3> QED BY <3>1 DEF Holds, Hold
  <2>2. CASE \E q \in Procs, i \in Pdis : s = TableSlot(q, i)
    <3>1. s[1] = "table" /\ Ref(s)' = Ref(s)
      BY <2>2 DEF TableSlot, Ref
    <3> QED BY <3>1 DEF Holds, Hold
  <2>3. CASE \E q \in Procs : s = FaultSlot(q)
    <3>1. s[1] = "fault" /\ s[2] \in Procs
      BY <2>3 DEF FaultSlot
    <3> QED BY <3>1 DEF Holds, Hold
  <2>4. CASE \E q \in Procs, v \in Vpns : s = PageSlot(q, v)
    <3>1. s[1] = "page" /\ s[2] \in Procs /\ s[3] \in Vpns
      BY <2>4 DEF PageSlot
    <3> QED BY <3>1 DEF Holds, Hold
  <2>5. CASE \E k \in NodeIds : s = NodeSlot(k)
    BY <2>5, HoldsAre
  <2> QED BY <2>1, <2>2, <2>3, <2>4, <2>5, HoldsAre, SlotKinds
<1>2. Exclusive(Holders, supply, Holds)
  BY DEF ShareInv
<1> QED BY <1>1, <1>2 DEF Exclusive

(* A step in which only frames that are not lent move.                     *)
PlainStep ==
  \/ Keeps
  \/ \E s \in Slots : ~Lends(s) /\ (Takes(s) \/ Gives(s))
  \/ \E s, t \in Slots : ~Lends(s) /\ ~Lends(t) /\ Moves(s, t)

LEMMA HoldsStep ==
  ASSUME SpaceInv, SpaceInv', ShareInv, PlainStep,
         \A s \in Slots : Lends(s)' <=> Lends(s),
         \A k \in NodeIds : NodeHold(k)' = NodeHold(k)
  PROVE  Exclusive(Holders, supply', Holds')
<1>0. /\ Holds \in [Holders -> FrameOrNone] /\ Holds' \in [Holders -> FrameOrNone]
      /\ supply \in Seq(Frames) /\ Exclusive(Holders, supply, Holds)
  BY HoldsType DEF SpaceInv, TypeOK, ShareInv
<1>1. ASSUME NEW T, OnlyAt(T), NEW s \in Holders, s \notin T PROVE Holds'[s] = Holds[s]
  <2>1. CASE s \in Slots
    <3>1. Refs'[s] = Refs[s]
      BY <1>1, <2>1 DEF OnlyAt
    <3> QED BY <2>1, <3>1, HoldsAre
  <2>2. CASE \E k \in NodeIds : s = NodeSlot(k)
    BY <2>2, HoldsAre
  <2> QED BY <2>1, <2>2, HoldsAre
<1>2. CASE Keeps
  <2>1. \A s \in Holders : Holds'[s] = Holds[s]
    BY <1>1, <1>2 DEF Keeps
  <2> QED BY <1>0, <1>2, <2>1 DEF Exclusive, Keeps
<1>3. ASSUME NEW s \in Slots, ~Lends(s), Takes(s) PROVE Exclusive(Holders, supply', Holds')
  <2>1. s \in Holders /\ Holds[s] = None /\ Holds'[s] = Head(supply)
    BY <1>3, HoldsAre DEF Takes
  <2>2. \A t \in Holders : t # s => Holds'[t] = Holds[t]
    BY <1>1, <1>3 DEF Takes
  <2>3. supply # << >> /\ supply' = Tail(supply)
    BY <1>3 DEF Takes
  <2>4. Exclusive(Holders, Tail(supply), Holds')
    BY <1>0, <2>1, <2>2, <2>3, TakeFrame
  <2> QED BY <2>3, <2>4
<1>4. ASSUME NEW s \in Slots, ~Lends(s), Gives(s) PROVE Exclusive(Holders, supply', Holds')
  <2>1. s \in Holders /\ Holds[s] = Refs[s] /\ Holds[s] # None /\ Holds'[s] = None
    BY <1>4, HoldsAre DEF Gives
  <2>2. \A t \in Holders : t # s => Holds'[t] = Holds[t]
    BY <1>1, <1>4 DEF Gives
  <2>3. supply' = <<Holds[s]>> \o supply
    BY <1>4, <2>1 DEF Gives
  <2>4. Exclusive(Holders, <<Holds[s]>> \o supply, Holds')
    BY <1>0, <2>1, <2>2, GiveFrame
  <2> QED BY <2>3, <2>4
<1>5. ASSUME NEW s \in Slots, NEW t \in Slots, ~Lends(s), ~Lends(t), Moves(s, t)
      PROVE  Exclusive(Holders, supply', Holds')
  <2>1. /\ s \in Holders /\ t \in Holders /\ s # t /\ Holds[t] = None /\ Holds'[s] = None
        /\ Holds'[t] = Holds[s]
    BY <1>5, HoldsAre DEF Moves
  <2>2. \A u \in Holders \ {s, t} : Holds'[u] = Holds[u]
    BY <1>1, <1>5 DEF Moves
  <2>3. supply' = supply
    BY <1>5 DEF Moves
  <2>4. Exclusive(Holders, supply, Holds')
    BY <1>0, <2>1, <2>2, MoveFrame
  <2> QED BY <2>3, <2>4
<1> QED BY <1>2, <1>3, <1>4, <1>5 DEF PlainStep

(* A step that is about no node: the users of the nodes stay, and frames   *)
(* move as they do without files.                                          *)
Sharing == {"link", "read", "unmap"}
LEMMA QuietShare ==
  ASSUME SpaceInv, SpaceInv', ShareInv, NEW p \in Procs,
         nodes' = nodes, nodeList' = nodeList /\ freed' = freed,
         \A q \in Procs : Marks(q)' = Marks(q),
         \A q \in Procs \ {p} : pc'[q] = pc[q] /\ call'[q] = call[q],
         pc[p] \notin Sharing, pc'[p] \notin Sharing,
         FaultLent(p)' <=> FaultLent(p),
         PlainStep
  PROVE  NodeInv' /\ Exclusive(Holders, supply', Holds') /\ \A k : Users(k)' = Users(k)
<1>1. \A q \in Procs : Pending(q)' = Pending(q)
  <2> TAKE q \in Procs
  <2>1. CASE q = p
    BY <2>1 DEF Pending, Sharing
  <2>2. CASE q # p
    BY <2>2 DEF Pending
  <2> QED BY <2>1, <2>2
<1>2. \A k : Users(k)' = Users(k)
  BY <1>1, UsersKept
<1>3. \A k : (Linking(k)' <=> Linking(k)) /\ (Freeing(k)' <=> Freeing(k))
  <2> TAKE k
  <2>1. Linking(k)' <=> Linking(k)
    BY DEF Linking, Sharing
  <2>2. Freeing(k)' <=> Freeing(k)
    BY DEF Freeing, Sharing
  <2> QED BY <2>1, <2>2
<1>4. \A q \in Procs, v \in Vpns : Unmapping(q, v)' <=> Unmapping(q, v)
  BY DEF Unmapping, Sharing
<1>5. \A k : InUse(k)' <=> InUse(k)
  <2> TAKE k
  <2>1. \A q \in Procs, v \in Touches :
          (Unmapping(q, v) /\ call[q].physical /\ call[q].node = k)'
            <=> (Unmapping(q, v) /\ call[q].physical /\ call[q].node = k)
    BY DEF Unmapping, Sharing
  <2> QED BY <1>2, <2>1 DEF InUse
<1>6. \A k \in NodeIds : NodeHold(k)' = NodeHold(k)
  BY <1>5 DEF NodeHold
<1>7. NodeInv'
  <2>1. NodeInv
    BY DEF ShareInv
  <2> QED BY <1>2, <1>3, <2>1 DEF NodeInv
<1>8. \A q \in Procs : \A v : Lent(q, v)' <=> Lent(q, v)
  BY DEF Lent, Unmapping, Sharing
<1>9. \A q \in Procs : FaultLent(q)' <=> FaultLent(q)
  <2> TAKE q \in Procs
  <2>1. CASE q = p
    BY <2>1
  <2>2. CASE q # p
    BY <1>8, <2>2 DEF FaultLent
  <2> QED BY <2>1, <2>2
<1>10. \A s \in Slots : Lends(s)' <=> Lends(s)
  <2> TAKE s \in Slots
  <2>1. s[2] \in Procs
    BY DEF Slots
  <2> QED BY <1>8, <1>9, <2>1 DEF Lends
<1>11. Exclusive(Holders, supply', Holds')
  BY <1>6, <1>10, HoldsStep
<1> QED BY <1>2, <1>7, <1>11

(* A quiet step of p, which may be about its child c too.                  *)
LEMMA QuietStep ==
  ASSUME SpaceInv, SpaceInv', ShareInv, NEW p \in Procs, NEW c \in Procs,
         \A q \in Procs \ {p} : pc[q] = "user" /\ pc'[q] = pc[q] /\ call'[q] = call[q],
         \A q \in Procs \ {p, c} : Same(q),
         nodes' = nodes, nodeList' = nodeList /\ freed' = freed,
         Marks(p)' = Marks(p), Marks(c)' = Marks(c),
         pc[p] \notin Sharing, pc'[p] \notin Sharing,
         FaultLent(p)' <=> FaultLent(p), PlainStep,
         EntryInv(p)', MarkInv(p)', FaultShare(p)', EntryInv(c)', MarkInv(c)'
  PROVE  ShareInv'
<1>0. NodesKept
  BY DEF NodesKept
<1>1. \A q \in Procs : Marks(q)' = Marks(q)
  <2> TAKE q \in Procs
  <2>1. CASE q \notin {p, c}
    <3>1. Same(q)
      BY <2>1
    <3> QED BY <3>1 DEF Marks, Same
  <2> QED BY <2>1
<1>2. NodeInv' /\ Exclusive(Holders, supply', Holds')
  BY <1>1, QuietShare
<1>3. UnmapShare(p)'
  BY DEF UnmapShare, Sharing
<1>4. ASSUME c # p PROVE FaultShare(c)' /\ UnmapShare(c)'
  <2>1. pc'[c] = "user"
    BY <1>4
  <2> QED BY <2>1 DEF FaultShare, UnmapShare
<1>5. \A q \in Procs : ShareOf(q)'
  <2> TAKE q \in Procs
  <2>1. CASE q = p
    BY <1>3, <2>1 DEF ShareOf
  <2>2. CASE q = c /\ c # p
    BY <1>4, <2>2 DEF ShareOf
  <2>3. CASE q \notin {p, c}
    BY <1>0, <2>3, IdleKept
  <2> QED BY <2>1, <2>2, <2>3
<1>6. Alone'
  BY AloneIs
<1>7. Exclusive(Holders, supply, Holds)'
  BY <1>2 DEF Exclusive
<1> QED BY <1>2, <1>5, <1>6, <1>7 DEF ShareInv, ShareOf

LEMMA MarkKept ==
  ASSUME ShareInv, NEW p \in Procs, Marks(p)' = Marks(p), nodes' = nodes, page'[p] = page[p],
         pc[p] # "map"
  PROVE  MarkInv(p)'
<1>1. MarkInv(p)
  BY DEF ShareInv
<1> QED BY <1>1 DEF MarkInv

LEMMA EntryKept ==
  ASSUME ShareInv, NEW p \in Procs, entries'[p] = entries[p],
         pc'[p] \in {"fork", "clear"} \/ status'[p] # "live" => NoFiles(entries[p]),
         pc'[p] = "fork" => ~HasStale(p),
         pc'[p] = "clear" => Len(entries[p]) + 2 <= MaxEntries
  PROVE  EntryInv(p)' /\ Marks(p)' = Marks(p)
<1>1. EntryInv(p)
  BY DEF ShareInv
<1> QED BY <1>1 DEF EntryInv, Marks, HasStale

(* A page that is not there has no mark.                                   *)
LEMMA AbsentUnmarked ==
  ASSUME SpaceInv, ShareInv, NEW p \in Procs, pc[p] # "map", NEW v \in Vpns, page[p][v] = None
  PROVE  \A m \in NodeIds : <<v, m>> \notin Marks(p)
<1> SUFFICES ASSUME NEW m \in NodeIds, <<v, m>> \in Marks(p) PROVE FALSE
  OBVIOUS
<1>1. m \in DOMAIN nodes /\ page[p][v] = nodes[m].pa
  BY DEF ShareInv, MarkInv
<1>2. nodes[m].pa \in Frames /\ None \notin Frames
  BY <1>1, NodesIs, Constants
<1> QED BY <1>1, <1>2

(* ... and no node, set or left over.                                      *)
LEMMA NoPointee ==
  ASSUME NEW es \in Seq(Entry), GoodEntries(es), NoFiles(es),
         \A i \in DOMAIN es : es[i].node \notin StaleIds
  PROVE  \A i \in DOMAIN es : Pointee(es[i]) \notin NodeIds
<1> TAKE i \in DOMAIN es
<1>1. es[i] \in Entry /\ es[i].node \notin NodeIds
  BY SeqIs, NoFilesMarks
<1> QED BY <1>1, PointeeType

LEMMA TidyNoFiles ==
  ASSUME Disciplined, NEW p, Tidy => ~MapsFiles(p)
  PROVE  NoFiles(entries[p])
BY DEF Disciplined, MapsFiles, NoFiles

(* Where only the outcome of the program changes, or nothing.              *)
LEMMA SameShare ==
  ASSUME ShareInv, supply' = supply, status' = status, pc' = pc, pd' = pd, table' = table,
         page' = page, entries' = entries, call' = call, nodes' = nodes, nodeList' = nodeList /\ freed' = freed
  PROVE  ShareInv'
<1>1. \A q : Marks(q)' = Marks(q) /\ Pending(q)' = Pending(q)
  BY DEF Marks, Pending
<1>2. \A k : Users(k)' = Users(k)
  BY <1>1, UsersKept
<1>3. \A q \in Procs : EntryInv(q) /\ MarkInv(q) /\ FaultShare(q) /\ UnmapShare(q)
  BY DEF ShareInv
<1>4. ASSUME NEW q \in Procs PROVE EntryInv(q)' /\ MarkInv(q)' /\ FaultShare(q)' /\ UnmapShare(q)'
  <2>1. EntryInv(q)'
    BY <1>3 DEF EntryInv, HasStale
  <2>2. MarkInv(q)'
    BY <1>1, <1>3 DEF MarkInv
  <2>3. FaultShare(q)'
    BY <1>3 DEF FaultShare, FaultEntry, FromList
  <2>4. UnmapShare(q)'
    BY <1>1, <1>2, <1>3 DEF UnmapShare, Unmapping
  <2> QED BY <2>1, <2>2, <2>3, <2>4
<1>5. Alone' /\ NodeInv'
  BY <1>2 DEF ShareInv, Alone, NodeInv, Linking, Freeing
<1>6. Exclusive(Holders, supply', Holds')
  <2>1. \A q \in Procs, v \in Vpns : PageHold(q, v)' = PageHold(q, v)
    BY <1>1 DEF PageHold, Lent, Unmapping
  <2>2. \A q \in Procs : FaultHold(q)' = FaultHold(q)
    BY <1>1 DEF FaultHold, FaultLent, Lent, Unmapping
  <2>3. \A k \in NodeIds : NodeHold(k)' = NodeHold(k)
    BY <1>2 DEF NodeHold, InUse, Unmapping
  <2> QED BY <2>1, <2>2, <2>3, HoldsKept
<1>7. Exclusive(Holders, supply, Holds)'
  BY <1>6 DEF Exclusive
<1> QED BY <1>4, <1>5, <1>7 DEF ShareInv

(* Steps without a fault.                                                  *)
Calm == {"user", "alloc", "fork", "clear"}
LEMMA CalmLent ==
  /\ \A p : pc[p] \in Calm => ~FaultLent(p) /\ pc[p] \notin Sharing /\ \A v : ~Unmapping(p, v)
  /\ \A p : pc'[p] \in Calm => ~FaultLent(p)' /\ pc'[p] \notin Sharing /\ \A v : ~Unmapping(p, v)'
BY DEF Calm, FaultLent, Sharing, Unmapping

LEMMA MmapShare ==
  ASSUME Disciplined, SpaceInv, SpaceInv', ShareInv, NEW p \in Procs, NEW r \in Requests, Mmap(p, r)
  PROVE  ShareInv'
<1>0. At(p, "user") /\ Len(entries[p]) < MaxEntries
  BY DEF Mmap
<1>1. pc[p] = "user" /\ status[p] = "live" /\ TypeOK /\ \A q \in Procs \ {p} : pc[q] = "user"
  BY <1>0, AtIs, OthersIdle
<1>2. PICK node \in Leftovers : entries' = [entries EXCEPT ![p] = Insert(@, r, node)]
  BY DEF Mmap
<1>3. /\ supply' = supply /\ status' = status /\ pc' = pc /\ pd' = pd /\ table' = table
      /\ page' = page /\ call' = call /\ nodes' = nodes /\ nodeList' = nodeList /\ freed' = freed
  BY DEF Mmap, spaceVars, nodeVars
<1>4. /\ entries'[p] = Insert(entries[p], r, node) /\ entries[p] \in Seq(Entry)
      /\ \A q \in Procs \ {p} : entries'[q] = entries[q]
  BY <1>1, <1>2 DEF TypeOK
<1>5. EntryInv(p)
  BY DEF ShareInv
<1>6. /\ GoodEntries(entries'[p]) /\ MarksOf(entries'[p]) = MarksOf(entries[p])
      /\ Len(entries'[p]) = Len(entries[p]) + 1
  <2>1. r \in [addr : 0..(Space - 1), length : Nat, file : Files \union {None},
               off : Nat, shared : BOOLEAN, fixed : BOOLEAN, read : BOOLEAN]
    BY VMMAssumption
  <2>2. GoodEntries(entries[p]) /\ Aligned(r.addr) /\ (FromList(r) => r.length \in 1..FrameSize)
    BY <1>5 DEF EntryInv, Disciplined
  <2>3. node \in Unset
    BY <1>1, LeftoversType DEF Unset
  <2> QED BY <1>4, <2>1, <2>2, <2>3, InsertShare
<1>7. Len(entries[p]) + 1 <= MaxEntries
  <2>1. Len(entries[p]) \in Nat /\ MaxEntries \in Nat
    BY <1>4, SeqIs DEF Disciplined
  <2> QED BY <1>0, <2>1
<1>8. EntryInv(p)'
  BY <1>1, <1>3, <1>6, <1>7 DEF EntryInv
<1>9. Marks(p)' = Marks(p)
  BY <1>6 DEF Marks
<1>10. MarkInv(p)'
  BY <1>1, <1>3, <1>9, MarkKept
<1>11. FaultShare(p)'
  BY <1>1, <1>3 DEF FaultShare
<1>12. \A q \in Procs \ {p} : Same(q)
  BY <1>3, <1>4 DEF Same
<1>13. PlainStep
  <2>1. \A q \in Procs : call'[q].frame = call[q].frame
    BY <1>3
  <2> QED BY <1>3, <2>1, KeepsIs DEF PlainStep
<1>14. pc[p] \in Calm /\ pc'[p] \in Calm
  BY <1>1, <1>3 DEF Calm
<1> QED BY <1>1, <1>3, <1>8, <1>9, <1>10, <1>11, <1>12, <1>13, <1>14, CalmLent, QuietStep

LEMMA DieShare ==
  ASSUME Disciplined, SpaceInv, SpaceInv', ShareInv, NEW p \in Procs, At(p, "user"), Die(p),
         NoFiles(entries[p]), UNCHANGED spaceVars, supply' = supply, nodes' = nodes,
         nodeList' = nodeList /\ freed' = freed
  PROVE  ShareInv'
<1>1. /\ pc[p] = "user" /\ call[p] = NoCall /\ TypeOK /\ EntryInv(p)
      /\ \A q \in Procs \ {p} : pc[q] = "user"
  BY AtIs, OthersIdle DEF CallInv, ShareInv
<1>2. /\ pc'[p] = "user" /\ call'[p] = NoCall
      /\ \A q \in Procs \ {p} : pc'[q] = pc[q] /\ call'[q] = call[q]
  BY <1>1, ReturnIs DEF Die
<1>3. /\ entries'[p] = <<>>
      /\ \A q \in Procs \ {p} : status'[q] = status[q] /\ entries'[q] = entries[q]
  BY <1>1 DEF TypeOK, Die
<1>4. pd' = pd /\ table' = table /\ page' = page
  BY DEF spaceVars
<1>5. DOMAIN entries'[p] = {} /\ Len(entries'[p]) = 0
  BY <1>3
<1>6. GoodEntries(entries'[p]) /\ NoFiles(entries'[p])
  BY <1>5 DEF GoodEntries, NoFiles
<1>7. EntryInv(p)'
  BY <1>2, <1>5, <1>6 DEF EntryInv, Disciplined
<1>8. Marks(p)' = Marks(p)
  <2>1. Marks(p) = {}
    BY <1>1, NoFilesMarks DEF EntryInv, Marks
  <2>2. Marks(p)' = {}
    BY <1>6, NoFilesMarks DEF Marks
  <2> QED BY <2>1, <2>2
<1>9. MarkInv(p)'
  BY <1>1, <1>4, <1>8, MarkKept
<1>10. FaultShare(p)'
  BY <1>2 DEF FaultShare
<1>11. \A q \in Procs \ {p} : Same(q)
  BY <1>2, <1>3, <1>4 DEF Same
<1>12. PlainStep
  <2>1. \A q \in Procs : call'[q].frame = call[q].frame
    BY <1>1, <1>2
  <2> QED BY <1>4, <2>1, KeepsIs DEF PlainStep
<1>13. pc[p] \in Calm /\ pc'[p] \in Calm
  BY <1>1, <1>2 DEF Calm
<1> QED BY <1>1, <1>2, <1>7, <1>8, <1>9, <1>10, <1>11, <1>12, <1>13, CalmLent, QuietStep

LEMMA FaultFatalShare ==
  ASSUME Disciplined, SpaceInv, SpaceInv', ShareInv, NEW p \in Procs, FaultFatal(p)
  PROVE  ShareInv'
<1>1. At(p, "user") /\ Die(p) /\ (Tidy => ~MapsFiles(p))
  BY DEF FaultFatal
<1>2. /\ supply' = supply /\ UNCHANGED spaceVars /\ nodes' = nodes /\ nodeList' = nodeList /\ freed' = freed
  BY DEF FaultFatal, nodeVars
<1>3. NoFiles(entries[p])
  BY <1>1, TidyNoFiles
<1> QED BY <1>1, <1>2, <1>3, DieShare

(* Entries without a node change no count.                                 *)
LEMMA CountNothing ==
  ASSUME SpaceInv, NEW es, \A i \in DOMAIN es : Pointee(es[i]) \notin NodeIds, NEW n \in Int, Count(es, n)
  PROVE  nodes' = nodes
<1> DEFINE refs(k) == {i \in DOMAIN es : Pointee(es[i]) = k}
           new(k) == [nodes[k] EXCEPT !.num = (@ + n * Cardinality(refs(k))) % NumMod]
<1>0. nodes' = [k \in DOMAIN nodes |-> new(k)]
  BY DEF Count
<1>1. ASSUME NEW k \in DOMAIN nodes PROVE new(k) = nodes[k]
  <2>1. k \in NodeIds /\ nodes[k] \in [file : Files, pa : Frames, num : 0..(NumMod - 1)]
    BY NodesIs, Constants
  <2>2. refs(k) = {}
    BY <2>1
  <2>3. Cardinality(refs(k)) = 0
    BY <2>2, FS_EmptySet
  <2>4. nodes[k].num \in Nat /\ nodes[k].num < NumMod /\ NumMod \in Nat
    BY <2>1, Constants
  <2>5. (nodes[k].num + n * Cardinality(refs(k))) % NumMod = nodes[k].num
    <3>1. n * Cardinality(refs(k)) = 0
      BY <2>3
    <3>2. PICK x : x = nodes[k].num
      OBVIOUS
    <3>3. (x + 0) % NumMod = x
      BY <2>4, <3>2
    <3> QED BY <3>1, <3>2, <3>3
  <2>6. new(k) = [nodes[k] EXCEPT !.num = nodes[k].num]
    BY <2>5
  <2> HIDE DEF new
  <2> QED BY <2>1, <2>6
<1>2. nodes = [k \in DOMAIN nodes |-> nodes[k]]
  BY SeqIs DEF SpaceInv, TypeOK
<1> HIDE DEF new
<1> QED BY <1>0, <1>1, <1>2

LEMMA ExitShare ==
  ASSUME Disciplined, SpaceInv, SpaceInv', ShareInv, NEW p \in Procs, Exit(p)
  PROVE  ShareInv'
<1>1. At(p, "user") /\ Die(p) /\ (Tidy => ~MapsFiles(p)) /\ (Early => ~HasStale(p))
      /\ Count(entries[p], -1)
  BY DEF Exit
<1>2. /\ supply' = supply /\ UNCHANGED spaceVars /\ nodeList' = nodeList /\ freed' = freed
  BY DEF Exit
<1>3. NoFiles(entries[p]) /\ EntryInv(p)
  BY <1>1, TidyNoFiles DEF ShareInv
<1>4. nodes' = nodes
  <2>1. \A i \in DOMAIN entries[p] : Pointee(entries[p][i]) \notin NodeIds
    <3>1. entries[p] \in Seq(Entry) /\ ~HasStale(p)
      BY <1>1 DEF SpaceInv, TypeOK, Disciplined
    <3> QED BY <1>3, <3>1, NoPointee DEF EntryInv, HasStale
  <2>2. -1 \in Int
    OBVIOUS
  <2> QED BY <1>1, <2>1, <2>2, CountNothing
<1> QED BY <1>1, <1>2, <1>3, <1>4, DieShare

LEMMA FaultMissShare ==
  ASSUME Disciplined, SpaceInv, SpaceInv', ShareInv, NEW p \in Procs, NEW v \in Touches,
         FaultMiss(p, v)
  PROVE  ShareInv'
<1>0. At(p, "user") /\ Goto(p, "alloc")
  BY DEF FaultMiss
<1>1. /\ pc[p] = "user" /\ status[p] = "live" /\ TypeOK
      /\ \A q \in Procs \ {p} : pc[q] = "user"
  BY <1>0, AtIs, OthersIdle
<1>2. /\ supply' = supply /\ status' = status /\ pd' = pd /\ table' = table
      /\ page' = page /\ entries' = entries /\ nodes' = nodes /\ nodeList' = nodeList /\ freed' = freed
  BY DEF FaultMiss, spaceVars, nodeVars
<1>3. pc'[p] = "alloc" /\ \A q \in Procs \ {p} : pc'[q] = pc[q]
  BY <1>0, <1>1, GotoIs DEF Points
<1>4. PICK x, y : /\ call' = [call EXCEPT ![p].va = x, ![p].tail = y]
                  /\ x = v * FrameSize
                  /\ y = IF FromList(FaultEntry(p, v * FrameSize)) /\ nodeList # << >>
                         THEN Last(nodeList) ELSE None
  BY DEF FaultMiss
<1>5. /\ call'[p].va = x /\ call'[p].tail = y /\ call'[p].frame = call[p].frame
      /\ \A q \in Procs \ {p} : call'[q] = call[q]
  <2>1. call \in [Procs -> Call] /\ call[p] \in Call
    BY <1>1 DEF TypeOK
  <2>2. call'[p] = [call[p] EXCEPT !.va = x, !.tail = y] /\ \A q \in Procs \ {p} : call'[q] = call[q]
    BY <1>4, <2>1
  <2> QED BY <2>1, <2>2 DEF Call
<1>6. EntryInv(p)' /\ Marks(p)' = Marks(p)
  BY <1>1, <1>2, <1>3, EntryKept
<1>7. MarkInv(p)'
  BY <1>1, <1>2, <1>6, MarkKept
<1>8. FaultShare(p)'
  <2>1. PICK e : e = FaultEntry(p, v * FrameSize)
    OBVIOUS
  <2>2. FaultEntry(p, call[p].va)' = e
    BY <1>2, <1>4, <1>5, <2>1 DEF FaultEntry
  <2>3. FromList(e) => Listed(e.file) = 0
    BY <2>1 DEF FaultMiss
  <2>4. FromList(e) => \A j \in DOMAIN nodeList : nodes[nodeList[j]].file # e.file
    <3> SUFFICES ASSUME FromList(e), NEW j \in DOMAIN nodeList, nodes[nodeList[j]].file = e.file
                 PROVE  FALSE
      OBVIOUS
    <3> DEFINE hits == {i \in DOMAIN nodeList : nodes[nodeList[i]].file = e.file}
    <3>1. hits # {} /\ hits \subseteq Nat /\ 0 \notin hits
      BY NodesIs
    <3>2. Listed(e.file) = Lowest(hits)
      BY <3>1 DEF Listed
    <3> QED BY <2>3, <3>1, <3>2, LowestIn
  <2>5. FromList(e) => y = IF nodeList = << >> THEN None ELSE Last(nodeList)
    BY <1>4, <2>1
  <2> QED BY <1>2, <1>3, <1>5, <2>2, <2>4, <2>5 DEF FaultShare, FromList
<1>9. \A q \in Procs \ {p} : Same(q)
  BY <1>2, <1>3, <1>5 DEF Same
<1>10. PlainStep
  <2>1. \A q \in Procs : call'[q].frame = call[q].frame
    BY <1>5
  <2> QED BY <1>2, <2>1, KeepsIs DEF PlainStep
<1>11. pc[p] \in Calm /\ pc'[p] \in Calm
  BY <1>1, <1>3 DEF Calm
<1> QED BY <1>1, <1>2, <1>3, <1>5, <1>6, <1>7, <1>8, <1>9, <1>10, <1>11, CalmLent, QuietStep

LEMMA MapTableShare ==
  ASSUME Disciplined, SpaceInv, SpaceInv', ShareInv, NEW p \in Procs, MapTable(p)
  PROVE  ShareInv'
<1>1. PICK i : i = Pdi(Vpn(call[p].va))
  OBVIOUS
<1>2. /\ At(p, "map") /\ table[p][i] = None /\ Alloc(Zeroes)
      /\ table' = [table EXCEPT ![p][i] = Head(supply)]
  BY <1>1 DEF MapTable
<1>3. /\ status' = status /\ pc' = pc /\ pd' = pd /\ page' = page /\ call' = call
      /\ entries' = entries /\ nodes' = nodes /\ nodeList' = nodeList /\ freed' = freed
  BY DEF MapTable, nodeVars
<1>4. /\ TypeOK /\ i \in Pdis /\ pc[p] = "map" /\ status[p] = "live"
      /\ \A q \in Procs \ {p} : pc[q] = "user"
  BY <1>1, <1>2, AtIs, FaultVpn, OthersIdle DEF Faulting
<1>5. PlainStep
  <2>1. TableSlot(p, i) \in Slots /\ Takes(TableSlot(p, i))
    BY <1>2, <1>3, <1>4, TakesTable
  <2>2. ~Lends(TableSlot(p, i))
    BY DEF Lends, TableSlot
  <2> QED BY <2>1, <2>2 DEF PlainStep
<1>6. EntryInv(p)' /\ Marks(p)' = Marks(p)
  BY <1>3, <1>4, EntryKept
<1>7. MarkInv(p)'
  <2>1. MarkInv(p)
    BY DEF ShareInv
  <2> QED BY <1>3, <1>6, <2>1 DEF MarkInv
<1>8. FaultShare(p)'
  BY <1>3, <1>4 DEF FaultShare
<1>9. FaultLent(p)' <=> FaultLent(p)
  BY <1>3, <1>6 DEF FaultLent, Lent, Unmapping
<1>10. \A q \in Procs \ {p} : Same(q)
  <2>1. \A q \in Procs \ {p} : table'[q] = table[q]
    BY <1>2, <1>4 DEF TypeOK
  <2> QED BY <1>3, <2>1 DEF Same
<1>11. pc[p] \notin Sharing /\ pc'[p] \notin Sharing
  BY <1>3, <1>4 DEF Sharing
<1> QED BY <1>3, <1>4, <1>5, <1>6, <1>7, <1>8, <1>9, <1>10, <1>11, QuietStep

LEMMA ForkShare ==
  ASSUME Disciplined, SpaceInv, SpaceInv', ShareInv, NEW p \in Procs, Fork(p)
  PROVE  ShareInv'
<1>0. At(p, "user") /\ Goto(p, "fork") /\ (Tidy => ~MapsFiles(p)) /\ (Early => ~HasStale(p))
  BY DEF Fork
<1>1. /\ pc[p] = "user" /\ status[p] = "live" /\ TypeOK
      /\ \A q \in Procs \ {p} : pc[q] = "user"
  BY <1>0, AtIs, OthersIdle
<1>2. PICK c \in Procs : /\ status[c] = "unborn"
                         /\ status' = [status EXCEPT ![c] = "young"]
                         /\ call' = [call EXCEPT ![p].child = c]
  BY DEF Fork
<1>3. /\ supply' = supply /\ pd' = pd /\ table' = table /\ page' = page /\ entries' = entries
      /\ nodes' = nodes /\ nodeList' = nodeList /\ freed' = freed
  BY DEF Fork, spaceVars, nodeVars
<1>4. pc'[p] = "fork" /\ \A q \in Procs \ {p} : pc'[q] = pc[q]
  BY <1>0, <1>1, GotoIs DEF Points
<1>5. status'[c] = "young" /\ c # p /\ \A q \in Procs \ {c} : status'[q] = status[q]
  BY <1>1, <1>2 DEF TypeOK
<1>6. call'[p].frame = call[p].frame /\ \A q \in Procs \ {p} : call'[q] = call[q]
  <2>1. call \in [Procs -> Call] /\ call[p] \in Call
    BY <1>1 DEF TypeOK
  <2>2. call'[p] = [call[p] EXCEPT !.child = c] /\ \A q \in Procs \ {p} : call'[q] = call[q]
    BY <1>2, <2>1
  <2> QED BY <2>1, <2>2 DEF Call
<1>7. NoFiles(entries[p]) /\ NoFiles(entries[c])
  <2>1. EntryInv(c)
    BY DEF ShareInv
  <2> QED BY <1>0, <1>2, <2>1, TidyNoFiles DEF EntryInv
<1>8. EntryInv(p)' /\ Marks(p)' = Marks(p) /\ EntryInv(c)' /\ Marks(c)' = Marks(c)
  <2>1. pc'[c] = "user" /\ pc'[p] = "fork" /\ ~HasStale(p)
    BY <1>0, <1>1, <1>4, <1>5 DEF Disciplined
  <2> QED BY <1>3, <1>7, <2>1, EntryKept
<1>9. MarkInv(p)' /\ MarkInv(c)'
  <2>1. pc[p] # "map" /\ pc[c] # "map"
    BY <1>1
  <2> QED BY <1>3, <1>8, <2>1, MarkKept
<1>10. FaultShare(p)'
  BY <1>4 DEF FaultShare
<1>11. \A q \in Procs \ {p, c} : Same(q)
  BY <1>3, <1>4, <1>5, <1>6 DEF Same
<1>12. PlainStep
  <2>1. \A q \in Procs : call'[q].frame = call[q].frame
    BY <1>6
  <2> QED BY <1>3, <2>1, KeepsIs DEF PlainStep
<1>13. pc[p] \in Calm /\ pc'[p] \in Calm
  BY <1>1, <1>4 DEF Calm
<1> QED BY <1>1, <1>3, <1>4, <1>6, <1>8, <1>9, <1>10, <1>11, <1>12, <1>13, CalmLent, QuietStep

(* The child has no marks while it is made.                                *)
LEMMA ChildPlain ==
  ASSUME Disciplined, SpaceInv, SpaceInv', ShareInv, NEW p \in Procs, At(p, "fork"),
         NEW c \in Procs, c = call[p].child,
         /\ status' = status /\ pc' = pc /\ call' = call /\ entries' = entries
         /\ nodes' = nodes /\ nodeList' = nodeList /\ freed' = freed,
         \A q \in Procs \ {c} : pd'[q] = pd[q] /\ table'[q] = table[q] /\ page'[q] = page[q],
         NEW s \in Slots, s[2] = c, Takes(s)
  PROVE  ShareInv'
<1>1. /\ pc[p] = "fork" /\ status[p] = "live" /\ \A q \in Procs \ {p} : pc[q] = "user"
  BY AtIs, OthersIdle
<1>2. status[c] = "young" /\ c # p /\ pc[c] = "user"
  BY ChildIs
<1>3. EntryInv(p) /\ EntryInv(c)
  BY DEF ShareInv
<1>4. NoFiles(entries[p]) /\ NoFiles(entries[c]) /\ GoodEntries(entries[c])
  BY <1>1, <1>2, <1>3 DEF EntryInv
<1>5. EntryInv(p)' /\ Marks(p)' = Marks(p) /\ EntryInv(c)' /\ Marks(c)' = Marks(c)
  <2>1. pc'[c] = "user" /\ pc'[p] = "fork" /\ ~HasStale(p)
    BY <1>1, <1>2, <1>3 DEF EntryInv
  <2> QED BY <1>4, <2>1, EntryKept
<1>6. Marks(c) = {}
  BY <1>4, NoFilesMarks DEF Marks
<1>7. MarkInv(p)' /\ MarkInv(c)'
  <2>1. MarkInv(p)'
    BY <1>1, <1>2, <1>5, MarkKept
  <2>2. MarkInv(c)'
    BY <1>5, <1>6 DEF MarkInv
  <2> QED BY <2>1, <2>2
<1>8. FaultShare(p)'
  BY <1>1 DEF FaultShare
<1>9. \A q \in Procs \ {p, c} : Same(q)
  BY DEF Same
<1>10. PlainStep
  <2>1. ~FaultLent(c) /\ \A v : ~Unmapping(c, v)
    BY <1>2, CalmLent DEF Calm
  <2>2. ~Lends(s)
    BY <1>6, <2>1 DEF Lends, Lent
  <2> QED BY <2>2 DEF PlainStep
<1>11. pc[p] \in Calm /\ pc'[p] \in Calm
  BY <1>1 DEF Calm
<1> QED BY <1>1, <1>5, <1>7, <1>8, <1>9, <1>10, <1>11, CalmLent, QuietStep

LEMMA ForkPdShare ==
  ASSUME Disciplined, SpaceInv, SpaceInv', ShareInv, NEW p \in Procs, ForkPd(p)
  PROVE  ShareInv'
<1>0. At(p, "fork") /\ Alloc(Zeroes)
  BY DEF ForkPd
<1>1. PICK c : c = call[p].child
  OBVIOUS
<1>2. c \in Procs /\ TypeOK
  BY <1>0, <1>1, ChildIs, AtIs
<1>3. /\ status' = status /\ pc' = pc /\ call' = call /\ entries' = entries /\ page' = page
      /\ nodes' = nodes /\ nodeList' = nodeList /\ freed' = freed
  BY DEF ForkPd, nodeVars
<1>4. CASE pd[c] = None /\ pd' = [pd EXCEPT ![c] = Head(supply)] /\ table' = table
  <2>1. PdSlot(c) \in Slots /\ Takes(PdSlot(c)) /\ PdSlot(c)[2] = c
    BY <1>0, <1>2, <1>3, <1>4, TakesPd DEF PdSlot
  <2>2. \A q \in Procs \ {c} : pd'[q] = pd[q] /\ table'[q] = table[q] /\ page'[q] = page[q]
    BY <1>2, <1>3, <1>4 DEF TypeOK
  <2> QED BY <1>0, <1>1, <1>2, <1>3, <2>1, <2>2, ChildPlain
<1>5. CASE table[c][ApicPdi] = None /\ table' = [table EXCEPT ![c][ApicPdi] = Head(supply)] /\ pd' = pd
  <2>1. TableSlot(c, ApicPdi) \in Slots /\ Takes(TableSlot(c, ApicPdi)) /\ TableSlot(c, ApicPdi)[2] = c
    BY <1>0, <1>2, <1>3, <1>5, ApicPdiIn, TakesTable DEF TableSlot
  <2>2. \A q \in Procs \ {c} : pd'[q] = pd[q] /\ table'[q] = table[q] /\ page'[q] = page[q]
    BY <1>2, <1>3, <1>5 DEF TypeOK
  <2> QED BY <1>0, <1>1, <1>2, <1>3, <2>1, <2>2, ChildPlain
<1> QED BY <1>1, <1>4, <1>5 DEF ForkPd

LEMMA ForkCopyShare ==
  ASSUME Disciplined, SpaceInv, SpaceInv', ShareInv, NEW p \in Procs, ForkCopy(p)
  PROVE  ShareInv'
<1>0. At(p, "fork")
  BY DEF ForkCopy
<1>1. PICK c : c = call[p].child
  OBVIOUS
<1>2. c \in Procs /\ TypeOK
  BY <1>0, <1>1, ChildIs, AtIs
<1>3. PICK i : i = Lowest(Uncopied(p, c))
  OBVIOUS
<1>4. i \in Uncopied(p, c)
  <2>1. Uncopied(p, c) \subseteq Nat
    BY PdisNat DEF Uncopied
  <2>2. Uncopied(p, c) # {}
    BY <1>1 DEF ForkCopy
  <2> QED BY <1>3, <2>1, <2>2, LowestIn
<1>5. i \in Pdis
  BY <1>4 DEF Uncopied
<1>6. /\ status' = status /\ pc' = pc /\ call' = call /\ entries' = entries /\ pd' = pd
      /\ nodes' = nodes /\ nodeList' = nodeList /\ freed' = freed
  BY DEF ForkCopy, nodeVars
<1>8. CASE table[c][i] = None
  <2>1. Alloc(Zeroes) /\ table' = [table EXCEPT ![c][i] = Head(supply)] /\ page' = page
    BY <1>1, <1>3, <1>8 DEF ForkCopy
  <2>2. TableSlot(c, i) \in Slots /\ Takes(TableSlot(c, i)) /\ TableSlot(c, i)[2] = c
    BY <1>2, <1>5, <1>6, <1>8, <2>1, TakesTable DEF TableSlot
  <2>3. \A q \in Procs \ {c} : pd'[q] = pd[q] /\ table'[q] = table[q] /\ page'[q] = page[q]
    BY <1>2, <1>6, <2>1 DEF TypeOK
  <2> QED BY <1>0, <1>1, <1>2, <1>6, <2>2, <2>3, ChildPlain
<1>9. CASE table[c][i] # None
  <2> DEFINE W == {w \in Vpns : Pdi(w) = i /\ page[p][w] # None /\ page[c][w] = None}
  <2>1. PICK v : v = Lowest(W)
    OBVIOUS
  <2>2. W # {} /\ W \subseteq Nat
    BY <1>4, <1>9, Constants DEF Uncopied
  <2>3. v \in W
    BY <2>1, <2>2, LowestIn
  <2>4. v \in Vpns /\ page[c][v] = None
    BY <2>3
  <2>5. Alloc(shows[page[p][v]]) /\ page' = [page EXCEPT ![c][v] = Head(supply)] /\ table' = table
    BY <1>1, <1>3, <1>9, <2>1 DEF ForkCopy
  <2>6. PICK x : x = shows[page[p][v]]
    OBVIOUS
  <2>7. Alloc(x)
    BY <2>5, <2>6
  <2>8. PageSlot(c, v) \in Slots /\ Takes(PageSlot(c, v)) /\ PageSlot(c, v)[2] = c
    BY <1>2, <1>6, <2>4, <2>5, <2>7, TakesPage DEF PageSlot
  <2>9. \A q \in Procs \ {c} : pd'[q] = pd[q] /\ table'[q] = table[q] /\ page'[q] = page[q]
    BY <1>2, <1>6, <2>5 DEF TypeOK
  <2> QED BY <1>0, <1>1, <1>2, <1>6, <2>8, <2>9, ChildPlain
<1> QED BY <1>8, <1>9

LEMMA ForkEndShare ==
  ASSUME Disciplined, SpaceInv, SpaceInv', ShareInv, NEW p \in Procs, ForkEnd(p)
  PROVE  ShareInv'
<1>0. At(p, "fork") /\ Return(p) /\ Count(entries[p], 1)
  BY DEF ForkEnd
<1>1. PICK c : c = call[p].child
  OBVIOUS
<1>2. c \in Procs /\ status[c] = "young" /\ c # p /\ pc[c] = "user"
  BY <1>0, <1>1, ChildIs
<1>3. /\ TypeOK /\ pc[p] = "fork" /\ status[p] = "live" /\ FaultInv(p)
      /\ \A q \in Procs \ {p} : pc[q] = "user"
  BY <1>0, AtIs, OthersIdle
<1>4. /\ entries' = [entries EXCEPT ![c] = entries[p]]
      /\ status' = [status EXCEPT ![c] = "live"]
      /\ supply' = supply /\ pd' = pd /\ table' = table /\ page' = page
      /\ nodeList' = nodeList /\ freed' = freed
  BY <1>1 DEF ForkEnd, spaceVars
<1>5. EntryInv(p) /\ EntryInv(c)
  BY <1>2 DEF ShareInv
<1>6. /\ NoFiles(entries[p]) /\ NoFiles(entries[c])
      /\ GoodEntries(entries[p]) /\ GoodEntries(entries[c])
  BY <1>2, <1>3, <1>5 DEF EntryInv
<1>7. nodes' = nodes
  <2>1. \A i \in DOMAIN entries[p] : Pointee(entries[p][i]) \notin NodeIds
    <3>1. entries[p] \in Seq(Entry) /\ ~HasStale(p)
      BY <1>3, <1>5 DEF TypeOK, EntryInv
    <3> QED BY <1>6, <3>1, NoPointee DEF HasStale
  <2>2. 1 \in Int
    OBVIOUS
  <2> QED BY <1>0, <2>1, <2>2, CountNothing
<1>8. /\ pc'[p] = "user" /\ call'[p] = NoCall
      /\ \A q \in Procs \ {p} : pc'[q] = pc[q] /\ call'[q] = call[q]
  BY <1>0, <1>3, ReturnIs
<1>9. /\ entries'[c] = entries[p] /\ status'[c] = "live"
      /\ \A q \in Procs \ {c} : entries'[q] = entries[q] /\ status'[q] = status[q]
  BY <1>2, <1>3, <1>4 DEF TypeOK
<1>10. EntryInv(p)' /\ Marks(p)' = Marks(p)
  <2>1. status'[p] = "live" /\ pc'[p] = "user" /\ entries'[p] = entries[p]
    BY <1>2, <1>3, <1>8, <1>9
  <2> QED BY <2>1, EntryKept
<1>11. EntryInv(c)'
  <2>1. pc'[c] = "user"
    BY <1>2, <1>8
  <2> QED BY <1>5, <1>6, <1>9, <2>1 DEF EntryInv
<1>12. Marks(c)' = Marks(c)
  BY <1>6, <1>9, NoFilesMarks DEF Marks
<1>13. MarkInv(p)' /\ MarkInv(c)'
  <2>1. pc[p] # "map" /\ pc[c] # "map"
    BY <1>2, <1>3
  <2> QED BY <1>2, <1>4, <1>7, <1>10, <1>12, <2>1, MarkKept
<1>14. FaultShare(p)'
  BY <1>8 DEF FaultShare
<1>15. \A q \in Procs \ {p, c} : Same(q)
  BY <1>4, <1>8, <1>9 DEF Same
<1>16. PlainStep
  <2>1. call[p].frame = None /\ call'[p].frame = None
    BY <1>3, <1>8 DEF FaultInv, NoCall
  <2>2. \A q \in Procs : call'[q].frame = call[q].frame
    BY <1>8, <2>1
  <2> QED BY <1>4, <2>2, KeepsIs DEF PlainStep
<1>17. pc[p] \in Calm /\ pc'[p] \in Calm
  BY <1>3, <1>8 DEF Calm
<1> QED BY <1>2, <1>3, <1>4, <1>7, <1>8, <1>10, <1>11, <1>12, <1>13, <1>14, <1>15, <1>16, <1>17,
        CalmLent, QuietStep

LEMMA ExecShare ==
  ASSUME Disciplined, SpaceInv, SpaceInv', ShareInv, NEW p \in Procs, Exec(p)
  PROVE  ShareInv'
<1>0. /\ At(p, "user") /\ Goto(p, "clear") /\ (Tidy => ~MapsFiles(p))
      /\ Len(entries[p]) + 2 <= MaxEntries
  BY DEF Exec
<1>1. /\ pc[p] = "user" /\ TypeOK /\ \A q \in Procs \ {p} : pc[q] = "user"
  BY <1>0, AtIs, OthersIdle
<1>2. /\ supply' = supply /\ status' = status /\ pd' = pd /\ table' = table /\ page' = page
      /\ entries' = entries /\ call' = call /\ nodes' = nodes /\ nodeList' = nodeList /\ freed' = freed
  BY DEF Exec, spaceVars, nodeVars
<1>3. pc'[p] = "clear" /\ \A q \in Procs \ {p} : pc'[q] = pc[q]
  BY <1>1, <1>0, GotoIs DEF Points
<1>4. EntryInv(p)' /\ Marks(p)' = Marks(p)
  BY <1>0, <1>2, <1>3, TidyNoFiles, EntryKept
<1>5. MarkInv(p)'
  BY <1>1, <1>2, <1>4, MarkKept
<1>6. FaultShare(p)'
  BY <1>3 DEF FaultShare
<1>7. \A q \in Procs \ {p} : Same(q)
  BY <1>2, <1>3 DEF Same
<1>8. PlainStep
  <2>1. \A q \in Procs : call'[q].frame = call[q].frame
    BY <1>2
  <2> QED BY <1>2, <2>1, KeepsIs DEF PlainStep
<1>9. pc[p] \in Calm /\ pc'[p] \in Calm
  BY <1>1, <1>3 DEF Calm
<1> QED BY <1>1, <1>2, <1>3, <1>4, <1>5, <1>6, <1>7, <1>8, <1>9, CalmLent, QuietStep

LEMMA ExecClearShare ==
  ASSUME Disciplined, SpaceInv, SpaceInv', ShareInv, NEW p \in Procs, ExecClear(p)
  PROVE  ShareInv'
<1>0. At(p, "clear") /\ Clearable(p) # {}
  BY DEF ExecClear
<1>1. /\ TypeOK /\ TableInv(p) /\ pc[p] = "clear" /\ EntryInv(p)
      /\ \A q \in Procs \ {p} : pc[q] = "user"
  BY <1>0, AtIs, OthersIdle DEF ShareInv
<1>2. PICK i : i = Lowest(Clearable(p))
  OBVIOUS
<1>3. i \in Pdis /\ table[p][i] # None /\ FreeIn(p, i)
  BY <1>0, <1>2, ClearableIs DEF ExecClear
<1>4. /\ status' = status /\ pc' = pc /\ pd' = pd /\ entries' = entries /\ call' = call
      /\ nodes' = nodes /\ nodeList' = nodeList /\ freed' = freed
  BY DEF ExecClear, nodeVars
<1>5. PICK s \in Slots : s[2] = p /\ Gives(s)
  BY <1>1, <1>3, <1>4, FreeInGives
<1>6. EntryInv(p)' /\ Marks(p)' = Marks(p) /\ Marks(p) = {}
  BY <1>1, <1>4, EntryKept, NoFilesMarks DEF EntryInv, Marks
<1>7. MarkInv(p)'
  BY <1>6 DEF MarkInv
<1>8. FaultShare(p)'
  BY <1>1, <1>4 DEF FaultShare
<1>9. pc[p] \in Calm /\ pc'[p] \in Calm
  BY <1>1, <1>4 DEF Calm
<1>10. PlainStep
  <2>1. ~FaultLent(p) /\ \A v : ~Unmapping(p, v)
    BY <1>9, CalmLent
  <2>2. ~Lends(s)
    BY <1>5, <1>6, <2>1 DEF Lends, Lent
  <2> QED BY <1>5, <2>2 DEF PlainStep
<1>11. \A q \in Procs \ {p} : Same(q)
  <2>1. \A q \in Procs \ {p} : table'[q] = table[q] /\ page'[q] = page[q]
    BY <1>1, <1>3, FreeInIs
  <2> QED BY <1>4, <2>1 DEF Same
<1> QED BY <1>1, <1>4, <1>6, <1>7, <1>8, <1>9, <1>10, <1>11, CalmLent, QuietStep

LEMMA ExecLoadShare ==
  ASSUME Disciplined, SpaceInv, SpaceInv', ShareInv, NEW p \in Procs, ExecLoad(p)
  PROVE  ShareInv'
<1>0. At(p, "clear") /\ Return(p)
  BY DEF ExecLoad
<1>1. /\ TypeOK /\ pc[p] = "clear" /\ status[p] = "live" /\ FaultInv(p) /\ EntryInv(p)
      /\ \A q \in Procs \ {p} : pc[q] = "user"
  BY <1>0, AtIs, OthersIdle DEF ShareInv
<1>2. /\ supply' = supply /\ status' = status /\ pd' = pd /\ table' = table /\ page' = page
      /\ nodes' = nodes /\ nodeList' = nodeList /\ freed' = freed
  BY DEF ExecLoad, spaceVars, nodeVars
<1>3. PICK image, stack \in Leftovers :
        entries' = [entries EXCEPT
          ![p] = Insert(Insert(@, Anonymous(Image), image), Anonymous(Stack), stack)]
  BY DEF ExecLoad
<1>4. image \in Unset /\ stack \in Unset
  BY <1>1, LeftoversType DEF Unset
<1>5. PICK es, ns : es = Insert(entries[p], Anonymous(Image), image)
                    /\ ns = Insert(es, Anonymous(Stack), stack)
  OBVIOUS
<1>6. entries'[p] = ns /\ \A q \in Procs \ {p} : entries'[q] = entries[q]
  BY <1>1, <1>3, <1>5 DEF TypeOK
<1>7. \A m \in {Image, Stack} : /\ Aligned(Anonymous(m).addr) /\ ~FromList(Anonymous(m))
                                /\ Anonymous(m).file = None
  BY DEF Anonymous, FromList, Disciplined
<1>8. entries[p] \in Seq(Entry) /\ GoodEntries(entries[p]) /\ NoFiles(entries[p])
  BY <1>1 DEF TypeOK, EntryInv
<1>9. /\ GoodEntries(es) /\ MarksOf(es) = MarksOf(entries[p]) /\ es \in Seq(Entry)
      /\ Len(es) = Len(entries[p]) + 1
  BY <1>4, <1>5, <1>7, <1>8, AnonymousType, InsertShare
<1>10. /\ GoodEntries(ns) /\ MarksOf(ns) = MarksOf(es) /\ Len(ns) = Len(es) + 1
  BY <1>4, <1>5, <1>7, <1>9, AnonymousType, InsertShare
<1>11. /\ pc'[p] = "user" /\ call'[p] = NoCall
       /\ \A q \in Procs \ {p} : pc'[q] = pc[q] /\ call'[q] = call[q]
  BY <1>0, <1>1, ReturnIs
<1>12. EntryInv(p)'
  <2>1. Len(entries[p]) \in Nat /\ MaxEntries \in Nat /\ Len(entries[p]) + 2 <= MaxEntries
    BY <1>1, <1>8, SeqIs DEF Disciplined, EntryInv
  <2>2. Len(ns) <= MaxEntries
    BY <1>9, <1>10, <2>1
  <2> QED BY <1>1, <1>2, <1>6, <1>10, <1>11, <2>2 DEF EntryInv
<1>13. Marks(p)' = Marks(p)
  BY <1>6, <1>9, <1>10 DEF Marks
<1>14. MarkInv(p)'
  BY <1>1, <1>2, <1>13, MarkKept
<1>15. FaultShare(p)'
  BY <1>11 DEF FaultShare
<1>16. \A q \in Procs \ {p} : Same(q)
  BY <1>2, <1>6, <1>11 DEF Same
<1>17. PlainStep
  <2>1. call[p].frame = None /\ call'[p].frame = None
    BY <1>1, <1>11 DEF FaultInv, NoCall
  <2>2. \A q \in Procs : call'[q].frame = call[q].frame
    BY <1>11, <2>1
  <2> QED BY <1>2, <2>2, KeepsIs DEF PlainStep
<1>18. pc[p] \in Calm /\ pc'[p] \in Calm
  BY <1>1, <1>11 DEF Calm
<1> QED BY <1>1, <1>2, <1>11, <1>12, <1>13, <1>14, <1>15, <1>16, <1>17, <1>18, CalmLent, QuietStep

(* A process that the step leaves alone, wherever it is.                   *)
LEMMA SameKept ==
  ASSUME ShareInv, NEW q \in Procs, Same(q), nodes' = nodes, nodeList' = nodeList /\ freed' = freed,
         \A k : Users(k)' = Users(k)
  PROVE  ShareOf(q)'
<1>1. EntryInv(q) /\ MarkInv(q) /\ FaultShare(q) /\ UnmapShare(q)
  BY DEF ShareInv
<1>2. Marks(q)' = Marks(q)
  BY DEF Marks, Same
<1>3. EntryInv(q)'
  BY <1>1 DEF EntryInv, Same, HasStale
<1>4. MarkInv(q)'
  BY <1>1, <1>2 DEF MarkInv, Same
<1>5. FaultShare(q)'
  <2>1. FaultEntry(q, call[q].va)' = FaultEntry(q, call[q].va)
    BY DEF FaultEntry, Same
  <2> QED BY <1>1, <2>1 DEF FaultShare, Same, FromList
<1>6. UnmapShare(q)'
  <2>1. \A v : Unmapping(q, v)' <=> Unmapping(q, v)
    BY DEF Unmapping, Same
  <2> QED BY <1>1, <1>2, <2>1 DEF UnmapShare, Same
<1> QED BY <1>3, <1>4, <1>5, <1>6 DEF ShareOf

LEMMA DeletePdShare ==
  ASSUME Disciplined, SpaceInv, SpaceInv', ShareInv, NEW p \in Procs, DeletePd(p)
  PROVE  ShareInv'
<1>0. status[p] = "exited"
  BY DEF DeletePd
<1>1. TypeOK /\ TableInv(p) /\ pd[p] # None /\ pc[p] = "user" /\ EntryInv(p)
  BY <1>0 DEF SpaceInv, CallInv, ShareInv
<1>2. /\ pc' = pc /\ entries' = entries /\ call' = call /\ nodes' = nodes /\ nodeList' = nodeList /\ freed' = freed
  BY DEF DeletePd, nodeVars
<1>3. NoFiles(entries[p]) /\ Marks(p) = {}
  <2>1. NoFiles(entries[p]) /\ GoodEntries(entries[p])
    BY <1>0, <1>1 DEF EntryInv
  <2> QED BY <2>1, NoFilesMarks DEF Marks
<1>4. /\ \E s \in Slots : s[2] = p /\ Gives(s)
      /\ \A q \in Procs \ {p} : Same(q)
  <2>1. CASE {i \in Pdis : table[p][i] # None} # {}
    <3>1. PICK i : i = Lowest({j \in Pdis : table[p][j] # None})
      OBVIOUS
    <3>2. i \in {j \in Pdis : table[p][j] # None}
      BY <2>1, <3>1, PdisNat, LowestIn
    <3>3. FreeIn(p, i) /\ pd' = pd /\ status' = status
      BY <2>1, <3>1 DEF DeletePd
    <3>4. \E s \in Slots : s[2] = p /\ Gives(s)
      BY <1>1, <1>2, <3>2, <3>3, FreeInGives
    <3>5. \A q \in Procs \ {p} : table'[q] = table[q] /\ page'[q] = page[q]
      BY <1>1, <3>2, <3>3, FreeInIs
    <3> QED BY <1>2, <3>3, <3>4, <3>5 DEF Same
  <2>2. CASE {i \in Pdis : table[p][i] # None} = {}
    <3>1. /\ Dealloc(pd[p]) /\ pd' = [pd EXCEPT ![p] = None]
          /\ status' = [status EXCEPT ![p] = "gone"] /\ table' = table /\ page' = page
      BY <2>2 DEF DeletePd
    <3>2. PdSlot(p) \in Slots /\ Gives(PdSlot(p)) /\ PdSlot(p)[2] = p
      BY <1>1, <1>2, <3>1, GivesPd DEF PdSlot
    <3>3. \A q \in Procs \ {p} : pd'[q] = pd[q] /\ status'[q] = status[q]
      BY <1>1, <3>1 DEF TypeOK
    <3> QED BY <1>2, <3>1, <3>2, <3>3 DEF Same
  <2> QED BY <2>1, <2>2
<1>5. PICK s \in Slots : s[2] = p /\ Gives(s)
  BY <1>4
<1>6. pc[p] \in Calm /\ pc'[p] \in Calm
  BY <1>1, <1>2 DEF Calm
<1>7. ~FaultLent(p) /\ ~FaultLent(p)' /\ pc[p] \notin Sharing /\ pc'[p] \notin Sharing
      /\ \A v : ~Unmapping(p, v)
  BY <1>6, CalmLent
<1>8. PlainStep
  <2>1. ~Lends(s)
    BY <1>3, <1>5, <1>7 DEF Lends, Lent
  <2> QED BY <1>5, <2>1 DEF PlainStep
<1>9. \A q \in Procs : Marks(q)' = Marks(q)
  BY <1>2 DEF Marks
<1>10. NodeInv' /\ Exclusive(Holders, supply', Holds') /\ \A k : Users(k)' = Users(k)
  BY <1>2, <1>7, <1>8, <1>9, QuietShare
<1>11. ShareOf(p)'
  <2>1. EntryInv(p)'
    BY <1>1, <1>2, <1>3 DEF EntryInv
  <2>2. MarkInv(p)'
    BY <1>3, <1>9 DEF MarkInv
  <2>3. FaultShare(p)' /\ UnmapShare(p)'
    BY <1>1, <1>2 DEF FaultShare, UnmapShare
  <2> QED BY <2>1, <2>2, <2>3 DEF ShareOf
<1>12. \A q \in Procs : ShareOf(q)'
  BY <1>2, <1>4, <1>10, <1>11, SameKept
<1>13. Alone'
  BY <1>2 DEF ShareInv, Alone
<1>14. Exclusive(Holders, supply, Holds)'
  BY <1>10 DEF Exclusive
<1> QED BY <1>10, <1>12, <1>13, <1>14 DEF ShareInv, ShareOf

LEMMA OutOfFramesShare ==
  ASSUME ShareInv, NEW p \in Procs, OutOfFrames(p)
  PROVE  ShareInv'
BY SameShare DEF OutOfFrames, spaceVars, nodeVars

LEMMA MapPageShare ==
  ASSUME Disciplined, SpaceInv, SpaceInv', ShareInv, NEW p \in Procs, MapPage(p)
  PROVE  ShareInv'
<1>1. PICK v : v = Vpn(call[p].va)
  OBVIOUS
<1>2. At(p, "map") /\ Return(p) /\ page' = [page EXCEPT ![p][v] = call[p].frame]
  BY <1>1 DEF MapPage
<1>3. /\ supply' = supply /\ status' = status /\ pd' = pd /\ table' = table
      /\ entries' = entries /\ nodes' = nodes /\ nodeList' = nodeList /\ freed' = freed
  BY DEF MapPage, nodeVars
<1>4. /\ TypeOK /\ v \in Vpns /\ v \in Touches /\ page[p][v] = None /\ call[p].va = v * FrameSize
      /\ pc[p] = "map" /\ \A q \in Procs \ {p} : pc[q] = "user"
  BY <1>1, <1>2, AtIs, FaultVpn, OthersIdle DEF Faulting
<1>5. /\ pc'[p] = "user" /\ call'[p] = NoCall
      /\ \A q \in Procs \ {p} : pc'[q] = pc[q] /\ call'[q] = call[q]
  BY <1>2, <1>4, ReturnIs
<1>6. /\ page'[p][v] = call[p].frame /\ call'[p].frame = None
      /\ \A q \in Procs, w \in Vpns : ~(q = p /\ w = v) => page'[q][w] = page[q][w]
      /\ \A q \in Procs \ {p} : page'[q] = page[q]
  BY <1>2, <1>4, <1>5 DEF TypeOK, NoCall
<1>7. \A q \in Procs \ {p} : Same(q)
  BY <1>3, <1>5, <1>6 DEF Same
<1>8. EntryInv(p)' /\ Marks(p)' = Marks(p)
  <2>1. status'[p] = "live" /\ entries'[p] = entries[p]
    BY <1>2, <1>3, AtIs
  <2> QED BY <1>5, <2>1, EntryKept
<1>9. MarkInv(p)'
  <2>1. MarkInv(p)
    BY DEF ShareInv
  <2> SUFFICES ASSUME NEW x \in Marks(p)
               PROVE  x[2] \in DOMAIN nodes /\ page'[p][x[1]] = nodes[x[2]].pa
    BY <1>3, <1>8 DEF MarkInv
  <2>2. x[2] \in DOMAIN nodes /\ x[1] \in Vpns /\ x[1] \in Nat /\ v \in Nat
    BY <1>4, <2>1, MarksIn, Constants DEF MarkInv, Marks
  <2>3. nodes[x[2]].pa # None
    BY <2>2, NodesIs, Constants
  <2>4. CASE x[1] = v
    <3>1. page[p][x[1]] # nodes[x[2]].pa
      BY <1>4, <2>3, <2>4
    <3>2. call[p].frame = nodes[x[2]].pa
      BY <2>1, <3>1 DEF MarkInv
    <3> QED BY <1>6, <2>2, <2>4, <3>2
  <2>5. CASE x[1] # v
    <3>1. call[p].va # x[1] * FrameSize
      BY <1>4, <2>2, <2>5, TimesFrame
    <3>2. page[p][x[1]] = nodes[x[2]].pa
      BY <2>1, <3>1 DEF MarkInv
    <3> QED BY <1>6, <2>2, <2>5, <3>2
  <2> QED BY <2>4, <2>5
<1>10. FaultShare(p)' /\ UnmapShare(p)'
  BY <1>5 DEF FaultShare, UnmapShare
<1>11. \A q \in Procs : Marks(q)' = Marks(q)
  BY <1>3 DEF Marks
<1>12. \A q \in Procs : \A w : ~Unmapping(q, w) /\ ~Unmapping(q, w)'
  BY <1>4, <1>5 DEF Unmapping
<1>13. \A q \in Procs : \A w : Lent(q, w)' <=> Lent(q, w)
  BY <1>11, <1>12 DEF Lent
<1>14. \A q \in Procs : Pending(q)' = Pending(q)
  <2>1. \A q \in Procs : pc[q] \notin {"link", "read"} /\ pc'[q] \notin {"link", "read"}
    BY <1>4, <1>5
  <2> QED BY <2>1 DEF Pending
<1>15. \A k : Users(k)' = Users(k)
  BY <1>11, <1>14, UsersKept
<1>16. NodeInv'
  <2>1. \A k : ~Linking(k) /\ ~Freeing(k) /\ ~Linking(k)' /\ ~Freeing(k)'
    BY <1>4, <1>5 DEF Linking, Freeing
  <2>2. NodeInv
    BY DEF ShareInv
  <2> QED BY <1>3, <1>15, <2>1, <2>2 DEF NodeInv
<1>17. \A k \in NodeIds : NodeHold(k)' = NodeHold(k)
  <2>1. \A k : InUse(k)' <=> InUse(k)
    BY <1>12, <1>15 DEF InUse
  <2> QED BY <1>3, <2>1 DEF NodeHold
<1>18. Exclusive(Holders, supply', Holds')
  <2>1. CASE Lent(p, v)
    <3>1. \A q \in Procs : FaultHold(q)' = FaultHold(q)
      <4> TAKE q \in Procs
      <4>1. CASE q = p
        <5>1. FaultLent(p)
          BY <1>1, <1>4, <2>1 DEF FaultLent
        <5>2. ~FaultLent(p)'
          BY <1>5 DEF FaultLent
        <5> QED BY <1>6, <4>1, <5>1, <5>2 DEF FaultHold
      <4>2. CASE q # p
        <5>1. ~FaultLent(q) /\ ~FaultLent(q)'
          BY <1>4, <1>5, <4>2 DEF FaultLent
        <5> QED BY <1>5, <4>2, <5>1 DEF FaultHold
      <4> QED BY <4>1, <4>2
    <3>2. \A q \in Procs, w \in Vpns : PageHold(q, w)' = PageHold(q, w)
      BY <1>6, <1>13, <2>1 DEF PageHold
    <3> QED BY <1>3, <1>17, <3>1, <3>2, HoldsKept
  <2>2. CASE ~Lent(p, v)
    <3>1. Moves(FaultSlot(p), PageSlot(p, v)) /\ FaultSlot(p) \in Slots /\ PageSlot(p, v) \in Slots
      <4>1. OnlyAt({FaultSlot(p), PageSlot(p, v)})
        <5> DEFINE T == {FaultSlot(p), PageSlot(p, v)}
        <5>1. \A q \in Procs, w \in Vpns : PageSlot(q, w) \notin T => page'[q][w] = page[q][w]
          BY <1>6
        <5>2. \A q \in Procs : FaultSlot(q) \notin T => call'[q].frame = call[q].frame
          BY <1>5
        <5> HIDE DEF T
        <5>3. OnlyAt(T)
          BY <1>3, <5>1, <5>2, OnlyAtIs
        <5> QED BY <5>3 DEF T
      <4>2. /\ Refs[PageSlot(p, v)] = None /\ Refs'[FaultSlot(p)] = None
            /\ Refs'[PageSlot(p, v)] = Refs[FaultSlot(p)]
        BY <1>4, <1>6, RefsAre
      <4>3. FaultSlot(p) \in Slots /\ PageSlot(p, v) \in Slots /\ FaultSlot(p) # PageSlot(p, v)
        <5>1. FaultSlot(p)[1] = "fault" /\ PageSlot(p, v)[1] = "page"
          BY DEF FaultSlot, PageSlot
        <5>2. v \in Vpns
          BY <1>4
        <5> QED BY <5>1, <5>2, SlotsIn
      <4>4. supply' = supply
        BY <1>3
      <4> QED BY ONLY <4>1, <4>2, <4>3, <4>4 DEF Moves
    <3>2. ~FaultLent(p) /\ ~FaultLent(p)'
      BY <1>1, <1>4, <1>5, <2>2 DEF FaultLent
    <3>3. ~Lends(FaultSlot(p)) /\ ~Lends(PageSlot(p, v))
      BY <2>2, <3>2 DEF Lends, FaultSlot, PageSlot
    <3>4. PlainStep
      BY <3>1, <3>3 DEF PlainStep
    <3>5. \A s \in Slots : Lends(s)' <=> Lends(s)
      <4> TAKE s \in Slots
      <4>1. s[2] \in Procs
        BY DEF Slots
      <4>2. FaultLent(s[2])' <=> FaultLent(s[2])
        <5>1. CASE s[2] = p
          BY <3>2, <5>1
        <5>2. CASE s[2] # p
          BY <1>4, <1>5, <4>1, <5>2 DEF FaultLent
        <5> QED BY <5>1, <5>2
      <4> QED BY <1>13, <4>1, <4>2 DEF Lends
    <3> QED BY <1>17, <3>4, <3>5, HoldsStep
  <2> QED BY <2>1, <2>2
<1>19. NodesKept
  BY <1>3 DEF NodesKept
<1>20. ShareOf(p)'
  BY <1>8, <1>9, <1>10 DEF ShareOf
<1> QED BY <1>4, <1>7, <1>16, <1>18, <1>19, <1>20, ShareAssemble

(* The mapping of a shared file at a page.                                 *)
LEMMA EntryAt ==
  ASSUME SpaceInv, ShareInv, NEW p \in Procs, NEW v \in Touches, NEW i,
         i = Find(entries[p], v * FrameSize), i # 0, FromList(entries[p][i])
  PROVE  /\ i \in 1..Len(entries[p]) /\ i \in DOMAIN entries[p] /\ entries[p] \in Seq(Entry)
         /\ entries[p][i] \in Entry /\ entries[p][i].start = v * FrameSize
         /\ End(entries[p][i]) = entries[p][i].start + FrameSize
<1>1. entries[p] \in Seq(Entry) /\ EntryInv(p) /\ v \in Nat
  BY Constants DEF SpaceInv, TypeOK, ShareInv
<1>2. i \in 1..Len(entries[p]) /\ Covers(entries[p][i], v * FrameSize) /\ entries[p][i] \in Entry
  BY <1>1, FindIs
<1>3. i \in DOMAIN entries[p]
  BY <1>1, <1>2, SeqIs
<1>4. GoodEntry(entries[p][i])
  BY <1>1, <1>3 DEF EntryInv, GoodEntries
<1>5. PICK e : e = entries[p][i]
  OBVIOUS
<1>6. /\ e \in Entry /\ Aligned(e.start) /\ e.size = FrameSize /\ Covers(e, v * FrameSize)
  BY <1>2, <1>4, <1>5 DEF GoodEntry
<1>7. e.start = v * FrameSize /\ End(e) = e.start + FrameSize
  BY ONLY <1>1, <1>6, CoversOne
<1> QED BY <1>1, <1>2, <1>3, <1>5, <1>7

(* Processes in their programs hold what they held.                        *)
LEMMA IdleHolds ==
  ASSUME NEW q \in Procs, Same(q), pc[q] = "user"
  PROVE  /\ FaultHold(q)' = FaultHold(q)
         /\ \A w : PageHold(q, w)' = PageHold(q, w)
         /\ Marks(q)' = Marks(q) /\ Pending(q)' = Pending(q)
         /\ \A w : ~Unmapping(q, w) /\ ~Unmapping(q, w)'
         /\ pc'[q] = "user"
<1>1. pc'[q] = "user" /\ call'[q] = call[q] /\ page'[q] = page[q] /\ entries'[q] = entries[q]
  BY DEF Same
<1>2. ~FaultLent(q) /\ ~FaultLent(q)'
  BY <1>1 DEF FaultLent
<1>3. Marks(q)' = Marks(q) /\ Pending(q)' = Pending(q)
  BY <1>1 DEF Marks, Pending
<1>4. \A w : ~Unmapping(q, w) /\ ~Unmapping(q, w)'
  BY <1>1 DEF Unmapping
<1>5. \A w : Lent(q, w)' <=> Lent(q, w)
  BY <1>3, <1>4 DEF Lent
<1> QED BY <1>1, <1>2, <1>3, <1>4, <1>5 DEF FaultHold, PageHold

(* The users of the nodes when only those of p on node k change.           *)
LEMMA UsersOther ==
  ASSUME NEW p \in Procs, \A q \in Procs \ {p} : Same(q) /\ pc[q] = "user",
         NEW k, NEW v \in Touches,
         \A w \in Touches : \A m : ~(w = v /\ m = k) =>
           (<<w, m>> \in Marks(p)' \union Pending(p)' <=> <<w, m>> \in Marks(p) \union Pending(p))
  PROVE  /\ \A m : m # k => Users(m)' = Users(m)
         /\ <<v, k>> \in Marks(p)' \union Pending(p)' => Users(k)' = Users(k) \union {<<p, v>>}
         /\ <<v, k>> \notin Marks(p)' \union Pending(p)' => Users(k)' = Users(k) \ {<<p, v>>}
<1>1. \A q \in Procs \ {p} : Marks(q)' = Marks(q) /\ Pending(q)' = Pending(q)
  BY IdleHolds
<1>2. ASSUME NEW q \in Procs, NEW w \in Touches, NEW m, ~(q = p /\ w = v /\ m = k)
      PROVE  <<q, w>> \in Users(m)' <=> <<q, w>> \in Users(m)
  <2>1. <<w, m>> \in Marks(q)' \union Pending(q)' <=> <<w, m>> \in Marks(q) \union Pending(q)
    BY <1>1, <1>2
  <2> QED BY <2>1, UsersAre
<1>3. <<p, v>> \in Users(k)' <=> <<v, k>> \in Marks(p)' \union Pending(p)'
  BY UsersAre
<1>4. \A m : \A x \in Users(m) \union Users(m)' : x = <<x[1], x[2]>> /\ x[1] \in Procs /\ x[2] \in Touches
  BY UsersIn
<1>5. ASSUME NEW m, m # k PROVE Users(m)' = Users(m)
  BY <1>2, <1>4, <1>5
<1>6. \A x \in Procs \X Touches : x # <<p, v>> => (x \in Users(k)' <=> x \in Users(k))
  <2> SUFFICES ASSUME NEW q \in Procs, NEW w \in Touches, <<q, w>> # <<p, v>>
               PROVE  <<q, w>> \in Users(k)' <=> <<q, w>> \in Users(k)
    OBVIOUS
  <2> QED BY <1>2
<1>7. \A x \in Users(k) \union Users(k)' : x \in Procs \X Touches
  BY UsersIn
<1>8. <<p, v>> \in Procs \X Touches
  OBVIOUS
<1> QED BY <1>3, <1>5, <1>6, <1>7, <1>8

(* The frames the nodes hold when no frame is being unmapped.              *)
LEMMA NodesHold ==
  ASSUME NEW p \in Procs, \A q \in Procs \ {p} : Same(q) /\ pc[q] = "user",
         pc[p] # "unmap", pc'[p] # "unmap", NEW k, k \in DOMAIN nodes,
         k \in DOMAIN nodes', nodes'[k].pa = nodes[k].pa, Users(k)' = {} <=> Users(k) = {}
  PROVE  NodeHold(k)' = NodeHold(k)
<1>1. \A q \in Procs : \A w : ~Unmapping(q, w) /\ ~Unmapping(q, w)'
  <2> TAKE q \in Procs
  <2> TAKE w
  <2>1. CASE q = p
    BY <2>1 DEF Unmapping
  <2>2. CASE q # p
    BY <2>2, IdleHolds
  <2> QED BY <2>1, <2>2
<1>2. InUse(k)' <=> InUse(k)
  BY <1>1 DEF InUse
<1> QED BY <1>2 DEF NodeHold

(* No one links or frees a node where no one is at that step.              *)
LEMMA NotLinking ==
  ASSUME NEW p \in Procs, \A q \in Procs \ {p} : Same(q) /\ pc[q] = "user"
  PROVE  /\ pc[p] # "link" => \A k : ~Linking(k)
         /\ pc[p] # "unmap" => \A k : ~Freeing(k)
         /\ pc'[p] # "link" => \A k : ~Linking(k)'
         /\ pc'[p] # "unmap" => \A k : ~Freeing(k)'
<1>1. \A q \in Procs \ {p} : pc'[q] = "user"
  BY DEF Same
<1> QED BY <1>1 DEF Linking, Freeing

(* One more user of node k.                                                *)
LEMMA CountUp ==
  ASSUME Disciplined, SpaceInv, ShareInv, NEW k \in DOMAIN nodes, NEW x \in Procs \X Touches,
         x \notin Users(k), Users(k)' = Users(k) \union {x},
         nodes' = [nodes EXCEPT ![k].num = (@ + 1) % NumMod]
  PROVE  /\ nodes'[k].num = Cardinality(Users(k)')
         /\ DOMAIN nodes' = DOMAIN nodes /\ \A m \in DOMAIN nodes : m # k => nodes'[m] = nodes[m]
         /\ nodes'[k].pa = nodes[k].pa /\ nodes'[k].file = nodes[k].file
<1>1. nodes[k] \in [file : Files, pa : Frames, num : 0..(NumMod - 1)]
  BY NodesIs
<1>2. nodes[k].num = Cardinality(Users(k))
  BY DEF ShareInv, NodeInv
<1>3. PICK n : n = Cardinality(Users(k))
  OBVIOUS
<1>4. IsFiniteSet(Users(k)) /\ n \in Nat
  BY <1>3, UsersIn, UsesCounted
<1>5. Cardinality(Users(k)') = n + 1
  BY <1>3, <1>4, FS_AddElement
<1>6. n + 1 < NumMod
  <2>1. Users(k)' \subseteq Procs \X Touches
    BY UsersIn
  <2> QED BY <1>5, <2>1, UsesCounted
<1>7. NumMod \in Nat /\ (n + 1) % NumMod = n + 1
  BY <1>4, <1>6, Constants
<1>8. nodes' = [nodes EXCEPT ![k].num = n + 1]
  BY <1>2, <1>3, <1>7
<1>9. nodes'[k] = [nodes[k] EXCEPT !.num = n + 1] /\ DOMAIN nodes' = DOMAIN nodes
      /\ \A m \in DOMAIN nodes : m # k => nodes'[m] = nodes[m]
  BY <1>8
<1> QED BY <1>1, <1>5, <1>9

LEMMA FaultHitShare ==
  ASSUME Disciplined, SpaceInv, SpaceInv', ShareInv, NEW p \in Procs, NEW v \in Touches,
         FaultHit(p, v)
  PROVE  ShareInv'
<1>1. PICK i : i = Find(entries[p], v * FrameSize)
  OBVIOUS
<1>2. PICK k : k = nodeList[Listed(entries[p][i].file)]
  OBVIOUS
<1>3. /\ At(p, "user") /\ page[p][v] = None /\ i # 0 /\ FromList(entries[p][i])
      /\ Listed(entries[p][i].file) # 0
      /\ entries' = [entries EXCEPT ![p][i].node = k]
      /\ nodes' = [nodes EXCEPT ![k].num = (@ + 1) % NumMod]
      /\ call' = [call EXCEPT ![p].va = v * FrameSize, ![p].frame = nodes[k].pa]
      /\ Goto(p, "map")
  BY <1>1, <1>2, Zenon DEF FaultHit
<1>4. /\ supply' = supply /\ status' = status /\ pd' = pd /\ table' = table
      /\ page' = page /\ nodeList' = nodeList /\ freed' = freed
  BY DEF FaultHit, spaceVars
<1>5. /\ pc[p] = "user" /\ status[p] = "live" /\ TypeOK /\ call[p] = NoCall
      /\ \A q \in Procs \ {p} : pc[q] = "user"
  BY <1>3, AtIs, OthersIdle DEF CallInv
<1>6. /\ i \in 1..Len(entries[p]) /\ i \in DOMAIN entries[p] /\ entries[p] \in Seq(Entry)
      /\ entries[p][i].start = v * FrameSize
      /\ End(entries[p][i]) = entries[p][i].start + FrameSize
  BY <1>1, <1>3, EntryAt
<1>7. k \in DOMAIN nodes /\ k \in NodeIds /\ k \in Range(nodeList)
  <2>1. Listed(entries[p][i].file) \in DOMAIN nodeList /\ k \in DOMAIN nodes
    BY <1>2, <1>3, ListedIs
  <2> QED BY <1>2, <2>1, NodesIs DEF Range
<1>8. v \in Vpns /\ v \in Nat /\ Vpn(v * FrameSize) = v
  BY Constants, VpnOf
<1>9. \A m \in NodeIds : <<v, m>> \notin Marks(p)
  BY <1>3, <1>5, <1>8, AbsentUnmarked
<1>10. EntryInv(p) /\ MarkInv(p)
  BY DEF ShareInv
<1>11. /\ entries'[p] = [entries[p] EXCEPT ![i].node = k]
       /\ \A q \in Procs \ {p} : entries'[q] = entries[q]
  BY <1>3, <1>5 DEF TypeOK
<1>12. /\ GoodEntries(entries'[p]) /\ Marks(p)' = Marks(p) \union {<<v, k>>}
       /\ Len(entries'[p]) = Len(entries[p])
  <2>1. GoodEntries(entries[p]) /\ \A m \in NodeIds : <<v, m>> \notin MarksOf(entries[p])
    BY <1>9, <1>10 DEF EntryInv, Marks
  <2>2. FromList(entries[p][i])
    BY <1>3
  <2>3. PICK es, ns : es = entries[p] /\ ns = entries'[p]
    OBVIOUS
  <2>4. Marked(es, ns, v, k)
    BY ONLY v \in Touches, <1>6, <1>7, <1>11, <2>1, <2>2, <2>3, SetNodeShare
  <2> QED BY <2>3, <2>4 DEF Marks, Marked
<1>13. pc'[p] = "map" /\ \A q \in Procs \ {p} : pc'[q] = pc[q]
  BY <1>3, <1>5, GotoIs DEF Points
<1>14. /\ call'[p].va = v * FrameSize /\ call'[p].frame = nodes[k].pa /\ call[p].frame = None
       /\ \A q \in Procs \ {p} : call'[q] = call[q]
  <2>1. call \in [Procs -> Call] /\ call[p] \in Call
    BY <1>5 DEF TypeOK
  <2>2. call'[p] = [call[p] EXCEPT !.va = v * FrameSize, !.frame = nodes[k].pa]
        /\ \A q \in Procs \ {p} : call'[q] = call[q]
    BY <1>3, <2>1
  <2> QED BY <1>5, <2>1, <2>2 DEF Call, NoCall
<1>15. \A q \in Procs \ {p} : Same(q) /\ pc[q] = "user"
  BY <1>4, <1>5, <1>11, <1>13, <1>14 DEF Same
<1>16. Pending(p) = {} /\ Pending(p)' = {}
  BY <1>5, <1>13 DEF Pending
<1>17. /\ \A m : m # k => Users(m)' = Users(m)
       /\ Users(k)' = Users(k) \union {<<p, v>>}
  <2>1. \A w \in Touches : \A m : ~(w = v /\ m = k) =>
          (<<w, m>> \in Marks(p)' \union Pending(p)' <=> <<w, m>> \in Marks(p) \union Pending(p))
    BY <1>12, <1>16
  <2>2. <<v, k>> \in Marks(p)' \union Pending(p)'
    BY <1>12
  <2> QED BY <1>15, <2>1, <2>2, UsersOther
<1>18. <<p, v>> \notin Users(k)
  BY <1>7, <1>9, <1>16, UsersAre
<1>19. /\ nodes'[k].num = Cardinality(Users(k)')
       /\ DOMAIN nodes' = DOMAIN nodes /\ \A m \in DOMAIN nodes : m # k => nodes'[m] = nodes[m]
       /\ nodes'[k].pa = nodes[k].pa /\ nodes'[k].file = nodes[k].file
  <2>1. <<p, v>> \in Procs \X Touches
    OBVIOUS
  <2>2. Users(k)' = Users(k) \union {<<p, v>>} /\ k \in DOMAIN nodes
        /\ nodes' = [nodes EXCEPT ![k].num = (@ + 1) % NumMod]
    BY <1>3, <1>7, <1>17
  <2> QED BY <1>18, <2>1, <2>2, CountUp
<1>20. \A m \in DOMAIN nodes : nodes'[m].pa = nodes[m].pa /\ nodes'[m].file = nodes[m].file
  BY <1>19
<1>21. NodesKept
  BY <1>19, <1>20 DEF NodesKept
<1>22. Users(k) # {}
  <2>1. ~Freeing(k)
    BY <1>5, <1>15, NotLinking
  <2> QED BY <1>7, <2>1 DEF ShareInv, NodeInv
<1>23. \A m : Users(m)' = {} <=> Users(m) = {}
  BY <1>17, <1>22
<1>24. NodeInv'
  <2>1. \A m : ~Linking(m) /\ ~Freeing(m) /\ ~Linking(m)' /\ ~Freeing(m)'
    BY <1>5, <1>13, <1>15, NotLinking
  <2>2. NodeInv
    BY DEF ShareInv
  <2>3. \A i1, j1 \in DOMAIN nodeList' :
          nodes'[nodeList'[i1]].file = nodes'[nodeList'[j1]].file => i1 = j1
    <3>1. \A j1 \in DOMAIN nodeList : nodeList[j1] \in DOMAIN nodes
      BY NodesIs
    <3> QED BY <1>4, <1>20, <2>2, <3>1 DEF NodeInv
  <2>4. ASSUME NEW m \in DOMAIN nodes'
        PROVE  /\ nodes'[m].num = Cardinality(Users(m)')
               /\ Users(m)' # {} => m \in Range(nodeList')
               /\ m \in Range(nodeList') => Users(m)' # {}
    <3>1. m \in DOMAIN nodes
      BY <1>19
    <3>2. nodes[m].num = Cardinality(Users(m)) /\ (Users(m) # {} <=> m \in Range(nodeList))
      BY <2>1, <2>2, <3>1 DEF NodeInv
    <3>3. nodes'[m].num = Cardinality(Users(m)')
      BY <1>17, <1>19, <3>1, <3>2
    <3> QED BY <1>4, <1>23, <3>2, <3>3
  <2> QED BY <2>3, <2>4 DEF NodeInv, Linking, Freeing
<1>25. EntryInv(p)'
  BY <1>4, <1>5, <1>10, <1>12, <1>13 DEF EntryInv
<1>26. MarkInv(p)'
  <2> SUFFICES ASSUME NEW x \in Marks(p)'
               PROVE  /\ x[2] \in DOMAIN nodes'
                      /\ \/ page'[p][x[1]] = nodes'[x[2]].pa
                         \/ /\ pc'[p] = "map" /\ call'[p].va = x[1] * FrameSize
                            /\ call'[p].frame = nodes'[x[2]].pa
    BY DEF MarkInv
  <2>1. CASE x \in Marks(p)
    <3>1. x[2] \in DOMAIN nodes /\ page[p][x[1]] = nodes[x[2]].pa
      BY <1>5, <1>10, <2>1 DEF MarkInv
    <3> QED BY <1>4, <1>19, <1>20, <3>1
  <2>2. CASE x = <<v, k>>
    <3>1. x[1] = v /\ x[2] = k
      BY <2>2
    <3> QED BY <1>7, <1>13, <1>14, <1>19, <3>1
  <2> QED BY <1>12, <2>1, <2>2
<1>27. FaultShare(p)' /\ UnmapShare(p)'
  BY <1>13 DEF FaultShare, UnmapShare
<1>28. Exclusive(Holders, supply', Holds')
  <2>1. FaultHold(p)' = FaultHold(p)
    <3>1. FaultLent(p)'
      <4>1. Lent(p, v)'
        BY <1>7, <1>12 DEF Lent
      <4>2. Vpn(call'[p].va) = v
        BY <1>8, <1>14
      <4>3. Vpn(call[p].va)' = v
        BY <4>2
      <4> QED BY <1>13, <4>1, <4>3 DEF FaultLent
    <3>2. FaultHold(p) = None
      BY <1>14 DEF FaultHold
    <3> QED BY <3>1, <3>2 DEF FaultHold
  <2>2. \A w \in Vpns : PageHold(p, w)' = PageHold(p, w)
    <3> TAKE w \in Vpns
    <3>1. \A u : ~Unmapping(p, u) /\ ~Unmapping(p, u)'
      BY <1>5, <1>13 DEF Unmapping
    <3>2. CASE w = v
      BY <1>3, <1>4, <3>2 DEF PageHold
    <3>3. CASE w # v
      <4>1. Lent(p, w)' <=> Lent(p, w)
        BY <1>12, <3>1, <3>3 DEF Lent
      <4> QED BY <1>4, <4>1 DEF PageHold
    <3> QED BY <3>2, <3>3
  <2>3. \A q \in Procs : FaultHold(q)' = FaultHold(q)
    BY <1>15, <2>1, IdleHolds
  <2>4. \A q \in Procs, w \in Vpns : PageHold(q, w)' = PageHold(q, w)
    BY <1>15, <2>2, IdleHolds
  <2>5. \A m \in NodeIds : NodeHold(m)' = NodeHold(m)
    <3> TAKE m \in NodeIds
    <3>1. CASE m \in DOMAIN nodes
      <4>1. pc[p] # "unmap" /\ pc'[p] # "unmap" /\ m \in DOMAIN nodes' /\ nodes'[m].pa = nodes[m].pa
            /\ (Users(m)' = {} <=> Users(m) = {})
        BY <1>5, <1>13, <1>19, <1>20, <1>23, <3>1
      <4> QED BY <1>15, <3>1, <4>1, NodesHold
    <3>2. CASE m \notin DOMAIN nodes
      BY <1>19, <3>2 DEF NodeHold
    <3> QED BY <3>1, <3>2
  <2> QED BY <1>4, <2>3, <2>4, <2>5, HoldsKept
<1>29. ShareOf(p)'
  BY <1>25, <1>26, <1>27 DEF ShareOf
<1> QED BY <1>15, <1>21, <1>24, <1>28, <1>29, ShareAssemble

(* The step that gives the mapping its node: the users stay.               *)
LEMMA ReadFileShare ==
  ASSUME Disciplined, SpaceInv, SpaceInv', ShareInv, NEW p \in Procs, ReadFile(p)
  PROVE  ShareInv'
<1>0. At(p, "read") /\ Goto(p, "map")
  BY DEF ReadFile
<1>1. /\ pc[p] = "read" /\ status[p] = "live" /\ TypeOK /\ FaultInv(p)
      /\ \A q \in Procs \ {p} : pc[q] = "user"
  BY <1>0, AtIs, OthersIdle
<1>2. PICK v : v = Vpn(call[p].va)
  OBVIOUS
<1>3. v \in Touches /\ v \in Vpns /\ v \in Nat /\ call[p].va = v * FrameSize /\ page[p][v] = None
  BY <1>1, <1>2, FaultVpn, Constants DEF Faulting
<1>4. PICK i, k : i = Find(entries[p], v * FrameSize) /\ k = call[p].node
  OBVIOUS
<1>5. /\ entries' = [entries EXCEPT ![p][i].node = k]
      /\ supply' = supply /\ status' = status /\ pd' = pd /\ table' = table
      /\ page' = page /\ call' = call /\ nodes' = nodes /\ nodeList' = nodeList /\ freed' = freed
  BY <1>3, <1>4 DEF ReadFile, spaceVars, nodeVars
<1>6. /\ i # 0 /\ FromList(entries[p][i]) /\ k \in DOMAIN nodes /\ k \in NodeIds
      /\ call[p].frame = nodes[k].pa
  <2>1. /\ Find(entries[p], call[p].va) # 0 /\ FromList(FaultEntry(p, call[p].va))
        /\ call[p].node \in DOMAIN nodes
    BY <1>1 DEF FaultInv
  <2>2. call[p].frame = nodes[call[p].node].pa
    BY <1>1 DEF ShareInv, FaultShare
  <2> QED BY <1>3, <1>4, <2>1, <2>2, NodesIs DEF FaultEntry
<1>7. /\ i \in 1..Len(entries[p]) /\ i \in DOMAIN entries[p] /\ entries[p] \in Seq(Entry)
      /\ entries[p][i].start = v * FrameSize
      /\ End(entries[p][i]) = entries[p][i].start + FrameSize
  BY <1>3, <1>4, <1>6, EntryAt
<1>8. \A m \in NodeIds : <<v, m>> \notin Marks(p)
  BY <1>1, <1>3, AbsentUnmarked
<1>9. EntryInv(p) /\ MarkInv(p)
  BY DEF ShareInv
<1>10. /\ entries'[p] = [entries[p] EXCEPT ![i].node = k]
       /\ \A q \in Procs \ {p} : entries'[q] = entries[q]
  BY <1>1, <1>5 DEF TypeOK
<1>11. /\ GoodEntries(entries'[p]) /\ Marks(p)' = Marks(p) \union {<<v, k>>}
       /\ Len(entries'[p]) = Len(entries[p])
  <2>1. GoodEntries(entries[p]) /\ \A m \in NodeIds : <<v, m>> \notin MarksOf(entries[p])
    BY <1>8, <1>9 DEF EntryInv, Marks
  <2>2. FromList(entries[p][i])
    BY <1>6
  <2>3. PICK es, ns : es = entries[p] /\ ns = entries'[p]
    OBVIOUS
  <2>4. Marked(es, ns, v, k)
    BY ONLY <1>3, <1>6, <1>7, <1>10, <2>1, <2>2, <2>3, SetNodeShare
  <2> QED BY <2>3, <2>4 DEF Marks, Marked
<1>12. pc'[p] = "map" /\ \A q \in Procs \ {p} : pc'[q] = pc[q]
  BY <1>0, <1>1, GotoIs DEF Points
<1>13. \A q \in Procs \ {p} : Same(q) /\ pc[q] = "user"
  BY <1>1, <1>5, <1>10, <1>12 DEF Same
<1>14. Pending(p) = {<<v, k>>} /\ Pending(p)' = {}
  BY <1>1, <1>2, <1>4, <1>12 DEF Pending
<1>15. \A m : Users(m)' = Users(m)
  <2>1. Marks(p)' \union Pending(p)' = Marks(p) \union Pending(p)
    BY <1>11, <1>14
  <2>2. \A w \in Touches : \A m : ~(w = v /\ m = k) =>
          (<<w, m>> \in Marks(p)' \union Pending(p)' <=> <<w, m>> \in Marks(p) \union Pending(p))
    BY <2>1
  <2>3. <<v, k>> \in Marks(p)' \union Pending(p)'
    BY <1>11
  <2>4. (\A m : m # k => Users(m)' = Users(m)) /\ Users(k)' = Users(k) \union {<<p, v>>}
    BY <1>3, <1>13, <2>2, <2>3, UsersOther
  <2>5. <<p, v>> \in Users(k)
    BY <1>3, <1>14, UsersAre
  <2> QED BY <2>4, <2>5
<1>16. NodesKept
  BY <1>5 DEF NodesKept
<1>17. NodeInv'
  <2>1. \A m : ~Freeing(m) /\ ~Linking(m) /\ ~Linking(m)' /\ ~Freeing(m)'
    BY <1>1, <1>12, <1>13, NotLinking
  <2>2. NodeInv
    BY DEF ShareInv
  <2> QED BY <1>5, <1>15, <2>1, <2>2 DEF NodeInv
<1>18. EntryInv(p)'
  BY <1>1, <1>5, <1>9, <1>11, <1>12 DEF EntryInv
<1>19. MarkInv(p)'
  <2> SUFFICES ASSUME NEW x \in Marks(p)'
               PROVE  /\ x[2] \in DOMAIN nodes
                      /\ \/ page[p][x[1]] = nodes[x[2]].pa
                         \/ /\ pc'[p] = "map" /\ call[p].va = x[1] * FrameSize
                            /\ call[p].frame = nodes[x[2]].pa
    BY <1>5 DEF MarkInv
  <2>1. CASE x \in Marks(p)
    BY <1>1, <1>9, <2>1 DEF MarkInv
  <2>2. CASE x = <<v, k>>
    <3>1. x[1] = v /\ x[2] = k
      BY <2>2
    <3> QED BY <1>3, <1>6, <1>12, <3>1
  <2> QED BY <1>11, <2>1, <2>2
<1>20. FaultShare(p)' /\ UnmapShare(p)'
  BY <1>12 DEF FaultShare, UnmapShare
<1>21. Exclusive(Holders, supply', Holds')
  <2>1. FaultHold(p)' = FaultHold(p)
    <3>1. FaultLent(p)'
      <4>1. Lent(p, v)'
        BY <1>6, <1>11 DEF Lent
      <4>2. Vpn(call[p].va)' = v
        BY <1>2, <1>5
      <4> QED BY <1>12, <4>1, <4>2 DEF FaultLent
    <3>2. FaultLent(p)
      BY <1>1 DEF FaultLent
    <3> QED BY <3>1, <3>2 DEF FaultHold
  <2>2. \A w \in Vpns : PageHold(p, w)' = PageHold(p, w)
    <3> TAKE w \in Vpns
    <3>1. \A u : ~Unmapping(p, u) /\ ~Unmapping(p, u)'
      BY <1>1, <1>12 DEF Unmapping
    <3>2. CASE w = v
      BY <1>3, <1>5, <3>2 DEF PageHold
    <3>3. CASE w # v
      <4>1. Lent(p, w)' <=> Lent(p, w)
        BY <1>11, <3>1, <3>3 DEF Lent
      <4> QED BY <1>5, <4>1 DEF PageHold
    <3> QED BY <3>2, <3>3
  <2>3. \A q \in Procs : FaultHold(q)' = FaultHold(q)
    BY <1>13, <2>1, IdleHolds
  <2>4. \A q \in Procs, w \in Vpns : PageHold(q, w)' = PageHold(q, w)
    BY <1>13, <2>2, IdleHolds
  <2>5. \A m \in NodeIds : NodeHold(m)' = NodeHold(m)
    <3> TAKE m \in NodeIds
    <3>1. CASE m \in DOMAIN nodes
      <4>1. pc[p] # "unmap" /\ pc'[p] # "unmap" /\ m \in DOMAIN nodes' /\ nodes'[m].pa = nodes[m].pa
            /\ (Users(m)' = {} <=> Users(m) = {})
        BY <1>1, <1>5, <1>12, <1>15, <3>1
      <4> QED BY <1>13, <3>1, <4>1, NodesHold
    <3>2. CASE m \notin DOMAIN nodes
      BY <1>5, <3>2 DEF NodeHold
    <3> QED BY <3>1, <3>2
  <2> QED BY <1>5, <2>3, <2>4, <2>5, HoldsKept
<1>22. ShareOf(p)'
  BY <1>18, <1>19, <1>20 DEF ShareOf
<1> QED BY <1>13, <1>16, <1>17, <1>21, <1>22, ShareAssemble

(* With one fault at a time the new node is linked behind the last.        *)
LEMMA LinkNodeShare ==
  ASSUME Disciplined, SpaceInv, SpaceInv', ShareInv, NEW p \in Procs, LinkNode(p)
  PROVE  ShareInv'
<1>0. At(p, "link") /\ Goto(p, "read")
  BY DEF LinkNode
<1>1. /\ pc[p] = "link" /\ status[p] = "live" /\ TypeOK /\ FaultInv(p)
      /\ \A q \in Procs \ {p} : pc[q] = "user"
  BY <1>0, AtIs, OthersIdle
<1>2. PICK v : v = Vpn(call[p].va)
  OBVIOUS
<1>3. v \in Touches
  BY <1>1, <1>2, FaultVpn DEF Faulting
<1>4. PICK k : k = call[p].node
  OBVIOUS
<1>5. PICK n : n = Len(nodeList)
  OBVIOUS
<1>6. /\ n \in Nat /\ DOMAIN nodeList = 1..n /\ nodeList \in Seq(DOMAIN nodes)
      /\ (\A j \in 1..n : nodeList[j] \in DOMAIN nodes /\ nodeList[j] # None)
      /\ k \in DOMAIN nodes /\ NodeInv
  BY <1>1, <1>4, <1>5, NodesIs, Constants DEF FaultInv, TypeOK, ShareInv
<1>7. /\ supply' = supply /\ status' = status /\ pd' = pd /\ table' = table /\ page' = page
      /\ entries' = entries /\ call' = call /\ nodes' = nodes
  BY DEF LinkNode, spaceVars
<1>8. /\ \A j \in 1..n : nodes[nodeList[j]].file # nodes[k].file
      /\ call[p].tail = IF n = 0 THEN None ELSE nodeList[n]
  <2>1. FromList(FaultEntry(p, call[p].va)) /\ FaultShare(p)
    BY <1>1 DEF FaultInv, ShareInv
  <2>2. /\ \A j \in DOMAIN nodeList : nodes[nodeList[j]].file # FaultEntry(p, call[p].va).file
        /\ call[p].tail = IF nodeList = << >> THEN None ELSE Last(nodeList)
        /\ nodes[k].file = FaultEntry(p, call[p].va).file
    BY <1>1, <1>4, <2>1 DEF FaultShare
  <2>3. nodeList = <<>> <=> n = 0
    BY <1>5, <1>6, SeqIs
  <2> QED BY <1>5, <1>6, <2>2, <2>3 DEF Last
<1>9. /\ DOMAIN nodeList' = 1..(n + 1) /\ nodeList'[n + 1] = k
      /\ \A j \in 1..n : nodeList'[j] = nodeList[j]
  <2>1. CASE n = 0
    <3>1. nodeList' = <<k>>
      BY <1>4, <1>8, <2>1 DEF LinkNode
    <3>2. DOMAIN <<k>> = 1..1 /\ <<k>>[1] = k
      OBVIOUS
    <3> QED BY <2>1, <3>1, <3>2
  <2>2. CASE n # 0
    <3>1. {j \in DOMAIN nodeList : nodeList[j] = call[p].tail} = {n}
      <4>1. n \in DOMAIN nodeList /\ call[p].tail = nodeList[n]
        BY <1>6, <1>8, <2>2
      <4>2. \A j \in DOMAIN nodeList : nodeList[j] = nodeList[n] => j = n
        BY <1>6, <4>1 DEF NodeInv
      <4> QED BY <4>1, <4>2
    <3>2. Lowest({n}) = n
      <4>1. {n} \subseteq Nat /\ {n} # {}
        BY <1>6
      <4>2. Lowest({n}) \in {n}
        BY ONLY <4>1, LowestIn
      <4> QED BY <4>2
    <3>3. call[p].tail # None
      <4>1. n \in 1..n
        BY <1>6, <2>2
      <4>2. nodeList[n] # None
        BY <1>6, <4>1
      <4> QED BY <1>8, <2>2, <4>2
    <3>4. nodeList' = SubSeq(nodeList, 1, n) \o <<k>>
      BY <1>4, <3>1, <3>2, <3>3 DEF LinkNode
    <3>5. PICK s : s = SubSeq(nodeList, 1, n)
      OBVIOUS
    <3>6. Len(s) = n /\ s \in Seq(DOMAIN nodes) /\ \A j \in 1..n : s[j] = nodeList[j]
      BY <1>5, <1>6, <3>5, SubSeqProperties
    <3>7. PICK t : t = <<k>>
      OBVIOUS
    <3>8. t \in Seq(DOMAIN nodes) /\ Len(t) = 1 /\ t[1] = k
      BY <1>6, <3>7
    <3>9. nodeList' = s \o t
      BY <3>4, <3>5, <3>7
    <3>10. /\ Len(nodeList') = n + 1 /\ nodeList' \in Seq(DOMAIN nodes)
           /\ \A j \in 1..(n + 1) : nodeList'[j] = IF j <= n THEN s[j] ELSE t[j - n]
      <4>1. PICK S : S = DOMAIN nodes
        OBVIOUS
      <4>2. s \in Seq(S) /\ t \in Seq(S)
        BY <3>6, <3>8, <4>1
      <4>3. /\ Len(s \o t) = Len(s) + Len(t) /\ s \o t \in Seq(S)
            /\ \A j \in 1..(Len(s) + Len(t)) : (s \o t)[j] = IF j <= Len(s) THEN s[j] ELSE t[j - Len(s)]
        BY ONLY <4>2, ConcatProperties
      <4>4. Len(s) = n /\ Len(t) = 1
        BY <3>6, <3>8
      <4> QED BY ONLY <3>9, <4>1, <4>3, <4>4
    <3>11. DOMAIN nodeList' = 1..(n + 1)
      BY <3>10, SeqIs
    <3>12. n + 1 \in 1..(n + 1) /\ ~(n + 1 <= n) /\ (n + 1) - n = 1
           /\ \A j \in 1..n : j \in 1..(n + 1) /\ j <= n
      BY <1>6
    <3> QED BY <3>6, <3>8, <3>10, <3>11, <3>12
  <2> QED BY <2>1, <2>2
<1>10. pc'[p] = "read" /\ \A q \in Procs \ {p} : pc'[q] = pc[q]
  BY <1>0, <1>1, GotoIs DEF Points
<1>11. \A q \in Procs \ {p} : Same(q) /\ pc[q] = "user"
  BY <1>1, <1>7, <1>10 DEF Same
<1>12. Marks(p)' = Marks(p) /\ Pending(p)' = Pending(p) /\ Pending(p) = {<<v, k>>}
  BY <1>1, <1>2, <1>4, <1>7, <1>10 DEF Marks, Pending
<1>13. \A m : Users(m)' = Users(m)
  <2>1. \A q \in Procs : Marks(q)' = Marks(q) /\ Pending(q)' = Pending(q)
    BY <1>11, <1>12, IdleHolds
  <2> QED BY <2>1, UsersKept
<1>14. NodesKept
  BY <1>7 DEF NodesKept
<1>15. NodeInv'
  <2>1. \A m : ~Freeing(m) /\ ~Freeing(m)' /\ ~Linking(m)'
    BY <1>1, <1>10, <1>11, NotLinking
  <2>2. \A m : Linking(m) => m = k
    BY <1>1, <1>4 DEF Linking
  <2>3. ASSUME NEW i \in DOMAIN nodeList', NEW j \in DOMAIN nodeList',
               nodes[nodeList'[i]].file = nodes[nodeList'[j]].file
        PROVE  i = j
    <3>1. \A l \in 1..(n + 1) : l \in 1..n \/ l = n + 1
      BY <1>6
    <3> QED BY <1>6, <1>8, <1>9, <2>3, <3>1 DEF NodeInv
  <2>4. k \in Range(nodeList') /\ Users(k) # {}
    <3>1. n + 1 \in DOMAIN nodeList'
      BY <1>6, <1>9
    <3>2. <<p, v>> \in Users(k)
      BY <1>3, <1>12, UsersAre
    <3> QED BY <1>9, <3>1, <3>2 DEF Range
  <2>5. \A m : m \in Range(nodeList') <=> m \in Range(nodeList) \/ m = k
    <3>1. \A m : m \in Range(nodeList) => m \in Range(nodeList')
      <4>1. \A j \in 1..n : j \in 1..(n + 1)
        BY <1>6
      <4> QED BY <1>6, <1>9, <4>1 DEF Range
    <3>2. \A m : m \in Range(nodeList') => m \in Range(nodeList) \/ m = k
      <4>1. \A l \in 1..(n + 1) : l \in 1..n \/ l = n + 1
        BY <1>6
      <4> QED BY <1>6, <1>9, <4>1 DEF Range
    <3> QED BY <2>4, <3>1, <3>2
  <2> QED BY <1>6, <1>7, <1>13, <2>1, <2>2, <2>3, <2>4, <2>5 DEF NodeInv
<1>16. EntryInv(p)'
  BY <1>1, <1>7, <1>10, EntryKept
<1>17. MarkInv(p)'
  BY <1>1, <1>7, <1>12, MarkKept
<1>18. FaultShare(p)' /\ UnmapShare(p)'
  <2>1. call[p].frame = nodes[k].pa /\ nodes[k].file = FaultEntry(p, call[p].va).file
    BY <1>1, <1>4 DEF ShareInv, FaultShare
  <2>2. FaultEntry(p, call[p].va)' = FaultEntry(p, call[p].va)
    BY <1>7 DEF FaultEntry
  <2> QED BY <1>4, <1>7, <1>10, <2>1, <2>2 DEF FaultShare, UnmapShare
<1>19. Exclusive(Holders, supply', Holds')
  <2>1. FaultHold(p)' = FaultHold(p)
    BY <1>1, <1>10 DEF FaultHold, FaultLent
  <2>2. \A w \in Vpns : PageHold(p, w)' = PageHold(p, w)
    BY <1>1, <1>7, <1>10, <1>12 DEF PageHold, Lent, Unmapping
  <2>3. \A q \in Procs : FaultHold(q)' = FaultHold(q)
    BY <1>11, <2>1, IdleHolds
  <2>4. \A q \in Procs, w \in Vpns : PageHold(q, w)' = PageHold(q, w)
    BY <1>11, <2>2, IdleHolds
  <2>5. \A m \in NodeIds : NodeHold(m)' = NodeHold(m)
    <3> TAKE m \in NodeIds
    <3>1. CASE m \in DOMAIN nodes
      <4>1. pc[p] # "unmap" /\ pc'[p] # "unmap" /\ m \in DOMAIN nodes' /\ nodes'[m].pa = nodes[m].pa
            /\ (Users(m)' = {} <=> Users(m) = {})
        BY <1>1, <1>7, <1>10, <1>13, <3>1
      <4> QED BY <1>11, <3>1, <4>1, NodesHold
    <3>2. CASE m \notin DOMAIN nodes
      BY <1>7, <3>2 DEF NodeHold
    <3> QED BY <3>1, <3>2
  <2> QED BY <1>7, <2>3, <2>4, <2>5, HoldsKept
<1>20. ShareOf(p)'
  BY <1>16, <1>17, <1>18 DEF ShareOf
<1> QED BY <1>11, <1>14, <1>15, <1>19, <1>20, ShareAssemble

(* A step in which one node takes or gives a frame.                        *)
LEMMA HoldsExcept ==
  ASSUME pd' = pd, table' = table, NEW k \in NodeIds,
         \A q \in Procs : FaultHold(q)' = FaultHold(q),
         \A q \in Procs, v \in Vpns : PageHold(q, v)' = PageHold(q, v),
         \A m \in NodeIds \ {k} : NodeHold(m)' = NodeHold(m)
  PROVE  \A s \in Holders : s # NodeSlot(k) => Holds'[s] = Holds[s]
<1> SUFFICES ASSUME NEW s \in Holders, s # NodeSlot(k) PROVE Holds'[s] = Holds[s]
  OBVIOUS
<1>1. CASE \E q \in Procs : s = PdSlot(q)
  <2>1. s[1] = "pd" /\ Ref(s)' = Ref(s)
    BY <1>1 DEF PdSlot, Ref
  <2> QED BY <2>1 DEF Holds, Hold
<1>2. CASE \E q \in Procs, i \in Pdis : s = TableSlot(q, i)
  <2>1. s[1] = "table" /\ Ref(s)' = Ref(s)
    BY <1>2 DEF TableSlot, Ref
  <2> QED BY <2>1 DEF Holds, Hold
<1>3. CASE \E q \in Procs : s = FaultSlot(q)
  <2>1. s[1] = "fault" /\ s[2] \in Procs
    BY <1>3 DEF FaultSlot
  <2> QED BY <2>1 DEF Holds, Hold
<1>4. CASE \E q \in Procs, v \in Vpns : s = PageSlot(q, v)
  <2>1. s[1] = "page" /\ s[2] \in Procs /\ s[3] \in Vpns
    BY <1>4 DEF PageSlot
  <2> QED BY <2>1 DEF Holds, Hold
<1>5. CASE \E m \in NodeIds : s = NodeSlot(m)
  BY <1>5, HoldsAre
<1> QED BY <1>1, <1>2, <1>3, <1>4, <1>5, HoldsAre, SlotKinds

LEMMA NodeTakes ==
  ASSUME SpaceInv, SpaceInv', ShareInv, pd' = pd, table' = table, NEW k \in NodeIds,
         \A q \in Procs : FaultHold(q)' = FaultHold(q),
         \A q \in Procs, v \in Vpns : PageHold(q, v)' = PageHold(q, v),
         \A m \in NodeIds \ {k} : NodeHold(m)' = NodeHold(m),
         supply # << >>, supply' = Tail(supply), NodeHold(k) = None, NodeHold(k)' = Head(supply)
  PROVE  Exclusive(Holders, supply', Holds')
<1>1. /\ Holds \in [Holders -> FrameOrNone] /\ Holds' \in [Holders -> FrameOrNone]
      /\ supply \in Seq(Frames) /\ Exclusive(Holders, supply, Holds)
  BY HoldsType DEF SpaceInv, TypeOK, ShareInv
<1>2. \A s \in Holders : s # NodeSlot(k) => Holds'[s] = Holds[s]
  BY HoldsExcept
<1>3. NodeSlot(k) \in Holders /\ Holds[NodeSlot(k)] = None /\ Holds'[NodeSlot(k)] = Head(supply)
  BY HoldsAre
<1>4. Exclusive(Holders, Tail(supply), Holds')
  BY <1>1, <1>2, <1>3, TakeFrame
<1> QED BY <1>4

LEMMA NodeGives ==
  ASSUME SpaceInv, SpaceInv', ShareInv, pd' = pd, table' = table, NEW k \in NodeIds,
         \A q \in Procs : FaultHold(q)' = FaultHold(q),
         \A q \in Procs, v \in Vpns : PageHold(q, v)' = PageHold(q, v),
         \A m \in NodeIds \ {k} : NodeHold(m)' = NodeHold(m),
         supply' = <<NodeHold(k)>> \o supply, NodeHold(k) # None, NodeHold(k)' = None
  PROVE  Exclusive(Holders, supply', Holds')
<1>1. /\ Holds \in [Holders -> FrameOrNone] /\ Holds' \in [Holders -> FrameOrNone]
      /\ supply \in Seq(Frames) /\ Exclusive(Holders, supply, Holds)
  BY HoldsType DEF SpaceInv, TypeOK, ShareInv
<1>2. \A s \in Holders : s # NodeSlot(k) => Holds'[s] = Holds[s]
  BY HoldsExcept
<1>3. NodeSlot(k) \in Holders /\ Holds[NodeSlot(k)] = NodeHold(k) /\ Holds'[NodeSlot(k)] = None
  BY HoldsAre
<1>4. Exclusive(Holders, <<Holds[NodeSlot(k)]>> \o supply, Holds')
  BY <1>1, <1>2, <1>3, GiveFrame
<1> QED BY <1>3, <1>4

LEMMA FaultAllocShare ==
  ASSUME Disciplined, SpaceInv, SpaceInv', ShareInv, NEW p \in Procs, FaultAlloc(p)
  PROVE  ShareInv'
<1>0. At(p, "alloc") /\ Alloc(Zeroes)
  BY DEF FaultAlloc
<1>1. /\ pc[p] = "alloc" /\ status[p] = "live" /\ TypeOK /\ FaultInv(p)
      /\ \A q \in Procs \ {p} : pc[q] = "user"
  BY <1>0, AtIs, OthersIdle
<1>2. PICK v : v = Vpn(call[p].va)
  OBVIOUS
<1>3. v \in Touches /\ v \in Vpns /\ page[p][v] = None
  BY <1>1, <1>2, FaultVpn DEF Faulting
<1>4. PICK e : e = FaultEntry(p, call[p].va)
  OBVIOUS
<1>5. /\ status' = status /\ pd' = pd /\ table' = table /\ page' = page
      /\ entries' = entries /\ nodeList' = nodeList /\ freed' = freed
      /\ supply # << >> /\ supply' = Tail(supply) /\ Head(supply) \in Frames
  BY <1>0, <1>1, AllocType DEF FaultAlloc, spaceVars, Alloc
<1>6. call[p].frame = None
  BY <1>1 DEF FaultInv
<1>7. \A m \in NodeIds : <<v, m>> \notin Marks(p)
  BY <1>1, <1>3, AbsentUnmarked
<1>8. call \in [Procs -> Call] /\ call[p] \in Call
  BY <1>1 DEF TypeOK
<1>9. Marks(p)' = Marks(p)
  BY <1>5 DEF Marks
<1>10. CASE ~FromList(e)
  <2>1. nodes' = nodes /\ call' = [call EXCEPT ![p].frame = Head(supply)] /\ Goto(p, "map")
    BY <1>4, <1>10 DEF FaultAlloc
  <2>2. call'[p] = [call[p] EXCEPT !.frame = Head(supply)]
        /\ \A q \in Procs \ {p} : call'[q] = call[q]
    BY <2>1, <1>8
  <2>3. call'[p].frame = Head(supply) /\ call'[p].va = call[p].va
    BY <2>2, <1>8 DEF Call
  <2>4. pc'[p] = "map" /\ \A q \in Procs \ {p} : pc'[q] = pc[q]
    BY <1>1, <2>1, GotoIs DEF Points
  <2>5. FaultSlot(p) \in Slots /\ Takes(FaultSlot(p))
    BY <1>0, <1>1, <1>5, <1>6, <2>2, <2>3, TakesFault
  <2>6. pc[p] \in Calm /\ ~FaultLent(p) /\ pc[p] \notin Sharing
    BY <1>1, CalmLent DEF Calm
  <2>7. PlainStep
    <3>1. ~Lends(FaultSlot(p))
      BY <2>6 DEF Lends, FaultSlot
    <3> QED BY <2>5, <3>1 DEF PlainStep
  <2>8. ~FaultLent(p)'
    <3>1. Vpn(call[p].va)' = v
      BY <1>2, <2>3
    <3>2. ~Lent(p, v)'
      BY <1>7, <1>9, <2>4 DEF Lent, Unmapping
    <3> QED BY <2>4, <3>1, <3>2 DEF FaultLent
  <2>9. EntryInv(p)'
    BY <1>1, <1>5, <2>4, EntryKept
  <2>10. MarkInv(p)'
    BY <1>1, <1>5, <1>9, <2>1, MarkKept
  <2>11. FaultShare(p)'
    BY <2>4 DEF FaultShare
  <2>12. \A q \in Procs \ {p} : Same(q)
    BY <1>5, <2>2, <2>4 DEF Same
  <2>13. pc'[p] \notin Sharing
    BY <2>4 DEF Sharing
  <2> QED BY <1>1, <1>5, <1>9, <2>1, <2>2, <2>4, <2>6, <2>7, <2>8, <2>9, <2>10, <2>11, <2>12, <2>13,
             QuietStep
<1>11. CASE FromList(e)
  <2>1. PICK k, new : k = Len(nodes) + 1 /\ new = [file |-> e.file, pa |-> Head(supply), num |-> 1]
    OBVIOUS
  <2>2. /\ nodes' = Append(nodes, new) /\ Len(nodes) < MaxNodes /\ Goto(p, "link")
        /\ call' = [call EXCEPT ![p].frame = Head(supply), ![p].node = k]
    BY <1>4, <1>11, <2>1 DEF FaultAlloc
  <2>3. /\ Len(nodes) \in Nat /\ DOMAIN nodes = 1..Len(nodes)
        /\ DOMAIN nodes' = 1..k /\ nodes'[k] = new
        /\ \A m \in DOMAIN nodes : nodes'[m] = nodes[m] /\ m # k /\ m \in DOMAIN nodes'
        /\ k \in NodeIds /\ k \notin DOMAIN nodes /\ k \in DOMAIN nodes'
        /\ \A m \in DOMAIN nodes' : m # k => m \in DOMAIN nodes
    <3>1. /\ Len(nodes) \in Nat /\ DOMAIN nodes = 1..Len(nodes) /\ MaxNodes \in Nat
          /\ nodes' \in Seq([file : Files, pa : Frames, num : 0..(NumMod - 1)])
      BY NodesIs, Constants DEF SpaceInv, TypeOK
    <3>2. nodes \in Seq([file : Files, pa : Frames, num : 0..(NumMod - 1)])
      BY <1>1 DEF TypeOK
    <3>3. /\ Len(nodes') = Len(nodes) + 1 /\ nodes'[Len(nodes) + 1] = new
          /\ \A m \in 1..Len(nodes) : nodes'[m] = nodes[m]
      BY <2>2, <3>1, <3>2
    <3>4. DOMAIN nodes' = 1..k
      BY <2>1, <3>1, <3>3, SeqIs
    <3>5. k \in 1..MaxNodes /\ k \notin 1..Len(nodes) /\ k \in 1..k
          /\ (\A m \in 1..Len(nodes) : m # k /\ m \in 1..k)
          /\ \A m \in 1..k : m # k => m \in 1..Len(nodes)
      BY <2>1, <2>2, <3>1
    <3> QED BY <2>1, <3>1, <3>3, <3>4, <3>5 DEF NodeIds
  <2>4. call'[p] = [call[p] EXCEPT !.frame = Head(supply), !.node = k]
        /\ \A q \in Procs \ {p} : call'[q] = call[q]
    BY <2>2, <1>8
  <2>5. /\ call'[p].frame = Head(supply) /\ call'[p].node = k /\ call'[p].va = call[p].va
        /\ call'[p].tail = call[p].tail
    BY <2>4, <1>8 DEF Call
  <2>6. pc'[p] = "link" /\ \A q \in Procs \ {p} : pc'[q] = pc[q]
    BY <1>1, <2>2, GotoIs DEF Points
  <2>7. \A q \in Procs \ {p} : Same(q) /\ pc[q] = "user"
    BY <1>1, <1>5, <2>4, <2>6 DEF Same
  <2>8. Pending(p) = {} /\ Pending(p)' = {<<v, k>>}
    BY <1>1, <1>2, <2>5, <2>6 DEF Pending
  <2>9. /\ \A m : m # k => Users(m)' = Users(m)
        /\ Users(k)' = {<<p, v>>}
    <3>1. \A w \in Touches : \A m : ~(w = v /\ m = k) =>
            (<<w, m>> \in Marks(p)' \union Pending(p)' <=> <<w, m>> \in Marks(p) \union Pending(p))
      BY <1>9, <2>8
    <3>2. <<v, k>> \in Marks(p)' \union Pending(p)'
      BY <2>8
    <3>3. (\A m : m # k => Users(m)' = Users(m)) /\ Users(k)' = Users(k) \union {<<p, v>>}
      BY <1>3, <2>7, <3>1, <3>2, UsersOther
    <3>4. Users(k) = {}
      BY <2>3, NoUsers
    <3> QED BY <3>3, <3>4
  <2>10. NodesKept
    BY <2>3 DEF NodesKept
  <2>11. NodeInv'
    <3>1. NodeInv /\ (\A j \in DOMAIN nodeList : nodeList[j] \in DOMAIN nodes)
      BY NodesIs DEF ShareInv
    <3>2. \A m : ~Linking(m) /\ ~Freeing(m) /\ ~Freeing(m)'
      BY <1>1, <2>6, <2>7, NotLinking
    <3>3. Linking(k)'
      BY <2>5, <2>6 DEF Linking
    <3>4. \A i1, j1 \in DOMAIN nodeList' :
            nodes'[nodeList'[i1]].file = nodes'[nodeList'[j1]].file => i1 = j1
      BY <1>5, <2>3, <3>1 DEF NodeInv
    <3>5. ASSUME NEW m \in DOMAIN nodes'
          PROVE  /\ nodes'[m].num = Cardinality(Users(m)')
                 /\ Users(m)' # {} => m \in Range(nodeList') \/ Linking(m)'
                 /\ m \in Range(nodeList') => Users(m)' # {} \/ Freeing(m)'
      <4>1. CASE m = k
        <5>1. nodes'[k].num = 1
          BY <2>1, <2>3
        <5>2. Cardinality(Users(k)') = 1
          BY <2>9, FS_Singleton
        <5> QED BY <2>9, <3>3, <4>1, <5>1, <5>2
      <4>2. CASE m # k
        <5>1. m \in DOMAIN nodes /\ Users(m)' = Users(m) /\ nodes'[m] = nodes[m]
          BY <2>3, <2>9, <3>5, <4>2
        <5> QED BY <1>5, <3>1, <3>2, <5>1 DEF NodeInv
      <4> QED BY <4>1, <4>2
    <3> QED BY <3>4, <3>5 DEF NodeInv
  <2>12. EntryInv(p)'
    BY <1>1, <1>5, <2>6, EntryKept
  <2>13. MarkInv(p)'
    <3>1. MarkInv(p)
      BY DEF ShareInv
    <3>2. \A x \in Marks(p) : x[2] \in DOMAIN nodes /\ page[p][x[1]] = nodes[x[2]].pa
      BY <1>1, <3>1 DEF MarkInv
    <3> QED BY <1>5, <1>9, <2>3, <3>2 DEF MarkInv
  <2>14. FaultShare(p)' /\ UnmapShare(p)'
    <3>1. FaultEntry(p, call[p].va)' = e
      BY <1>4, <1>5, <2>5 DEF FaultEntry
    <3>2. FaultShare(p) /\ (\A j \in DOMAIN nodeList : nodeList[j] \in DOMAIN nodes)
      BY NodesIs DEF ShareInv
    <3>3. /\ \A j \in DOMAIN nodeList : nodes[nodeList[j]].file # e.file
          /\ call[p].tail = IF nodeList = << >> THEN None ELSE Last(nodeList)
      BY <1>1, <1>4, <1>11, <3>2 DEF FaultShare
    <3>4. \A j \in DOMAIN nodeList' : nodes'[nodeList'[j]].file # e.file
      BY <1>5, <2>3, <3>2, <3>3
    <3>5. call'[p].tail = IF nodeList' = << >> THEN None ELSE Last(nodeList')
      BY <1>5, <2>5, <3>3
    <3>6. call'[p].frame = nodes'[k].pa /\ nodes'[k].file = e.file /\ call'[p].node = k
      BY <2>1, <2>3, <2>5
    <3> QED BY <2>6, <3>1, <3>4, <3>5, <3>6 DEF FaultShare, UnmapShare
  <2>15. Exclusive(Holders, supply', Holds')
    <3>1. FaultHold(p)' = FaultHold(p)
      BY <1>6, <2>6 DEF FaultHold, FaultLent
    <3>2. \A w \in Vpns : PageHold(p, w)' = PageHold(p, w)
      BY <1>1, <1>5, <1>9, <2>6 DEF PageHold, Lent, Unmapping
    <3>3. \A q \in Procs : FaultHold(q)' = FaultHold(q)
      BY <2>7, <3>1, IdleHolds
    <3>4. \A q \in Procs, w \in Vpns : PageHold(q, w)' = PageHold(q, w)
      BY <2>7, <3>2, IdleHolds
    <3>5. \A m \in NodeIds \ {k} : NodeHold(m)' = NodeHold(m)
      <4> TAKE m \in NodeIds \ {k}
      <4>1. CASE m \in DOMAIN nodes
        <5>1. pc[p] # "unmap" /\ pc'[p] # "unmap" /\ m \in DOMAIN nodes' /\ nodes'[m].pa = nodes[m].pa
              /\ (Users(m)' = {} <=> Users(m) = {})
          BY <1>1, <2>3, <2>6, <2>9, <4>1
        <5> QED BY <2>7, <4>1, <5>1, NodesHold
      <4>2. CASE m \notin DOMAIN nodes
        BY <2>3, <4>2 DEF NodeHold
      <4> QED BY <4>1, <4>2
    <3>6. NodeHold(k) = None
      BY <2>3 DEF NodeHold
    <3>7. NodeHold(k)' = Head(supply)
      <4>1. nodes'[k].pa = Head(supply)
        BY <2>1, <2>3
      <4>2. InUse(k)'
        BY <2>9 DEF InUse
      <4> QED BY <2>3, <4>1, <4>2 DEF NodeHold
    <3>8. supply # << >> /\ supply' = Tail(supply) /\ k \in NodeIds /\ pd' = pd /\ table' = table
      BY <1>5, <2>3
    <3> QED BY <3>3, <3>4, <3>5, <3>6, <3>7, <3>8, NodeTakes
  <2>16. ShareOf(p)'
    BY <2>12, <2>13, <2>14 DEF ShareOf
  <2> QED BY <2>7, <2>10, <2>11, <2>15, <2>16, ShareAssemble
<1> QED BY <1>10, <1>11

(* One user of node k less.                                                *)
LEMMA CountDown ==
  ASSUME Disciplined, SpaceInv, ShareInv, NEW k \in DOMAIN nodes, NEW x \in Users(k),
         Users(k)' = Users(k) \ {x},
         nodes' = [nodes EXCEPT ![k].num = (@ - 1) % NumMod]
  PROVE  /\ nodes'[k].num = Cardinality(Users(k)')
         /\ DOMAIN nodes' = DOMAIN nodes /\ \A m \in DOMAIN nodes : m # k => nodes'[m] = nodes[m]
         /\ nodes'[k].pa = nodes[k].pa /\ nodes'[k].file = nodes[k].file
         /\ LastToGo(k) <=> Users(k)' = {}
<1>1. nodes[k] \in [file : Files, pa : Frames, num : 0..(NumMod - 1)]
  BY NodesIs
<1>2. nodes[k].num = Cardinality(Users(k))
  BY DEF ShareInv, NodeInv
<1>3. PICK n : n = Cardinality(Users(k))
  OBVIOUS
<1>4. IsFiniteSet(Users(k)) /\ n \in Nat /\ n < NumMod /\ n # 0
  BY <1>3, UsersIn, UsesCounted
<1>5. Cardinality(Users(k)') = n - 1
  BY <1>3, <1>4, FS_RemoveElement
<1>6. Users(k)' = {} <=> n - 1 = 0
  <2>1. Users(k)' \subseteq Procs \X Touches
    BY UsersIn
  <2> QED BY <1>5, <2>1, UsesCounted
<1>7. NumMod \in Nat /\ (n - 1) % NumMod = n - 1
  BY <1>4, Constants
<1>8. nodes' = [nodes EXCEPT ![k].num = n - 1]
  BY <1>2, <1>3, <1>7
<1>9. nodes'[k] = [nodes[k] EXCEPT !.num = n - 1] /\ DOMAIN nodes' = DOMAIN nodes
      /\ \A m \in DOMAIN nodes : m # k => nodes'[m] = nodes[m]
  BY <1>8
<1>10. LastToGo(k) <=> n = 1
  BY <1>2, <1>3 DEF LastToGo
<1>11. n = 1 <=> n - 1 = 0
  BY <1>4
<1> QED BY <1>1, <1>5, <1>6, <1>9, <1>10, <1>11

LEMMA MunmapShare ==
  ASSUME Disciplined, SpaceInv, SpaceInv', ShareInv, NEW p \in Procs, NEW i \in DOMAIN entries[p],
         Munmap(p, i)
  PROVE  ShareInv'
<1>1. PICK e : e = entries[p][i]
  OBVIOUS
<1>2. PICK k, last : k = e.node /\ last = LastToGo(k)
  OBVIOUS
<1>3. At(p, "user") /\ (Tidy => FromList(e) /\ e.node \in NodeIds)
  BY <1>1 DEF Munmap
<1>4. /\ FromList(e) /\ e.shared /\ k \in NodeIds /\ k # None /\ k # Junk
      /\ e.node \in NodeIds /\ Pointee(e) = e.node
  BY <1>2, <1>3, Constants, StaleApart DEF Disciplined, FromList, Pointee
<1>5. /\ entries' = [entries EXCEPT ![p] = RemoveAt(@, i)]
      /\ nodes' = [nodes EXCEPT ![k].num = (@ - 1) % NumMod]
      /\ call' = [call EXCEPT ![p].va = e.start, ![p].end = End(e), ![p].node = k,
                              ![p].physical = last]
      /\ Goto(p, "unmap") /\ status' = status
  <2>1. /\ entries' = [entries EXCEPT ![p] = RemoveAt(@, i)]
        /\ nodes' = IF e.shared THEN [nodes EXCEPT ![e.node].num = (@ - 1) % NumMod]
                    ELSE nodes
        /\ call' = [call EXCEPT ![p].va = e.start, ![p].end = End(e), ![p].node = e.node,
                                ![p].physical = e.shared => LastToGo(e.node)]
        /\ Goto(p, "unmap") /\ status' = status
    BY <1>1, <1>2, <1>4 DEF Munmap
  <2>2. (e.shared => LastToGo(e.node)) = last
    <3>1. last \in BOOLEAN
      BY <1>2, Zenon DEF LastToGo
    <3> QED BY <1>2, <1>4, <3>1, Zenon
  <2>3. call' = [call EXCEPT ![p].va = e.start, ![p].end = End(e), ![p].node = e.node,
                             ![p].physical = last]
    BY ONLY <2>1, <2>2, Zenon
  <2>4. nodes' = [nodes EXCEPT ![e.node].num = (@ - 1) % NumMod]
    BY <1>4, <2>1
  <2> QED BY <1>2, <2>1, <2>3, <2>4
<1>6. /\ supply' = supply /\ pd' = pd /\ table' = table /\ page' = page /\ nodeList' = nodeList /\ freed' = freed
  BY DEF Munmap, spaceVars
<1>7. /\ pc[p] = "user" /\ status[p] = "live" /\ TypeOK /\ call[p] = NoCall
      /\ \A q \in Procs \ {p} : pc[q] = "user"
  BY <1>3, AtIs, OthersIdle DEF CallInv
<1>8. EntryInv(p) /\ MarkInv(p) /\ NodeInv
  BY DEF ShareInv
<1>9. GoodEntry(e)
  BY <1>1, <1>8 DEF EntryInv, GoodEntries
<1>10. PICK v \in Touches : e.start = v * FrameSize /\ End(e) = v * FrameSize + FrameSize
  BY <1>4, <1>9 DEF GoodEntry
<1>11. v \in Vpns /\ v \in Nat
  BY Constants
<1>12. /\ entries'[p] = RemoveAt(entries[p], i) /\ entries[p] \in Seq(Entry)
       /\ \A q \in Procs \ {p} : entries'[q] = entries[q]
  BY <1>5, <1>7 DEF TypeOK
<1>13. /\ GoodEntries(entries'[p]) /\ Marks(p)' = Marks(p) \ {<<v, k>>}
       /\ \A m \in NodeIds : <<v, m>> \in Marks(p) => m = k
       /\ <<v, k>> \in Marks(p) /\ Len(entries'[p]) <= Len(entries[p])
  <2>1. GoodEntries(entries[p]) /\ entries[p][i].node \in NodeIds
        /\ entries[p][i].start = v * FrameSize
    BY <1>1, <1>4, <1>8, <1>10 DEF EntryInv
  <2>2. /\ GoodEntries(RemoveAt(entries[p], i))
        /\ MarksOf(RemoveAt(entries[p], i)) = MarksOf(entries[p]) \ {<<v, entries[p][i].node>>}
        /\ \A m \in NodeIds : <<v, m>> \in MarksOf(entries[p]) => m = entries[p][i].node
        /\ <<v, entries[p][i].node>> \in MarksOf(entries[p])
        /\ Len(RemoveAt(entries[p], i)) <= Len(entries[p])
    BY <1>12, <2>1, RemoveShare
  <2> QED BY <1>1, <1>2, <1>12, <2>2 DEF Marks
<1>14. k \in DOMAIN nodes /\ page[p][v] = nodes[k].pa
  <2>1. <<v, k>>[1] = v /\ <<v, k>>[2] = k
    OBVIOUS
  <2> QED BY <1>7, <1>8, <1>13, <2>1 DEF MarkInv
<1>15. pc'[p] = "unmap" /\ \A q \in Procs \ {p} : pc'[q] = pc[q]
  BY <1>5, <1>7, GotoIs DEF Points
<1>16. /\ call'[p].va = v * FrameSize /\ call'[p].end = v * FrameSize + FrameSize
       /\ call'[p].node = k /\ call'[p].physical = last
       /\ call[p].frame = None /\ call'[p].frame = None
       /\ \A q \in Procs \ {p} : call'[q] = call[q]
  <2>1. call \in [Procs -> Call] /\ call[p] \in Call
    BY <1>7 DEF TypeOK
  <2>2. PICK en : en = End(e)
    OBVIOUS
  <2>3. call' = [call EXCEPT ![p].va = e.start, ![p].end = en, ![p].node = k,
                             ![p].physical = last]
    BY <1>5, <2>2
  <2>4. call'[p] = [call[p] EXCEPT !.va = e.start, !.end = en, !.node = k, !.physical = last]
        /\ \A q \in Procs \ {p} : call'[q] = call[q]
    BY <2>1, <2>3
  <2>5. /\ call'[p].va = e.start /\ call'[p].end = en /\ call'[p].node = k
        /\ call'[p].physical = last /\ call'[p].frame = call[p].frame
    BY <2>1, <2>4 DEF Call
  <2>6. call[p].frame = None
    BY <1>7 DEF NoCall
  <2> QED BY <1>10, <2>2, <2>4, <2>5, <2>6
<1>17. \A q \in Procs \ {p} : Same(q) /\ pc[q] = "user"
  BY <1>5, <1>6, <1>7, <1>12, <1>15, <1>16 DEF Same
<1>18. Pending(p) = {} /\ Pending(p)' = {}
  BY <1>7, <1>15 DEF Pending
<1>19. /\ \A m : m # k => Users(m)' = Users(m)
       /\ Users(k)' = Users(k) \ {<<p, v>>}
       /\ <<p, v>> \in Users(k)
  <2>1. \A w \in Touches : \A m : ~(w = v /\ m = k) =>
          (<<w, m>> \in Marks(p)' \union Pending(p)' <=> <<w, m>> \in Marks(p) \union Pending(p))
    BY <1>13, <1>18
  <2>2. <<v, k>> \notin Marks(p)' \union Pending(p)'
    BY <1>13, <1>18
  <2>3. <<p, v>> \in Users(k)
    BY <1>13, UsersAre
  <2> QED BY <1>17, <2>1, <2>2, <2>3, UsersOther
<1>20. /\ nodes'[k].num = Cardinality(Users(k)')
       /\ DOMAIN nodes' = DOMAIN nodes /\ \A m \in DOMAIN nodes : m # k => nodes'[m] = nodes[m]
       /\ nodes'[k].pa = nodes[k].pa /\ nodes'[k].file = nodes[k].file
       /\ last <=> Users(k)' = {}
  <2>1. Users(k)' = Users(k) \ {<<p, v>>} /\ <<p, v>> \in Users(k) /\ k \in DOMAIN nodes
        /\ nodes' = [nodes EXCEPT ![k].num = (@ - 1) % NumMod]
    BY <1>5, <1>14, <1>19
  <2>2. /\ nodes'[k].num = Cardinality(Users(k)')
        /\ DOMAIN nodes' = DOMAIN nodes /\ \A m \in DOMAIN nodes : m # k => nodes'[m] = nodes[m]
        /\ nodes'[k].pa = nodes[k].pa /\ nodes'[k].file = nodes[k].file
        /\ LastToGo(k) <=> Users(k)' = {}
    BY <2>1, CountDown
  <2> QED BY <1>2, <2>2
<1>21. \A m \in DOMAIN nodes : nodes'[m].pa = nodes[m].pa /\ nodes'[m].file = nodes[m].file
  BY <1>20
<1>22. NodesKept
  BY <1>20, <1>21 DEF NodesKept
<1>23. \A m : ~Linking(m) /\ ~Freeing(m) /\ ~Linking(m)'
  BY <1>7, <1>15, <1>17, NotLinking
<1>24. k \in Range(nodeList)
  BY <1>8, <1>14, <1>19, <1>23 DEF NodeInv
<1>25. NodeInv'
  <2>1. \A i1, j1 \in DOMAIN nodeList' :
          nodes'[nodeList'[i1]].file = nodes'[nodeList'[j1]].file => i1 = j1
    <3>1. \A j1 \in DOMAIN nodeList : nodeList[j1] \in DOMAIN nodes
      BY NodesIs
    <3> QED BY <1>6, <1>8, <1>21, <3>1 DEF NodeInv
  <2>2. ASSUME NEW m \in DOMAIN nodes'
        PROVE  /\ nodes'[m].num = Cardinality(Users(m)')
               /\ Users(m)' # {} => m \in Range(nodeList')
               /\ m \in Range(nodeList') => Users(m)' # {} \/ Freeing(m)'
    <3>1. m \in DOMAIN nodes
      BY <1>20
    <3>2. CASE m = k
      <4>1. last => Freeing(k)'
        BY <1>15, <1>16 DEF Freeing
      <4> QED BY <1>6, <1>20, <1>24, <3>2, <4>1
    <3>3. CASE m # k
      <4>1. nodes[m].num = Cardinality(Users(m)) /\ (Users(m) # {} <=> m \in Range(nodeList))
        BY <1>8, <1>23, <3>1 DEF NodeInv
      <4> QED BY <1>6, <1>19, <1>20, <3>1, <3>3, <4>1
    <3> QED BY <3>2, <3>3
  <2> QED BY <2>1, <2>2 DEF NodeInv
<1>26. EntryInv(p)'
  <2>1. Len(entries[p]) <= MaxEntries /\ Len(entries[p]) \in Nat /\ MaxEntries \in Nat
    BY <1>8, <1>12, SeqIs DEF EntryInv, Disciplined
  <2>2. Len(entries'[p]) \in Nat
    <3>1. entries'[p] \in Seq(Entry)
      BY DEF SpaceInv, TypeOK
    <3> QED BY <3>1, SeqIs
  <2>3. Len(entries'[p]) <= MaxEntries
    BY <1>13, <2>1, <2>2
  <2> QED BY <1>5, <1>7, <1>13, <1>15, <2>3 DEF EntryInv
<1>27. MarkInv(p)'
  <2>1. \A x \in Marks(p) : x[2] \in DOMAIN nodes /\ page[p][x[1]] = nodes[x[2]].pa
    BY <1>7, <1>8 DEF MarkInv
  <2> QED BY <1>6, <1>13, <1>20, <1>21, <2>1 DEF MarkInv
<1>28. Unmapping(p, v)'
  BY <1>15, <1>16 DEF Unmapping
<1>29. FaultShare(p)' /\ UnmapShare(p)'
  <2>1. FaultShare(p)'
    BY <1>15 DEF FaultShare
  <2>2. \A m \in NodeIds : <<v, m>> \notin Marks(p)'
    BY <1>13
  <2>3. page'[p][v] = nodes'[k].pa
    BY <1>6, <1>14, <1>20
  <2>4. k \in Range(nodeList') /\ (call'[p].physical <=> Users(k)' = {}) /\ call'[p].node = k
    BY <1>6, <1>16, <1>20, <1>24
  <2> QED BY <1>28, <2>1, <2>2, <2>3, <2>4 DEF UnmapShare
<1>30. \A w \in Vpns : Unmapping(p, w)' => w = v
  <2> SUFFICES ASSUME NEW w \in Vpns, Unmapping(p, w)' PROVE w = v
    OBVIOUS
  <2>1. w \in Nat /\ w * FrameSize = v * FrameSize
    BY <1>16, Constants DEF Unmapping
  <2> QED BY <1>11, <2>1, TimesFrame
<1>31. Exclusive(Holders, supply', Holds')
  <2>1. FaultHold(p)' = FaultHold(p)
    BY <1>16 DEF FaultHold
  <2>2. \A w \in Vpns : PageHold(p, w)' = PageHold(p, w)
    <3> TAKE w \in Vpns
    <3>1. \A u : ~Unmapping(p, u)
      BY <1>7 DEF Unmapping
    <3>2. CASE w = v
      BY <1>4, <1>13, <1>28, <3>2 DEF PageHold, Lent
    <3>3. CASE w # v
      <4>1. Lent(p, w)' <=> Lent(p, w)
        BY <1>13, <1>30, <3>1, <3>3 DEF Lent
      <4> QED BY <1>6, <4>1 DEF PageHold
    <3> QED BY <3>2, <3>3
  <2>3. \A q \in Procs : FaultHold(q)' = FaultHold(q)
    BY <1>17, <2>1, IdleHolds
  <2>4. \A q \in Procs, w \in Vpns : PageHold(q, w)' = PageHold(q, w)
    BY <1>17, <2>2, IdleHolds
  <2>5. \A m \in NodeIds : NodeHold(m)' = NodeHold(m)
    <3> TAKE m \in NodeIds
    <3>1. CASE m \notin DOMAIN nodes
      BY <1>20, <3>1 DEF NodeHold
    <3>2. CASE m = k
      <4>1. InUse(k)
        BY <1>19 DEF InUse
      <4>2. InUse(k)'
        BY <1>16, <1>20, <1>28 DEF InUse
      <4> QED BY <1>14, <1>20, <3>2, <4>1, <4>2 DEF NodeHold
    <3>3. CASE m # k /\ m \in DOMAIN nodes
      <4>1. \A q \in Procs : \A w : ~(Unmapping(q, w) /\ call[q].physical /\ call[q].node = m)
                               /\ ~(Unmapping(q, w) /\ call[q].physical /\ call[q].node = m)'
        <5> TAKE q \in Procs
        <5> TAKE w
        <5>1. CASE q = p
          BY <1>7, <1>16, <3>3, <5>1 DEF Unmapping
        <5>2. CASE q # p
          BY <1>17, <5>2, IdleHolds
        <5> QED BY <5>1, <5>2
      <4>2. InUse(m)' <=> InUse(m)
        BY <1>19, <3>3, <4>1 DEF InUse
      <4> QED BY <1>20, <1>21, <3>3, <4>2 DEF NodeHold
    <3> QED BY <3>1, <3>2, <3>3
  <2> QED BY <1>6, <2>3, <2>4, <2>5, HoldsKept
<1>32. ShareOf(p)'
  BY <1>26, <1>27, <1>29 DEF ShareOf
<1> QED BY <1>17, <1>22, <1>25, <1>31, <1>32, ShareAssemble

LEMMA UnmapShareKept ==
  ASSUME Disciplined, SpaceInv, SpaceInv', ShareInv, NEW p \in Procs, Unmap(p)
  PROVE  ShareInv'
<1>0. At(p, "unmap") /\ call[p].va < call[p].end
  BY DEF Unmap
<1>1. /\ pc[p] = "unmap" /\ status[p] = "live" /\ TypeOK /\ FaultInv(p)
      /\ \A q \in Procs \ {p} : pc[q] = "user"
  BY <1>0, AtIs, OthersIdle
<1>2. PICK k : k = call[p].node
  OBVIOUS
<1>3. call \in [Procs -> Call] /\ call[p] \in Call /\ call[p].va \in Nat /\ call[p].end \in Nat
  BY <1>1, Constants DEF TypeOK, Call
<1>4. UnmapShare(p) /\ EntryInv(p) /\ MarkInv(p) /\ NodeInv
  BY DEF ShareInv
<1>5. PICK v \in Touches : /\ Unmapping(p, v) /\ page[p][v] = nodes[k].pa
                           /\ \A m \in NodeIds : <<v, m>> \notin Marks(p)
  <2>1. call[p].va # call[p].end
    BY <1>0, <1>3
  <2> QED BY <1>1, <1>2, <1>4, <2>1 DEF UnmapShare
<1>6. k \in Range(nodeList) /\ (call[p].physical <=> Users(k) = {})
  BY <1>1, <1>2, <1>4 DEF UnmapShare
<1>7. k \in DOMAIN nodes /\ k \in NodeIds /\ nodes[k].pa \in Frames /\ nodes[k].pa # None
  <2>1. k \in DOMAIN nodes
    BY <1>6, NodesIs DEF Range
  <2> QED BY <2>1, NodesIs, Constants
<1>8. /\ v \in Vpns \ {ApicPage} /\ v \in Nat /\ Vpn(call[p].va) = v
      /\ call[p].va = v * FrameSize /\ call[p].end = v * FrameSize + FrameSize
      /\ v * FrameSize \in Nat /\ FrameSize \in Nat /\ FrameSize > 0
  BY <1>5, Constants, VpnOf DEF Unmapping
<1>9. /\ page' = [page EXCEPT ![p][v] = None]
      /\ call' = [call EXCEPT ![p].va = @ + FrameSize]
      /\ IF call[p].physical THEN Dealloc(nodes[k].pa) ELSE supply' = supply
  BY <1>5, <1>7, <1>8 DEF Unmap
<1>10. /\ status' = status /\ pc' = pc /\ pd' = pd /\ table' = table /\ entries' = entries
       /\ nodes' = nodes /\ nodeList' = nodeList /\ freed' = freed
  BY DEF Unmap, nodeVars
<1>11. /\ call'[p].va = call[p].end /\ call'[p].end = call[p].end
       /\ call'[p].node = call[p].node /\ call'[p].physical = call[p].physical
       /\ call'[p].frame = call[p].frame /\ \A q \in Procs \ {p} : call'[q] = call[q]
  <2>1. call'[p] = [call[p] EXCEPT !.va = call[p].va + FrameSize]
        /\ \A q \in Procs \ {p} : call'[q] = call[q]
    BY <1>3, <1>9
  <2>2. /\ call'[p].va = call[p].va + FrameSize /\ call'[p].end = call[p].end
        /\ call'[p].node = call[p].node /\ call'[p].physical = call[p].physical
        /\ call'[p].frame = call[p].frame
    BY <1>3, <2>1 DEF Call
  <2> QED BY <1>8, <2>1, <2>2
<1>12. /\ page'[p][v] = None /\ \A w \in Vpns : w # v => page'[p][w] = page[p][w]
       /\ \A q \in Procs \ {p} : page'[q] = page[q]
  BY <1>1, <1>8, <1>9 DEF TypeOK
<1>13. \A q \in Procs \ {p} : Same(q) /\ pc[q] = "user"
  BY <1>1, <1>10, <1>11, <1>12 DEF Same
<1>14. Marks(p)' = Marks(p) /\ Pending(p)' = Pending(p)
  BY <1>1, <1>10 DEF Marks, Pending
<1>15. \A m : Users(m)' = Users(m)
  <2>1. \A q \in Procs : Marks(q)' = Marks(q) /\ Pending(q)' = Pending(q)
    BY <1>13, <1>14, IdleHolds
  <2> QED BY <2>1, UsersKept
<1>16. NodesKept
  BY <1>10 DEF NodesKept
<1>17. NodeInv'
  <2>1. \A m : Freeing(m)' <=> Freeing(m)
    <3>1. \A q \in Procs : pc'[q] = pc[q] /\ call'[q].physical = call[q].physical
                           /\ call'[q].node = call[q].node
      BY <1>10, <1>11
    <3> QED BY <3>1 DEF Freeing
  <2>2. \A m : ~Linking(m) /\ ~Linking(m)'
    BY <1>1, <1>10, <1>13, NotLinking
  <2> QED BY <1>4, <1>10, <1>15, <2>1, <2>2 DEF NodeInv
<1>18. EntryInv(p)'
  BY <1>1, <1>10, EntryKept
<1>19. MarkInv(p)'
  <2> SUFFICES ASSUME NEW x \in Marks(p)
               PROVE  x[2] \in DOMAIN nodes /\ page'[p][x[1]] = nodes[x[2]].pa
    BY <1>10, <1>14 DEF MarkInv
  <2>1. x = <<x[1], x[2]>> /\ x[1] \in Vpns /\ x[2] \in NodeIds
    BY MarksIn DEF Marks
  <2>2. x[1] # v
    BY <1>5, <2>1
  <2>3. x[2] \in DOMAIN nodes /\ page[p][x[1]] = nodes[x[2]].pa
    BY <1>1, <1>4 DEF MarkInv
  <2> QED BY <1>12, <2>1, <2>2, <2>3
<1>20. FaultShare(p)' /\ UnmapShare(p)'
  <2>1. FaultShare(p)'
    BY <1>1, <1>10 DEF FaultShare
  <2>2. k \in Range(nodeList') /\ (call'[p].physical <=> Users(k)' = {}) /\ call'[p].node = k
        /\ call'[p].va = call'[p].end
    BY <1>2, <1>6, <1>10, <1>11, <1>15
  <2> QED BY <2>1, <2>2 DEF UnmapShare
<1>21. \A w \in Vpns : ~Unmapping(p, w)' /\ (Unmapping(p, w) => w = v)
  <2> TAKE w \in Vpns
  <2>1. w \in Nat
    BY Constants
  <2>2. Unmapping(p, w) => w = v
    <3> SUFFICES ASSUME Unmapping(p, w) PROVE w = v
      OBVIOUS
    <3>1. w * FrameSize = v * FrameSize
      BY <1>8 DEF Unmapping
    <3> QED BY <1>8, <2>1, <3>1, TimesFrame
  <2>3. ~Unmapping(p, w)'
    <3> SUFFICES ASSUME Unmapping(p, w)' PROVE FALSE
      OBVIOUS
    <3>1. PICK x : x = w * FrameSize
      OBVIOUS
    <3>2. x = call'[p].va /\ x + FrameSize = call'[p].end /\ x \in Nat
      BY <2>1, <3>1, TimesFrame DEF Unmapping
    <3> QED BY <1>8, <1>11, <3>2
  <2> QED BY <2>2, <2>3
<1>22. \A q \in Procs : FaultHold(q)' = FaultHold(q)
  <2>1. FaultHold(p)' = FaultHold(p)
    BY <1>1, <1>10, <1>11 DEF FaultHold, FaultLent
  <2> QED BY <1>13, <2>1, IdleHolds
<1>23. \A q \in Procs, w \in Vpns : PageHold(q, w)' = PageHold(q, w)
  <2>1. \A w \in Vpns : PageHold(p, w)' = PageHold(p, w)
    <3> TAKE w \in Vpns
    <3>1. CASE w = v
      BY <1>5, <1>12, <3>1 DEF PageHold, Lent
    <3>2. CASE w # v
      <4>1. Lent(p, w)' <=> Lent(p, w)
        BY <1>14, <1>21, <3>2 DEF Lent
      <4> QED BY <1>12, <3>2, <4>1 DEF PageHold
    <3> QED BY <3>1, <3>2
  <2> QED BY <1>13, <2>1, IdleHolds
<1>24. \A q \in Procs, w \in Touches :
         /\ ~Unmapping(q, w)'
         /\ Unmapping(q, w) /\ call[q].physical => call[q].node = k /\ Users(k) = {}
  <2> TAKE q \in Procs, w \in Touches
  <2>1. w \in Vpns
    BY Constants
  <2>2. CASE q = p
    BY <1>2, <1>6, <1>21, <2>1, <2>2
  <2>3. CASE q # p
    BY <1>13, <2>3, IdleHolds
  <2> QED BY <2>2, <2>3
<1>25. \A m \in NodeIds \ {k} : NodeHold(m)' = NodeHold(m)
  <2>1. \A m \in NodeIds \ {k} : InUse(m)' <=> InUse(m)
    BY <1>15, <1>24 DEF InUse
  <2> QED BY <1>10, <2>1 DEF NodeHold
<1>26. Exclusive(Holders, supply', Holds')
  <2>1. CASE call[p].physical
    <3>1. InUse(k)
      BY <1>2, <1>5, <2>1 DEF InUse
    <3>2. ~InUse(k)'
      BY <1>6, <1>15, <1>24, <2>1 DEF InUse
    <3>3. NodeHold(k) = nodes[k].pa /\ NodeHold(k)' = None
      BY <1>7, <3>1, <3>2 DEF NodeHold
    <3>4. supply' = <<NodeHold(k)>> \o supply /\ NodeHold(k) # None /\ NodeHold(k)' = None
      BY <1>7, <1>9, <2>1, <3>3 DEF Dealloc
    <3>5. pd' = pd /\ table' = table /\ k \in NodeIds
      BY <1>7, <1>10
    <3> QED BY <1>22, <1>23, <1>25, <3>4, <3>5, NodeGives
  <2>2. CASE ~call[p].physical
    <3>1. InUse(k) /\ InUse(k)'
      BY <1>6, <1>15, <2>2 DEF InUse
    <3>2. NodeHold(k)' = NodeHold(k)
      BY <1>10, <3>1 DEF NodeHold
    <3>3. \A m \in NodeIds : NodeHold(m)' = NodeHold(m)
      BY <1>25, <3>2
    <3>4. supply' = supply /\ pd' = pd /\ table' = table
      BY <1>9, <1>10, <2>2
    <3> QED BY <1>22, <1>23, <3>3, <3>4, HoldsKept
  <2> QED BY <2>1, <2>2
<1>27. ShareOf(p)'
  BY <1>18, <1>19, <1>20 DEF ShareOf
<1> QED BY <1>13, <1>16, <1>17, <1>26, <1>27, ShareAssemble

LEMMA UnlinkShare ==
  ASSUME Disciplined, SpaceInv, SpaceInv', ShareInv, NEW p \in Procs, Unlink(p)
  PROVE  ShareInv'
<1>0. At(p, "unmap") /\ call[p].va >= call[p].end
  BY DEF Unlink
<1>1. /\ pc[p] = "unmap" /\ status[p] = "live" /\ TypeOK /\ FaultInv(p)
      /\ \A q \in Procs \ {p} : pc[q] = "user"
  BY <1>0, AtIs, OthersIdle
<1>2. PICK k, i : k = call[p].node /\ i = Listed(nodes[k].file)
  OBVIOUS
<1>3. UnmapShare(p) /\ EntryInv(p) /\ MarkInv(p) /\ NodeInv
  BY DEF ShareInv
<1>4. k \in Range(nodeList) /\ (call[p].physical <=> Users(k) = {})
  BY <1>1, <1>2, <1>3 DEF UnmapShare
<1>5. k \in DOMAIN nodes /\ k # None /\ k # Junk /\ nodeList # <<>>
  <2>1. k \in DOMAIN nodes /\ k \in NodeIds
    BY <1>4, NodesIs DEF Range
  <2>2. DOMAIN nodeList # {}
    BY <1>4 DEF Range
  <2>3. nodeList # <<>>
    BY <2>2
  <2> QED BY <2>1, <2>3, Constants
<1>6. \A w \in Vpns : ~Unmapping(p, w)
  <2> SUFFICES ASSUME NEW w \in Vpns, Unmapping(p, w) PROVE FALSE
    OBVIOUS
  <2>1. PICK x : x = w * FrameSize
    OBVIOUS
  <2>2. x = call[p].va /\ x + FrameSize = call[p].end /\ x \in Nat
    BY <2>1, VpnOf DEF Unmapping
  <2>3. FrameSize \in Nat /\ FrameSize > 0
    BY Constants
  <2> QED BY <1>0, <2>2, <2>3
<1>7. /\ Return(p) /\ status' = status /\ entries' = entries
      /\ IF call[p].physical THEN nodeList' = (IF i = 0 THEN nodeList ELSE RemoveAt(nodeList, i))
         ELSE nodeList' = nodeList
  BY <1>2, <1>5 DEF Unlink
<1>8. /\ supply' = supply /\ pd' = pd /\ table' = table /\ page' = page /\ nodes' = nodes
  BY DEF Unlink, spaceVars
<1>9. /\ pc'[p] = "user" /\ call'[p] = NoCall
      /\ \A q \in Procs \ {p} : pc'[q] = pc[q] /\ call'[q] = call[q]
  BY <1>1, <1>7, ReturnIs
<1>10. \A q \in Procs \ {p} : Same(q) /\ pc[q] = "user"
  BY <1>1, <1>7, <1>8, <1>9 DEF Same
<1>11. Marks(p)' = Marks(p) /\ Pending(p)' = Pending(p)
  BY <1>1, <1>7, <1>9 DEF Marks, Pending
<1>12. \A m : Users(m)' = Users(m)
  <2>1. \A q \in Procs : Marks(q)' = Marks(q) /\ Pending(q)' = Pending(q)
    BY <1>10, <1>11, IdleHolds
  <2> QED BY <2>1, UsersKept
<1>13. NodesKept
  BY <1>8 DEF NodesKept
<1>14. NodeInv'
  <2>1. \A m : ~Linking(m) /\ ~Linking(m)' /\ ~Freeing(m)'
    BY <1>1, <1>9, <1>10, NotLinking
  <2>2. \A m : Freeing(m) <=> call[p].physical /\ m = k
    BY <1>1, <1>2 DEF Freeing
  <2>3. CASE ~call[p].physical
    BY <1>3, <1>7, <1>8, <1>12, <2>1, <2>2, <2>3 DEF NodeInv
  <2>4. CASE call[p].physical
    <3>1. PICK j \in DOMAIN nodeList : nodeList[j] = k
      BY <1>4 DEF Range
    <3>2. i \in DOMAIN nodeList /\ i # 0 /\ nodes[nodeList[i]].file = nodes[k].file
      <4> DEFINE hits == {l \in DOMAIN nodeList : nodes[nodeList[l]].file = nodes[k].file}
      <4>1. hits # {} /\ hits \subseteq Nat /\ 0 \notin hits
        BY <3>1, NodesIs
      <4>2. i = Lowest(hits)
        BY <1>2, <4>1 DEF Listed
      <4>3. i \in hits
        BY <4>1, <4>2, LowestIn
      <4> QED BY <4>1, <4>3
    <3>3. nodeList[i] = k
      BY <1>3, <3>1, <3>2 DEF NodeInv
    <3>4. Removed(nodeList, i, nodeList')
      <4>1. nodeList' = RemoveAt(nodeList, i) /\ nodeList \in Seq(DOMAIN nodes)
        BY <1>1, <1>7, <2>4, <3>2 DEF TypeOK
      <4> QED BY <3>2, <4>1, RemoveAtMaps
    <3>5. \A m : m \in Range(nodeList') <=> m \in Range(nodeList) /\ m # k
      <4>1. ASSUME NEW m, m \in Range(nodeList') PROVE m \in Range(nodeList) /\ m # k
        <5>1. PICK a \in DOMAIN nodeList' : nodeList'[a] = m
          BY <4>1 DEF Range
        <5>2. PICK b \in DOMAIN nodeList : b # i /\ nodeList'[a] = nodeList[b]
          BY <3>4 DEF Removed
        <5>3. nodeList[b] # nodeList[i]
          BY <1>3, <3>2, <5>2 DEF NodeInv
        <5> QED BY <3>3, <5>1, <5>2, <5>3 DEF Range
      <4>2. ASSUME NEW m, m \in Range(nodeList), m # k PROVE m \in Range(nodeList')
        <5>1. PICK b \in DOMAIN nodeList : nodeList[b] = m /\ b # i
          BY <3>3, <4>2 DEF Range
        <5>2. PICK a \in DOMAIN nodeList' : nodeList'[a] = nodeList[b]
          BY <3>4, <5>1 DEF Removed
        <5> QED BY <5>1, <5>2 DEF Range
      <4> QED BY <4>1, <4>2
    <3>6. ASSUME NEW a \in DOMAIN nodeList', NEW b \in DOMAIN nodeList',
                 nodes[nodeList'[a]].file = nodes[nodeList'[b]].file
          PROVE  a = b
      <4>1. PICK l \in DOMAIN nodeList : nodeList'[a] = nodeList[l] /\ (IF a < i THEN l = a ELSE l = a + 1) /\ l # i
        BY <3>4 DEF Removed
      <4>2. PICK t \in DOMAIN nodeList : nodeList'[b] = nodeList[t] /\ (IF b < i THEN t = b ELSE t = b + 1) /\ t # i
        BY <3>4 DEF Removed
      <4>3. l = t
        BY <1>3, <3>6, <4>1, <4>2 DEF NodeInv
      <4>4. a \in Nat /\ b \in Nat /\ i \in Nat
        BY <3>4 DEF Removed
      <4> QED BY <4>1, <4>2, <4>3, <4>4
    <3>7. Users(k) = {}
      BY <1>4, <2>4
    <3> QED BY <1>3, <1>8, <1>12, <2>1, <2>2, <3>5, <3>6, <3>7 DEF NodeInv
  <2> QED BY <2>3, <2>4
<1>15. EntryInv(p)'
  <2>1. status'[p] = "live" /\ entries'[p] = entries[p]
    BY <1>1, <1>7
  <2> QED BY <1>9, <2>1, EntryKept
<1>16. MarkInv(p)'
  BY <1>1, <1>8, <1>11, MarkKept
<1>17. FaultShare(p)' /\ UnmapShare(p)'
  BY <1>9 DEF FaultShare, UnmapShare
<1>18. \A q \in Procs, w \in Vpns : ~Unmapping(q, w) /\ ~Unmapping(q, w)'
  <2> TAKE q \in Procs, w \in Vpns
  <2>1. CASE q = p
    BY <1>6, <1>9, <2>1 DEF Unmapping
  <2>2. CASE q # p
    BY <1>10, <2>2, IdleHolds
  <2> QED BY <2>1, <2>2
<1>19. Exclusive(Holders, supply', Holds')
  <2>1. FaultHold(p)' = FaultHold(p)
    <3>1. call[p].frame = None /\ call'[p].frame = None
      BY <1>1, <1>9 DEF FaultInv, NoCall
    <3> QED BY <3>1 DEF FaultHold
  <2>2. \A w \in Vpns : PageHold(p, w)' = PageHold(p, w)
    BY <1>8, <1>11, <1>18 DEF PageHold, Lent
  <2>3. \A q \in Procs : FaultHold(q)' = FaultHold(q)
    BY <1>10, <2>1, IdleHolds
  <2>4. \A q \in Procs, w \in Vpns : PageHold(q, w)' = PageHold(q, w)
    BY <1>10, <2>2, IdleHolds
  <2>5. \A m \in NodeIds : NodeHold(m)' = NodeHold(m)
    <3>1. \A m : InUse(m)' <=> InUse(m)
      <4>1. Touches \subseteq Vpns
        BY Constants
      <4> QED BY <1>12, <1>18, <4>1 DEF InUse
    <3> QED BY <1>8, <3>1 DEF NodeHold
  <2> QED BY <1>8, <2>3, <2>4, <2>5, HoldsKept
<1>20. ShareOf(p)'
  BY <1>15, <1>16, <1>17 DEF ShareOf
<1> QED BY <1>10, <1>13, <1>14, <1>19, <1>20, ShareAssemble

-----------------------------------------------------------------------------
(* In the first state no file is mapped.                                   *)
LEMMA InitShareInv == ASSUME Disciplined PROVE Init => ShareInv
<1> SUFFICES ASSUME Init PROVE ShareInv
  OBVIOUS
<1>1. /\ entries = [p \in Procs |-> << >>] /\ nodes = << >> /\ nodeList = << >>
      /\ pc = [p \in Procs |-> IF p = First THEN "clear" ELSE "user"]
  BY DEF Init
<1>2. \A p \in Procs : /\ entries[p] = << >> /\ pc[p] \in {"clear", "user"}
                       /\ pc[p] # "user" => p = First
  BY <1>1
<1>3. \A p \in Procs : MarksOf(entries[p]) = {} /\ Marks(p) = {} /\ Pending(p) = {}
  BY <1>2 DEF Marks, MarksOf, Pending
<1>4. \A k : Users(k) = {}
  BY <1>3 DEF Users
<1>5. DOMAIN nodes = {} /\ DOMAIN nodeList = {} /\ Range(nodeList) = {}
  BY <1>1 DEF Range
<1>6. ASSUME NEW p \in Procs PROVE EntryInv(p)
  <2>1. Len(entries[p]) = 0 /\ DOMAIN entries[p] = {}
    BY <1>2
  <2>2. 0 <= MaxEntries /\ 0 + 2 <= MaxEntries
    BY DEF Disciplined
  <2> QED BY <1>2, <2>1, <2>2 DEF EntryInv, NoFiles, GoodEntries
<1>7. \A p \in Procs : MarkInv(p) /\ FaultShare(p) /\ UnmapShare(p)
  BY <1>2, <1>3 DEF MarkInv, FaultShare, UnmapShare
<1>8. Alone
  BY <1>2 DEF Alone
<1>9. NodeInv
  BY <1>5 DEF NodeInv
<1>10. Exclusive(Holders, supply, Holds)
  <2>1. Exclusive(Slots, supply, Refs)
    BY InitOwnInv DEF OwnInv
  <2>2. \A s \in Slots : ~Lends(s)
    BY <1>2, <1>3 DEF Lends, Lent, FaultLent, Unmapping, Slots
  <2>3. \A s \in Slots : s \in Holders /\ Holds[s] = Refs[s]
    BY <2>2, HoldsAre
  <2>4. \A k \in NodeIds : Holds[NodeSlot(k)] = None
    BY <1>5, HoldsAre DEF NodeHold
  <2>5. \A s \in Holders : s \in Slots \/ Holds[s] = None
    BY <2>4, HoldsAre
  <2>6. \A i \in DOMAIN supply : supply[i] # None
    <3>1. supply \in Seq(Frames) /\ None \notin Frames
      BY InitSpaceInv, Constants DEF SpaceInv, TypeOK
    <3> QED BY <3>1, SeqIs
  <2> QED BY <2>1, <2>3, <2>5, <2>6 DEF Exclusive
<1> QED BY <1>6, <1>7, <1>8, <1>9, <1>10 DEF ShareInv

(* ... and it stays so.                                                    *)
LEMMA StepShare ==
  ASSUME Disciplined, SpaceInv, SpaceInv', ShareInv, NEW p \in Procs, Step(p)
  PROVE  ShareInv'
<1>1. \/ \E r \in Requests : Mmap(p, r)
      \/ FaultFatal(p) \/ (\E v \in Touches : FaultMiss(p, v) \/ FaultHit(p, v))
      \/ FaultAlloc(p) \/ LinkNode(p) \/ ReadFile(p) \/ MapTable(p) \/ MapPage(p)
      \/ (\E i \in DOMAIN entries[p] : Munmap(p, i)) \/ Unmap(p) \/ Unlink(p)
      \/ Fork(p) \/ ForkPd(p) \/ ForkCopy(p) \/ ForkEnd(p)
      \/ Exec(p) \/ ExecClear(p) \/ ExecLoad(p)
      \/ Exit(p) \/ Kill(p) \/ DeletePd(p) \/ OutOfFrames(p)
  BY Zenon DEF Step
<1>2. ~Kill(p)
  BY DEF Kill, Disciplined
<1>3. CASE \/ \E r \in Requests : Mmap(p, r)
           \/ FaultFatal(p) \/ (\E v \in Touches : FaultMiss(p, v) \/ FaultHit(p, v))
  BY <1>3, MmapShare, FaultFatalShare, FaultMissShare, FaultHitShare
<1>4. CASE FaultAlloc(p) \/ LinkNode(p) \/ ReadFile(p) \/ MapTable(p) \/ MapPage(p)
  BY <1>4, FaultAllocShare, LinkNodeShare, ReadFileShare, MapTableShare, MapPageShare
<1>5. CASE (\E i \in DOMAIN entries[p] : Munmap(p, i)) \/ Unmap(p) \/ Unlink(p)
  BY <1>5, MunmapShare, UnmapShareKept, UnlinkShare
<1>6. CASE Fork(p) \/ ForkPd(p) \/ ForkCopy(p) \/ ForkEnd(p)
  BY <1>6, ForkShare, ForkPdShare, ForkCopyShare, ForkEndShare
<1>7. CASE Exec(p) \/ ExecClear(p) \/ ExecLoad(p) \/ Exit(p)
  BY <1>7, ExecShare, ExecClearShare, ExecLoadShare, ExitShare
<1>8. CASE DeletePd(p) \/ OutOfFrames(p)
  BY <1>8, DeletePdShare, OutOfFramesShare
<1> QED BY <1>1, <1>2, <1>3, <1>4, <1>5, <1>6, <1>7, <1>8

LEMMA NextShareInv ==
  ASSUME Disciplined PROVE SpaceInv /\ ShareInv /\ [Next]_vars => SpaceInv' /\ ShareInv'
<1> SUFFICES ASSUME SpaceInv, ShareInv, [Next]_vars PROVE SpaceInv' /\ ShareInv'
  OBVIOUS
<1>1. SpaceInv'
  BY NextSpaceInv
<1>2. CASE Next
  BY <1>1, <1>2, StepShare DEF Next
<1>3. CASE UNCHANGED vars
  <2>1. /\ supply' = supply /\ status' = status /\ pc' = pc /\ spaceVars' = spaceVars
        /\ entries' = entries /\ call' = call /\ nodeVars' = nodeVars
    BY <1>3 DEF vars
  <2>2. pd' = pd /\ table' = table /\ page' = page /\ nodes' = nodes /\ nodeList' = nodeList /\ freed' = freed
    BY <2>1 DEF spaceVars, nodeVars
  <2> QED BY <1>1, <2>1, <2>2, SameShare
<1> QED BY <1>1, <1>2, <1>3

LEMMA SpecShareInv == ASSUME Disciplined PROVE Spec => [](SpaceInv /\ ShareInv)
BY InitSpaceInv, InitShareInv, NextShareInv, PTL DEF Spec

-----------------------------------------------------------------------------
(* What a page shows is not free: it holds its frame, or a node does.      *)
LEMMA MarkedUsed ==
  ASSUME SpaceInv, ShareInv, NEW p \in Procs, NEW v \in Vpns, page[p][v] # None,
         NEW m \in NodeIds, <<v, m>> \in Marks(p)
  PROVE  m \in DOMAIN nodes /\ InUse(m) /\ page[p][v] = nodes[m].pa
<1>1. MarkInv(p)
  BY DEF ShareInv
<1>2. /\ m \in DOMAIN nodes
      /\ \/ page[p][v] = nodes[m].pa
         \/ pc[p] = "map" /\ call[p].va = v * FrameSize
  BY <1>1 DEF MarkInv
<1>3. ASSUME pc[p] = "map", call[p].va = v * FrameSize PROVE FALSE
  <2>1. PICK w \in Touches : call[p].va = w * FrameSize /\ page[p][w] = None
    BY <1>3 DEF SpaceInv, FaultInv, Faulting
  <2>2. w \in Vpns
    BY Constants
  <2>3. v = w
    BY <1>3, <2>1, <2>2, VpnOf
  <2> QED BY <2>1, <2>3
<1>4. v \in Touches
  BY MarksIn DEF Marks
<1>5. <<p, v>> \in Users(m)
  BY <1>4, UsersAre
<1> QED BY <1>2, <1>3, <1>5 DEF InUse

LEMMA UnmappedUsed ==
  ASSUME SpaceInv, ShareInv, NEW p \in Procs, NEW v \in Vpns, Unmapping(p, v)
  PROVE  \E k \in DOMAIN nodes : InUse(k) /\ page[p][v] = nodes[k].pa
<1>1. /\ pc[p] = "unmap" /\ call[p].va = v * FrameSize /\ call[p].end = v * FrameSize + FrameSize
      /\ UnmapShare(p)
  BY DEF Unmapping, ShareInv
<1>2. PICK k : k = call[p].node
  OBVIOUS
<1>3. /\ k \in Range(nodeList) /\ (call[p].physical <=> Users(k) = {})
      /\ \/ call[p].va = call[p].end
         \/ \E w \in Touches : Unmapping(p, w) /\ page[p][w] = nodes[k].pa
  BY <1>1, <1>2 DEF UnmapShare
<1>4. call[p].va # call[p].end
  <2>1. PICK a : a = v * FrameSize
    OBVIOUS
  <2>2. a \in Nat
    BY <2>1, VpnOf
  <2>3. a # a + FrameSize
    BY ONLY <2>2, Constants
  <2> QED BY <1>1, <2>1, <2>3
<1>5. PICK w \in Touches : Unmapping(p, w) /\ page[p][w] = nodes[k].pa
  BY <1>3, <1>4
<1>6. w \in Vpns /\ w * FrameSize = v * FrameSize
  BY <1>1, <1>5, Constants DEF Unmapping
<1>7. w = v
  BY <1>6, VpnOf
<1>8. InUse(k)
  BY <1>2, <1>3, <1>5 DEF InUse
<1>9. k \in DOMAIN nodes
  <2>1. \E i \in DOMAIN nodeList : k = nodeList[i]
    BY <1>3 DEF Range
  <2> QED BY <2>1, NodesIs
<1> QED BY <1>5, <1>7, <1>8, <1>9

LEMMA ShareNoDangling == ASSUME SpaceInv, ShareInv PROVE NoDangling
<1> SUFFICES ASSUME NEW p \in Procs, NEW v \in Vpns, NEW i \in DOMAIN supply,
                    page[p][v] = supply[i]
             PROVE  FALSE
  BY DEF NoDangling
<1>1. Exclusive(Holders, supply, Holds)
  BY DEF ShareInv
<1>2. \A s \in Holders : Holds[s] # supply[i]
  BY <1>1 DEF Exclusive
<1>3. page[p][v] # None
  <2>1. supply \in Seq(Frames) /\ None \notin Frames
    BY Constants DEF SpaceInv, TypeOK
  <2> QED BY <2>1, SeqIs
<1>4. ASSUME NEW k \in DOMAIN nodes, InUse(k), page[p][v] = nodes[k].pa PROVE FALSE
  <2>1. k \in NodeIds
    BY NodesIs
  <2>2. Holds[NodeSlot(k)] = nodes[k].pa /\ NodeSlot(k) \in Holders
    BY <1>4, <2>1, HoldsAre DEF NodeHold
  <2> QED BY <1>2, <1>4, <2>2
<1>5. CASE \E m \in NodeIds : <<v, m>> \in Marks(p)
  BY <1>3, <1>4, <1>5, MarkedUsed
<1>6. CASE Unmapping(p, v)
  BY <1>4, <1>6, UnmappedUsed
<1>7. CASE ~Lent(p, v)
  <2>1. PICK s : s = PageSlot(p, v)
    OBVIOUS
  <2>2. s \in Slots /\ s[1] = "page" /\ s[2] = p /\ s[3] = v
    BY <2>1, SlotsIn DEF PageSlot
  <2>3. ~Lends(s)
    BY <1>7, <2>2 DEF Lends
  <2>4. Refs[s] = page[p][v]
    BY <2>1, RefsAre
  <2>5. s \in Holders /\ Holds[s] = page[p][v]
    BY <2>2, <2>3, <2>4, HoldsAre
  <2> QED BY <1>2, <2>5
<1> QED BY <1>5, <1>6, <1>7 DEF Lent

(* The mappings that refer to node k are as many as the uses of k when no  *)
(* call is under way: the i-th mapping of p is the use at the page it      *)
(* starts at.                                                              *)
UseOf(x) == <<x[1], Vpn(entries[x[1]][x[2]].start)>>
UsesAt(x, k, v) ==
  /\ x = <<x[1], x[2]>> /\ x[1] \in Procs /\ x[2] \in DOMAIN entries[x[1]]
  /\ entries[x[1]][x[2]].node = k /\ entries[x[1]][x[2]].start = v * FrameSize
  /\ UseOf(x) = <<x[1], v>> /\ <<x[1], v>> \in Users(k)
LEMMA ReferenceUse ==
  ASSUME SpaceInv, ShareInv, NEW k \in NodeIds, NEW x \in References(k)
  PROVE  \E v \in Touches : UsesAt(x, k, v)
<1>1. /\ x = <<x[1], x[2]>> /\ x[1] \in Procs /\ x[2] \in DOMAIN entries[x[1]]
      /\ entries[x[1]][x[2]].node = k
  BY DEF References
<1>2. PICK p, i : p = x[1] /\ i = x[2]
  OBVIOUS
<1>3. p \in Procs /\ i \in DOMAIN entries[p] /\ entries[p][i].node = k /\ k # None
  BY <1>1, <1>2, Constants
<1>4. GoodEntry(entries[p][i])
  BY <1>3 DEF ShareInv, EntryInv, GoodEntries
<1>5. PICK v \in Touches : entries[p][i].start = v * FrameSize
  BY <1>3, <1>4 DEF GoodEntry
<1>6. Vpn(v * FrameSize) = v
  BY Constants, VpnOf
<1>7. <<v, k>> \in Marks(p)
  BY <1>3, <1>5 DEF Marks, MarksOf
<1>8. <<p, v>> \in Users(k)
  BY <1>3, <1>7, UsersAre
<1> QED BY <1>1, <1>2, <1>5, <1>6, <1>8 DEF UseOf, UsesAt

LEMMA UseReference ==
  ASSUME Disciplined, SpaceInv, ShareInv, NEW k \in NodeIds, NEW y \in Users(k),
         \A p \in Procs : pc[p] = "user"
  PROVE  \E x \in References(k) : UseOf(x) = y
<1>1. PICK p \in Procs, v \in Touches : y = <<p, v>>
  BY UsersIn
<1>2. <<v, k>> \in Marks(p)
  <2>1. Pending(p) = {}
    BY DEF Pending
  <2> QED BY <1>1, <2>1, UsersAre
<1>3. PICK i \in DOMAIN entries[p] : entries[p][i].start = v * FrameSize /\ entries[p][i].node = k
  BY <1>2 DEF Marks, MarksOf
<1>4. i \in 1..MaxEntries
  <2>1. Len(entries[p]) <= MaxEntries /\ entries[p] \in Seq(Entry)
    BY DEF ShareInv, EntryInv, SpaceInv, TypeOK
  <2>2. i \in 1..Len(entries[p]) /\ Len(entries[p]) \in Nat /\ MaxEntries \in Nat
    BY <2>1, SeqIs DEF Disciplined
  <2> QED BY <2>1, <2>2
<1>5. <<p, i>> \in References(k)
  BY <1>3, <1>4 DEF References
<1>6. Vpn(v * FrameSize) = v
  BY Constants, VpnOf
<1>7. UseOf(<<p, i>>) = y
  BY <1>1, <1>3, <1>6 DEF UseOf
<1> QED BY <1>5, <1>7

LEMMA ShareCountExact == ASSUME Disciplined, SpaceInv, ShareInv PROVE CountExact
<1> SUFFICES ASSUME \A p \in Procs : pc[p] = "user", NEW k \in Range(nodeList)
             PROVE  nodes[k].num = Cardinality(References(k)) /\ nodes[k].num > 0
  BY DEF CountExact
<1>1. k \in DOMAIN nodes /\ k \in NodeIds
  <2>1. \E i \in DOMAIN nodeList : k = nodeList[i]
    BY DEF Range
  <2> QED BY <2>1, NodesIs
<1>2. nodes[k].num = Cardinality(Users(k)) /\ (Users(k) # {} \/ Freeing(k))
  BY <1>1 DEF ShareInv, NodeInv
<1>3. Users(k) # {}
  BY <1>2 DEF Freeing
<1>4. IsFiniteSet(Users(k)) /\ Cardinality(Users(k)) \in Nat /\ Cardinality(Users(k)) # 0
  BY <1>3, UsersIn, UsesCounted
<1>5. PICK S, T : S = References(k) /\ T = Users(k)
  OBVIOUS
<1>6. PICK g : g = [x \in S |-> UseOf(x)]
  OBVIOUS
<1>7. \A x \in S : g[x] = UseOf(x) /\ g[x] \in T
  <2>1. \A x \in References(k) : \E v \in Touches : UsesAt(x, k, v)
    BY <1>1, ReferenceUse
  <2>2. \A x \in S : UseOf(x) \in T
    BY <1>5, <2>1 DEF UsesAt
  <2> QED BY <1>6, <2>2
<1>8. g \in [S -> T]
  BY <1>6, <1>7
<1>9. ASSUME NEW x \in S, NEW y \in S, g[x] = g[y] PROVE x = y
  <2>0. x \in References(k) /\ y \in References(k)
    BY <1>5
  <2>1. PICK v \in Touches : UsesAt(x, k, v)
    BY ONLY <2>0, <1>1, SpaceInv, ShareInv, ReferenceUse
  <2>2. PICK w \in Touches : UsesAt(y, k, w)
    BY ONLY <2>0, <1>1, SpaceInv, ShareInv, ReferenceUse
  <2>3. x[1] = y[1] /\ v = w
    BY <1>7, <1>9, <2>1, <2>2 DEF UsesAt
  <2>4. GoodEntries(entries[x[1]]) /\ k \in NodeIds
    BY <1>1, <2>1, Constants DEF ShareInv, EntryInv, UsesAt
  <2>5. x[2] = y[2]
    BY <2>1, <2>2, <2>3, <2>4 DEF GoodEntries, UsesAt
  <2> QED BY <2>1, <2>2, <2>3, <2>5 DEF UsesAt
<1>10. \A y \in T : \E x \in S : g[x] = y
  BY <1>1, <1>5, <1>7, UseReference
<1>11. PICK h : h = [y \in T |-> CHOOSE x \in S : g[x] = y]
  OBVIOUS
<1>12. \A y \in T : h[y] \in S /\ g[h[y]] = y
  BY <1>10, <1>11
<1>13. h \in Bijection(T, S)
  <2>1. h \in [T -> S]
    BY <1>11, <1>12
  <2>2. \A y, z \in T : h[y] = h[z] => y = z
    BY <1>12
  <2>3. \A x \in S : \E y \in T : h[y] = x
    BY <1>7, <1>9, <1>12
  <2> QED BY <2>1, <2>2, <2>3 DEF Bijection, Injection, Surjection, IsInjective
<1>14. Cardinality(S) = Cardinality(T)
  BY <1>4, <1>5, <1>13, FS_Bijection DEF ExistsBijection
<1> QED BY <1>2, <1>4, <1>5, <1>14

(* What a live process has mapped is not in the free list, though munmap   *)
(* frees the frame of a shared file and other processes may show it: the   *)
(* frame belongs to the node, and the node is used as long as a page shows *)
(* it (vmm.cc:182, "Only deallocate from physical memory if this is the    *)
(* last process mapped to the file").  New mappings may have the pointer   *)
(* of a freed one as their node; Disciplined has that nobody forks or      *)
(* exits with it, without which the theorem is false: TLC has an example.  *)
THEOREM SharedNoDangling == ASSUME Disciplined PROVE Spec => []NoDangling
<1>1. SpaceInv /\ ShareInv => NoDangling
  BY ShareNoDangling
<1> QED BY <1>1, SpecShareInv, PTL

(* num_processes of every node in node_list is the number of mappings that *)
(* refer to the node, and not 0: the fault that makes a node, those that   *)
(* find it and munmap, which decides by it whether to free, agree, under   *)
(* the same conditions.                                                    *)
THEOREM SharedCountExact == ASSUME Disciplined PROVE Spec => []CountExact
<1>1. Disciplined /\ SpaceInv /\ ShareInv => CountExact
  BY ShareCountExact
<1> QED BY <1>1, SpecShareInv, PTL

=============================================================================
