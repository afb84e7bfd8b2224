-------------------------------- MODULE Heap --------------------------------
(***************************************************************************)
(* The kernel heap (heap.cc).  The array of words holds the blocks one     *)
(* after another, each between a header and a footer that give its length, *)
(* negated if the block is taken; the free blocks form a doubly linked     *)
(* list in words 1 and 2 of the block.  malloc and free hold theLock from  *)
(* end to end, so each is one step on a heap h = [array, avail].           *)
(***************************************************************************)
EXTENDS Integers, FiniteSets, FiniteSetsExt

CONSTANTS
  Len,        \* words of the array
  Sizes,      \* the sizes in bytes that are asked for
  LockBytes,  \* sizeof(BlockingLock)
  Tries       \* how many fits are compared: countDown, 20 in the code

(* Sizes from 2^32 - 3 on would wrap in bytes + 3; nobody asks for them.   *)
ASSUME HeapAssumption ==
  /\ Len \in Nat /\ Len >= 8 /\ Sizes \subseteq Nat /\ LockBytes \in Nat \ {0}
  /\ Tries \in Nat \ {0}

VARIABLES
  heap,       \* [array, avail]
  held,       \* the indices that callers have got, and not yet given back
  result      \* the last call: the bytes asked for, the index found or 0

vars == <<heap, held, result>>

MaxBlocks == Len \div 4
Nothing == [bytes |-> 0, at |-> 0]
Data == 1     \* what callers write into their blocks; no tag, no index

Abs(x) == IF x < 0 THEN -x ELSE x
Size(h, i) == Abs(h.array[i])
FooterFromHeader(h, i) == i + Size(h, i) - 1
Left(h, i) == (i - 1) - Size(h, i - 1) + 1
Right(h, i) == i + Size(h, i)
NextOf(h, i) == h.array[i + 1]
PrevOf(h, i) == h.array[i + 2]
IsAvail(h, i) == h.array[i] > 0
IsTaken(h, i) == h.array[i] < 0

SetNext(h, i, x) == [h EXCEPT !.array[i + 1] = x]
SetPrev(h, i, x) == [h EXCEPT !.array[i + 2] = x]
SetTags(h, i, ints, tag) == [h EXCEPT !.array[i] = tag, !.array[i + ints - 1] = tag]

(* remove(i): take i off the free list.  Mutated form: links forward only. *)
RemoveForward(h, i) ==
  IF PrevOf(h, i) = 0 THEN [h EXCEPT !.avail = NextOf(h, i)]
                      ELSE SetNext(h, PrevOf(h, i), NextOf(h, i))

Remove(h, i) ==
  LET p == PrevOf(h, i)
      n == NextOf(h, i)
      g == IF p = 0 THEN [h EXCEPT !.avail = n] ELSE SetNext(h, p, n)
  IN IF n = 0 THEN g ELSE SetPrev(g, n, p)

MakeAvail(h, i, ints) ==
  LET g == SetPrev(SetNext(SetTags(h, i, ints, ints), i, h.avail), i, 0)
      k == IF h.avail = 0 THEN g ELSE SetPrev(g, h.avail, i)
  IN [k EXCEPT !.avail = i]

MakeTaken(h, i, ints) == SetTags(h, i, ints, -ints)

(* The free list, as the loop of malloc visits it: its k-th block, or 0.   *)
Walk(h) ==
  LET w[k \in 1..MaxBlocks] ==
        IF k = 1 THEN h.avail ELSE IF w[k - 1] = 0 THEN 0 ELSE NextOf(h, w[k - 1])
  IN [k \in 1..MaxBlocks |-> w[k]]

(* The words a request takes, with its tags.  Mutated form: one tag.       *)
IntsOneTag(bytes) == Max({(bytes + 3) \div 4 + 1, 4})
Ints(bytes) == Max({(bytes + 3) \div 4 + 2, 4})

(* The search of malloc: the smallest of the first Tries blocks of the     *)
(* list that fit, the earliest of equals; 0 if none does.                  *)
Search(h, ints) ==
  LET w == Walk(h)
      Fit(k) == w[k] # 0 /\ Size(h, w[k]) >= ints
      seen == {k \in 1..MaxBlocks : Fit(k) /\ Cardinality({j \in 1..k : Fit(j)}) <= Tries}
      best == {k \in seen : \A j \in seen : Size(h, w[k]) <= Size(h, w[j])}
  IN IF seen = {} THEN 0 ELSE w[Min(best)]

Extra(h, it, ints) == Size(h, it) - ints

(* malloc once it has found block it.                                      *)
Carve(h, it, ints) ==
  LET g == Remove(h, it)
      extra == Extra(h, it, ints)
  IN IF extra >= 4 THEN MakeAvail(MakeTaken(g, it, ints), it + ints, extra)
                   ELSE MakeTaken(g, it, Size(h, it))

(* free: the block joins the free blocks on its left and right.            *)
Release(h, idx) ==
  LET l == Left(h, idx)
      r == Right(h, idx)
      g1 == IF IsAvail(h, l) THEN Remove(h, l) ELSE h
      i1 == IF IsAvail(h, l) THEN l ELSE idx
      s1 == Size(h, idx) + (IF IsAvail(h, l) THEN Size(h, l) ELSE 0)
      g2 == IF IsAvail(g1, r) THEN Remove(g1, r) ELSE g1
      s2 == s1 + (IF IsAvail(g1, r) THEN Size(g1, r) ELSE 0)
  IN MakeAvail(g2, i1, s2)

(* The owner of block i fills it with its own data.                        *)
Fill(h, i) ==
  [h EXCEPT !.array = [w \in DOMAIN @ |->
     IF i < w /\ w < FooterFromHeader(h, i) THEN Data ELSE @[w]]]

-----------------------------------------------------------------------------
(* heapInit: two taken blocks at the ends, one free block between them,    *)
(* from which theLock is allocated.                                        *)
Empty ==
  MakeTaken(MakeAvail(MakeTaken([array |-> [w \in 0..(Len - 1) |-> Data], avail |-> 0],
                                0, 2), 2, Len - 4), Len - 2, 2)

Init ==
  LET it == Search(Empty, Ints(LockBytes)) IN
    /\ heap = Fill(Carve(Empty, it, Ints(LockBytes)), it)
    /\ held = {it}
    /\ result = Nothing

Malloc(bytes) ==
  /\ bytes # 0
  /\ LET it == Search(heap, Ints(bytes)) IN
       /\ it # 0
       /\ heap' = LET h == Carve(heap, it, Ints(bytes)) IN Fill(h, it)
       /\ held' = held \union {it}
       /\ result' = [bytes |-> bytes, at |-> it]

OutOfMemory(bytes) ==
  /\ bytes # 0 /\ Search(heap, Ints(bytes)) = 0
  /\ result' = [bytes |-> bytes, at |-> 0]
  /\ UNCHANGED <<heap, held>>

(* malloc(0) returns the address of the array, which free ignores.         *)
MallocZero ==
  /\ 0 \in Sizes
  /\ result' = Nothing
  /\ UNCHANGED <<heap, held>>

(* free of a block the caller owns; theLock is never freed.                *)
Free(i) ==
  /\ i # 2
  /\ IsTaken(heap, i)
  /\ heap' = Release(heap, i)
  /\ held' = held \ {i}
  /\ result' = Nothing

Next ==
  \/ \E bytes \in Sizes : Malloc(bytes) \/ OutOfMemory(bytes)
  \/ MallocZero
  \/ \E i \in held : Free(i)

Spec == Init /\ [][Next]_vars

-----------------------------------------------------------------------------
(* The blocks as their headers give them, from word 2 to the last block.   *)
Headers ==
  LET b[k \in 0..MaxBlocks] ==
        IF k = 0 THEN 2 ELSE IF b[k - 1] < Len - 2 THEN Right(heap, b[k - 1]) ELSE Len - 2
  IN {b[k] : k \in 0..MaxBlocks}
Blocks == Headers \ {Len - 2}

(* The blocks tile the array: every header has its footer, and a block in  *)
(* use has a caller.                                                       *)
Tiled ==
  /\ \A i \in Blocks :
       /\ 4 <= Size(heap, i) /\ Right(heap, i) <= Len - 2
       /\ heap.array[FooterFromHeader(heap, i)] = heap.array[i]
       /\ IsTaken(heap, i) <=> i \in held
  /\ heap.array[0] = -2 /\ heap.array[1] = -2
  /\ heap.array[Len - 2] = -2 /\ heap.array[Len - 1] = -2

(* The list holds every free block once and is linked both ways, through   *)
(* the splits of malloc and the joins of free at either end of the list;   *)
(* no two free blocks touch.                                               *)
FreeListSound ==
  LET w == Walk(heap)
      list == {k \in 1..MaxBlocks : w[k] # 0}
  IN /\ {w[k] : k \in list} = {i \in Blocks : IsAvail(heap, i)}
     /\ \A j, k \in list : w[j] = w[k] => j = k
     /\ \A k \in list : PrevOf(heap, w[k]) = IF k = 1 THEN 0 ELSE w[k - 1]
     /\ \A i \in Blocks : IsAvail(heap, i) /\ Right(heap, i) # Len - 2
                            => IsTaken(heap, Right(heap, i))

(* Tags and links are never written into a block in use: what its owner    *)
(* has stored there stays.                                                 *)
PayloadIntact ==
  \A i \in held : \A w \in (i + 1)..(FooterFromHeader(heap, i) - 1) : heap.array[w] = Data

(* The three together: what malloc and free rely on and keep.              *)
HeapSound == Tiled /\ FreeListSound /\ PayloadIntact

(* malloc and free as their callers see them.  The block of theLock is a   *)
(* part of the heap's own and not of the arena.                            *)
Arena ==
  INSTANCE Allocator WITH
    First <- 2 + Ints(LockBytes), Last <- Len - 2, Tags <- 2, WordSize <- 4,
    blocks <- {[at |-> i, words |-> Size(heap, i)] : i \in held \ {2}}

(* Blocks never overlap and hold what was asked for, and malloc fails only *)
(* if no gap between the blocks in use is long enough.                     *)
ImplementsAllocator == Arena!Spec

=============================================================================
