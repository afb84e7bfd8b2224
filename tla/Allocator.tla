------------------------------ MODULE Allocator ------------------------------
(***************************************************************************)
(* What malloc and free promise: blocks that do not overlap, at least as   *)
(* long as asked for, and a failure only when no gap is long enough.  A    *)
(* block is given with the Tags words of bookkeeping around its payload.   *)
(***************************************************************************)
EXTENDS Integers

CONSTANTS
  First, Last,   \* the words First .. Last - 1 are the arena
  Sizes,         \* the sizes in bytes that are asked for
  Tags, WordSize

VARIABLES
  blocks,        \* the blocks that are in use: [at, words]
  result         \* the last call: the bytes asked for, the block given or 0

vars == <<blocks, result>>

Inside(b, w) == b.at <= w /\ w < b.at + b.words
Unused(at, words) ==
  /\ First <= at /\ at + words <= Last
  /\ \A b \in blocks : \A w \in at..(at + words - 1) : ~Inside(b, w)

Fits(bytes, words) == words * WordSize >= bytes + Tags * WordSize

Nothing == [bytes |-> 0, at |-> 0]

Init == blocks = {} /\ result = Nothing

Malloc(bytes) ==
  \E at \in First..(Last - 1), words \in Tags..(Last - First) :
    /\ Fits(bytes, words) /\ Unused(at, words)
    /\ blocks' = blocks \union {[at |-> at, words |-> words]}
    /\ result' = [bytes |-> bytes, at |-> at]

(* There is no room for the smallest block that holds bytes; MinWords is   *)
(* the smallest block there is.                                            *)
Fail(bytes, MinWords) ==
  /\ \A at \in First..(Last - 1), words \in MinWords..(Last - First) :
       Fits(bytes, words) => ~Unused(at, words)
  /\ result' = [bytes |-> bytes, at |-> 0]
  /\ UNCHANGED blocks

Free(b) ==
  /\ blocks' = blocks \ {b}
  /\ result' = Nothing

Next ==
  \/ \E bytes \in Sizes \ {0} : Malloc(bytes) \/ Fail(bytes, Tags + 2)
  \/ \E b \in blocks : Free(b)
  \/ result' = Nothing /\ UNCHANGED blocks   \* malloc(0)

Spec == Init /\ [][Next]_vars

=============================================================================
