----------------------------- MODULE MCSharedPtr -----------------------------
(***************************************************************************)
(* Model checking of SharedPtr.  Blocks, objects and threads are           *)
(* interchangeable.                                                        *)
(***************************************************************************)
EXTENDS SharedPtr, TLC

Symmetry == Permutations(Fats) \union Permutations(Objects)
            \union Permutations(Threads) \union Permutations(Vars)

=============================================================================
