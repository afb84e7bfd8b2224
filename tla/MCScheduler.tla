----------------------------- MODULE MCScheduler -----------------------------
(***************************************************************************)
(* Model checking of Scheduler.  The .cfg files give the constants their   *)
(* values.  The cores are interchangeable (no definition orders them), so  *)
(* permuting them is a symmetry of the safety runs.                        *)
(***************************************************************************)
EXTENDS Scheduler, TLC

CoreSymmetry == Permutations(Cores)

=============================================================================
