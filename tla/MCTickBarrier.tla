--------------------------- MODULE MCTickBarrier ---------------------------
(* Finite instances of TickBarrier and of its refinement *)
EXTENDS TickRefinement, TLC

ProcSymmetry == Permutations(Procs)
=============================================================================
