--------------------------- MODULE MCTickHistory ---------------------------
(* Finite instances of the tick barrier with its history *)
EXTENDS TickHistory, TLC

ProcSymmetry == Permutations(Procs)
=============================================================================
