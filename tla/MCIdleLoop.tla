---------------------------- MODULE MCIdleLoop ----------------------------
(* Instances of IdleLoop for TLC; the constants are given in the .cfg files. *)
EXTENDS IdleLoop, TLC

\* The workers are interchangeable (used only where no liveness is checked).
Symmetry == Permutations(Threads)
=============================================================================
