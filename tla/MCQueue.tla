------------------------------ MODULE MCQueue ------------------------------
(* Instances of Queue for TLC. *)
EXTENDS Queue, TLC

\* The processes are interchangeable.
ProcessSymmetry == Permutations(Process)
=============================================================================
