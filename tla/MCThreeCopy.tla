---------------------------- MODULE MCThreeCopy ----------------------------
(* Instances of ThreeCopy for TLC. *)
EXTENDS ThreeCopy, TLC

\* Runs are interchangeable, and so are editions.
Symmetry == Permutations(Run) \cup Permutations(Edition)
=============================================================================
