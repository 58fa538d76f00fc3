------------------------------ MODULE MCLease ------------------------------
(* Instances of Lease for TLC. *)
EXTENDS Lease, TLC

\* The holders are interchangeable.
HolderSymmetry == Permutations(Holder)
=============================================================================
