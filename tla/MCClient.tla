------------------------------ MODULE MCClient ------------------------------
(* An instance of Client for TLC: two runs, of which one makes calls. *)
EXTENDS Client
=============================================================================
