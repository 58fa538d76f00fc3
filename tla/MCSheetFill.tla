---------------------------- MODULE MCSheetFill ----------------------------
(* SheetFill on small sheets. *)
EXTENDS SheetFill, TLC

AddedSymmetry == Permutations(Added)
=============================================================================
