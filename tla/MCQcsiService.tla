--------------------------- MODULE MCQcsiService ---------------------------
(* QcsiService for TLC: clients and memory are interchangeable where no    *)
(* port is remote and no liveness is checked.                              *)
EXTENDS QcsiService, TLC

Symmetry == Permutations(Port) \cup Permutations(Slot)
=============================================================================
