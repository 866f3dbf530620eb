----------------------------- MODULE MCQcciTxn -----------------------------
(* Instances of QcciTxn for TLC. *)
EXTENDS QcciTxn, TLC

\* Callers of the same kind are interchangeable.
Symmetry == Permutations(SyncTxn) \cup Permutations(AsyncTxn)
=============================================================================
