------------------------- MODULE MCEditTransaction -------------------------
(* Instances of the edit transaction for TLC.                              *)
EXTENDS EditTransaction, TLC

\* Paths and contents are interchangeable.
Symmetry == Permutations(Names) \cup Permutations(Contents)
=============================================================================
