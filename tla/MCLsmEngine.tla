----------------------------- MODULE MCLsmEngine -----------------------------
(***************************************************************************)
(* Instances of LsmEngine for TLC.                                         *)
(***************************************************************************)
EXTENDS LsmEngine, TLC

\* Values and inodes are interchangeable: no action tells two of them apart.
Symmetry == Permutations(Values) \cup Permutations(Inodes) \cup Permutations(Keys)
=============================================================================
