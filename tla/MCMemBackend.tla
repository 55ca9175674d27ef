---------------------------- MODULE MCMemBackend ----------------------------
(***************************************************************************)
(* Instances of MemBackend for TLC.                                        *)
(***************************************************************************)
EXTENDS MemBackend, TLC

Symmetry == Permutations(Refs) \cup Permutations(Readers)
=============================================================================
