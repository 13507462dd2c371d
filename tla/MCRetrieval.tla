----------------------------- MODULE MCRetrieval -----------------------------
(* Instances of Retrieval for TLC.                                         *)
EXTENDS Retrieval, TLC

Symmetry == Permutations(Ursulas) \cup Permutations(Capsules)
=============================================================================
