------------------------------ MODULE MCLearner ------------------------------
(* Instances of Learner for TLC.                                           *)
EXTENDS Learner, TLC

Symmetry == Permutations(Peers)

ThreadSymmetry == Permutations(Threads)
=============================================================================
