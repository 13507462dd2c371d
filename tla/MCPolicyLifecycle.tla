-------------------------- MODULE MCPolicyLifecycle --------------------------
(* Instances of PolicyLifecycle for TLC.                                   *)
EXTENDS PolicyLifecycle, TLC

Symmetry == Permutations(Requests)
=============================================================================
