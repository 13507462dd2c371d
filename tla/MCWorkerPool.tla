---------------------------- MODULE MCWorkerPool ----------------------------
(* An instance of WorkerPool for TLC.                                      *)
EXTENDS WorkerPool, TLC

Symmetry == Permutations(Values) \cup Permutations(Threads) \cup Permutations(Clients)
=============================================================================
