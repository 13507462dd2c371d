--------------------------- MODULE MCOperatorWork ---------------------------
(* OperatorWork for TLC.                                                   *)
EXTENDS OperatorWork
=============================================================================
