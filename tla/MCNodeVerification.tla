------------------------- MODULE MCNodeVerification -------------------------
(* NodeVerification for TLC.                                               *)
EXTENDS NodeVerification, TLC
=============================================================================
