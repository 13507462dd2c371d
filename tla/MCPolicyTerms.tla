---------------------------- MODULE MCPolicyTerms ----------------------------
(* PolicyTerms for TLC.                                                    *)
EXTENDS PolicyTerms, TLC
=============================================================================
