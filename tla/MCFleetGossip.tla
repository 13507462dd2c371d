---------------------------- MODULE MCFleetGossip ----------------------------
(* Instances of FleetGossip for TLC.                                       *)
EXTENDS FleetGossip, TLC

=============================================================================
