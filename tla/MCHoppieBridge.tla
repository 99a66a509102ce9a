---------------------------- MODULE MCHoppieBridge -----------------------------
(* HoppieBridge on small instances. *)
EXTENDS HoppieBridgeProperties, TLC

CONSTANTS AFR, LFPG
=============================================================================
