--------------------------- MODULE MCFabricLedger ---------------------------
(***************************************************************************)
(* Instances of FabricLedger for TLC.                                      *)
(***************************************************************************)
EXTENDS FabricLedger
==============================================================================
