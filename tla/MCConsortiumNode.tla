-------------------------- MODULE MCConsortiumNode --------------------------
(***************************************************************************)
(* Instances of ConsortiumNode for TLC: the three processes of package.json *)
(***************************************************************************)
EXTENDS NetworkStatus
==============================================================================
