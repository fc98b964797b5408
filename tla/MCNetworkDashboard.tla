-------------------------- MODULE MCNetworkDashboard --------------------------
(***************************************************************************)
(* Instances of NetworkDashboard for TLC; all constants come from the .cfg  *)
(* file.                                                                   *)
(***************************************************************************)
EXTENDS NetworkDashboard
===============================================================================
