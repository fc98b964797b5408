--------------------------- MODULE MCPbftCluster ----------------------------
(***************************************************************************)
(* Instances of PbftCluster for TLC: three nodes, quorum two, as            *)
(* MultiNodeBlockchainAdapter builds them.                                 *)
(***************************************************************************)
EXTENDS PbftCluster

\* Gamma cut off from Alpha and Beta, as in node_fault_tolerance.test.ts.
GammaCutOff == {<<{1, 2}, {3}>>}

NoSplits == {}

NoMutations == {}

\* The tamper route forges block hash and payload together.
RouteMutation == {{"blockHash", "payload"}}
==============================================================================
