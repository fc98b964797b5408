---------------------------- MODULE NetworkStatus ----------------------------
(***************************************************************************)
(* What the server says of the consortium of module ConsortiumNode          *)
(* (network.routes.ts): it asks every node and makes an aggregate of what    *)
(* it found, which tells whether there is a quorum, whether the nodes stand  *)
(* on one block, and which one it is.                                       *)
(*                                                                         *)
(* The operators take the answers of the nodes as they came, be they of one  *)
(* moment or of several; module NetworkDashboard adds the requests and the   *)
(* page that shows the aggregate.                                           *)
(***************************************************************************)
EXTENDS ConsortiumNode

Alpha == 1

Offline == [online |-> FALSE]

\* The status handler of a node, and what checkNodeStatus makes of it: a node
\* that is not ONLINE counts as one that does not answer.
NodeInfo(n) ==
    IF status[n] = "ONLINE"
    THEN [online |-> TRUE, height |-> height[n], hash |-> rows[n][height[n]].hash]
    ELSE Offline

OnlineNodes(infos) == {n \in Nodes : infos[n].online}

\* Mutant: the last hashes are not compared.
ConvergedHeights(infos) ==
    /\ OnlineNodes(infos) # {}
    /\ \A n, m \in OnlineNodes(infos) : infos[n].height = infos[m].height

\* All nodes that are ONLINE stand on one block; one node does.
Converged(infos) ==
    /\ OnlineNodes(infos) # {}
    /\ \A n, m \in OnlineNodes(infos) : infos[n] = infos[m]

HasQuorum(infos) == Cardinality(OnlineNodes(infos)) >= Quorum

Consensus(infos) ==
    IF ~HasQuorum(infos) THEN "NO_QUORUM"
    ELSE IF Converged(infos) THEN "READY" ELSE "SYNCING"

\* The node whose hash is shown: the proposer if it is ONLINE, else the first.
ShownNode(infos) ==
    LET online == OnlineNodes(infos)
    IN  IF Alpha \in online THEN Alpha ELSE CHOOSE n \in online : \A m \in online : n <= m

LatestHeight(infos) ==
    LET heights == {infos[n].height : n \in OnlineNodes(infos)}
    IN  CHOOSE h \in heights : \A k \in heights : k <= h

\* buildNetworkAggregate
Aggregate(infos) ==
    LET online == OnlineNodes(infos)
    IN  [status |-> IF online = Nodes THEN "HEALTHY"
                    ELSE IF HasQuorum(infos) THEN "DEGRADED" ELSE "QUORUM_LOST",
         consensus |-> Consensus(infos),
         online |-> online,
         height |-> IF online = {} THEN -1 ELSE LatestHeight(infos),
         hash |-> IF online = {} THEN -1 ELSE infos[ShownNode(infos)].hash]

\* The aggregate of the nodes as they are.
Current == Aggregate([n \in Nodes |-> NodeInfo(n)])

------------------------------------------------------------------------------
(* Properties *)

\* network.routes.ts buildNetworkAggregate: READY means ready.  When the nodes are what
\* an aggregate calls READY, each of those ONLINE would vote for the next block of any
\* other of them, whatever rounds overlap and whatever was lost, tampered with, copied or
\* restarted before.
ReadyNodesEndorse ==
    Current.consensus = "READY" =>
        \A l, p \in Current.online :
            AcceptsCandidate(status[p], height[p], rows[p],
                             height[l] + 1, rows[l][height[l]].hash)
==============================================================================
