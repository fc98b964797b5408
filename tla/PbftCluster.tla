---------------------------- MODULE PbftCluster -----------------------------
(***************************************************************************)
(* The in-process consortium: PbftConsensusEngine (consensus.service.ts),   *)
(* PeerNetwork (network.ts) and the cluster operations of                  *)
(* MultiNodeBlockchainAdapter (multi-node-blockchain.adapter.ts), over the  *)
(* node storage of module LedgerNode.                                      *)
(*                                                                         *)
(* JavaScript runs a turn to completion, so the unit of atomicity is the   *)
(* code between two awaits.  executeConsensus has one await that matters:   *)
(* it proposes, collects the votes and commits on the leader in one turn,  *)
(* and broadcastCommit delivers to the peers in a later turn, after the     *)
(* simulated latency.  Whatever the operators, the faults or another round *)
(* do can fall between the two; setLatency lets deliveries overtake.       *)
(*                                                                         *)
(* Nodes are numbered in registration order: Alpha is 1.                   *)
(***************************************************************************)
EXTENDS LedgerNode, Sequences

CONSTANTS
    N,               \* number of nodes
    Quorum,          \* quorumThreshold of the engine
    Eligible,        \* the nodes setLeader is called with
    Kinds,           \* the transaction types clients submit
    Objects,         \* trust objects
    MaxBlocks,       \* bound: rounds that reach quorum
    Mutations,       \* what calls of the tamper route change, sets of field names
    Tamperable,      \* the nodes the tamper route is called on
    Splits,          \* the partitions imposed, pairs of disjoint groups
    Isolable,        \* the nodes that get isolated
    Restartable      \* whether the process restarts

Nodes == 1..N
Alpha == 1

TxKinds == {"REGISTER_PROOF", "REVOKE_PROOF", "RECORD_PROVENANCE", "SECURITY_ALERT"}
\* What POST /api/nodes/:nodeId/tamper lets its caller change in a stored block.
RouteFields == {"blockHash", "payload"}

ASSUME ClusterAssumption ==
    /\ N \in Nat \ {0}
    /\ Quorum \in Nat
    /\ Alpha \in Eligible /\ Eligible \subseteq Nodes
    /\ Kinds \subseteq TxKinds
    /\ MaxBlocks \in Nat
    /\ Mutations \subseteq SUBSET RouteFields
    /\ Tamperable \subseteq Nodes
    /\ Splits \subseteq (SUBSET Nodes) \X (SUBSET Nodes)
    /\ Isolable \subseteq Nodes
    /\ Restartable \in BOOLEAN

VARIABLES
    status,      \* node -> NodeStatus, in memory
    height,      \* node -> currentHeight, in memory
    rows,        \* node -> local_blocks
    txs,         \* node -> local_transactions
    leader,      \* leaderNodeId of the engine
    isolated,    \* isolatedNodes of the network
    partitions,  \* <<>> or <<groupA, groupB>>
    inFlight,    \* certified blocks whose broadcastCommit waits for its timer
    log          \* the blocks certified so far, the preimages of their hashes

storage == <<rows, txs>>
links == <<isolated, partitions>>
vars == <<status, height, rows, txs, leader, isolated, partitions, inFlight, log>>

Header == [height : Nat, prev : Digest, kind : TxKinds, object : Objects,
           by : Nodes]

TypeOK ==
    /\ status \in [Nodes -> NodeStatus \ {"SYNCING"}]
    /\ height \in [Nodes -> Nat]
    /\ DOMAIN rows = Nodes
    /\ \A n \in Nodes : /\ DOMAIN rows[n] \subseteq Nat
                        /\ rows[n] \in [DOMAIN rows[n] -> Row]
    /\ DOMAIN txs = Nodes
    /\ \A n \in Nodes : /\ DOMAIN txs[n] \subseteq DOMAIN log
                        /\ txs[n] \in [DOMAIN txs[n] -> Tx]
    /\ leader \in Nodes
    /\ isolated \subseteq Nodes
    /\ partitions \in {<<>>} \cup Splits
    /\ inFlight \subseteq DOMAIN log
    /\ log \in Seq(Header)

------------------------------------------------------------------------------
(* The network *)

Separated(m, n) ==
    /\ partitions # <<>>
    /\ \/ m \in partitions[1] /\ n \in partitions[2] \ partitions[1]
       \/ n \in partitions[1] /\ m \in partitions[2] \ partitions[1]

\* canCommunicate: only OFFLINE silences a node, CORRUPTED does not.
CanCommunicate(m, n) ==
    /\ {m, n} \cap isolated = {}
    /\ status[m] # "OFFLINE" /\ status[n] # "OFFLINE"
    /\ ~Separated(m, n)

------------------------------------------------------------------------------
(* A consensus round *)

CertifiedRow(b) == [hash |-> b, prev |-> log[b].prev, root |-> b]

\* getProof on Alpha: the object's highest transaction, if its block is there.
Anchored(object) ==
    LET ofObject == {b \in DOMAIN txs[Alpha] : log[b].object = object}
    IN  \E b \in ofObject :
            /\ \A c \in ofObject : txs[Alpha][c].height <= txs[Alpha][b].height
            /\ txs[Alpha][b].height \in DOMAIN rows[Alpha]

CanPropose == status[leader] = "ONLINE" /\ height[leader] \in DOMAIN rows[leader]

\* Mutant: the leader's own signature is not added to the certificate.
EndorsersWithoutLeader ==
    {p \in Nodes \ {leader} :
        /\ CanCommunicate(leader, p)
        /\ AcceptsCandidate(status[p], height[p], rows[p],
                            height[leader] + 1, rows[leader][height[leader]].hash)}

\* The votes the leader gathers for the block it would propose now: its own,
\* and one from each reachable peer that accepts the candidate.
Endorsers ==
    {leader} \cup
    {p \in Nodes \ {leader} :
        /\ CanCommunicate(leader, p)
        /\ AcceptsCandidate(status[p], height[p], rows[p],
                            height[leader] + 1, rows[leader][height[leader]].hash)}

\* executeConsensus up to its await, as registerProof, revokeProof,
\* addProvenanceEvent and recordSecurityEvent call it: propose, collect votes,
\* certify, commit on the leader.  A round that fails changes nothing.
ExecuteConsensus(kind, object) ==
    LET b == Len(log) + 1
        h == height[leader] + 1
        parent == rows[leader][height[leader]].hash
    IN  /\ Len(log) < MaxBlocks
        /\ kind = "REVOKE_PROOF" => Anchored(object)
        /\ CanPropose
        /\ Cardinality(Endorsers) >= Quorum
        /\ log' = Append(log, [height |-> h, prev |-> parent, kind |-> kind,
                               object |-> object, by |-> leader])
        /\ rows' = [rows EXCEPT ![leader] =
                        CommitRows(@, h, [hash |-> b, prev |-> parent, root |-> b])]
        /\ txs' = [txs EXCEPT ![leader] = CommitTxs(@, b, h)]
        /\ height' = [height EXCEPT ![leader] = h]
        /\ inFlight' = inFlight \cup {b}
        /\ UNCHANGED <<status, leader, links>>

\* Mutant: the broadcast goes only to the peers that are one block behind.
ReceiversAtNextHeight(b) ==
    {p \in Nodes \ {log[b].by} : /\ CanCommunicate(log[b].by, p) /\ status[p] = "ONLINE"
                                 /\ height[p] + 1 = log[b].height}

\* broadcastCommit after its await: every peer the proposer reaches now, and
\* that is ONLINE now, commits the block, whatever its own chain looks like.
Receivers(b) ==
    {p \in Nodes \ {log[b].by} : CanCommunicate(log[b].by, p) /\ status[p] = "ONLINE"}

\* Mutant: a peer stores the block on top of its own chain.
BroadcastCommitOnTop(b) ==
    LET to == Receivers(b)
    IN  /\ b \in inFlight
        /\ inFlight' = inFlight \ {b}
        /\ rows' = [n \in Nodes |->
                        IF n \in to THEN CommitRows(rows[n], height[n] + 1, CertifiedRow(b))
                        ELSE rows[n]]
        /\ txs' = [n \in Nodes |->
                        IF n \in to THEN CommitTxs(txs[n], b, height[n] + 1) ELSE txs[n]]
        /\ height' = [n \in Nodes |-> IF n \in to THEN height[n] + 1 ELSE height[n]]
        /\ UNCHANGED <<status, leader, links, log>>

BroadcastCommit(b) ==
    LET to == Receivers(b)
        h == log[b].height
    IN  /\ b \in inFlight
        /\ inFlight' = inFlight \ {b}
        /\ rows' = [n \in Nodes |->
                        IF n \in to THEN CommitRows(rows[n], h, CertifiedRow(b)) ELSE rows[n]]
        /\ txs' = [n \in Nodes |->
                        IF n \in to THEN CommitTxs(txs[n], b, h) ELSE txs[n]]
        /\ height' = [n \in Nodes |-> IF n \in to THEN h ELSE height[n]]
        /\ UNCHANGED <<status, leader, links, log>>

------------------------------------------------------------------------------
(* Cluster operations *)

\* Mutant: the node takes over the height its peer reports.
ReconcileToPeerHeight(n, peer) ==
    LET rs == OverwriteRows(rows[n], rows[peer])
        ts == OverwriteTxs(txs[n], rows[peer], txs[peer])
    IN  /\ rows' = [rows EXCEPT ![n] = rs]
        /\ txs' = [txs EXCEPT ![n] = ts]
        /\ height' = [height EXCEPT ![n] = height[peer]]
        /\ status' = [status EXCEPT ![n] =
                        IF Intact(log, rs, ts) THEN "ONLINE" ELSE "CORRUPTED"]

\* Mutant: the node comes back without checking what it received.
ReconcileUnchecked(n, peer) ==
    LET rs == OverwriteRows(rows[n], rows[peer])
        ts == OverwriteTxs(txs[n], rows[peer], txs[peer])
    IN  /\ rows' = [rows EXCEPT ![n] = rs]
        /\ txs' = [txs EXCEPT ![n] = ts]
        /\ height' = [height EXCEPT ![n] = TopHeight(rs)]
        /\ status' = [status EXCEPT ![n] = "ONLINE"]

\* reconcileChain(peer.getAllBlocks()): overwrite, take the highest row as the
\* current height, and only then check the chain.
Reconcile(n, peer) ==
    LET rs == OverwriteRows(rows[n], rows[peer])
        ts == OverwriteTxs(txs[n], rows[peer], txs[peer])
    IN  /\ rows' = [rows EXCEPT ![n] = rs]
        /\ txs' = [txs EXCEPT ![n] = ts]
        /\ height' = [height EXCEPT ![n] = TopHeight(rs)]
        /\ status' = [status EXCEPT ![n] =
                        IF Intact(log, rs, ts) THEN "ONLINE" ELSE "CORRUPTED"]

OnlinePeers(n) == {p \in Nodes \ {n} : status[p] = "ONLINE"}

\* The ONLINE peer of greatest height, the first registered among equals.
IsSyncSource(p, n) ==
    /\ p \in OnlinePeers(n)
    /\ \A q \in OnlinePeers(n) :
          height[q] < height[p] \/ (height[q] = height[p] /\ p <= q)

SyncNode(n) ==
    /\ \E p \in Nodes : IsSyncSource(p, n) /\ Reconcile(n, p)
    /\ UNCHANGED <<leader, links, inFlight, log>>

FailNode(n) ==
    /\ status' = [status EXCEPT ![n] = "OFFLINE"]
    /\ UNCHANGED <<height, storage, leader, links, inFlight, log>>

\* Mutant: a recovery without a peer to sync from stays in the syncing state.
RecoverNodeStaysSyncing(n) ==
    \/ SyncNode(n)
    \/ /\ OnlinePeers(n) = {}
       /\ status' = [status EXCEPT ![n] = "SYNCING"]
       /\ UNCHANGED <<height, storage, leader, links, inFlight, log>>

\* recoverNode marks the node ONLINE, whatever it was, then syncs it; with no
\* ONLINE peer the sync fails and the node stays ONLINE with what it has.
RecoverNode(n) ==
    \/ SyncNode(n)
    \/ /\ OnlinePeers(n) = {}
       /\ status' = [status EXCEPT ![n] = "ONLINE"]
       /\ UNCHANGED <<height, storage, leader, links, inFlight, log>>

TamperNode(n, h, mutation) ==
    /\ CanTamperRow(rows[n], h, mutation)
    /\ rows' = [rows EXCEPT ![n] = TamperRows(@, h, mutation)]
    /\ txs' = [txs EXCEPT ![n] = TamperTxs(@, h, mutation)]
    /\ status' = [status EXCEPT ![n] = "CORRUPTED"]
    /\ UNCHANGED <<height, leader, links, inFlight, log>>

SetLeader(n) ==
    /\ leader' = n
    /\ UNCHANGED <<status, height, storage, links, inFlight, log>>

IsolateNode(n) ==
    /\ isolated' = isolated \cup {n}
    /\ UNCHANGED <<status, height, storage, leader, partitions, inFlight, log>>

ReconnectNode(n) ==
    /\ isolated' = isolated \ {n}
    /\ UNCHANGED <<status, height, storage, leader, partitions, inFlight, log>>

Partition(split) ==
    /\ partitions' = split
    /\ UNCHANGED <<status, height, storage, leader, isolated, inFlight, log>>

HealPartition ==
    /\ partitions' = <<>>
    /\ UNCHANGED <<status, height, storage, leader, isolated, inFlight, log>>

\* Mutant: the in-memory height is not read back from the table.
RestartFromGenesis ==
    /\ Restartable
    /\ status' = [n \in Nodes |-> "ONLINE"]
    /\ height' = [n \in Nodes |-> 0]
    /\ leader' = Alpha
    /\ isolated' = {}
    /\ partitions' = <<>>
    /\ inFlight' = {}
    /\ UNCHANGED <<storage, log>>

\* The process dies and comes back on the same databases (loadOrInitLedger):
\* the tables survive, timers, statuses and network faults do not.
Restart ==
    /\ Restartable
    /\ status' = [n \in Nodes |-> "ONLINE"]
    /\ height' = [n \in Nodes |-> TopHeight(rows[n])]
    /\ leader' = Alpha
    /\ isolated' = {}
    /\ partitions' = <<>>
    /\ inFlight' = {}
    /\ UNCHANGED <<storage, log>>

------------------------------------------------------------------------------

Init ==
    /\ status = [n \in Nodes |-> "ONLINE"]
    /\ height = [n \in Nodes |-> 0]
    /\ rows = [n \in Nodes |-> GenesisRows]
    /\ txs = [n \in Nodes |-> NoTxs]
    /\ leader = Alpha
    /\ isolated = {}
    /\ partitions = <<>>
    /\ inFlight = {}
    /\ log = <<>>

Next ==
    \/ \E kind \in Kinds, object \in Objects : ExecuteConsensus(kind, object)
    \/ \E b \in inFlight : BroadcastCommit(b)
    \/ \E n \in Nodes : FailNode(n)
    \/ \E n \in Nodes : RecoverNode(n)
    \/ \E n \in Nodes : SyncNode(n)
    \/ \E n \in Tamperable, mutation \in Mutations :
          \E h \in DOMAIN rows[n] : TamperNode(n, h, mutation)
    \/ \E n \in Eligible : SetLeader(n)
    \/ \E n \in Isolable : IsolateNode(n)
    \/ \E n \in Isolable : ReconnectNode(n)
    \/ \E split \in Splits : Partition(split)
    \/ HealPartition
    \/ Restart

Spec == Init /\ [][Next]_vars

\* setTimeout fires: a broadcast does not stay in flight for ever.
FairSpec == Spec /\ \A b \in 1..MaxBlocks : WF_vars(BroadcastCommit(b))

------------------------------------------------------------------------------
(* The cross-node audit (verifyCrossNodeLedger) *)

IntactNode(n) == Intact(log, rows[n], txs[n])

\* The hash at the node's current height, none when that row is gone.
LastHash(n) == {rows[n][h].hash : h \in {height[n]} \cap DOMAIN rows[n]}

\* Mutant: the audit does not compare the nodes' last hashes.
DivergedIgnoringHash(n) == ~IntactNode(n) \/ status[n] \in {"CORRUPTED", "OFFLINE"}

Diverged(n) ==
    \/ ~IntactNode(n)
    \/ status[n] \in {"CORRUPTED", "OFFLINE"}
    \/ LastHash(n) # LastHash(Alpha)

AuditConsistent ==
    /\ \A n \in Nodes : ~Diverged(n) /\ status[n] = "ONLINE"
    /\ N >= 2

------------------------------------------------------------------------------
(* Properties of a cluster whose leader does not change *)

\* At most one block is ever certified per height, and each one extends the
\* one certified before it: no fork and no hole in the certified history,
\* across rounds that overlap with late broadcasts, syncs and restarts.
CertifiedHistoryIsOneChain ==
    \A b \in DOMAIN log : log[b].height = b /\ log[b].prev = b - 1

\* The leader never misses a block it got certified, whatever its status: it
\* stores exactly the certified history and stands at its end, so the next
\* round can neither reuse a height nor skip one.
LeaderHoldsHistory ==
    /\ height[leader] = Len(log)
    /\ DOMAIN rows[leader] = 0..Len(log)
    /\ DOMAIN txs[leader] = DOMAIN log

\* Whatever a node stores above genesis is the certified block of that height
\* with its transactions, however it got there: its own round, a late or
\* overtaken broadcast, or a sync from a peer with holes.
CopiesAreCertified ==
    \A n \in Nodes : \A h \in DOMAIN rows[n] \ {0} :
        /\ h \in DOMAIN log
        /\ rows[n][h] = CertifiedRow(h)
        /\ h \in DOMAIN txs[n] /\ txs[n][h] = [height |-> h, intact |-> TRUE]

\* A node whose heights have no hole passes verifyLocalChainIntegrity: without
\* an intruder the check never cries wolf.
GapFreeChainsVerify ==
    \A n \in Nodes : DOMAIN rows[n] = 0..TopHeight(rows[n]) => IntactNode(n)

\* The audit reports a consistent cluster only when every node stores the same
\* blocks up to the reported height, although it compares nothing but the last
\* hashes.  (Above the height a late commit left behind, nothing is compared.)
AuditIsSound ==
    AuditConsistent =>
        \A n \in Nodes : /\ height[n] = height[Alpha]
                         /\ \A h \in 1..height[Alpha] : rows[n][h] = rows[Alpha][h]

\* A peer at the leader's height shares the leader's chain, so enough ONLINE
\* peers reachable at that height mean the next round gets its quorum.
EqualHeightsReachQuorum ==
    LET level == {p \in OnlinePeers(leader) :
                    CanCommunicate(leader, p) /\ height[p] = height[leader]}
    IN  status[leader] = "ONLINE" /\ Cardinality(level) + 1 >= Quorum
            => CanPropose /\ Cardinality(Endorsers) >= Quorum

\* A stored block is immutable: no step removes it or changes any part of it.
StoredBlocksAreImmutable ==
    [][\A n \in Nodes : \A h \in DOMAIN rows[n] :
            h \in DOMAIN rows'[n] /\ rows'[n][h] = rows[n][h]]_vars

\* The only step that takes a node back to a lower height is the delivery of a
\* block certified before the one the node stands on.
OnlyLateCommitsRewind ==
    [][\A n \in Nodes : height'[n] < height[n] =>
            \E b \in inFlight \ inFlight' : height'[n] = log[b].height /\ n # leader]_vars

\* Without a restart, a block in flight reaches every peer, unless the peer or
\* the link to it is down when the broadcast comes.
CommitsReachPeers ==
    \A b \in 1..MaxBlocks : \A n \in Nodes :
        b \in inFlight ~>
            \/ b \in DOMAIN txs[n]
            \/ b \in DOMAIN log /\ ~CanCommunicate(log[b].by, n)
            \/ status[n] # "ONLINE"

\* The cluster implements a replicated ledger that Alpha keeps: a round certifies
\* one block on top of the last, on Alpha's database in the same step; broadcasts,
\* syncs and recoveries only copy what is certified; links, statuses and restarts
\* are invisible.
CertifiedEntries ==
    EntriesIn(GenesisRows) \cup
    {[height |-> log[b].height, block |-> b, prev |-> log[b].prev] : b \in DOMAIN log}

Ledger == INSTANCE ReplicatedLedger WITH
    Keeper <- Alpha,
    Genesis <- [height |-> 0, block |-> GenesisHash, prev |-> GenesisRows[0].prev],
    Blocks <- 1..MaxBlocks,
    ledger <- CertifiedEntries,
    copies <- [n \in Nodes |-> EntriesIn(rows[n])]

ImplementsLedger == Ledger!Spec

------------------------------------------------------------------------------
(* Properties of a cluster with intruders *)

\* The heights at which a node's row is not the certified block of its hash.
ForgedHeights(n) ==
    {h \in DOMAIN rows[n] \ {0} :
        ~ (rows[n][h].hash \in DOMAIN log /\ rows[n][h] = CertifiedRow(rows[n][h].hash))}

\* A node whose blocks the tamper route changed can only come back ONLINE when
\* nobody else is, so two such nodes never take part in consensus together.
AtMostOneForgedOnline ==
    Cardinality({n \in Nodes : status[n] = "ONLINE" /\ ForgedHeights(n) # {}}) <= 1

\* No block is certified on top of a forged one.  (A forged genesis hash is
\* not covered: verifyLocalChainIntegrity does not look at it.)
NoCertificateOverForgery ==
    \A b \in DOMAIN log : log[b].prev = Forged => log[b].height = 1

\* Syncing from a node whose chain verifies repairs the target, provided the
\* source has every height and every transaction the target has: a leftover
\* transaction of a replaced block would keep its height from verifying.
SyncFromIntactPeerHeals ==
    [][\A n, p \in Nodes :
        (/\ IsSyncSource(p, n) /\ IntactNode(p)
         /\ DOMAIN rows[n] \subseteq DOMAIN rows[p]
         /\ \A b \in DOMAIN txs[n] : \E h \in DOMAIN rows[p] : b \in TxsAt(txs[p], h)
         /\ SyncNode(n))
        => status'[n] = "ONLINE" /\ rows'[n] = rows[p]]_vars

------------------------------------------------------------------------------
(* What the documents say and the code does not do *)

\* docs/CONSENSUS.md, table of section 3: with the leader and one validator
\* active the round gets two votes and commits.
TwoActiveNodesReachQuorum ==
    (/\ inFlight = {} /\ status[leader] = "ONLINE"
     /\ \E p \in OnlinePeers(leader) : CanCommunicate(leader, p))
    => CanPropose /\ Cardinality(Endorsers) >= Quorum
==============================================================================
