------------------------ MODULE NetworkDashboardProofs ------------------------
(***************************************************************************)
(* What the aggregates of the server and the network page say of the HTTP   *)
(* consortium, for every number of nodes, blocks and requests under way,    *)
(* and for every node whose buttons are pressed.  The page's steps leave    *)
(* the nodes alone and its buttons are requests of the consortium, so the   *)
(* invariants of ConsortiumNodeProofs hold under it.  An old answer is as   *)
(* good as a new one up to the block it names: a node keeps a row at every   *)
(* height it ever had one, and the tree of certified blocks only grows.     *)
(***************************************************************************)
EXTENDS NetworkDashboard, ConsortiumNodeProofs

\* network.routes.ts buildNetworkAggregate: when the nodes are what an aggregate calls
\* READY, each of those ONLINE votes for the next block of any other of them, whatever
\* proposers, rounds, toggles, intruders, syncs and crashes there were.
THEOREM ReadyMeansReady == Spec => []ReadyNodesEndorse
<1>1. TypeInv => ReadyNodesEndorse
  <2> DEFINE infos == [n \in Nodes |-> NodeInfo(n)]
  <2> SUFFICES ASSUME TypeInv, Current.consensus = "READY",
                      NEW l \in Current.online, NEW p \in Current.online
               PROVE  AcceptsCandidate(status[p], height[p], rows[p],
                                       height[l] + 1, rows[l][height[l]].hash)
    BY DEF ReadyNodesEndorse
  <2>1. Current.online = OnlineNodes(infos) /\ Current.consensus = Consensus(infos)
    BY DEF Current, Aggregate
  <2>2. \A n, m \in OnlineNodes(infos) : infos[n] = infos[m]
    BY <2>1 DEF Consensus, Converged
  <2>3. \A n \in OnlineNodes(infos) : n \in Nodes /\ status[n] = "ONLINE"
    BY DEF OnlineNodes, NodeInfo, Offline
  <2>4. l \in Nodes /\ p \in Nodes /\ status[l] = "ONLINE" /\ status[p] = "ONLINE"
    BY <2>1, <2>3
  <2>5. NodeInfo(p) = NodeInfo(l)
    BY <2>1, <2>2, <2>4
  <2>6. height[p] = height[l] /\ rows[p][height[p]].hash = rows[l][height[l]].hash
    BY <2>4, <2>5 DEF NodeInfo
  <2>7. height[p] \in DOMAIN rows[p]
    BY <2>4, TypedParts
  <2>8. QED BY <2>4, <2>6, <2>7 DEF AcceptsCandidate
<1>2. Init => TypeInv
  BY NodeAssumption, TypeInvInit
<1>3. TypeInv /\ [Next]_vars => TypeInv'
  BY NodeAssumption, TypeInvStep
<1>4. QED BY <1>1, <1>2, <1>3, PTL DEF Spec

------------------------------------------------------------------------------
(* The page *)

\* A step of the page is a step of the consortium, or none.
LEMMA DashStepIsNodeStep ==
    ASSUME Alpha \in Proposers, [DashNext]_dashVars
    PROVE  [Next]_vars
<1>1. ASSUME UNCHANGED cluster PROVE [Next]_vars
  BY <1>1 DEF cluster, vars
<1>2. ASSUME NEW r, Poll(r) \/ Loss(r) PROVE [Next]_vars
  BY <1>1, <1>2 DEF Poll, Loss, FetchStatus, CheckNodeStatus, ShowStatus, LoseStatus
<1>3. ASSUME ProposeBlock PROVE Next
  BY <1>3 DEF ProposeBlock, Next
<1>4. ASSUME NEW n \in Toggled, ToggleNode(n) PROVE Next
  <2> DEFINE newStatus == IF status[n] = "ONLINE" THEN "OFFLINE" ELSE "ONLINE"
  <2>1. newStatus \in {"ONLINE", "OFFLINE"} /\ ToggleStatus(n, newStatus)
    BY <1>4 DEF ToggleNode
  <2> HIDE DEF newStatus
  <2>2. QED BY <2>1 DEF Next
<1>5. ASSUME NEW n \in Syncing, SyncNode(n) PROVE Next
  BY <1>5 DEF SyncNode, Next
<1>6. ASSUME ClusterStep PROVE Next
  BY <1>6 DEF ClusterStep, Next
<1>7. CASE UNCHANGED dashVars
  BY <1>1, <1>7 DEF dashVars
<1>8. QED BY <1>2, <1>3, <1>4, <1>5, <1>6, <1>7 DEF DashNext

------------------------------------------------------------------------------
(* Heights stay, and the blocks of a height only grow *)

\* Certified blocks are above genesis.
LEMMA CertifiedAboveGenesis ==
    ASSUME TreeInv
    PROVE  \A b \in DOMAIN log : b # GenesisHash /\ log[b].height \in Nat \ {0}
<1>1. DOMAIN log = 1..Len(log) /\ \A b \in DOMAIN log : log[b] \in Header
  BY DEF TreeInv
<1>a. \A b \in DOMAIN log : log[b].height \in Nat
  BY <1>1 DEF Header
<1>2. ASSUME NEW b \in DOMAIN log PROVE log[b].height # 0
  <2>1. Extends(b, certified, log) /\ certified \subseteq DOMAIN log
    BY DEF TreeInv
  <2>2. QED BY <1>a, <2>1 DEF Extends
<1>3. QED BY <1>1, <1>a, <1>2 DEF GenesisHash

\* A genuine table holds at each height a block of that height.
LEMMA GenuineBlocks ==
    ASSUME TreeInv, NEW rs, Genuine(rs, certified, log), NEW h \in DOMAIN rs
    PROVE  rs[h].hash \in BlocksAt(h)
<1>1. certified \subseteq DOMAIN log
  BY DEF TreeInv
<1>2. QED BY <1>1, CertifiedAboveGenesis DEF Genuine, BlocksAt

\* INSERT OR REPLACE takes a row from another height when both have one hash; rows
\* of certified blocks have one hash only at the height of the block.
LEMMA CommitKeepsHeights ==
    ASSUME TreeInv, NEW n \in Nodes, NEW b \in DOMAIN log
    PROVE  DOMAIN rows[n] \subseteq DOMAIN CommitRows(rows[n], log[b].height, CertifiedRow(b))
<1>1. Genuine(rows[n], certified, log) /\ b # GenesisHash
  BY CertifiedAboveGenesis DEF TreeInv
<1>2. \A h \in DOMAIN rows[n] : rows[n][h].hash = b => h = log[b].height
  BY <1>1 DEF Genuine
<1>3. QED BY <1>2 DEF CommitRows, CertifiedRow

LEMMA OverwriteKeepsHeights ==
    ASSUME TreeInv, NEW n \in Nodes, NEW peerRows, Genuine(peerRows, certified, log)
    PROVE  DOMAIN rows[n] \subseteq DOMAIN OverwriteRows(rows[n], peerRows)
<1>1. Genuine(rows[n], certified, log) /\ \A b \in certified : b # GenesisHash
  BY CertifiedAboveGenesis DEF TreeInv
<1>2. \A h \in DOMAIN rows[n], g \in DOMAIN peerRows :
         peerRows[g].hash = rows[n][h].hash => g = h
  BY <1>1 DEF Genuine
<1>3. QED BY <1>2 DEF OverwriteRows

HeightsStay == \A n \in Nodes : DOMAIN rows[n] \subseteq DOMAIN rows'[n]

LEMMA NodeStepKeepsHeights ==
    ASSUME NodeAssumption, Tamperable = {}, TypeInv, TreeInv, [Next]_vars
    PROVE  HeightsStay
<1>1. ASSUME rows' = rows PROVE HeightsStay
  BY <1>1 DEF HeightsStay
<1>2. ASSUME NEW n \in Nodes, NEW rs, DOMAIN rows[n] \subseteq DOMAIN rs,
             rows' = [rows EXCEPT ![n] = rs] PROVE HeightsStay
  BY <1>2, TypedParts DEF HeightsStay
<1>3. ASSUME NEW n \in Nodes, NEW b \in DOMAIN log,
             rows' = [rows EXCEPT ![n] = CommitRows(@, log[b].height, CertifiedRow(b))]
      PROVE  HeightsStay
  BY <1>2, <1>3, CommitKeepsHeights
<1>4. ASSUME NEW n \in Nodes, NEW peerRows, Genuine(peerRows, certified, log),
             rows' = [rows EXCEPT ![n] = OverwriteRows(@, peerRows)]
      PROVE  HeightsStay
  BY <1>2, <1>4, OverwriteKeepsHeights
<1>5. /\ certified \subseteq DOMAIN log /\ DOMAIN rounds \subseteq DOMAIN log
      /\ \A b \in DOMAIN log : log[b].by \in Nodes
      /\ DOMAIN syncs \subseteq Nodes /\ Restartable \subseteq Nodes
      /\ \A n \in DOMAIN syncs : Genuine(syncs[n].rows, certified, log)
  BY TypedParts DEF TreeInv, NodeAssumption
<1>6. ASSUME NEW b \in DOMAIN rounds, Certify(b) PROVE HeightsStay
  BY <1>1, <1>3, <1>5, <1>6 DEF Certify, CommitBlock, storage
<1>7. ASSUME NEW b \in certified, NEW p \in Nodes, HandleCommit(b, p) PROVE HeightsStay
  BY <1>1, <1>3, <1>5, <1>7 DEF HandleCommit, CommitBlock, storage
<1>8. ASSUME NEW n \in DOMAIN syncs, NEW force, FinishSync(n, force) PROVE HeightsStay
  BY <1>1, <1>4, <1>5, <1>8 DEF FinishSync, Reconcile, storage
<1>9. ASSUME NEW n \in Restartable, NEW b \in DOMAIN log, CrashInCommit(n, b) PROVE HeightsStay
  BY <1>3, <1>5, <1>9 DEF CrashInCommit
<1>10. ASSUME NEW n \in DOMAIN syncs, NEW top, CrashInSync(n, top) PROVE HeightsStay
  <2> DEFINE written == [h \in {h \in DOMAIN syncs[n].rows : h <= top} |-> syncs[n].rows[h]]
  <2>1. rows' = [rows EXCEPT ![n] = OverwriteRows(@, written)]
    BY <1>10 DEF CrashInSync
  <2>2. Genuine(written, certified, log)
    BY <1>5 DEF Genuine
  <2> HIDE DEF written
  <2>3. QED BY <1>4, <1>5, <2>1, <2>2
<1>11. QED
  BY <1>1, <1>6, <1>7, <1>8, <1>9, <1>10
  DEF Next, vars, storage, Propose, ReceiveBlock, RejectRound, SendCommit, StartSync,
      FetchBlocks, ToggleStatus, Restart

LEMMA CertifiedGrows ==
    ASSUME [Next]_vars PROVE certified \subseteq certified'
BY DEF Next, Propose, ReceiveBlock, RejectRound, Certify, SendCommit, HandleCommit, StartSync,
       FetchBlocks, FinishSync, ToggleStatus, Tamper, Restart, CrashInCommit, CrashInSync, vars

\* BlocksAt in the next state, of a height of this one.
NextBlocksAt(h) == IF h = 0 THEN {GenesisHash} ELSE {b \in certified' : log'[b].height = h}

BlocksStay == \A h : BlocksAt(h) \subseteq NextBlocksAt(h)

LEMMA NodeStepKeepsBlocks ==
    ASSUME TypeInv, [Next]_vars PROVE BlocksStay
<1>1. certified \subseteq certified' /\ \A b \in certified : log'[b] = log[b]
  BY CertifiedGrows, LogGrows, TypedParts
<1>2. QED BY <1>1 DEF BlocksStay, BlocksAt, NextBlocksAt

------------------------------------------------------------------------------
(* Old answers *)

\* What a node said is a block of the height it said, and the node has that height.
Holds(n, info) == /\ info.height \in Int /\ info.height \in DOMAIN rows[n]
                  /\ info.hash \in BlocksAt(info.height)

HoldsNext(n, info) == /\ info.height \in Int /\ info.height \in DOMAIN rows'[n]
                      /\ info.hash \in NextBlocksAt(info.height)

AnswersHold == \A r \in DOMAIN answers : \A n \in DOMAIN answers[r] :
                  n \in Nodes /\ answers[r][n].online /\ Holds(n, answers[r][n])

\* What is shown of the nodes shown ONLINE, when they agree.
ShownHolds ==
    Shown /\ page.consensus = "READY" =>
        /\ page.online # {} /\ page.online \subseteq Nodes
        /\ page.hash \in BlocksAt(page.height)
        /\ \A n \in page.online : page.height \in DOMAIN rows[n]

PageInv == TypeInv /\ TreeInv /\ AnswersHold /\ ShownHolds

LEMMA OldAnswersHold ==
    ASSUME HeightsStay, BlocksStay, NEW n \in Nodes, NEW info, Holds(n, info)
    PROVE  HoldsNext(n, info)
BY DEF HeightsStay, BlocksStay, Holds, HoldsNext

\* What an ONLINE node answers is on it now.
LEMMA NewAnswersHold ==
    ASSUME TypeInv, TreeInv, NEW n \in Nodes, status[n] = "ONLINE"
    PROVE  NodeInfo(n).online /\ Holds(n, NodeInfo(n))
<1>1. height[n] \in DOMAIN rows[n] /\ height[n] \in Nat
  BY TypedParts
<1>2. rows[n][height[n]].hash \in BlocksAt(height[n])
  BY <1>1, GenuineBlocks DEF TreeInv
<1>3. QED BY <1>1, <1>2 DEF Holds, NodeInfo

\* The aggregate of answers that agree is what each of them says.
LEMMA AggregateOfAgreement ==
    ASSUME NEW infos, Converged(infos), \A n \in OnlineNodes(infos) : infos[n].height \in Int
    PROVE  /\ Aggregate(infos).online = OnlineNodes(infos)
           /\ \A n \in OnlineNodes(infos) : /\ n \in Nodes /\ infos[n].online
                                            /\ Aggregate(infos).height = infos[n].height
                                            /\ Aggregate(infos).hash = infos[n].hash
<1> DEFINE online == OnlineNodes(infos)
<1>1. /\ online # {} /\ online \subseteq Nodes /\ \A n \in online : infos[n].online
      /\ \A n, m \in online : infos[n] = infos[m]
  BY DEF Converged, OnlineNodes
<1>2. ShownNode(infos) \in online
  <2>1. NextPeer(online) \in online
    BY <1>1, NodeAssumption, NextPeerIsPeer
  <2>2. QED BY <2>1 DEF ShownNode, NextPeer
<1>3. \A n \in online : LatestHeight(infos) = infos[n].height
  <2> TAKE n \in online
  <2>1. {infos[m].height : m \in online} = {infos[n].height} /\ infos[n].height \in Int
    BY <1>1
  <2>2. QED BY <2>1 DEF LatestHeight
<1>4. QED BY <1>1, <1>2, <1>3 DEF Aggregate

\* What the server collects: the nodes of one request are read at different moments.
LEMMA AnswersStep ==
    ASSUME PageInv, [DashNext]_dashVars, HeightsStay, BlocksStay
    PROVE  AnswersHold'
<1> DEFINE Good(r) == \A n \in DOMAIN answers'[r] :
                         n \in Nodes /\ answers'[r][n].online /\ HoldsNext(n, answers'[r][n])
           AllGood == \A r \in DOMAIN answers' : Good(r)
<1>1. \A r \in DOMAIN answers : \A n \in DOMAIN answers[r] :
         n \in Nodes /\ answers[r][n].online /\ HoldsNext(n, answers[r][n])
  BY OldAnswersHold DEF AnswersHold, PageInv
<1>2. SUFFICES AllGood
  BY DEF AnswersHold, Holds, HoldsNext, BlocksAt, NextBlocksAt
<1>3. ASSUME UNCHANGED answers PROVE AllGood
  BY <1>1, <1>3
<1>4. ASSUME NEW r, FetchStatus(r) PROVE AllGood
  <2>1. \A q \in DOMAIN answers' :
           DOMAIN answers'[q] = {} \/ (q \in DOMAIN answers /\ answers'[q] = answers[q])
    BY <1>4 DEF FetchStatus, Put
  <2>2. QED BY <1>1, <2>1
<1>5. ASSUME NEW r, NEW n \in Nodes, CheckNodeStatus(r, n) PROVE AllGood
  <2>1. NodeInfo(n).online /\ HoldsNext(n, NodeInfo(n))
    <3>1. NodeInfo(n).online /\ Holds(n, NodeInfo(n))
      BY <1>5, NewAnswersHold DEF CheckNodeStatus, PageInv
    <3>2. QED BY <3>1, OldAnswersHold
  <2>2. /\ r \in DOMAIN answers /\ DOMAIN answers' = DOMAIN answers
        /\ \A q \in DOMAIN answers : q # r => answers'[q] = answers[q]
        /\ answers'[r] = Put(answers[r], n, NodeInfo(n))
    BY <1>5 DEF CheckNodeStatus
  <2>3. /\ DOMAIN answers'[r] = DOMAIN answers[r] \cup {n} /\ answers'[r][n] = NodeInfo(n)
        /\ \A m \in DOMAIN answers[r] : m # n => answers'[r][m] = answers[r][m]
    BY <2>2 DEF Put
  <2>4. Good(r)
    BY <1>1, <2>1, <2>2, <2>3
  <2>5. \A q \in DOMAIN answers' : q # r => Good(q)
    BY <1>1, <2>2
  <2> HIDE DEF Good
  <2>6. QED BY <2>4, <2>5
<1>6. ASSUME NEW r, answers' = Without(answers, {r}) PROVE AllGood
  BY <1>1, <1>6 DEF Without
<1> HIDE DEF AllGood
<1>7. ASSUME NEW r, Poll(r) PROVE AllGood
  BY <1>4, <1>5, <1>6, <1>7 DEF Poll, ShowStatus
<1>8. ASSUME NEW r, Loss(r) PROVE AllGood
  BY <1>6, <1>8 DEF Loss, ShowStatus, LoseStatus
<1>9. QED BY <1>3, <1>7, <1>8 DEF DashNext, dashVars

\* What is shown: an aggregate of answers that all still hold.
LEMMA PageStep ==
    ASSUME PageInv, [DashNext]_dashVars, HeightsStay, BlocksStay
    PROVE  ShownHolds'
<1>1. ASSUME page' = page PROVE ShownHolds'
  BY <1>1 DEF PageInv, ShownHolds, Shown, HeightsStay, BlocksStay, BlocksAt, NextBlocksAt
<1>2. ASSUME NEW r \in DOMAIN answers, ShowStatus(r) PROVE ShownHolds'
  <2> DEFINE infos == [n \in Nodes |-> IF n \in DOMAIN answers[r] THEN answers[r][n] ELSE Offline]
  <2>1. page' = Aggregate(infos)
    BY <1>2 DEF ShowStatus
  <2>2. \A n \in OnlineNodes(infos) :
           /\ n \in Nodes /\ infos[n].height \in Int /\ infos[n].height \in DOMAIN rows'[n]
           /\ infos[n].hash \in NextBlocksAt(infos[n].height)
    <3> TAKE n \in OnlineNodes(infos)
    <3>1. n \in Nodes /\ n \in DOMAIN answers[r] /\ infos[n] = answers[r][n]
      BY DEF OnlineNodes, Offline
    <3>2. Holds(n, answers[r][n])
      BY <1>2, <3>1 DEF AnswersHold, PageInv
    <3>3. HoldsNext(n, answers[r][n])
      BY <3>1, <3>2, OldAnswersHold
    <3>4. QED BY <3>1, <3>3 DEF HoldsNext
  <2> HIDE DEF infos
  <2>3. page'.consensus = Consensus(infos)
    BY <2>1 DEF Aggregate
  <2>4. SUFFICES ASSUME page'.consensus = "READY"
                 PROVE  /\ page'.online # {} /\ page'.online \subseteq Nodes
                        /\ page'.hash \in NextBlocksAt(page'.height)
                        /\ \A n \in page'.online : page'.height \in DOMAIN rows'[n]
    BY DEF ShownHolds, BlocksAt, NextBlocksAt
  <2>5. Converged(infos)
    BY <2>3, <2>4 DEF Consensus
  <2>6. /\ page'.online = OnlineNodes(infos)
        /\ \A n \in OnlineNodes(infos) : /\ page'.height = infos[n].height
                                         /\ page'.hash = infos[n].hash
    BY <2>1, <2>2, <2>5, AggregateOfAgreement
  <2>7. page'.online # {}
    BY <2>5, <2>6 DEF Converged
  <2>8. QED BY <2>2, <2>6, <2>7
<1>3. ASSUME NEW r, Poll(r) PROVE page' = page \/ (r \in DOMAIN answers /\ ShowStatus(r))
  BY <1>3 DEF Poll, FetchStatus, CheckNodeStatus
<1>4. ASSUME NEW r, Loss(r) PROVE page' = page \/ (r \in DOMAIN answers /\ ShowStatus(r))
  BY <1>4 DEF Loss, LoseStatus
<1>5. QED BY <1>1, <1>2, <1>3, <1>4 DEF DashNext, dashVars

LEMMA PageInvInit ==
    ASSUME DashInit PROVE PageInv
<1>1. TypeInv /\ TreeInv
  BY NodeAssumption, TypeInvInit, TreeInvInit DEF DashInit
<1>2. AnswersHold /\ ShownHolds
  BY DEF DashInit, AnswersHold, ShownHolds, Shown
<1>3. QED BY <1>1, <1>2 DEF PageInv

LEMMA PageInvStep ==
    ASSUME Alpha \in Proposers, Tamperable = {}, PageInv, [DashNext]_dashVars PROVE PageInv'
<1>1. [Next]_vars
  BY DashStepIsNodeStep
<1>2. TypeInv' /\ TreeInv'
  BY NodeAssumption, <1>1, TypeInvStep, TreeInvStep DEF PageInv
<1>3. HeightsStay /\ BlocksStay
  BY NodeAssumption, <1>1, NodeStepKeepsHeights, NodeStepKeepsBlocks DEF PageInv
<1>4. QED BY <1>2, <1>3, AnswersStep, PageStep DEF PageInv

\* network.routes.ts checkNodeStatus, NetworkStatusPage.tsx: a page that says READY shows
\* genesis or a certified block of the height it shows, and every node it shows ONLINE
\* stores one of that height ever after, whichever buttons were pressed at whichever
\* node, however old the page is, whichever answer overtook another, whenever each node
\* was read, and whatever crashed.  Only a second certificate for that height disputes it.
THEOREM ShownStaysTrue ==
    ASSUME Alpha \in Proposers, Tamperable = {} PROVE DashSpec => []ShownAgreementStays
<1>1. DashInit => PageInv
  BY PageInvInit
<1>2. PageInv /\ [DashNext]_dashVars => PageInv'
  BY PageInvStep
<1>3. PageInv => ShownAgreementStays
  <2> SUFFICES ASSUME PageInv, Shown, page.consensus = "READY", NEW n \in page.online
               PROVE  rows[n][page.height].hash \in BlocksAt(page.height)
    BY DEF ShownAgreementStays, PageInv, ShownHolds
  <2>1. n \in Nodes /\ page.height \in DOMAIN rows[n] /\ TreeInv
    BY DEF PageInv, ShownHolds
  <2>2. QED BY <2>1, GenuineBlocks DEF TreeInv
<1>4. QED BY <1>1, <1>2, <1>3, PTL DEF DashSpec
===============================================================================
