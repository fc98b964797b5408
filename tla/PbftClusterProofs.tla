------------------------- MODULE PbftClusterProofs --------------------------
(***************************************************************************)
(* What holds of the in-process consortium for every number of nodes,      *)
(* every quorum and every bound, with intruders and changing leaders        *)
(* included: its types, that forged nodes stand alone and get nothing       *)
(* certified while the process lives, that an intact peer heals, and that   *)
(* the audit, which compares one hash per node, compares whole chains.      *)
(***************************************************************************)
EXTENDS PbftCluster, LedgerNodeProofs, FiniteSetTheorems

------------------------------------------------------------------------------
(* Type correctness *)

\* No table is empty, and no height exceeds the number of certified blocks:
\* a block is certified at most one above a height some node already had.
Bounded ==
    /\ \A n \in Nodes : DOMAIN rows[n] # {} /\ DOMAIN rows[n] \subseteq 0..Len(log)
    /\ \A n \in Nodes : height[n] <= Len(log)
    /\ \A b \in DOMAIN log : log[b].height <= Len(log)

TInv == TypeOK /\ Bounded

LEMMA InitTyped == Init => TInv
<1> SUFFICES ASSUME Init PROVE TInv
  OBVIOUS
<1> USE ClusterAssumption DEF Init
<1>1. /\ status \in [Nodes -> NodeStatus \ {"SYNCING"}]
      /\ height \in [Nodes -> Nat]
  BY DEF NodeStatus
<1>2. /\ DOMAIN rows = Nodes
      /\ \A n \in Nodes : /\ DOMAIN rows[n] = {0}
                          /\ rows[n] \in [DOMAIN rows[n] -> Row]
  BY DEF GenesisRows, Row, Digest, GenesisHash, Forged
<1>3. /\ DOMAIN txs = Nodes
      /\ \A n \in Nodes : DOMAIN txs[n] = {} /\ txs[n] \in [DOMAIN txs[n] -> Tx]
  BY DEF NoTxs
<1>4. leader \in Nodes /\ isolated \subseteq Nodes /\ partitions = <<>>
  OBVIOUS
<1>5. log \in Seq(Header) /\ Len(log) = 0 /\ DOMAIN log = {} /\ inFlight = {}
  OBVIOUS
<1>6. TypeOK
  BY <1>1, <1>2, <1>3, <1>4, <1>5 DEF TypeOK
<1>7. Bounded
  BY <1>2, <1>5 DEF Bounded
<1>8. QED BY <1>6, <1>7 DEF TInv


LEMMA ExecuteConsensusTyped ==
    ASSUME TInv, NEW kind \in Kinds, NEW object \in Objects,
           ExecuteConsensus(kind, object)
    PROVE  TInv'
<1> DEFINE b == Len(log) + 1
           h == height[leader] + 1
           parent == rows[leader][height[leader]].hash
           row == [hash |-> b, prev |-> parent, root |-> b]
           entry == [height |-> h, prev |-> parent, kind |-> kind,
                     object |-> object, by |-> leader]
<1> USE ClusterAssumption DEF TInv, TypeOK, Bounded
<1>1. /\ log' = Append(log, entry)
      /\ rows' = [rows EXCEPT ![leader] = CommitRows(@, h, row)]
      /\ txs' = [txs EXCEPT ![leader] = CommitTxs(@, b, h)]
      /\ height' = [height EXCEPT ![leader] = h]
      /\ inFlight' = inFlight \cup {b}
      /\ height[leader] \in DOMAIN rows[leader]
      /\ UNCHANGED <<status, leader, isolated, partitions>>
  BY DEF ExecuteConsensus, CanPropose, links
<1>2. /\ Len(log) \in Nat /\ b \in Nat /\ h \in Nat /\ h <= b
      /\ leader \in Nodes
  OBVIOUS
<1>3. parent \in Digest /\ row \in Row
  BY <1>1, <1>2 DEF Row, Digest
<1>4. entry \in Header
  BY <1>2, <1>3 DEF Header
<1>5. /\ log' \in Seq(Header) /\ Len(log') = b /\ DOMAIN log' = DOMAIN log \cup {b}
      /\ \A c \in DOMAIN log : log'[c] = log[c]
      /\ log'[b] = entry
      /\ DOMAIN log = 1..Len(log)
  BY <1>1, <1>4
<1> DEFINE newRows == CommitRows(rows[leader], h, row)
           newTxs == CommitTxs(txs[leader], b, h)
<1>6. /\ DOMAIN newRows # {} /\ DOMAIN newRows \subseteq 0..b
      /\ newRows \in [DOMAIN newRows -> Row]
      /\ DOMAIN newTxs \subseteq DOMAIN log'
      /\ newTxs \in [DOMAIN newTxs -> Tx]
  <2>1. DOMAIN rows[leader] \subseteq 0..b /\ h \in 0..b
    BY <1>2
  <2>2. DOMAIN txs[leader] \subseteq DOMAIN log' /\ b \in DOMAIN log'
    BY <1>2, <1>5
  <2>3. /\ rows[leader] \in [DOMAIN rows[leader] -> Row]
        /\ txs[leader] \in [DOMAIN txs[leader] -> Tx]
    BY <1>2
  <2>4. /\ DOMAIN newRows # {} /\ DOMAIN newRows \subseteq DOMAIN rows[leader] \cup {h}
        /\ newRows \in [DOMAIN newRows -> Row]
        /\ DOMAIN newTxs = DOMAIN txs[leader] \cup {b}
        /\ newTxs \in [DOMAIN newTxs -> Tx]
    <3> HIDE DEF b, h, parent, row, entry, TInv, TypeOK, Bounded
    <3> QED BY <1>2, <1>3, <2>3, CommitTyped, Zenon
  <2> HIDE DEF newRows, newTxs
  <2>5. QED BY <2>1, <2>2, <2>4
<1> HIDE DEF b, h, parent, row, entry, newRows, newTxs
<1>7. /\ DOMAIN rows' = Nodes /\ DOMAIN txs' = Nodes
      /\ \A n \in Nodes : rows'[n] = IF n = leader THEN newRows ELSE rows[n]
      /\ \A n \in Nodes : txs'[n] = IF n = leader THEN newTxs ELSE txs[n]
  BY <1>1, <1>2 DEF newRows, newTxs
<1>8. \A n \in Nodes : /\ DOMAIN rows'[n] # {} /\ DOMAIN rows'[n] \subseteq 0..Len(log')
                       /\ rows'[n] \in [DOMAIN rows'[n] -> Row]
                       /\ DOMAIN txs'[n] \subseteq DOMAIN log'
                       /\ txs'[n] \in [DOMAIN txs'[n] -> Tx]
  <2> TAKE n \in Nodes
  <2>1. CASE n = leader
    BY <1>5, <1>6, <1>7, <2>1
  <2>2. CASE n # leader
    <3>1. rows'[n] = rows[n] /\ txs'[n] = txs[n]
      BY <1>7, <2>2
    <3>2. 0..Len(log) \subseteq 0..b
      BY <1>2 DEF b
    <3>3. QED BY <1>5, <3>1, <3>2
  <2>3. QED BY <2>1, <2>2
<1>9. /\ height' \in [Nodes -> Nat]
      /\ \A n \in Nodes : height'[n] <= Len(log')
  BY <1>1, <1>2, <1>5 DEF b
<1>10. \A c \in DOMAIN log' : log'[c].height <= Len(log')
  <2> TAKE c \in DOMAIN log'
  <2>1. CASE c = b
    BY <1>2, <1>5, <2>1 DEF entry
  <2>2. CASE c # b
    <3>1. c \in DOMAIN log /\ log'[c] = log[c] /\ log[c] \in Header
      BY <1>5, <2>2
    <3>2. QED BY <1>2, <1>5, <3>1 DEF Header, b
  <2>3. QED BY <2>1, <2>2
<1>11. inFlight' \subseteq DOMAIN log'
  BY <1>1, <1>5
<1>12. \A n \in Nodes : DOMAIN rows'[n] \subseteq Nat
  BY <1>8, <1>5, <1>2
<1>13. TypeOK'
  BY <1>1, <1>5, <1>7, <1>8, <1>9, <1>11, <1>12
<1>14. QED BY <1>8, <1>9, <1>10, <1>13

LEMMA BroadcastCommitTyped ==
    ASSUME TInv, NEW b \in inFlight, BroadcastCommit(b)
    PROVE  TInv'
<1> DEFINE to == Receivers(b)
           h == log[b].height
<1> USE ClusterAssumption DEF TInv, TypeOK, Bounded
<1>1. /\ b \in DOMAIN log /\ log[b] \in Header /\ b \in Nat
      /\ h \in Nat /\ h <= Len(log) /\ Len(log) \in Nat
  <2>1. b \in DOMAIN log /\ log \in Seq(Header) /\ log[b].height <= Len(log)
    OBVIOUS
  <2>2. DOMAIN log = 1..Len(log) /\ Len(log) \in Nat /\ log[b] \in Header
    BY <2>1
  <2>3. log[b].height \in Nat
    BY <2>2 DEF Header
  <2>4. QED BY <2>1, <2>2, <2>3
<1>2. CertifiedRow(b) \in Row
  BY <1>1 DEF CertifiedRow, Row, Digest, Header
<1>3. \A n \in Nodes :
         LET newRows == CommitRows(rows[n], h, CertifiedRow(b))
             newTxs == CommitTxs(txs[n], b, h)
         IN  /\ DOMAIN newRows # {} /\ DOMAIN newRows \subseteq 0..Len(log)
             /\ newRows \in [DOMAIN newRows -> Row]
             /\ DOMAIN newTxs \subseteq DOMAIN log
             /\ newTxs \in [DOMAIN newTxs -> Tx]
  <2> TAKE n \in Nodes
  <2> DEFINE newRows == CommitRows(rows[n], h, CertifiedRow(b))
             newTxs == CommitTxs(txs[n], b, h)
  <2>1. /\ rows[n] \in [DOMAIN rows[n] -> Row] /\ DOMAIN rows[n] \subseteq 0..Len(log)
        /\ txs[n] \in [DOMAIN txs[n] -> Tx] /\ DOMAIN txs[n] \subseteq DOMAIN log
        /\ h \in 0..Len(log)
    BY <1>1
  <2>2. /\ DOMAIN newRows # {} /\ DOMAIN newRows \subseteq DOMAIN rows[n] \cup {h}
        /\ newRows \in [DOMAIN newRows -> Row]
        /\ DOMAIN newTxs = DOMAIN txs[n] \cup {b}
        /\ newTxs \in [DOMAIN newTxs -> Tx]
    <3> HIDE DEF h, TInv, TypeOK, Bounded
    <3> QED BY <1>1, <1>2, <2>1, CommitTyped, Zenon
  <2> HIDE DEF newRows, newTxs
  <2>3. QED BY <1>1, <2>1, <2>2 DEF newRows, newTxs
<1> HIDE DEF to, h
<1>4. /\ rows' = [n \in Nodes |->
             IF n \in to THEN CommitRows(rows[n], h, CertifiedRow(b)) ELSE rows[n]]
      /\ txs' = [n \in Nodes |->
             IF n \in to THEN CommitTxs(txs[n], b, h) ELSE txs[n]]
      /\ height' = [n \in Nodes |-> IF n \in to THEN h ELSE height[n]]
      /\ inFlight' = inFlight \ {b}
      /\ UNCHANGED <<status, leader, isolated, partitions, log>>
  BY DEF BroadcastCommit, links, to, h
<1>5. \A n \in Nodes : /\ DOMAIN rows'[n] # {} /\ DOMAIN rows'[n] \subseteq 0..Len(log)
                       /\ rows'[n] \in [DOMAIN rows'[n] -> Row]
                       /\ DOMAIN txs'[n] \subseteq DOMAIN log
                       /\ txs'[n] \in [DOMAIN txs'[n] -> Tx]
  <2> TAKE n \in Nodes
  <2>1. CASE n \in to
    BY <1>3, <1>4, <2>1
  <2>2. CASE n \notin to
    BY <1>4, <2>2
  <2>3. QED BY <2>1, <2>2
<1>6. /\ height' \in [Nodes -> Nat]
      /\ \A n \in Nodes : height'[n] <= Len(log)
  BY <1>1, <1>4
<1>7. \A n \in Nodes : DOMAIN rows'[n] \subseteq Nat
  BY <1>1, <1>5
<1>8. DOMAIN rows' = Nodes /\ DOMAIN txs' = Nodes
  BY <1>4
<1>9. QED BY <1>4, <1>5, <1>6, <1>7, <1>8

\* Overwriting a node's tables with an ONLINE peer's, in a sync or a recovery.
LEMMA ReconcileTyped ==
    ASSUME TInv, NEW n \in Nodes, NEW p \in Nodes, Reconcile(n, p),
           UNCHANGED <<leader, links, inFlight, log>>
    PROVE  TInv'
<1> DEFINE rs == OverwriteRows(rows[n], rows[p])
           ts == OverwriteTxs(txs[n], rows[p], txs[p])
<1> USE DEF TInv, TypeOK, Bounded
<1>1. /\ \A m \in {n, p} :
             /\ rows[m] \in [DOMAIN rows[m] -> Row]
             /\ DOMAIN rows[m] # {} /\ DOMAIN rows[m] \subseteq 0..Len(log)
             /\ txs[m] \in [DOMAIN txs[m] -> Tx] /\ DOMAIN txs[m] \subseteq DOMAIN log
      /\ Len(log) \in Nat
  OBVIOUS
<1>2. /\ rows' = [rows EXCEPT ![n] = rs] /\ txs' = [txs EXCEPT ![n] = ts]
      /\ height' = [height EXCEPT ![n] = TopHeight(rs)]
      /\ status' \in [Nodes -> NodeStatus \ {"SYNCING"}]
      /\ UNCHANGED <<leader, isolated, partitions, inFlight, log>>
  BY DEF Reconcile, links, NodeStatus
<1>3. /\ DOMAIN rs # {} /\ DOMAIN rs \subseteq DOMAIN rows[n] \cup DOMAIN rows[p]
      /\ rs \in [DOMAIN rs -> Row]
      /\ DOMAIN ts \subseteq DOMAIN txs[n] \cup DOMAIN txs[p]
      /\ ts \in [DOMAIN ts -> Tx]
  <2> HIDE DEF TInv, TypeOK, Bounded
  <2> QED BY <1>1, OverwriteTyped, Zenon
<1> HIDE DEF rs, ts
<1>4. DOMAIN rs \subseteq 0..Len(log) /\ DOMAIN ts \subseteq DOMAIN log
  BY <1>1, <1>3
<1>5. TopHeight(rs) \in DOMAIN rs
  BY <1>1, <1>3, <1>4, TopHeightOfNode
<1>6. /\ height' \in [Nodes -> Nat]
      /\ \A m \in Nodes : height'[m] <= Len(log)
  BY <1>1, <1>2, <1>4, <1>5
<1>7. /\ DOMAIN rows' = Nodes /\ DOMAIN txs' = Nodes
      /\ \A m \in Nodes : rows'[m] = IF m = n THEN rs ELSE rows[m]
      /\ \A m \in Nodes : txs'[m] = IF m = n THEN ts ELSE txs[m]
  BY <1>2
<1>8. \A m \in Nodes : /\ DOMAIN rows'[m] # {} /\ DOMAIN rows'[m] \subseteq 0..Len(log)
                       /\ rows'[m] \in [DOMAIN rows'[m] -> Row]
                       /\ DOMAIN txs'[m] \subseteq DOMAIN log
                       /\ txs'[m] \in [DOMAIN txs'[m] -> Tx]
  <2> TAKE m \in Nodes
  <2>1. CASE m = n
    BY <1>3, <1>4, <1>7, <2>1
  <2>2. CASE m # n
    BY <1>7, <2>2
  <2>3. QED BY <2>1, <2>2
<1>9. \A m \in Nodes : DOMAIN rows'[m] \subseteq Nat
  BY <1>1, <1>8
<1>10. QED BY <1>2, <1>6, <1>7, <1>8, <1>9

LEMMA SyncNodeTyped ==
    ASSUME TInv, NEW n \in Nodes, SyncNode(n)
    PROVE  TInv'
<1>1. PICK p \in Nodes : Reconcile(n, p)
  BY DEF SyncNode
<1>2. UNCHANGED <<leader, links, inFlight, log>>
  BY DEF SyncNode
<1>3. QED BY <1>1, <1>2, ReconcileTyped

LEMMA TamperNodeTyped ==
    ASSUME TInv, NEW n \in Tamperable, NEW mutation \in Mutations,
           NEW h \in DOMAIN rows[n], TamperNode(n, h, mutation)
    PROVE  TInv'
<1> DEFINE rs == TamperRows(rows[n], h, mutation)
           ts == TamperTxs(txs[n], h, mutation)
<1> USE DEF TInv, TypeOK, Bounded
<1>1. /\ n \in Nodes
      /\ rows[n] \in [DOMAIN rows[n] -> Row]
      /\ txs[n] \in [DOMAIN txs[n] -> Tx]
  BY ClusterAssumption
<1>2. /\ DOMAIN rs = DOMAIN rows[n] /\ rs \in [DOMAIN rows[n] -> Row]
      /\ DOMAIN ts = DOMAIN txs[n] /\ ts \in [DOMAIN txs[n] -> Tx]
  <2> HIDE DEF TInv, TypeOK, Bounded
  <2> QED BY <1>1, TamperRowsType, TamperTxsType, Zenon
<1> HIDE DEF rs, ts
<1>3. /\ rows' = [rows EXCEPT ![n] = rs] /\ txs' = [txs EXCEPT ![n] = ts]
      /\ status' = [status EXCEPT ![n] = "CORRUPTED"]
      /\ UNCHANGED <<height, leader, isolated, partitions, inFlight, log>>
  BY DEF TamperNode, links, rs, ts
<1>4. status' \in [Nodes -> NodeStatus \ {"SYNCING"}]
  BY <1>3 DEF NodeStatus
<1>5. /\ DOMAIN rows' = Nodes /\ DOMAIN txs' = Nodes
      /\ \A m \in Nodes : DOMAIN rows'[m] = DOMAIN rows[m]
      /\ \A m \in Nodes : DOMAIN txs'[m] = DOMAIN txs[m]
      /\ \A m \in Nodes : rows'[m] \in [DOMAIN rows[m] -> Row]
      /\ \A m \in Nodes : txs'[m] \in [DOMAIN txs[m] -> Tx]
  BY <1>1, <1>2, <1>3
<1>6. QED BY <1>3, <1>4, <1>5

LEMMA RestartTyped ==
    ASSUME TInv, Restart
    PROVE  TInv'
<1> USE DEF TInv, TypeOK, Bounded
<1>1. /\ status' = [n \in Nodes |-> "ONLINE"]
      /\ height' = [n \in Nodes |-> TopHeight(rows[n])]
      /\ leader' = Alpha /\ isolated' = {} /\ partitions' = <<>> /\ inFlight' = {}
      /\ UNCHANGED <<rows, txs, log>>
  BY DEF Restart, storage
<1>2. \A n \in Nodes : TopHeight(rows[n]) \in 0..Len(log)
  <2> TAKE n \in Nodes
  <2>1. /\ DOMAIN rows[n] # {} /\ DOMAIN rows[n] \subseteq 0..Len(log)
        /\ Len(log) \in Nat
    OBVIOUS
  <2>2. TopHeight(rows[n]) \in DOMAIN rows[n]
    BY <2>1, TopHeightOfNode
  <2>3. QED BY <2>1, <2>2
<1>3. /\ height' \in [Nodes -> Nat]
      /\ \A n \in Nodes : height'[n] <= Len(log)
  BY <1>1, <1>2
<1>4. status' \in [Nodes -> NodeStatus \ {"SYNCING"}]
  BY <1>1 DEF NodeStatus
<1>5. Alpha \in Nodes
  BY ClusterAssumption
<1>6. QED BY <1>1, <1>3, <1>4, <1>5

LEMMA NextTyped ==
    ASSUME TInv, [Next]_vars
    PROVE  TInv'
<1>1. ASSUME NEW kind \in Kinds, NEW object \in Objects, ExecuteConsensus(kind, object)
      PROVE  TInv'
  BY <1>1, ExecuteConsensusTyped
<1>2. ASSUME NEW b \in inFlight, BroadcastCommit(b)
      PROVE  TInv'
  BY <1>2, BroadcastCommitTyped
<1>3. ASSUME NEW n \in Nodes, FailNode(n)
      PROVE  TInv'
  BY <1>3 DEF FailNode, storage, links, TInv, TypeOK, Bounded, NodeStatus
<1>4. ASSUME NEW n \in Nodes, SyncNode(n)
      PROVE  TInv'
  BY <1>4, SyncNodeTyped
<1>5. ASSUME NEW n \in Nodes, RecoverNode(n)
      PROVE  TInv'
  <2>1. CASE SyncNode(n)
    BY <2>1, SyncNodeTyped
  <2>2. CASE /\ status' = [status EXCEPT ![n] = "ONLINE"]
             /\ UNCHANGED <<height, storage, leader, links, inFlight, log>>
    BY <2>2 DEF storage, links, TInv, TypeOK, Bounded, NodeStatus
  <2>3. QED BY <1>5, <2>1, <2>2 DEF RecoverNode
<1>6. ASSUME NEW n \in Tamperable, NEW mutation \in Mutations,
             NEW h \in DOMAIN rows[n], TamperNode(n, h, mutation)
      PROVE  TInv'
  BY <1>6, TamperNodeTyped
<1>7. ASSUME NEW n \in Eligible, SetLeader(n)
      PROVE  TInv'
  BY <1>7, ClusterAssumption DEF SetLeader, storage, links, TInv, TypeOK, Bounded
<1>8. ASSUME NEW n \in Isolable, IsolateNode(n) \/ ReconnectNode(n)
      PROVE  TInv'
  BY <1>8, ClusterAssumption
     DEF IsolateNode, ReconnectNode, storage, TInv, TypeOK, Bounded
<1>9. ASSUME NEW split \in Splits, Partition(split)
      PROVE  TInv'
  BY <1>9 DEF Partition, storage, TInv, TypeOK, Bounded
<1>10. CASE HealPartition
  BY <1>10 DEF HealPartition, storage, TInv, TypeOK, Bounded
<1>11. CASE Restart
  BY <1>11, RestartTyped
<1>12. CASE UNCHANGED vars
  BY <1>12 DEF vars, storage, links, TInv, TypeOK, Bounded
<1>13. QED
  BY <1>1, <1>2, <1>3, <1>4, <1>5, <1>6, <1>7, <1>8, <1>9, <1>10, <1>11, <1>12 DEF Next

\* Every variable keeps its type, and heights stay within the certified
\* history, under any faults, intruders, leader changes and restarts.
THEOREM TypeCorrectness == Spec => [](TypeOK /\ Bounded)
<1>1. Init => TInv
  BY InitTyped
<1>2. TInv /\ [Next]_vars => TInv'
  BY NextTyped
<1>3. QED BY <1>1, <1>2, PTL DEF Spec, TInv

------------------------------------------------------------------------------
(* Intruders *)

\* The nodes that take part in consensus with a forged block.
ForgedOnline == {n \in Nodes : status[n] = "ONLINE" /\ ForgedHeights(n) # {}}

OneForgedOnline == \A n, m \in ForgedOnline : n = m

\* A row that is certified by some headers.
Sealed(row, headers) ==
    row.hash \in DOMAIN headers /\ row = [hash |-> row.hash, prev |-> headers[row.hash].prev,
                                          root |-> row.hash]

LEMMA ForgedIsUnsealed ==
    /\ ForgedOnline = {n \in Nodes : /\ status[n] = "ONLINE"
                                     /\ \E h \in DOMAIN rows[n] \ {0} : ~Sealed(rows[n][h], log)}
    /\ ForgedOnline' = {n \in Nodes : /\ status'[n] = "ONLINE"
                                      /\ \E h \in DOMAIN rows'[n] \ {0} : ~Sealed(rows'[n][h], log')}
    /\ \A b \in DOMAIN log : Sealed(CertifiedRow(b), log)
BY DEF ForgedOnline, ForgedHeights, Sealed, CertifiedRow

\* A node that is ONLINE after a step, and whose blocks above genesis the step left
\* alone or took from the certified ones, is forged now only if it was before.
LEMMA ForgedBefore ==
    ASSUME NEW n \in Nodes, status[n] = "ONLINE", n \in ForgedOnline',
           \A h \in DOMAIN rows'[n] \ {0} :
               \/ h \in DOMAIN rows[n] /\ rows'[n][h] = rows[n][h]
               \/ Sealed(rows'[n][h], log'),
           \A b \in DOMAIN log : b \in DOMAIN log' /\ log'[b].prev = log[b].prev
    PROVE  n \in ForgedOnline
<1>1. PICK h \in DOMAIN rows'[n] \ {0} : ~Sealed(rows'[n][h], log')
  BY ForgedIsUnsealed
<1>2. h \in DOMAIN rows[n] /\ rows'[n][h] = rows[n][h]
  BY <1>1
<1>3. ~Sealed(rows[n][h], log)
  BY <1>1, <1>2 DEF Sealed
<1>4. QED BY <1>1, <1>2, <1>3, ForgedIsUnsealed

\* A chain that passes its check holds no forged block above genesis.
LEMMA IntactIsCertified ==
    ASSUME NEW rs, rs \in [DOMAIN rs -> Row], NEW ts, Intact(log, rs, ts),
           NEW h \in DOMAIN rs \ {0}
    PROVE  Sealed(rs[h], log)
<1>1. HeaderHashes(log, h, rs[h])
  BY DEF Intact
<1>2. rs[h] \in Row
  OBVIOUS
<1>3. QED BY <1>1, <1>2 DEF HeaderHashes, Sealed, Row

LEMMA ExecuteForges ==
    ASSUME TInv, NEW kind, NEW object, ExecuteConsensus(kind, object)
    PROVE  ForgedOnline' \subseteq ForgedOnline
<1> DEFINE b == Len(log) + 1
           h == height[leader] + 1
           parent == rows[leader][height[leader]].hash
           row == [hash |-> b, prev |-> parent, root |-> b]
<1>1. /\ rows' = [rows EXCEPT ![leader] = CommitRows(@, h, row)]
      /\ status' = status
      /\ DOMAIN rows = Nodes
      /\ \E header : log' = Append(log, header) /\ header.prev = parent
  BY DEF ExecuteConsensus, TInv, TypeOK
<1>2. /\ \A c \in DOMAIN log : c \in DOMAIN log' /\ log'[c].prev = log[c].prev
      /\ b \in DOMAIN log' /\ log'[b].prev = parent
  <2>1. log \in Seq(Header)
    BY DEF TInv, TypeOK
  <2>2. QED BY <1>1, <2>1
<1>3. Sealed(row, log')
  BY <1>2 DEF Sealed
<1> HIDE DEF b, h, parent, row
<1>4. ASSUME NEW n \in ForgedOnline' PROVE n \in ForgedOnline
  <2>1. n \in Nodes /\ status[n] = "ONLINE"
    BY <1>1 DEF ForgedOnline
  <2>2. ASSUME NEW g \in DOMAIN rows'[n] \ {0}
        PROVE  \/ g \in DOMAIN rows[n] /\ rows'[n][g] = rows[n][g]
               \/ Sealed(rows'[n][g], log')
    <3>1. rows'[n] = rows[n] \/ rows'[n] = CommitRows(rows[n], h, row)
      BY <1>1, <2>1
    <3>2. CASE rows'[n] = rows[n]
      BY <3>2
    <3>3. CASE rows'[n] = CommitRows(rows[n], h, row)
      <4>1. (g \in DOMAIN rows[n] /\ rows'[n][g] = rows[n][g]) \/ rows'[n][g] = row
        BY <3>3 DEF CommitRows
      <4>2. QED BY <1>3, <4>1
    <3>4. QED BY <3>1, <3>2, <3>3
  <2>3. QED BY <1>2, <2>1, <2>2, ForgedBefore
<1>5. QED BY <1>4

LEMMA BroadcastForges ==
    ASSUME TInv, NEW b \in inFlight, BroadcastCommit(b)
    PROVE  ForgedOnline' \subseteq ForgedOnline
<1> DEFINE h == log[b].height
           to == Receivers(b)
<1>1. /\ \A n \in Nodes : rows'[n] = IF n \in to THEN CommitRows(rows[n], h, CertifiedRow(b))
                                     ELSE rows[n]
      /\ status' = status /\ log' = log /\ b \in DOMAIN log
  BY DEF BroadcastCommit, TInv, TypeOK
<1>2. Sealed(CertifiedRow(b), log')
  BY <1>1, ForgedIsUnsealed
<1> HIDE DEF h, to
<1>3. ASSUME NEW n \in ForgedOnline' PROVE n \in ForgedOnline
  <2>1. n \in Nodes /\ status[n] = "ONLINE"
    BY <1>1 DEF ForgedOnline
  <2>2. ASSUME NEW g \in DOMAIN rows'[n] \ {0}
        PROVE  \/ g \in DOMAIN rows[n] /\ rows'[n][g] = rows[n][g]
               \/ Sealed(rows'[n][g], log')
    <3>1. rows'[n] = rows[n] \/ rows'[n] = CommitRows(rows[n], h, CertifiedRow(b))
      BY <1>1, <2>1
    <3>2. CASE rows'[n] = rows[n]
      BY <3>2
    <3>3. CASE rows'[n] = CommitRows(rows[n], h, CertifiedRow(b))
      <4>1. (g \in DOMAIN rows[n] /\ rows'[n][g] = rows[n][g]) \/ rows'[n][g] = CertifiedRow(b)
        BY <3>3 DEF CommitRows
      <4>2. QED BY <1>2, <4>1
    <3>4. QED BY <3>1, <3>2, <3>3
  <2>3. QED BY <1>1, <2>1, <2>2, ForgedBefore
<1>4. QED BY <1>3

\* A sync that leaves its node ONLINE leaves it without a forged block.
LEMMA SyncForges ==
    ASSUME TInv, NEW m \in Nodes, SyncNode(m)
    PROVE  ForgedOnline' \subseteq ForgedOnline
<1>1. PICK p \in Nodes : Reconcile(m, p)
  BY DEF SyncNode
<1> DEFINE rs == OverwriteRows(rows[m], rows[p])
           ts == OverwriteTxs(txs[m], rows[p], txs[p])
<1>2. /\ rows' = [rows EXCEPT ![m] = rs]
      /\ status' = [status EXCEPT ![m] = IF Intact(log, rs, ts) THEN "ONLINE" ELSE "CORRUPTED"]
      /\ log' = log
  BY <1>1 DEF Reconcile, SyncNode
<1>3. rs \in [DOMAIN rs -> Row]
  BY OverwriteTyped DEF TInv, TypeOK, Bounded
<1> HIDE DEF rs, ts
<1>4. DOMAIN rows = Nodes /\ DOMAIN status = Nodes
  BY DEF TInv, TypeOK
<1>5. ASSUME NEW n \in ForgedOnline' PROVE n \in ForgedOnline
  <2>1. n \in Nodes /\ status'[n] = "ONLINE"
    BY DEF ForgedOnline
  <2>2. CASE n = m
    <3>1. rows'[m] = rs /\ Intact(log, rs, ts)
      BY <1>2, <1>4, <2>1, <2>2
    <3>2. \A h \in DOMAIN rs \ {0} : Sealed(rs[h], log)
      BY <1>3, <3>1, IntactIsCertified
    <3>3. PICK h \in DOMAIN rows'[m] \ {0} : ~Sealed(rows'[m][h], log')
      BY <2>2, ForgedIsUnsealed
    <3>4. QED BY <1>2, <3>1, <3>2, <3>3
  <2>3. CASE n # m
    <3>1. rows'[n] = rows[n] /\ status[n] = "ONLINE"
      BY <1>2, <1>4, <2>1, <2>3
    <3>2. QED BY <1>2, <2>1, <3>1, ForgedBefore
  <2>4. QED BY <2>2, <2>3
<1>6. QED BY <1>5

\* Nothing brings a second forged node ONLINE: a recovery without a sync finds no
\* other node ONLINE.
LEMMA ForgedStep ==
    ASSUME TInv, ~Restartable, OneForgedOnline, [Next]_vars
    PROVE  OneForgedOnline'
<1>1. ASSUME ForgedOnline' \subseteq ForgedOnline PROVE OneForgedOnline'
  BY <1>1 DEF OneForgedOnline
<1>2. ASSUME \A n \in Nodes : /\ rows'[n] = rows[n] /\ log' = log
                              /\ status'[n] = "ONLINE" => status[n] = "ONLINE"
      PROVE  OneForgedOnline'
  <2>1. ASSUME NEW n \in ForgedOnline' PROVE n \in ForgedOnline
    <3>1. n \in Nodes /\ status'[n] = "ONLINE"
      BY <2>1 DEF ForgedOnline
    <3>2. QED BY <1>2, <2>1, <3>1, ForgedBefore
  <2>2. QED BY <1>1, <2>1
<1>3. ASSUME UNCHANGED <<rows, log, status>> PROVE OneForgedOnline'
  BY <1>2, <1>3
<1>4. ASSUME NEW kind \in Kinds, NEW object \in Objects, ExecuteConsensus(kind, object)
      PROVE  OneForgedOnline'
  BY <1>1, <1>4, ExecuteForges
<1>5. ASSUME NEW b \in inFlight, BroadcastCommit(b) PROVE OneForgedOnline'
  BY <1>1, <1>5, BroadcastForges
<1>6. ASSUME NEW n \in Nodes, FailNode(n) PROVE OneForgedOnline'
  BY <1>2, <1>6 DEF FailNode, storage, TInv, TypeOK
<1>7. ASSUME NEW n \in Nodes, SyncNode(n) PROVE OneForgedOnline'
  BY <1>1, <1>7, SyncForges
<1>8. ASSUME NEW n \in Nodes, RecoverNode(n) PROVE OneForgedOnline'
  <2>1. CASE SyncNode(n)
    BY <1>7, <2>1
  <2>2. CASE OnlinePeers(n) = {} /\ status' = [status EXCEPT ![n] = "ONLINE"]
    <3>1. \A m \in Nodes : status'[m] = "ONLINE" => m = n
      BY <2>2 DEF OnlinePeers, TInv, TypeOK
    <3>2. QED BY <3>1 DEF OneForgedOnline, ForgedOnline
  <2>3. QED BY <1>8, <2>1, <2>2 DEF RecoverNode
<1>9. ASSUME NEW n \in Nodes, NEW mutation, NEW h, TamperNode(n, h, mutation)
      PROVE  OneForgedOnline'
  <2>1. \A m \in ForgedOnline' : m \in ForgedOnline
    <3> TAKE m \in ForgedOnline'
    <3>1. m \in Nodes /\ status'[m] = "ONLINE"
      BY DEF ForgedOnline
    <3>2. m # n /\ rows'[m] = rows[m] /\ status[m] = "ONLINE" /\ log' = log
      BY <1>9, <3>1 DEF TamperNode, TInv, TypeOK
    <3>3. QED BY <3>1, <3>2, ForgedBefore
  <2>2. QED BY <1>1, <2>1
<1>10. ASSUME NEW n, SetLeader(n) \/ IsolateNode(n) \/ ReconnectNode(n) \/ Partition(n) \/ HealPartition
       PROVE  OneForgedOnline'
  BY <1>3, <1>10 DEF SetLeader, IsolateNode, ReconnectNode, Partition, HealPartition, storage
<1>11. ~Restart
  BY DEF Restart
<1>12. CASE UNCHANGED vars
  BY <1>3, <1>12 DEF vars
<1>13. Tamperable \subseteq Nodes
  BY ClusterAssumption
<1>14. QED
  BY <1>4, <1>5, <1>6, <1>7, <1>8, <1>9, <1>10, <1>11, <1>12, <1>13 DEF Next

LEMMA OneForgedInvariant ==
    ASSUME ~Restartable PROVE Spec => [](TInv /\ OneForgedOnline)
<1>1. Init => TInv /\ OneForgedOnline
  <2>1. ASSUME Init PROVE OneForgedOnline
    <3>1. \A n \in Nodes : DOMAIN rows[n] = {0}
      BY <2>1 DEF Init, GenesisRows
    <3>2. ForgedOnline = {}
      BY <3>1 DEF ForgedOnline, ForgedHeights
    <3>3. QED BY <3>2 DEF OneForgedOnline
  <2>2. QED BY <2>1, InitTyped
<1>2. TInv /\ OneForgedOnline /\ [Next]_vars => (TInv /\ OneForgedOnline)'
  BY NextTyped, ForgedStep
<1>3. QED BY <1>1, <1>2, PTL DEF Spec

\* node.routes.ts /tamper, node.ts reconcileChain, multi-node-blockchain.adapter.ts
\* recoverNode: while the process lives, whichever nodes, heights and fields the tamper
\* route is called on, two nodes with a forged block are never ONLINE together.
THEOREM ForgedNodesStandAlone ==
    ASSUME ~Restartable PROVE Spec => []AtMostOneForgedOnline
<1>1. OneForgedOnline => AtMostOneForgedOnline
  <2> SUFFICES ASSUME OneForgedOnline PROVE Cardinality(ForgedOnline) <= 1
    BY DEF AtMostOneForgedOnline, ForgedOnline
  <2>1. CASE ForgedOnline = {}
    BY <2>1, FS_EmptySet
  <2>2. CASE ForgedOnline # {}
    <3>1. PICK n : ForgedOnline = {n}
      BY <2>2 DEF OneForgedOnline
    <3>2. Cardinality({n}) = 1
      BY FS_Singleton
    <3>3. QED BY <3>1, <3>2
  <2>3. QED BY <2>1, <2>2
<1>2. QED BY <1>1, OneForgedInvariant, PTL

\* A node that stands on a forged hash above genesis is forged.
LEMMA StandsOnForgery ==
    ASSUME TInv, NEW n \in Nodes, status[n] = "ONLINE", height[n] \in DOMAIN rows[n],
           height[n] # 0, rows[n][height[n]].hash = Forged
    PROVE  n \in ForgedOnline
<1>1. DOMAIN log = 1..Len(log) /\ Len(log) \in Nat
  BY DEF TInv, TypeOK
<1>2. ~Sealed(rows[n][height[n]], log)
  BY <1>1 DEF Sealed, Forged
<1>3. QED BY <1>2, ForgedIsUnsealed

\* A certificate needs a second voter, who stands where the leader does.
LEMMA ForgeryLacksVotes ==
    ASSUME Quorum > 1, TInv, OneForgedOnline, NEW kind, NEW object, ExecuteConsensus(kind, object),
           rows[leader][height[leader]].hash = Forged
    PROVE  height[leader] = 0
<1> SUFFICES ASSUME height[leader] # 0 PROVE FALSE
  OBVIOUS
<1>1. /\ leader \in Nodes /\ height \in [Nodes -> Nat] /\ Quorum \in Nat
      /\ status[leader] = "ONLINE" /\ height[leader] \in DOMAIN rows[leader]
      /\ Cardinality(Endorsers) >= Quorum
  BY ClusterAssumption DEF ExecuteConsensus, CanPropose, TInv, TypeOK
<1>2. PICK p \in Endorsers : p # leader
  <2>1. Endorsers # {leader}
    <3>1. Cardinality({leader}) = 1
      BY FS_Singleton
    <3>2. QED BY <1>1, <3>1
  <2>2. leader \in Endorsers
    BY DEF Endorsers
  <2>3. QED BY <2>1, <2>2
<1>3. /\ p \in Nodes /\ status[p] = "ONLINE" /\ height[p] \in DOMAIN rows[p]
      /\ height[leader] + 1 = height[p] + 1 /\ rows[p][height[p]].hash = Forged
  BY <1>2 DEF Endorsers, AcceptsCandidate
<1>4. height[p] # 0
  BY <1>1, <1>3
<1>5. leader \in ForgedOnline /\ p \in ForgedOnline
  BY <1>1, <1>3, <1>4, StandsOnForgery
<1>6. QED BY <1>2, <1>5 DEF OneForgedOnline

LEMMA CertificateStep ==
    ASSUME Quorum > 1, TInv, OneForgedOnline, NoCertificateOverForgery, [Next]_vars
    PROVE  NoCertificateOverForgery'
<1>1. ASSUME NEW kind \in Kinds, NEW object \in Objects, ExecuteConsensus(kind, object)
      PROVE  NoCertificateOverForgery'
  <2>1. PICK header : /\ log' = Append(log, header) /\ header.height = height[leader] + 1
                      /\ header.prev = rows[leader][height[leader]].hash
    BY <1>1 DEF ExecuteConsensus
  <2>2. header.prev = Forged => header.height = 1
    BY <1>1, <2>1, ForgeryLacksVotes
  <2>3. \A b \in DOMAIN log' : log'[b] = header \/ (b \in DOMAIN log /\ log'[b] = log[b])
    <3>1. log \in Seq(Header)
      BY DEF TInv, TypeOK
    <3>2. QED BY <2>1, <3>1
  <2>4. QED BY <2>2, <2>3 DEF NoCertificateOverForgery
<1>2. ASSUME UNCHANGED log PROVE NoCertificateOverForgery'
  BY <1>2 DEF NoCertificateOverForgery
<1>3. ASSUME NEW b \in inFlight, BroadcastCommit(b) PROVE UNCHANGED log
  BY <1>3 DEF BroadcastCommit
<1>4. ASSUME NEW n, \/ FailNode(n) \/ RecoverNode(n) \/ SyncNode(n) \/ SetLeader(n)
                    \/ IsolateNode(n) \/ ReconnectNode(n) \/ Partition(n)
      PROVE  UNCHANGED log
  BY <1>4 DEF FailNode, RecoverNode, SyncNode, SetLeader, IsolateNode, ReconnectNode, Partition
<1>5. ASSUME NEW n, NEW h, NEW mutation, TamperNode(n, h, mutation) PROVE UNCHANGED log
  BY <1>5 DEF TamperNode
<1>6. HealPartition \/ Restart \/ UNCHANGED vars => UNCHANGED log
  BY DEF HealPartition, Restart, vars
<1>7. QED
  BY <1>1, <1>2, <1>3, <1>4, <1>5, <1>6 DEF Next

\* consensus.service.ts executeConsensus, node.ts verifyCandidateBlock: while
\* the process lives and a certificate takes more than the leader's vote, no block is
\* certified on top of one whose hash the tamper route wrote, whichever nodes lead.
THEOREM ForgeriesGetNoCertificate ==
    ASSUME ~Restartable, Quorum > 1 PROVE Spec => []NoCertificateOverForgery
<1>1. Init => NoCertificateOverForgery
  BY DEF Init, NoCertificateOverForgery
<1>2. TInv /\ OneForgedOnline /\ NoCertificateOverForgery /\ [Next]_vars => NoCertificateOverForgery'
  BY CertificateStep
<1>3. QED BY <1>1, <1>2, OneForgedInvariant, PTL DEF Spec

------------------------------------------------------------------------------
(* Repair *)

\* An intact source that has every height of the target and every transaction of it
\* leaves nothing of the target in the merged tables but what the source has.
LEMMA OverwriteByIntact ==
    ASSUME NEW rs, NEW ts, NEW peerRows, NEW peerTxs, NEW headers,
           DOMAIN rs \subseteq DOMAIN peerRows,
           \A b \in DOMAIN ts : \E h \in DOMAIN peerRows : b \in TxsAt(peerTxs, h),
           Intact(headers, peerRows, peerTxs),
           peerRows \in [DOMAIN peerRows -> Row]
    PROVE  /\ OverwriteRows(rs, peerRows) = peerRows
           /\ Intact(headers, peerRows, OverwriteTxs(ts, peerRows, peerTxs))
<1> DEFINE merged == OverwriteTxs(ts, peerRows, peerTxs)
           sent == {b \in DOMAIN peerTxs : peerTxs[b].height \in DOMAIN peerRows}
<1>1. OverwriteRows(rs, peerRows) = peerRows
  <2>1. OverwriteRows(rs, peerRows) = [h \in DOMAIN peerRows |-> peerRows[h]]
    <3> DEFINE kept == {h \in DOMAIN rs \ DOMAIN peerRows :
                          \A g \in DOMAIN peerRows : peerRows[g].hash # rs[h].hash}
    <3>1. kept = {}
      OBVIOUS
    <3>2. OverwriteRows(rs, peerRows) =
             [h \in DOMAIN peerRows \cup kept |-> IF h \in DOMAIN peerRows THEN peerRows[h] ELSE rs[h]]
      BY DEF OverwriteRows
    <3> HIDE DEF kept
    <3>3. QED BY <3>1, <3>2
  <2>2. QED BY <2>1
<1>2. DOMAIN ts \subseteq sent
  BY DEF TxsAt
<1>3. DOMAIN merged = sent /\ \A b \in sent : merged[b] = peerTxs[b]
  BY <1>2 DEF OverwriteTxs
<1> HIDE DEF merged
<1>4. \A h \in DOMAIN peerRows : TxsAt(merged, h) = TxsAt(peerTxs, h)
  BY <1>3 DEF TxsAt
<1>5. \A h \in DOMAIN peerRows : \A b \in TxsAt(merged, h) : merged[b] = peerTxs[b]
  BY <1>3 DEF TxsAt
<1>6. Intact(headers, peerRows, merged)
  BY <1>4, <1>5 DEF Intact
<1>7. QED BY <1>1, <1>6 DEF merged

LEMMA SyncHeals ==
    ASSUME TInv, NEW n \in Nodes, NEW p \in Nodes, IsSyncSource(p, n), IntactNode(p),
           DOMAIN rows[n] \subseteq DOMAIN rows[p],
           \A b \in DOMAIN txs[n] : \E h \in DOMAIN rows[p] : b \in TxsAt(txs[p], h),
           SyncNode(n)
    PROVE  status'[n] = "ONLINE" /\ rows'[n] = rows[p]
<1>1. PICK q \in Nodes : IsSyncSource(q, n) /\ Reconcile(n, q)
  BY DEF SyncNode
<1>2. q = p
  BY <1>1 DEF IsSyncSource, Nodes, TInv, TypeOK
<1>3. rows[p] \in [DOMAIN rows[p] -> Row] /\ DOMAIN rows = Nodes /\ DOMAIN status = Nodes
  BY DEF TInv, TypeOK
<1>4. /\ OverwriteRows(rows[n], rows[p]) = rows[p]
      /\ Intact(log, rows[p], OverwriteTxs(txs[n], rows[p], txs[p]))
  BY <1>3, OverwriteByIntact DEF IntactNode
<1>5. /\ rows' = [rows EXCEPT ![n] = rows[p]]
      /\ status' = [status EXCEPT ![n] = "ONLINE"]
  BY <1>1, <1>2, <1>4 DEF Reconcile
<1>6. QED BY <1>3, <1>5

\* multi-node-blockchain.adapter.ts syncNode, node.ts reconcileChain: from any state calls of the tamper route
\* and restarts leave, one sync with an intact peer that lacks nothing makes a node's blocks that
\* peer's, and the node ONLINE.
THEOREM IntactPeerHeals == Spec => SyncFromIntactPeerHeals
<1>1. TInv => \A n, p \in Nodes :
        (/\ IsSyncSource(p, n) /\ IntactNode(p)
         /\ DOMAIN rows[n] \subseteq DOMAIN rows[p]
         /\ \A b \in DOMAIN txs[n] : \E h \in DOMAIN rows[p] : b \in TxsAt(txs[p], h)
         /\ SyncNode(n))
        => status'[n] = "ONLINE" /\ rows'[n] = rows[p]
  BY SyncHeals
<1>2. Spec => []TInv
  BY TypeCorrectness DEF TInv
<1>3. QED BY <1>1, <1>2, PTL DEF SyncFromIntactPeerHeals

------------------------------------------------------------------------------
(* The audit *)

\* The integrity check finds every hole: from the height a node stands on its
\* rows reach down to genesis.
LEMMA IntactHasNoHole ==
    ASSUME NEW headers, NEW rs, NEW ts, Intact(headers, rs, ts),
           DOMAIN rs \subseteq Nat, NEW top \in DOMAIN rs
    PROVE  0..top \subseteq DOMAIN rs
<1> DEFINE missing == (0..top) \ DOMAIN rs
<1>1. top \in Nat
  OBVIOUS
<1>2. SUFFICES ASSUME missing # {} PROVE FALSE
  OBVIOUS
<1>3. missing \subseteq Nat /\ \A g \in missing : g <= top
  BY <1>1
<1> HIDE DEF missing
<1>4. PICK m \in missing : \A g \in missing : g <= m
  BY <1>1, <1>2, <1>3, GreatestExists
<1>5. m \in Nat /\ m < top /\ m \notin DOMAIN rs
  BY <1>1, <1>3, <1>4 DEF missing
<1>6. m + 1 \in 0..top /\ m + 1 \notin missing
  BY <1>1, <1>3, <1>4, <1>5
<1>7. m + 1 \in DOMAIN rs \ {0}
  BY <1>5, <1>6 DEF missing
<1>8. (m + 1) - 1 \in DOMAIN rs
  BY <1>7 DEF Intact
<1>9. QED BY <1>5, <1>8

\* Two chains that pass the check and have one hash at one height are one chain below.
LEMMA OneHashOneChain ==
    ASSUME NEW rs, NEW ts, NEW rs2, NEW ts2, Intact(log, rs, ts), Intact(log, rs2, ts2),
           rs \in [DOMAIN rs -> Row], rs2 \in [DOMAIN rs2 -> Row],
           DOMAIN rs \subseteq Nat, DOMAIN rs2 \subseteq Nat,
           NEW top \in DOMAIN rs \cap DOMAIN rs2, rs[top].hash = rs2[top].hash,
           NEW h \in 1..top
    PROVE  rs[h] = rs2[h]
<1>1. top \in Nat /\ 0..top \subseteq DOMAIN rs /\ 0..top \subseteq DOMAIN rs2
  BY IntactHasNoHole
<1>2. \A g \in 1..top : g \in DOMAIN rs \ {0} /\ g \in DOMAIN rs2 \ {0}
  BY <1>1
<1>3. \A g \in 1..top : rs[g].hash = rs2[g].hash => rs[g] = rs2[g]
  <2>1. \A g \in 1..top : Sealed(rs[g], log) /\ Sealed(rs2[g], log)
    BY <1>2, IntactIsCertified
  <2>2. QED BY <2>1 DEF Sealed
<1> DEFINE differ == {g \in 1..top : rs[g] # rs2[g]}
<1>4. SUFFICES ASSUME differ # {} PROVE FALSE
  OBVIOUS
<1>5. differ \subseteq Nat /\ \A g \in differ : g <= top
  BY <1>1
<1>6. PICK m \in differ : \A g \in differ : g <= m
  <2> HIDE DEF differ
  <2>1. QED BY <1>1, <1>4, <1>5, GreatestExists
<1>7. m \in 1..top /\ m # top
  BY <1>1, <1>3, <1>6
<1>8. m + 1 \in 1..top /\ rs[m + 1] = rs2[m + 1]
  BY <1>1, <1>6, <1>7
<1>9. rs[m + 1].prev = rs[(m + 1) - 1].hash /\ rs2[m + 1].prev = rs2[(m + 1) - 1].hash
  BY <1>2, <1>8 DEF Intact
<1>10. rs[m].hash = rs2[m].hash
  BY <1>7, <1>8, <1>9
<1>11. QED BY <1>3, <1>6, <1>7, <1>10

\* A node stands on a row, and no certified block can pass for genesis.
Rooted ==
    /\ \A n \in Nodes : height[n] \in DOMAIN rows[n]
    /\ \A n \in Nodes : 0 \in DOMAIN rows[n] => rows[n][0].hash \in {GenesisHash, Forged}
    /\ \A b \in DOMAIN log : log[b].height # 0

\* What a commit of a certified block above genesis leaves at height 0.
LEMMA CommitRoots ==
    ASSUME NEW rs, NEW h, h # 0, NEW row
    PROVE  /\ h \in DOMAIN CommitRows(rs, h, row)
           /\ 0 \in DOMAIN CommitRows(rs, h, row) =>
                 0 \in DOMAIN rs /\ CommitRows(rs, h, row)[0] = rs[0]
BY DEF CommitRows

LEMMA ExecuteRoots ==
    ASSUME TInv, Rooted, NEW kind, NEW object, ExecuteConsensus(kind, object)
    PROVE  Rooted'
<1> DEFINE h == height[leader] + 1
           row == [hash |-> Len(log) + 1, prev |-> rows[leader][height[leader]].hash,
                   root |-> Len(log) + 1]
<1>1. /\ rows' = [rows EXCEPT ![leader] = CommitRows(@, h, row)]
      /\ height' = [height EXCEPT ![leader] = h]
      /\ DOMAIN rows = Nodes /\ DOMAIN height = Nodes /\ leader \in Nodes
      /\ height[leader] \in Nat /\ log \in Seq(Header)
      /\ \E header : log' = Append(log, header) /\ header.height = h
  BY DEF ExecuteConsensus, TInv, TypeOK
<1>2. h # 0
  BY <1>1
<1> HIDE DEF h, row
<1>3. \A n \in Nodes : /\ height'[n] \in DOMAIN rows'[n]
                       /\ 0 \in DOMAIN rows'[n] => 0 \in DOMAIN rows[n] /\ rows'[n][0] = rows[n][0]
  <2> TAKE n \in Nodes
  <2>1. CASE n = leader
    <3>1. rows'[n] = CommitRows(rows[n], h, row) /\ height'[n] = h
      BY <1>1, <2>1
    <3>2. QED BY <1>2, <3>1, CommitRoots
  <2>2. CASE n # leader
    <3>1. rows'[n] = rows[n] /\ height'[n] = height[n]
      BY <1>1, <2>2
    <3>2. QED BY <3>1 DEF Rooted
  <2>3. QED BY <2>1, <2>2
<1>4. \A b \in DOMAIN log' : log'[b].height # 0
  <2>1. PICK header : log' = Append(log, header) /\ header.height = h
    BY <1>1
  <2>2. \A b \in DOMAIN log' : log'[b] = header \/ (b \in DOMAIN log /\ log'[b] = log[b])
    BY <1>1, <2>1
  <2>3. QED BY <1>2, <2>1, <2>2 DEF Rooted
<1>5. QED BY <1>3, <1>4 DEF Rooted

LEMMA BroadcastRoots ==
    ASSUME TInv, Rooted, NEW b \in inFlight, BroadcastCommit(b)
    PROVE  Rooted'
<1> DEFINE h == log[b].height
           to == Receivers(b)
<1>1. /\ \A n \in Nodes : /\ rows'[n] = IF n \in to THEN CommitRows(rows[n], h, CertifiedRow(b))
                                        ELSE rows[n]
                          /\ height'[n] = IF n \in to THEN h ELSE height[n]
      /\ log' = log /\ b \in DOMAIN log
  BY DEF BroadcastCommit, TInv, TypeOK
<1>2. h # 0
  BY <1>1 DEF Rooted
<1> HIDE DEF h, to
<1>3. \A n \in Nodes : /\ height'[n] \in DOMAIN rows'[n]
                       /\ 0 \in DOMAIN rows'[n] => 0 \in DOMAIN rows[n] /\ rows'[n][0] = rows[n][0]
  <2> TAKE n \in Nodes
  <2>1. CASE n \in to
    <3>1. rows'[n] = CommitRows(rows[n], h, CertifiedRow(b)) /\ height'[n] = h
      BY <1>1, <2>1
    <3>2. QED BY <1>2, <3>1, CommitRoots
  <2>2. CASE n \notin to
    <3>1. rows'[n] = rows[n] /\ height'[n] = height[n]
      BY <1>1, <2>2
    <3>2. QED BY <3>1 DEF Rooted
  <2>3. QED BY <2>1, <2>2
<1>4. QED BY <1>1, <1>3 DEF Rooted

LEMMA SyncRoots ==
    ASSUME TInv, Rooted, NEW m \in Nodes, SyncNode(m)
    PROVE  Rooted'
<1>1. PICK p \in Nodes : Reconcile(m, p)
  BY DEF SyncNode
<1> DEFINE rs == OverwriteRows(rows[m], rows[p])
<1>2. /\ rows' = [rows EXCEPT ![m] = rs] /\ height' = [height EXCEPT ![m] = TopHeight(rs)]
      /\ log' = log /\ DOMAIN rows = Nodes /\ DOMAIN height = Nodes /\ Len(log) \in Nat
  BY <1>1 DEF Reconcile, SyncNode, TInv, TypeOK
<1>3. 0 \in DOMAIN rs => \E q \in Nodes : 0 \in DOMAIN rows[q] /\ rs[0] = rows[q][0]
  BY DEF OverwriteRows
<1>4. DOMAIN rs # {} /\ DOMAIN rs \subseteq 0..Len(log)
  BY DEF OverwriteRows, TInv, Bounded
<1> HIDE DEF rs
<1>5. TopHeight(rs) \in DOMAIN rs
  BY <1>2, <1>4, TopHeightOfNode
<1>6. QED BY <1>2, <1>3, <1>5 DEF Rooted

LEMMA TamperRoots ==
    ASSUME TInv, Rooted, NEW m \in Nodes, NEW h, NEW mutation, TamperNode(m, h, mutation)
    PROVE  Rooted'
<1>1. /\ rows' = [rows EXCEPT ![m] = TamperRows(@, h, mutation)]
      /\ height' = height /\ log' = log /\ DOMAIN rows = Nodes
  BY DEF TamperNode, TInv, TypeOK
<1>2. /\ DOMAIN TamperRows(rows[m], h, mutation) = DOMAIN rows[m]
      /\ 0 \in DOMAIN rows[m] =>
            TamperRows(rows[m], h, mutation)[0].hash \in {rows[m][0].hash, Forged}
  BY DEF TamperRows
<1>3. QED BY <1>1, <1>2 DEF Rooted

LEMMA RootedStep ==
    ASSUME TInv, Rooted, [Next]_vars PROVE Rooted'
<1>1. ASSUME NEW kind \in Kinds, NEW object \in Objects, ExecuteConsensus(kind, object) PROVE Rooted'
  BY <1>1, ExecuteRoots
<1>2. ASSUME NEW b \in inFlight, BroadcastCommit(b) PROVE Rooted'
  BY <1>2, BroadcastRoots
<1>3. ASSUME NEW n \in Nodes, SyncNode(n) PROVE Rooted'
  BY <1>3, SyncRoots
<1>4. ASSUME UNCHANGED <<rows, height, log>> PROVE Rooted'
  BY <1>4 DEF Rooted
<1>5. ASSUME NEW n \in Nodes, RecoverNode(n) PROVE Rooted'
  BY <1>3, <1>4, <1>5 DEF RecoverNode, storage
<1>6. ASSUME NEW n \in Nodes, NEW h, NEW mutation, TamperNode(n, h, mutation) PROVE Rooted'
  BY <1>6, TamperRoots
<1>7. ASSUME NEW n, FailNode(n) \/ SetLeader(n) \/ IsolateNode(n) \/ ReconnectNode(n)
                    \/ Partition(n) \/ HealPartition
      PROVE  Rooted'
  BY <1>4, <1>7 DEF FailNode, SetLeader, IsolateNode, ReconnectNode, Partition, HealPartition, storage
<1>8. ASSUME Restart PROVE Rooted'
  <2>1. /\ rows' = rows /\ log' = log
        /\ \A n \in Nodes : height'[n] = TopHeight(rows[n])
    BY <1>8 DEF Restart, storage
  <2>2. \A n \in Nodes : TopHeight(rows[n]) \in DOMAIN rows[n]
    <3>1. Len(log) \in Nat
      BY DEF TInv, TypeOK
    <3>2. \A n \in Nodes : DOMAIN rows[n] # {} /\ DOMAIN rows[n] \subseteq 0..Len(log)
      BY DEF TInv, Bounded
    <3>3. QED BY <3>1, <3>2, TopHeightOfNode
  <2>3. QED BY <2>1, <2>2 DEF Rooted
<1>9. CASE UNCHANGED vars
  BY <1>4, <1>9 DEF vars
<1>10. Tamperable \subseteq Nodes
  BY ClusterAssumption
<1>11. QED
  BY <1>1, <1>2, <1>3, <1>5, <1>6, <1>7, <1>8, <1>9, <1>10 DEF Next

\* Nodes that pass the audit stand at one height, on one hash.
LEMMA AuditedHeights ==
    ASSUME TInv, Rooted, NEW n \in Nodes, NEW m \in Nodes, IntactNode(n), IntactNode(m),
           LastHash(n) = LastHash(m)
    PROVE  height[n] = height[m] /\ rows[n][height[n]].hash = rows[m][height[m]].hash
<1>1. \A p \in Nodes : /\ height[p] \in DOMAIN rows[p]
                       /\ LastHash(p) = {rows[p][height[p]].hash}
                       /\ rows[p] \in [DOMAIN rows[p] -> Row]
  BY DEF Rooted, LastHash, TInv, TypeOK
<1>2. rows[n][height[n]].hash = rows[m][height[m]].hash
  BY <1>1
<1>3. ASSUME NEW p \in {n, m}, height[p] # 0
      PROVE  /\ rows[p][height[p]].hash \in DOMAIN log
             /\ log[rows[p][height[p]].hash].height = height[p]
  BY <1>1, <1>3 DEF IntactNode, Intact, HeaderHashes
<1>4. ASSUME NEW p \in {n, m}, height[p] = 0
      PROVE  rows[p][height[p]].hash \notin DOMAIN log
  <2>1. DOMAIN log = 1..Len(log) /\ Len(log) \in Nat
    BY DEF TInv, TypeOK
  <2>2. rows[p][height[p]].hash \in {GenesisHash, Forged}
    BY <1>1, <1>4 DEF Rooted
  <2>3. QED BY <2>1, <2>2 DEF GenesisHash, Forged
<1>5. QED BY <1>2, <1>3, <1>4

LEMMA AuditFollows ==
    ASSUME TInv, Rooted PROVE AuditIsSound
<1> SUFFICES ASSUME AuditConsistent, NEW n \in Nodes
             PROVE  /\ height[n] = height[Alpha]
                    /\ \A h \in 1..height[Alpha] : rows[n][h] = rows[Alpha][h]
  BY DEF AuditIsSound
<1>1. Alpha \in Nodes
  BY ClusterAssumption
<1>2. \A m \in Nodes : IntactNode(m) /\ LastHash(m) = LastHash(Alpha)
  BY DEF AuditConsistent, Diverged
<1>3. height[n] = height[Alpha] /\ rows[n][height[n]].hash = rows[Alpha][height[Alpha]].hash
  BY <1>1, <1>2, AuditedHeights
<1>4. \A m \in Nodes : /\ rows[m] \in [DOMAIN rows[m] -> Row] /\ DOMAIN rows[m] \subseteq Nat
                       /\ height[m] \in DOMAIN rows[m]
  BY DEF Rooted, TInv, TypeOK
<1>5. \A h \in 1..height[Alpha] : rows[n][h] = rows[Alpha][h]
  BY <1>1, <1>2, <1>3, <1>4, OneHashOneChain DEF IntactNode
<1>6. QED BY <1>3, <1>5

\* multi-node-blockchain.adapter.ts verifyCrossNodeLedger: it compares one hash per node, and
\* calls the cluster consistent only when all nodes hold the same blocks up to the
\* reported height, whatever the tamper route was called on, whoever led and whatever
\* restarted.
THEOREM AuditComparesWholeChains == Spec => []AuditIsSound
<1>1. Init => Rooted
  BY DEF Init, Rooted, GenesisRows
<1>2. TInv /\ Rooted /\ [Next]_vars => Rooted'
  BY RootedStep
<1>3. TInv /\ Rooted => AuditIsSound
  BY AuditFollows
<1>4. Spec => []TInv
  BY TypeCorrectness DEF TInv
<1>5. QED BY <1>1, <1>2, <1>3, <1>4, PTL DEF Spec
==============================================================================
