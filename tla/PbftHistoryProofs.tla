------------------------- MODULE PbftHistoryProofs --------------------------
(***************************************************************************)
(* The certified history of the in-process consortium, for every number of *)
(* nodes, every quorum, every partition and any crashes and restarts, when  *)
(* nobody tampers with a database and Alpha stays the leader.              *)
(*                                                                         *)
(* The argument: the hash of a certified block determines its height, so a  *)
(* commit never removes another row, and every table is a part of the one   *)
(* canonical chain.  Writes of late broadcasts and of reconciliations then   *)
(* only rewrite a row by itself or add a missing one.                       *)
(***************************************************************************)
EXTENDS PbftClusterProofs

ChainRow(h) == [hash |-> h, prev |-> h - 1, root |-> h]
ChainTx(b) == [height |-> b, intact |-> TRUE]

\* The tables hold genesis and a part of the chain of n certified blocks.
Canonical(rs, ts, n) ==
    /\ 0 \in DOMAIN rs /\ rs[0] = GenesisRows[0]
    /\ DOMAIN rs \subseteq 0..n
    /\ \A h \in DOMAIN rs \ {0} : rs[h] = ChainRow(h) /\ h \in DOMAIN ts
    /\ \A b \in DOMAIN ts : ts[b] = ChainTx(b)

HInv ==
    /\ leader = Alpha
    /\ \A b \in DOMAIN log : log[b].by = Alpha
    /\ CertifiedHistoryIsOneChain
    /\ \A n \in Nodes : Canonical(rows[n], txs[n], Len(log))
    /\ LeaderHoldsHistory
    /\ \A n \in Nodes : height[n] \in DOMAIN rows[n]

\* No node loses a block.
TablesGrow == \A n \in Nodes : DOMAIN rows[n] \subseteq DOMAIN rows'[n]

------------------------------------------------------------------------------
(* Lemmas about canonical tables *)

\* In a canonical table a row's hash is its height: no two rows collide.
LEMMA CanonicalHash ==
    ASSUME NEW rs, NEW ts, NEW n \in Nat, Canonical(rs, ts, n), NEW h \in DOMAIN rs
    PROVE  rs[h].hash = h
<1>1. CASE h = 0
  BY <1>1 DEF Canonical, GenesisRows, GenesisHash
<1>2. CASE h # 0
  BY <1>2 DEF Canonical, ChainRow
<1>3. QED BY <1>1, <1>2

\* Committing the chain's block h adds its row and changes no other.
LEMMA CanonicalCommit ==
    ASSUME NEW rs, NEW ts, NEW n \in Nat, Canonical(rs, ts, n), NEW h \in 1..n
    PROVE  /\ Canonical(CommitRows(rs, h, ChainRow(h)), CommitTxs(ts, h, h), n)
           /\ DOMAIN CommitRows(rs, h, ChainRow(h)) = DOMAIN rs \cup {h}
           /\ DOMAIN CommitTxs(ts, h, h) = DOMAIN ts \cup {h}
<1> DEFINE newRows == CommitRows(rs, h, ChainRow(h))
           newTxs == CommitTxs(ts, h, h)
<1>1. \A g \in DOMAIN rs : rs[g].hash = g
  BY CanonicalHash
<1>2. ChainRow(h).hash = h
  BY DEF ChainRow
<1>3. newRows = [g \in DOMAIN rs \cup {h} |-> IF g = h THEN ChainRow(h) ELSE rs[g]]
  <2>1. {g \in DOMAIN rs : rs[g].hash # h} \cup {h} = DOMAIN rs \cup {h}
    BY <1>1
  <2>2. QED BY <1>2, <2>1 DEF CommitRows
<1>4. newTxs = [c \in DOMAIN ts \cup {h} |-> IF c = h THEN ChainTx(h) ELSE ts[c]]
  BY DEF CommitTxs, ChainTx
<1> HIDE DEF newRows, newTxs
<1>5. 0 \in DOMAIN newRows /\ newRows[0] = GenesisRows[0]
  BY <1>3 DEF Canonical
<1>6. DOMAIN newRows \subseteq 0..n
  BY <1>3 DEF Canonical
<1>7. \A g \in DOMAIN newRows \ {0} : newRows[g] = ChainRow(g) /\ g \in DOMAIN newTxs
  BY <1>3, <1>4 DEF Canonical
<1>8. \A b \in DOMAIN newTxs : newTxs[b] = ChainTx(b)
  BY <1>4 DEF Canonical
<1>9. Canonical(newRows, newTxs, n)
  BY <1>5, <1>6, <1>7, <1>8 DEF Canonical
<1>10. QED BY <1>3, <1>4, <1>9 DEF newRows, newTxs

\* Overwriting a canonical table with another merges the two.
LEMMA CanonicalOverwrite ==
    ASSUME NEW rs, NEW ts, NEW peerRows, NEW peerTxs, NEW n \in Nat,
           Canonical(rs, ts, n), Canonical(peerRows, peerTxs, n)
    PROVE  /\ Canonical(OverwriteRows(rs, peerRows),
                        OverwriteTxs(ts, peerRows, peerTxs), n)
           /\ DOMAIN OverwriteRows(rs, peerRows) = DOMAIN rs \cup DOMAIN peerRows
           /\ DOMAIN ts \subseteq DOMAIN OverwriteTxs(ts, peerRows, peerTxs)
<1> DEFINE newRows == OverwriteRows(rs, peerRows)
           newTxs == OverwriteTxs(ts, peerRows, peerTxs)
           sent == {b \in DOMAIN peerTxs : peerTxs[b].height \in DOMAIN peerRows}
<1>1. /\ \A g \in DOMAIN rs : rs[g].hash = g
      /\ \A g \in DOMAIN peerRows : peerRows[g].hash = g
  BY CanonicalHash
<1>2. newRows = [h \in DOMAIN rs \cup DOMAIN peerRows |->
                    IF h \in DOMAIN peerRows THEN peerRows[h] ELSE rs[h]]
  <2> DEFINE kept == {h \in DOMAIN rs \ DOMAIN peerRows :
                         \A g \in DOMAIN peerRows : peerRows[g].hash # rs[h].hash}
  <2>1. kept = DOMAIN rs \ DOMAIN peerRows
    BY <1>1
  <2>2. DOMAIN peerRows \cup kept = DOMAIN rs \cup DOMAIN peerRows
    BY <2>1
  <2>3. QED BY <2>2 DEF OverwriteRows
<1>3. newTxs = [b \in DOMAIN ts \cup sent |-> IF b \in sent THEN peerTxs[b] ELSE ts[b]]
  BY DEF OverwriteTxs
<1>4. \A h \in DOMAIN peerRows \ {0} : h \in sent
  BY DEF Canonical, ChainTx
<1>5. sent \subseteq DOMAIN peerTxs
  OBVIOUS
<1> HIDE DEF newRows, newTxs, sent
<1>6. 0 \in DOMAIN newRows /\ newRows[0] = GenesisRows[0]
  BY <1>2 DEF Canonical
<1>7. DOMAIN newRows \subseteq 0..n
  BY <1>2 DEF Canonical
<1>8. \A h \in DOMAIN newRows \ {0} : newRows[h] = ChainRow(h) /\ h \in DOMAIN newTxs
  BY <1>2, <1>3, <1>4 DEF Canonical
<1>9. \A b \in DOMAIN newTxs : newTxs[b] = ChainTx(b)
  BY <1>3, <1>5 DEF Canonical
<1>10. Canonical(newRows, newTxs, n)
  BY <1>6, <1>7, <1>8, <1>9 DEF Canonical
<1>11. QED BY <1>2, <1>3, <1>10 DEF newRows, newTxs

\* A longer history keeps every canonical table canonical.
LEMMA CanonicalExtends ==
    ASSUME NEW rs, NEW ts, NEW n \in Nat, Canonical(rs, ts, n)
    PROVE  Canonical(rs, ts, n + 1)
<1>1. 0..n \subseteq 0..(n + 1)
  OBVIOUS
<1>2. QED BY <1>1 DEF Canonical

\* The block of log entry b, once the history is one chain.
LEMMA CertifiedIsChainRow ==
    ASSUME CertifiedHistoryIsOneChain, NEW b \in DOMAIN log
    PROVE  CertifiedRow(b) = ChainRow(b) /\ log[b].height = b
BY DEF CertifiedHistoryIsOneChain, CertifiedRow, ChainRow

\* A table whose heights are 0..n has top height n.
LEMMA TopHeightOfInterval ==
    ASSUME NEW rs, NEW n \in Nat, DOMAIN rs = 0..n
    PROVE  TopHeight(rs) = n
<1>1. /\ TopHeight(rs) \in DOMAIN rs
      /\ \A g \in DOMAIN rs : g <= TopHeight(rs)
  <2>1. DOMAIN rs # {} /\ DOMAIN rs \subseteq 0..n
    OBVIOUS
  <2>2. QED BY <2>1, TopHeightOfNode
<1>2. n \in DOMAIN rs
  OBVIOUS
<1>3. QED BY <1>1, <1>2

------------------------------------------------------------------------------
(* The steps *)

\* What the history invariant and the types say of the values at hand.
LEMMA HistoryFacts ==
    ASSUME TypeOK, HInv
    PROVE  /\ Len(log) \in Nat /\ DOMAIN log = 1..Len(log) /\ Alpha \in Nodes
           /\ height[Alpha] = Len(log)
           /\ DOMAIN rows[Alpha] = 0..Len(log)
           /\ DOMAIN txs[Alpha] = DOMAIN log
BY ClusterAssumption DEF TypeOK, HInv, LeaderHoldsHistory

LEMMA InitHistory == Init => HInv
<1> SUFFICES ASSUME Init PROVE HInv
  OBVIOUS
<1>1. log = <<>> /\ Len(log) = 0 /\ DOMAIN log = {}
  BY DEF Init
<1>2. \A n \in Nodes : rows[n] = GenesisRows /\ txs[n] = NoTxs /\ height[n] = 0
  BY DEF Init
<1>3. /\ DOMAIN GenesisRows = {0}
      /\ DOMAIN NoTxs = {} /\ 0..0 = {0}
  BY DEF GenesisRows, NoTxs
<1>4. Canonical(GenesisRows, NoTxs, 0)
  BY <1>3 DEF Canonical
<1>5. leader = Alpha /\ Alpha \in Nodes
  BY ClusterAssumption DEF Init
<1>6. LeaderHoldsHistory
  BY <1>1, <1>2, <1>3, <1>5 DEF LeaderHoldsHistory
<1>7. CertifiedHistoryIsOneChain
  BY <1>1 DEF CertifiedHistoryIsOneChain
<1>8. QED BY <1>1, <1>2, <1>3, <1>4, <1>5, <1>6, <1>7 DEF HInv

\* The leader's row is the chain's next one: its top row is the last certified
\* block.
LEMMA ExecuteConsensusHistory ==
    ASSUME TypeOK, HInv, NEW kind \in Kinds, NEW object \in Objects,
           ExecuteConsensus(kind, object)
    PROVE  HInv' /\ TablesGrow
<1> DEFINE b == Len(log) + 1
<1>1. /\ Len(log) \in Nat /\ DOMAIN log = 1..Len(log) /\ Alpha \in Nodes
      /\ height[Alpha] = Len(log)
      /\ DOMAIN rows[Alpha] = 0..Len(log)
      /\ DOMAIN txs[Alpha] = DOMAIN log
      /\ leader = Alpha
      /\ log \in Seq(Header)
      /\ DOMAIN rows = Nodes /\ DOMAIN txs = Nodes /\ height \in [Nodes -> Nat]
  BY HistoryFacts DEF HInv, TypeOK
<1>2. rows[Alpha][Len(log)].hash = Len(log)
  BY <1>1, CanonicalHash DEF HInv
<1>3. /\ log' = Append(log, [height |-> b, prev |-> Len(log), kind |-> kind,
                             object |-> object, by |-> Alpha])
      /\ rows' = [rows EXCEPT ![Alpha] = CommitRows(@, b, ChainRow(b))]
      /\ txs' = [txs EXCEPT ![Alpha] = CommitTxs(@, b, b)]
      /\ height' = [height EXCEPT ![Alpha] = b]
      /\ leader' = Alpha
  <2>1. ChainRow(b) = [hash |-> b, prev |-> Len(log), root |-> b]
    BY <1>1 DEF ChainRow
  <2>2. QED BY <1>1, <1>2, <2>1 DEF ExecuteConsensus
<1> HIDE DEF b
<1>4. b \in Nat /\ b = Len(log) + 1 /\ b \in 1..b
  BY <1>1 DEF b
<1>5. /\ Len(log') = b /\ DOMAIN log' = 1..b /\ 1..b = DOMAIN log \cup {b}
      /\ \A c \in DOMAIN log : log'[c] = log[c]
      /\ log'[b].height = b /\ log'[b].prev = b - 1 /\ log'[b].by = Alpha
  BY <1>1, <1>3, <1>4
<1>6. \A n \in Nodes : Canonical(rows[n], txs[n], b)
  BY <1>1, <1>4, CanonicalExtends DEF HInv
<1> DEFINE newRows == CommitRows(rows[Alpha], b, ChainRow(b))
           newTxs == CommitTxs(txs[Alpha], b, b)
<1>7. /\ Canonical(newRows, newTxs, b)
      /\ DOMAIN newRows = DOMAIN rows[Alpha] \cup {b}
      /\ DOMAIN newTxs = DOMAIN txs[Alpha] \cup {b}
  <2>1. Canonical(rows[Alpha], txs[Alpha], b)
    BY <1>1, <1>6
  <2>2. b \in Nat
    BY <1>4
  <2>3. b \in 1..b
    BY <1>4
  <2>4. QED BY <2>1, <2>2, <2>3, CanonicalCommit
<1> HIDE DEF newRows, newTxs
<1>8. /\ rows'[Alpha] = newRows /\ txs'[Alpha] = newTxs /\ height'[Alpha] = b
      /\ \A n \in Nodes \ {Alpha} :
            rows'[n] = rows[n] /\ txs'[n] = txs[n] /\ height'[n] = height[n]
  BY <1>1, <1>3 DEF newRows, newTxs
<1>9. \A n \in Nodes : Canonical(rows'[n], txs'[n], Len(log'))
  <2> TAKE n \in Nodes
  <2>1. CASE n = Alpha
    BY <1>5, <1>7, <1>8, <2>1
  <2>2. CASE n # Alpha
    BY <1>5, <1>6, <1>8, <2>2
  <2>3. QED BY <2>1, <2>2
<1>10. LeaderHoldsHistory'
  <2>1. 0..b = 0..Len(log) \cup {b}
    BY <1>1, <1>4
  <2>2. QED BY <1>1, <1>3, <1>5, <1>7, <1>8, <2>1 DEF LeaderHoldsHistory
<1>11. CertifiedHistoryIsOneChain'
  BY <1>5 DEF HInv, CertifiedHistoryIsOneChain
<1>12. \A c \in DOMAIN log' : log'[c].by = Alpha
  BY <1>5 DEF HInv
<1>13. \A n \in Nodes : height'[n] \in DOMAIN rows'[n]
  <2> TAKE n \in Nodes
  <2>1. CASE n = Alpha
    BY <1>7, <1>8, <2>1
  <2>2. CASE n # Alpha
    BY <1>8, <2>2 DEF HInv
  <2>3. QED BY <2>1, <2>2
<1>14. TablesGrow
  BY <1>7, <1>8 DEF TablesGrow
<1>15. QED BY <1>3, <1>9, <1>10, <1>11, <1>12, <1>13, <1>14 DEF HInv

\* A late broadcast rewrites a peer's row by itself or adds it.
LEMMA BroadcastCommitHistory ==
    ASSUME TypeOK, HInv, NEW b \in inFlight, BroadcastCommit(b)
    PROVE  HInv' /\ TablesGrow
<1> DEFINE to == Receivers(b)
<1>1. /\ Len(log) \in Nat /\ DOMAIN log = 1..Len(log) /\ Alpha \in Nodes
      /\ b \in 1..Len(log) /\ b \in Nat
      /\ log[b].height = b /\ CertifiedRow(b) = ChainRow(b)
      /\ log[b].by = Alpha /\ leader = Alpha
  <2>1. b \in DOMAIN log
    BY DEF TypeOK
  <2>2. QED BY <2>1, HistoryFacts, CertifiedIsChainRow DEF HInv
<1>2. Alpha \notin to
  BY <1>1 DEF Receivers
<1> HIDE DEF to
<1>3. /\ rows' = [n \in Nodes |->
             IF n \in to THEN CommitRows(rows[n], b, ChainRow(b)) ELSE rows[n]]
      /\ txs' = [n \in Nodes |-> IF n \in to THEN CommitTxs(txs[n], b, b) ELSE txs[n]]
      /\ height' = [n \in Nodes |-> IF n \in to THEN b ELSE height[n]]
      /\ leader' = leader /\ log' = log
  BY <1>1 DEF BroadcastCommit, to
<1>4. \A n \in Nodes :
         /\ Canonical(CommitRows(rows[n], b, ChainRow(b)),
                      CommitTxs(txs[n], b, b), Len(log))
         /\ DOMAIN CommitRows(rows[n], b, ChainRow(b)) = DOMAIN rows[n] \cup {b}
  <2> TAKE n \in Nodes
  <2> DEFINE top == Len(log)
             rs == rows[n]
             ts == txs[n]
  <2>1. Canonical(rs, ts, top) /\ top \in Nat /\ b \in 1..top /\ b \in Nat
    BY <1>1 DEF HInv
  <2> HIDE DEF top, rs, ts
  <2>2. /\ Canonical(CommitRows(rs, b, ChainRow(b)), CommitTxs(ts, b, b), top)
        /\ DOMAIN CommitRows(rs, b, ChainRow(b)) = DOMAIN rs \cup {b}
        /\ DOMAIN CommitTxs(ts, b, b) = DOMAIN ts \cup {b}
    BY <2>1, CanonicalCommit
  <2>3. QED BY <2>2 DEF top, rs, ts
<1>5. \A n \in Nodes : /\ Canonical(rows'[n], txs'[n], Len(log))
                       /\ height'[n] \in DOMAIN rows'[n]
                       /\ DOMAIN rows[n] \subseteq DOMAIN rows'[n]
  <2> TAKE n \in Nodes
  <2>1. CASE n \in to
    BY <1>3, <1>4, <2>1
  <2>2. CASE n \notin to
    BY <1>3, <2>2 DEF HInv
  <2>3. QED BY <2>1, <2>2
<1>6. rows'[Alpha] = rows[Alpha] /\ txs'[Alpha] = txs[Alpha] /\ height'[Alpha] = height[Alpha]
  BY <1>1, <1>2, <1>3
<1>7. LeaderHoldsHistory'
  BY <1>1, <1>3, <1>6 DEF HInv, LeaderHoldsHistory
<1>8. CertifiedHistoryIsOneChain'
  BY <1>3 DEF HInv, CertifiedHistoryIsOneChain
<1>9. QED BY <1>3, <1>5, <1>7, <1>8 DEF HInv, TablesGrow

\* A reconciliation merges two parts of the same chain.
LEMMA ReconcileHistory ==
    ASSUME TypeOK, HInv, NEW n \in Nodes, NEW p \in Nodes, Reconcile(n, p),
           UNCHANGED <<leader, links, inFlight, log>>
    PROVE  HInv' /\ TablesGrow
<1> DEFINE rs == OverwriteRows(rows[n], rows[p])
           ts == OverwriteTxs(txs[n], rows[p], txs[p])
<1>1. /\ Len(log) \in Nat /\ DOMAIN log = 1..Len(log) /\ Alpha \in Nodes
      /\ height[Alpha] = Len(log)
      /\ DOMAIN rows[Alpha] = 0..Len(log)
      /\ DOMAIN txs[Alpha] = DOMAIN log
      /\ leader = Alpha
      /\ DOMAIN rows = Nodes /\ DOMAIN txs = Nodes /\ height \in [Nodes -> Nat]
  BY HistoryFacts DEF HInv, TypeOK
<1>2. /\ Canonical(rs, ts, Len(log))
      /\ DOMAIN rs = DOMAIN rows[n] \cup DOMAIN rows[p]
      /\ DOMAIN txs[n] \subseteq DOMAIN ts
  BY <1>1, CanonicalOverwrite DEF HInv
<1>3. DOMAIN ts \subseteq DOMAIN txs[n] \cup DOMAIN txs[p]
  BY DEF OverwriteTxs
<1>4. /\ rows' = [rows EXCEPT ![n] = rs] /\ txs' = [txs EXCEPT ![n] = ts]
      /\ height' = [height EXCEPT ![n] = TopHeight(rs)]
      /\ leader' = leader /\ log' = log
  BY DEF Reconcile
<1> HIDE DEF rs, ts
<1>5. DOMAIN rs # {} /\ DOMAIN rs \subseteq 0..Len(log)
  BY <1>2 DEF Canonical
<1>6. TopHeight(rs) \in DOMAIN rs
  BY <1>1, <1>5, TopHeightOfNode
<1>7. /\ rows'[n] = rs /\ txs'[n] = ts /\ height'[n] = TopHeight(rs)
      /\ \A m \in Nodes \ {n} :
            rows'[m] = rows[m] /\ txs'[m] = txs[m] /\ height'[m] = height[m]
  BY <1>1, <1>4
<1>8. \A m \in Nodes : /\ Canonical(rows'[m], txs'[m], Len(log))
                       /\ height'[m] \in DOMAIN rows'[m]
                       /\ DOMAIN rows[m] \subseteq DOMAIN rows'[m]
  <2> TAKE m \in Nodes
  <2>1. CASE m = n
    BY <1>2, <1>6, <1>7, <2>1
  <2>2. CASE m # n
    BY <1>7, <2>2 DEF HInv
  <2>3. QED BY <2>1, <2>2
<1>9. LeaderHoldsHistory'
  <2>1. CASE n = Alpha
    <3>1. DOMAIN rs = 0..Len(log)
      BY <1>1, <1>2, <1>5, <2>1
    <3>2. TopHeight(rs) = Len(log)
      BY <1>1, <3>1, TopHeightOfInterval
    <3>3. DOMAIN ts = DOMAIN log
      <4>1. DOMAIN txs[p] \subseteq DOMAIN log
        BY DEF TypeOK
      <4>2. QED BY <1>1, <1>2, <1>3, <2>1, <4>1
    <3>4. QED BY <1>1, <1>4, <1>7, <2>1, <3>1, <3>2, <3>3 DEF LeaderHoldsHistory
  <2>2. CASE n # Alpha
    BY <1>1, <1>4, <1>7, <2>2 DEF LeaderHoldsHistory
  <2>3. QED BY <2>1, <2>2
<1>10. CertifiedHistoryIsOneChain'
  BY <1>4 DEF HInv, CertifiedHistoryIsOneChain
<1>11. QED BY <1>4, <1>8, <1>9, <1>10 DEF HInv, TablesGrow

\* A restart reads back from the tables what it needs.
LEMMA RestartHistory ==
    ASSUME TypeOK, HInv, Restart
    PROVE  HInv' /\ TablesGrow
<1>1. /\ height' = [n \in Nodes |-> TopHeight(rows[n])] /\ leader' = Alpha
      /\ rows' = rows /\ txs' = txs /\ log' = log
  BY DEF Restart, storage
<1>2. \A n \in Nodes : TopHeight(rows[n]) \in DOMAIN rows[n]
  <2> TAKE n \in Nodes
  <2>1. /\ DOMAIN rows[n] # {} /\ DOMAIN rows[n] \subseteq 0..Len(log)
        /\ Len(log) \in Nat
    BY HistoryFacts DEF HInv, Canonical
  <2>2. QED BY <2>1, TopHeightOfNode
<1>3. TopHeight(rows[Alpha]) = Len(log)
  BY HistoryFacts, TopHeightOfInterval
<1>4. LeaderHoldsHistory'
  BY <1>1, <1>3, HistoryFacts DEF LeaderHoldsHistory
<1>5. CertifiedHistoryIsOneChain'
  BY <1>1 DEF HInv, CertifiedHistoryIsOneChain
<1>6. QED BY <1>1, <1>2, <1>4, <1>5 DEF HInv, TablesGrow

\* Every other step leaves tables, heights and history alone.
LEMMA UnchangedHistory ==
    ASSUME HInv, UNCHANGED <<height, rows, txs, leader, log>>
    PROVE  HInv' /\ TablesGrow
BY DEF HInv, TablesGrow, CertifiedHistoryIsOneChain, LeaderHoldsHistory

LEMMA NextHistory ==
    ASSUME Tamperable = {}, Eligible = {Alpha}, TypeOK, HInv, [Next]_vars
    PROVE  HInv' /\ TablesGrow
<1>1. ASSUME NEW kind \in Kinds, NEW object \in Objects, ExecuteConsensus(kind, object)
      PROVE  HInv' /\ TablesGrow
  BY <1>1, ExecuteConsensusHistory
<1>2. ASSUME NEW b \in inFlight, BroadcastCommit(b)
      PROVE  HInv' /\ TablesGrow
  BY <1>2, BroadcastCommitHistory
<1>3. ASSUME NEW n \in Nodes, SyncNode(n)
      PROVE  HInv' /\ TablesGrow
  <2>1. PICK p \in Nodes : Reconcile(n, p)
    BY <1>3 DEF SyncNode
  <2>2. UNCHANGED <<leader, links, inFlight, log>>
    BY <1>3 DEF SyncNode
  <2>3. QED BY <2>1, <2>2, ReconcileHistory
<1>4. ASSUME NEW n \in Nodes, RecoverNode(n)
      PROVE  HInv' /\ TablesGrow
  <2>1. CASE SyncNode(n)
    BY <1>3, <2>1
  <2>2. CASE UNCHANGED <<height, storage, leader, links, inFlight, log>>
    BY <2>2, UnchangedHistory DEF storage
  <2>3. QED BY <1>4, <2>1, <2>2 DEF RecoverNode
<1>5. ASSUME NEW n \in Nodes, FailNode(n)
      PROVE  HInv' /\ TablesGrow
  BY <1>5, UnchangedHistory DEF FailNode, storage
<1>6. ASSUME NEW n \in Eligible, SetLeader(n)
      PROVE  HInv' /\ TablesGrow
  <2>1. leader' = leader
    BY <1>6 DEF SetLeader, HInv
  <2>2. QED BY <1>6, <2>1, UnchangedHistory DEF SetLeader, storage
<1>7. ASSUME NEW n \in Isolable, IsolateNode(n) \/ ReconnectNode(n)
      PROVE  HInv' /\ TablesGrow
  BY <1>7, UnchangedHistory DEF IsolateNode, ReconnectNode, storage
<1>8. ASSUME NEW split \in Splits, Partition(split)
      PROVE  HInv' /\ TablesGrow
  BY <1>8, UnchangedHistory DEF Partition, storage
<1>9. CASE HealPartition
  BY <1>9, UnchangedHistory DEF HealPartition, storage
<1>10. CASE Restart
  BY <1>10, RestartHistory
<1>11. CASE UNCHANGED vars
  BY <1>11, UnchangedHistory DEF vars, storage
<1>12. QED
  BY <1>1, <1>2, <1>3, <1>4, <1>5, <1>6, <1>7, <1>8, <1>9, <1>10, <1>11 DEF Next

------------------------------------------------------------------------------
(* The theorems *)

LEMMA HistoryInvariant ==
    ASSUME Tamperable = {}, Eligible = {Alpha}
    PROVE  Spec => [](TypeOK /\ HInv)
<1>1. Init => TypeOK /\ HInv
  BY InitTyped, InitHistory DEF TInv
<1>2. (TypeOK /\ HInv) /\ TypeOK' /\ [Next]_vars => (TypeOK /\ HInv)'
  BY NextHistory
<1>3. Spec => []TypeOK
  <2>1. Spec => [](TypeOK /\ Bounded)
    BY TypeCorrectness
  <2>2. QED BY <2>1, PTL
<1>4. QED BY <1>1, <1>2, <1>3, PTL DEF Spec

LEMMA CopiesFollow ==
    ASSUME TypeOK, HInv
    PROVE  CopiesAreCertified
<1> SUFFICES ASSUME NEW n \in Nodes, NEW h \in DOMAIN rows[n] \ {0}
             PROVE  /\ h \in DOMAIN log /\ rows[n][h] = CertifiedRow(h)
                    /\ h \in DOMAIN txs[n]
                    /\ txs[n][h] = [height |-> h, intact |-> TRUE]
  BY DEF CopiesAreCertified
<1>1. Canonical(rows[n], txs[n], Len(log))
  BY DEF HInv
<1>2. h \in DOMAIN log
  BY <1>1, HistoryFacts DEF Canonical
<1>3. CertifiedRow(h) = ChainRow(h)
  BY <1>2, CertifiedIsChainRow DEF HInv
<1>4. QED BY <1>1, <1>2, <1>3 DEF Canonical, ChainTx

\* Without intruders and with one leader the certified blocks form one chain.
THEOREM HistoryIsOneChain ==
    ASSUME Tamperable = {}, Eligible = {Alpha}
    PROVE  Spec => []CertifiedHistoryIsOneChain
<1>1. HInv => CertifiedHistoryIsOneChain
  BY DEF HInv
<1>2. Spec => [](TypeOK /\ HInv)
  BY HistoryInvariant
<1>3. QED BY <1>1, <1>2, PTL

\* consensus.service.ts executeConsensus: the leader stands on the last
\* certified block and stores all of them, whatever crashes, restarts or late
\* broadcasts come between its commit and the others'.
THEOREM LeaderHasEveryBlock ==
    ASSUME Tamperable = {}, Eligible = {Alpha}
    PROVE  Spec => []LeaderHoldsHistory
<1>1. HInv => LeaderHoldsHistory
  BY DEF HInv
<1>2. Spec => [](TypeOK /\ HInv)
  BY HistoryInvariant
<1>3. QED BY <1>1, <1>2, PTL

\* Every block a node stores is the certified one of its height, whatever
\* crashed, was cut off, came late or was synced from whom.
THEOREM CopiesAreGenuine ==
    ASSUME Tamperable = {}, Eligible = {Alpha}
    PROVE  Spec => []CopiesAreCertified
<1>1. TypeOK /\ HInv => CopiesAreCertified
  BY CopiesFollow
<1>2. Spec => [](TypeOK /\ HInv)
  BY HistoryInvariant
<1>3. QED BY <1>1, <1>2, PTL

\* A canonical row is determined by its height, so a step that keeps the heights
\* keeps the rows.
LEMMA StepKeepsBlocks ==
    ASSUME Tamperable = {}, Eligible = {Alpha}, TypeOK, HInv, [Next]_vars
    PROVE  \A n \in Nodes : \A h \in DOMAIN rows[n] :
               h \in DOMAIN rows'[n] /\ rows'[n][h] = rows[n][h]
<1>1. HInv' /\ TablesGrow
  BY NextHistory
<1>2. SUFFICES ASSUME NEW n \in Nodes, NEW h \in DOMAIN rows[n]
               PROVE  h \in DOMAIN rows'[n] /\ rows'[n][h] = rows[n][h]
  OBVIOUS
<1>3. h \in DOMAIN rows'[n]
  BY <1>1 DEF TablesGrow
<1>4. /\ Canonical(rows[n], txs[n], Len(log))
      /\ Canonical(rows'[n], txs'[n], Len(log'))
  BY <1>1 DEF HInv
<1>5. CASE h = 0
  BY <1>3, <1>4, <1>5 DEF Canonical
<1>6. CASE h # 0
  BY <1>3, <1>4, <1>6 DEF Canonical
<1>7. QED BY <1>5, <1>6

\* No step removes or changes a stored block.
THEOREM StoredBlocksStay ==
    ASSUME Tamperable = {}, Eligible = {Alpha}
    PROVE  Spec => StoredBlocksAreImmutable
<1>1. TypeOK /\ HInv /\ [Next]_vars =>
         [\A n \in Nodes : \A h \in DOMAIN rows[n] :
             h \in DOMAIN rows'[n] /\ rows'[n][h] = rows[n][h]]_vars
  BY StepKeepsBlocks
<1>2. Spec => [](TypeOK /\ HInv)
  BY HistoryInvariant
<1>3. QED BY <1>1, <1>2, PTL DEF Spec, StoredBlocksAreImmutable

------------------------------------------------------------------------------
(* What the certified history implies for the next round, for heights, for *)
(* and for the integrity check                                             *)

\* The row a node stands on carries its height as hash.
LEMMA StandsOnChain ==
    ASSUME TypeOK, HInv, NEW n \in Nodes
    PROVE  height[n] \in DOMAIN rows[n] /\ rows[n][height[n]].hash = height[n]
<1>1. Canonical(rows[n], txs[n], Len(log)) /\ Len(log) \in Nat
  BY HistoryFacts DEF HInv
<1>2. height[n] \in DOMAIN rows[n]
  BY DEF HInv
<1>3. QED BY <1>1, <1>2, CanonicalHash

------------------------------------------------------------------------------
(* Quorum *)

LEMMA LevelPeersEndorse ==
    ASSUME TypeOK, HInv, NEW p \in OnlinePeers(leader),
           CanCommunicate(leader, p), height[p] = height[leader]
    PROVE  p \in Endorsers
<1>1. p \in Nodes \ {leader} /\ status[p] = "ONLINE" /\ leader \in Nodes
  BY DEF OnlinePeers, TypeOK
<1>2. /\ height[p] \in DOMAIN rows[p]
      /\ rows[p][height[p]].hash = height[p]
      /\ rows[leader][height[leader]].hash = height[leader]
  BY <1>1, StandsOnChain
<1>3. AcceptsCandidate(status[p], height[p], rows[p],
                       height[leader] + 1, rows[leader][height[leader]].hash)
  BY <1>1, <1>2 DEF AcceptsCandidate
<1>4. QED BY <1>1, <1>3 DEF Endorsers

LEMMA QuorumFollows ==
    ASSUME TypeOK, HInv
    PROVE  EqualHeightsReachQuorum
<1> DEFINE level == {p \in OnlinePeers(leader) :
                        CanCommunicate(leader, p) /\ height[p] = height[leader]}
<1> SUFFICES ASSUME status[leader] = "ONLINE", Cardinality(level) + 1 >= Quorum
             PROVE  CanPropose /\ Cardinality(Endorsers) >= Quorum
  BY DEF EqualHeightsReachQuorum
<1>1. leader \in Nodes
  BY DEF TypeOK
<1>2. CanPropose
  BY <1>1, StandsOnChain DEF CanPropose
<1>3. level \cup {leader} \subseteq Endorsers
  BY LevelPeersEndorse DEF Endorsers
<1>4. IsFiniteSet(Nodes)
  BY FS_Interval, ClusterAssumption DEF Nodes
<1>5. level \subseteq Nodes /\ leader \notin level
  BY DEF OnlinePeers
<1>6. Endorsers \subseteq Nodes
  BY <1>1 DEF Endorsers
<1> HIDE DEF level
<1>7. IsFiniteSet(level) /\ IsFiniteSet(Endorsers)
  BY <1>4, <1>5, <1>6, FS_Subset
<1>8. Cardinality(level \cup {leader}) = Cardinality(level) + 1
  BY <1>5, <1>7, FS_AddElement
<1>9. Cardinality(level \cup {leader}) <= Cardinality(Endorsers)
  BY <1>3, <1>7, FS_Subset
<1>10. Cardinality(level) \in Nat /\ Cardinality(Endorsers) \in Nat /\ Quorum \in Nat
  BY <1>7, FS_CardinalityType, ClusterAssumption
<1>11. QED BY <1>2, <1>8, <1>9, <1>10

\* Enough ONLINE peers, reachable and at the leader's height, make the next
\* round succeed: for any number of nodes and any quorum.
THEOREM LevelMajorityReachesQuorum ==
    ASSUME Tamperable = {}, Eligible = {Alpha}
    PROVE  Spec => []EqualHeightsReachQuorum
<1>1. TypeOK /\ HInv => EqualHeightsReachQuorum
  BY QuorumFollows
<1>2. Spec => [](TypeOK /\ HInv)
  BY HistoryInvariant
<1>3. QED BY <1>1, <1>2, PTL

------------------------------------------------------------------------------
(* Heights *)

\* A height adopted from a table is at least the height of a row in it.
LEMMA TopHeightCovers ==
    ASSUME NEW rs, NEW n \in Nat, DOMAIN rs \subseteq 0..n, NEW h \in DOMAIN rs
    PROVE  h <= TopHeight(rs) /\ TopHeight(rs) \in Nat
<1>1. DOMAIN rs # {}
  OBVIOUS
<1>2. TopHeight(rs) \in DOMAIN rs /\ \A g \in DOMAIN rs : g <= TopHeight(rs)
  BY <1>1, TopHeightOfNode
<1>3. QED BY <1>2

Rewinds(n) == height'[n] < height[n]
LateCommit(n) == \E b \in inFlight \ inFlight' : height'[n] = log[b].height /\ n # leader

LEMMA BroadcastRewinds ==
    ASSUME TypeOK, HInv, NEW b \in inFlight, BroadcastCommit(b),
           NEW n \in Nodes, Rewinds(n)
    PROVE  LateCommit(n)
<1> DEFINE to == Receivers(b)
<1>1. height' = [m \in Nodes |-> IF m \in to THEN log[b].height ELSE height[m]]
  BY DEF BroadcastCommit
<1>2. n \in to
  BY <1>1 DEF Rewinds, TypeOK
<1>3. n # leader
  <2>1. b \in DOMAIN log /\ leader = Alpha /\ log[b].by = Alpha
    BY DEF TypeOK, HInv
  <2>2. QED BY <1>2, <2>1 DEF Receivers
<1>4. b \in inFlight \ inFlight'
  BY DEF BroadcastCommit
<1>5. QED BY <1>1, <1>2, <1>3, <1>4 DEF LateCommit

LEMMA SyncNeverRewinds ==
    ASSUME TypeOK, HInv, NEW m \in Nodes, SyncNode(m), NEW n \in Nodes
    PROVE  ~Rewinds(n)
<1>1. PICK p \in Nodes : Reconcile(m, p)
  BY DEF SyncNode
<1> DEFINE rs == OverwriteRows(rows[m], rows[p])
           ts == OverwriteTxs(txs[m], rows[p], txs[p])
<1>2. height' = [height EXCEPT ![m] = TopHeight(rs)]
  BY <1>1 DEF Reconcile
<1>3. /\ Canonical(rs, ts, Len(log))
      /\ DOMAIN rs = DOMAIN rows[m] \cup DOMAIN rows[p]
      /\ Len(log) \in Nat
  <2>1. /\ Canonical(rows[m], txs[m], Len(log))
        /\ Canonical(rows[p], txs[p], Len(log))
        /\ Len(log) \in Nat
    BY HistoryFacts DEF HInv
  <2>2. QED BY <2>1, CanonicalOverwrite
<1> HIDE DEF rs, ts
<1>4. height[m] \in DOMAIN rs /\ DOMAIN rs \subseteq 0..Len(log)
  BY <1>3 DEF HInv, Canonical
<1>5. height[m] <= TopHeight(rs) /\ TopHeight(rs) \in Nat
  BY <1>3, <1>4, TopHeightCovers
<1>6. QED BY <1>2, <1>5 DEF Rewinds, TypeOK

LEMMA RestartNeverRewinds ==
    ASSUME TypeOK, HInv, Restart, NEW n \in Nodes
    PROVE  ~Rewinds(n)
<1>1. height'[n] = TopHeight(rows[n])
  BY DEF Restart
<1>2. /\ height[n] \in DOMAIN rows[n] /\ DOMAIN rows[n] \subseteq 0..Len(log)
      /\ Len(log) \in Nat
  BY HistoryFacts DEF HInv, Canonical
<1>3. height[n] <= TopHeight(rows[n]) /\ TopHeight(rows[n]) \in Nat
  BY <1>2, TopHeightCovers
<1>4. QED BY <1>1, <1>3 DEF Rewinds, TypeOK

LEMMA StepRewinds ==
    ASSUME Tamperable = {}, TypeOK, HInv, [Next]_vars, NEW n \in Nodes, Rewinds(n)
    PROVE  LateCommit(n)
<1>1. ASSUME NEW kind \in Kinds, NEW object \in Objects, ExecuteConsensus(kind, object)
      PROVE  FALSE
  BY <1>1 DEF ExecuteConsensus, Rewinds, TypeOK
<1>2. ASSUME NEW b \in inFlight, BroadcastCommit(b)
      PROVE  LateCommit(n)
  BY <1>2, BroadcastRewinds
<1>3. ASSUME NEW m \in Nodes, SyncNode(m)
      PROVE  FALSE
  BY <1>3, SyncNeverRewinds
<1>4. ASSUME UNCHANGED height
      PROVE  FALSE
  BY <1>4 DEF Rewinds, TypeOK
<1>5. ASSUME NEW m \in Nodes, RecoverNode(m)
      PROVE  FALSE
  <2>1. SyncNode(m) \/ UNCHANGED height
    BY <1>5 DEF RecoverNode
  <2>2. QED BY <1>3, <1>4, <2>1
<1>6. ASSUME NEW m \in Nodes, FailNode(m) \/ SetLeader(m) \/ IsolateNode(m) \/ ReconnectNode(m)
      PROVE  FALSE
  BY <1>4, <1>6 DEF FailNode, SetLeader, IsolateNode, ReconnectNode
<1>7. ASSUME NEW split \in Splits, Partition(split)
      PROVE  FALSE
  BY <1>4, <1>7 DEF Partition
<1>8. CASE HealPartition
  BY <1>4, <1>8 DEF HealPartition
<1>9. CASE Restart
  BY <1>9, RestartNeverRewinds
<1>10. CASE UNCHANGED vars
  BY <1>4, <1>10 DEF vars
<1>11. Eligible \subseteq Nodes /\ Isolable \subseteq Nodes
  BY ClusterAssumption
<1>12. QED
  BY <1>1, <1>2, <1>3, <1>5, <1>6, <1>7, <1>8, <1>9, <1>10, <1>11 DEF Next

\* Only the late delivery of an older block takes a node back, and never the
\* leader: reconciliations and restarts adopt a height at least as great.
THEOREM RewindsAreLateCommits ==
    ASSUME Tamperable = {}, Eligible = {Alpha}
    PROVE  Spec => OnlyLateCommitsRewind
<1>1. TypeOK /\ HInv /\ [Next]_vars =>
         [\A n \in Nodes : height'[n] < height[n] =>
             \E b \in inFlight \ inFlight' : height'[n] = log[b].height /\ n # leader]_vars
  BY StepRewinds DEF Rewinds, LateCommit
<1>2. Spec => [](TypeOK /\ HInv)
  BY HistoryInvariant
<1>3. QED BY <1>1, <1>2, PTL DEF Spec, OnlyLateCommitsRewind
------------------------------------------------------------------------------
(* Integrity *)

\* Clients submit nothing but what Kinds allows.
KindsSubmitted == \A b \in DOMAIN log : log[b].kind \in Kinds

LEMMA KindsInvariant == Spec => []KindsSubmitted
<1>1. Init => KindsSubmitted
  BY DEF Init, KindsSubmitted
<1>2. TypeOK /\ KindsSubmitted /\ [Next]_vars => KindsSubmitted'
  <2> SUFFICES ASSUME TypeOK, KindsSubmitted, [Next]_vars PROVE KindsSubmitted'
    OBVIOUS
  <2>1. ASSUME NEW kind \in Kinds, NEW object \in Objects, ExecuteConsensus(kind, object)
        PROVE  KindsSubmitted'
    <3>1. PICK header : log' = Append(log, header) /\ header.kind = kind
      BY <2>1 DEF ExecuteConsensus
    <3>2. log \in Seq(Header)
      BY DEF TypeOK
    <3>3. QED BY <3>1, <3>2 DEF KindsSubmitted
  <2>2. ASSUME UNCHANGED log PROVE KindsSubmitted'
    BY <2>2 DEF KindsSubmitted
  <2>3. ASSUME NEW b \in inFlight, BroadcastCommit(b) PROVE UNCHANGED log
    BY <2>3 DEF BroadcastCommit
  <2>4. ASSUME NEW n \in Nodes,
               \/ FailNode(n) \/ RecoverNode(n) \/ SyncNode(n) \/ SetLeader(n)
               \/ IsolateNode(n) \/ ReconnectNode(n)
        PROVE  UNCHANGED log
    BY <2>4 DEF FailNode, RecoverNode, SyncNode, SetLeader, IsolateNode, ReconnectNode
  <2>5. ASSUME NEW n, NEW h, NEW mutation, TamperNode(n, h, mutation)
        PROVE  UNCHANGED log
    BY <2>5 DEF TamperNode
  <2>6. ASSUME NEW split, Partition(split) PROVE UNCHANGED log
    BY <2>6 DEF Partition
  <2>7. HealPartition \/ Restart => UNCHANGED log
    BY DEF HealPartition, Restart
  <2>8. UNCHANGED vars => UNCHANGED log
    BY DEF vars
  <2>9. Eligible \subseteq Nodes /\ Isolable \subseteq Nodes
    BY ClusterAssumption
  <2>10. QED
    BY <2>1, <2>2, <2>3, <2>4, <2>5, <2>6, <2>7, <2>8, <2>9 DEF Next
<1>3. Spec => [](TypeOK /\ Bounded)
  BY TypeCorrectness
<1>4. QED BY <1>1, <1>2, <1>3, PTL DEF Spec

LEMMA GapFreeVerifies ==
    ASSUME TypeOK, HInv, KindsSubmitted, "REVOKE_PROOF" \notin Kinds,
           NEW n \in Nodes, DOMAIN rows[n] = 0..TopHeight(rows[n])
    PROVE  IntactNode(n)
<1> DEFINE rs == rows[n]
           ts == txs[n]
           top == TopHeight(rs)
<1>1. Canonical(rs, ts, Len(log)) /\ Len(log) \in Nat /\ DOMAIN log = 1..Len(log)
  BY HistoryFacts DEF HInv
<1>2. top \in Nat /\ top <= Len(log)
  <2>1. DOMAIN rs # {} /\ DOMAIN rs \subseteq 0..Len(log)
    BY <1>1 DEF Canonical
  <2>2. top \in DOMAIN rs
    BY <1>1, <2>1, TopHeightOfNode
  <2>3. QED BY <1>1, <2>1, <2>2
<1>3. DOMAIN rs = 0..top
  OBVIOUS
<1> HIDE DEF rs, ts, top
<1>4. ASSUME NEW h \in DOMAIN rs \ {0}
      PROVE  /\ h - 1 \in DOMAIN rs
             /\ rs[h].prev = rs[h - 1].hash
             /\ HeaderHashes(log, h, rs[h])
             /\ TxsAt(ts, h) = {rs[h].root}
             /\ \A b \in TxsAt(ts, h) : LeafMatches(log[b], ts[b])
  <2>1. /\ h \in 1..top /\ h \in Nat /\ h - 1 \in Nat
        /\ h - 1 \in DOMAIN rs /\ h \in DOMAIN log
    <3>1. h \in 0..top /\ h # 0
      BY <1>3, <1>4
    <3>2. h \in 1..top /\ h \in Nat /\ h - 1 \in 0..top /\ h - 1 \in Nat
      BY <1>2, <3>1
    <3>3. h \in 1..Len(log)
      BY <1>1, <1>2, <3>2
    <3>4. QED BY <1>1, <1>3, <3>2, <3>3
  <2>2. /\ rs[h] = [hash |-> h, prev |-> h - 1, root |-> h]
        /\ h \in DOMAIN ts
    BY <1>1, <1>4 DEF Canonical, ChainRow
  <2>3. rs[h - 1].hash = h - 1
    BY <1>1, <2>1, CanonicalHash
  <2>4. log[h].height = h /\ log[h].prev = h - 1
    BY <2>1 DEF HInv, CertifiedHistoryIsOneChain
  <2>5. HeaderHashes(log, h, rs[h])
    BY <2>1, <2>2, <2>4 DEF HeaderHashes
  <2>6. \A b \in DOMAIN ts : ts[b].height = b /\ ts[b].intact = TRUE
    <3>1. \A b \in DOMAIN ts : ts[b] = ChainTx(b)
      BY <1>1 DEF Canonical
    <3>2. QED BY <3>1 DEF ChainTx
  <2>7. TxsAt(ts, h) = {h}
    BY <2>2, <2>6 DEF TxsAt
  <2>8. LeafMatches(log[h], ts[h])
    <3>1. log[h].kind # "REVOKE_PROOF"
      BY <2>1 DEF KindsSubmitted
    <3>2. QED BY <2>2, <2>6, <3>1 DEF LeafMatches
  <2>9. QED BY <2>1, <2>2, <2>3, <2>5, <2>7, <2>8
<1>5. 0 \in DOMAIN rs
  BY <1>1 DEF Canonical
<1>6. Intact(log, rs, ts)
  BY <1>4, <1>5 DEF Intact
<1>7. QED BY <1>6 DEF IntactNode, rs, ts

\* Where nothing is revoked, every copy without a hole passes the integrity
\* check, however it was put together.
THEOREM HonestCopiesVerify ==
    ASSUME Tamperable = {}, Eligible = {Alpha}, "REVOKE_PROOF" \notin Kinds
    PROVE  Spec => []GapFreeChainsVerify
<1>1. TypeOK /\ HInv /\ KindsSubmitted => GapFreeChainsVerify
  BY GapFreeVerifies DEF GapFreeChainsVerify
<1>2. Spec => [](TypeOK /\ HInv)
  BY HistoryInvariant
<1>3. Spec => []KindsSubmitted
  BY KindsInvariant
<1>4. QED BY <1>1, <1>2, <1>3, PTL

------------------------------------------------------------------------------
(* The refinement of ReplicatedLedger *)

\* The entry of the chain at height h.
Link(h) == [height |-> h, block |-> h, prev |-> IF h = 0 THEN Forged ELSE h - 1]

LEMMA CanonicalEntries ==
    ASSUME NEW rs, NEW ts, NEW n \in Nat, Canonical(rs, ts, n)
    PROVE  EntriesIn(rs) = {Link(h) : h \in DOMAIN rs}
<1>1. \A h \in DOMAIN rs : [height |-> h, block |-> rs[h].hash, prev |-> rs[h].prev] = Link(h)
  <2>1. SUFFICES ASSUME NEW h \in DOMAIN rs
                 PROVE  rs[h].hash = h /\ rs[h].prev = IF h = 0 THEN Forged ELSE h - 1
    BY DEF Link
  <2>2. CASE h = 0
    BY <2>2 DEF Canonical, GenesisRows, GenesisHash
  <2>3. CASE h # 0
    BY <2>3 DEF Canonical, ChainRow
  <2>4. QED BY <2>2, <2>3
<1>2. QED BY <1>1 DEF EntriesIn

LEMMA GenesisEntry ==
    /\ Link(0) = [height |-> 0, block |-> GenesisHash, prev |-> GenesisRows[0].prev]
    /\ EntriesIn(GenesisRows) = {Link(0)}
BY DEF Link, EntriesIn, GenesisRows, GenesisHash

\* What the refinement mapping makes of a state: the chain, and what each node
\* has of it.
MappedToChain ==
    /\ CertifiedEntries = {Link(h) : h \in 0..Len(log)}
    /\ \A n \in Nodes : /\ EntriesIn(rows[n]) = {Link(h) : h \in DOMAIN rows[n]}
                        /\ DOMAIN rows[n] \subseteq 0..Len(log)

LEMMA LedgerIsChain == TypeOK /\ HInv => MappedToChain
<1> SUFFICES ASSUME TypeOK, HInv PROVE MappedToChain
  OBVIOUS
<1>1. Len(log) \in Nat /\ DOMAIN log = 1..Len(log)
  BY HistoryFacts
<1>2. \A b \in DOMAIN log :
         [height |-> log[b].height, block |-> b, prev |-> log[b].prev] = Link(b)
  BY <1>1 DEF HInv, CertifiedHistoryIsOneChain, Link
<1>3. CertifiedEntries = {Link(0)} \cup {Link(b) : b \in 1..Len(log)}
  BY <1>1, <1>2, GenesisEntry DEF CertifiedEntries
<1>4. 0..Len(log) = {0} \cup 1..Len(log)
  BY <1>1
<1>5. CertifiedEntries = {Link(h) : h \in 0..Len(log)}
  BY <1>3, <1>4
<1>6. \A n \in Nodes : Canonical(rows[n], txs[n], Len(log))
  BY DEF HInv
<1>7. \A n \in Nodes : EntriesIn(rows[n]) = {Link(h) : h \in DOMAIN rows[n]}
  BY <1>1, <1>6, CanonicalEntries
<1>8. \A n \in Nodes : DOMAIN rows[n] \subseteq 0..Len(log)
  BY <1>6 DEF Canonical
<1>9. QED BY <1>5, <1>7, <1>8 DEF MappedToChain

LEMMA LedgerIsChainNext == TypeOK' /\ HInv' => MappedToChain'
BY LedgerIsChain, PTL

\* A step that certifies nothing only copies.
LEMMA CopyingReplicates ==
    ASSUME TypeOK, HInv, TypeOK', HInv', TablesGrow, log' = log
    PROVE  Ledger!Replicate
<1>1. /\ CertifiedEntries = {Link(h) : h \in 0..Len(log)}
      /\ \A n \in Nodes : EntriesIn(rows[n]) = {Link(h) : h \in DOMAIN rows[n]}
  BY LedgerIsChain DEF MappedToChain
<1>2. /\ CertifiedEntries' = {Link(h) : h \in 0..Len(log')}
      /\ \A n \in Nodes : /\ EntriesIn(rows'[n]) = {Link(h) : h \in DOMAIN rows'[n]}
                          /\ DOMAIN rows'[n] \subseteq 0..Len(log')
  BY LedgerIsChainNext DEF MappedToChain
<1>3. CertifiedEntries' = CertifiedEntries
  BY <1>1, <1>2
<1>4. \A n \in Nodes : EntriesIn(rows'[n]) \subseteq CertifiedEntries
  BY <1>1, <1>2
<1>5. \A n \in Nodes : EntriesIn(rows[n]) \subseteq EntriesIn(rows'[n])
  <2>1. \A n \in Nodes : DOMAIN rows[n] \subseteq DOMAIN rows'[n]
    BY DEF TablesGrow
  <2>2. SUFFICES ASSUME NEW n \in Nodes, NEW h \in DOMAIN rows[n]
                 PROVE  Link(h) \in EntriesIn(rows'[n])
    BY <1>1
  <2>3. h \in DOMAIN rows'[n]
    BY <2>1
  <2>4. QED BY <1>2, <2>3
<1>6. QED BY <1>3, <1>4, <1>5 DEF Ledger!Replicate

\* A round that reaches its quorum certifies the next block of the chain and
\* stores it on Alpha.
LEMMA ExecuteConsensusCertifies ==
    ASSUME TypeOK, HInv, TypeOK', HInv',
           NEW kind \in Kinds, NEW object \in Objects, ExecuteConsensus(kind, object)
    PROVE  \E b \in 1..MaxBlocks, last \in CertifiedEntries : Ledger!Certify(b, last)
<1> DEFINE b == Len(log) + 1
           last == Link(Len(log))
           copies == [n \in Nodes |-> EntriesIn(rows[n])]
<1>1. Len(log) \in Nat /\ Alpha \in Nodes /\ leader = Alpha /\ DOMAIN rows[Alpha] = 0..Len(log)
  BY HistoryFacts DEF HInv
<1>2. Len(log') = b /\ b \in 1..MaxBlocks
  BY <1>1, ClusterAssumption DEF ExecuteConsensus, TypeOK
<1>3. /\ CertifiedEntries = {Link(h) : h \in 0..Len(log)}
      /\ \A n \in Nodes : EntriesIn(rows[n]) = {Link(h) : h \in DOMAIN rows[n]}
  BY LedgerIsChain DEF MappedToChain
<1>4. /\ CertifiedEntries' = {Link(h) : h \in 0..Len(log')}
      /\ EntriesIn(rows'[Alpha]) = {Link(h) : h \in DOMAIN rows'[Alpha]}
  BY <1>1, LedgerIsChainNext DEF MappedToChain
<1>5. DOMAIN rows'[Alpha] = 0..b
  BY <1>2 DEF HInv, LeaderHoldsHistory
<1>6. 0..b = 0..Len(log) \cup {b}
  BY <1>1
<1>7. Link(b) = [height |-> last.height + 1, block |-> b, prev |-> last.block]
  BY <1>1 DEF Link
<1>8. last \in CertifiedEntries /\ \A f \in CertifiedEntries : f.height <= last.height /\ f.block # b
  BY <1>1, <1>3 DEF Link
<1>9. CertifiedEntries' = CertifiedEntries \cup {Link(b)}
  BY <1>2, <1>3, <1>4, <1>6
<1>10. EntriesIn(rows'[Alpha]) = EntriesIn(rows[Alpha]) \cup {Link(b)}
  BY <1>1, <1>3, <1>4, <1>5, <1>6
<1>11. \A n \in Nodes \ {Alpha} : EntriesIn(rows'[n]) = EntriesIn(rows[n])
  BY <1>1 DEF ExecuteConsensus, TypeOK
<1>12. copies' = [copies EXCEPT ![Alpha] = @ \cup {Link(b)}]
  BY <1>1, <1>10, <1>11
<1>13. Ledger!Certify(b, last)
  BY <1>7, <1>8, <1>9, <1>12 DEF Ledger!Certify
<1>14. QED BY <1>2, <1>8, <1>13

LEMMA LedgerStep ==
    ASSUME Tamperable = {}, Eligible = {Alpha}, TypeOK, HInv, TypeOK', [Next]_vars
    PROVE  Ledger!Next
<1>1. HInv' /\ TablesGrow
  BY NextHistory
<1>2. CASE log' = log
  BY <1>1, <1>2, CopyingReplicates DEF Ledger!Next
<1>3. CASE log' # log
  <2>1. PICK kind \in Kinds, object \in Objects : ExecuteConsensus(kind, object)
    BY <1>3 DEF Next, vars, BroadcastCommit, FailNode, RecoverNode, SyncNode, TamperNode,
                SetLeader, IsolateNode, ReconnectNode, Partition, HealPartition, Restart
  <2>2. QED BY <1>1, <2>1, ExecuteConsensusCertifies DEF Ledger!Next
<1>4. QED BY <1>2, <1>3

\* The in-process consortium implements the replicated ledger: for any number of
\* nodes, any quorum and partitions, and whatever crashes and is synced when.
THEOREM ClusterImplementsLedger ==
    ASSUME Tamperable = {}, Eligible = {Alpha}
    PROVE  Spec => ImplementsLedger
<1>1. Init => Ledger!Init
  <2> SUFFICES ASSUME Init PROVE Ledger!Init
    OBVIOUS
  <2>1. CertifiedEntries = EntriesIn(GenesisRows)
    BY DEF Init, CertifiedEntries
  <2>2. \A n \in Nodes : EntriesIn(rows[n]) = EntriesIn(GenesisRows)
    BY DEF Init
  <2>3. QED BY <2>1, <2>2, GenesisEntry DEF Ledger!Init
<1>2. (TypeOK /\ HInv) /\ TypeOK' /\ [Next]_vars => [Ledger!Next]_(Ledger!vars)
  BY LedgerStep
<1>3. Spec => [](TypeOK /\ HInv)
  BY HistoryInvariant
<1>4. QED BY <1>1, <1>2, <1>3, PTL DEF Spec, ImplementsLedger, Ledger!Spec
==============================================================================
