-------------------------- MODULE LedgerNodeProofs --------------------------
(***************************************************************************)
(* Lemmas about the storage operators of LedgerNode: what a commit, a       *)
(* reconciliation and a tampering leave in the two tables.                  *)
(***************************************************************************)
EXTENDS LedgerNode, TLAPS, GreatestElement

\* SELECT MAX(height) of a table that has a row is the height of a row, and no
\* row is higher.
LEMMA TopHeightIsGreatest ==
    ASSUME NEW rs, DOMAIN rs \subseteq Nat, DOMAIN rs # {},
           NEW n \in Nat, \A h \in DOMAIN rs : h <= n
    PROVE  /\ TopHeight(rs) \in DOMAIN rs
           /\ \A g \in DOMAIN rs : g <= TopHeight(rs)
<1>1. \E m \in DOMAIN rs : \A g \in DOMAIN rs : g <= m
  BY GreatestExists
<1>2. QED BY <1>1 DEF TopHeight

\* The same for a table bounded by the number of certified blocks.
LEMMA TopHeightOfNode ==
    ASSUME NEW rs, NEW n \in Nat, DOMAIN rs # {}, DOMAIN rs \subseteq 0..n
    PROVE  /\ TopHeight(rs) \in DOMAIN rs
           /\ \A g \in DOMAIN rs : g <= TopHeight(rs)
<1>1. DOMAIN rs \subseteq Nat /\ \A h \in DOMAIN rs : h <= n
  OBVIOUS
<1>2. QED BY <1>1, TopHeightIsGreatest

\* Committing a certified block keeps a node's tables typed.
LEMMA CommitTyped ==
    ASSUME NEW rs, NEW ts, NEW h \in Nat, NEW b, NEW row \in Row,
           rs \in [DOMAIN rs -> Row], ts \in [DOMAIN ts -> Tx]
    PROVE  LET newRows == CommitRows(rs, h, row)
               newTxs == CommitTxs(ts, b, h)
           IN  /\ DOMAIN newRows # {} /\ DOMAIN newRows \subseteq DOMAIN rs \cup {h}
               /\ newRows \in [DOMAIN newRows -> Row]
               /\ DOMAIN newTxs = DOMAIN ts \cup {b}
               /\ newTxs \in [DOMAIN newTxs -> Tx]
<1> DEFINE newRows == CommitRows(rs, h, row)
           newTxs == CommitTxs(ts, b, h)
<1>0. newRows = CommitRows(rs, h, row) /\ newTxs = CommitTxs(ts, b, h)
  OBVIOUS
<1> HIDE DEF newRows, newTxs
<1>1. /\ DOMAIN newRows = {g \in DOMAIN rs : rs[g].hash # row.hash} \cup {h}
      /\ newRows[h] = row
      /\ \A g \in DOMAIN newRows \ {h} : newRows[g] = rs[g]
      /\ newRows = [g \in DOMAIN newRows |-> newRows[g]]
  BY <1>0 DEF CommitRows
<1>2. /\ DOMAIN newTxs = DOMAIN ts \cup {b}
      /\ newTxs[b] = [height |-> h, intact |-> TRUE]
      /\ \A c \in DOMAIN ts \ {b} : newTxs[c] = ts[c]
      /\ newTxs = [c \in DOMAIN newTxs |-> newTxs[c]]
  BY <1>0 DEF CommitTxs
<1>3. \A g \in DOMAIN newRows : newRows[g] \in Row
  BY <1>1
<1>4. \A c \in DOMAIN newTxs : newTxs[c] \in Tx
  <2>1. [height |-> h, intact |-> TRUE] \in Tx
    BY DEF Tx
  <2>2. QED BY <1>2, <2>1
<1>5. newRows \in [DOMAIN newRows -> Row]
  BY <1>1, <1>3
<1>6. newTxs \in [DOMAIN newTxs -> Tx]
  BY <1>2, <1>4
<1>7. DOMAIN newRows # {} /\ DOMAIN newRows \subseteq DOMAIN rs \cup {h}
  BY <1>1
<1>8. DOMAIN newTxs = DOMAIN ts \cup {b}
  BY <1>2
<1>9. QED BY <1>5, <1>6, <1>7, <1>8 DEF newRows, newTxs

\* So does a reconciliation with a peer's tables.
LEMMA OverwriteTyped ==
    ASSUME NEW rs, NEW ts, NEW peerRows, NEW peerTxs,
           DOMAIN peerRows # {},
           rs \in [DOMAIN rs -> Row], peerRows \in [DOMAIN peerRows -> Row],
           ts \in [DOMAIN ts -> Tx], peerTxs \in [DOMAIN peerTxs -> Tx]
    PROVE  LET newRows == OverwriteRows(rs, peerRows)
               newTxs == OverwriteTxs(ts, peerRows, peerTxs)
           IN  /\ DOMAIN newRows # {}
               /\ DOMAIN newRows \subseteq DOMAIN rs \cup DOMAIN peerRows
               /\ newRows \in [DOMAIN newRows -> Row]
               /\ DOMAIN newTxs \subseteq DOMAIN ts \cup DOMAIN peerTxs
               /\ newTxs \in [DOMAIN newTxs -> Tx]
<1> DEFINE newRows == OverwriteRows(rs, peerRows)
           newTxs == OverwriteTxs(ts, peerRows, peerTxs)
           sent == {b \in DOMAIN peerTxs : peerTxs[b].height \in DOMAIN peerRows}
<1>0. /\ newRows = OverwriteRows(rs, peerRows)
      /\ newTxs = OverwriteTxs(ts, peerRows, peerTxs)
      /\ sent = {b \in DOMAIN peerTxs : peerTxs[b].height \in DOMAIN peerRows}
  OBVIOUS
<1> HIDE DEF newRows, newTxs, sent
<1>1. /\ DOMAIN peerRows \subseteq DOMAIN newRows
      /\ DOMAIN newRows \subseteq DOMAIN rs \cup DOMAIN peerRows
      /\ \A h \in DOMAIN peerRows : newRows[h] = peerRows[h]
      /\ \A h \in DOMAIN newRows \ DOMAIN peerRows : newRows[h] = rs[h]
      /\ newRows = [h \in DOMAIN newRows |-> newRows[h]]
  BY <1>0 DEF OverwriteRows
<1>2. /\ DOMAIN newTxs = DOMAIN ts \cup sent
      /\ \A b \in sent : newTxs[b] = peerTxs[b]
      /\ \A b \in DOMAIN ts \ sent : newTxs[b] = ts[b]
      /\ newTxs = [b \in DOMAIN newTxs |-> newTxs[b]]
  BY <1>0 DEF OverwriteTxs
<1>3. sent \subseteq DOMAIN peerTxs
  BY <1>0
<1>4. \A h \in DOMAIN newRows : newRows[h] \in Row
  BY <1>1
<1>5. \A b \in DOMAIN newTxs : newTxs[b] \in Tx
  BY <1>2, <1>3
<1>6. newRows \in [DOMAIN newRows -> Row]
  BY <1>1, <1>4
<1>7. newTxs \in [DOMAIN newTxs -> Tx]
  BY <1>2, <1>5
<1>8. DOMAIN newRows # {} /\ DOMAIN newRows \subseteq DOMAIN rs \cup DOMAIN peerRows
  BY <1>1
<1>9. DOMAIN newTxs \subseteq DOMAIN ts \cup DOMAIN peerTxs
  BY <1>2, <1>3
<1>10. QED BY <1>6, <1>7, <1>8, <1>9 DEF newRows, newTxs

\* tamperBlock changes the content of rows and transactions, never which there
\* are.
LEMMA TamperRowsType ==
    ASSUME NEW rs, rs \in [DOMAIN rs -> Row], NEW h \in DOMAIN rs, NEW mutation
    PROVE  /\ DOMAIN TamperRows(rs, h, mutation) = DOMAIN rs
           /\ TamperRows(rs, h, mutation) \in [DOMAIN rs -> Row]
BY DEF TamperRows, Row, Digest, Forged

LEMMA TamperTxsType ==
    ASSUME NEW ts, ts \in [DOMAIN ts -> Tx], NEW h, NEW mutation
    PROVE  /\ DOMAIN TamperTxs(ts, h, mutation) = DOMAIN ts
           /\ TamperTxs(ts, h, mutation) \in [DOMAIN ts -> Tx]
<1>1. CASE "payload" \in mutation /\ TxsAt(ts, h) # {}
  <2>1. PICK c \in TxsAt(ts, h) : c = CHOOSE b \in TxsAt(ts, h) : TRUE
    BY <1>1
  <2>2. c \in DOMAIN ts
    BY DEF TxsAt
  <2>3. TamperTxs(ts, h, mutation) = [ts EXCEPT ![c].intact = FALSE]
    BY <1>1, <2>1 DEF TamperTxs
  <2>4. QED BY <2>2, <2>3 DEF Tx
<1>2. CASE ~ ("payload" \in mutation /\ TxsAt(ts, h) # {})
  BY <1>2 DEF TamperTxs
<1>3. QED BY <1>1, <1>2
==============================================================================
