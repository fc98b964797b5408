------------------------ MODULE ConsortiumNodeProofs ------------------------
(***************************************************************************)
(* The HTTP consortium, for every number of nodes, any number of rounds,    *)
(* lost votes and late commits, any syncs, restarts and crashes: its types; *)
(* what the check finds when a node starts or syncs; that the certified     *)
(* blocks form a tree, for any proposers and any overlapping rounds, when   *)
(* nobody tampers; and that the tree is a tower, which every node stores a  *)
(* part of for good, when clients wait for one proposer.                    *)
(*                                                                         *)
(* The tree: what a table or a fetched chain holds above genesis is a       *)
(* certified block at its own height, because commits write certified      *)
(* blocks at their heights and a sync moves rows without changing them.  A  *)
(* candidate is built on such a row, so it extends a certified block.       *)
(*                                                                         *)
(* The tower: the proposer stores every certified block and stands on the   *)
(* last, and the one open round extends that one, so there is one certified *)
(* block per height and INSERT OR REPLACE replaces a row by itself.         *)
(***************************************************************************)
EXTENDS ConsortiumNode, LedgerNodeProofs, FiniteSetTheorems

\* Each row is genesis, or a certified block stored at its height.
Genuine(rs, blocks, headers) ==
    \A h \in DOMAIN rs :
        \/ h = 0 /\ rs[h].hash = GenesisHash
        \/ rs[h].hash \in blocks /\ h = headers[rs[h].hash].height

Extends(b, blocks, headers) ==
    \/ headers[b].prev = GenesisHash /\ headers[b].height = 1
    \/ /\ headers[b].prev \in blocks
       /\ headers[b].height = headers[headers[b].prev].height + 1

SyncFields == {"initialHeight", "todo", "rows", "txs"}

TreeInv ==
    /\ log \in Seq(Header)
    /\ certified \subseteq DOMAIN log
    /\ DOMAIN rounds \subseteq DOMAIN log
    /\ rows = [n \in Nodes |-> rows[n]]
    /\ syncs = [n \in DOMAIN syncs |-> syncs[n]]
    /\ \A n \in DOMAIN syncs :
          syncs[n] = [f \in SyncFields |-> syncs[n][f]]
    /\ \A n \in Nodes : Genuine(rows[n], certified, log)
    /\ \A n \in DOMAIN syncs : Genuine(syncs[n].rows, certified, log)
    /\ DOMAIN syncs \subseteq Nodes
    /\ \A n \in DOMAIN syncs : syncs[n].todo \subseteq Nodes
    /\ \A b \in DOMAIN log : Extends(b, certified, log)

\* No sync starts and none that goes on advances.
SyncsOnlyEnd ==
    /\ DOMAIN syncs' \subseteq DOMAIN syncs
    /\ syncs' = [m \in DOMAIN syncs' |-> syncs[m]]

------------------------------------------------------------------------------
(* Lemmas about tables *)

\* Committing a certified block at its height keeps a table genuine.
LEMMA GenuineCommit ==
    ASSUME NEW rs, NEW blocks, NEW headers, Genuine(rs, blocks, headers),
           NEW row, row.hash \in blocks
    PROVE  Genuine(CommitRows(rs, headers[row.hash].height, row), blocks, headers)
<1> DEFINE h == headers[row.hash].height
           new == CommitRows(rs, h, row)
<1>1. /\ DOMAIN new \subseteq DOMAIN rs \cup {h}
      /\ h \in DOMAIN new => new[h] = row
      /\ \A g \in DOMAIN new \ {h} : g \in DOMAIN rs /\ new[g] = rs[g]
  BY DEF CommitRows
<1> HIDE DEF new
<1>2. \A g \in DOMAIN new : \/ g = 0 /\ new[g].hash = GenesisHash
                            \/ new[g].hash \in blocks /\ g = headers[new[g].hash].height
  BY <1>1 DEF Genuine
<1>3. QED BY <1>2 DEF new, Genuine

\* So does a reconciliation with a genuine chain, or with a part of it.
LEMMA GenuineOverwrite ==
    ASSUME NEW rs, NEW peerRows, NEW blocks, NEW headers,
           Genuine(rs, blocks, headers), Genuine(peerRows, blocks, headers)
    PROVE  Genuine(OverwriteRows(rs, peerRows), blocks, headers)
<1> DEFINE new == OverwriteRows(rs, peerRows)
<1>1. \A h \in DOMAIN new : \/ h \in DOMAIN peerRows /\ new[h] = peerRows[h]
                            \/ h \in DOMAIN rs /\ new[h] = rs[h]
  BY DEF OverwriteRows
<1> HIDE DEF new
<1>2. \A h \in DOMAIN new : \/ h = 0 /\ new[h].hash = GenesisHash
                            \/ new[h].hash \in blocks /\ h = headers[new[h].hash].height
  BY <1>1 DEF Genuine
<1>3. QED BY <1>2 DEF new, Genuine

\* More certificates, and more candidates, leave genuine tables genuine.
LEMMA GenuineGrows ==
    ASSUME NEW rs, NEW blocks, NEW headers, Genuine(rs, blocks, headers),
           NEW moreBlocks, NEW moreHeaders, blocks \subseteq moreBlocks,
           \A b \in blocks : moreHeaders[b] = headers[b]
    PROVE  Genuine(rs, moreBlocks, moreHeaders)
BY DEF Genuine

LEMMA ExtendsGrows ==
    ASSUME NEW b, NEW blocks, NEW headers, Extends(b, blocks, headers),
           NEW moreBlocks, NEW moreHeaders, blocks \subseteq moreBlocks,
           moreHeaders[b] = headers[b],
           \A c \in blocks : moreHeaders[c] = headers[c]
    PROVE  Extends(b, moreBlocks, moreHeaders)
BY DEF Extends

\* The loop over the peers takes one of those left.
LEMMA NextPeerIsPeer ==
    ASSUME NodeAssumption, NEW todo, todo \subseteq Nodes, todo # {}
    PROVE  NextPeer(todo) \in todo
<1> DEFINE R == {ss \in Nat \X Nat : ss[1] < ss[2]}
<1>1. IsWellFoundedOn(R, Nat)
  BY NatLessThanWellFounded DEF OpToRel
<1>2. todo \subseteq Nat
  BY DEF Nodes, NodeAssumption
<1>3. PICK x \in todo : \A y \in todo : ~ (<<y, x>> \in R)
  <2> HIDE DEF R
  <2>1. QED BY <1>1, <1>2, WFMin
<1>4. \A y \in todo : x <= y
  <2> TAKE y \in todo
  <2>1. x \in Nat /\ y \in Nat
    BY <1>2
  <2>2. ~ (y < x)
    BY <1>3, <2>1
  <2>3. QED BY <2>1, <2>2
<1>5. QED BY <1>4 DEF NextPeer

------------------------------------------------------------------------------
(* The steps, by the tables they write *)

\* A commit at node n of a block certified by then.
LEMMA CommitKeepsTree ==
    ASSUME TreeInv, NEW b \in DOMAIN log, certified' = certified \cup {b}, log' = log,
           NEW n \in Nodes, DOMAIN rounds' \subseteq DOMAIN rounds, SyncsOnlyEnd,
           \/ rows' = [rows EXCEPT ![n] =
                         CommitRows(@, log[b].height, CertifiedRow(b))]
           \/ rows' = rows
    PROVE  TreeInv'
<1>1. \A m \in Nodes : Genuine(rows[m], certified', log)
  BY GenuineGrows DEF TreeInv
<1>2. /\ rows' = [m \in Nodes |-> rows'[m]]
      /\ \A m \in Nodes :
            \/ rows'[m] = rows[m]
            \/ rows'[m] = CommitRows(rows[m], log[b].height, CertifiedRow(b))
  BY DEF TreeInv
<1>3. \A m \in Nodes : Genuine(rows'[m], certified', log')
  <2> TAKE m \in Nodes
  <2>1. CertifiedRow(b).hash = b /\ b \in certified'
    BY DEF CertifiedRow
  <2>2. Genuine(CommitRows(rows[m], log[b].height, CertifiedRow(b)), certified', log)
    BY <1>1, <2>1, GenuineCommit
  <2>3. QED BY <1>1, <1>2, <2>2
<1>4. \A m \in DOMAIN syncs' : m \in DOMAIN syncs /\ syncs'[m] = syncs[m]
  BY DEF SyncsOnlyEnd
<1>5. \A m \in DOMAIN syncs' : Genuine(syncs'[m].rows, certified', log')
  BY <1>4, GenuineGrows DEF TreeInv
<1>6. \A c \in DOMAIN log' : Extends(c, certified', log')
  BY ExtendsGrows DEF TreeInv
<1>7. QED BY <1>2, <1>3, <1>4, <1>5, <1>6 DEF TreeInv, SyncsOnlyEnd

\* A reconciliation of node n with a genuine chain, or nothing.
LEMMA SyncKeepsTree ==
    ASSUME TreeInv, UNCHANGED <<log, certified>>, NEW n \in Nodes,
           DOMAIN rounds' \subseteq DOMAIN rounds, SyncsOnlyEnd,
           NEW peerRows, Genuine(peerRows, certified, log),
           \/ rows' = [rows EXCEPT ![n] = OverwriteRows(@, peerRows)]
           \/ rows' = rows
    PROVE  TreeInv'
<1>1. /\ rows' = [m \in Nodes |-> rows'[m]]
      /\ \A m \in Nodes : \/ rows'[m] = rows[m]
                          \/ rows'[m] = OverwriteRows(rows[m], peerRows)
  BY DEF TreeInv
<1>2. \A m \in Nodes : Genuine(rows'[m], certified, log)
  BY <1>1, GenuineOverwrite DEF TreeInv
<1>3. \A m \in DOMAIN syncs' : m \in DOMAIN syncs /\ syncs'[m] = syncs[m]
  BY DEF SyncsOnlyEnd
<1>4. QED BY <1>1, <1>2, <1>3 DEF TreeInv, SyncsOnlyEnd

\* A candidate extends the certified block its proposer has on top.
LEMMA ProposeKeepsTree ==
    ASSUME NodeAssumption, TreeInv, NEW n \in Nodes, Propose(n)
    PROVE  TreeInv'
<1> DEFINE b == Len(log) + 1
           top == rows[n][height[n]].hash
           header == [height |-> height[n] + 1, prev |-> top,
                      kind |-> "REGISTER_PROOF", by |-> n]
<1>1. /\ log' = Append(log, header) /\ DOMAIN rounds' = DOMAIN rounds \cup {b}
      /\ height[n] \in DOMAIN rows[n]
      /\ UNCHANGED <<rows, syncs, certified>>
  BY DEF Propose, storage
<1>2. /\ log \in Seq(Header) /\ certified \subseteq DOMAIN log
      /\ Genuine(rows[n], certified, log)
  BY DEF TreeInv
<1>3. \/ height[n] = 0 /\ top = GenesisHash
      \/ top \in certified /\ height[n] = log[top].height
  BY <1>1, <1>2 DEF Genuine
<1>4. DOMAIN log = 1..Len(log) /\ Len(log) \in Nat /\ \A c \in DOMAIN log : log[c] \in Header
  BY <1>2
<1> HIDE DEF header, top
<1>5. header \in Header
  <2>1. height[n] \in Nat /\ top \in Digest
    BY <1>2, <1>3, <1>4 DEF Header, Digest, GenesisHash
  <2>2. QED BY <2>1 DEF header, Header
<1>6. /\ log' \in Seq(Header) /\ DOMAIN log' = DOMAIN log \cup {b}
      /\ log'[b] = header /\ \A c \in DOMAIN log : log'[c] = log[c]
  <2>1. DOMAIN log' = 1..(Len(log) + 1)
    BY <1>1, <1>2, <1>5
  <2>2. QED BY <1>1, <1>2, <1>4, <1>5, <2>1
<1> DEFINE logNext == log'
<1>7. /\ \A c \in certified : logNext[c] = log[c]
      /\ \A rs : Genuine(rs, certified, log) => Genuine(rs, certified, logNext)
  <2>1. \A c \in certified : logNext[c] = log[c]
    BY <1>2, <1>6
  <2>2. \A rs : Genuine(rs, certified, log) => Genuine(rs, certified, logNext)
    BY <2>1, GenuineGrows
  <2>3. QED BY <2>1, <2>2
<1>8. /\ \A m \in Nodes : Genuine(rows'[m], certified', log')
      /\ \A m \in DOMAIN syncs' : Genuine(syncs'[m].rows, certified', log')
  BY <1>1, <1>7 DEF TreeInv
<1>9. Extends(b, certified', log')
  <2>1. header.prev = top /\ header.height = height[n] + 1
    BY DEF header
  <2>2. top \in certified => log'[top] = log[top]
    BY <1>7
  <2>3. CASE height[n] = 0 /\ top = GenesisHash
    BY <1>6, <2>1, <2>3 DEF Extends
  <2>4. CASE top \in certified /\ height[n] = log[top].height
    BY <1>1, <1>6, <2>1, <2>2, <2>4 DEF Extends
  <2>5. QED BY <1>3, <2>3, <2>4
<1>10. \A c \in DOMAIN log : Extends(c, certified', log')
  <2> TAKE c \in DOMAIN log
  <2>1. Extends(c, certified, log) /\ logNext[c] = log[c]
    BY <1>6 DEF TreeInv
  <2>2. Extends(c, certified, logNext)
    BY <1>7, <2>1, ExtendsGrows
  <2>3. QED BY <1>1, <2>2
<1>11. QED BY <1>1, <1>2, <1>6, <1>7, <1>8, <1>9, <1>10 DEF TreeInv

\* A sync that has fetched nothing yet.
LEMMA StartSyncKeepsTree ==
    ASSUME TreeInv, NEW n \in Nodes, StartSync(n)
    PROVE  TreeInv'
<1>1. /\ UNCHANGED <<rows, rounds, log, certified>>
      /\ DOMAIN syncs' = DOMAIN syncs \cup {n} /\ n \notin DOMAIN syncs
      /\ syncs' = [m \in DOMAIN syncs' |-> syncs'[m]]
      /\ \A m \in DOMAIN syncs : syncs'[m] = syncs[m]
      /\ syncs'[n] = [initialHeight |-> height[n], todo |-> Peers(n),
                      rows |-> Without(GenesisRows, {0}), txs |-> NoTxs]
  BY DEF StartSync, storage
<1>2. syncs'[n].todo \subseteq Nodes /\ syncs'[n] = [f \in SyncFields |-> syncs'[n][f]]
  BY <1>1 DEF SyncFields, Peers
<1>3. Genuine(syncs'[n].rows, certified, log)
  <2>1. DOMAIN syncs'[n].rows = {}
    BY <1>1 DEF Without, GenesisRows
  <2>2. QED BY <2>1 DEF Genuine
<1>4. \A m \in DOMAIN syncs' : /\ syncs'[m] = [f \in SyncFields |-> syncs'[m][f]]
                               /\ Genuine(syncs'[m].rows, certified, log)
                               /\ syncs'[m].todo \subseteq Nodes
  BY <1>1, <1>2, <1>3 DEF TreeInv
<1>5. DOMAIN syncs' \subseteq Nodes
  BY <1>1 DEF TreeInv
<1>6. QED BY <1>1, <1>4, <1>5 DEF TreeInv

\* A fetch keeps what it had or takes a copy of a peer's table.
LEMMA FetchBlocksKeepsTree ==
    ASSUME NodeAssumption, TreeInv, NEW n \in DOMAIN syncs, FetchBlocks(n)
    PROVE  TreeInv'
<1> DEFINE p == NextPeer(syncs[n].todo)
<1>0. p \in Nodes
  BY NextPeerIsPeer DEF TreeInv, FetchBlocks
<1> HIDE DEF p
<1>1. UNCHANGED <<rows, rounds, log, certified>>
  BY DEF FetchBlocks, storage
<1>2. syncs[n] = [f \in SyncFields |-> syncs[n][f]] /\ DOMAIN syncs[n] = SyncFields
  BY DEF TreeInv
<1>3. /\ DOMAIN syncs' = DOMAIN syncs
      /\ syncs' = [m \in DOMAIN syncs |-> syncs'[m]]
      /\ \A m \in DOMAIN syncs \ {n} : syncs'[m] = syncs[m]
      /\ syncs'[n] = [f \in SyncFields |-> syncs'[n][f]]
      /\ syncs'[n].rows \in {syncs[n].rows, rows[p]}
      /\ syncs'[n].todo \subseteq syncs[n].todo
  BY <1>2 DEF FetchBlocks, TreeInv, SyncFields, p
<1>4. Genuine(syncs[n].rows, certified, log) /\ Genuine(rows[p], certified, log)
  BY <1>0 DEF TreeInv
<1>5. \A m \in DOMAIN syncs' : /\ syncs'[m] = [f \in SyncFields |-> syncs'[m][f]]
                               /\ Genuine(syncs'[m].rows, certified, log)
                               /\ syncs'[m].todo \subseteq Nodes
  BY <1>3, <1>4 DEF TreeInv
<1>6. QED BY <1>1, <1>3, <1>5 DEF TreeInv

\* The steps that write no table.
LEMMA RoundKeepsTree ==
    ASSUME TreeInv, UNCHANGED <<rows, log, certified>>, SyncsOnlyEnd,
           DOMAIN rounds' \subseteq DOMAIN rounds
    PROVE  TreeInv'
<1>1. \A m \in DOMAIN syncs' : m \in DOMAIN syncs /\ syncs'[m] = syncs[m]
  BY DEF SyncsOnlyEnd
<1>2. QED BY <1>1 DEF TreeInv, SyncsOnlyEnd

------------------------------------------------------------------------------
(* Type correctness *)

\* What TypeOK leaves out and its preservation needs: genesis is on every node,
\* no table is higher than the candidates are many, a node stands on a row, and
\* only certified blocks are sent to be committed.
Bounded ==
    /\ \A n \in Nodes : /\ 0 \in DOMAIN rows[n] /\ rows[n][0].hash = GenesisHash
                        /\ DOMAIN rows[n] \subseteq 0..Len(log)
                        /\ height[n] \in DOMAIN rows[n]
    /\ \A n \in DOMAIN syncs :
          /\ DOMAIN syncs[n] = SyncFields
          /\ DOMAIN syncs[n].rows \subseteq 0..Len(log)
          /\ DOMAIN syncs[n].rows # {} => /\ 0 \in DOMAIN syncs[n].rows
                                          /\ syncs[n].rows[0].hash = GenesisHash
          /\ DOMAIN syncs[n].txs \subseteq DOMAIN log
    /\ \A b \in DOMAIN log : log[b].height \in 1..Len(log)
    /\ \A b \in DOMAIN rounds : rounds[b].phase = "COMMITTING" => b \in certified

TypeInv == TypeOK /\ Bounded

AFunction(f) == f = [x \in DOMAIN f |-> f[x]]

\* The two tables of a node, on their own.
TablesOK(rs, ts) ==
    /\ rs \in [DOMAIN rs -> Row] /\ ts \in [DOMAIN ts -> Tx]
    /\ DOMAIN rs \subseteq 0..Len(log) /\ DOMAIN ts \subseteq DOMAIN log
    /\ 0 \in DOMAIN rs /\ rs[0].hash = GenesisHash

LEMMA NodesHaveTables ==
    ASSUME TypeInv
    PROVE  /\ \A n \in Nodes : TablesOK(rows[n], txs[n])
           /\ \A n \in DOMAIN syncs : DOMAIN syncs[n].rows # {} =>
                  TablesOK(syncs[n].rows, syncs[n].txs)
           /\ DOMAIN log = 1..Len(log) /\ Len(log) \in Nat
BY DEF TypeInv, TypeOK, Bounded, TablesOK

\* The block row of a commit, with its transaction or, after a crash, without.
LEMMA CommitTables ==
    ASSUME TypeInv, NEW rs, NEW ts, TablesOK(rs, ts), NEW b \in DOMAIN log
    PROVE  LET newRows == CommitRows(rs, log[b].height, CertifiedRow(b))
           IN  /\ TablesOK(newRows, ts)
               /\ TablesOK(newRows, CommitTxs(ts, b, log[b].height))
               /\ log[b].height \in DOMAIN newRows
<1> DEFINE h == log[b].height
           newRows == CommitRows(rs, h, CertifiedRow(b))
           newTxs == CommitTxs(ts, b, h)
<1>1. /\ b \in Nat \ {0} /\ h \in 1..Len(log) /\ Len(log) \in Nat
      /\ log[b].prev \in Digest
  <2>1. DOMAIN log = 1..Len(log) /\ Len(log) \in Nat
    BY NodesHaveTables
  <2>2. log[b] \in Header
    BY DEF TypeInv, TypeOK
  <2>3. QED BY <2>1, <2>2 DEF TypeInv, Bounded, Header
<1>2. CertifiedRow(b) \in Row /\ CertifiedRow(b).hash = b
  BY <1>1 DEF CertifiedRow, Row, Digest
<1>3. /\ DOMAIN newRows # {} /\ DOMAIN newRows \subseteq DOMAIN rs \cup {h}
      /\ newRows \in [DOMAIN newRows -> Row]
      /\ DOMAIN newTxs = DOMAIN ts \cup {b}
      /\ newTxs \in [DOMAIN newTxs -> Tx]
  <2>1. h \in Nat /\ rs \in [DOMAIN rs -> Row] /\ ts \in [DOMAIN ts -> Tx]
    BY <1>1 DEF TablesOK
  <2> HIDE DEF h
  <2>2. QED BY <1>2, <2>1, CommitTyped, Zenon
<1>4. 0 \in DOMAIN newRows /\ newRows[0] = rs[0] /\ h \in DOMAIN newRows
  BY <1>1, <1>2 DEF CommitRows, TablesOK, GenesisHash
<1> HIDE DEF newRows, newTxs, h
<1>5. TablesOK(newRows, ts) /\ TablesOK(newRows, newTxs)
  BY <1>1, <1>3, <1>4 DEF TablesOK
<1>6. QED BY <1>4, <1>5 DEF newRows, newTxs, h

LEMMA OverwriteTables ==
    ASSUME NEW rs, NEW ts, NEW peerRows, NEW peerTxs,
           TablesOK(rs, ts), TablesOK(peerRows, peerTxs)
    PROVE  TablesOK(OverwriteRows(rs, peerRows), OverwriteTxs(ts, peerRows, peerTxs))
<1> DEFINE newRows == OverwriteRows(rs, peerRows)
           newTxs == OverwriteTxs(ts, peerRows, peerTxs)
<1>1. /\ DOMAIN newRows \subseteq DOMAIN rs \cup DOMAIN peerRows
      /\ newRows \in [DOMAIN newRows -> Row]
      /\ DOMAIN newTxs \subseteq DOMAIN ts \cup DOMAIN peerTxs
      /\ newTxs \in [DOMAIN newTxs -> Tx]
  BY OverwriteTyped DEF TablesOK
<1>2. 0 \in DOMAIN newRows /\ newRows[0] = peerRows[0]
  BY DEF OverwriteRows, TablesOK
<1> HIDE DEF newRows, newTxs
<1>3. TablesOK(newRows, newTxs)
  BY <1>1, <1>2 DEF TablesOK
<1>4. QED BY <1>3 DEF newRows, newTxs

\* The greatest height of a table is the height of a row.
LEMMA TableHasTop ==
    ASSUME Len(log) \in Nat, NEW rs, NEW ts, TablesOK(rs, ts)
    PROVE  /\ TopHeight(rs) \in DOMAIN rs
           /\ \A g \in DOMAIN rs : g <= TopHeight(rs)
BY TopHeightOfNode DEF TablesOK

\* The steps of rounds, of syncs and of the two tables of node n change the rest
\* of a typed state not at all.
LEMMA TypedNodeStep ==
    ASSUME TypeInv, NEW n \in Nodes, log' = log,
           certified \subseteq certified', certified' \subseteq DOMAIN log,
           status' \in [Nodes -> NodeStatus \ {"SYNCING"}],
           DOMAIN height' = Nodes, AFunction(height'),
           DOMAIN rows' = Nodes, DOMAIN txs' = Nodes,
           \A m \in Nodes \ {n} : /\ rows'[m] = rows[m] /\ txs'[m] = txs[m]
                                  /\ height'[m] = height[m],
           TablesOK(rows'[n], txs'[n]), height'[n] \in DOMAIN rows'[n],
           DOMAIN rounds' \subseteq DOMAIN rounds,
           AFunction(rounds'),
           \A b \in DOMAIN rounds' :
              /\ rounds'[b] \in Round
              /\ rounds'[b].phase = "COMMITTING" => b \in certified',
           commits' \subseteq certified' \X Nodes,
           \A m \in DOMAIN syncs' : m \in DOMAIN syncs /\ syncs'[m] = syncs[m]
    PROVE  TypeInv'
<1>1. \A m \in Nodes : TablesOK(rows'[m], txs'[m]) /\ height'[m] \in DOMAIN rows'[m]
  <2> TAKE m \in Nodes
  <2>1. CASE m = n
    BY <2>1
  <2>2. CASE m # n
    BY <2>2, NodesHaveTables DEF TypeInv, Bounded
  <2>3. QED BY <2>1, <2>2
<1>2. Len(log) \in Nat /\ DOMAIN log \subseteq Nat
  BY NodesHaveTables
<1>3. \A m \in Nodes : /\ DOMAIN rows'[m] \subseteq Nat /\ rows'[m] \in [DOMAIN rows'[m] -> Row]
                       /\ DOMAIN txs'[m] \subseteq DOMAIN log /\ txs'[m] \in [DOMAIN txs'[m] -> Tx]
                       /\ DOMAIN rows'[m] \subseteq 0..Len(log)
                       /\ 0 \in DOMAIN rows'[m] /\ rows'[m][0].hash = GenesisHash
  BY <1>1, <1>2 DEF TablesOK
<1>4. height' \in [Nodes -> Nat]
  <2>1. \A m \in Nodes : height'[m] \in Nat
    BY <1>1, <1>3
  <2>2. QED BY <2>1 DEF AFunction
<1>5. rounds' \in [DOMAIN rounds' -> Round] /\ DOMAIN rounds' \subseteq DOMAIN log'
  BY DEF TypeInv, TypeOK, AFunction
<1>6. TypeOK'
  BY <1>3, <1>4, <1>5 DEF TypeInv, TypeOK
<1>7. Bounded'
  BY <1>1, <1>3 DEF TypeInv, Bounded
<1>8. QED BY <1>6, <1>7 DEF TypeInv

\* A candidate of the next number and its round.
LEMMA ProposeTyped ==
    ASSUME NodeAssumption, TypeInv, NEW n \in Nodes, Propose(n)
    PROVE  TypeInv'
<1> DEFINE b == Len(log) + 1
           header == [height |-> height[n] + 1, prev |-> rows[n][height[n]].hash,
                      kind |-> "REGISTER_PROOF", by |-> n]
           round == [phase |-> "VOTING", todo |-> Peers(n), votes |-> {n}]
<1>1. /\ log' = Append(log, header)
      /\ DOMAIN rounds' = DOMAIN rounds \cup {b} /\ rounds'[b] = round
      /\ \A c \in DOMAIN rounds \ {b} : rounds'[c] = rounds[c]
      /\ rounds' = [c \in DOMAIN rounds' |-> rounds'[c]]
      /\ height[n] \in DOMAIN rows[n]
      /\ UNCHANGED <<status, height, rows, txs, commits, syncs, certified>>
  BY DEF Propose, storage
<1>2. /\ DOMAIN log = 1..Len(log) /\ Len(log) \in Nat /\ TablesOK(rows[n], txs[n])
      /\ log \in Seq(Header) /\ \A c \in DOMAIN log : log[c] \in Header
  BY NodesHaveTables DEF TypeInv, TypeOK
<1>3. header \in Header /\ header.height \in 1..b
  <2>1. height[n] \in 0..Len(log) /\ rows[n][height[n]] \in Row
    BY <1>1, <1>2 DEF TablesOK
  <2>2. QED BY <1>2, <2>1 DEF Header, Row
<1> HIDE DEF header
<1>4. /\ log' \in Seq(Header) /\ Len(log') = b /\ DOMAIN log' = DOMAIN log \cup {b}
      /\ log'[b] = header /\ \A c \in DOMAIN log : log'[c] = log[c]
  BY <1>1, <1>2, <1>3
<1>5. round \in Round /\ round.phase # "COMMITTING"
  BY DEF Round, Peers
<1> HIDE DEF round
<1>6. b \notin DOMAIN log /\ DOMAIN rounds \subseteq DOMAIN log
  BY <1>2 DEF TypeInv, TypeOK
<1>7. /\ rounds' \in [DOMAIN rounds' -> Round] /\ DOMAIN rounds' \subseteq DOMAIN log'
      /\ \A c \in DOMAIN rounds' : rounds'[c].phase = "COMMITTING" => c \in certified
  BY <1>1, <1>4, <1>5, <1>6 DEF TypeInv, TypeOK, Bounded
<1>8. \A m \in Nodes : DOMAIN rows[m] \subseteq 0..b
  <2>1. \A m \in Nodes : DOMAIN rows[m] \subseteq 0..Len(log)
    BY DEF TypeInv, Bounded
  <2>2. QED BY <1>2, <2>1
<1>9. \A m \in DOMAIN syncs : DOMAIN syncs[m].rows \subseteq 0..b
  <2>1. \A m \in DOMAIN syncs : DOMAIN syncs[m].rows \subseteq 0..Len(log)
    BY DEF TypeInv, Bounded
  <2>2. QED BY <1>2, <2>1
<1>10. \A c \in DOMAIN log' : log'[c].height \in 1..b
  <2>1. \A c \in DOMAIN log : log[c].height \in 1..Len(log)
    BY DEF TypeInv, Bounded
  <2>2. QED BY <1>2, <1>3, <1>4, <2>1
<1>11. TypeOK'
  BY <1>1, <1>4, <1>7 DEF TypeInv, TypeOK
<1>12. Bounded'
  <2> HIDE DEF b
  <2>1. QED BY <1>1, <1>4, <1>7, <1>8, <1>9, <1>10 DEF TypeInv, Bounded
<1>13. QED BY <1>11, <1>12 DEF TypeInv

\* The steps that write neither a table nor the log.
LEMMA QuietTyped ==
    ASSUME TypeInv, UNCHANGED <<height, rows, txs, log, certified>>,
           status' \in [Nodes -> NodeStatus \ {"SYNCING"}],
           DOMAIN rounds' \subseteq DOMAIN log, rounds' \in [DOMAIN rounds' -> Round],
           \A b \in DOMAIN rounds' : rounds'[b].phase = "COMMITTING" => b \in certified,
           commits' \subseteq certified \X Nodes,
           DOMAIN syncs' \subseteq Nodes,
           \A n \in DOMAIN syncs' :
              /\ DOMAIN syncs'[n] = SyncFields
              /\ syncs'[n].initialHeight \in Nat /\ syncs'[n].todo \subseteq Peers(n)
              /\ \/ TablesOK(syncs'[n].rows, syncs'[n].txs)
                 \/ /\ syncs'[n].rows \in [{} -> Row] /\ DOMAIN syncs'[n].rows = {}
                    /\ DOMAIN syncs'[n].txs \subseteq DOMAIN log
                    /\ syncs'[n].txs \in [DOMAIN syncs'[n].txs -> Tx]
    PROVE  TypeInv'
<1>1. \A n \in DOMAIN syncs' :
         /\ syncs'[n].rows \in [DOMAIN syncs'[n].rows -> Row]
         /\ syncs'[n].txs \in [DOMAIN syncs'[n].txs -> Tx]
         /\ DOMAIN syncs'[n].rows \subseteq 0..Len(log)
         /\ DOMAIN syncs'[n].rows # {} => /\ 0 \in DOMAIN syncs'[n].rows
                                          /\ syncs'[n].rows[0].hash = GenesisHash
         /\ DOMAIN syncs'[n].txs \subseteq DOMAIN log
  BY DEF TablesOK
<1>2. TypeOK'
  BY <1>1 DEF TypeInv, TypeOK
<1>3. Bounded'
  BY <1>1 DEF TypeInv, Bounded
<1>4. QED BY <1>2, <1>3 DEF TypeInv

\* A sync that is under way has fetched nothing or a table.
LEMMA SyncsTyped ==
    ASSUME TypeInv
    PROVE  /\ DOMAIN syncs \subseteq Nodes
           /\ \A n \in DOMAIN syncs :
                 /\ DOMAIN syncs[n] = SyncFields
                 /\ syncs[n].initialHeight \in Nat /\ syncs[n].todo \subseteq Peers(n)
                 /\ \/ TablesOK(syncs[n].rows, syncs[n].txs)
                    \/ /\ syncs[n].rows \in [{} -> Row] /\ DOMAIN syncs[n].rows = {}
                       /\ DOMAIN syncs[n].txs \subseteq DOMAIN log
                       /\ syncs[n].txs \in [DOMAIN syncs[n].txs -> Tx]
BY DEF TypeInv, TypeOK, Bounded, TablesOK

\* The turns of the two loops of a round.
LEMMA RoundTyped ==
    ASSUME NodeAssumption, TypeInv, NEW b \in DOMAIN rounds,
           ReceiveBlock(b) \/ RejectRound(b) \/ SendCommit(b)
    PROVE  TypeInv'
<1> DEFINE p == NextPeer(rounds[b].todo)
<1>1. /\ rounds \in [DOMAIN rounds -> Round] /\ DOMAIN rounds \subseteq DOMAIN log
      /\ \A c \in DOMAIN rounds : rounds[c].phase = "COMMITTING" => c \in certified
      /\ commits \subseteq certified \X Nodes
      /\ status \in [Nodes -> NodeStatus \ {"SYNCING"}]
  BY DEF TypeInv, TypeOK, Bounded
<1>2. rounds[b] \in Round
  BY <1>1
<1>3. UNCHANGED <<status, height, rows, txs, syncs, log, certified>>
  BY DEF ReceiveBlock, RejectRound, SendCommit, storage
<1>4. rounds[b].todo # {} => p \in rounds[b].todo /\ p \in Nodes
  BY <1>2, NextPeerIsPeer DEF Round
<1> HIDE DEF p
<1>5. /\ DOMAIN rounds' \subseteq DOMAIN rounds
      /\ rounds' = [c \in DOMAIN rounds' |-> rounds'[c]]
      /\ \A c \in DOMAIN rounds' : rounds'[c] \in Round /\ rounds'[c].phase = rounds[c].phase
  <2>1. CASE ReceiveBlock(b)
    BY <1>1, <1>2, <1>4, <2>1 DEF ReceiveBlock, Round, p
  <2>2. CASE RejectRound(b)
    BY <1>1, <2>2 DEF RejectRound, Without
  <2>3. CASE SendCommit(b)
    BY <1>1, <1>2, <2>3 DEF SendCommit, Without, Round
  <2>4. QED BY <2>1, <2>2, <2>3
<1>6. commits' \subseteq certified \X Nodes
  <2>1. CASE SendCommit(b)
    BY <1>1, <1>4, <2>1 DEF SendCommit, p
  <2>2. CASE ReceiveBlock(b) \/ RejectRound(b)
    BY <1>1, <2>2 DEF ReceiveBlock, RejectRound
  <2>3. QED BY <2>1, <2>2
<1>7. QED BY <1>1, <1>3, <1>5, <1>6, SyncsTyped, QuietTyped

\* What the steps below start from.
LEMMA TypedParts ==
    ASSUME TypeInv
    PROVE  /\ DOMAIN rows = Nodes /\ DOMAIN txs = Nodes /\ height \in [Nodes -> Nat]
           /\ \A m \in Nodes : height[m] \in DOMAIN rows[m]
           /\ status \in [Nodes -> NodeStatus \ {"SYNCING"}]
           /\ certified \subseteq DOMAIN log /\ commits \subseteq certified \X Nodes
           /\ DOMAIN rounds \subseteq DOMAIN log
           /\ \A c \in DOMAIN log : log[c] \in Header /\ log[c].by \in Nodes
           /\ AFunction(rounds)
           /\ \A c \in DOMAIN rounds : /\ rounds[c] \in Round
                                       /\ rounds[c].phase = "COMMITTING" => c \in certified
<1>1. \A c \in DOMAIN log : log[c] \in Header
  BY DEF TypeInv, TypeOK
<1>2. \A c \in DOMAIN log : log[c].by \in Nodes
  BY <1>1 DEF Header
<1>3. QED BY <1>1, <1>2 DEF TypeInv, TypeOK, Bounded, AFunction

\* The certificate with the commit of its proposer, and the commit at a peer.
LEMMA CommitStepTyped ==
    ASSUME TypeInv, NEW b \in DOMAIN log, NEW n \in Nodes,
           UNCHANGED <<status, syncs, log>>, certified' = certified \cup {b},
           commits' \subseteq commits,
           CommitBlock(n, b) \/ UNCHANGED <<height, rows, txs>>,
           DOMAIN rounds' \subseteq DOMAIN rounds,
           AFunction(rounds'),
           \A c \in DOMAIN rounds' :
              /\ rounds'[c] \in Round
              /\ rounds'[c].phase = "COMMITTING" => c \in certified'
    PROVE  TypeInv'
<1>1. TablesOK(rows[n], txs[n])
  BY NodesHaveTables
<1>2. /\ DOMAIN rows' = Nodes /\ DOMAIN txs' = Nodes
      /\ DOMAIN height' = Nodes /\ AFunction(height')
      /\ \A m \in Nodes \ {n} : /\ rows'[m] = rows[m] /\ txs'[m] = txs[m]
                                /\ height'[m] = height[m]
  BY TypedParts DEF CommitBlock, AFunction
<1>3. TablesOK(rows'[n], txs'[n]) /\ height'[n] \in DOMAIN rows'[n]
  <2>1. CASE UNCHANGED <<height, rows, txs>>
    BY <1>1, <2>1, TypedParts
  <2>2. CASE CommitBlock(n, b)
    <3>1. /\ rows'[n] = CommitRows(rows[n], log[b].height, CertifiedRow(b))
          /\ txs'[n] = CommitTxs(txs[n], b, log[b].height)
          /\ height'[n] = log[b].height
      BY <2>2, TypedParts DEF CommitBlock
    <3>2. QED BY <1>1, <3>1, CommitTables
  <2>3. QED BY <2>1, <2>2
<1>4. certified' \subseteq DOMAIN log /\ commits' \subseteq certified' \X Nodes
  BY TypedParts
<1>5. status' \in [Nodes -> NodeStatus \ {"SYNCING"}]
  BY TypedParts
<1>6. QED BY <1>2, <1>3, <1>4, <1>5, TypedNodeStep

LEMMA CertifyTyped ==
    ASSUME TypeInv, NEW b \in DOMAIN rounds, Certify(b)
    PROVE  TypeInv'
<1>1. b \in DOMAIN log /\ log[b].by \in Nodes
  BY TypedParts
<1>2. /\ UNCHANGED <<status, syncs, log, commits>> /\ certified' = certified \cup {b}
      /\ CommitBlock(log[b].by, b) \/ UNCHANGED <<height, rows, txs>>
      /\ rounds' = [rounds EXCEPT ![b] = [phase |-> "COMMITTING", todo |-> Peers(log[b].by),
                                          votes |-> {}]]
  BY DEF Certify, storage
<1>3. [phase |-> "COMMITTING", todo |-> Peers(log[b].by), votes |-> {}] \in Round
  BY DEF Round, Peers
<1>4. /\ DOMAIN rounds' = DOMAIN rounds /\ AFunction(rounds')
      /\ \A c \in DOMAIN rounds' :
            /\ rounds'[c] \in Round
            /\ rounds'[c].phase = "COMMITTING" => c \in certified'
  <2>1. /\ AFunction(rounds)
        /\ \A c \in DOMAIN rounds : /\ rounds[c] \in Round
                                    /\ rounds[c].phase = "COMMITTING" => c \in certified
    BY TypedParts
  <2>2. \A c \in DOMAIN rounds : \/ rounds'[c] = rounds[c] /\ c # b
                                 \/ c = b /\ rounds'[c] \in Round
    BY <1>2, <1>3
  <2>3. DOMAIN rounds' = DOMAIN rounds /\ AFunction(rounds')
    BY <1>2 DEF AFunction
  <2>4. \A c \in DOMAIN rounds' : /\ rounds'[c] \in Round
                                  /\ rounds'[c].phase = "COMMITTING" => c \in certified'
    <3> TAKE c \in DOMAIN rounds'
    <3>1. c \in DOMAIN rounds /\ certified \subseteq certified' /\ b \in certified'
      BY <1>2, <2>3
    <3>2. QED BY <2>1, <2>2, <3>1
  <2>5. QED BY <2>3, <2>4
<1>5. QED BY <1>1, <1>2, <1>4, CommitStepTyped

LEMMA HandleCommitTyped ==
    ASSUME TypeInv, NEW b \in certified, NEW p \in Nodes, HandleCommit(b, p)
    PROVE  TypeInv'
<1>1. /\ UNCHANGED <<status, rounds, syncs, log, certified>> /\ commits' \subseteq commits
      /\ CommitBlock(p, b) \/ UNCHANGED <<height, rows, txs>>
  BY DEF HandleCommit, storage
<1>2. b \in DOMAIN log /\ certified' = certified \cup {b}
  BY <1>1, TypedParts
<1>3. /\ DOMAIN rounds' = DOMAIN rounds /\ AFunction(rounds')
      /\ \A c \in DOMAIN rounds' :
            /\ rounds'[c] \in Round
            /\ rounds'[c].phase = "COMMITTING" => c \in certified'
  <2>1. /\ AFunction(rounds)
        /\ \A c \in DOMAIN rounds : /\ rounds[c] \in Round
                                    /\ rounds[c].phase = "COMMITTING" => c \in certified
    BY TypedParts
  <2>2. rounds' = rounds /\ certified' = certified
    BY <1>1
  <2>3. DOMAIN rounds' = DOMAIN rounds /\ AFunction(rounds')
    BY <2>1, <2>2, Zenon
  <2>4. \A c \in DOMAIN rounds' : /\ rounds'[c] \in Round
                                  /\ rounds'[c].phase = "COMMITTING" => c \in certified'
    BY <2>1, <2>2
  <2>5. QED BY <2>3, <2>4
<1>4. QED BY <1>1, <1>2, <1>3, CommitStepTyped

\* A sync begins, gets an answer, or gets none.
LEMMA FetchTyped ==
    ASSUME NodeAssumption, TypeInv, NEW n \in Nodes,
           StartSync(n) \/ (n \in DOMAIN syncs /\ FetchBlocks(n))
    PROVE  TypeInv'
<1>1. UNCHANGED <<status, height, rows, txs, rounds, commits, log, certified>>
  BY DEF StartSync, FetchBlocks, storage
<1>2. DOMAIN syncs' \subseteq Nodes /\ \A m \in DOMAIN syncs' \ {n} :
                                       m \in DOMAIN syncs /\ syncs'[m] = syncs[m]
  BY SyncsTyped DEF StartSync, FetchBlocks
<1>3. /\ DOMAIN syncs'[n] = SyncFields
      /\ syncs'[n].initialHeight \in Nat /\ syncs'[n].todo \subseteq Peers(n)
      /\ \/ TablesOK(syncs'[n].rows, syncs'[n].txs)
         \/ /\ syncs'[n].rows \in [{} -> Row] /\ DOMAIN syncs'[n].rows = {}
            /\ DOMAIN syncs'[n].txs \subseteq DOMAIN log
            /\ syncs'[n].txs \in [DOMAIN syncs'[n].txs -> Tx]
  <2>1. CASE StartSync(n)
    <3>1. syncs'[n] = [initialHeight |-> height[n], todo |-> Peers(n),
                       rows |-> Without(GenesisRows, {0}), txs |-> NoTxs]
      BY <2>1 DEF StartSync
    <3>2. /\ DOMAIN Without(GenesisRows, {0}) = {} /\ Without(GenesisRows, {0}) \in [{} -> Row]
          /\ DOMAIN NoTxs = {} /\ NoTxs \in [{} -> Tx]
      BY DEF Without, GenesisRows, NoTxs
    <3>3. height[n] \in Nat
      BY TypedParts
    <3>4. QED BY <3>1, <3>2, <3>3 DEF SyncFields
  <2>2. CASE n \in DOMAIN syncs /\ FetchBlocks(n)
    <3> DEFINE p == NextPeer(syncs[n].todo)
    <3>1. syncs[n].todo \subseteq Nodes /\ syncs[n].todo # {}
      BY <2>2, SyncsTyped DEF FetchBlocks, Peers
    <3>2. p \in Nodes
      BY <3>1, NextPeerIsPeer
    <3>3. DOMAIN syncs[n] = SyncFields
      BY <2>2, SyncsTyped
    <3>4. /\ DOMAIN syncs'[n] = SyncFields
          /\ syncs'[n].initialHeight = syncs[n].initialHeight
          /\ syncs'[n].todo \subseteq syncs[n].todo
          /\ \/ syncs'[n].rows = syncs[n].rows /\ syncs'[n].txs = syncs[n].txs
             \/ syncs'[n].rows = rows[p] /\ syncs'[n].txs = txs[p]
      BY <2>2, <3>3 DEF FetchBlocks, SyncFields
    <3> HIDE DEF p
    <3>5. TablesOK(rows[p], txs[p])
      BY <3>2, NodesHaveTables
    <3>6. QED BY <2>2, <3>4, <3>5, SyncsTyped
  <2>3. QED BY <2>1, <2>2
<1>4. \A m \in DOMAIN syncs' :
         /\ DOMAIN syncs'[m] = SyncFields
         /\ syncs'[m].initialHeight \in Nat /\ syncs'[m].todo \subseteq Peers(m)
         /\ \/ TablesOK(syncs'[m].rows, syncs'[m].txs)
            \/ /\ syncs'[m].rows \in [{} -> Row] /\ DOMAIN syncs'[m].rows = {}
               /\ DOMAIN syncs'[m].txs \subseteq DOMAIN log
               /\ syncs'[m].txs \in [DOMAIN syncs'[m].txs -> Tx]
  <2> TAKE m \in DOMAIN syncs'
  <2>1. CASE m = n
    BY <1>3, <2>1
  <2>2. CASE m # n
    BY <1>2, <2>2, SyncsTyped
  <2>3. QED BY <2>1, <2>2
<1>5. /\ status' \in [Nodes -> NodeStatus \ {"SYNCING"}]
      /\ DOMAIN rounds' \subseteq DOMAIN log /\ rounds' \in [DOMAIN rounds' -> Round]
      /\ \A b \in DOMAIN rounds' : rounds'[b].phase = "COMMITTING" => b \in certified
      /\ commits' \subseteq certified \X Nodes
  BY <1>1 DEF TypeInv, TypeOK, Bounded
<1>6. QED BY <1>1, <1>2, <1>4, <1>5, QuietTyped

\* reconcileChain, of a whole chain or of a part of it, and the tampering with a
\* database: only the tables of n change, and no handler starts.
LEMMA TablesStepTyped ==
    ASSUME TypeInv, NEW n \in Nodes, UNCHANGED <<log, certified>>,
           status' \in [Nodes -> NodeStatus \ {"SYNCING"}],
           NEW rs, NEW ts, TablesOK(rs, ts),
           rows' = [rows EXCEPT ![n] = rs], txs' = [txs EXCEPT ![n] = ts],
           \/ height' = [height EXCEPT ![n] = TopHeight(rs)]
           \/ height' = height /\ DOMAIN rs = DOMAIN rows[n],
           DOMAIN rounds' \subseteq DOMAIN rounds,
           \A c \in DOMAIN rounds' : rounds'[c] = rounds[c],
           AFunction(rounds'),
           commits' \subseteq commits,
           \A m \in DOMAIN syncs' : m \in DOMAIN syncs /\ syncs'[m] = syncs[m]
    PROVE  TypeInv'
<1>1. TopHeight(rs) \in DOMAIN rs
  BY NodesHaveTables, TableHasTop
<1>2. /\ DOMAIN rows' = Nodes /\ DOMAIN txs' = Nodes
      /\ DOMAIN height' = Nodes /\ AFunction(height')
      /\ \A m \in Nodes \ {n} : /\ rows'[m] = rows[m] /\ txs'[m] = txs[m]
                                /\ height'[m] = height[m]
      /\ rows'[n] = rs /\ txs'[n] = ts /\ height'[n] \in DOMAIN rs
  BY <1>1, TypedParts DEF AFunction
<1>3. \A c \in DOMAIN rounds' : /\ rounds'[c] \in Round
                                /\ rounds'[c].phase = "COMMITTING" => c \in certified'
  BY TypedParts
<1>4. /\ commits' \subseteq certified' \X Nodes /\ certified' \subseteq DOMAIN log
      /\ certified \subseteq certified' /\ log' = log
  BY TypedParts
<1>5. TablesOK(rows'[n], txs'[n]) /\ height'[n] \in DOMAIN rows'[n]
  BY <1>2
<1>6. QED BY <1>2, <1>3, <1>4, <1>5, TypedNodeStep

LEMMA FinishSyncTyped ==
    ASSUME TypeInv, NEW n \in DOMAIN syncs, NEW force, FinishSync(n, force)
    PROVE  TypeInv'
<1> DEFINE s == syncs[n]
           rs == OverwriteRows(rows[n], s.rows)
           ts == OverwriteTxs(txs[n], s.rows, s.txs)
<1>1. /\ UNCHANGED <<rounds, commits, log, certified>>
      /\ DOMAIN syncs' \subseteq DOMAIN syncs
      /\ \A m \in DOMAIN syncs' : m \in DOMAIN syncs /\ syncs'[m] = syncs[m]
  BY DEF FinishSync, Without
<1>2. n \in Nodes /\ TablesOK(rows[n], txs[n])
  BY NodesHaveTables, SyncsTyped
<1>3. /\ DOMAIN rounds' \subseteq DOMAIN rounds
      /\ \A c \in DOMAIN rounds' : rounds'[c] = rounds[c]
      /\ AFunction(rounds')
  BY <1>1, TypedParts
<1>4. CASE UNCHANGED <<status, height, rows, txs>>
  <2>1. /\ DOMAIN syncs' \subseteq Nodes
        /\ status' \in [Nodes -> NodeStatus \ {"SYNCING"}]
        /\ commits' \subseteq certified \X Nodes
    BY <1>1, <1>4, SyncsTyped, TypedParts
  <2>2. /\ DOMAIN rounds' \subseteq DOMAIN log /\ rounds' \in [DOMAIN rounds' -> Round]
        /\ \A b \in DOMAIN rounds' : rounds'[b].phase = "COMMITTING" => b \in certified
    BY <1>1 DEF TypeInv, TypeOK, Bounded
  <2>3. QED BY <1>1, <1>4, <2>1, <2>2, SyncsTyped, QuietTyped
<1>5. CASE DOMAIN s.rows # {} /\ Reconcile(n, s.rows, s.txs)
  <2>1. TablesOK(s.rows, s.txs)
    BY <1>5, NodesHaveTables
  <2>2. TablesOK(rs, ts)
    BY <1>2, <2>1, OverwriteTables
  <2>3. /\ rows' = [rows EXCEPT ![n] = rs] /\ txs' = [txs EXCEPT ![n] = ts]
        /\ height' = [height EXCEPT ![n] = TopHeight(rs)]
    BY <1>5 DEF Reconcile
  <2>4. status' \in [Nodes -> NodeStatus \ {"SYNCING"}]
    BY <1>5, TypedParts DEF Reconcile, NodeStatus
  <2> HIDE DEF rs, ts
  <2>5. commits' \subseteq commits
    BY <1>1
  <2>6. QED BY <1>1, <1>2, <1>3, <2>2, <2>3, <2>4, <2>5, TablesStepTyped
<1>6. QED BY <1>4, <1>5 DEF FinishSync, storage

LEMMA ToggleTyped ==
    ASSUME TypeInv, NEW n, NEW newStatus \in {"ONLINE", "OFFLINE"}, ToggleStatus(n, newStatus)
    PROVE  TypeInv'
<1>1. UNCHANGED <<height, rows, txs, rounds, commits, syncs, log, certified>>
  BY DEF ToggleStatus, storage
<1>2. status' \in [Nodes -> NodeStatus \ {"SYNCING"}]
  BY TypedParts DEF ToggleStatus, NodeStatus
<1>3. /\ DOMAIN rounds' \subseteq DOMAIN log /\ rounds' \in [DOMAIN rounds' -> Round]
      /\ \A b \in DOMAIN rounds' : rounds'[b].phase = "COMMITTING" => b \in certified
      /\ commits' \subseteq certified \X Nodes
  BY <1>1 DEF TypeInv, TypeOK, Bounded
<1>4. QED BY <1>1, <1>2, <1>3, SyncsTyped, QuietTyped

LEMMA TamperTyped ==
    ASSUME TypeInv, NEW n \in Nodes, NEW h \in DOMAIN rows[n] \ {0}, Tamper(n, h)
    PROVE  TypeInv'
<1> DEFINE rs == TamperRows(rows[n], h, {"blockHash", "payload"})
           ts == TamperTxs(txs[n], h, {"blockHash", "payload"})
<1>1. /\ UNCHANGED <<height, rounds, commits, syncs, log, certified>>
      /\ rows' = [rows EXCEPT ![n] = rs] /\ txs' = [txs EXCEPT ![n] = ts]
      /\ status' = [status EXCEPT ![n] = "CORRUPTED"]
  BY DEF Tamper
<1>2. TablesOK(rows[n], txs[n])
  BY NodesHaveTables
<1>3. /\ DOMAIN rs = DOMAIN rows[n] /\ rs \in [DOMAIN rows[n] -> Row]
      /\ DOMAIN ts = DOMAIN txs[n] /\ ts \in [DOMAIN txs[n] -> Tx]
  BY <1>2, TamperRowsType, TamperTxsType DEF TablesOK
<1>4. rs[0] = rows[n][0]
  BY <1>2 DEF TamperRows, TablesOK
<1> HIDE DEF rs, ts
<1>5. TablesOK(rs, ts)
  BY <1>2, <1>3, <1>4 DEF TablesOK
<1>6. status' \in [Nodes -> NodeStatus \ {"SYNCING"}]
  BY <1>1, TypedParts DEF NodeStatus
<1>7. /\ DOMAIN rounds' \subseteq DOMAIN rounds
      /\ \A c \in DOMAIN rounds' : rounds'[c] = rounds[c]
      /\ AFunction(rounds')
      /\ commits' \subseteq commits
      /\ \A m \in DOMAIN syncs' : m \in DOMAIN syncs /\ syncs'[m] = syncs[m]
  BY <1>1, TypedParts
<1>8. QED BY <1>1, <1>3, <1>5, <1>6, <1>7, TablesStepTyped

\* A process comes back on its tables, or on tables a crash left half written.
LEMMA ComeBackTyped ==
    ASSUME TypeInv, NEW n \in Nodes, NEW rs, ComeBack(n, rs), TablesOK(rs, txs'[n]),
           log' = log, certified \subseteq certified', certified' \subseteq DOMAIN log,
           DOMAIN rows' = Nodes, DOMAIN txs' = Nodes, rows'[n] = rs,
           \A m \in Nodes \ {n} : rows'[m] = rows[m] /\ txs'[m] = txs[m]
    PROVE  TypeInv'
<1>1. TopHeight(rs) \in DOMAIN rs
  BY NodesHaveTables, TableHasTop
<1>2. /\ DOMAIN height' = Nodes /\ AFunction(height') /\ height'[n] = TopHeight(rs)
      /\ \A m \in Nodes \ {n} : height'[m] = height[m]
  BY TypedParts DEF ComeBack, AFunction
<1>3. status' \in [Nodes -> NodeStatus \ {"SYNCING"}]
  BY TypedParts DEF ComeBack, NodeStatus
<1>4. /\ DOMAIN rounds' \subseteq DOMAIN rounds
      /\ AFunction(rounds')
      /\ \A c \in DOMAIN rounds' : rounds'[c] = rounds[c]
      /\ commits' \subseteq commits
      /\ \A m \in DOMAIN syncs' : m \in DOMAIN syncs /\ syncs'[m] = syncs[m]
  BY DEF ComeBack, Without, AFunction
<1>5. \A c \in DOMAIN rounds' : /\ rounds'[c] \in Round
                                /\ rounds'[c].phase = "COMMITTING" => c \in certified'
  BY <1>4, TypedParts
<1>6. commits' \subseteq certified' \X Nodes
  BY <1>4, TypedParts
<1>7. TablesOK(rows'[n], txs'[n]) /\ height'[n] \in DOMAIN rows'[n]
  BY <1>1, <1>2
<1>8. QED BY <1>2, <1>3, <1>4, <1>5, <1>6, <1>7, TypedNodeStep

LEMMA RestartTyped ==
    ASSUME TypeInv, NEW n \in Nodes, Restart(n)
    PROVE  TypeInv'
<1>1. ComeBack(n, rows[n]) /\ UNCHANGED <<rows, txs, log, certified>>
  BY DEF Restart, storage
<1>2. TablesOK(rows[n], txs'[n])
  BY <1>1, NodesHaveTables
<1>3. /\ log' = log /\ certified \subseteq certified' /\ certified' \subseteq DOMAIN log
      /\ DOMAIN rows' = Nodes /\ DOMAIN txs' = Nodes /\ rows'[n] = rows[n]
      /\ \A m \in Nodes \ {n} : rows'[m] = rows[m] /\ txs'[m] = txs[m]
  BY <1>1, TypedParts
<1>4. QED BY <1>1, <1>2, <1>3, ComeBackTyped

LEMMA CrashInCommitTyped ==
    ASSUME TypeInv, NEW n \in Nodes, NEW b \in DOMAIN log, CrashInCommit(n, b)
    PROVE  TypeInv'
<1> DEFINE rs == CommitRows(rows[n], log[b].height, CertifiedRow(b))
<1>1. /\ ComeBack(n, rs) /\ UNCHANGED <<txs, log>>
      /\ rows' = [rows EXCEPT ![n] = rs] /\ certified' = certified \cup {b}
  BY DEF CrashInCommit
<1>2. TablesOK(rs, txs[n])
  BY NodesHaveTables, CommitTables
<1> HIDE DEF rs
<1>3. TablesOK(rs, txs'[n])
  BY <1>1, <1>2
<1>4. /\ log' = log /\ certified \subseteq certified' /\ certified' \subseteq DOMAIN log
      /\ DOMAIN rows' = Nodes /\ DOMAIN txs' = Nodes /\ rows'[n] = rs
      /\ \A m \in Nodes \ {n} : rows'[m] = rows[m] /\ txs'[m] = txs[m]
  BY <1>1, TypedParts
<1>5. QED BY <1>1, <1>3, <1>4, ComeBackTyped

LEMMA CrashInSyncTyped ==
    ASSUME TypeInv, NEW n \in DOMAIN syncs, NEW top \in DOMAIN syncs[n].rows,
           CrashInSync(n, top)
    PROVE  TypeInv'
<1> DEFINE s == syncs[n]
           written == [h \in {h \in DOMAIN s.rows : h <= top} |-> s.rows[h]]
           rs == OverwriteRows(rows[n], written)
           ts == OverwriteTxs(txs[n], written, s.txs)
<1>1. /\ ComeBack(n, rs) /\ UNCHANGED <<log, certified>>
      /\ rows' = [rows EXCEPT ![n] = rs] /\ txs' = [txs EXCEPT ![n] = ts]
  BY DEF CrashInSync
<1>2. n \in Nodes /\ TablesOK(rows[n], txs[n]) /\ TablesOK(s.rows, s.txs)
      /\ Len(log) \in Nat
  BY NodesHaveTables, SyncsTyped
<1>3. TablesOK(written, s.txs)
  <2>1. /\ DOMAIN written \subseteq DOMAIN s.rows
        /\ \A h \in DOMAIN written : written[h] = s.rows[h]
        /\ written = [h \in DOMAIN written |-> written[h]]
    OBVIOUS
  <2>2. 0 \in DOMAIN written
    BY <1>2 DEF TablesOK
  <2> HIDE DEF written
  <2>3. QED BY <1>2, <2>1, <2>2 DEF TablesOK
<1> HIDE DEF written
<1>4. TablesOK(rs, ts)
  BY <1>2, <1>3, OverwriteTables
<1> HIDE DEF rs, ts
<1>5. /\ log' = log /\ certified \subseteq certified' /\ certified' \subseteq DOMAIN log
      /\ DOMAIN rows' = Nodes /\ DOMAIN txs' = Nodes /\ rows'[n] = rs /\ txs'[n] = ts
      /\ \A m \in Nodes \ {n} : rows'[m] = rows[m] /\ txs'[m] = txs[m]
  BY <1>1, <1>2, TypedParts
<1>6. TablesOK(rs, txs'[n])
  BY <1>4, <1>5
<1>7. QED BY <1>1, <1>2, <1>5, <1>6, ComeBackTyped

LEMMA TypeInvInit ==
    ASSUME NodeAssumption, Init PROVE TypeInv
<1>1. /\ status = [n \in Nodes |-> "ONLINE"] /\ height = [n \in Nodes |-> 0]
      /\ rows = [n \in Nodes |-> GenesisRows] /\ txs = [n \in Nodes |-> NoTxs]
      /\ DOMAIN rounds = {} /\ rounds \in [{} -> Round] /\ commits = {} /\ DOMAIN syncs = {}
      /\ log = <<>> /\ certified = {}
  BY DEF Init
<1>2. /\ DOMAIN GenesisRows = {0} /\ GenesisRows \in [{0} -> Row]
      /\ GenesisRows[0].hash = GenesisHash
  BY DEF GenesisRows, Row, Digest, GenesisHash, Forged
<1>3. DOMAIN NoTxs = {} /\ NoTxs \in [{} -> Tx]
  BY DEF NoTxs
<1>4. log \in Seq(Header) /\ Len(log) = 0 /\ DOMAIN log = {}
  BY <1>1
<1>5. TypeOK
  BY <1>1, <1>2, <1>3, <1>4 DEF TypeOK, NodeStatus
<1>6. Bounded
  BY <1>1, <1>2, <1>3, <1>4 DEF Bounded
<1>7. QED BY <1>5, <1>6 DEF TypeInv

LEMMA TypeInvStep ==
    ASSUME NodeAssumption, TypeInv, [Next]_vars PROVE TypeInv'
<1>1. /\ Proposers \subseteq Nodes /\ Syncing \subseteq Nodes /\ Tamperable \subseteq Nodes
      /\ Restartable \subseteq Nodes /\ DOMAIN syncs \subseteq Nodes
      /\ certified \subseteq DOMAIN log
  BY SyncsTyped, TypedParts DEF NodeAssumption
<1>2. ASSUME NEW n \in Proposers, Propose(n) PROVE TypeInv'
  BY <1>1, <1>2, ProposeTyped
<1>3. ASSUME NEW b \in DOMAIN rounds, ReceiveBlock(b) \/ RejectRound(b) \/ SendCommit(b)
      PROVE  TypeInv'
  BY <1>3, RoundTyped
<1>4. ASSUME NEW b \in DOMAIN rounds, Certify(b) PROVE TypeInv'
  BY <1>4, CertifyTyped
<1>5. ASSUME NEW b \in certified, NEW p \in Nodes, HandleCommit(b, p) PROVE TypeInv'
  BY <1>5, HandleCommitTyped
<1>6. ASSUME NEW n \in Syncing, StartSync(n) PROVE TypeInv'
  <2>1. n \in Nodes
    BY <1>1
  <2>2. StartSync(n) \/ (n \in DOMAIN syncs /\ FetchBlocks(n))
    BY <1>6
  <2>3. QED BY <2>1, <2>2, FetchTyped
<1>7. ASSUME NEW n \in DOMAIN syncs, FetchBlocks(n) PROVE TypeInv'
  BY <1>1, <1>7, FetchTyped
<1>8. ASSUME NEW n \in DOMAIN syncs, NEW force \in BOOLEAN, FinishSync(n, force) PROVE TypeInv'
  BY <1>8, FinishSyncTyped
<1>9. ASSUME NEW n \in Toggled, NEW newStatus \in {"ONLINE", "OFFLINE"}, ToggleStatus(n, newStatus)
      PROVE  TypeInv'
  BY <1>9, ToggleTyped
<1>10. ASSUME NEW n \in Tamperable, NEW h \in DOMAIN rows[n] \ {0}, Tamper(n, h)
      PROVE  TypeInv'
  BY <1>1, <1>10, TamperTyped
<1>11. ASSUME NEW n \in Restartable, Restart(n) PROVE TypeInv'
  BY <1>1, <1>11, RestartTyped
<1>12. ASSUME NEW n \in Restartable, NEW b \in DOMAIN log, CrashInCommit(n, b) PROVE TypeInv'
  BY <1>1, <1>12, CrashInCommitTyped
<1>13. ASSUME NEW n \in Restartable \cap DOMAIN syncs, NEW top \in DOMAIN syncs[n].rows,
              CrashInSync(n, top)
       PROVE  TypeInv'
  BY <1>13, CrashInSyncTyped
<1>14. CASE UNCHANGED vars
  <2>1. UNCHANGED <<status, height, rows, txs, rounds, commits, syncs, log, certified>>
    BY <1>14 DEF vars, storage
  <2>2. /\ DOMAIN rounds' \subseteq DOMAIN log /\ rounds' \in [DOMAIN rounds' -> Round]
        /\ \A b \in DOMAIN rounds' : rounds'[b].phase = "COMMITTING" => b \in certified
        /\ commits' \subseteq certified \X Nodes
        /\ status' \in [Nodes -> NodeStatus \ {"SYNCING"}]
    BY <2>1 DEF TypeInv, TypeOK, Bounded
  <2>3. QED BY <2>1, <2>2, SyncsTyped, QuietTyped
<1>15. QED BY <1>2, <1>3, <1>4, <1>5, <1>6, <1>7, <1>8, <1>9, <1>10, <1>11, <1>12,
              <1>13, <1>14 DEF Next

\* consortium-node.ts: whatever overlaps, fails, restarts or is tampered with,
\* the statuses, heights, tables and handlers of every node keep their types;
\* every node stands on a row of its table and has genesis.
THEOREM NodeTypes == Spec => []TypeOK
<1>1. Init => TypeInv
  BY NodeAssumption, TypeInvInit
<1>2. TypeInv /\ [Next]_vars => TypeInv'
  BY NodeAssumption, TypeInvStep
<1>3. TypeInv => TypeOK
  BY DEF TypeInv
<1>4. QED BY <1>1, <1>2, <1>3, PTL DEF Spec

------------------------------------------------------------------------------
(* Forged blocks *)

\* The rows above genesis of one table are not forged.
Clean(rs) == \A h \in DOMAIN rs \ {0} : rs[h].hash # Forged

\* A certified block is not the forged one, and a table that verifies has none.
LEMMA CleanTables ==
    ASSUME TypeInv
    PROVE  /\ \A rs : \A b \in DOMAIN log : Clean(rs) =>
                  Clean(CommitRows(rs, log[b].height, CertifiedRow(b)))
           /\ \A rs, ts : Intact(log, rs, ts) => Clean(rs)
<1>1. \A b \in DOMAIN log : b # Forged
  BY NodesHaveTables DEF Forged
<1>2. ASSUME NEW rs, NEW b \in DOMAIN log, Clean(rs)
      PROVE  Clean(CommitRows(rs, log[b].height, CertifiedRow(b)))
  <2> DEFINE new == CommitRows(rs, log[b].height, CertifiedRow(b))
  <2>1. \A g \in DOMAIN new : \/ new[g] = CertifiedRow(b)
                              \/ g \in DOMAIN rs /\ new[g] = rs[g]
    BY DEF CommitRows
  <2>2. CertifiedRow(b).hash # Forged
    BY <1>1 DEF CertifiedRow
  <2> HIDE DEF new
  <2>3. Clean(new)
    BY <1>2, <2>1, <2>2 DEF Clean
  <2>4. QED BY <2>3 DEF new
<1>3. \A rs, ts : Intact(log, rs, ts) => Clean(rs)
  BY <1>1 DEF Intact, HeaderHashes, Clean
<1>4. QED BY <1>2, <1>3

LEMMA ForgedStep ==
    ASSUME Toggled = {}, Restartable = {}, TypeInv, ForgedNeverOnline, [Next]_vars
    PROVE  ForgedNeverOnline'
<1>1. \A n \in Nodes : status[n] = "ONLINE" => Clean(rows[n])
  BY DEF ForgedNeverOnline, Clean
<1>2. ASSUME UNCHANGED <<status, rows>> PROVE ForgedNeverOnline'
  BY <1>2 DEF ForgedNeverOnline
<1>3. ASSUME NEW b \in DOMAIN log, NEW p \in Nodes, status' = status,
             rows' = [rows EXCEPT ![p] = CommitRows(@, log[b].height, CertifiedRow(b))]
      PROVE  ForgedNeverOnline'
  <2>1. \A n \in Nodes :
           \/ rows'[n] = rows[n]
           \/ rows'[n] = CommitRows(rows[n], log[b].height, CertifiedRow(b))
    BY <1>3, TypedParts
  <2>2. \A n \in Nodes : status'[n] = "ONLINE" => Clean(rows'[n])
    <3> TAKE n \in Nodes
    <3>1. Clean(rows[n]) => Clean(CommitRows(rows[n], log[b].height, CertifiedRow(b)))
      BY CleanTables
    <3>2. QED BY <1>1, <1>3, <2>1, <3>1
  <2>3. QED BY <2>2 DEF ForgedNeverOnline, Clean
<1>4. ASSUME NEW b \in DOMAIN rounds, Certify(b) PROVE ForgedNeverOnline'
  <2>1. /\ status' = status
        /\ \/ rows' = rows
           \/ rows' = [rows EXCEPT ![log[b].by] =
                          CommitRows(@, log[b].height, CertifiedRow(b))]
    BY <1>4 DEF Certify, CommitBlock, storage
  <2>2. b \in DOMAIN log /\ log[b].by \in Nodes
    BY TypedParts
  <2>3. QED BY <1>2, <1>3, <2>1, <2>2
<1>5. ASSUME NEW b \in certified, NEW p \in Nodes, HandleCommit(b, p)
      PROVE  ForgedNeverOnline'
  <2>1. /\ status' = status
        /\ \/ rows' = rows
           \/ rows' = [rows EXCEPT ![p] = CommitRows(@, log[b].height, CertifiedRow(b))]
    BY <1>5 DEF HandleCommit, CommitBlock, storage
  <2>2. b \in DOMAIN log
    BY TypedParts
  <2>3. QED BY <1>2, <1>3, <2>1, <2>2
<1>6. ASSUME NEW n \in DOMAIN syncs, NEW force \in BOOLEAN, FinishSync(n, force)
      PROVE  ForgedNeverOnline'
  <2>1. CASE UNCHANGED <<status, rows>>
    BY <1>2, <2>1
  <2>2. CASE Reconcile(n, syncs[n].rows, syncs[n].txs)
    <3> DEFINE rs == OverwriteRows(rows[n], syncs[n].rows)
               ts == OverwriteTxs(txs[n], syncs[n].rows, syncs[n].txs)
    <3>1. /\ rows' = [rows EXCEPT ![n] = rs]
          /\ status' = [status EXCEPT ![n] =
                           IF Intact(log, rs, ts) THEN "ONLINE" ELSE "CORRUPTED"]
      BY <2>2 DEF Reconcile
    <3>2. Intact(log, rs, ts) => Clean(rs)
      BY CleanTables
    <3> HIDE DEF rs, ts
    <3>3. \A m \in Nodes : status'[m] = "ONLINE" => Clean(rows'[m])
      BY <1>1, <3>1, <3>2, TypedParts
    <3>4. QED BY <3>3 DEF ForgedNeverOnline, Clean
  <2>3. QED BY <1>6, <2>1, <2>2 DEF FinishSync, storage
<1>7. ASSUME NEW n \in Tamperable, NEW h \in DOMAIN rows[n] \ {0}, Tamper(n, h)
      PROVE  ForgedNeverOnline'
  <2>1. \A m \in Nodes : status'[m] = "ONLINE" => status[m] = "ONLINE" /\ rows'[m] = rows[m]
    BY <1>7, TypedParts DEF Tamper
  <2>2. QED BY <1>1, <2>1 DEF ForgedNeverOnline, Clean
<1>8. ASSUME NEW n, Propose(n) \/ StartSync(n) \/ FetchBlocks(n) PROVE ForgedNeverOnline'
  BY <1>2, <1>8 DEF Propose, StartSync, FetchBlocks, storage
<1>9. ASSUME NEW b, ReceiveBlock(b) \/ RejectRound(b) \/ SendCommit(b)
      PROVE  ForgedNeverOnline'
  BY <1>2, <1>9 DEF ReceiveBlock, RejectRound, SendCommit, storage
<1>10. CASE UNCHANGED vars
  BY <1>2, <1>10 DEF vars, storage
<1>11. QED BY <1>4, <1>5, <1>6, <1>7, <1>8, <1>9, <1>10 DEF Next

\* consortium-node.ts tamperBlock, reconcileChain: an ONLINE node never holds a
\* forged block, whoever is tampered with and whatever is copied and committed
\* meanwhile, as long as nobody sets statuses and no process restarts: the copy of
\* a forged chain is found out by the check that ends the sync.
THEOREM ForgedBlocksAreFoundOut ==
    ASSUME Toggled = {}, Restartable = {}
    PROVE  Spec => []ForgedNeverOnline
<1>1. Init => TypeInv /\ ForgedNeverOnline
  <2>1. Init => ForgedNeverOnline
    BY DEF Init, ForgedNeverOnline, GenesisRows
  <2>2. QED BY <2>1, NodeAssumption, TypeInvInit
<1>2. TypeInv /\ ForgedNeverOnline /\ [Next]_vars => (TypeInv /\ ForgedNeverOnline)'
  BY NodeAssumption, TypeInvStep, ForgedStep
<1>3. QED BY <1>1, <1>2, PTL DEF Spec

------------------------------------------------------------------------------
(* The invariant *)

LEMMA TreeInvInit ==
    ASSUME Init PROVE TreeInv
<1>1. /\ DOMAIN log = {} /\ log \in Seq(Header) /\ certified = {}
      /\ DOMAIN rounds = {} /\ DOMAIN syncs = {}
      /\ rows = [n \in Nodes |-> GenesisRows]
      /\ syncs = [n \in DOMAIN syncs |-> syncs[n]]
  BY DEF Init
<1>2. Genuine(GenesisRows, certified, log)
  BY DEF Genuine, GenesisRows
<1>3. QED BY <1>1, <1>2 DEF TreeInv

LEMMA TreeInvStep ==
    ASSUME NodeAssumption, Tamperable = {}, TreeInv, [Next]_vars
    PROVE  TreeInv'
<1>1. syncs' = syncs => SyncsOnlyEnd
  BY DEF SyncsOnlyEnd, TreeInv
<1>2. \A n : syncs' = Without(syncs, {n}) => SyncsOnlyEnd
  BY DEF SyncsOnlyEnd, Without
<1>3. \A S : rounds' = Without(rounds, S) => DOMAIN rounds' \subseteq DOMAIN rounds
  BY DEF Without
<1>4. certified \subseteq DOMAIN log /\ DOMAIN rounds \subseteq DOMAIN log
  BY DEF TreeInv
<1>5. \A b \in DOMAIN log : log[b].by \in Nodes
  <2>1. \A b \in DOMAIN log : log[b] \in Header
    BY DEF TreeInv
  <2>2. QED BY <2>1 DEF Header
<1>6. /\ Proposers \subseteq Nodes /\ Syncing \subseteq Nodes
      /\ Restartable \subseteq Nodes /\ DOMAIN syncs \subseteq Nodes
  BY DEF NodeAssumption, TreeInv
<1>7. ASSUME NEW n \in Proposers, Propose(n) PROVE TreeInv'
  BY <1>6, <1>7, ProposeKeepsTree
<1>8. ASSUME NEW b \in DOMAIN rounds, ReceiveBlock(b) \/ RejectRound(b) \/ SendCommit(b)
      PROVE  TreeInv'
  <2>1. UNCHANGED <<rows, log, certified, syncs>>
    BY <1>8 DEF ReceiveBlock, RejectRound, SendCommit, storage
  <2>2. DOMAIN rounds' \subseteq DOMAIN rounds
    BY <1>3, <1>8 DEF ReceiveBlock, RejectRound, SendCommit
  <2>3. QED BY <1>1, <2>1, <2>2, RoundKeepsTree
<1>9. ASSUME NEW b \in DOMAIN rounds, Certify(b) PROVE TreeInv'
  <2>1. /\ UNCHANGED <<syncs, log>> /\ certified' = certified \cup {b}
        /\ \/ rows' = [rows EXCEPT ![log[b].by] =
                          CommitRows(@, log[b].height, CertifiedRow(b))]
           \/ rows' = rows
        /\ DOMAIN rounds' = DOMAIN rounds
    BY <1>9 DEF Certify, CommitBlock, storage
  <2>2. b \in DOMAIN log /\ log[b].by \in Nodes
    BY <1>4, <1>5
  <2>3. QED BY <1>1, <2>1, <2>2, CommitKeepsTree
<1>10. ASSUME NEW b \in certified, NEW p \in Nodes, HandleCommit(b, p) PROVE TreeInv'
  <2>1. /\ UNCHANGED <<rounds, syncs, log, certified>>
        /\ \/ rows' = [rows EXCEPT ![p] = CommitRows(@, log[b].height, CertifiedRow(b))]
           \/ rows' = rows
    BY <1>10 DEF HandleCommit, CommitBlock, storage
  <2>2. certified' = certified \cup {b} /\ b \in DOMAIN log
    BY <1>4, <2>1
  <2>3. QED BY <1>1, <2>1, <2>2, CommitKeepsTree
<1>11. ASSUME NEW n \in Syncing, StartSync(n) PROVE TreeInv'
  BY <1>6, <1>11, StartSyncKeepsTree
<1>12. ASSUME NEW n \in DOMAIN syncs, FetchBlocks(n) PROVE TreeInv'
  BY <1>12, FetchBlocksKeepsTree
<1>13. ASSUME NEW n \in DOMAIN syncs, NEW force \in BOOLEAN, FinishSync(n, force)
       PROVE  TreeInv'
  <2>1. /\ UNCHANGED <<rounds, log, certified>> /\ syncs' = Without(syncs, {n})
        /\ \/ rows' = [rows EXCEPT ![n] = OverwriteRows(@, syncs[n].rows)]
           \/ rows' = rows
    BY <1>13 DEF FinishSync, Reconcile, storage, TreeInv
  <2>2. Genuine(syncs[n].rows, certified, log) /\ n \in Nodes
    BY <1>6 DEF TreeInv
  <2>3. QED BY <1>2, <2>1, <2>2, SyncKeepsTree
<1>14. ASSUME NEW n, NEW newStatus, ToggleStatus(n, newStatus) PROVE TreeInv'
  <2>1. UNCHANGED <<rows, log, certified, syncs, rounds>>
    BY <1>14 DEF ToggleStatus, storage
  <2>2. QED BY <1>1, <2>1, RoundKeepsTree
<1>5a. ASSUME NEW n \in Restartable, Restart(n) PROVE TreeInv'
  <2>1. /\ UNCHANGED <<rows, log, certified>> /\ syncs' = Without(syncs, {n})
        /\ DOMAIN rounds' \subseteq DOMAIN rounds
    BY <1>3, <1>5a DEF Restart, ComeBack, storage
  <2>2. QED BY <1>2, <2>1, RoundKeepsTree
<1>16. ASSUME NEW n \in Restartable, NEW b \in DOMAIN log, CrashInCommit(n, b)
       PROVE  TreeInv'
  <2>1. /\ log' = log /\ certified' = certified \cup {b}
        /\ syncs' = Without(syncs, {n}) /\ DOMAIN rounds' \subseteq DOMAIN rounds
        /\ rows' = [rows EXCEPT ![n] = CommitRows(@, log[b].height, CertifiedRow(b))]
    BY <1>3, <1>6, <1>16 DEF CrashInCommit, ComeBack, TreeInv
  <2>2. QED BY <1>2, <1>6, <2>1, CommitKeepsTree
<1>17. ASSUME NEW n \in Restartable \cap DOMAIN syncs, NEW top, CrashInSync(n, top)
       PROVE  TreeInv'
  <2> DEFINE written == [h \in {h \in DOMAIN syncs[n].rows : h <= top} |-> syncs[n].rows[h]]
  <2>1. /\ UNCHANGED <<log, certified>>
        /\ syncs' = Without(syncs, {n}) /\ DOMAIN rounds' \subseteq DOMAIN rounds
        /\ rows' = [rows EXCEPT ![n] = OverwriteRows(@, written)]
    BY <1>3, <1>6, <1>17 DEF CrashInSync, ComeBack, TreeInv
  <2>2. Genuine(written, certified, log)
    BY DEF Genuine, TreeInv
  <2> HIDE DEF written
  <2>3. QED BY <1>2, <1>6, <2>1, <2>2, SyncKeepsTree
<1>18. CASE UNCHANGED vars
  <2>1. UNCHANGED <<rows, log, certified, syncs, rounds>>
    BY <1>18 DEF vars, storage
  <2>2. QED BY <1>1, <2>1, RoundKeepsTree
<1>19. QED BY <1>7, <1>8, <1>9, <1>10, <1>11, <1>12, <1>13, <1>14, <1>5a, <1>16,
              <1>17, <1>18 DEF Next

\* consortium-node.ts: the certificates of the HTTP consortium never leave the
\* tree of certified blocks: whatever rounds overlap, answers and commits are
\* lost or late, and processes die, no block is certified on top of one that
\* was not, as long as nobody tampers with a database.
THEOREM CertifiedTree ==
    ASSUME Tamperable = {}
    PROVE  Spec => []CertifiedBlocksFormTree
<1>1. Init => TreeInv
  BY TreeInvInit
<1>2. TreeInv /\ [Next]_vars => TreeInv'
  BY NodeAssumption, TreeInvStep
<1>3. TreeInv => CertifiedBlocksFormTree
  BY DEF TreeInv, Extends, CertifiedBlocksFormTree
<1>4. QED BY <1>1, <1>2, <1>3, PTL DEF Spec
------------------------------------------------------------------------------
(* One proposer whose clients wait *)

\* Each row is genesis's or the certified row of a certified block, at its height.
CanonicalRows(rs, blocks, headers) ==
    \A h \in DOMAIN rs :
        \/ h = 0 /\ rs[h] = GenesisRows[0]
        \/ \E b \in blocks : /\ h = headers[b].height
                             /\ rs[h] = [hash |-> b, prev |-> headers[b].prev, root |-> b]

\* Each transaction is one of a certified block, untouched.
BackedTxs(ts, blocks, headers) ==
    \A b \in DOMAIN ts : /\ b \in blocks
                         /\ ts[b] = [height |-> headers[b].height, intact |-> TRUE]

\* No two certified blocks have one height.
Linear(blocks, headers) ==
    /\ \A a, b \in blocks : headers[a].height = headers[b].height => a = b
    /\ \A b \in blocks : headers[b].height # 0 /\ b # GenesisHash

Grows(rs, newRows) == \A h \in DOMAIN rs : h \in DOMAIN newRows /\ newRows[h] = rs[h]

\* A commit of a certified block adds a row or writes the one that was there.
LEMMA CanonicalCommit ==
    ASSUME NEW rs, NEW blocks, NEW headers, CanonicalRows(rs, blocks, headers),
           Linear(blocks, headers), NEW b \in blocks, NEW row,
           row = [hash |-> b, prev |-> headers[b].prev, root |-> b]
    PROVE  LET newRows == CommitRows(rs, headers[b].height, row)
           IN  /\ CanonicalRows(newRows, blocks, headers) /\ Grows(rs, newRows)
               /\ DOMAIN newRows = DOMAIN rs \cup {headers[b].height}
               /\ newRows[headers[b].height] = row
<1> DEFINE h == headers[b].height
           newRows == CommitRows(rs, h, row)
<1>1. /\ DOMAIN newRows = {g \in DOMAIN rs : rs[g].hash # b} \cup {h} /\ newRows[h] = row
      /\ \A g \in DOMAIN newRows \ {h} : g \in DOMAIN rs /\ newRows[g] = rs[g]
  BY DEF CommitRows
<1>2. \A g \in DOMAIN rs : rs[g].hash = b => g = h /\ rs[g] = row
  BY DEF CanonicalRows, Linear, GenesisRows
<1>3. h \in DOMAIN rs => rs[h] = row
  BY DEF CanonicalRows, Linear
<1> HIDE DEF newRows
<1>4. Grows(rs, newRows) /\ DOMAIN newRows = DOMAIN rs \cup {h}
  BY <1>1, <1>2, <1>3 DEF Grows
<1>5. CanonicalRows(newRows, blocks, headers)
  <2> SUFFICES ASSUME NEW g \in DOMAIN newRows
               PROVE  \/ g = 0 /\ newRows[g] = GenesisRows[0]
                      \/ \E c \in blocks :
                            /\ g = headers[c].height
                            /\ newRows[g] = [hash |-> c, prev |-> headers[c].prev, root |-> c]
    BY DEF CanonicalRows
  <2>1. CASE g = h
    BY <1>1, <2>1
  <2>2. CASE g # h
    <3>1. g \in DOMAIN rs /\ newRows[g] = rs[g]
      BY <1>1, <2>2
    <3>2. QED BY <3>1 DEF CanonicalRows
  <2>3. QED BY <2>1, <2>2
<1>6. QED BY <1>1, <1>4, <1>5 DEF newRows

LEMMA CertifiedCommit ==
    ASSUME NEW rs, NEW blocks, CanonicalRows(rs, blocks, log), Linear(blocks, log),
           NEW b \in blocks
    PROVE  /\ CanonicalRows(CommitRows(rs, log[b].height, CertifiedRow(b)), blocks, log)
           /\ Grows(rs, CommitRows(rs, log[b].height, CertifiedRow(b)))
           /\ DOMAIN CommitRows(rs, log[b].height, CertifiedRow(b))
                = DOMAIN rs \cup {log[b].height}
           /\ CommitRows(rs, log[b].height, CertifiedRow(b))[log[b].height] = CertifiedRow(b)
<1>1. CertifiedRow(b) = [hash |-> b, prev |-> log[b].prev, root |-> b]
  BY DEF CertifiedRow
<1> DEFINE row == CertifiedRow(b)
<1> HIDE DEF row
<1>2. row = [hash |-> b, prev |-> log[b].prev, root |-> b]
  BY <1>1 DEF row
<1>3. QED BY <1>2, CanonicalCommit DEF row

\* A row names genesis or a certified block.
LEMMA CanonicalHashes ==
    ASSUME NEW rs, NEW blocks, NEW headers, CanonicalRows(rs, blocks, headers)
    PROVE  \A g \in DOMAIN rs : rs[g].hash \in blocks \cup {GenesisHash}
<1>1. GenesisRows[0].hash = GenesisHash
  BY DEF GenesisRows
<1>2. QED BY <1>1 DEF CanonicalRows

\* A reconciliation, whole or in part, adds rows and changes none.
LEMMA CanonicalOverwrite ==
    ASSUME NEW rs, NEW peerRows, NEW blocks, NEW headers, Linear(blocks, headers),
           CanonicalRows(rs, blocks, headers), CanonicalRows(peerRows, blocks, headers)
    PROVE  LET newRows == OverwriteRows(rs, peerRows)
           IN  /\ CanonicalRows(newRows, blocks, headers) /\ Grows(rs, newRows)
               /\ Grows(peerRows, newRows)
               /\ DOMAIN newRows = DOMAIN rs \cup DOMAIN peerRows
<1> DEFINE newRows == OverwriteRows(rs, peerRows)
<1>1. \A h \in DOMAIN rs, g \in DOMAIN peerRows : rs[h].hash = peerRows[g].hash => g = h
  BY DEF CanonicalRows, Linear, GenesisRows
<1>2. \A h \in DOMAIN rs \cap DOMAIN peerRows : rs[h] = peerRows[h]
  BY DEF CanonicalRows, Linear
<1>3. /\ DOMAIN newRows = DOMAIN rs \cup DOMAIN peerRows
      /\ \A h \in DOMAIN newRows :
            newRows[h] = IF h \in DOMAIN peerRows THEN peerRows[h] ELSE rs[h]
  BY <1>1 DEF OverwriteRows
<1> HIDE DEF newRows
<1>4. Grows(rs, newRows) /\ Grows(peerRows, newRows)
  BY <1>2, <1>3 DEF Grows
<1>5. CanonicalRows(newRows, blocks, headers)
  BY <1>3 DEF CanonicalRows
<1>6. QED BY <1>3, <1>4, <1>5 DEF newRows

LEMMA BackedCommit ==
    ASSUME NEW ts, NEW blocks, NEW headers, BackedTxs(ts, blocks, headers), NEW b \in blocks
    PROVE  BackedTxs(CommitTxs(ts, b, headers[b].height), blocks, headers)
BY DEF BackedTxs, CommitTxs

LEMMA BackedOverwrite ==
    ASSUME NEW ts, NEW peerRows, NEW peerTxs, NEW blocks, NEW headers,
           BackedTxs(ts, blocks, headers), BackedTxs(peerTxs, blocks, headers)
    PROVE  BackedTxs(OverwriteTxs(ts, peerRows, peerTxs), blocks, headers)
BY DEF BackedTxs, OverwriteTxs

\* More certificates, and more candidates, change nothing of that.
LEMMA CanonicalGrows ==
    ASSUME NEW rs, NEW ts, NEW blocks, NEW headers,
           CanonicalRows(rs, blocks, headers), BackedTxs(ts, blocks, headers),
           NEW moreBlocks, NEW moreHeaders, blocks \subseteq moreBlocks,
           \A b \in blocks : moreHeaders[b] = headers[b]
    PROVE  CanonicalRows(rs, moreBlocks, moreHeaders) /\ BackedTxs(ts, moreBlocks, moreHeaders)
<1>1. CanonicalRows(rs, moreBlocks, moreHeaders)
  BY DEF CanonicalRows
<1>2. BackedTxs(ts, moreBlocks, moreHeaders)
  BY DEF BackedTxs
<1>3. QED BY <1>1, <1>2

\* What clients that wait for node P make of the constants.
OneProposer(P) ==
    /\ P \in Nodes /\ Proposers = {P} /\ MaxOpen = 1
    /\ Tamperable = {} /\ P \notin Toggled /\ P \notin Syncing \cap Restartable

\* The certified blocks are on P, one above the other, and P stands on the last.
TowerOf(P) ==
    /\ \A b \in certified : /\ log[b].height \in DOMAIN rows[P]
                            /\ rows[P][log[b].height] = CertifiedRow(b)
    /\ \A g \in DOMAIN rows[P] : g <= height[P]
    /\ \A n \in Nodes : CanonicalRows(rows[n], certified, log) /\ BackedTxs(txs[n], certified, log)
    /\ \A n \in DOMAIN syncs : /\ CanonicalRows(syncs[n].rows, certified, log)
                               /\ BackedTxs(syncs[n].txs, certified, log)

\* P is up, no other node's commits reach it, and a vote is about a block on top
\* of the tower.
RoundsOf(P) ==
    /\ status[P] = "ONLINE" /\ (P \in DOMAIN syncs => P \notin Restartable)
    /\ \A c \in commits : c[2] # P
    /\ \A b \in DOMAIN log : log[b].by = P
    /\ \A a, b \in DOMAIN rounds : a = b
    /\ \A b \in DOMAIN rounds : /\ P \notin rounds[b].todo
                                /\ rounds[b].phase = "VOTING" => log[b].height = height[P] + 1

Tower(P) == TypeInv /\ TowerOf(P) /\ RoundsOf(P)

\* P has a row at every height and, if it never dies, the transaction of every block.
WholeOf(P) ==
    /\ DOMAIN rows[P] = 0..height[P]
    /\ P \notin Restartable => certified \subseteq DOMAIN txs[P]

WholeTower(P) == Tower(P) /\ WholeOf(P) /\ TreeInv

TablesGrow == \A n \in Nodes : Grows(rows[n], rows'[n])

\* What the tower says of certified blocks and of heights.
LEMMA TowerIsLinear ==
    ASSUME NEW P \in Nodes, Tower(P)
    PROVE  /\ Linear(certified, log)
           /\ \A b \in certified : b \in DOMAIN log /\ log[b].height <= height[P]
           /\ \A b \in DOMAIN log : log[b].height \in Nat \ {0} /\ b \in Nat \ {0}
           /\ height[P] \in Nat /\ height[P] \in DOMAIN rows[P]
           /\ DOMAIN rows = Nodes /\ DOMAIN txs = Nodes
<1>1. \A b \in DOMAIN log : log[b].height \in Nat \ {0} /\ b \in Nat \ {0}
  BY NodesHaveTables DEF Tower, TypeInv, Bounded
<1>2. certified \subseteq DOMAIN log /\ height[P] \in Nat /\ height[P] \in DOMAIN rows[P]
  BY TypedParts DEF Tower
<1>3. \A a, b \in certified : log[a].height = log[b].height => a = b
  <2> TAKE a, b \in certified
  <2>1. CertifiedRow(a).hash = a /\ CertifiedRow(b).hash = b
    BY DEF CertifiedRow
  <2>2. /\ rows[P][log[a].height] = CertifiedRow(a)
        /\ rows[P][log[b].height] = CertifiedRow(b)
    BY DEF Tower, TowerOf
  <2>3. QED BY <2>1, <2>2
<1>4. Linear(certified, log)
  BY <1>1, <1>2, <1>3 DEF Linear, GenesisHash
<1>5. \A b \in certified : b \in DOMAIN log /\ log[b].height <= height[P]
  BY <1>2 DEF Tower, TowerOf
<1>6. QED BY <1>1, <1>2, <1>4, <1>5, TypedParts DEF Tower

\* The steps that certify nothing and do not write to P.
LEMMA TowerAside ==
    ASSUME NEW P \in Nodes, Tower(P), TypeInv', UNCHANGED <<log, certified>>,
           \A n \in Nodes : /\ CanonicalRows(rows'[n], certified, log)
                            /\ BackedTxs(txs'[n], certified, log),
           rows'[P] = rows[P], height'[P] = height[P], status'[P] = "ONLINE",
           \A n \in DOMAIN syncs' : /\ n = P => P \notin Restartable
                                    /\ CanonicalRows(syncs'[n].rows, certified, log)
                                    /\ BackedTxs(syncs'[n].txs, certified, log),
           \A c \in commits' : c[2] # P,
           \A b \in DOMAIN rounds' : /\ b \in DOMAIN rounds
                                     /\ rounds'[b].phase = rounds[b].phase
                                     /\ rounds'[b].todo \subseteq rounds[b].todo
    PROVE  Tower(P)'
<1>1. TowerOf(P)'
  BY DEF Tower, TowerOf, CertifiedRow
<1>2. RoundsOf(P)'
  <2>1. \A b \in DOMAIN rounds' : /\ P \notin rounds'[b].todo
                                  /\ rounds'[b].phase = "VOTING" => log[b].height = height[P] + 1
    BY DEF Tower, RoundsOf
  <2>2. \A a, b \in DOMAIN rounds' : a = b
    BY DEF Tower, RoundsOf
  <2>3. QED BY <2>1, <2>2 DEF Tower, RoundsOf
<1>3. QED BY <1>1, <1>2 DEF Tower

\* A commit of P's certified block at another node, with its transaction or without.
LEMMA TowerCommitElsewhere ==
    ASSUME NEW P \in Nodes, Tower(P), NEW n \in Nodes, n # P, NEW b \in certified,
           \/ UNCHANGED <<rows, txs>>
           \/ /\ rows' = [rows EXCEPT ![n] = CommitRows(@, log[b].height, CertifiedRow(b))]
              /\ \/ txs' = [txs EXCEPT ![n] = CommitTxs(@, b, log[b].height)]
                 \/ txs' = txs
    PROVE  /\ \A m \in Nodes : /\ CanonicalRows(rows'[m], certified, log)
                               /\ BackedTxs(txs'[m], certified, log)
                               /\ Grows(rows[m], rows'[m])
           /\ rows'[P] = rows[P]
<1> DEFINE rs == CommitRows(rows[n], log[b].height, CertifiedRow(b))
           ts == CommitTxs(txs[n], b, log[b].height)
<1>1. \A m \in Nodes : CanonicalRows(rows[m], certified, log) /\ BackedTxs(txs[m], certified, log)
  BY DEF Tower, TowerOf
<1>2. CanonicalRows(rs, certified, log) /\ Grows(rows[n], rs)
  BY <1>1, TowerIsLinear, CertifiedCommit
<1>3. BackedTxs(ts, certified, log)
  BY <1>1, BackedCommit
<1>4. \A m : Grows(rows[m], rows[m])
  BY DEF Grows
<1>5. DOMAIN rows = Nodes /\ DOMAIN txs = Nodes
  BY TowerIsLinear
<1> HIDE DEF rs, ts
<1>6. \A m \in Nodes : /\ rows'[m] = rows[m] \/ (m = n /\ rows'[m] = rs)
                       /\ txs'[m] = txs[m] \/ (m = n /\ txs'[m] = ts)
  BY <1>5 DEF rs, ts
<1>7. \A m \in Nodes : /\ CanonicalRows(rows'[m], certified, log)
                       /\ BackedTxs(txs'[m], certified, log)
                       /\ Grows(rows[m], rows'[m])
  BY <1>1, <1>2, <1>3, <1>4, <1>6
<1>8. QED BY <1>6, <1>7

\* A reconciliation of another node, whole or in part.
LEMMA TowerReconcile ==
    ASSUME NEW P \in Nodes, Tower(P), NEW n \in Nodes, n # P, NEW peerRows, NEW peerTxs,
           CanonicalRows(peerRows, certified, log), BackedTxs(peerTxs, certified, log),
           \/ UNCHANGED <<rows, txs>>
           \/ /\ rows' = [rows EXCEPT ![n] = OverwriteRows(@, peerRows)]
              /\ txs' = [txs EXCEPT ![n] = OverwriteTxs(@, peerRows, peerTxs)]
    PROVE  /\ \A m \in Nodes : /\ CanonicalRows(rows'[m], certified, log)
                               /\ BackedTxs(txs'[m], certified, log)
                               /\ Grows(rows[m], rows'[m])
           /\ rows'[P] = rows[P]
<1> DEFINE rs == OverwriteRows(rows[n], peerRows)
           ts == OverwriteTxs(txs[n], peerRows, peerTxs)
<1>1. \A m \in Nodes : CanonicalRows(rows[m], certified, log) /\ BackedTxs(txs[m], certified, log)
  BY DEF Tower, TowerOf
<1>2. CanonicalRows(rs, certified, log) /\ Grows(rows[n], rs)
  BY <1>1, TowerIsLinear, CanonicalOverwrite
<1>3. BackedTxs(ts, certified, log)
  BY <1>1, BackedOverwrite
<1>4. \A m : Grows(rows[m], rows[m])
  BY DEF Grows
<1>5. DOMAIN rows = Nodes /\ DOMAIN txs = Nodes
  BY TowerIsLinear
<1> HIDE DEF rs, ts
<1>6. \A m \in Nodes : /\ rows'[m] = rows[m] \/ (m = n /\ rows'[m] = rs)
                       /\ txs'[m] = txs[m] \/ (m = n /\ txs'[m] = ts)
  BY <1>5 DEF rs, ts
<1>7. \A m \in Nodes : /\ CanonicalRows(rows'[m], certified, log)
                       /\ BackedTxs(txs'[m], certified, log)
                       /\ Grows(rows[m], rows'[m])
  BY <1>1, <1>2, <1>3, <1>4, <1>6
<1>8. QED BY <1>6, <1>7
\* The certificate of the round and P's own commit, with the transaction or, when P
\* dies between the two statements, without.
LEMMA TowerCertifies ==
    ASSUME NEW P \in Nodes, Tower(P), TypeInv', NEW b \in DOMAIN rounds,
           rounds[b].phase = "VOTING", log' = log, certified' = certified \cup {b},
           rows' = [rows EXCEPT ![P] = CommitRows(@, log[b].height, CertifiedRow(b))],
           \/ txs' = [txs EXCEPT ![P] = CommitTxs(@, b, log[b].height)]
           \/ txs' = txs,
           height'[P] = log[b].height, status'[P] = "ONLINE", commits' \subseteq commits,
           \A n \in DOMAIN syncs' : n \in DOMAIN syncs /\ syncs'[n] = syncs[n],
           \A c \in DOMAIN rounds' : /\ c = b /\ rounds'[c].phase = "COMMITTING"
                                     /\ P \notin rounds'[c].todo
    PROVE  Tower(P)' /\ TablesGrow
<1> DEFINE h == log[b].height
           rs == CommitRows(rows[P], h, CertifiedRow(b))
           ts == CommitTxs(txs[P], b, h)
           blocks == certified \cup {b}
<1>1. b \in DOMAIN log /\ h = height[P] + 1
  BY TypedParts DEF Tower, RoundsOf
<1>2. Linear(blocks, log)
  BY <1>1, TowerIsLinear DEF Linear, GenesisHash
<1>3. /\ \A m \in Nodes : CanonicalRows(rows[m], blocks, log) /\ BackedTxs(txs[m], blocks, log)
      /\ \A m \in DOMAIN syncs : /\ CanonicalRows(syncs[m].rows, blocks, log)
                                 /\ BackedTxs(syncs[m].txs, blocks, log)
  BY CanonicalGrows DEF Tower, TowerOf
<1>4. /\ CanonicalRows(rs, blocks, log) /\ Grows(rows[P], rs)
      /\ DOMAIN rs = DOMAIN rows[P] \cup {h} /\ rs[h] = CertifiedRow(b)
  <2>1. b \in blocks /\ CanonicalRows(rows[P], blocks, log)
    BY <1>3
  <2> HIDE DEF blocks, h
  <2>2. QED BY <1>2, <2>1, CertifiedCommit DEF h
<1>5. BackedTxs(ts, blocks, log)
  BY <1>3, BackedCommit
<1>6. /\ rows'[P] = rs /\ \A m \in Nodes : m = P \/ rows'[m] = rows[m]
      /\ \A m \in Nodes : txs'[m] = txs[m] \/ (m = P /\ txs'[m] = ts)
  BY TowerIsLinear
<1> HIDE DEF rs, ts
<1>7. \A c \in certified' : /\ log[c].height \in DOMAIN rs
                            /\ rs[log[c].height] = CertifiedRow(c)
  <2>1. \A c \in certified : /\ log[c].height \in DOMAIN rows[P]
                             /\ rows[P][log[c].height] = CertifiedRow(c)
    BY DEF Tower, TowerOf
  <2>2. QED BY <1>4, <2>1 DEF Grows
<1>8. \A g \in DOMAIN rs : g <= h
  <2>1. \A g \in DOMAIN rows[P] : g <= height[P] /\ g \in Nat
    BY TypedParts, NodesHaveTables DEF Tower, TowerOf, TablesOK
  <2>2. height[P] \in Nat
    BY TowerIsLinear
  <2>3. QED BY <1>1, <1>4, <2>1, <2>2
<1>9. TowerOf(P)'
  <2>1. \A c \in certified' : CertifiedRow(c)' = CertifiedRow(c)
    BY DEF CertifiedRow
  <2>2. \A m \in Nodes : CanonicalRows(rows'[m], blocks, log) /\ BackedTxs(txs'[m], blocks, log)
    BY <1>3, <1>4, <1>5, <1>6
  <2>3. \A m \in DOMAIN syncs' : /\ CanonicalRows(syncs'[m].rows, blocks, log)
                                 /\ BackedTxs(syncs'[m].txs, blocks, log)
    BY <1>3
  <2>4. QED BY <1>6, <1>7, <1>8, <2>1, <2>2, <2>3 DEF TowerOf
<1>10. RoundsOf(P)'
  <2>1. \A c \in commits' : c[2] # P
    BY DEF Tower, RoundsOf
  <2>2. QED BY <2>1 DEF Tower, RoundsOf
<1>11. TablesGrow
  BY <1>4, <1>6 DEF TablesGrow, Grows
<1>12. QED BY <1>9, <1>10, <1>11 DEF Tower

\* The candidate on top of the tower, when no other round is open.
LEMMA TowerProposes ==
    ASSUME NodeAssumption, NEW P \in Nodes, OneProposer(P), Tower(P), TypeInv', Propose(P)
    PROVE  Tower(P)' /\ TablesGrow
<1> DEFINE b == Len(log) + 1
           header == [height |-> height[P] + 1, prev |-> rows[P][height[P]].hash,
                      kind |-> "REGISTER_PROOF", by |-> P]
           round == [phase |-> "VOTING", todo |-> Peers(P), votes |-> {P}]
<1>1. DOMAIN rounds = {}
  <2>1. DOMAIN rounds \subseteq 1..Len(log) /\ Len(log) \in Nat
    BY NodesHaveTables, TypedParts DEF Tower
  <2>2. IsFiniteSet(DOMAIN rounds)
    <3>1. IsFiniteSet(1..Len(log))
      BY <2>1, FS_Interval
    <3>2. QED BY <2>1, <3>1, FS_Subset
  <2>3. Cardinality(DOMAIN rounds) \in Nat /\ Cardinality(DOMAIN rounds) < 1
    BY <2>2, FS_CardinalityType DEF Propose, OneProposer
  <2>4. Cardinality(DOMAIN rounds) = 0
    BY <2>3
  <2>5. QED BY <2>2, <2>4, FS_EmptySet
<1>2. /\ log' = Append(log, header) /\ DOMAIN rounds' = {b} /\ rounds'[b] = round
      /\ UNCHANGED <<status, height, rows, txs, commits, syncs, certified>>
  BY <1>1 DEF Propose, storage
<1>3. log \in Seq(Header) /\ DOMAIN log = 1..Len(log) /\ Len(log) \in Nat
  BY NodesHaveTables DEF Tower, TypeInv, TypeOK
<1>4. header.by = P /\ header.height = height[P] + 1
  OBVIOUS
<1>5. round.phase = "VOTING" /\ P \notin round.todo
  BY DEF Peers
<1> HIDE DEF header, round
<1>6. /\ DOMAIN log' = DOMAIN log \cup {b} /\ log'[b] = header
      /\ \A c \in DOMAIN log : log'[c] = log[c]
  BY <1>2, <1>3
<1> HIDE DEF b
<1>7. certified \subseteq DOMAIN log /\ \A c \in certified : log'[c] = log[c]
  BY <1>6, TowerIsLinear
<1>8. TowerOf(P)'
  <2> DEFINE headers == log'
  <2>1. \A c \in certified : CertifiedRow(c)' = CertifiedRow(c)
    BY <1>7 DEF CertifiedRow
  <2>2. \A c \in certified : headers[c] = log[c]
    BY <1>7
  <2> HIDE DEF headers
  <2>3. \A rs, ts : CanonicalRows(rs, certified, log) /\ BackedTxs(ts, certified, log) =>
                    CanonicalRows(rs, certified, headers) /\ BackedTxs(ts, certified, headers)
    BY <2>2, CanonicalGrows
  <2>4. /\ \A n \in Nodes : CanonicalRows(rows[n], certified, headers) /\ BackedTxs(txs[n], certified, headers)
        /\ \A n \in DOMAIN syncs : /\ CanonicalRows(syncs[n].rows, certified, headers)
                                   /\ BackedTxs(syncs[n].txs, certified, headers)
    BY <2>3 DEF Tower, TowerOf
  <2>5. \A c \in certified : /\ headers[c].height \in DOMAIN rows[P]
                             /\ rows[P][headers[c].height] = CertifiedRow(c)'
    BY <2>1, <2>2 DEF Tower, TowerOf
  <2>6. \A g \in DOMAIN rows[P] : g <= height[P]
    BY DEF Tower, TowerOf
  <2>7. QED BY <1>2, <2>4, <2>5, <2>6 DEF TowerOf, headers
<1>9. RoundsOf(P)'
  <2>1. \A c \in DOMAIN log' : log'[c].by = P
    BY <1>4, <1>6 DEF Tower, RoundsOf
  <2>2. log'[b].height = height'[P] + 1
    BY <1>2, <1>4, <1>6
  <2>3. QED BY <1>2, <1>5, <2>1, <2>2 DEF Tower, RoundsOf
<1>10. TablesGrow
  BY <1>2 DEF TablesGrow, Grows
<1>11. QED BY <1>8, <1>9, <1>10 DEF Tower
LEMMA TowerInit ==
    ASSUME NodeAssumption, NEW P \in Nodes, Init
    PROVE  Tower(P)
<1>1. /\ status = [n \in Nodes |-> "ONLINE"] /\ height = [n \in Nodes |-> 0]
      /\ rows = [n \in Nodes |-> GenesisRows] /\ txs = [n \in Nodes |-> NoTxs]
      /\ DOMAIN rounds = {} /\ commits = {} /\ DOMAIN syncs = {} /\ DOMAIN log = {}
      /\ certified = {}
  BY DEF Init
<1>2. CanonicalRows(GenesisRows, {}, log) /\ BackedTxs(NoTxs, {}, log)
  BY DEF CanonicalRows, BackedTxs, GenesisRows, NoTxs
<1>3. DOMAIN GenesisRows = {0}
  BY DEF GenesisRows
<1>4. TowerOf(P) /\ RoundsOf(P)
  BY <1>1, <1>2, <1>3 DEF TowerOf, RoundsOf
<1>5. QED BY <1>4, TypeInvInit DEF Tower

\* P stands on its greatest height.
LEMMA TowerTop ==
    ASSUME NEW P \in Nodes, Tower(P)
    PROVE  TopHeight(rows[P]) = height[P]
<1>1. /\ TopHeight(rows[P]) \in DOMAIN rows[P]
      /\ \A g \in DOMAIN rows[P] : g <= TopHeight(rows[P]) /\ g \in Nat
  BY NodesHaveTables, TableHasTop DEF Tower, TablesOK
<1>2. height[P] \in DOMAIN rows[P] /\ \A g \in DOMAIN rows[P] : g <= height[P]
  BY TowerIsLinear DEF Tower, TowerOf
<1>3. QED BY <1>1, <1>2

\* A process that comes back on P's own rows, or on another node's.
LEMMA ComeBackAside ==
    ASSUME NEW P \in Nodes, Tower(P), NEW n \in Nodes, NEW rs, ComeBack(n, rs),
           n = P => rs = rows[P]
    PROVE  /\ height'[P] = height[P] /\ status'[P] = "ONLINE"
           /\ \A m \in DOMAIN syncs' : m \in DOMAIN syncs /\ syncs'[m] = syncs[m]
           /\ \A c \in commits' : c[2] # P
           /\ \A b \in DOMAIN rounds' : b \in DOMAIN rounds /\ rounds'[b] = rounds[b]
<1>1. TopHeight(rows[P]) = height[P]
  BY TowerTop
<1>2. height \in [Nodes -> Nat] /\ status \in [Nodes -> NodeStatus \ {"SYNCING"}]
  BY TypedParts DEF Tower
<1>3. height'[P] = height[P] /\ status'[P] = "ONLINE"
  BY <1>1, <1>2 DEF ComeBack, Tower, RoundsOf
<1>4. QED BY <1>3 DEF ComeBack, Without, Tower, RoundsOf

\* The syncs that go on or end hold what they held.
LEMMA SyncsAside ==
    ASSUME NEW P \in Nodes, Tower(P),
           \A m \in DOMAIN syncs' : m \in DOMAIN syncs /\ syncs'[m] = syncs[m]
    PROVE  \A m \in DOMAIN syncs' : /\ m = P => P \notin Restartable
                                    /\ CanonicalRows(syncs'[m].rows, certified, log)
                                    /\ BackedTxs(syncs'[m].txs, certified, log)
BY DEF Tower, TowerOf, RoundsOf

\* Steps that write no table.
LEMMA TowerStands ==
    ASSUME NEW P \in Nodes, Tower(P), TypeInv', UNCHANGED <<rows, txs, log, certified>>,
           height'[P] = height[P], status'[P] = "ONLINE",
           \A n \in DOMAIN syncs' : /\ n = P => P \notin Restartable
                                    /\ CanonicalRows(syncs'[n].rows, certified, log)
                                    /\ BackedTxs(syncs'[n].txs, certified, log),
           \A c \in commits' : c[2] # P,
           \A b \in DOMAIN rounds' : /\ b \in DOMAIN rounds
                                     /\ rounds'[b].phase = rounds[b].phase
                                     /\ rounds'[b].todo \subseteq rounds[b].todo
    PROVE  Tower(P)' /\ TablesGrow
<1>1. \A n \in Nodes : CanonicalRows(rows'[n], certified, log) /\ BackedTxs(txs'[n], certified, log)
  BY DEF Tower, TowerOf
<1>2. rows'[P] = rows[P]
  OBVIOUS
<1>3. TablesGrow
  BY DEF TablesGrow, Grows
<1>4. QED BY <1>1, <1>2, <1>3, TowerAside

\* A turn of a round asks one peer less, and may end the round.
LEMMA RoundTurns ==
    ASSUME NodeAssumption, TypeInv, NEW b \in DOMAIN rounds,
           ReceiveBlock(b) \/ RejectRound(b) \/ SendCommit(b)
    PROVE  \A c \in DOMAIN rounds' : /\ c \in DOMAIN rounds
                                     /\ rounds'[c].phase = rounds[c].phase
                                     /\ rounds'[c].todo \subseteq rounds[c].todo
<1>1. DOMAIN rounds[b] = {"phase", "todo", "votes"}
  BY TypedParts DEF Round
<1>2. CASE ReceiveBlock(b)
  <2>1. DOMAIN rounds' = DOMAIN rounds
    BY <1>2 DEF ReceiveBlock
  <2>2. \A c \in DOMAIN rounds : c # b => rounds'[c] = rounds[c]
    BY <1>2 DEF ReceiveBlock
  <2>3. rounds'[b].phase = rounds[b].phase /\ rounds'[b].todo \subseteq rounds[b].todo
    BY <1>1, <1>2 DEF ReceiveBlock
  <2>4. QED BY <2>1, <2>2, <2>3
<1>3. CASE RejectRound(b)
  BY <1>3 DEF RejectRound, Without
<1>4. CASE SendCommit(b)
  BY <1>1, <1>4 DEF SendCommit, Without
<1>5. QED BY <1>2, <1>3, <1>4

\* A fetch leaves the other syncs alone, and takes the tables of a peer or none.
LEMMA FetchCopies ==
    ASSUME NodeAssumption, TypeInv, NEW n \in DOMAIN syncs, FetchBlocks(n)
    PROVE  /\ \A m \in DOMAIN syncs' : m # n => m \in DOMAIN syncs /\ syncs'[m] = syncs[m]
           /\ \/ syncs'[n].rows = syncs[n].rows /\ syncs'[n].txs = syncs[n].txs
              \/ \E p \in Nodes : syncs'[n].rows = rows[p] /\ syncs'[n].txs = txs[p]
<1> DEFINE p == NextPeer(syncs[n].todo)
<1>1. DOMAIN syncs[n] = SyncFields /\ syncs[n].todo \subseteq Nodes /\ syncs[n].todo # {}
  BY SyncsTyped DEF FetchBlocks, Peers
<1>2. p \in Nodes
  BY <1>1, NextPeerIsPeer
<1>3. \A m \in DOMAIN syncs' : m # n => m \in DOMAIN syncs /\ syncs'[m] = syncs[m]
  BY DEF FetchBlocks
<1>4. \/ syncs'[n].rows = syncs[n].rows /\ syncs'[n].txs = syncs[n].txs
      \/ syncs'[n].rows = rows[p] /\ syncs'[n].txs = txs[p]
  BY <1>1 DEF FetchBlocks, SyncFields
<1> HIDE DEF p
<1>5. QED BY <1>2, <1>3, <1>4

\* The turns of a round, and the fetches of a sync of another node.
LEMMA TowerLoops ==
    ASSUME NodeAssumption, NEW P \in Nodes, OneProposer(P), Tower(P), TypeInv',
           \/ \E b \in DOMAIN rounds : ReceiveBlock(b) \/ RejectRound(b) \/ SendCommit(b)
           \/ \E n \in Syncing : StartSync(n)
           \/ \E n \in DOMAIN syncs : FetchBlocks(n)
           \/ \E n \in Toggled, newStatus \in {"ONLINE", "OFFLINE"} : ToggleStatus(n, newStatus)
           \/ UNCHANGED vars
    PROVE  Tower(P)' /\ TablesGrow
<1>1. /\ \A b \in DOMAIN rounds : P \notin rounds[b].todo
      /\ \A n \in DOMAIN syncs : n = P => P \notin Restartable
      /\ status[P] = "ONLINE" /\ \A c \in commits : c[2] # P
  BY DEF Tower, RoundsOf
<1>2. \A b \in DOMAIN rounds : rounds[b] \in Round
  BY TypedParts DEF Tower
<1>3. \A m \in Nodes : CanonicalRows(rows[m], certified, log) /\ BackedTxs(txs[m], certified, log)
  BY DEF Tower, TowerOf
<1>4. \A n \in DOMAIN syncs : /\ CanonicalRows(syncs[n].rows, certified, log)
                              /\ BackedTxs(syncs[n].txs, certified, log)
  BY DEF Tower, TowerOf
<1>5. ASSUME NEW b \in DOMAIN rounds, ReceiveBlock(b) \/ RejectRound(b) \/ SendCommit(b)
      PROVE  Tower(P)' /\ TablesGrow
  <2> DEFINE p == NextPeer(rounds[b].todo)
  <2>1. UNCHANGED <<status, height, rows, txs, syncs, log, certified>>
    BY <1>5 DEF ReceiveBlock, RejectRound, SendCommit, storage
  <2>2. rounds[b].todo # {} => p \in rounds[b].todo
    BY <1>2, NextPeerIsPeer DEF Round
  <2> HIDE DEF p
  <2>3. \A c \in commits' : c[2] # P
    <3>1. CASE ReceiveBlock(b) \/ RejectRound(b)
      BY <1>1, <3>1 DEF ReceiveBlock, RejectRound
    <3>2. CASE SendCommit(b)
      <4>1. rounds[b].todo # {} /\ (commits' = commits \/ commits' = commits \cup {<<b, p>>})
        BY <3>2 DEF SendCommit, p
      <4>2. QED BY <1>1, <2>2, <4>1
    <3>3. QED BY <1>5, <3>1, <3>2
  <2>4. \A c \in DOMAIN rounds' : /\ c \in DOMAIN rounds
                                  /\ rounds'[c].phase = rounds[c].phase
                                  /\ rounds'[c].todo \subseteq rounds[c].todo
    BY <1>5, RoundTurns DEF Tower
  <2>5. height'[P] = height[P] /\ status'[P] = "ONLINE"
    BY <1>1, <2>1
  <2>6. \A m \in DOMAIN syncs' : /\ m = P => P \notin Restartable
                                 /\ CanonicalRows(syncs'[m].rows, certified, log)
                                 /\ BackedTxs(syncs'[m].txs, certified, log)
    BY <1>1, <1>4, <2>1
  <2>7. QED BY <2>1, <2>3, <2>4, <2>5, <2>6, TowerStands
<1>6. ASSUME NEW n \in Nodes, n = P => P \notin Restartable,
             StartSync(n) \/ (n \in DOMAIN syncs /\ FetchBlocks(n))
      PROVE  Tower(P)' /\ TablesGrow
  <2>1. UNCHANGED <<status, height, rows, txs, rounds, commits, log, certified>>
    BY <1>6 DEF StartSync, FetchBlocks, storage
  <2>2. /\ CanonicalRows(syncs'[n].rows, certified, log)
        /\ BackedTxs(syncs'[n].txs, certified, log)
    <3>1. CASE StartSync(n)
      <4>1. DOMAIN syncs'[n].rows = {} /\ DOMAIN syncs'[n].txs = {}
        BY <3>1 DEF StartSync, Without, GenesisRows, NoTxs
      <4>2. QED BY <4>1 DEF CanonicalRows, BackedTxs
    <3>2. CASE n \in DOMAIN syncs /\ FetchBlocks(n)
      <4>1. \/ syncs'[n].rows = syncs[n].rows /\ syncs'[n].txs = syncs[n].txs
            \/ \E p \in Nodes : syncs'[n].rows = rows[p] /\ syncs'[n].txs = txs[p]
        BY <3>2, FetchCopies DEF Tower
      <4>2. QED BY <1>3, <1>4, <3>2, <4>1
    <3>3. QED BY <1>6, <3>1, <3>2
  <2>3. \A m \in DOMAIN syncs' : m # n => m \in DOMAIN syncs /\ syncs'[m] = syncs[m]
    <3>1. CASE StartSync(n)
      BY <3>1 DEF StartSync
    <3>2. CASE n \in DOMAIN syncs /\ FetchBlocks(n)
      BY <3>2, FetchCopies DEF Tower
    <3>3. QED BY <1>6, <3>1, <3>2
  <2>4. \A m \in DOMAIN syncs' : /\ m = P => P \notin Restartable
                                 /\ CanonicalRows(syncs'[m].rows, certified, log)
                                 /\ BackedTxs(syncs'[m].txs, certified, log)
    BY <1>1, <1>4, <1>6, <2>2, <2>3
  <2>5. height'[P] = height[P] /\ status'[P] = "ONLINE" /\ \A c \in commits' : c[2] # P
    BY <1>1, <2>1
  <2>6. \A b \in DOMAIN rounds' : /\ b \in DOMAIN rounds
                                  /\ rounds'[b].phase = rounds[b].phase
                                  /\ rounds'[b].todo \subseteq rounds[b].todo
    BY <2>1
  <2>7. QED BY <2>1, <2>4, <2>5, <2>6, TowerStands
<1>7. ASSUME NEW n \in Toggled, NEW newStatus, ToggleStatus(n, newStatus)
      PROVE  Tower(P)' /\ TablesGrow
  <2>1. UNCHANGED <<height, rows, txs, rounds, commits, syncs, log, certified>>
    BY <1>7 DEF ToggleStatus, storage
  <2>2. status'[P] = "ONLINE"
    <3>1. status' = [status EXCEPT ![n] = newStatus] /\ n # P
      BY <1>7 DEF ToggleStatus, OneProposer
    <3>2. QED BY <1>1, <3>1, TypedParts DEF Tower
  <2>3. /\ \A m \in DOMAIN syncs' : /\ m = P => P \notin Restartable
                                    /\ CanonicalRows(syncs'[m].rows, certified, log)
                                    /\ BackedTxs(syncs'[m].txs, certified, log)
        /\ \A c \in commits' : c[2] # P
        /\ \A b \in DOMAIN rounds' : /\ b \in DOMAIN rounds
                                     /\ rounds'[b].phase = rounds[b].phase
                                     /\ rounds'[b].todo \subseteq rounds[b].todo
    BY <1>1, <1>4, <2>1
  <2>4. QED BY <2>1, <2>2, <2>3, TowerStands
<1>8. CASE UNCHANGED vars
  <2>1. UNCHANGED <<status, height, rows, txs, rounds, commits, syncs, log, certified>>
    BY <1>8 DEF vars, storage
  <2>2. /\ \A m \in DOMAIN syncs' : /\ m = P => P \notin Restartable
                                    /\ CanonicalRows(syncs'[m].rows, certified, log)
                                    /\ BackedTxs(syncs'[m].txs, certified, log)
        /\ \A c \in commits' : c[2] # P
        /\ \A b \in DOMAIN rounds' : /\ b \in DOMAIN rounds
                                     /\ rounds'[b].phase = rounds[b].phase
                                     /\ rounds'[b].todo \subseteq rounds[b].todo
        /\ height'[P] = height[P] /\ status'[P] = "ONLINE"
    BY <1>1, <1>4, <2>1
  <2>3. QED BY <2>1, <2>2, TowerStands
<1>9. ASSUME NEW n \in Syncing, StartSync(n) PROVE Tower(P)' /\ TablesGrow
  <2>1. n \in Nodes /\ (n = P => P \notin Restartable)
    BY DEF OneProposer, NodeAssumption
  <2>2. QED BY <1>6, <1>9, <2>1
<1>10. ASSUME NEW n \in DOMAIN syncs, FetchBlocks(n) PROVE Tower(P)' /\ TablesGrow
  <2>1. n \in Nodes /\ (n = P => P \notin Restartable)
    BY <1>1, SyncsTyped DEF Tower
  <2>2. QED BY <1>6, <1>10, <2>1
<1>11. QED BY <1>5, <1>7, <1>8, <1>9, <1>10
\* The certificate of P, with its own commit.
LEMMA TowerCertify ==
    ASSUME NEW P \in Nodes, Tower(P), TypeInv', NEW b \in DOMAIN rounds, Certify(b)
    PROVE  Tower(P)' /\ TablesGrow
<1>1. /\ log[b].by = P /\ status[P] = "ONLINE"
      /\ \A c \in DOMAIN rounds : c = b
  BY TypedParts DEF Tower, RoundsOf
<1>2. CanCommit(P)
  BY <1>1 DEF CanCommit
<1>3. /\ rounds[b].phase = "VOTING" /\ log' = log /\ certified' = certified \cup {b}
      /\ CommitBlock(P, b) /\ UNCHANGED <<status, commits, syncs>>
      /\ rounds' = [rounds EXCEPT ![b] = [phase |-> "COMMITTING", todo |-> Peers(P), votes |-> {}]]
  BY <1>1, <1>2 DEF Certify, VotesCounted
<1>4. /\ rows' = [rows EXCEPT ![P] = CommitRows(@, log[b].height, CertifiedRow(b))]
      /\ txs' = [txs EXCEPT ![P] = CommitTxs(@, b, log[b].height)]
      /\ height'[P] = log[b].height
  BY <1>3, TypedParts DEF Tower, CommitBlock
<1>5. \A c \in DOMAIN rounds' : /\ c = b /\ rounds'[c].phase = "COMMITTING"
                                /\ P \notin rounds'[c].todo
  <2>1. DOMAIN rounds' = DOMAIN rounds /\ rounds'[b].phase = "COMMITTING" /\ P \notin rounds'[b].todo
    BY <1>3 DEF Peers
  <2>2. QED BY <1>1, <2>1
<1>6. status'[P] = "ONLINE" /\ commits' \subseteq commits
      /\ \A n \in DOMAIN syncs' : n \in DOMAIN syncs /\ syncs'[n] = syncs[n]
  BY <1>1, <1>3
<1>7. QED BY <1>3, <1>4, <1>5, <1>6, TowerCertifies

\* The commit of a peer, which is not P.
LEMMA TowerHandleCommit ==
    ASSUME NEW P \in Nodes, Tower(P), TypeInv', NEW b \in certified, NEW p \in Nodes,
           HandleCommit(b, p)
    PROVE  Tower(P)' /\ TablesGrow
<1>1. p # P
  BY DEF Tower, RoundsOf, HandleCommit
<1>2. /\ UNCHANGED <<status, rounds, syncs, log, certified>> /\ commits' \subseteq commits
      /\ CommitBlock(p, b) \/ UNCHANGED <<height, rows, txs>>
  BY DEF HandleCommit, storage
<1>3. /\ \A m \in Nodes : /\ CanonicalRows(rows'[m], certified, log)
                          /\ BackedTxs(txs'[m], certified, log)
                          /\ Grows(rows[m], rows'[m])
      /\ rows'[P] = rows[P]
  <2>1. \/ UNCHANGED <<rows, txs>>
        \/ /\ rows' = [rows EXCEPT ![p] = CommitRows(@, log[b].height, CertifiedRow(b))]
           /\ \/ txs' = [txs EXCEPT ![p] = CommitTxs(@, b, log[b].height)]
              \/ txs' = txs
    BY <1>2 DEF CommitBlock
  <2>2. QED BY <1>1, <2>1, TowerCommitElsewhere
<1>4. height'[P] = height[P]
  BY <1>1, <1>2, TypedParts DEF Tower, CommitBlock
<1>5. status'[P] = "ONLINE" /\ \A c \in commits' : c[2] # P
  BY <1>2 DEF Tower, RoundsOf
<1>6. \A m \in DOMAIN syncs' : /\ m = P => P \notin Restartable
                               /\ CanonicalRows(syncs'[m].rows, certified, log)
                               /\ BackedTxs(syncs'[m].txs, certified, log)
  BY <1>2, SyncsAside
<1>7. \A c \in DOMAIN rounds' : /\ c \in DOMAIN rounds
                                /\ rounds'[c].phase = rounds[c].phase
                                /\ rounds'[c].todo \subseteq rounds[c].todo
  BY <1>2
<1>8. Tower(P)'
  BY <1>2, <1>3, <1>4, <1>5, <1>6, <1>7, TowerAside
<1>9. QED BY <1>3, <1>8 DEF TablesGrow

\* The one certified block a height of a table can hold, and its transaction.
LEMMA TowerAtHeight ==
    ASSUME NEW P \in Nodes, Tower(P), NEW n \in Nodes, NEW h \in DOMAIN rows[n], h # 0
    PROVE  \E b \in certified : /\ h = log[b].height /\ rows[n][h] = CertifiedRow(b)
                                /\ TxsAt(txs[n], h) \subseteq {b}
                                /\ \A c \in TxsAt(txs[n], h) : LeafMatches(log[c], txs[n][c])
<1>1. CanonicalRows(rows[n], certified, log) /\ BackedTxs(txs[n], certified, log)
  BY DEF Tower, TowerOf
<1>2. PICK b \in certified : h = log[b].height /\ rows[n][h] = CertifiedRow(b)
  BY <1>1 DEF CanonicalRows, CertifiedRow
<1>3. \A c \in TxsAt(txs[n], h) : /\ c \in certified /\ txs[n][c].intact
                                  /\ log[c].height = h
  <2> TAKE c \in TxsAt(txs[n], h)
  <2>1. c \in DOMAIN txs[n] /\ txs[n][c].height = h
    BY DEF TxsAt
  <2>2. c \in certified /\ txs[n][c] = [height |-> log[c].height, intact |-> TRUE]
    BY <1>1, <2>1 DEF BackedTxs
  <2>3. QED BY <2>1, <2>2
<1>4. TxsAt(txs[n], h) \subseteq {b}
  BY <1>2, <1>3, TowerIsLinear DEF Linear
<1>5. \A c \in certified : log[c].kind = "REGISTER_PROOF"
  BY TypedParts DEF Tower, Header
<1>6. \A c \in TxsAt(txs[n], h) : LeafMatches(log[c], txs[n][c])
  BY <1>3, <1>5 DEF LeafMatches
<1>7. QED BY <1>2, <1>4, <1>6

\* A table without a hole and with a transaction for every block verifies.
LEMMA WholeTableIsIntact ==
    ASSUME NEW P \in Nodes, Tower(P), CertifiedBlocksFormTree, NEW n \in Nodes,
           DOMAIN rows[n] = 0..TopHeight(rows[n]),
           \A h \in DOMAIN rows[n] \ {0} : TxsAt(txs[n], h) # {}
    PROVE  Intact(log, rows[n], txs[n])
<1>1. 0 \in DOMAIN rows[n] /\ rows[n][0].hash = GenesisHash
  BY NodesHaveTables DEF Tower, TablesOK
<1>2. ASSUME NEW h \in DOMAIN rows[n] \ {0}
      PROVE  /\ h - 1 \in DOMAIN rows[n] /\ rows[n][h].prev = rows[n][h - 1].hash
             /\ HeaderHashes(log, h, rows[n][h])
             /\ TxsAt(txs[n], h) = {rows[n][h].root}
             /\ \A b \in TxsAt(txs[n], h) : LeafMatches(log[b], txs[n][b])
  <2>1. PICK b \in certified : /\ h = log[b].height /\ rows[n][h] = CertifiedRow(b)
                               /\ TxsAt(txs[n], h) \subseteq {b}
                               /\ \A c \in TxsAt(txs[n], h) : LeafMatches(log[c], txs[n][c])
    BY TowerAtHeight
  <2>2. rows[n][h].hash = b /\ rows[n][h].root = b /\ rows[n][h].prev = log[b].prev
    BY <2>1 DEF CertifiedRow
  <2>3. b \in DOMAIN log
    BY TowerIsLinear
  <2>4. h \in Nat \ {0} /\ h - 1 \in DOMAIN rows[n]
    <3>1. h \in 0..TopHeight(rows[n]) /\ TopHeight(rows[n]) \in Nat /\ h \in Nat
      <4>1. TopHeight(rows[n]) \in DOMAIN rows[n] /\ DOMAIN rows[n] \subseteq Nat
        BY NodesHaveTables, TableHasTop DEF Tower, TablesOK
      <4>2. QED BY <4>1
    <3>2. QED BY <3>1
  <2>5. rows[n][h].prev = rows[n][h - 1].hash
    <3>1. CASE log[b].prev = GenesisHash /\ log[b].height = 1
      BY <1>1, <2>1, <2>2, <3>1
    <3>2. CASE log[b].prev \in certified /\ log[b].height = log[log[b].prev].height + 1
      <4>1. log[log[b].prev].height \in Nat \ {0} /\ log[log[b].prev].height = h - 1
        BY <2>1, <3>2, TowerIsLinear
      <4> DEFINE g == h - 1
      <4>2. g \in DOMAIN rows[n] /\ g # 0
        BY <2>4, <4>1
      <4> HIDE DEF g
      <4>3. \E c \in certified : g = log[c].height /\ rows[n][g] = CertifiedRow(c)
        <5>1. \E c \in certified : /\ g = log[c].height /\ rows[n][g] = CertifiedRow(c)
                                   /\ TxsAt(txs[n], g) \subseteq {c}
                                   /\ \A d \in TxsAt(txs[n], g) : LeafMatches(log[d], txs[n][d])
          BY <4>2, TowerAtHeight
        <5>2. QED BY <5>1
      <4>4. PICK c \in certified : h - 1 = log[c].height /\ rows[n][h - 1] = CertifiedRow(c)
        BY <4>3 DEF g
      <4>5. c = log[b].prev
        BY <3>2, <4>1, <4>4, TowerIsLinear DEF Linear
      <4>6. QED BY <2>2, <4>4, <4>5 DEF CertifiedRow
    <3>3. QED BY <3>1, <3>2 DEF CertifiedBlocksFormTree
  <2>6. HeaderHashes(log, h, rows[n][h])
    BY <2>1, <2>2, <2>3 DEF HeaderHashes
  <2>7. TxsAt(txs[n], h) = {rows[n][h].root}
    BY <2>1, <2>2
  <2>8. QED BY <2>1, <2>4, <2>5, <2>6, <2>7
<1>3. QED BY <1>1, <1>2 DEF Intact

LEMMA WholeIsIntact ==
    ASSUME NEW P \in Nodes, WholeTower(P), P \notin Restartable
    PROVE  Intact(log, rows[P], txs[P]) /\ TopHeight(rows[P]) = height[P]
<1> Tower(P) /\ WholeOf(P) /\ TreeInv
  BY DEF WholeTower
<1>1. TopHeight(rows[P]) = height[P]
  BY TowerTop
<1>2. DOMAIN rows[P] = 0..TopHeight(rows[P])
  BY <1>1 DEF WholeOf
<1>3. CertifiedBlocksFormTree
  BY DEF TreeInv, Extends, CertifiedBlocksFormTree
<1>4. \A h \in DOMAIN rows[P] \ {0} : TxsAt(txs[P], h) # {}
  <2> TAKE h \in DOMAIN rows[P] \ {0}
  <2>1. PICK b \in certified : h = log[b].height
    BY DEF Tower, TowerOf, CanonicalRows
  <2>2. b \in DOMAIN txs[P] /\ txs[P][b] = [height |-> log[b].height, intact |-> TRUE]
    BY DEF WholeOf, Tower, TowerOf, BackedTxs
  <2>3. QED BY <2>1, <2>2 DEF TxsAt
<1>5. QED BY <1>1, <1>2, <1>3, <1>4, WholeTableIsIntact

\* P's own sync writes what is there: its table is whole, and so verifies.
LEMMA WholeSync ==
    ASSUME NEW P \in Nodes, WholeTower(P), P \in DOMAIN syncs, NEW force, FinishSync(P, force)
    PROVE  /\ \A m \in Nodes : rows'[m] = rows[m] /\ txs'[m] = txs[m]
           /\ height'[P] = height[P] /\ status'[P] = "ONLINE"
<1> DEFINE s == syncs[P]
           rs == OverwriteRows(rows[P], s.rows)
           ts == OverwriteTxs(txs[P], s.rows, s.txs)
<1> Tower(P) /\ WholeOf(P) /\ TreeInv
  BY DEF WholeTower
<1>1. P \notin Restartable /\ status[P] = "ONLINE"
  BY DEF Tower, RoundsOf
<1>2. /\ CanonicalRows(rows[P], certified, log) /\ BackedTxs(txs[P], certified, log)
      /\ CanonicalRows(s.rows, certified, log) /\ BackedTxs(s.txs, certified, log)
      /\ \A b \in certified : log[b].height \in DOMAIN rows[P]
  BY DEF Tower, TowerOf
<1>3. 0 \in DOMAIN rows[P] /\ AFunction(rows[P]) /\ AFunction(txs[P])
  BY NodesHaveTables DEF Tower, TablesOK, AFunction
<1>4. rs = rows[P]
  <2>1. DOMAIN s.rows \subseteq DOMAIN rows[P]
    BY <1>2, <1>3 DEF CanonicalRows
  <2> HIDE DEF s
  <2>2. DOMAIN rs = DOMAIN rows[P] /\ Grows(rows[P], rs)
    BY <1>2, <2>1, TowerIsLinear, CanonicalOverwrite
  <2>3. AFunction(rs)
    BY DEF AFunction, OverwriteRows
  <2> HIDE DEF rs
  <2>4. QED BY <1>3, <2>2, <2>3 DEF Grows, AFunction
<1>5. ts = txs[P]
  <2>1. certified \subseteq DOMAIN txs[P]
    BY <1>1 DEF WholeOf
  <2>2. \A b \in DOMAIN s.txs : b \in DOMAIN txs[P] /\ s.txs[b] = txs[P][b]
    BY <1>2, <2>1 DEF BackedTxs
  <2> HIDE DEF s
  <2>3. DOMAIN ts = DOMAIN txs[P] /\ \A b \in DOMAIN ts : ts[b] = txs[P][b]
    BY <2>2 DEF OverwriteTxs
  <2>4. AFunction(ts)
    BY DEF AFunction, OverwriteTxs
  <2> HIDE DEF ts
  <2>5. QED BY <1>3, <2>3, <2>4 DEF AFunction
<1>6. Intact(log, rows[P], txs[P]) /\ TopHeight(rows[P]) = height[P]
  BY <1>1, WholeIsIntact
<1>7. Reconcile(P, s.rows, s.txs) \/ UNCHANGED <<status, height, rows, txs>>
  BY DEF FinishSync, storage
<1>8. CASE Reconcile(P, s.rows, s.txs)
  <2>1. /\ rows' = [rows EXCEPT ![P] = rs] /\ txs' = [txs EXCEPT ![P] = ts]
        /\ height' = [height EXCEPT ![P] = TopHeight(rs)]
        /\ status' = [status EXCEPT ![P] = IF Intact(log, rs, ts) THEN "ONLINE" ELSE "CORRUPTED"]
    BY <1>8, TypedParts DEF Reconcile, Tower
  <2> HIDE DEF rs, ts
  <2>2. QED BY <1>4, <1>5, <1>6, <2>1, TypedParts DEF Tower
<1>9. QED BY <1>1, <1>7, <1>8

\* The end of a sync, of another node or of P.
LEMMA TowerFinishSync ==
    ASSUME NEW P \in Nodes, WholeTower(P), TypeInv', NEW n \in DOMAIN syncs, NEW force,
           FinishSync(n, force)
    PROVE  Tower(P)' /\ TablesGrow
<1> Tower(P)
  BY DEF WholeTower
<1>1. n \in Nodes
  BY SyncsTyped DEF Tower
<1>2. /\ UNCHANGED <<rounds, commits, log, certified>>
      /\ \A m \in DOMAIN syncs' : m \in DOMAIN syncs /\ syncs'[m] = syncs[m]
      /\ \/ Reconcile(n, syncs[n].rows, syncs[n].txs)
         \/ UNCHANGED <<status, height, rows, txs>>
  BY DEF FinishSync, Without, storage
<1>3. ASSUME n # P
      PROVE  /\ \A m \in Nodes : /\ CanonicalRows(rows'[m], certified, log)
                                 /\ BackedTxs(txs'[m], certified, log)
                                 /\ Grows(rows[m], rows'[m])
             /\ rows'[P] = rows[P] /\ height'[P] = height[P] /\ status'[P] = "ONLINE"
  <2>1. \/ UNCHANGED <<rows, txs>>
        \/ /\ rows' = [rows EXCEPT ![n] = OverwriteRows(@, syncs[n].rows)]
           /\ txs' = [txs EXCEPT ![n] = OverwriteTxs(@, syncs[n].rows, syncs[n].txs)]
    BY <1>1, <1>2, TypedParts DEF Reconcile, Tower
  <2>2. /\ CanonicalRows(syncs[n].rows, certified, log)
        /\ BackedTxs(syncs[n].txs, certified, log)
    BY DEF Tower, TowerOf
  <2>3. height'[P] = height[P] /\ status'[P] = "ONLINE"
    BY <1>1, <1>2, <1>3, TypedParts DEF Tower, RoundsOf, Reconcile
  <2>4. QED BY <1>1, <1>3, <2>1, <2>2, <2>3, TowerReconcile
<1>4. ASSUME n = P
      PROVE  /\ \A m \in Nodes : /\ CanonicalRows(rows'[m], certified, log)
                                 /\ BackedTxs(txs'[m], certified, log)
                                 /\ Grows(rows[m], rows'[m])
             /\ rows'[P] = rows[P] /\ height'[P] = height[P] /\ status'[P] = "ONLINE"
  <2>1. /\ \A m \in Nodes : rows'[m] = rows[m] /\ txs'[m] = txs[m]
        /\ height'[P] = height[P] /\ status'[P] = "ONLINE"
    BY <1>4, WholeSync
  <2>2. \A m \in Nodes : CanonicalRows(rows[m], certified, log) /\ BackedTxs(txs[m], certified, log)
    BY DEF Tower, TowerOf
  <2>3. QED BY <2>1, <2>2 DEF Grows
<1>5. \A c \in commits' : c[2] # P
  BY <1>2 DEF Tower, RoundsOf
<1>6. \A m \in DOMAIN syncs' : /\ m = P => P \notin Restartable
                               /\ CanonicalRows(syncs'[m].rows, certified, log)
                               /\ BackedTxs(syncs'[m].txs, certified, log)
  BY <1>2, SyncsAside
<1>7. \A c \in DOMAIN rounds' : /\ c \in DOMAIN rounds
                                /\ rounds'[c].phase = rounds[c].phase
                                /\ rounds'[c].todo \subseteq rounds[c].todo
  BY <1>2
<1>8. /\ \A m \in Nodes : /\ CanonicalRows(rows'[m], certified, log)
                          /\ BackedTxs(txs'[m], certified, log)
                          /\ Grows(rows[m], rows'[m])
      /\ rows'[P] = rows[P] /\ height'[P] = height[P] /\ status'[P] = "ONLINE"
  BY <1>3, <1>4
<1>9. Tower(P)'
  BY <1>2, <1>5, <1>6, <1>7, <1>8, TowerAside
<1>10. QED BY <1>8, <1>9 DEF TablesGrow

\* A process that dies, between two handlers or inside one.
LEMMA TowerRestart ==
    ASSUME NEW P \in Nodes, Tower(P), TypeInv', NEW n \in Nodes, Restart(n)
    PROVE  Tower(P)' /\ TablesGrow
<1>1. ComeBack(n, rows[n]) /\ UNCHANGED <<rows, txs, log, certified>>
  BY DEF Restart, storage
<1>2. /\ height'[P] = height[P] /\ status'[P] = "ONLINE"
      /\ \A m \in DOMAIN syncs' : m \in DOMAIN syncs /\ syncs'[m] = syncs[m]
      /\ \A c \in commits' : c[2] # P
      /\ \A b \in DOMAIN rounds' : b \in DOMAIN rounds /\ rounds'[b] = rounds[b]
  <2>1. n = P => rows[n] = rows[P]
    OBVIOUS
  <2>2. QED BY <1>1, <2>1, ComeBackAside
<1>3. \A m \in DOMAIN syncs' : /\ m = P => P \notin Restartable
                               /\ CanonicalRows(syncs'[m].rows, certified, log)
                               /\ BackedTxs(syncs'[m].txs, certified, log)
  BY <1>2, SyncsAside
<1>4. \A b \in DOMAIN rounds' : /\ b \in DOMAIN rounds
                                /\ rounds'[b].phase = rounds[b].phase
                                /\ rounds'[b].todo \subseteq rounds[b].todo
  BY <1>2
<1>5. QED BY <1>1, <1>2, <1>3, <1>4, TowerStands

LEMMA TowerCrashInCommit ==
    ASSUME NEW P \in Nodes, Tower(P), TypeInv', NEW n \in Nodes, NEW b \in DOMAIN log,
           CrashInCommit(n, b)
    PROVE  Tower(P)' /\ TablesGrow
<1> DEFINE rs == CommitRows(rows[n], log[b].height, CertifiedRow(b))
<1>1. /\ ComeBack(n, rs) /\ UNCHANGED <<txs, log>> /\ certified' = certified \cup {b}
      /\ rows' = [rows EXCEPT ![n] = CommitRows(@, log[b].height, CertifiedRow(b))]
      /\ \/ b \in DOMAIN rounds /\ log[b].by = n /\ VotesCounted(b)
         \/ <<b, n>> \in commits
  BY TypedParts DEF CrashInCommit, Tower
<1>2. CASE n = P
  <2>1. b \in DOMAIN rounds /\ rounds[b].phase = "VOTING"
    BY <1>1, <1>2 DEF Tower, RoundsOf, VotesCounted
  <2>2. Tower(P)' /\ TablesGrow
    <3>1. /\ status'[P] = "ONLINE" /\ commits' \subseteq commits /\ DOMAIN rounds' = {}
          /\ \A m \in DOMAIN syncs' : m \in DOMAIN syncs /\ syncs'[m] = syncs[m]
      <4>1. \A c \in DOMAIN rounds : log[c].by = P
        BY TypedParts DEF Tower, RoundsOf
      <4>2. status \in [Nodes -> NodeStatus \ {"SYNCING"}]
        BY TypedParts DEF Tower
      <4>3. QED BY <1>1, <1>2, <4>1, <4>2 DEF ComeBack, Without
    <3>2. height'[P] = log[b].height
      <4>1. DOMAIN rs = DOMAIN rows[P] \cup {log[b].height}
        <5>1. \A g \in DOMAIN rows[P] : rows[P][g].hash # b
          <6>1. b \notin certified /\ b # GenesisHash
            BY <2>1, TowerIsLinear DEF GenesisHash, Tower, RoundsOf
          <6>2. CanonicalRows(rows[P], certified, log)
            BY DEF Tower, TowerOf
          <6>3. \A g \in DOMAIN rows[P] : rows[P][g].hash \in certified \cup {GenesisHash}
            BY <6>2, CanonicalHashes
          <6>4. QED BY <6>1, <6>3
        <5>2. CertifiedRow(b).hash = b
          BY DEF CertifiedRow
        <5>3. QED BY <1>2, <5>1, <5>2 DEF CommitRows
      <4>2. \A g \in DOMAIN rows[P] : g <= height[P] /\ g \in Nat
        BY NodesHaveTables DEF Tower, TowerOf, TablesOK
      <4>3. log[b].height = height[P] + 1 /\ height[P] \in Nat
        BY <2>1, TowerIsLinear DEF Tower, RoundsOf
      <4>4. TopHeight(rs) \in DOMAIN rs /\ \A g \in DOMAIN rs : g <= TopHeight(rs)
        BY NodesHaveTables, CommitTables, TableHasTop DEF Tower
      <4> HIDE DEF rs
      <4>5. TopHeight(rs) = log[b].height
        BY <4>1, <4>2, <4>3, <4>4
      <4>6. QED BY <1>1, <1>2, <4>5, TypedParts DEF Tower, ComeBack
    <3>3. \A c \in DOMAIN rounds' : /\ c = b /\ rounds'[c].phase = "COMMITTING"
                                    /\ P \notin rounds'[c].todo
      BY <3>1
    <3>4. rows' = [rows EXCEPT ![P] = CommitRows(@, log[b].height, CertifiedRow(b))]
      BY <1>1, <1>2
    <3>5. txs' = txs /\ log' = log
      BY <1>1
    <3>6. QED BY <1>1, <2>1, <3>1, <3>2, <3>3, <3>4, <3>5, TowerCertifies
  <2>3. QED BY <2>2
<1>3. CASE n # P
  <2>1. b \in certified /\ certified' = certified
    <3>1. <<b, n>> \in commits
      BY <1>1, <1>3 DEF Tower, RoundsOf
    <3>2. commits \subseteq certified \X Nodes
      BY TypedParts DEF Tower
    <3>3. QED BY <1>1, <3>1, <3>2
  <2>2. /\ \A m \in Nodes : /\ CanonicalRows(rows'[m], certified, log)
                            /\ BackedTxs(txs'[m], certified, log)
                            /\ Grows(rows[m], rows'[m])
        /\ rows'[P] = rows[P]
    BY <1>1, <1>3, <2>1, TowerCommitElsewhere
  <2>3. /\ height'[P] = height[P] /\ status'[P] = "ONLINE"
        /\ \A m \in DOMAIN syncs' : m \in DOMAIN syncs /\ syncs'[m] = syncs[m]
        /\ \A c \in commits' : c[2] # P
        /\ \A c \in DOMAIN rounds' : c \in DOMAIN rounds /\ rounds'[c] = rounds[c]
    BY <1>1, <1>3, ComeBackAside
  <2>4. \A m \in DOMAIN syncs' : /\ m = P => P \notin Restartable
                                 /\ CanonicalRows(syncs'[m].rows, certified, log)
                                 /\ BackedTxs(syncs'[m].txs, certified, log)
    BY <2>3, SyncsAside
  <2>5. \A c \in DOMAIN rounds' : /\ c \in DOMAIN rounds
                                  /\ rounds'[c].phase = rounds[c].phase
                                  /\ rounds'[c].todo \subseteq rounds[c].todo
    BY <2>3
  <2>6. Tower(P)'
    BY <1>1, <2>1, <2>2, <2>3, <2>4, <2>5, TowerAside
  <2>7. QED BY <2>2, <2>6 DEF TablesGrow
<1>4. QED BY <1>2, <1>3

LEMMA TowerCrashInSync ==
    ASSUME NEW P \in Nodes, Tower(P), TypeInv', NEW n \in Restartable \cap DOMAIN syncs,
           NEW top, CrashInSync(n, top)
    PROVE  Tower(P)' /\ TablesGrow
<1> DEFINE written == [h \in {h \in DOMAIN syncs[n].rows : h <= top} |-> syncs[n].rows[h]]
           rs == OverwriteRows(rows[n], written)
<1>1. n \in Nodes /\ n # P
  BY SyncsTyped DEF Tower, RoundsOf
<1>2. /\ ComeBack(n, rs) /\ UNCHANGED <<log, certified>>
      /\ rows' = [rows EXCEPT ![n] = OverwriteRows(@, written)]
      /\ txs' = [txs EXCEPT ![n] = OverwriteTxs(@, written, syncs[n].txs)]
  BY <1>1, TypedParts DEF CrashInSync, Tower
<1>3. CanonicalRows(written, certified, log) /\ BackedTxs(syncs[n].txs, certified, log)
  <2>1. CanonicalRows(syncs[n].rows, certified, log) /\ BackedTxs(syncs[n].txs, certified, log)
    BY DEF Tower, TowerOf
  <2>2. QED BY <2>1 DEF CanonicalRows
<1> HIDE DEF written
<1>4. /\ \A m \in Nodes : /\ CanonicalRows(rows'[m], certified, log)
                          /\ BackedTxs(txs'[m], certified, log)
                          /\ Grows(rows[m], rows'[m])
      /\ rows'[P] = rows[P]
  BY <1>1, <1>2, <1>3, TowerReconcile
<1> HIDE DEF rs
<1>5. /\ height'[P] = height[P] /\ status'[P] = "ONLINE"
      /\ \A m \in DOMAIN syncs' : m \in DOMAIN syncs /\ syncs'[m] = syncs[m]
      /\ \A c \in commits' : c[2] # P
      /\ \A c \in DOMAIN rounds' : c \in DOMAIN rounds /\ rounds'[c] = rounds[c]
  BY <1>1, <1>2, ComeBackAside
<1>6. \A m \in DOMAIN syncs' : /\ m = P => P \notin Restartable
                               /\ CanonicalRows(syncs'[m].rows, certified, log)
                               /\ BackedTxs(syncs'[m].txs, certified, log)
  BY <1>5, SyncsAside
<1>7. \A c \in DOMAIN rounds' : /\ c \in DOMAIN rounds
                                /\ rounds'[c].phase = rounds[c].phase
                                /\ rounds'[c].todo \subseteq rounds[c].todo
  BY <1>5
<1>8. Tower(P)'
  BY <1>2, <1>4, <1>5, <1>6, <1>7, TowerAside
<1>9. QED BY <1>4, <1>8 DEF TablesGrow
LEMMA TowerStep ==
    ASSUME NodeAssumption, NEW P \in Nodes, OneProposer(P), WholeTower(P), [Next]_vars
    PROVE  Tower(P)' /\ TablesGrow
<1> Tower(P)
  BY DEF WholeTower
<1>1. TypeInv' /\ DOMAIN syncs \subseteq Nodes /\ Restartable \subseteq Nodes
  BY TypeInvStep, SyncsTyped DEF Tower, NodeAssumption
<1>2. ASSUME NEW n \in Proposers, Propose(n) PROVE Tower(P)' /\ TablesGrow
  <2>1. n = P
    BY DEF OneProposer
  <2>2. QED BY <1>1, <1>2, <2>1, TowerProposes
<1>3. ASSUME NEW b \in DOMAIN rounds, Certify(b) PROVE Tower(P)' /\ TablesGrow
  BY <1>1, <1>3, TowerCertify
<1>4. ASSUME NEW b \in certified, NEW p \in Nodes, HandleCommit(b, p)
      PROVE  Tower(P)' /\ TablesGrow
  BY <1>1, <1>4, TowerHandleCommit
<1>5. ASSUME NEW n \in DOMAIN syncs, NEW force \in BOOLEAN, FinishSync(n, force)
      PROVE  Tower(P)' /\ TablesGrow
  BY <1>1, <1>5, TowerFinishSync
<1>6. ASSUME NEW n \in Tamperable PROVE Tower(P)' /\ TablesGrow
  BY DEF OneProposer
<1>7. ASSUME NEW n \in Restartable, Restart(n) PROVE Tower(P)' /\ TablesGrow
  BY <1>1, <1>7, TowerRestart
<1>8. ASSUME NEW n \in Restartable, NEW b \in DOMAIN log, CrashInCommit(n, b)
      PROVE  Tower(P)' /\ TablesGrow
  BY <1>1, <1>8, TowerCrashInCommit
<1>9. ASSUME NEW n \in Restartable \cap DOMAIN syncs, NEW top \in DOMAIN syncs[n].rows,
             CrashInSync(n, top)
      PROVE  Tower(P)' /\ TablesGrow
  BY <1>1, <1>9, TowerCrashInSync
<1>10. ASSUME \/ \E b \in DOMAIN rounds : ReceiveBlock(b) \/ RejectRound(b) \/ SendCommit(b)
              \/ \E n \in Syncing : StartSync(n)
              \/ \E n \in DOMAIN syncs : FetchBlocks(n)
              \/ \E n \in Toggled, newStatus \in {"ONLINE", "OFFLINE"} :
                    ToggleStatus(n, newStatus)
              \/ UNCHANGED vars
       PROVE  Tower(P)' /\ TablesGrow
  BY <1>1, <1>10, TowerLoops
<1>11. QED BY <1>2, <1>3, <1>4, <1>5, <1>6, <1>7, <1>8, <1>9, <1>10 DEF Next

\* A step writes transactions and deletes none.
LEMMA TxsGrow ==
    ASSUME TypeInv, [Next]_vars, NEW n \in Nodes
    PROVE  DOMAIN txs[n] \subseteq DOMAIN txs'[n]
<1>1. DOMAIN txs = Nodes
  BY TypedParts
<1>2. ASSUME NEW m, NEW b, CommitBlock(m, b) PROVE DOMAIN txs[n] \subseteq DOMAIN txs'[n]
  BY <1>1, <1>2 DEF CommitBlock, CommitTxs
<1>3. ASSUME NEW m, NEW peerRows, NEW peerTxs,
             txs' = [txs EXCEPT ![m] = OverwriteTxs(@, peerRows, peerTxs)]
      PROVE  DOMAIN txs[n] \subseteq DOMAIN txs'[n]
  BY <1>1, <1>3 DEF OverwriteTxs
<1>4. ASSUME NEW m, NEW h, Tamper(m, h) PROVE DOMAIN txs[n] \subseteq DOMAIN txs'[n]
  BY <1>1, <1>4 DEF Tamper, TamperTxs
<1>5. ASSUME NEW b, Certify(b) PROVE DOMAIN txs[n] \subseteq DOMAIN txs'[n]
  BY <1>2, <1>5 DEF Certify, storage
<1>6. ASSUME NEW b, NEW p, HandleCommit(b, p) PROVE DOMAIN txs[n] \subseteq DOMAIN txs'[n]
  BY <1>2, <1>6 DEF HandleCommit, storage
<1>7. ASSUME NEW m, NEW force, FinishSync(m, force) PROVE DOMAIN txs[n] \subseteq DOMAIN txs'[n]
  <2>1. txs' = txs \/ txs' = [txs EXCEPT ![m] = OverwriteTxs(@, syncs[m].rows, syncs[m].txs)]
    BY <1>7 DEF FinishSync, Reconcile, storage
  <2>2. QED BY <1>3, <2>1
<1>8. ASSUME NEW m, NEW top, CrashInSync(m, top) PROVE DOMAIN txs[n] \subseteq DOMAIN txs'[n]
  BY <1>3, <1>8 DEF CrashInSync
<1>9. \/ txs' = txs
      \/ \E b : Certify(b)
      \/ \E b, p : HandleCommit(b, p)
      \/ \E m, force : FinishSync(m, force)
      \/ \E m, h : Tamper(m, h)
      \/ \E m, top : CrashInSync(m, top)
  BY DEF Next, Propose, ReceiveBlock, RejectRound, SendCommit, StartSync, FetchBlocks,
         ToggleStatus, Restart, CrashInCommit, vars, storage
<1>10. QED BY <1>4, <1>5, <1>6, <1>7, <1>8, <1>9

\* The candidates stay as they were proposed.
LEMMA LogGrows ==
    ASSUME TypeInv, [Next]_vars
    PROVE  \A b \in DOMAIN log : b \in DOMAIN log' /\ log'[b] = log[b]
<1>1. log' = log \/ \E header : log' = Append(log, header)
  BY DEF Next, Propose, ReceiveBlock, RejectRound, Certify, SendCommit, HandleCommit, StartSync,
         FetchBlocks, FinishSync, ToggleStatus, Tamper, Restart, CrashInCommit, CrashInSync,
         vars, storage
<1>2. log \in Seq(Header)
  BY DEF TypeInv, TypeOK
<1>3. QED BY <1>1, <1>2

\* A block is certified on top of the tower, by P.
LEMMA NextCertified ==
    ASSUME NEW P \in Nodes, Tower(P), [Next]_vars
    PROVE  \/ certified' = certified
           \/ \E b \in DOMAIN log : /\ certified' = certified \cup {b} /\ log' = log
                                    /\ log[b].height = height[P] + 1
                                    /\ \A n \in Nodes \ {P} : rows'[n] = rows[n]
                                    /\ P \notin Restartable => b \in DOMAIN txs'[P]
<1>1. DOMAIN rounds \subseteq DOMAIN log /\ commits \subseteq certified \X Nodes
      /\ DOMAIN rows = Nodes /\ DOMAIN txs = Nodes
  BY TypedParts DEF Tower
<1>2. ASSUME NEW b \in DOMAIN rounds, Certify(b)
      PROVE  /\ certified' = certified \cup {b} /\ log' = log
             /\ log[b].height = height[P] + 1
             /\ \A n \in Nodes \ {P} : rows'[n] = rows[n]
             /\ b \in DOMAIN txs'[P]
  <2>1. log[b].by = P /\ CanCommit(P) /\ log[b].height = height[P] + 1
    BY <1>1, <1>2 DEF Tower, RoundsOf, CanCommit, Certify, VotesCounted
  <2>2. certified' = certified \cup {b} /\ log' = log /\ CommitBlock(P, b)
    BY <1>2, <2>1 DEF Certify
  <2>3. b \in DOMAIN txs'[P] /\ \A n \in Nodes \ {P} : rows'[n] = rows[n]
    BY <1>1, <2>2 DEF CommitBlock, CommitTxs
  <2>4. QED BY <2>1, <2>2, <2>3
<1>3. ASSUME NEW n \in Restartable, NEW b \in DOMAIN log, CrashInCommit(n, b)
      PROVE  \/ certified' = certified
             \/ /\ certified' = certified \cup {b} /\ log' = log
                /\ log[b].height = height[P] + 1
                /\ \A m \in Nodes \ {P} : rows'[m] = rows[m]
                /\ P \in Restartable
  <2>1. /\ certified' = certified \cup {b} /\ log' = log
        /\ \A m \in Nodes \ {n} : rows'[m] = rows[m]
        /\ \/ b \in DOMAIN rounds /\ log[b].by = n /\ VotesCounted(b)
           \/ <<b, n>> \in commits
    BY <1>1, <1>3 DEF CrashInCommit
  <2>2. CASE <<b, n>> \in commits
    BY <1>1, <2>1, <2>2
  <2>3. CASE b \in DOMAIN rounds /\ log[b].by = n /\ VotesCounted(b)
    BY <2>1, <2>3 DEF Tower, RoundsOf, VotesCounted
  <2>4. QED BY <2>1, <2>2, <2>3
<1>4. \/ certified' = certified
      \/ \E b \in DOMAIN rounds : Certify(b)
      \/ \E n \in Restartable, b \in DOMAIN log : CrashInCommit(n, b)
  BY DEF Next, Propose, ReceiveBlock, RejectRound, SendCommit, HandleCommit, StartSync,
         FetchBlocks, FinishSync, ToggleStatus, Tamper, Restart, CrashInSync, vars
<1>5. QED BY <1>1, <1>2, <1>3, <1>4

\* The heights of P's table are those of the certified blocks.
LEMMA TowerHeights ==
    ASSUME NEW P \in Nodes, Tower(P)
    PROVE  \A h : h \in DOMAIN rows[P] <=> h = 0 \/ \E b \in certified : h = log[b].height
<1>1. 0 \in DOMAIN rows[P]
  BY NodesHaveTables DEF Tower, TablesOK
<1>2. QED BY <1>1 DEF Tower, TowerOf, CanonicalRows

LEMMA WholeInit ==
    ASSUME NodeAssumption, NEW P \in Nodes, Init
    PROVE  WholeTower(P)
<1>1. rows = [n \in Nodes |-> GenesisRows] /\ height = [n \in Nodes |-> 0] /\ certified = {}
  BY DEF Init
<1>2. DOMAIN GenesisRows = {0}
  BY DEF GenesisRows
<1>3. WholeOf(P)
  BY <1>1, <1>2 DEF WholeOf
<1>4. QED BY <1>3, TowerInit, TreeInvInit DEF WholeTower

\* P's table gets one row at a time, on top.
LEMMA WholeStep ==
    ASSUME NodeAssumption, NEW P \in Nodes, OneProposer(P), WholeTower(P), [Next]_vars
    PROVE  WholeTower(P)' /\ TablesGrow
<1> Tower(P) /\ WholeOf(P) /\ TreeInv
  BY DEF WholeTower
<1>1. Tower(P)' /\ TablesGrow
  BY TowerStep
<1>2. TreeInv'
  BY TreeInvStep DEF OneProposer
<1>3. \A h : h \in DOMAIN rows'[P] <=> h = 0 \/ \E b \in certified' : h = log'[b].height
  <2>1. 0 \in DOMAIN rows'[P]
    BY <1>1, TowerHeights DEF TablesGrow, Grows
  <2>2. /\ CanonicalRows(rows'[P], certified', log')
        /\ \A b \in certified' : log'[b].height \in DOMAIN rows'[P]
    BY <1>1 DEF Tower, TowerOf
  <2>3. QED BY <2>1, <2>2 DEF CanonicalRows
<1>4. /\ height[P] \in Nat /\ height'[P] \in Nat /\ height'[P] \in DOMAIN rows'[P]
      /\ \A g \in DOMAIN rows'[P] : g <= height'[P]
  <2>1. height'[P] \in Nat /\ height'[P] \in DOMAIN rows'[P]
    BY <1>1 DEF Tower, TypeInv, TypeOK, Bounded
  <2>2. QED BY <1>1, <2>1, TowerIsLinear DEF Tower, TowerOf
<1>5. \A b \in certified : log'[b] = log[b]
  BY LogGrows, TowerIsLinear DEF Tower
<1>6. ASSUME certified' = certified PROVE WholeOf(P)'
  <2>1. \A h : h \in DOMAIN rows'[P] <=> h \in DOMAIN rows[P]
    BY <1>3, <1>5, <1>6, TowerHeights
  <2>2. \A h : h \in DOMAIN rows'[P] <=> h \in 0..height[P]
    BY <2>1 DEF WholeOf
  <2>3. height'[P] = height[P]
    BY <1>4, <2>2
  <2>4. DOMAIN rows'[P] = 0..height'[P]
    BY <2>2, <2>3
  <2>5. P \notin Restartable => certified' \subseteq DOMAIN txs'[P]
    BY <1>6, TxsGrow DEF WholeOf, Tower
  <2>6. QED BY <2>4, <2>5 DEF WholeOf
<1>7. ASSUME NEW b \in DOMAIN log, certified' = certified \cup {b},
             log[b].height = height[P] + 1, P \notin Restartable => b \in DOMAIN txs'[P]
      PROVE  WholeOf(P)'
  <2>1. log'[b] = log[b]
    BY LogGrows DEF Tower
  <2>2. \A h : h \in DOMAIN rows'[P] <=> h \in DOMAIN rows[P] \/ h = height[P] + 1
    BY <1>3, <1>5, <1>7, <2>1, TowerHeights
  <2>3. \A h : h \in DOMAIN rows'[P] <=> h \in 0..(height[P] + 1)
    <3>1. DOMAIN rows[P] = 0..height[P] /\ height[P] + 1 \in Nat
      BY <1>4 DEF WholeOf
    <3>2. QED BY <1>4, <2>2, <3>1
  <2>4. height'[P] = height[P] + 1
    BY <1>4, <2>3
  <2>5. DOMAIN rows'[P] = 0..height'[P]
    BY <2>3, <2>4
  <2>6. P \notin Restartable => certified' \subseteq DOMAIN txs'[P]
    BY <1>7, TxsGrow DEF WholeOf, Tower
  <2>7. QED BY <2>5, <2>6 DEF WholeOf
<1>8. WholeOf(P)'
  BY <1>6, <1>7, NextCertified
<1>9. QED BY <1>1, <1>2, <1>8 DEF WholeTower

LEMMA TowerTheorem ==
    ASSUME NEW P \in Nodes, OneProposer(P)
    PROVE  Spec => []WholeTower(P) /\ [][TablesGrow]_vars
<1>1. Init => WholeTower(P)
  BY NodeAssumption, WholeInit
<1>2. WholeTower(P) /\ [Next]_vars => WholeTower(P)' /\ TablesGrow
  BY NodeAssumption, WholeStep
<1>3. QED BY <1>1, <1>2, PTL DEF Spec

\* consortium-node.ts /propose: with one proposer whose clients wait for their
\* answers, no height is certified twice, and a certified block is on its proposer
\* for good: whatever answers are lost, whatever peers copy and whenever the
\* proposer dies, inside its commit or after it.
THEOREM OneProposerBlocksStay ==
    ASSUME NEW P \in Nodes, OneProposer(P)
    PROVE  Spec => []CertifiedBlocksStay
<1>1. WholeTower(P) => CertifiedBlocksStay
  BY TowerIsLinear DEF WholeTower, Tower, TowerOf, RoundsOf, CertifiedBlocksStay
<1>2. QED BY <1>1, TowerTheorem, PTL

\* consortium-node.ts commitBlock, reconcileChain: with such a proposer the INSERT
\* OR REPLACE never replaces a block by another, on any node, nor does a crash or a
\* sync that commits overtook.
THEOREM OneProposerImmutability ==
    ASSUME NEW P \in Nodes, OneProposer(P)
    PROVE  Spec => StoredBlocksAreImmutable
<1>1. TablesGrow => \A n \in Nodes : \A h \in DOMAIN rows[n] :
                       h \in DOMAIN rows'[n] /\ rows'[n][h] = rows[n][h]
  BY DEF TablesGrow, Grows
<1>2. QED BY <1>1, TowerTheorem, PTL DEF StoredBlocksAreImmutable

\* consortium-node.ts verifyLocalChainIntegrity: with such a proposer a node that
\* fails its check has a hole in its table or lost a transaction to a crash.
THEOREM OneProposerTornCopies ==
    ASSUME NEW P \in Nodes, OneProposer(P)
    PROVE  Spec => []OnlyTornCopiesFail
<1>1. Tamperable = {}
  BY DEF OneProposer
<1>2. Spec => []CertifiedBlocksFormTree
  BY <1>1, CertifiedTree
<1>3. WholeTower(P) /\ CertifiedBlocksFormTree => OnlyTornCopiesFail
  BY WholeTableIsIntact DEF WholeTower, OnlyTornCopiesFail
<1>4. QED BY <1>2, <1>3, TowerTheorem, PTL

\* consortium-node.ts /sync, reconcileChain: no sync of such a proposer, whatever it
\* fetched and wherever in its own round it ends, takes it out of service; so it
\* commits every block it certifies.
THEOREM OneProposerStaysOnline ==
    ASSUME NEW P \in Nodes, OneProposer(P)
    PROVE  Spec => [](status[P] = "ONLINE")
<1>1. WholeTower(P) => status[P] = "ONLINE"
  BY DEF WholeTower, Tower, RoundsOf
<1>2. QED BY <1>1, TowerTheorem, PTL

\* What a sync writes over a torn copy is the whole of what it fetched.
LEMMA SyncHeals ==
    ASSUME NEW P \in Nodes, Tower(P), NEW n \in DOMAIN syncs, syncs[n].todo = {},
           Intact(log, syncs[n].rows, syncs[n].txs),
           DOMAIN rows[n] \subseteq DOMAIN syncs[n].rows, FinishSync(n, TRUE)
    PROVE  Intact(log, rows'[n], txs'[n]) /\ status'[n] = "ONLINE"
<1> DEFINE s == syncs[n]
           rs == OverwriteRows(rows[n], s.rows)
           ts == OverwriteTxs(txs[n], s.rows, s.txs)
<1>1. Reconcile(n, s.rows, s.txs) /\ n \in Nodes
  BY SyncsTyped DEF FinishSync, NeedsSync, Intact, Tower
<1>2. /\ rows'[n] = rs /\ txs'[n] = ts
      /\ status'[n] = IF Intact(log, rs, ts) THEN "ONLINE" ELSE "CORRUPTED"
  BY <1>1, TypedParts DEF Reconcile, Tower
<1>3. DOMAIN rs = DOMAIN s.rows /\ \A h \in DOMAIN s.rows : rs[h] = s.rows[h]
  BY DEF OverwriteRows
<1>4. BackedTxs(s.txs, certified, log) /\ BackedTxs(ts, certified, log)
  <2>1. BackedTxs(s.txs, certified, log) /\ BackedTxs(txs[n], certified, log)
    BY <1>1 DEF Tower, TowerOf
  <2>2. QED BY <2>1, BackedOverwrite
<1>5. \A b \in DOMAIN s.txs : s.txs[b].height \in DOMAIN s.rows =>
         b \in DOMAIN ts /\ ts[b] = s.txs[b]
  BY DEF OverwriteTxs
<1> HIDE DEF rs, ts, s
<1>6. ASSUME NEW tt, BackedTxs(tt, certified, log), NEW h, NEW c \in TxsAt(tt, h)
      PROVE  c \in certified /\ log[c].height = h /\ c \in DOMAIN tt
  BY <1>6 DEF BackedTxs, TxsAt
<1>7. ASSUME NEW h \in DOMAIN s.rows \ {0}
      PROVE  /\ TxsAt(ts, h) = {s.rows[h].root}
             /\ \A b \in TxsAt(ts, h) : LeafMatches(log[b], ts[b])
  <2> DEFINE b == s.rows[h].root
  <2>1. TxsAt(s.txs, h) = {b} /\ LeafMatches(log[b], s.txs[b])
    BY DEF Intact, s
  <2> HIDE DEF b
  <2>2. b \in certified /\ log[b].height = h /\ b \in DOMAIN s.txs
    BY <1>4, <1>6, <2>1
  <2>3. s.txs[b].height = h
    BY <2>1 DEF TxsAt
  <2>4. b \in DOMAIN ts /\ ts[b] = s.txs[b]
    BY <1>5, <2>2, <2>3
  <2>5. b \in TxsAt(ts, h)
    BY <2>3, <2>4 DEF TxsAt
  <2>6. \A c \in TxsAt(ts, h) : c = b
    BY <1>4, <1>6, <2>2, TowerIsLinear DEF Linear
  <2>7. TxsAt(ts, h) = {b} /\ LeafMatches(log[b], ts[b])
    BY <2>1, <2>4, <2>5, <2>6
  <2>8. QED BY <2>7 DEF b
<1>8. Intact(log, rs, ts)
  <2>1. /\ 0 \in DOMAIN s.rows
        /\ \A h \in DOMAIN s.rows \ {0} : /\ h - 1 \in DOMAIN s.rows
                                          /\ s.rows[h].prev = s.rows[h - 1].hash
                                          /\ HeaderHashes(log, h, s.rows[h])
    BY DEF Intact, s
  <2>2. QED BY <1>3, <1>7, <2>1 DEF Intact
<1>9. QED BY <1>2, <1>8

\* consortium-node.ts reconcileChain: with such a proposer a sync repairs a copy that
\* a crash tore, whatever was committed while it fetched, when what it fetched
\* verifies and reaches as high as the copy.
THEOREM OneProposerSyncHeals ==
    ASSUME NEW P \in Nodes, OneProposer(P)
    PROVE  Spec => SyncHealsTornCopies
<1>1. ASSUME WholeTower(P)
      PROVE  \A n \in DOMAIN syncs :
                (/\ syncs[n].todo = {} /\ Intact(log, syncs[n].rows, syncs[n].txs)
                 /\ DOMAIN rows[n] \subseteq DOMAIN syncs[n].rows
                 /\ FinishSync(n, TRUE))
                => Intact(log, rows'[n], txs'[n]) /\ status'[n] = "ONLINE"
  BY <1>1, SyncHeals DEF WholeTower
<1>2. QED BY <1>1, TowerTheorem, PTL DEF SyncHealsTornCopies

------------------------------------------------------------------------------
(* The refinement of ReplicatedLedger *)

GenesisEntry == [height |-> 0, block |-> GenesisHash, prev |-> GenesisRows[0].prev]
BlockEntry(b) == [height |-> log[b].height, block |-> b, prev |-> log[b].prev]

LEMMA EntriesOfGenesis == EntriesIn(GenesisRows) = {GenesisEntry}
BY DEF EntriesIn, GenesisRows, GenesisEntry

LEMMA EntriesOfBlocks == CertifiedEntries = {GenesisEntry} \cup {BlockEntry(b) : b \in certified}
BY EntriesOfGenesis DEF CertifiedEntries, BlockEntry

\* A table of genesis and certified blocks maps to a part of the ledger.
LEMMA CopyIsPart ==
    ASSUME NEW rs, CanonicalRows(rs, certified, log)
    PROVE  EntriesIn(rs) \subseteq CertifiedEntries
<1>1. SUFFICES ASSUME NEW h \in DOMAIN rs
               PROVE  [height |-> h, block |-> rs[h].hash, prev |-> rs[h].prev] \in CertifiedEntries
  BY DEF EntriesIn
<1>2. CASE h = 0 /\ rs[h] = GenesisRows[0]
  <2>1. rs[h].hash = GenesisHash
    BY <1>2 DEF GenesisRows
  <2>2. QED BY <1>2, <2>1, EntriesOfBlocks DEF GenesisEntry
<1>3. CASE \E b \in certified : /\ h = log[b].height
                                /\ rs[h] = [hash |-> b, prev |-> log[b].prev, root |-> b]
  BY <1>3, EntriesOfBlocks DEF BlockEntry
<1>4. QED BY <1>2, <1>3 DEF CanonicalRows

\* What the refinement mapping makes of a state: P has the whole ledger and every
\* node a part of it.
MappedToLedger(P) ==
    /\ EntriesIn(rows[P]) = CertifiedEntries
    /\ \A n \in Nodes : EntriesIn(rows[n]) \subseteq CertifiedEntries

LEMMA KeeperHasLedger ==
    ASSUME NEW P \in Nodes, Tower(P)
    PROVE  MappedToLedger(P)
<1>1. \A n \in Nodes : EntriesIn(rows[n]) \subseteq CertifiedEntries
  BY CopyIsPart DEF Tower, TowerOf
<1>2. GenesisEntry \in EntriesIn(rows[P])
  <2>1. 0 \in DOMAIN rows[P] /\ CanonicalRows(rows[P], certified, log)
    BY DEF Tower, TowerOf, TypeInv, Bounded
  <2>2. rows[P][0] = GenesisRows[0]
    BY <2>1, TowerIsLinear DEF CanonicalRows, Linear
  <2>3. GenesisRows[0].hash = GenesisHash
    BY DEF GenesisRows
  <2>4. QED BY <2>1, <2>2, <2>3 DEF EntriesIn, GenesisEntry
<1>3. ASSUME NEW b \in certified PROVE BlockEntry(b) \in EntriesIn(rows[P])
  <2>1. log[b].height \in DOMAIN rows[P] /\ rows[P][log[b].height] = CertifiedRow(b)
    BY DEF Tower, TowerOf
  <2>2. CertifiedRow(b).hash = b /\ CertifiedRow(b).prev = log[b].prev
    BY DEF CertifiedRow
  <2>3. QED BY <2>1, <2>2 DEF EntriesIn, BlockEntry
<1>4. QED BY <1>1, <1>2, <1>3, EntriesOfBlocks DEF MappedToLedger

LEMMA KeeperHasLedgerNext ==
    ASSUME NEW P \in Nodes
    PROVE  Tower(P)' => MappedToLedger(P)'
<1>1. Tower(P) => MappedToLedger(P)
  BY KeeperHasLedger
<1>2. QED BY <1>1, PTL

\* A step that certifies nothing only copies.
LEMMA CopyingReplicates ==
    ASSUME NEW P \in Nodes, Tower(P), Tower(P)', TablesGrow, [Next]_vars,
           certified' = certified
    PROVE  Ledger!Replicate
<1>1. CertifiedEntries' = CertifiedEntries
  <2>1. certified \subseteq DOMAIN log
    BY DEF Tower, TypeInv, TypeOK
  <2>2. \A b \in certified : log'[b] = log[b]
    BY <2>1, LogGrows DEF Tower
  <2>3. QED BY <2>2 DEF CertifiedEntries
<1>2. \A n \in Nodes : EntriesIn(rows'[n]) \subseteq CertifiedEntries
  BY <1>1, KeeperHasLedgerNext DEF MappedToLedger
<1>3. ASSUME NEW n \in Nodes PROVE EntriesIn(rows[n]) \subseteq EntriesIn(rows'[n])
  <2>1. \A h \in DOMAIN rows[n] : h \in DOMAIN rows'[n] /\ rows'[n][h] = rows[n][h]
    BY DEF TablesGrow, Grows
  <2>2. QED BY <2>1 DEF EntriesIn
<1>4. QED BY <1>1, <1>2, <1>3 DEF Ledger!Replicate

CandidatesCounted == log \in Seq(Header) /\ Len(log) <= MaxBlocks

\* A certificate is for a block on top of the ledger, which P stores.
LEMMA QuorumCertifies ==
    ASSUME NEW P \in Nodes, OneProposer(P), WholeTower(P), Tower(P)', [Next]_vars,
           CandidatesCounted, certified' # certified
    PROVE  \E b \in 1..MaxBlocks, last \in CertifiedEntries : Ledger!Certify(b, last)
<1> DEFINE copies == [n \in Nodes |-> EntriesIn(rows[n])]
           row == rows[P][height[P]]
           last == [height |-> height[P], block |-> row.hash, prev |-> row.prev]
<1>0. Tower(P) /\ TreeInv
  BY DEF WholeTower
<1>1. PICK b \in DOMAIN log : /\ certified' = certified \cup {b} /\ log' = log
                              /\ log[b].height = height[P] + 1
                              /\ \A n \in Nodes \ {P} : rows'[n] = rows[n]
  BY <1>0, NextCertified
<1>2. b \in 1..MaxBlocks /\ b \notin certified
  <2>1. log \in Seq(Header) /\ Len(log) <= MaxBlocks /\ MaxBlocks \in Nat
    BY NodeAssumption DEF CandidatesCounted
  <2>2. QED BY <1>1, <2>1
<1>3. /\ height[P] \in Nat /\ height[P] \in DOMAIN rows[P] /\ b # GenesisHash
      /\ \A c \in certified : log[c].height <= height[P]
  BY <1>0, TowerIsLinear DEF GenesisHash
<1>4. EntriesIn(rows[P]) = CertifiedEntries
  BY <1>0, KeeperHasLedger DEF MappedToLedger
<1>5. last \in CertifiedEntries
  BY <1>3, <1>4 DEF EntriesIn
<1>6. \A f \in CertifiedEntries : f.height <= last.height /\ f.block # b
  BY <1>2, <1>3, EntriesOfBlocks DEF GenesisEntry, BlockEntry
<1>7. log[b].prev = row.hash
  <2>1. Extends(b, certified, log)
    BY <1>0 DEF TreeInv
  <2>2. CASE log[b].prev = GenesisHash /\ log[b].height = 1
    <3>1. height[P] = 0
      BY <1>1, <1>3, <2>2
    <3>2. rows[P][0].hash = GenesisHash
      BY <1>0 DEF Tower, TypeInv, Bounded
    <3>3. QED BY <2>2, <3>1, <3>2
  <2>3. CASE /\ log[b].prev \in certified
             /\ log[b].height = log[log[b].prev].height + 1
    <3>1. log[log[b].prev].height = height[P]
      <4>1. log[log[b].prev].height \in Nat
        BY <1>0, <2>3, TowerIsLinear
      <4>2. QED BY <1>1, <1>3, <2>3, <4>1
    <3>2. row = CertifiedRow(log[b].prev)
      BY <1>0, <2>3, <3>1 DEF Tower, TowerOf
    <3>3. QED BY <3>2 DEF CertifiedRow
  <2>4. QED BY <2>1, <2>2, <2>3 DEF Extends
<1>8. BlockEntry(b) = [height |-> last.height + 1, block |-> b, prev |-> last.block]
  BY <1>1, <1>7 DEF BlockEntry
<1>9. CertifiedEntries' = CertifiedEntries \cup {BlockEntry(b)}
  BY <1>1 DEF CertifiedEntries, BlockEntry
<1>10. EntriesIn(rows'[P]) = CertifiedEntries'
  BY KeeperHasLedgerNext DEF MappedToLedger
<1> HIDE DEF last, row
<1>11. copies' = [copies EXCEPT ![P] = @ \cup {BlockEntry(b)}]
  BY <1>1, <1>4, <1>9, <1>10
<1>12. (CHOOSE p \in Proposers : TRUE) = P
  BY DEF OneProposer
<1>13. Ledger!Certify(b, last)
  BY <1>6, <1>8, <1>9, <1>11, <1>12 DEF Ledger!Certify
<1>14. QED BY <1>2, <1>5, <1>13

LEMMA CandidatesBounded == Spec => []CandidatesCounted
<1>1. Init => Len(log) <= MaxBlocks
  BY NodeAssumption DEF Init
<1>2. CandidatesCounted /\ [Next]_vars => Len(log') <= MaxBlocks
  <2> SUFFICES ASSUME log \in Seq(Header), Len(log) <= MaxBlocks, [Next]_vars
               PROVE  Len(log') <= MaxBlocks
    BY DEF CandidatesCounted
  <2>1. log' = log \/ \E header : Len(log) < MaxBlocks /\ log' = Append(log, header)
    BY DEF Next, Propose, ReceiveBlock, RejectRound, Certify, SendCommit, HandleCommit,
           StartSync, FetchBlocks, FinishSync, ToggleStatus, Tamper, Restart, CrashInCommit,
           CrashInSync, vars, storage
  <2>2. MaxBlocks \in Nat
    BY NodeAssumption
  <2>3. QED BY <2>1, <2>2
<1>3. Init /\ TypeOK => CandidatesCounted
  BY <1>1 DEF TypeOK, CandidatesCounted
<1>4. CandidatesCounted /\ TypeOK' /\ [Next]_vars => CandidatesCounted'
  BY <1>2 DEF TypeOK, CandidatesCounted
<1>5. QED BY <1>3, <1>4, NodeTypes, PTL DEF Spec

\* With one proposer whose clients wait the HTTP consortium implements the
\* replicated ledger, with P as its keeper: for any number of nodes, whatever votes
\* and commits are lost or late, whoever is synced, and wherever processes die.
THEOREM OneProposerImplementsLedger ==
    ASSUME NEW P \in Nodes, OneProposer(P)
    PROVE  Spec => ImplementsLedger
<1>1. Init => Ledger!Init
  <2> SUFFICES ASSUME Init PROVE Ledger!Init
    OBVIOUS
  <2>1. CertifiedEntries = {GenesisEntry}
    BY EntriesOfBlocks DEF Init
  <2>2. \A n \in Nodes : EntriesIn(rows[n]) = {GenesisEntry}
    BY EntriesOfGenesis DEF Init
  <2>3. QED BY <2>1, <2>2 DEF Ledger!Init, GenesisEntry
<1>2. /\ WholeTower(P) /\ CandidatesCounted
      /\ WholeTower(P)' /\ [TablesGrow]_vars /\ [Next]_vars
      => [Ledger!Next]_(Ledger!vars)
  <2> SUFFICES ASSUME WholeTower(P), CandidatesCounted, WholeTower(P)',
                      [TablesGrow]_vars, [Next]_vars
               PROVE  Ledger!Next
    OBVIOUS
  <2>1. Tower(P) /\ Tower(P)' /\ TablesGrow
    BY DEF WholeTower, TablesGrow, Grows, vars, storage
  <2>2. CASE certified' = certified
    BY <2>1, <2>2, CopyingReplicates DEF Ledger!Next
  <2>3. CASE certified' # certified
    BY <2>1, <2>3, QuorumCertifies DEF Ledger!Next
  <2>4. QED BY <2>2, <2>3
<1>3. QED BY <1>1, <1>2, TowerTheorem, CandidatesBounded, PTL
          DEF Spec, ImplementsLedger, Ledger!Spec
==============================================================================
