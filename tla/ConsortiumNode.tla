--------------------------- MODULE ConsortiumNode ---------------------------
(***************************************************************************)
(* The HTTP consortium (consortium-node.ts): one process per node, each     *)
(* with its own database, talking with fetch.  The tables of a node and     *)
(* the operations on them are those of module LedgerNode.                  *)
(*                                                                         *)
(* The unit of atomicity is the code between two awaits of one handler.     *)
(* A proposal asks its peers one by one, then certifies and commits, then   *)
(* sends the block to its peers one by one; a sync fetches the chains of    *)
(* its peers one by one and then applies the longest.  Between two awaits   *)
(* every other handler of the node and of its peers may run, and neither    *)
(* handler looks again at what it read before.                             *)
(*                                                                         *)
(* A fetch that fails or times out (AbortSignal.timeout) is an answer that  *)
(* does not count; a commit request that timed out may still be handled by  *)
(* the peer.  Nodes are numbered as in package.json, which lists the peers  *)
(* of each in ascending order.                                             *)
(*                                                                         *)
(* Left out: the transactions a client of /propose sends along (a block's   *)
(* transactions are one unit and belong to no other block), commits of      *)
(* blocks no proposer of the cluster certified, toggles to SYNCING or       *)
(* CORRUPTED, and two /sync handlers of one node at once.                   *)
(***************************************************************************)
EXTENDS LedgerNode, Sequences

CONSTANTS
    N,             \* number of nodes
    Proposers,     \* the nodes clients send /propose to
    MaxOpen,       \* bound: rounds open at a time, 1 for clients that wait
    MaxBlocks,     \* bound: candidate blocks
    Syncing,       \* the nodes /sync is called on
    Toggled,       \* the nodes /status/toggle is called on
    Tamperable,    \* the nodes /tamper is called on
    Restartable    \* the nodes whose process dies and comes back

Nodes == 1..N
Peers(n) == Nodes \ {n}

\* Math.ceil(clusterSize * 2 / 3)
Quorum == (2 * N + 2) \div 3

ASSUME NodeAssumption ==
    /\ N \in Nat \ {0, 1}
    /\ Proposers \subseteq Nodes /\ Syncing \subseteq Nodes
    /\ Toggled \subseteq Nodes /\ Tamperable \subseteq Nodes
    /\ Restartable \subseteq Nodes
    /\ MaxOpen \in Nat /\ MaxBlocks \in Nat

VARIABLES
    status,     \* node -> NodeStatus, in memory
    height,     \* node -> currentHeight, in memory
    rows,       \* node -> local_blocks
    txs,        \* node -> local_transactions
    rounds,     \* open proposal -> where its handler stands
    commits,    \* <<block, peer>>: commit requests not handled yet
    syncs,      \* node -> where its sync handler stands
    log,        \* the candidate blocks, the preimages of their hashes
    certified   \* the candidates that reached their quorum

storage == <<rows, txs>>
vars == <<status, height, rows, txs, rounds, commits, syncs, log, certified>>

Header == [height : Nat, prev : Digest, kind : {"REGISTER_PROOF"}, by : Nodes]

\* The two fetch loops of a proposal: the peers still to ask, the votes so far.
Round == [phase : {"VOTING", "COMMITTING"}, todo : SUBSET Nodes, votes : SUBSET Nodes]

TypeOK ==
    /\ status \in [Nodes -> NodeStatus \ {"SYNCING"}]
    /\ height \in [Nodes -> Nat]
    /\ DOMAIN rows = Nodes /\ DOMAIN txs = Nodes
    /\ \A n \in Nodes : /\ DOMAIN rows[n] \subseteq Nat
                        /\ rows[n] \in [DOMAIN rows[n] -> Row]
                        /\ DOMAIN txs[n] \subseteq DOMAIN log
                        /\ txs[n] \in [DOMAIN txs[n] -> Tx]
    /\ log \in Seq(Header)
    /\ certified \subseteq DOMAIN log
    /\ DOMAIN rounds \subseteq DOMAIN log
    /\ rounds \in [DOMAIN rounds -> Round]
    /\ commits \subseteq certified \X Nodes
    /\ DOMAIN syncs \subseteq Nodes
    /\ \A n \in DOMAIN syncs :
          /\ syncs[n].initialHeight \in Nat /\ syncs[n].todo \subseteq Peers(n)
          /\ syncs[n].rows \in [DOMAIN syncs[n].rows -> Row]
          /\ syncs[n].txs \in [DOMAIN syncs[n].txs -> Tx]

\* The loops over this.peers.
NextPeer(todo) == CHOOSE p \in todo : \A q \in todo : p <= q

Without(f, S) == [x \in DOMAIN f \ S |-> f[x]]

CertifiedRow(b) == [hash |-> b, prev |-> log[b].prev, root |-> b]

CanCommit(n) == status[n] \in {"ONLINE", "SYNCING"}

\* Mutant: a block is stored on top of the node's own chain.
CommitBlockOnTop(n, b) ==
    /\ rows' = [rows EXCEPT ![n] = CommitRows(@, height[n] + 1, CertifiedRow(b))]
    /\ txs' = [txs EXCEPT ![n] = CommitTxs(@, b, height[n] + 1)]
    /\ height' = [height EXCEPT ![n] = @ + 1]

\* commitBlock on node n: whatever the height and the rows of n are.
CommitBlock(n, b) ==
    /\ rows' = [rows EXCEPT ![n] = CommitRows(@, log[b].height, CertifiedRow(b))]
    /\ txs' = [txs EXCEPT ![n] = CommitTxs(@, b, log[b].height)]
    /\ height' = [height EXCEPT ![n] = log[b].height]

------------------------------------------------------------------------------
(* POST /propose *)

\* Up to the first fetch: a candidate on top of the node's own chain and the
\* node's own vote.  Its transactions are its own: the handler's, or a list the
\* client sends that repeats no id.
Propose(n) ==
    LET b == Len(log) + 1
    IN  /\ Len(log) < MaxBlocks
        /\ Cardinality(DOMAIN rounds) < MaxOpen
        /\ status[n] = "ONLINE"
        /\ height[n] \in DOMAIN rows[n]
        /\ log' = Append(log, [height |-> height[n] + 1, prev |-> rows[n][height[n]].hash,
                               kind |-> "REGISTER_PROOF", by |-> n])
        /\ rounds' = [c \in DOMAIN rounds \cup {b} |->
                        IF c = b THEN [phase |-> "VOTING", todo |-> Peers(n), votes |-> {n}]
                        ELSE rounds[c]]
        /\ UNCHANGED <<status, height, storage, commits, syncs, certified>>

Accepts(p, b) == AcceptsCandidate(status[p], height[p], rows[p], log[b].height, log[b].prev)

\* Mutant: the validator stores the candidate it votes for.
ReceiveBlockStores(b) ==
    LET p == NextPeer(rounds[b].todo)
    IN  /\ rounds[b].phase = "VOTING" /\ rounds[b].todo # {}
        /\ \/ /\ rounds' = [rounds EXCEPT ![b].todo = @ \ {p}]
              /\ UNCHANGED <<height, storage>>
           \/ /\ Accepts(p, b)
              /\ rounds' = [rounds EXCEPT ![b].todo = @ \ {p}, ![b].votes = @ \cup {p}]
              /\ CommitBlock(p, b)
        /\ UNCHANGED <<status, commits, syncs, log, certified>>

\* /blocks/receive at the next peer: nothing is written, so a peer may vote for
\* any number of candidates of one height.  The answer may fail to arrive.
ReceiveBlock(b) ==
    LET p == NextPeer(rounds[b].todo)
    IN  /\ rounds[b].phase = "VOTING" /\ rounds[b].todo # {}
        /\ \/ rounds' = [rounds EXCEPT ![b].todo = @ \ {p}]
           \/ /\ Accepts(p, b)
              /\ rounds' = [rounds EXCEPT ![b].todo = @ \ {p}, ![b].votes = @ \cup {p}]
        /\ UNCHANGED <<status, height, storage, commits, syncs, log, certified>>

VotesCounted(b) == rounds[b].phase = "VOTING" /\ rounds[b].todo = {}

RejectRound(b) ==
    /\ VotesCounted(b)
    /\ Cardinality(rounds[b].votes) < Quorum
    /\ rounds' = Without(rounds, {b})
    /\ UNCHANGED <<status, height, storage, commits, syncs, log, certified>>

\* The certificate, and the proposer's own commit, whose result is ignored.
Certify(b) ==
    LET n == log[b].by
    IN  /\ VotesCounted(b)
        /\ Cardinality(rounds[b].votes) >= Quorum
        /\ certified' = certified \cup {b}
        /\ IF CanCommit(n) THEN CommitBlock(n, b) ELSE UNCHANGED <<height, storage>>
        /\ rounds' = [rounds EXCEPT ![b] =
                        [phase |-> "COMMITTING", todo |-> Peers(n), votes |-> {}]]
        /\ UNCHANGED <<status, commits, syncs, log>>

\* The request to the next peer leaves, or fails; an answer is not waited for
\* longer than the timeout.  After the last one the client gets its response.
SendCommit(b) ==
    LET p == NextPeer(rounds[b].todo)
        rest == rounds[b].todo \ {p}
    IN  /\ rounds[b].phase = "COMMITTING" /\ rounds[b].todo # {}
        /\ \E sent \in {{}, {<<b, p>>}} : commits' = commits \cup sent
        /\ rounds' = IF rest = {} THEN Without(rounds, {b})
                     ELSE [rounds EXCEPT ![b].todo = rest]
        /\ UNCHANGED <<status, height, storage, syncs, log, certified>>

\* /blocks/commit at the peer.  A certificate of this code always has the two
\* votes the handler asks for, because a proposer with a peer needs as many.  The
\* handler checks no signature; only blocks proposers sent are delivered here.
HandleCommit(b, p) ==
    /\ <<b, p>> \in commits
    /\ commits' = commits \ {<<b, p>>}
    /\ IF CanCommit(p) THEN CommitBlock(p, b) ELSE UNCHANGED <<height, storage>>
    /\ UNCHANGED <<status, rounds, syncs, log, certified>>

------------------------------------------------------------------------------
(* POST /sync *)

\* One handler per node at a time.
StartSync(n) ==
    /\ n \notin DOMAIN syncs
    /\ syncs' = [m \in DOMAIN syncs \cup {n} |->
                    IF m = n THEN [initialHeight |-> height[n], todo |-> Peers(n),
                                   rows |-> Without(GenesisRows, {0}), txs |-> NoTxs]
                    ELSE syncs[m]]
    /\ UNCHANGED <<status, height, storage, rounds, commits, log, certified>>

\* GET /blocks of the next peer, which answers whatever its status: the first
\* of the longest lists is kept.
FetchBlocks(n) ==
    LET s == syncs[n]
        p == NextPeer(s.todo)
        longer == Cardinality(DOMAIN rows[p]) > Cardinality(DOMAIN s.rows)
    IN  /\ s.todo # {}
        /\ \/ syncs' = [syncs EXCEPT ![n].todo = @ \ {p}]
           \/ /\ longer
              /\ syncs' = [syncs EXCEPT ![n].todo = @ \ {p}, ![n].rows = rows[p],
                                        ![n].txs = txs[p]]
        /\ UNCHANGED <<status, height, storage, rounds, commits, log, certified>>

NeedsSync(n, force) ==
    \/ ~Intact(log, rows[n], txs[n])
    \/ force
    \/ Cardinality(DOMAIN syncs[n].rows) > syncs[n].initialHeight + 1

\* Mutant: the node comes back without checking what it received.
ReconcileUnchecked(n, peerRows, peerTxs) ==
    LET rs == OverwriteRows(rows[n], peerRows)
        ts == OverwriteTxs(txs[n], peerRows, peerTxs)
    IN  /\ rows' = [rows EXCEPT ![n] = rs]
        /\ txs' = [txs EXCEPT ![n] = ts]
        /\ height' = [height EXCEPT ![n] = TopHeight(rs)]
        /\ status' = [status EXCEPT ![n] = "ONLINE"]

\* Mutant: a node whose check fails stays in the syncing state.
ReconcileStaysSyncing(n, peerRows, peerTxs) ==
    LET rs == OverwriteRows(rows[n], peerRows)
        ts == OverwriteTxs(txs[n], peerRows, peerTxs)
    IN  /\ rows' = [rows EXCEPT ![n] = rs]
        /\ txs' = [txs EXCEPT ![n] = ts]
        /\ height' = [height EXCEPT ![n] = TopHeight(rs)]
        /\ status' = [status EXCEPT ![n] =
                        IF Intact(log, rs, ts) THEN "ONLINE" ELSE "SYNCING"]

\* reconcileChain on the blocks fetched.
Reconcile(n, peerRows, peerTxs) ==
    LET rs == OverwriteRows(rows[n], peerRows)
        ts == OverwriteTxs(txs[n], peerRows, peerTxs)
    IN  /\ rows' = [rows EXCEPT ![n] = rs]
        /\ txs' = [txs EXCEPT ![n] = ts]
        /\ height' = [height EXCEPT ![n] = TopHeight(rs)]
        /\ status' = [status EXCEPT ![n] =
                        IF Intact(log, rs, ts) THEN "ONLINE" ELSE "CORRUPTED"]

\* After the last answer: what the node committed meanwhile is not looked at.
FinishSync(n, force) ==
    LET s == syncs[n]
    IN  /\ s.todo = {}
        /\ syncs' = Without(syncs, {n})
        /\ IF NeedsSync(n, force) /\ DOMAIN s.rows # {}
           THEN Reconcile(n, s.rows, s.txs)
           ELSE UNCHANGED <<status, height, storage>>
        /\ UNCHANGED <<rounds, commits, log, certified>>

------------------------------------------------------------------------------
(* Operators, intruders, crashes *)

\* POST /status/toggle, with or without a status in its body; ONLINE and OFFLINE
\* are the two the button, the tests and the demo ask for.
ToggleStatus(n, newStatus) ==
    /\ status' = [status EXCEPT ![n] = newStatus]
    /\ UNCHANGED <<height, storage, rounds, commits, syncs, log, certified>>

\* POST /tamper changes hash and payload of one block above genesis.
Tamper(n, h) ==
    /\ CanTamperRow(rows[n], h, {"blockHash", "payload"})
    /\ rows' = [rows EXCEPT ![n] = TamperRows(@, h, {"blockHash", "payload"})]
    /\ txs' = [txs EXCEPT ![n] = TamperTxs(@, h, {"blockHash", "payload"})]
    /\ status' = [status EXCEPT ![n] = "CORRUPTED"]
    /\ UNCHANGED <<height, rounds, commits, syncs, log, certified>>

\* Mutant: the in-memory height is not read back from the table.
ComeBackAtGenesis(n, rs) ==
    /\ status' = [status EXCEPT ![n] = "ONLINE"]
    /\ height' = [height EXCEPT ![n] = 0]
    /\ rounds' = Without(rounds, {b \in DOMAIN rounds : log[b].by = n})
    /\ commits' = {c \in commits : c[2] # n}
    /\ syncs' = Without(syncs, {n})

\* The process of n dies and comes back on the tables rs: its handlers and the
\* requests it had not handled are gone, requests it had sent are not.
ComeBack(n, rs) ==
    /\ status' = [status EXCEPT ![n] = "ONLINE"]
    /\ height' = [height EXCEPT ![n] = TopHeight(rs)]
    /\ rounds' = Without(rounds, {b \in DOMAIN rounds : log[b].by = n})
    /\ commits' = {c \in commits : c[2] # n}
    /\ syncs' = Without(syncs, {n})

Restart(n) ==
    /\ ComeBack(n, rows[n])
    /\ UNCHANGED <<storage, log, certified>>

\* The process dies inside commitBlock, between the statement that writes the
\* block row and the one that writes its transaction.
CrashInCommit(n, b) ==
    LET own == /\ b \in DOMAIN rounds /\ log[b].by = n
               /\ VotesCounted(b) /\ Cardinality(rounds[b].votes) >= Quorum
        rs == CommitRows(rows[n], log[b].height, CertifiedRow(b))
    IN  /\ own \/ <<b, n>> \in commits
        /\ CanCommit(n)
        /\ rows' = [rows EXCEPT ![n] = rs]
        /\ certified' = certified \cup {b}
        /\ ComeBack(n, rs)
        /\ UNCHANGED <<txs, log>>

\* The process dies inside reconcileChain, needed or forced, after the blocks up to
\* height top.
CrashInSync(n, top) ==
    LET s == syncs[n]
        written == [h \in {h \in DOMAIN s.rows : h <= top} |-> s.rows[h]]
        rs == OverwriteRows(rows[n], written)
    IN  /\ s.todo = {}
        /\ rows' = [rows EXCEPT ![n] = rs]
        /\ txs' = [txs EXCEPT ![n] = OverwriteTxs(@, written, s.txs)]
        /\ ComeBack(n, rs)
        /\ UNCHANGED <<log, certified>>
------------------------------------------------------------------------------

Init ==
    /\ status = [n \in Nodes |-> "ONLINE"]
    /\ height = [n \in Nodes |-> 0]
    /\ rows = [n \in Nodes |-> GenesisRows]
    /\ txs = [n \in Nodes |-> NoTxs]
    /\ rounds = [b \in {} |-> {}]
    /\ commits = {}
    /\ syncs = [n \in {} |-> {}]
    /\ log = <<>>
    /\ certified = {}

Next ==
    \/ \E n \in Proposers : Propose(n)
    \/ \E b \in DOMAIN rounds : ReceiveBlock(b)
    \/ \E b \in DOMAIN rounds : RejectRound(b)
    \/ \E b \in DOMAIN rounds : Certify(b)
    \/ \E b \in DOMAIN rounds : SendCommit(b)
    \/ \E b \in certified, p \in Nodes : HandleCommit(b, p)
    \/ \E n \in Syncing : StartSync(n)
    \/ \E n \in DOMAIN syncs : FetchBlocks(n)
    \/ \E n \in DOMAIN syncs, force \in BOOLEAN : FinishSync(n, force)
    \/ \E n \in Toggled, newStatus \in {"ONLINE", "OFFLINE"} : ToggleStatus(n, newStatus)
    \/ \E n \in Tamperable : \E h \in DOMAIN rows[n] \ {0} : Tamper(n, h)
    \/ \E n \in Restartable : Restart(n)
    \/ \E n \in Restartable, b \in DOMAIN log : CrashInCommit(n, b)
    \/ \E n \in Restartable \cap DOMAIN syncs :
          \E top \in DOMAIN syncs[n].rows : CrashInSync(n, top)

Spec == Init /\ [][Next]_vars

------------------------------------------------------------------------------
(* Properties *)

\* Every certified block extends a certified block or genesis, across rounds
\* that overlap, votes lost, commits late and chains copied in between: the
\* certified blocks form a tree.
CertifiedBlocksFormTree ==
    \A b \in certified :
        \/ log[b].prev = GenesisHash /\ log[b].height = 1
        \/ log[b].prev \in certified /\ log[b].height = log[log[b].prev].height + 1

\* One proposer whose clients wait for their answers never gets two blocks of
\* one height certified, and the client's block stays on the proposer.
CertifiedBlocksStay ==
    \A b \in certified : /\ log[b].height \in DOMAIN rows[log[b].by]
                         /\ rows[log[b].by][log[b].height] = CertifiedRow(b)

\* With such a proposer only a crash inside a commit makes a node fail its
\* integrity check: a chain with no hole and with a transaction in every block
\* verifies.
OnlyTornCopiesFail ==
    \A n \in Nodes :
        (/\ DOMAIN rows[n] = 0..TopHeight(rows[n])
         /\ \A h \in DOMAIN rows[n] \ {0} : TxsAt(txs[n], h) # {})
        => Intact(log, rows[n], txs[n])

\* With such a proposer a stored block is immutable: neither a sync that was
\* overtaken by commits nor a crash takes it away or changes it.
StoredBlocksAreImmutable ==
    [][\A n \in Nodes : \A h \in DOMAIN rows[n] :
            h \in DOMAIN rows'[n] /\ rows'[n][h] = rows[n][h]]_vars

\* With such a proposer the consortium implements a replicated ledger that the
\* proposer keeps: a block is certified on top of the last one, in the step that
\* stores its row on the proposer, be that step cut short by a crash; commits and
\* syncs, late or torn, only copy what is certified.
CertifiedEntries ==
    EntriesIn(GenesisRows) \cup
    {[height |-> log[b].height, block |-> b, prev |-> log[b].prev] : b \in certified}

Ledger == INSTANCE ReplicatedLedger WITH
    Keeper <- CHOOSE p \in Proposers : TRUE,
    Genesis <- [height |-> 0, block |-> GenesisHash, prev |-> GenesisRows[0].prev],
    Blocks <- 1..MaxBlocks,
    ledger <- CertifiedEntries,
    copies <- [n \in Nodes |-> EntriesIn(rows[n])]

ImplementsLedger == Ledger!Spec

\* A sync repairs a copy torn by a crash when the blocks fetched verify and the
\* node has no block beyond them.
SyncHealsTornCopies ==
    [][\A n \in DOMAIN syncs :
        (/\ syncs[n].todo = {} /\ Intact(log, syncs[n].rows, syncs[n].txs)
         /\ DOMAIN rows[n] \subseteq DOMAIN syncs[n].rows
         /\ FinishSync(n, TRUE))
        => Intact(log, rows'[n], txs'[n]) /\ status'[n] = "ONLINE"]_vars

\* A forged block is never on an ONLINE node, as long as nobody sets statuses
\* and no process restarts: the node found out when it was tampered with, and
\* a copy of a forged chain is found out by the check after the sync.
ForgedNeverOnline ==
    \A n \in Nodes : status[n] = "ONLINE" =>
        \A h \in DOMAIN rows[n] \ {0} : rows[n][h].hash # Forged
==============================================================================
