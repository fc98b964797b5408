----------------------------- MODULE LedgerNode -----------------------------
(***************************************************************************)
(* The storage of one ledger node (src/core/blockchain/node.ts, class      *)
(* LedgerNode): the operations on its two SQLite tables, as operators on    *)
(* the values of those tables.  The module has no state: PbftCluster and    *)
(* every other module that owns nodes keeps the tables in its variables.    *)
(*                                                                         *)
(*   rows : height -> row    the table local_blocks (height is its key,    *)
(*                           block_hash is UNIQUE)                         *)
(*   txs  : block -> tx      the table local_transactions (tx_id is its    *)
(*                           key)                                          *)
(*                                                                         *)
(* SHA-256 is injective here: the hash of the b-th block sealed is the      *)
(* number b, so headers[b] is the preimage of hash b, the hash of genesis   *)
(* is 0, and the Merkle root of block b's transactions is b as well.  All   *)
(* the transactions of block b are one unit, the "transaction" b, and no    *)
(* two blocks share a transaction id (ids made of the clock, such as        *)
(* tx-revoke-, could meet within a millisecond).                            *)
(*                                                                         *)
(* Forged is a string that is the digest of nothing, such as the default    *)
(* '0xdeadbeef_corrupted_hash' of the tamper route.  The route writes any   *)
(* string as a block's own hash, and each fails the check as this one does: *)
(* the header it should be the digest of is left alone.  The method         *)
(* tamperBlock takes previous hashes and roots as well, so its callers      *)
(* could rewrite a chain consistently from genesis on, whose own hash       *)
(* nothing checks: such rewrites are not modelled.                          *)
(***************************************************************************)
EXTENDS Integers, FiniteSets

Forged == -1
GenesisHash == 0

\* The hashes, previous hashes and Merkle roots a row can hold.
Digest == Nat \cup {Forged}

Row == [hash : Digest, prev : Digest, root : Digest]
Tx == [height : Nat, intact : BOOLEAN]

NodeStatus == {"ONLINE", "OFFLINE", "SYNCING", "CORRUPTED"}

\* revokeProof computes its leaf over the word REVOKED and stores the object's
\* content hash beside it; every other transaction's leaf covers what it stores.
LeafMatches(header, tx) == tx.intact /\ header.kind # "REVOKE_PROOF"

------------------------------------------------------------------------------
(* Reading *)

\* The rows as entries of ReplicatedLedger.
EntriesIn(rs) ==
    {[height |-> h, block |-> rs[h].hash, prev |-> rs[h].prev] : h \in DOMAIN rs}

GenesisRows == [h \in {0} |-> [hash |-> GenesisHash, prev |-> Forged, root |-> Forged]]

NoTxs == [b \in {} |-> [height |-> 0, intact |-> TRUE]]

TxsAt(ts, h) == {b \in DOMAIN ts : ts[b].height = h}

\* SELECT MAX(height): the height a restart or a reconciliation adopts.
TopHeight(rs) == CHOOSE h \in DOMAIN rs : \A g \in DOMAIN rs : g <= h

\* Mutant: a validator votes whatever its status.
AcceptsCandidateAnyStatus(st, ht, rs, candidateHeight, candidatePrev) ==
    /\ ht \in DOMAIN rs
    /\ candidateHeight = ht + 1
    /\ candidatePrev = rs[ht].hash

\* verifyCandidateBlock, for a candidate its proposer has just built (its root
\* and its header hash are right): the checks a validator's state decides.
AcceptsCandidate(st, ht, rs, candidateHeight, candidatePrev) ==
    /\ st = "ONLINE"
    /\ ht \in DOMAIN rs
    /\ candidateHeight = ht + 1
    /\ candidatePrev = rs[ht].hash

\* The header hash recomputed from the row equals the stored hash.
HeaderHashes(headers, h, row) ==
    /\ row.hash \in DOMAIN headers
    /\ headers[row.hash].height = h
    /\ headers[row.hash].prev = row.prev
    /\ row.root = row.hash

\* verifyLocalChainIntegrity.  Genesis is only asked for its height.
Intact(headers, rs, ts) ==
    /\ 0 \in DOMAIN rs
    /\ \A h \in DOMAIN rs \ {0} :
          /\ h - 1 \in DOMAIN rs
          /\ rs[h].prev = rs[h - 1].hash
          /\ HeaderHashes(headers, h, rs[h])
          /\ TxsAt(ts, h) = {rs[h].root}
          /\ \A b \in TxsAt(ts, h) : LeafMatches(headers[b], ts[b])

------------------------------------------------------------------------------
(* Writing *)

\* commitBlock: INSERT OR REPLACE drops the row of that height and, block_hash
\* being UNIQUE, any other row with that hash; the replaced block's
\* transactions stay.
CommitRows(rs, h, row) ==
    [g \in {g \in DOMAIN rs : rs[g].hash # row.hash} \cup {h} |->
        IF g = h THEN row ELSE rs[g]]

CommitTxs(ts, b, h) ==
    [c \in DOMAIN ts \cup {b} |->
        IF c = b THEN [height |-> h, intact |-> TRUE] ELSE ts[c]]

\* Mutant: the local table is emptied before the peer's blocks are written.
OverwriteRowsDropsLocal(rs, peerRows) == peerRows

\* Mutant: only the missing blocks are written, a forged one stays.
OverwriteRowsKeepsLocal(rs, peerRows) ==
    [h \in DOMAIN rs \cup DOMAIN peerRows |->
        IF h \in DOMAIN rs THEN rs[h] ELSE peerRows[h]]

\* reconcileChain: commitBlock of every block of the peer, in height order,
\* with no check before the write.  A local row survives at a height the peer
\* does not have unless its hash collides with one of the peer's.
OverwriteRows(rs, peerRows) ==
    LET kept == {h \in DOMAIN rs \ DOMAIN peerRows :
                    \A g \in DOMAIN peerRows : peerRows[g].hash # rs[h].hash}
    IN  [h \in DOMAIN peerRows \cup kept |->
            IF h \in DOMAIN peerRows THEN peerRows[h] ELSE rs[h]]

\* Mutant: block headers are written without their transactions.
OverwriteTxsHeadersOnly(ts, peerRows, peerTxs) == ts

\* The transactions travel inside the peer's hydrated blocks.
OverwriteTxs(ts, peerRows, peerTxs) ==
    LET sent == {b \in DOMAIN peerTxs : peerTxs[b].height \in DOMAIN peerRows}
    IN  [b \in DOMAIN ts \cup sent |-> IF b \in sent THEN peerTxs[b] ELSE ts[b]]

\* tamperBlock on the block row.  The UPDATE fails on a hash another row holds.
CanTamperRow(rs, h, mutation) ==
    /\ h \in DOMAIN rs
    /\ "blockHash" \in mutation => \A g \in DOMAIN rs \ {h} : rs[g].hash # Forged

TamperRows(rs, h, mutation) ==
    [rs EXCEPT ![h] =
        [hash |-> IF "blockHash" \in mutation THEN Forged ELSE @.hash,
         prev |-> IF "previousHash" \in mutation THEN Forged ELSE @.prev,
         root |-> IF "merkleRoot" \in mutation THEN Forged ELSE @.root]]

\* tamperBlock on the payload: payload and content hash of one transaction of
\* that height, not its stored leaf.
TamperTxs(ts, h, mutation) ==
    IF "payload" \in mutation /\ TxsAt(ts, h) # {}
    THEN [ts EXCEPT ![CHOOSE b \in TxsAt(ts, h) : TRUE].intact = FALSE]
    ELSE ts
==============================================================================
