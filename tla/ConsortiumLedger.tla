--------------------------- MODULE ConsortiumLedger ---------------------------
(***************************************************************************)
(* The embedded ledger of the application (consortium-blockchain.adapter.ts, *)
(* class ConsortiumBlockchainAdapter): the operations on the chain a process *)
(* holds in memory and on its two tables, as operators on their values.     *)
(*                                                                         *)
(*   chain  : sequence of blocks, in memory; element 1 is genesis, so that  *)
(*            the block of height h is element h + 1                        *)
(*   blocks : the table blockchain_blocks, the same sequence of headers     *)
(*   txs    : the table blockchain_transactions, tx_id -> row               *)
(*                                                                         *)
(* One process mines at a time, each block on top of the last, so heights   *)
(* and previous hashes link by the way blocks are appended and are left     *)
(* out; what can fail is a block's Merkle root against the transactions it  *)
(* has, and its signature against the notary key of the process.  A block   *)
(* carries one transaction: the Merkle root of one leaf is the leaf, here   *)
(* the id of the transaction.  tx_id hashes the object with the content     *)
(* hash, the word REVOKED or the event id, and the millisecond; the id      *)
(* <<kind, obj, ref>> has the two last in ref.                             *)
(***************************************************************************)
EXTENDS Integers, Sequences, FiniteSets

Put(f, k, v) == [x \in DOMAIN f \cup {k} |-> IF x = k THEN v ELSE f[x]]

Genesis(key) == [root |-> <<"GENESIS", "", 0>>, by |-> key]

\* Mutant: whatever came last.
ChangesStatusAny(id) == TRUE

ChangesStatus(id) == id[1] \in {"REGISTER_PROOF", "REVOKE_PROOF"}

\* What a reader rebuilds of the headers: loadOrInitLedger gives each block the
\* transactions stored under its height.
Load(blocks, txs) ==
    [i \in DOMAIN blocks |->
        [root |-> blocks[i].root, by |-> blocks[i].by,
         txs |-> {id \in DOMAIN txs : txs[id].height = i - 1}]]

\* Mutant: off by one.
TopHeightOfNext(blocks) == Len(blocks)

TopHeight(blocks) == Len(blocks) - 1

\* mineBlock, up to the insertion of the header: the block is in memory with
\* its transaction.
Mined(id, key) == [root |-> id, by |-> key, txs |-> {id}]

\* The loop over the transactions: INSERT OR REPLACE by tx_id.
RecordTx(txs, id, height, hash, key) ==
    Put(txs, id, [height |-> height, hash |-> hash, by |-> key])

------------------------------------------------------------------------------

ProofTxs(txs, o) == {id \in DOMAIN txs : id[2] = o /\ ChangesStatus(id)}

\* getProof: the transaction of the greatest height that changes the status.
LatestTx(txs, o) ==
    LET own == ProofTxs(txs, o)
    IN  CHOOSE id \in own : \A j \in own : txs[j].height <= txs[id].height

IsAnchored(txs, o) == ProofTxs(txs, o) # {}

\* A registration's payload has no status and no reason, a revocation's has a
\* reason.
Proof(txs, o) ==
    LET id == LatestTx(txs, o)
    IN  [hash |-> txs[id].hash,
         status |-> IF id[1] = "REVOKE_PROOF" THEN "REVOKED" ELSE "ACTIVE"]

\* verifyProof, asked about the hash the ledger itself holds, as the
\* verification service does.
VerifyProof(txs, o, key) ==
    /\ IsAnchored(txs, o)
    /\ Proof(txs, o).status # "REVOKED"
    /\ txs[LatestTx(txs, o)].by = key

\* verifyLedgerIntegrity: it reads the chain in memory, never the tables.
LedgerIntegrity(chain, key) ==
    /\ chain # <<>>
    /\ chain[1].by = key
    /\ \A i \in 2..Len(chain) : chain[i].txs = {chain[i].root} /\ chain[i].by = key
=============================================================================
