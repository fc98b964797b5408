----------------------------- MODULE TrustServer -----------------------------
(***************************************************************************)
(* The application (server.ts, app.ts): one process that serves the         *)
(* services of src/src/core and the sector modules over one SQLite file,    *)
(* with the embedded ledger of module ConsortiumLedger, and the seed script *)
(* that fills the file.                                                    *)
(*                                                                         *)
(* The services do no input or output but SQLite's, which is synchronous,   *)
(* so a handler runs to its end before the next one starts.  But nothing    *)
(* opens a database transaction: each statement commits by itself and the   *)
(* process may die between two of them.  An action is therefore one         *)
(* statement that writes; pc names the statement that comes next and call   *)
(* is the request that is handled.  A statement that raises ends its        *)
(* handler, which answers 500 and undoes nothing.                          *)
(*                                                                         *)
(* A key is a number: DerivedKey is the one derived from the did, SeedKey   *)
(* the one the seed derives, larger ones are random.  A signature is the    *)
(* key that made it.  A content hash is the record of what is hashed.       *)
(* Time is counted in milliseconds in which something happens: handlers of  *)
(* clients may fall in one millisecond, which matters to the ids that are   *)
(* made of the clock alone.                                                *)
(***************************************************************************)
EXTENDS ConsortiumLedger, Verification

CONSTANTS
    Dids,          \* the identities
    Objects,       \* trust object ids, all of them given by customId
    TypeOf,        \* object -> its objectType
    Metadata,      \* metadata values; of a device, configuration hashes
    SerialOf,      \* metadata -> its serialNumber
    ShelfLife,     \* from the creation of a product to its expiryDate
    Scenarios,     \* the pairs of the demo page with the verdict it expects
    SeedCalls,     \* the calls of seedDatabase, in order
    ClientCalls,   \* bound: the requests clients make
    MaxCalls,      \* bound: how many of them, none after a crash while seeding
    MaxCrashes,    \* bound: how often the process dies or is stopped
    MaxTime        \* bound: the clock

Notary == "did:trustgrid:sys:consortium-notary"

ObjectTypes == {"CREDENTIAL", "PRODUCT", "EVIDENCE", "DEVICE"}

\* A request: the did that signs, the receiver or owner, the metadata, and
\* whether it has the fields that no route asks for but the tables do.
Call == [op : {"identity", "create", "issue", "transfer", "revoke", "tamper", "audit", "inject"},
         obj : Objects, from : Dids, to : Dids, meta : Metadata, complete : BOOLEAN]

ASSUME ServerAssumption ==
    /\ Notary \in Dids
    /\ TypeOf \in [Objects -> ObjectTypes]
    /\ SeedCalls \in Seq(Call)
    /\ ClientCalls \subseteq {c \in Call : c.op # "inject"}  \* behind no route
    /\ ShelfLife \in Nat /\ MaxCalls \in Nat /\ MaxCrashes \in Nat /\ MaxTime \in Nat

VARIABLES
    mode,      \* what the process is doing
    pc,        \* the statement that comes next, "idle" between calls
    call,      \* the call that is handled
    script,    \* the calls the seed has still to make
    db,        \* the tables, table name -> its rows
    chain,     \* the blocks of the adapter, in memory
    notary,    \* the key of the adapter, in memory
    now,       \* the clock
    calls,     \* how many client calls were begun
    crashes    \* how often it died while seeding or starting, and while serving

memory == <<chain, notary>>
bounds == <<now, calls, crashes>>
vars == <<mode, pc, call, script, db, memory, bounds>>

Modes == {"down", "seed script", "starting", "serving"}

Crashes == crashes.seeding + crashes.serving

NoCall == [op |-> "none"]
NoKey == -1
DerivedKey == 0
SeedKey == 1

\* The tables the services read back, in the order the seed deletes them.
Tables == <<"security_events", "revocations", "ownership_events", "provenance_events",
            "credentials", "trust_objects", "blockchain_transactions", "blockchain_blocks",
            "wallet_keystores", "identities">>

TableNames == {Tables[i] : i \in DOMAIN Tables}

EmptyDb == [t \in TableNames |-> <<>>]

Row(table, k, r) == [db EXCEPT ![table] = Put(@, k, r)]

------------------------------------------------------------------------------
(* Reading the tables *)

Stored(o) == o \in DOMAIN db.trust_objects

KeyOf(did) == db.wallet_keystores[did]

\* What createTrustObject hashes, for a call handled now; the subject of a
\* degree is the student, of anything else an id made of the metadata.
ContentHash(c, at) ==
    [meta |-> c.meta, drift |-> FALSE, issuer |-> c.from, at |-> at,
     subject |-> IF c.op = "issue" THEN c.to ELSE c.obj]

\* The hash over what the row of an object holds now.
CanonicalHash(row) ==
    [meta |-> row.meta, drift |-> row.drift, issuer |-> row.issuer, at |-> row.at,
     subject |-> row.subject]

Provenance(o) ==
    LET events == db.provenance_events
    IN  [i \in {j \in DOMAIN events : events[j].obj = o} |-> events[i]]

IsExpired(o) ==
    TypeOf[o] = "PRODUCT" /\ db.trust_objects[o].at + ShelfLife < now

\* Steps 1 to 7 of verifyTrustObject on the stored metadata.
FactsOf(o) ==
    LET row == db.trust_objects[o]
        txs == db.blockchain_transactions
        anchored == IsAnchored(txs, o)
        proof == Proof(txs, o)
        hash == CanonicalHash(row)
    IN  [hashMatch |-> anchored /\ proof.hash = hash /\ row.hash = hash,
         signatureValid |-> SignedBy(db.identities, row.issuer, row.key),
         isRevoked |-> \/ o \in DOMAIN db.revocations
                       \/ anchored /\ proof.status = "REVOKED",
         isExpired |-> IsExpired(o),
         continuous |-> Continuous(Provenance(o), db.identities),
         proofValid |-> VerifyProof(txs, o, notary),
         device |-> TypeOf[o] = "DEVICE"]

Verdict(o) == OverallStatus(FactsOf(o))

\* generatePassport counts the claims by the status column.
ClaimStatuses(did) ==
    LET claims == {o \in DOMAIN db.trust_objects : db.trust_objects[o].subject = did}
    IN  [o \in claims |-> db.trust_objects[o].status]

\* The health handler: 200 or 503.
Healthy == LedgerIntegrity(chain, notary) /\ Notary \in DOMAIN db.wallet_keystores

------------------------------------------------------------------------------
(* The course of a handler *)

\* The statement after the one that has run; the end of the lists of a call is
\* the statement that leads to "idle".
NextPc(c) ==
    [security_events |-> "revocations", revocations |-> "ownership_events",
     ownership_events |-> "provenance_events", provenance_events |-> "credentials",
     credentials |-> "trust_objects", trust_objects |-> "blockchain_transactions",
     blockchain_transactions |-> "blockchain_blocks", blockchain_blocks |-> "wallet_keystores",
     wallet_keystores |-> "identities", identities |-> "notaryKeystore",
     notaryKeystore |-> "notaryIdentity", notaryIdentity |-> "ledger", ledger |-> "idle",
     identityRow |-> "keystoreRow", keystoreRow |-> "idle",
     registerBlock |-> "registerTx", registerTx |-> "objectRow", objectRow |-> "eventBlock",
     eventBlock |-> "eventTx", eventTx |-> "eventRow",
     eventRow |-> IF c.op = "issue" THEN "credentialRow"
                  ELSE IF c.op = "transfer" THEN "ownerColumn" ELSE "idle",
     credentialRow |-> "idle", ownerColumn |-> "ownershipRow", ownershipRow |-> "idle",
     revokeBlock |-> "revokeTx", revokeTx |-> "revocationRow",
     revocationRow |-> "statusColumn", statusColumn |-> "idle",
     alertBlock |-> "alertTx", alertTx |-> "securityRow", securityRow |-> "metadata",
     metadata |-> "idle", brokenEvent |-> "idle"]

\* Mutant: a revocation goes to the tables and not to the ledger.
FirstPcNoLedger(op) ==
    [identity |-> "identityRow", create |-> "registerBlock", issue |-> "registerBlock",
     transfer |-> "eventBlock", revoke |-> "revocationRow", audit |-> "alertBlock",
     tamper |-> "metadata", inject |-> "brokenEvent"][op]

FirstPc(op) ==
    [identity |-> "identityRow", create |-> "registerBlock", issue |-> "registerBlock",
     transfer |-> "eventBlock", revoke |-> "revokeBlock", audit |-> "alertBlock",
     tamper |-> "metadata", inject |-> "brokenEvent"][op]

Signs(op) == op \in {"create", "issue", "transfer", "revoke"}

GoTo(next) ==
    /\ pc' = next
    /\ call' = IF next = "idle" THEN NoCall ELSE call

Advance ==
    /\ GoTo(NextPc(call)[pc])
    /\ UNCHANGED <<mode, script, bounds>>

\* A statement that raises.
Abort ==
    /\ GoTo("idle")
    /\ UNCHANGED <<mode, script, db, memory, bounds>>

TamperTargetFound(c) == c.op = "tamper" => Stored(c.obj)

\* An audit writes only when what it observes is not what the row says.
DriftObserved(c) ==
    c.op = "audit" => /\ Stored(c.obj) /\ TypeOf[c.obj] = "DEVICE"
                      /\ db.trust_objects[c.obj].meta # c.meta

\* signWithDid provisions a did that has no key, outside of production.
Begin(c) ==
    /\ pc = "idle"
    /\ TamperTargetFound(c) /\ DriftObserved(c)
    /\ call' = c
    /\ pc' = IF Signs(c.op) /\ c.from \notin DOMAIN db.wallet_keystores
             THEN "deriveKeystore" ELSE FirstPc(c.op)

------------------------------------------------------------------------------
(* Identities and keys *)

\* A random key, or the seed's.
NewKey == IF mode = "serving" THEN SeedKey + calls ELSE SeedKey

IdentityRow ==
    /\ pc = "identityRow"
    /\ db' = Row("identities", call.from, NewKey)
    /\ Advance /\ UNCHANGED memory

\* Mutant: a key that is stored stays.
KeystoreRowKeepsKey ==
    /\ pc = "keystoreRow"
    /\ db' = IF call.from \in DOMAIN db.wallet_keystores THEN db
             ELSE Row("wallet_keystores", call.from, NewKey)
    /\ Advance /\ UNCHANGED memory

\* storeKeyPair: the pair is in memory as long as the process lives and in the
\* table afterwards, so the table alone tells the key.
KeystoreRow ==
    /\ pc = "keystoreRow"
    /\ db' = Row("wallet_keystores", call.from, NewKey)
    /\ Advance /\ UNCHANGED memory

\* registerDeterministicIdentity, for a did without a key.
DeriveKeystore ==
    /\ pc = "deriveKeystore"
    /\ db' = Row("wallet_keystores", call.from, DerivedKey)
    /\ GoTo("deriveIdentity")
    /\ UNCHANGED <<mode, script, memory, bounds>>

DeriveIdentity ==
    /\ pc = "deriveIdentity"
    /\ db' = Row("identities", call.from, DerivedKey)
    /\ GoTo(FirstPc(call.op))
    /\ UNCHANGED <<mode, script, memory, bounds>>

------------------------------------------------------------------------------
(* The ledger *)

\* Mutant: a transfer's id is the millisecond too.
EventIdByClock == <<"CREATION", now, 0>>

EventId == IF call.op = "transfer" THEN <<"TRANSFER", now, calls>> ELSE <<"CREATION", now, 0>>

TxKind(stmt) ==
    [registerBlock |-> "REGISTER_PROOF", registerTx |-> "REGISTER_PROOF",
     eventBlock |-> "RECORD_PROVENANCE", eventTx |-> "RECORD_PROVENANCE",
     revokeBlock |-> "REVOKE_PROOF", revokeTx |-> "REVOKE_PROOF",
     alertBlock |-> "SECURITY_ALERT", alertTx |-> "SECURITY_ALERT"][stmt]

\* tx_id: object, content hash, word or event id, and millisecond.
TxId(kind) ==
    <<kind, call.obj,
      [REGISTER_PROOF |-> ContentHash(call, now), RECORD_PROVENANCE |-> EventId,
       REVOKE_PROOF |-> now, SECURITY_ALERT |-> <<now, calls>>][kind]>>

TxHash(kind) ==
    IF kind = "REGISTER_PROOF" THEN ContentHash(call, now)
    ELSE IF kind = "REVOKE_PROOF" THEN Proof(db.blockchain_transactions, call.obj).hash
    ELSE [meta |-> call.meta]

\* The chain in memory grows with the row of its last block.
MineBlock ==
    /\ pc \in {"registerBlock", "eventBlock", "revokeBlock", "alertBlock"}
    /\ pc = "revokeBlock" => IsAnchored(db.blockchain_transactions, call.obj)
    /\ chain' = Append(chain, Mined(TxId(TxKind(pc)), notary))
    /\ db' = [db EXCEPT !.blockchain_blocks =
                Append(@, [root |-> TxId(TxKind(pc)), by |-> notary])]
    /\ Advance /\ UNCHANGED notary

\* revokeProof of an object the ledger does not know.
RevokeUnknown ==
    /\ pc = "revokeBlock" /\ ~IsAnchored(db.blockchain_transactions, call.obj)
    /\ Abort

InsertTx ==
    /\ pc \in {"registerTx", "eventTx", "revokeTx", "alertTx"}
    /\ db' = [db EXCEPT !.blockchain_transactions =
                RecordTx(@, TxId(TxKind(pc)), TopHeight(db.blockchain_blocks),
                         TxHash(TxKind(pc)), notary)]
    /\ Advance /\ UNCHANGED memory

------------------------------------------------------------------------------
(* Trust objects, custody, credentials *)

\* INSERT OR REPLACE by id: whatever had the id before is gone, its events,
\* its revocation and its credential stay.
InsertObject ==
    /\ pc = "objectRow"
    /\ db' = Row("trust_objects", call.obj,
                 [meta |-> call.meta, drift |-> FALSE, issuer |-> call.from, at |-> now,
                  subject |-> ContentHash(call, now).subject, owner |-> call.to,
                  hash |-> ContentHash(call, now), key |-> KeyOf(call.from),
                  status |-> "ACTIVE"])
    /\ Advance /\ UNCHANGED memory

\* The rowid SQLite gives a row that is inserted: above every other.
NextRowid(rows) ==
    IF DOMAIN rows = {} THEN 1
    ELSE 1 + CHOOSE i \in DOMAIN rows : \A j \in DOMAIN rows : j <= i

\* INSERT OR REPLACE by event id, which for a creation is the millisecond.
ReplaceEvent(events, e) ==
    Put([i \in {j \in DOMAIN events : events[j].id # e.id} |-> events[i]], NextRowid(events), e)

NewEvent ==
    [id |-> EventId, obj |-> call.obj, from |-> call.from, to |-> call.to, at |-> now,
     type |-> IF call.op = "transfer" THEN "TRANSFER" ELSE "CREATION",
     key |-> KeyOf(call.from)]

InsertEvent ==
    /\ pc = "eventRow"
    /\ Stored(call.obj)
    /\ call.op = "transfer" => call.complete
    /\ db' = [db EXCEPT !.provenance_events = ReplaceEvent(@, NewEvent)]
    /\ Advance /\ UNCHANGED memory

\* The event of an object without a row breaks the foreign key, one without
\* a description cannot be bound: the ledger has recorded it already.
EventRefused ==
    /\ pc = "eventRow" /\ call.op = "transfer"
    /\ ~Stored(call.obj) \/ ~call.complete
    /\ Abort

\* Mutant: the sender stays the owner.
SetOwnerSender ==
    /\ pc = "ownerColumn"
    /\ db' = [db EXCEPT !.trust_objects[call.obj].owner = call.from]
    /\ Advance /\ UNCHANGED memory

SetOwner ==
    /\ pc = "ownerColumn"
    /\ db' = [db EXCEPT !.trust_objects[call.obj].owner = call.to]
    /\ Advance /\ UNCHANGED memory

InsertOwnership ==
    /\ pc = "ownershipRow"
    /\ db' = [db EXCEPT !.ownership_events =
                Append(@, [id |-> EventId, obj |-> call.obj, from |-> call.from, to |-> call.to])]
    /\ Advance /\ UNCHANGED memory

\* INSERT OR REPLACE: the table is unique in the id (the millisecond), in the
\* object and in the serial number, and a conflict in any deletes the old row.
InsertCredential ==
    LET serial == SerialOf[call.meta]
        kept == {o \in DOMAIN db.credentials \ {call.obj} :
                    db.credentials[o].id # now /\ db.credentials[o].serial # serial}
    IN  /\ pc = "credentialRow" /\ call.complete
        /\ db' = [db EXCEPT !.credentials =
                    Put([o \in kept |-> @[o]], call.obj,
                        [id |-> now, serial |-> serial, hash |-> ContentHash(call, now)])]
        /\ Advance /\ UNCHANGED memory

\* The metadata of a degree without a graduation year passes validateMetadata
\* and cannot be bound.
CredentialRefused ==
    /\ pc = "credentialRow" /\ ~call.complete
    /\ Abort

------------------------------------------------------------------------------
(* Revocation, tampering, device audits *)

\* Mutant: the foreign key of a revocation is not enforced.
InsertRevocationUnchecked ==
    /\ pc = "revocationRow"
    /\ db' = Row("revocations", call.obj, [id |-> now, by |-> call.from])
    /\ Advance /\ UNCHANGED memory

\* INSERT OR REPLACE: unique in the id (the millisecond) and in the object.
InsertRevocation ==
    LET kept == {o \in DOMAIN db.revocations \ {call.obj} : db.revocations[o].id # now}
    IN  /\ pc = "revocationRow" /\ Stored(call.obj)
        /\ db' = [db EXCEPT !.revocations =
                    Put([o \in kept |-> @[o]], call.obj, [id |-> now, by |-> call.from])]
        /\ Advance /\ UNCHANGED memory

\* A proof whose object was never stored: the foreign key is broken.
RevocationRefused ==
    /\ pc = "revocationRow" /\ ~Stored(call.obj)
    /\ Abort

SetRevoked ==
    /\ pc = "statusColumn"
    /\ db' = [db EXCEPT !.trust_objects[call.obj].status = "REVOKED"]
    /\ Advance /\ UNCHANGED memory

InsertSecurityEvent ==
    /\ pc = "securityRow"
    /\ db' = [db EXCEPT !.security_events = Append(@, call.obj)]
    /\ Advance /\ UNCHANGED memory

\* simulateTamper; an audit adds the time it detected the drift.
SetMetadata ==
    /\ pc = "metadata"
    /\ db' = [db EXCEPT !.trust_objects[call.obj] =
                [@ EXCEPT !.meta = call.meta, !.drift = (call.op = "audit"),
                          !.status = "TAMPERED"]]
    /\ Advance /\ UNCHANGED memory

\* The seed writes a custody event two hours old, signed by nobody, straight
\* into the table.
InjectEvent ==
    /\ pc = "brokenEvent"
    /\ db' = [db EXCEPT !.provenance_events =
                ReplaceEvent(@, [id |-> <<"INJECTED", 0, 0>>, obj |-> call.obj,
                                 from |-> call.from, to |-> call.to, at |-> -1,
                                 type |-> "TRANSFER", key |-> NoKey])]
    /\ Advance /\ UNCHANGED memory

------------------------------------------------------------------------------
(* The process *)

\* Mutant: the server seeds whenever it starts.
StartServerAlwaysSeeds ==
    /\ mode = "down"
    /\ mode' = "starting" /\ pc' = Tables[1] /\ script' = SeedCalls
    /\ UNCHANGED <<call, db, memory, bounds>>

\* bootstrap: an empty trust_objects means a first launch.
StartServer ==
    /\ mode = "down"
    /\ mode' = "starting"
    /\ \/ /\ db.trust_objects = <<>>
          /\ pc' = Tables[1] /\ script' = SeedCalls
       \/ /\ db.trust_objects # <<>>
          /\ pc' = "notaryKeystore" /\ script' = <<>>
    /\ UNCHANGED <<call, db, memory, bounds>>

\* npm run seed, while no server runs.
StartSeedScript ==
    /\ mode = "down" /\ now < MaxTime
    /\ mode' = "seed script" /\ pc' = Tables[1] /\ script' = SeedCalls
    /\ UNCHANGED <<call, db, memory, bounds>>

DeleteTable ==
    /\ pc \in TableNames
    /\ db' = [db EXCEPT ![pc] = <<>>]
    /\ Advance /\ UNCHANGED memory

\* The constructor of the adapter: the notary's key is read or derived.
NotaryKeystore ==
    /\ pc = "notaryKeystore"
    /\ db' = IF Notary \in DOMAIN db.wallet_keystores THEN db
             ELSE Row("wallet_keystores", Notary, DerivedKey)
    /\ notary' = db'.wallet_keystores[Notary]
    /\ Advance /\ UNCHANGED chain

\* An identity row that is there is left alone, whatever its key.
NotaryIdentity ==
    /\ pc = "notaryIdentity"
    /\ db' = IF Notary \in DOMAIN db.identities THEN db ELSE Row("identities", Notary, notary)
    /\ Advance /\ UNCHANGED memory

\* Mutant: no genesis block for an empty table.
LoadLedger ==
    /\ pc = "ledger" /\ db.blockchain_blocks # <<>>
    /\ chain' = Load(db.blockchain_blocks, db.blockchain_transactions)
    /\ Advance /\ UNCHANGED <<db, notary>>

LoadOrInitLedger ==
    /\ pc = "ledger"
    /\ db' = IF db.blockchain_blocks # <<>> THEN db
             ELSE [db EXCEPT !.blockchain_blocks = <<Genesis(notary)>>]
    /\ chain' = Load(db'.blockchain_blocks, db.blockchain_transactions)
    /\ Advance /\ UNCHANGED notary

\* Each call of the seed falls in a millisecond of its own.  The code does not see to
\* that; two calls in one would share the ids that are made of the clock.
NextSeedCall ==
    /\ mode \in {"seed script", "starting"} /\ script # <<>>
    /\ Begin(Head(script))
    /\ script' = Tail(script)
    /\ now' = now + 1
    /\ UNCHANGED <<mode, db, memory, calls, crashes>>

\* The server listens; its own adapter loads the ledger the seed's adapter holds.
SeedDone ==
    /\ pc = "idle" /\ script = <<>>
    /\ \/ mode = "starting" /\ mode' = "serving" /\ UNCHANGED memory
       \/ mode = "seed script" /\ mode' = "down" /\ chain' = <<>> /\ notary' = NoKey
    /\ UNCHANGED <<pc, call, script, db, bounds>>

Request(c) ==
    /\ mode = "serving" /\ calls < MaxCalls /\ crashes.seeding = 0
    /\ Begin(c)
    /\ calls' = calls + 1
    /\ UNCHANGED <<mode, script, db, memory, now, crashes>>

\* The process dies, or is stopped, after any statement.
Crash ==
    /\ mode # "down" /\ Crashes < MaxCrashes
    /\ mode' = "down" /\ pc' = "idle" /\ call' = NoCall /\ script' = <<>>
    /\ chain' = <<>> /\ notary' = NoKey
    /\ crashes' = [crashes EXCEPT ![IF mode = "serving" THEN "serving" ELSE "seeding"] = @ + 1]
    /\ UNCHANGED <<db, now, calls>>

Tick ==
    /\ mode = "serving" /\ pc = "idle" /\ now < MaxTime
    /\ now' = now + 1
    /\ UNCHANGED <<mode, pc, call, script, db, memory, calls, crashes>>

Init ==
    /\ mode = "down" /\ pc = "idle" /\ call = NoCall /\ script = <<>>
    /\ db = EmptyDb
    /\ chain = <<>> /\ notary = NoKey
    /\ now = 0 /\ calls = 0 /\ crashes = [seeding |-> 0, serving |-> 0]

Statement ==
    \/ IdentityRow \/ KeystoreRow \/ DeriveKeystore \/ DeriveIdentity
    \/ MineBlock \/ RevokeUnknown \/ InsertTx
    \/ InsertObject \/ InsertEvent \/ EventRefused \/ SetOwner \/ InsertOwnership
    \/ InsertCredential \/ CredentialRefused
    \/ InsertRevocation \/ RevocationRefused \/ SetRevoked
    \/ InsertSecurityEvent \/ SetMetadata \/ InjectEvent
    \/ DeleteTable \/ NotaryKeystore \/ NotaryIdentity \/ LoadOrInitLedger

Process == StartServer \/ Statement \/ NextSeedCall \/ SeedDone

Next ==
    \/ Process
    \/ StartSeedScript
    \/ \E c \in ClientCalls : Request(c)
    \/ Crash
    \/ Tick

\* The container is restarted unless stopped (docker-compose.yml), and a process
\* that runs goes on.
Spec == Init /\ [][Next]_vars /\ WF_vars(Process)

------------------------------------------------------------------------------
(* Properties *)

\* The tables hold rows, the statement and the call fit each other, and the
\* process has its ledger in memory only while it runs.
TypeOK ==
    /\ mode \in Modes
    /\ pc = "idle" \/ pc \in DOMAIN NextPc(call) \cup {"deriveKeystore", "deriveIdentity"}
    /\ call \in Call \cup {NoCall}
    /\ script \in Seq(Call)
    /\ DOMAIN db = TableNames
    /\ DOMAIN db.trust_objects \subseteq Objects
    /\ DOMAIN db.revocations \subseteq DOMAIN db.trust_objects
    /\ DOMAIN db.credentials \subseteq DOMAIN db.trust_objects
    /\ DOMAIN db.identities \subseteq Dids /\ DOMAIN db.wallet_keystores \subseteq Dids
    /\ mode = "down" => pc = "idle" /\ script = <<>> /\ chain = <<>>
    /\ mode = "serving" => chain # <<>> /\ script = <<>>

\* The proofs the application holds are a trust registry: what clients call, in
\* whatever order, and wherever the process dies, each statement either anchors,
\* revokes, stores, clears or does nothing a reader of getProof could see.
Digests == [meta : Metadata, drift : {FALSE}, issuer : Dids, at : Nat, subject : Dids \cup Objects]

Proofs ==
    LET anchored == {id \in DOMAIN db.blockchain_transactions : ChangesStatus(id)}
    IN  [o \in {id[2] : id \in anchored} |-> Proof(db.blockchain_transactions, o)]

Registry == INSTANCE TrustRegistry WITH proof <- Proofs, stored <- DOMAIN db.trust_objects

ImplementsRegistry == Registry!Spec

Revoked(o) ==
    IsAnchored(db.blockchain_transactions, o)
    /\ Proof(db.blockchain_transactions, o).status = "REVOKED"

\* The three layers of a revocation, which three statements write: what the
\* status column or the revocations table says has its transaction on the ledger
\* (so that nothing is revoked which the ledger does not know), and an object the
\* ledger calls revoked is still ACTIVE in its row, where the passport looks, only
\* if the process died in revokeProof: otherwise no holder of a revoked claim counts
\* as fully verified, unless the row was tampered with since.
RevocationLayers ==
    /\ \A o \in DOMAIN db.trust_objects :
          db.trust_objects[o].status = "REVOKED" \/ o \in DOMAIN db.revocations =>
            \E id \in ProofTxs(db.blockchain_transactions, o) : id[1] = "REVOKE_PROOF"
    /\ Cardinality({o \in DOMAIN db.trust_objects :
                       Revoked(o) /\ db.trust_objects[o].status = "ACTIVE"
                       /\ ~(call # NoCall /\ call.obj = o)}) <= Crashes
    /\ pc = "idle" /\ Crashes = 0 =>
          \A o \in DOMAIN db.trust_objects :
              Revoked(o) /\ db.trust_objects[o].status # "TAMPERED" =>
                  ~IsFullyVerified(ClaimStatuses(db.trust_objects[o].subject))

\* A block and its transaction are two statements: every stored block has its
\* transaction, or a later block of the same millisecond has it, unless the process
\* died between the two (the seed clears the transactions before the blocks); no
\* block has the transaction of another, and a server that never died is healthy.
OnlyCrashesTearBlocks ==
    LET blocks == db.blockchain_blocks
        txs == db.blockchain_transactions
        inHand == IF pc \in {"registerTx", "eventTx", "revokeTx", "alertTx"}
                  THEN {Len(blocks)} ELSE {}
        torn == {i \in 2..Len(blocks) : blocks[i].root \notin DOMAIN txs} \ inHand
    IN  /\ \A id \in DOMAIN txs : txs[id].height + 1 \in 2..Len(blocks)
                                /\ blocks[txs[id].height + 1].root = id
        /\ txs # <<>> => Cardinality(torn) <= Crashes
        /\ mode = "serving" /\ Crashes = 0 => Healthy

\* Wallet and identity of a did are two statements as well: the key a did signs
\* with is the one its identity publishes, unless the process died between them.
OnlyCrashesSplitKeys ==
    LET inHand == IF call # NoCall THEN {call.from}
                  ELSE IF pc = "notaryIdentity" THEN {Notary} ELSE {}
        split == {d \in DOMAIN db.wallet_keystores : ~SignedBy(db.identities, d, KeyOf(d))}
    IN  Cardinality(split \ inHand) <= Crashes

\* The owner column follows the custody chain: when the last event of an object is
\* a transfer made after the object and the ownership table has it, its receiver is
\* the owner.
OwnerFollowsCustody ==
    \A o \in DOMAIN db.trust_objects :
        LET events == Provenance(o)
        IN  \A i \in DOMAIN events :
                /\ \A j \in DOMAIN events : ~Precedes(events, i, j)
                /\ events[i].type = "TRANSFER" /\ events[i].at > db.trust_objects[o].at
                /\ \E k \in DOMAIN db.ownership_events : db.ownership_events[k].id = events[i].id
                => db.trust_objects[o].owner = events[i].to

\* An object that is not accepted is scored as a risk, ELEVATED at the least,
\* whatever else the engine counts; but for one the ledger rejects.
UntrustedIsRisky ==
    mode = "serving" /\ pc = "idle" =>
        \A o \in DOMAIN db.trust_objects :
            LET facts == FactsOf(o)
            IN  OverallStatus(facts) \notin {"AUTHENTIC", "CONSENSUS_REJECTED"} =>
                    \A c \in Counts : RiskLevel(RiskScore(facts, c)) # "LOW"

\* The seed leaves the attack of each demo scenario detected and its genuine
\* counterpart accepted.
DemoScenariosDetected ==
    mode = "serving" /\ calls = 0 /\ Crashes = 0 /\ now = Len(SeedCalls) =>
        \A s \in Scenarios : Verdict(s.target) = s.expected
                             /\ Verdict(s.comparison) = "AUTHENTIC"

\* While the server serves, a request for one object changes the verdict on another
\* only by replacing a row whose id is the millisecond, or by a new key of the one
\* who signed it; reading is what the verdict on an object otherwise rests on.
RequestsAreIsolated ==
    [][ mode = "serving" /\ mode' = "serving" /\ db' # db =>
          \A o \in DOMAIN db.trust_objects :
              Verdict(o)' # Verdict(o) =>
                \/ call.obj = o
                \/ pc \in {"identityRow", "deriveIdentity"}
                \/ pc = "eventRow" /\ call.op # "transfer"
                   /\ \E i \in DOMAIN Provenance(o) : Provenance(o)[i].id = EventId
                \/ pc = "revocationRow" /\ o \in DOMAIN db.revocations
                                       /\ db.revocations[o].id = now ]_vars

\* A stored object stays stored, whatever clients do and however often the server is
\* restarted; only the seed script, run by hand, takes it away.
RestartKeepsObjects ==
    [][ mode # "seed script" => DOMAIN db.trust_objects \subseteq DOMAIN db.trust_objects' ]_vars

\* A server that is down serves again, from whatever tables it finds.
EventuallyServing == mode = "down" ~> mode = "serving"
==============================================================================
