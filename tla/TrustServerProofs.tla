-------------------------- MODULE TrustServerProofs --------------------------
(***************************************************************************)
(* The application, for every seed, every set of requests and any number   *)
(* of them, wherever the process dies: its types, that a restart keeps     *)
(* the stored objects, that the proofs of the ledger are a trust registry, *)
(* that only a crash tears a block or splits a key, that a revocation is   *)
(* on the ledger before it is in the tables, that an object that fails its  *)
(* verification is never of low risk, that the owner column follows the     *)
(* custody chain, and that a request touches the verdict on one object.     *)
(***************************************************************************)
EXTENDS TrustServer, GreatestElement, SequenceTheorems, FiniteSetTheorems

TxStatements == {"registerTx", "eventTx", "revokeTx", "alertTx"}

\* The statements of a call, and those of the constructor of the adapter.
CallStatements ==
    {"deriveKeystore", "deriveIdentity", "identityRow", "keystoreRow", "registerBlock",
     "objectRow", "eventBlock", "eventRow", "credentialRow", "ownerColumn", "ownershipRow",
     "revokeBlock", "revocationRow", "statusColumn", "alertBlock", "securityRow", "metadata",
     "brokenEvent"} \cup TxStatements

StartStatements == {"notaryKeystore", "notaryIdentity", "ledger"}

\* The deletions of the seed up to the one of the objects.
UpToObjects ==
    {"security_events", "revocations", "ownership_events", "provenance_events", "credentials",
     "trust_objects"}

ControlTyped ==
    /\ mode \in Modes
    /\ pc \in {"idle"} \cup TableNames \cup StartStatements \cup CallStatements
    /\ pc \in CallStatements => call \in Call
    /\ script \in Seq(Call)
    /\ now \in Nat

\* Tables are deleted by the seed only, the server's own seed finds no object, the
\* transactions go after the objects and the blocks after the transactions.
DeletedInOrder ==
    /\ pc \in TableNames => mode \in {"starting", "seed script"}
    /\ pc \in UpToObjects /\ mode = "starting" => DOMAIN db.trust_objects = {}
    /\ pc = "blockchain_transactions" => DOMAIN db.trust_objects = {}
    /\ pc = "blockchain_blocks" => DOMAIN db.blockchain_transactions = {}

IsSequence(s) == s \in Seq({s[i] : i \in DOMAIN s})

\* A transaction is stored at the height of the block that was mined for it.
Linked(blocks, txs) ==
    /\ IsSequence(blocks)
    /\ \A id \in DOMAIN txs : /\ txs[id].height \in Int
                              /\ txs[id].height + 1 \in 1..Len(blocks)
                              /\ blocks[txs[id].height + 1].root = id

TablesTyped ==
    /\ DOMAIN db = TableNames
    /\ Linked(db.blockchain_blocks, db.blockchain_transactions)

\* What the statements before the next one of a call have done: its block is the
\* last one, the object to revoke or to store is anchored.
CallOnItsWay ==
    /\ pc \in TxStatements =>
          /\ Len(db.blockchain_blocks) >= 1
          /\ db.blockchain_blocks[Len(db.blockchain_blocks)].root = TxId(TxKind(pc))
    /\ pc \in {"revokeTx", "objectRow"} => IsAnchored(db.blockchain_transactions, call.obj)

IInv == ControlTyped /\ DeletedInOrder /\ TablesTyped /\ CallOnItsWay

\* A step that leaves the ledger's tables alone, and the set of stored objects.
LedgerQuiet ==
    /\ DOMAIN db' = TableNames
    /\ db'.blockchain_blocks = db.blockchain_blocks
    /\ db'.blockchain_transactions = db.blockchain_transactions

Quiet == LedgerQuiet /\ DOMAIN db'.trust_objects = DOMAIN db.trust_objects

\* A step that leads to none of the statements the invariant tells something about.
Elsewhere ==
    /\ ControlTyped'
    /\ pc' \notin TableNames \cup TxStatements \cup {"objectRow"}

------------------------------------------------------------------------------
(* The names of the statements *)

LEMMA TableNamesAre ==
    TableNames = UpToObjects \cup {"blockchain_transactions", "blockchain_blocks",
                                   "wallet_keystores", "identities"}
<1>1. DOMAIN Tables = 1..10
  BY DEF Tables
<1>2. \A i \in 1..10 : Tables[i] \in UpToObjects \cup {"blockchain_transactions",
                            "blockchain_blocks", "wallet_keystores", "identities"}
  BY DEF Tables, UpToObjects
<1>3. /\ Tables[1] = "security_events" /\ Tables[2] = "revocations"
      /\ Tables[3] = "ownership_events" /\ Tables[4] = "provenance_events"
      /\ Tables[5] = "credentials" /\ Tables[6] = "trust_objects"
      /\ Tables[7] = "blockchain_transactions" /\ Tables[8] = "blockchain_blocks"
      /\ Tables[9] = "wallet_keystores" /\ Tables[10] = "identities"
  BY DEF Tables
<1>4. \A i \in 1..10 : Tables[i] \in TableNames
  BY <1>1 DEF TableNames
<1>5. UpToObjects \cup {"blockchain_transactions", "blockchain_blocks", "wallet_keystores",
                        "identities"} \subseteq TableNames
  BY <1>3, <1>4 DEF UpToObjects
<1>6. QED BY <1>1, <1>2, <1>5 DEF TableNames

LEMMA NextTable ==
    ASSUME NEW c
    PROVE  /\ NextPc(c)["security_events"] = "revocations"
           /\ NextPc(c)["revocations"] = "ownership_events"
           /\ NextPc(c)["ownership_events"] = "provenance_events"
           /\ NextPc(c)["provenance_events"] = "credentials"
           /\ NextPc(c)["credentials"] = "trust_objects"
           /\ NextPc(c)["trust_objects"] = "blockchain_transactions"
           /\ NextPc(c)["blockchain_transactions"] = "blockchain_blocks"
           /\ NextPc(c)["blockchain_blocks"] = "wallet_keystores"
           /\ NextPc(c)["wallet_keystores"] = "identities"
           /\ NextPc(c)["identities"] = "notaryKeystore"
  BY DEF NextPc

LEMMA NextStart ==
    ASSUME NEW c
    PROVE  /\ NextPc(c)["notaryKeystore"] = "notaryIdentity"
           /\ NextPc(c)["notaryIdentity"] = "ledger"
           /\ NextPc(c)["ledger"] = "idle"
  BY DEF NextPc

LEMMA NextBlock ==
    ASSUME NEW c
    PROVE  /\ NextPc(c)["registerBlock"] = "registerTx" /\ NextPc(c)["eventBlock"] = "eventTx"
           /\ NextPc(c)["revokeBlock"] = "revokeTx" /\ NextPc(c)["alertBlock"] = "alertTx"
  BY DEF NextPc

LEMMA NextTx ==
    ASSUME NEW c
    PROVE  /\ NextPc(c)["registerTx"] = "objectRow" /\ NextPc(c)["eventTx"] = "eventRow"
           /\ NextPc(c)["revokeTx"] = "revocationRow" /\ NextPc(c)["alertTx"] = "securityRow"
  BY DEF NextPc

LEMMA NextRow ==
    ASSUME NEW c
    PROVE  /\ NextPc(c)["identityRow"] = "keystoreRow" /\ NextPc(c)["keystoreRow"] = "idle"
           /\ NextPc(c)["objectRow"] = "eventBlock"
           /\ NextPc(c)["eventRow"] \in {"credentialRow", "ownerColumn", "idle"}
           /\ NextPc(c)["credentialRow"] = "idle"
           /\ NextPc(c)["ownerColumn"] = "ownershipRow" /\ NextPc(c)["ownershipRow"] = "idle"
           /\ NextPc(c)["revocationRow"] = "statusColumn"
           /\ NextPc(c)["statusColumn"] = "idle"
           /\ NextPc(c)["securityRow"] = "metadata" /\ NextPc(c)["metadata"] = "idle"
           /\ NextPc(c)["brokenEvent"] = "idle"
  BY DEF NextPc

LEMMA FirstStatement ==
    ASSUME NEW c \in Call
    PROVE  FirstPc(c.op) \in {"identityRow", "registerBlock", "eventBlock", "revokeBlock",
                              "alertBlock", "metadata", "brokenEvent"}
  BY DEF FirstPc, Call

------------------------------------------------------------------------------
(* The quiet steps *)

\* Writing another table.
LEMMA OtherTable ==
    ASSUME DOMAIN db = TableNames,
           NEW t \in TableNames \ {"blockchain_blocks", "blockchain_transactions",
                                   "trust_objects"},
           NEW rows, db' = [db EXCEPT ![t] = rows]
    PROVE  Quiet
  BY TableNamesAre DEF Quiet, LedgerQuiet, UpToObjects

LEMMA SameTables == ASSUME DOMAIN db = TableNames, db' = db PROVE Quiet
  BY DEF Quiet, LedgerQuiet

\* Changing a column of the row of an object.
LEMMA SameObjects ==
    ASSUME DOMAIN db = TableNames, NEW rows, DOMAIN rows = DOMAIN db.trust_objects,
           db' = [db EXCEPT !["trust_objects"] = rows]
    PROVE  Quiet
  BY TableNamesAre DEF Quiet, LedgerQuiet, UpToObjects

\* What a quiet step that leads elsewhere does to the invariant.
LEMMA QuietKeepsInv == ASSUME IInv, LedgerQuiet, Elsewhere PROVE IInv'
<1>1. DeletedInOrder'
  BY TableNamesAre DEF Elsewhere, DeletedInOrder, UpToObjects
<1>2. TablesTyped'
  BY DEF IInv, TablesTyped, LedgerQuiet
<1>3. CallOnItsWay'
  BY DEF Elsewhere, CallOnItsWay, TxStatements
<1>4. QED BY <1>1, <1>2, <1>3 DEF IInv, Elsewhere

\* A statement of a call that is over or goes on.
LEMMA GoesOn ==
    ASSUME ControlTyped, NEW next \in CallStatements \cup StartStatements \cup {"idle"},
           next \notin TxStatements \cup {"objectRow"},
           next \in CallStatements => call \in Call,
           GoTo(next), UNCHANGED <<mode, script, bounds>>
    PROVE  Elsewhere
<1>1. pc' = next /\ (next # "idle" => call' = call)
  BY DEF GoTo
<1>2. pc' \in CallStatements => call' \in Call
  BY <1>1 DEF CallStatements, TxStatements
<1>3. pc' \notin TableNames
  BY <1>1, TableNamesAre DEF CallStatements, StartStatements, TxStatements, UpToObjects
<1>4. ControlTyped'
  BY <1>1, <1>2 DEF ControlTyped, bounds
<1>5. QED BY <1>1, <1>3, <1>4 DEF Elsewhere

\* The statements that write one of the other tables, or a column.
QuietStatement ==
    \/ IdentityRow \/ KeystoreRow \/ DeriveKeystore \/ DeriveIdentity
    \/ RevokeUnknown \/ InsertEvent \/ EventRefused \/ SetOwner \/ InsertOwnership
    \/ InsertCredential \/ CredentialRefused
    \/ InsertRevocation \/ RevocationRefused \/ SetRevoked
    \/ InsertSecurityEvent \/ SetMetadata \/ InjectEvent
    \/ NotaryKeystore \/ NotaryIdentity

LEMMA QuietStatementQuiet == ASSUME IInv, QuietStatement PROVE Quiet
<1> DOMAIN db = TableNames BY DEF IInv, TablesTyped
<1>1. CASE IdentityRow
  BY <1>1, OtherTable, TableNamesAre DEF IdentityRow, Row
<1>2. CASE KeystoreRow
  BY <1>2, OtherTable, TableNamesAre DEF KeystoreRow, Row
<1>3. CASE DeriveKeystore
  BY <1>3, OtherTable, TableNamesAre DEF DeriveKeystore, Row
<1>4. CASE DeriveIdentity
  BY <1>4, OtherTable, TableNamesAre DEF DeriveIdentity, Row
<1>5. CASE RevokeUnknown \/ EventRefused \/ CredentialRefused \/ RevocationRefused
  BY <1>5, SameTables
     DEF RevokeUnknown, EventRefused, CredentialRefused, RevocationRefused, Abort
<1>6. CASE InsertEvent
  BY <1>6, OtherTable, TableNamesAre DEF InsertEvent, UpToObjects
<1>7. CASE SetOwner
  <2> DEFINE rows == [db.trust_objects EXCEPT ![call.obj] = [@ EXCEPT !.owner = call.to]]
  <2>1. db' = [db EXCEPT !["trust_objects"] = rows]
    BY <1>7 DEF SetOwner
  <2>2. DOMAIN rows = DOMAIN db.trust_objects
    OBVIOUS
  <2> HIDE DEF rows
  <2>3. QED BY <2>1, <2>2, SameObjects
<1>8. CASE InsertOwnership
  BY <1>8, OtherTable, TableNamesAre DEF InsertOwnership, UpToObjects
<1>9. CASE InsertCredential
  BY <1>9, OtherTable, TableNamesAre DEF InsertCredential, UpToObjects
<1>10. CASE InsertRevocation
  BY <1>10, OtherTable, TableNamesAre DEF InsertRevocation, UpToObjects
<1>11. CASE SetRevoked
  <2> DEFINE rows == [db.trust_objects EXCEPT ![call.obj] = [@ EXCEPT !.status = "REVOKED"]]
  <2>1. db' = [db EXCEPT !["trust_objects"] = rows]
    BY <1>11 DEF SetRevoked
  <2>2. DOMAIN rows = DOMAIN db.trust_objects
    OBVIOUS
  <2> HIDE DEF rows
  <2>3. QED BY <2>1, <2>2, SameObjects
<1>12. CASE InsertSecurityEvent
  BY <1>12, OtherTable, TableNamesAre DEF InsertSecurityEvent, UpToObjects
<1>13. CASE SetMetadata
  <2> DEFINE rows == [db.trust_objects EXCEPT ![call.obj] =
                        [@ EXCEPT !.meta = call.meta, !.drift = (call.op = "audit"),
                                  !.status = "TAMPERED"]]
  <2>1. db' = [db EXCEPT !["trust_objects"] = rows]
    BY <1>13 DEF SetMetadata
  <2>2. DOMAIN rows = DOMAIN db.trust_objects
    OBVIOUS
  <2> HIDE DEF rows
  <2>3. QED BY <2>1, <2>2, SameObjects
<1>14. CASE InjectEvent
  BY <1>14, OtherTable, TableNamesAre DEF InjectEvent, UpToObjects
<1>15. CASE NotaryKeystore
  BY <1>15, OtherTable, SameTables, TableNamesAre DEF NotaryKeystore, Row
<1>16. CASE NotaryIdentity
  BY <1>16, OtherTable, SameTables, TableNamesAre DEF NotaryIdentity, Row
<1>17. QED BY <1>1, <1>2, <1>3, <1>4, <1>5, <1>6, <1>7, <1>8, <1>9, <1>10, <1>11, <1>12,
              <1>13, <1>14, <1>15, <1>16 DEF QuietStatement

LEMMA QuietStatementElsewhere == ASSUME IInv, QuietStatement PROVE Elsewhere
<1> ControlTyped
  BY DEF IInv
<1> DEFINE calm == (CallStatements \cup StartStatements \cup {"idle"})
                      \ (TxStatements \cup {"objectRow"})
<1>a. ASSUME Abort PROVE Elsewhere
  <2>1. "idle" \in calm \ CallStatements
    BY DEF CallStatements, TxStatements
  <2>2. GoTo("idle") /\ UNCHANGED <<mode, script, bounds>>
    BY <1>a DEF Abort
  <2>3. QED BY <2>1, <2>2, GoesOn
<1>b. ASSUME pc \in CallStatements \cup StartStatements,
             NextPc(call)[pc] \in calm,
             NextPc(call)[pc] \in CallStatements => pc \in CallStatements, Advance
      PROVE  Elsewhere
  <2>1. NextPc(call)[pc] \in CallStatements => call \in Call
    BY <1>b DEF ControlTyped
  <2>2. GoTo(NextPc(call)[pc]) /\ UNCHANGED <<mode, script, bounds>>
    BY <1>b DEF Advance
  <2>3. QED BY <1>b, <2>1, <2>2, GoesOn
<1>1. CASE DeriveKeystore
  <2>1. GoTo("deriveIdentity") /\ UNCHANGED <<mode, script, bounds>> /\ pc = "deriveKeystore"
    BY <1>1 DEF DeriveKeystore
  <2>2. "deriveIdentity" \in calm /\ call \in Call
    BY <2>1 DEF ControlTyped, CallStatements, TxStatements
  <2>3. QED BY <2>1, <2>2, GoesOn
<1>2. CASE DeriveIdentity
  <2>1. GoTo(FirstPc(call.op)) /\ UNCHANGED <<mode, script, bounds>> /\ pc = "deriveIdentity"
    BY <1>2 DEF DeriveIdentity
  <2>2. call \in Call
    BY <2>1 DEF ControlTyped, CallStatements
  <2>3. FirstPc(call.op) \in calm
    BY <2>2, FirstStatement DEF CallStatements, TxStatements
  <2>4. QED BY <2>1, <2>2, <2>3, GoesOn
<1>3. CASE RevokeUnknown \/ EventRefused \/ CredentialRefused \/ RevocationRefused
  BY <1>3, <1>a DEF RevokeUnknown, EventRefused, CredentialRefused, RevocationRefused
<1>4. CASE \/ IdentityRow \/ KeystoreRow \/ InsertEvent \/ SetOwner \/ InsertOwnership
           \/ InsertCredential \/ InsertRevocation \/ SetRevoked \/ InsertSecurityEvent
           \/ SetMetadata \/ InjectEvent
  <2>1. /\ Advance
        /\ pc \in {"identityRow", "keystoreRow", "eventRow", "ownerColumn", "ownershipRow",
                   "credentialRow", "revocationRow", "statusColumn", "securityRow",
                   "metadata", "brokenEvent"}
    BY <1>4 DEF IdentityRow, KeystoreRow, InsertEvent, SetOwner, InsertOwnership,
                InsertCredential, InsertRevocation, SetRevoked, InsertSecurityEvent,
                SetMetadata, InjectEvent
  <2>2. NextPc(call)[pc] \in {"keystoreRow", "idle", "credentialRow", "ownerColumn",
                              "ownershipRow", "statusColumn", "metadata"}
    BY <2>1, NextRow
  <2>3. NextPc(call)[pc] \in calm /\ pc \in CallStatements
    BY <2>1, <2>2 DEF CallStatements, TxStatements
  <2>4. QED BY <2>1, <2>3, <1>b
<1>5. CASE NotaryKeystore \/ NotaryIdentity
  <2>1. Advance /\ pc \in {"notaryKeystore", "notaryIdentity"}
    BY <1>5 DEF NotaryKeystore, NotaryIdentity
  <2>2. NextPc(call)[pc] \in {"notaryIdentity", "ledger"}
    BY <2>1, NextStart
  <2>3. NextPc(call)[pc] \in calm \ CallStatements /\ pc \in StartStatements
    BY <2>1, <2>2 DEF CallStatements, StartStatements, TxStatements
  <2>4. QED BY <2>1, <2>3, <1>b
<1>6. QED BY <1>1, <1>2, <1>3, <1>4, <1>5 DEF QuietStatement

\* What clients, the clock, the seed's list and the end of the process do.
Around ==
    \/ \E c \in ClientCalls : Request(c)
    \/ NextSeedCall \/ SeedDone \/ Crash \/ Tick

LEMMA BeginsElsewhere ==
    ASSUME NEW c \in Call, Begin(c)
    PROVE  /\ pc' \in CallStatements \ (TxStatements \cup {"objectRow"})
           /\ call' \in Call
<1>1. FirstPc(c.op) \in CallStatements \ (TxStatements \cup {"objectRow"})
  BY FirstStatement DEF CallStatements, TxStatements
<1>2. QED BY <1>1 DEF Begin, CallStatements, TxStatements

LEMMA AroundQuiet == ASSUME IInv, Around PROVE Quiet /\ Elsewhere
<1>1. DOMAIN db = TableNames /\ ControlTyped
  BY DEF IInv, TablesTyped
<1>2. db' = db
  BY DEF Around, Request, NextSeedCall, SeedDone, Crash, Tick
<1>3. Quiet
  BY <1>1, <1>2, SameTables
<1>4. "idle" \notin TableNames \cup TxStatements \cup {"objectRow"}
  BY TableNamesAre DEF UpToObjects, TxStatements
<1>a. ASSUME pc' \in CallStatements \ (TxStatements \cup {"objectRow"})
      PROVE  pc' \notin TableNames \cup TxStatements \cup {"objectRow"}
  BY <1>a, TableNamesAre DEF CallStatements, TxStatements, UpToObjects
<1>5. ASSUME NEW c \in ClientCalls, Request(c) PROVE Elsewhere
  <2>1. c \in Call
    BY ServerAssumption
  <2>2. Begin(c) /\ UNCHANGED <<mode, script, now>>
    BY <1>5 DEF Request
  <2>3. /\ pc' \in CallStatements \ (TxStatements \cup {"objectRow"})
        /\ call' \in Call
    BY <2>1, <2>2, BeginsElsewhere
  <2>4. ControlTyped'
    BY <1>1, <2>2, <2>3 DEF ControlTyped
  <2>5. QED BY <1>a, <2>3, <2>4 DEF Elsewhere
<1>6. CASE NextSeedCall
  <2>1. script # <<>> /\ script \in Seq(Call)
    BY <1>1, <1>6 DEF NextSeedCall, ControlTyped
  <2>2. Head(script) \in Call /\ Tail(script) \in Seq(Call)
    BY <2>1
  <2>3. Begin(Head(script)) /\ script' = Tail(script) /\ now' = now + 1 /\ mode' = mode
    BY <1>6 DEF NextSeedCall
  <2>4. now' \in Nat
    BY <1>1, <2>3 DEF ControlTyped
  <2>5. /\ pc' \in CallStatements \ (TxStatements \cup {"objectRow"})
        /\ call' \in Call
    BY <2>2, <2>3, BeginsElsewhere
  <2>6. ControlTyped'
    BY <1>1, <2>2, <2>3, <2>4, <2>5 DEF ControlTyped
  <2>7. QED BY <1>3, <1>a, <2>5, <2>6 DEF Elsewhere
<1>b. ASSUME pc' = "idle", mode' \in Modes, script' \in Seq(Call), now' \in Nat
      PROVE  Elsewhere
  <2>1. "idle" \notin CallStatements
    BY DEF CallStatements, TxStatements
  <2>2. ControlTyped'
    BY <1>b, <2>1 DEF ControlTyped
  <2>3. QED BY <1>b, <1>4, <2>2 DEF Elsewhere
<1>7. CASE SeedDone
  <2>1. pc' = "idle" /\ script' = script /\ now' = now /\ mode' \in {"serving", "down"}
    BY <1>7 DEF SeedDone, bounds
  <2>2. QED BY <1>1, <1>3, <1>b, <2>1 DEF ControlTyped, Modes
<1>8. CASE Crash
  <2>1. pc' = "idle" /\ script' = <<>> /\ now' = now /\ mode' = "down"
    BY <1>8 DEF Crash
  <2>2. script' \in Seq(Call)
    BY <2>1
  <2>3. QED BY <1>1, <1>3, <1>b, <2>1, <2>2 DEF ControlTyped, Modes
<1>9. CASE Tick
  <2>1. pc' = "idle" /\ script' = script /\ now' = now + 1 /\ mode' = mode
    BY <1>9 DEF Tick
  <2>2. now' \in Nat
    BY <1>1, <2>1 DEF ControlTyped
  <2>3. QED BY <1>1, <1>3, <1>b, <2>1, <2>2 DEF ControlTyped
<1>10. QED BY <1>3, <1>5, <1>6, <1>7, <1>8, <1>9 DEF Around

------------------------------------------------------------------------------
(* The other steps *)

LEMMA NothingOnItsWay == ASSUME pc' \notin CallStatements PROVE CallOnItsWay'
<1>1. pc' \notin TxStatements /\ pc' \notin {"revokeTx", "objectRow"}
  BY DEF CallStatements, TxStatements
<1>2. QED BY <1>1 DEF CallOnItsWay

LEMMA Starts == ASSUME IInv, StartServer \/ StartSeedScript PROVE IInv' /\ Quiet
<1>1. DOMAIN db = TableNames /\ ControlTyped /\ TablesTyped
  BY DEF IInv, TablesTyped
<1>2. db' = db /\ now' = now /\ mode' \in {"starting", "seed script"}
  BY DEF StartServer, StartSeedScript, bounds
<1>3. Quiet
  BY <1>1, <1>2, SameTables
<1>4. TablesTyped'
  BY <1>1, <1>3 DEF TablesTyped, Quiet, LedgerQuiet
<1>5. \/ /\ pc' = "security_events" /\ script' = SeedCalls
         /\ mode' = "starting" => db.trust_objects = <<>>
      \/ pc' = "notaryKeystore" /\ script' = <<>>
  BY DEF StartServer, StartSeedScript, Tables
<1>6. /\ pc' \in TableNames \cup StartStatements
      /\ pc' \notin CallStatements
      /\ pc' \notin {"blockchain_transactions", "blockchain_blocks"}
  BY <1>5, TableNamesAre DEF StartStatements, CallStatements, TxStatements, UpToObjects
<1>7. ControlTyped'
  <2>1. script' \in Seq(Call)
    <3>1. <<>> \in Seq(Call) /\ SeedCalls \in Seq(Call)
      BY ServerAssumption
    <3>2. QED BY <1>5, <3>1
  <2>2. mode' \in Modes /\ now' \in Nat
    BY <1>1, <1>2 DEF ControlTyped, Modes
  <2>3. QED BY <1>6, <2>1, <2>2 DEF ControlTyped
<1>8. DeletedInOrder'
  <2>1. pc' \in UpToObjects => pc' = "security_events"
    BY <1>5 DEF UpToObjects
  <2>2. pc' = "security_events" /\ mode' = "starting" => DOMAIN db'.trust_objects = {}
    BY <1>2, <1>5
  <2>3. QED BY <1>2, <1>6, <2>1, <2>2 DEF DeletedInOrder
<1>9. CallOnItsWay'
  BY <1>6, NothingOnItsWay
<1>10. QED BY <1>3, <1>4, <1>7, <1>8, <1>9 DEF IInv

\* The table that is deleted, and the next one.
LEMMA Deletes ==
    ASSUME IInv, DeleteTable
    PROVE  /\ IInv'
           /\ DOMAIN db' = TableNames /\ db'[pc] = <<>>
           /\ \A t \in TableNames \ {pc} : db'[t] = db[t]
<1>1. DOMAIN db = TableNames /\ ControlTyped /\ TablesTyped /\ DeletedInOrder
  BY DEF IInv, TablesTyped
<1>2. pc \in TableNames /\ db' = [db EXCEPT ![pc] = <<>>] /\ Advance
  BY DEF DeleteTable
<1>3. /\ DOMAIN db' = TableNames /\ db'[pc] = <<>>
      /\ \A t \in TableNames \ {pc} : db'[t] = db[t]
  BY <1>1, <1>2
<1>4. pc' = NextPc(call)[pc] /\ UNCHANGED <<mode, script, now>>
  BY <1>2 DEF Advance, GoTo, bounds
<1>5. mode \in {"starting", "seed script"}
  BY <1>1, <1>2 DEF DeletedInOrder
<1>a. DOMAIN <<>> = {}
  OBVIOUS
<1>6. /\ pc' \in TableNames \cup {"notaryKeystore"}
      /\ pc' \notin CallStatements \cup {"security_events"}
      /\ pc' = "blockchain_transactions" => pc = "trust_objects"
      /\ pc' = "blockchain_blocks" => pc = "blockchain_transactions"
      /\ pc' \in UpToObjects => pc \in UpToObjects \ {"trust_objects"}
  BY <1>2, <1>4, TableNamesAre, NextTable
     DEF UpToObjects, CallStatements, TxStatements
<1>7. ControlTyped'
  BY <1>1, <1>4, <1>6 DEF ControlTyped, StartStatements
<1>8. DeletedInOrder'
  <2>1. pc' \in UpToObjects /\ mode' = "starting" => DOMAIN db'.trust_objects = {}
    BY <1>1, <1>3, <1>4, <1>6, TableNamesAre DEF DeletedInOrder, UpToObjects
  <2>2. pc' = "blockchain_transactions" => DOMAIN db'.trust_objects = {}
    BY <1>3, <1>a, <1>6, TableNamesAre
  <2>3. pc' = "blockchain_blocks" => DOMAIN db'.blockchain_transactions = {}
    BY <1>3, <1>a, <1>6, TableNamesAre
  <2>4. QED BY <1>4, <1>5, <2>1, <2>2, <2>3 DEF DeletedInOrder
<1>9. TablesTyped'
  <2>1. CASE pc = "blockchain_transactions"
    <3>1. DOMAIN db'.blockchain_transactions = {}
          /\ db'.blockchain_blocks = db.blockchain_blocks
      BY <1>3, <1>a, <2>1, TableNamesAre
    <3>2. QED BY <1>1, <1>3, <3>1 DEF TablesTyped, Linked
  <2>2. CASE pc = "blockchain_blocks"
    <3>1. DOMAIN db'.blockchain_transactions = {} /\ db'.blockchain_blocks = <<>>
      BY <1>1, <1>3, <2>2, TableNamesAre DEF DeletedInOrder
    <3>2. IsSequence(<<>>)
      BY DEF IsSequence
    <3>3. QED BY <1>3, <3>1, <3>2 DEF TablesTyped, Linked
  <2>3. CASE pc \notin {"blockchain_transactions", "blockchain_blocks"}
    <3>1. db'.blockchain_transactions = db.blockchain_transactions
          /\ db'.blockchain_blocks = db.blockchain_blocks
      BY <1>3, <2>3, TableNamesAre
    <3>2. QED BY <1>1, <1>3, <3>1 DEF TablesTyped
  <2>4. QED BY <2>1, <2>2, <2>3
<1>10. CallOnItsWay'
  BY <1>6, NothingOnItsWay
<1>11. QED BY <1>3, <1>7, <1>8, <1>9, <1>10 DEF IInv

LEMMA SequenceOfOwn ==
    ASSUME NEW S, NEW t \in Seq(S)
    PROVE  t \in Seq({t[i] : i \in DOMAIN t})
<1> DEFINE n == Len(t)
           E == {t[i] : i \in DOMAIN t}
<1>1. n \in Nat /\ DOMAIN t = 1..n /\ t \in [1..n -> S]
  OBVIOUS
<1>2. \A i \in 1..n : t[i] \in E
  BY <1>1
<1> HIDE DEF n, E
<1>3. t \in [1..n -> E]
  BY <1>1, <1>2
<1>4. t \in Seq(E)
  BY <1>1, <1>3, SeqDef
<1>5. QED BY <1>4 DEF E

LEMMA Appended ==
    ASSUME NEW s, IsSequence(s), NEW e
    PROVE  /\ IsSequence(Append(s, e)) /\ Len(s) \in Nat /\ Len(Append(s, e)) = Len(s) + 1
           /\ \A i \in 1..Len(s) : Append(s, e)[i] = s[i]
           /\ Append(s, e)[Len(s) + 1] = e
<1> DEFINE S == {s[i] : i \in DOMAIN s} \cup {e}
           t == Append(s, e)
<1>1. s \in Seq(S) /\ e \in S
  BY DEF IsSequence
<1> HIDE DEF S
<1>2. /\ t \in Seq(S) /\ Len(s) \in Nat /\ Len(t) = Len(s) + 1
      /\ \A i \in 1..Len(s) : t[i] = s[i]
      /\ t[Len(s) + 1] = e
  BY <1>1
<1>3. t \in Seq({t[i] : i \in DOMAIN t})
  BY <1>2, SequenceOfOwn
<1>4. QED BY <1>2, <1>3 DEF IsSequence

LEMMA KindOf ==
    /\ TxKind("registerBlock") = "REGISTER_PROOF" /\ TxKind("registerTx") = "REGISTER_PROOF"
    /\ TxKind("eventBlock") = "RECORD_PROVENANCE" /\ TxKind("eventTx") = "RECORD_PROVENANCE"
    /\ TxKind("revokeBlock") = "REVOKE_PROOF" /\ TxKind("revokeTx") = "REVOKE_PROOF"
    /\ TxKind("alertBlock") = "SECURITY_ALERT" /\ TxKind("alertTx") = "SECURITY_ALERT"
  BY DEF TxKind

LEMMA SameTxId ==
    ASSUME NEW kind, call' = call, now' = now, calls' = calls
    PROVE  TxId(kind)' = TxId(kind)
  BY DEF TxId, EventId, ContentHash

LEMMA Mines ==
    ASSUME IInv, MineBlock
    PROVE  /\ IInv'
           /\ \A t \in TableNames \ {"blockchain_blocks"} : db'[t] = db[t]
<1> DEFINE old == db.blockchain_blocks
           new == [root |-> TxId(TxKind(pc)), by |-> notary]
<1>1. DOMAIN db = TableNames /\ ControlTyped /\ TablesTyped /\ IsSequence(old)
  BY DEF IInv, TablesTyped, Linked
<1>2. /\ pc \in {"registerBlock", "eventBlock", "revokeBlock", "alertBlock"}
      /\ pc = "revokeBlock" => IsAnchored(db.blockchain_transactions, call.obj)
      /\ Advance
  BY DEF MineBlock
<1>3. /\ DOMAIN db' = TableNames /\ db'.blockchain_blocks = Append(old, new)
      /\ \A t \in TableNames \ {"blockchain_blocks"} : db'[t] = db[t]
  BY <1>1, TableNamesAre DEF MineBlock
<1>4. /\ pc' \in TxStatements /\ TxKind(pc') = TxKind(pc)
      /\ pc' = "revokeTx" => pc = "revokeBlock"
      /\ pc' = NextPc(call)[pc]
  BY <1>2, NextBlock, KindOf DEF Advance, GoTo, TxStatements
<1>5. call' = call /\ call \in Call /\ UNCHANGED <<mode, script, now, calls>>
  BY <1>1, <1>2, <1>4
     DEF Advance, GoTo, TxStatements, bounds, ControlTyped, CallStatements
<1>6. pc' \in CallStatements /\ pc' \notin TableNames /\ pc' # "objectRow"
  BY <1>4, TableNamesAre DEF CallStatements, TxStatements, UpToObjects
<1>7. ControlTyped'
  BY <1>1, <1>5, <1>6 DEF ControlTyped
<1>8. DeletedInOrder'
  BY <1>6, TableNamesAre DEF DeletedInOrder
<1>9. /\ IsSequence(Append(old, new)) /\ Len(old) \in Nat
      /\ Len(Append(old, new)) = Len(old) + 1
      /\ \A i \in 1..Len(old) : Append(old, new)[i] = old[i]
      /\ Append(old, new)[Len(old) + 1] = new
  <2> HIDE DEF new
  <2>1. QED BY <1>1, Appended
<1>10. TablesTyped'
  <2>1. db'.blockchain_transactions = db.blockchain_transactions
    BY <1>3, TableNamesAre
  <2>2. Linked(old, db.blockchain_transactions)
    BY <1>1 DEF TablesTyped
  <2>3. Linked(Append(old, new), db.blockchain_transactions)
    <3> HIDE DEF new, old
    <3>1. QED BY <2>2, <1>9 DEF Linked
  <2>4. QED BY <1>3, <2>1, <2>3 DEF TablesTyped
<1>11. CallOnItsWay'
  <2>1. Len(db'.blockchain_blocks) >= 1
        /\ db'.blockchain_blocks[Len(db'.blockchain_blocks)] = new
    BY <1>3, <1>9
  <2>2. TxId(TxKind(pc))' = TxId(TxKind(pc))
    BY <1>4, <1>5, SameTxId
  <2>3. pc' = "revokeTx" => IsAnchored(db'.blockchain_transactions, call'.obj)
    BY <1>2, <1>3, <1>4, <1>5, TableNamesAre
  <2>4. QED BY <1>6, <2>1, <2>2, <2>3 DEF CallOnItsWay
<1>12. QED BY <1>3, <1>7, <1>8, <1>10, <1>11 DEF IInv

\* The row of a transaction: at the height of the last block, under the id that
\* block was mined for.
LEMMA Inserts ==
    ASSUME IInv, InsertTx
    PROVE  /\ IInv'
           /\ \A t \in TableNames \ {"blockchain_transactions"} : db'[t] = db[t]
<1> DEFINE blocks == db.blockchain_blocks
           old == db.blockchain_transactions
           id == TxId(TxKind(pc))
           new == RecordTx(old, id, TopHeight(blocks), TxHash(TxKind(pc)), notary)
<1>1. DOMAIN db = TableNames /\ ControlTyped /\ Linked(blocks, old) /\ CallOnItsWay
  BY DEF IInv, TablesTyped
<1>2. pc \in TxStatements /\ Advance
  BY DEF InsertTx, TxStatements
<1>3. /\ DOMAIN db' = TableNames /\ db'.blockchain_transactions = new
      /\ \A t \in TableNames \ {"blockchain_transactions"} : db'[t] = db[t]
  BY <1>1, TableNamesAre DEF InsertTx
<1>4. /\ pc' \in {"objectRow", "eventRow", "revocationRow", "securityRow"}
      /\ pc' = "objectRow" => pc = "registerTx"
  BY <1>2, NextTx DEF Advance, GoTo, TxStatements
<1>5. call' = call /\ call \in Call /\ UNCHANGED <<mode, script, now>>
  BY <1>1, <1>2, <1>4 DEF Advance, GoTo, bounds, ControlTyped, CallStatements
<1>6. /\ pc' \in CallStatements \ TxStatements /\ pc' \notin TableNames
      /\ pc' # "revokeTx"
  BY <1>4, TableNamesAre DEF CallStatements, TxStatements, UpToObjects
<1>7. ControlTyped'
  BY <1>1, <1>5, <1>6 DEF ControlTyped
<1>8. DeletedInOrder'
  BY <1>6, TableNamesAre DEF DeletedInOrder
<1>9. /\ DOMAIN new = DOMAIN old \cup {id}
      /\ new[id].height = Len(blocks) - 1
      /\ \A x \in DOMAIN old \ {id} : new[x] = old[x]
  BY DEF RecordTx, Put, TopHeight
<1>10. TablesTyped'
  <2>1. Len(blocks) \in Nat /\ Len(blocks) >= 1 /\ blocks[Len(blocks)].root = id
    BY <1>1, <1>2 DEF CallOnItsWay, Linked, IsSequence
  <2>2. db'.blockchain_blocks = blocks
    BY <1>3, TableNamesAre
  <2>3. Linked(blocks, new)
    <3> HIDE DEF blocks, old, id, new
    <3>1. QED BY <1>1, <1>9, <2>1 DEF Linked
  <2>4. QED BY <1>3, <2>2, <2>3 DEF TablesTyped
<1>11. pc' = "objectRow" => IsAnchored(db'.blockchain_transactions, call'.obj)
  <2>1. pc = "registerTx" => id[1] = "REGISTER_PROOF" /\ id[2] = call.obj
    BY KindOf DEF TxId
  <2> HIDE DEF id, old, blocks
  <2>2. pc = "registerTx" => id \in ProofTxs(new, call.obj)
    BY <1>9, <2>1 DEF ProofTxs, ChangesStatus
  <2>3. QED BY <1>3, <1>4, <1>5, <2>2 DEF IsAnchored
<1>12. CallOnItsWay'
  BY <1>6, <1>11 DEF CallOnItsWay
<1>13. QED BY <1>3, <1>7, <1>8, <1>10, <1>12 DEF IInv

LEMMA StoresObject ==
    ASSUME IInv, InsertObject
    PROVE  /\ IInv' /\ LedgerQuiet
           /\ DOMAIN db'.trust_objects = DOMAIN db.trust_objects \cup {call.obj}
<1>1. DOMAIN db = TableNames /\ ControlTyped
  BY DEF IInv, TablesTyped
<1>2. pc = "objectRow" /\ Advance
  BY DEF InsertObject
<1>3. PICK r : db' = [db EXCEPT !["trust_objects"] = Put(db["trust_objects"], call.obj, r)]
  BY DEF InsertObject, Row
<1>4. LedgerQuiet
  BY <1>1, <1>3, TableNamesAre DEF LedgerQuiet, UpToObjects
<1>5. DOMAIN db'.trust_objects = DOMAIN db.trust_objects \cup {call.obj}
  BY <1>1, <1>3, TableNamesAre DEF Put, UpToObjects
<1>6. Elsewhere
  <2>1. GoTo("eventBlock") /\ UNCHANGED <<mode, script, bounds>>
    BY <1>2, NextRow DEF Advance
  <2>2. call \in Call
    BY <1>1, <1>2 DEF ControlTyped, CallStatements
  <2>3. "eventBlock" \in CallStatements \ (TxStatements \cup {"objectRow"})
    BY DEF CallStatements, TxStatements
  <2>4. QED BY <1>1, <2>1, <2>2, <2>3, GoesOn
<1>7. QED BY <1>4, <1>5, <1>6, QuietKeepsInv

LEMMA LoadsLedger ==
    ASSUME IInv, LoadOrInitLedger
    PROVE  /\ IInv'
           /\ \A t \in TableNames \ {"blockchain_blocks"} : db'[t] = db[t]
<1>1. DOMAIN db = TableNames /\ ControlTyped /\ TablesTyped
  BY DEF IInv, TablesTyped
<1>2. pc = "ledger" /\ Advance
  BY DEF LoadOrInitLedger
<1>3. /\ DOMAIN db' = TableNames
      /\ \A t \in TableNames \ {"blockchain_blocks"} : db'[t] = db[t]
      /\ \/ db'.blockchain_blocks = db.blockchain_blocks
         \/ /\ db.blockchain_blocks = <<>>
            /\ db'.blockchain_blocks = <<Genesis(notary)>>
  BY <1>1, TableNamesAre DEF LoadOrInitLedger
<1>4. Elsewhere
  <2>1. GoTo("idle") /\ UNCHANGED <<mode, script, bounds>>
    BY <1>2, NextStart DEF Advance
  <2>2. "idle" \notin CallStatements \cup TxStatements \cup {"objectRow"}
    BY DEF CallStatements, TxStatements
  <2>3. QED BY <1>1, <2>1, <2>2, GoesOn
<1>5. DeletedInOrder' /\ CallOnItsWay'
  BY <1>4, TableNamesAre DEF Elsewhere, DeletedInOrder, CallOnItsWay, UpToObjects, TxStatements
<1>6. TablesTyped'
  <2>1. db'.blockchain_transactions = db.blockchain_transactions
    BY <1>3, TableNamesAre
  <2>2. CASE db'.blockchain_blocks = db.blockchain_blocks
    BY <1>1, <1>3, <2>1, <2>2 DEF TablesTyped
  <2>3. CASE /\ db.blockchain_blocks = <<>>
             /\ db'.blockchain_blocks = <<Genesis(notary)>>
    <3> DEFINE g == Genesis(notary)
    <3>1. DOMAIN db.blockchain_transactions = {}
      BY <1>1, <2>3 DEF TablesTyped, Linked
    <3>2. IsSequence(<<g>>)
      <4> HIDE DEF g
      <4>1. QED BY SequenceOfOwn DEF IsSequence
    <3> HIDE DEF g
    <3>3. Linked(<<g>>, db.blockchain_transactions)
      BY <3>1, <3>2 DEF Linked
    <3>4. QED BY <1>3, <2>1, <2>3, <3>3 DEF TablesTyped, g
  <2>4. QED BY <1>3, <2>2, <2>3
<1>7. QED BY <1>3, <1>4, <1>5, <1>6 DEF IInv, Elsewhere

------------------------------------------------------------------------------
(* The invariant *)

LEMMA InitInv == Init => IInv
<1> SUFFICES ASSUME Init PROVE IInv
  OBVIOUS
<1>1. /\ mode = "down" /\ pc = "idle" /\ script = <<>> /\ now = 0
      /\ db = [t \in TableNames |-> <<>>]
  BY DEF Init, EmptyDb
<1>2. "idle" \notin TableNames \cup CallStatements
  BY TableNamesAre DEF UpToObjects, CallStatements, TxStatements
<1>3. ControlTyped
  <2>1. <<>> \in Seq(Call)
    OBVIOUS
  <2>2. QED BY <1>1, <1>2, <2>1 DEF ControlTyped, Modes
<1>4. DeletedInOrder
  BY <1>1, <1>2, TableNamesAre DEF DeletedInOrder
<1>5. TablesTyped
  <2>1. /\ DOMAIN db = TableNames /\ db.blockchain_blocks = <<>>
        /\ db.blockchain_transactions = <<>>
    BY <1>1, TableNamesAre
  <2>2. DOMAIN <<>> = {}
    OBVIOUS
  <2>3. Linked(<<>>, <<>>)
    BY <2>2 DEF Linked, IsSequence
  <2>4. QED BY <2>1, <2>3 DEF TablesTyped
<1>6. CallOnItsWay
  <2>1. pc \notin TxStatements /\ pc \notin {"revokeTx", "objectRow"}
    BY <1>1, <1>2 DEF CallStatements
  <2>2. QED BY <2>1 DEF CallOnItsWay
<1>7. QED BY <1>3, <1>4, <1>5, <1>6 DEF IInv

\* Every step is one of these.
LEMMA StepCases ==
    ASSUME Next
    PROVE  \/ QuietStatement \/ Around \/ StartServer \/ StartSeedScript
           \/ DeleteTable \/ MineBlock \/ InsertTx \/ InsertObject \/ LoadOrInitLedger
  BY DEF Next, Process, Statement, QuietStatement, Around

LEMMA StepInv == ASSUME IInv, [Next]_vars PROVE IInv'
<1>1. CASE QuietStatement
  BY <1>1, QuietStatementQuiet, QuietStatementElsewhere, QuietKeepsInv DEF Quiet
<1>2. CASE Around
  BY <1>2, AroundQuiet, QuietKeepsInv DEF Quiet
<1>3. CASE StartServer \/ StartSeedScript
  BY <1>3, Starts
<1>4. CASE DeleteTable
  BY <1>4, Deletes
<1>5. CASE MineBlock
  BY <1>5, Mines
<1>6. CASE InsertTx
  BY <1>6, Inserts
<1>7. CASE InsertObject
  BY <1>7, StoresObject
<1>8. CASE LoadOrInitLedger
  BY <1>8, LoadsLedger
<1>9. CASE UNCHANGED vars
  BY <1>9 DEF vars, memory, bounds, IInv, ControlTyped, DeletedInOrder, TablesTyped,
              CallOnItsWay, TxId, EventId, ContentHash
<1>10. QED BY <1>1, <1>2, <1>3, <1>4, <1>5, <1>6, <1>7, <1>8, <1>9, StepCases

LEMMA Invariance == Spec => []IInv
<1>1. Init => IInv
  BY InitInv
<1>2. IInv /\ [Next]_vars => IInv'
  BY StepInv
<1>3. QED BY <1>1, <1>2, PTL DEF Spec

------------------------------------------------------------------------------
(* A restart keeps the objects *)

LEMMA ObjectsStay ==
    ASSUME IInv, [Next]_vars, mode # "seed script"
    PROVE  DOMAIN db.trust_objects \subseteq DOMAIN db'.trust_objects
<1>1. CASE QuietStatement
  BY <1>1, QuietStatementQuiet DEF Quiet
<1>2. CASE Around
  BY <1>2, AroundQuiet DEF Quiet
<1>3. CASE StartServer \/ StartSeedScript
  BY <1>3, Starts DEF Quiet
<1>4. CASE DeleteTable
  <2>1. mode = "starting" /\ pc \in TableNames
    BY <1>4 DEF DeleteTable, IInv, DeletedInOrder
  <2>2. pc = "trust_objects" => DOMAIN db.trust_objects = {}
    BY <2>1 DEF IInv, DeletedInOrder, UpToObjects
  <2>3. pc # "trust_objects" => db'.trust_objects = db.trust_objects
    BY <1>4, Deletes, TableNamesAre DEF UpToObjects
  <2>4. QED BY <2>2, <2>3
<1>5. CASE MineBlock
  BY <1>5, Mines, TableNamesAre DEF UpToObjects
<1>6. CASE InsertTx
  BY <1>6, Inserts, TableNamesAre DEF UpToObjects
<1>7. CASE InsertObject
  BY <1>7, StoresObject
<1>8. CASE LoadOrInitLedger
  BY <1>8, LoadsLedger, TableNamesAre DEF UpToObjects
<1>9. CASE UNCHANGED vars
  BY <1>9 DEF vars
<1>10. QED BY <1>1, <1>2, <1>3, <1>4, <1>5, <1>6, <1>7, <1>8, <1>9, StepCases

\* No step of the server, of a client or of a crash takes a stored object away, for
\* any seed and any requests: the server seeds only when it found trust_objects
\* empty (bootstrap in server.ts), and nothing but the seed deletes objects.
THEOREM ObjectsSurviveRestarts == Spec => RestartKeepsObjects
<1>1. IInv /\ [Next]_vars =>
        [mode # "seed script" => DOMAIN db.trust_objects \subseteq DOMAIN db.trust_objects']_vars
  BY ObjectsStay
<1>2. QED BY <1>1, Invariance, PTL DEF Spec, RestartKeepsObjects

------------------------------------------------------------------------------
(* The registry *)

\* What getProof answers, by object.
ProofMap(txs) ==
    [o \in {id[2] : id \in {i \in DOMAIN txs : ChangesStatus(i)}} |-> Proof(txs, o)]

LEMMA MapIsOfAnchored ==
    ASSUME NEW txs, NEW o
    PROVE  /\ o \in DOMAIN ProofMap(txs) <=> IsAnchored(txs, o)
           /\ IsAnchored(txs, o) => ProofMap(txs)[o] = Proof(txs, o)
  BY DEF ProofMap, IsAnchored, ProofTxs

\* Of an anchored object one transaction is the latest.
LEMMA LatestExists ==
    ASSUME NEW blocks, NEW txs, Linked(blocks, txs), NEW o, IsAnchored(txs, o)
    PROVE  LatestTx(txs, o) \in ProofTxs(txs, o)
<1> DEFINE own == ProofTxs(txs, o)
           H == {txs[id].height + 1 : id \in own}
<1>1. own \subseteq DOMAIN txs /\ own # {}
  BY DEF IsAnchored, ProofTxs
<1>2. Len(blocks) \in Nat
  BY DEF Linked, IsSequence
<1>3. H \subseteq Nat /\ H # {} /\ \A h \in H : h <= Len(blocks)
  BY <1>1, <1>2 DEF Linked
<1>4. PICK m \in H : \A g \in H : g <= m
  <2> HIDE DEF H
  <2>1. QED BY <1>2, <1>3, GreatestExists
<1>5. PICK id \in own : m = txs[id].height + 1
  BY <1>4
<1>6. \A j \in own : txs[j].height <= txs[id].height
  <2> TAKE j \in own
  <2>1. txs[j].height + 1 <= txs[id].height + 1
    BY <1>4, <1>5
  <2>2. txs[j].height \in Int /\ txs[id].height \in Int
    BY <1>1, <1>5 DEF Linked
  <2>3. QED BY <2>1, <2>2
<1>7. QED BY <1>6 DEF LatestTx

\* A transaction leaves the proof of every object alone but that of its own, and
\* that one too if it does not change a status.
LEMMA OtherProofsStay ==
    ASSUME NEW blocks, NEW txs, Linked(blocks, txs),
           NEW id, NEW h, NEW hash, NEW key,
           NEW o, ~ChangesStatus(id) \/ o # id[2]
    PROVE  LET new == RecordTx(txs, id, h, hash, key)
           IN  /\ IsAnchored(new, o) <=> IsAnchored(txs, o)
               /\ IsAnchored(txs, o) => Proof(new, o) = Proof(txs, o)
               /\ \A k : VerifyProof(new, o, k) <=> VerifyProof(txs, o, k)
<1> DEFINE new == RecordTx(txs, id, h, hash, key)
           own == ProofTxs(txs, o)
           Top(t, i) == \A j \in own : t[j].height <= t[i].height
<1>1. DOMAIN new = DOMAIN txs \cup {id} /\ \A j \in DOMAIN txs \ {id} : new[j] = txs[j]
  BY DEF RecordTx, Put
<1> HIDE DEF new
<1>2. ProofTxs(new, o) = own /\ id \notin own
  BY <1>1 DEF ProofTxs
<1>3. \A j \in own : new[j] = txs[j]
  BY <1>1, <1>2 DEF ProofTxs
<1>4. LatestTx(new, o) = LatestTx(txs, o)
  <2>1. \A i \in own : Top(new, i) <=> Top(txs, i)
    BY <1>3
  <2>2. (CHOOSE i \in own : Top(new, i)) = (CHOOSE i \in own : Top(txs, i))
    <3> HIDE DEF own, Top
    <3>1. QED BY <2>1
  <2>3. QED BY <1>2, <2>2 DEF LatestTx
<1>5. IsAnchored(txs, o) => LatestTx(txs, o) \in own
  BY LatestExists
<1>6. /\ IsAnchored(new, o) <=> IsAnchored(txs, o)
      /\ IsAnchored(txs, o) => Proof(new, o) = Proof(txs, o)
  BY <1>2, <1>3, <1>4, <1>5 DEF Proof, IsAnchored
<1>7. \A k : VerifyProof(new, o, k) <=> VerifyProof(txs, o, k)
  BY <1>3, <1>4, <1>5, <1>6 DEF VerifyProof
<1>8. QED BY <1>6, <1>7 DEF new

\* A transaction above all others makes the proof of its object.
LEMMA LatestCounts ==
    ASSUME NEW blocks, NEW txs, Linked(blocks, txs),
           NEW id, NEW h \in Int, NEW hash, NEW key, ChangesStatus(id),
           \A j \in DOMAIN txs \ {id} : txs[j].height < h
    PROVE  ProofMap(RecordTx(txs, id, h, hash, key)) =
              Put(ProofMap(txs), id[2],
                  [hash |-> hash,
                   status |-> IF id[1] = "REVOKE_PROOF" THEN "REVOKED" ELSE "ACTIVE"])
<1> DEFINE new == RecordTx(txs, id, h, hash, key)
           proof == [hash |-> hash,
                     status |-> IF id[1] = "REVOKE_PROOF" THEN "REVOKED" ELSE "ACTIVE"]
           own == ProofTxs(new, id[2])
<1>1. /\ DOMAIN new = DOMAIN txs \cup {id}
      /\ new[id].height = h /\ new[id].hash = hash
      /\ \A j \in DOMAIN txs \ {id} : new[j] = txs[j]
  BY DEF RecordTx, Put
<1>2. \A o : o # id[2] => /\ IsAnchored(new, o) <=> IsAnchored(txs, o)
                          /\ IsAnchored(txs, o) => Proof(new, o) = Proof(txs, o)
  BY OtherProofsStay
<1> HIDE DEF new
<1>3. IsAnchored(new, id[2]) /\ Proof(new, id[2]) = proof
  <2>1. id \in own /\ \A j \in own \ {id} : j \in DOMAIN txs
    BY <1>1 DEF ProofTxs
  <2>2. \A j \in own \ {id} : new[j].height < new[id].height /\ new[j].height \in Int
    BY <1>1, <2>1 DEF Linked
  <2>3. \A i \in own : (\A j \in own : new[j].height <= new[i].height) <=> i = id
    <3> HIDE DEF own
    <3>1. QED BY <1>1, <2>1, <2>2
  <2>4. LatestTx(new, id[2]) = id
    BY <2>1, <2>3 DEF LatestTx
  <2>5. QED BY <1>1, <2>1, <2>4 DEF Proof, IsAnchored
<1>4. \A o : o \in DOMAIN ProofMap(new) <=> o \in DOMAIN ProofMap(txs) \cup {id[2]}
  BY <1>2, <1>3, MapIsOfAnchored
<1>5. \A o \in DOMAIN ProofMap(new) :
          ProofMap(new)[o] = IF o = id[2] THEN proof ELSE ProofMap(txs)[o]
  BY <1>2, <1>3, <1>4, MapIsOfAnchored
<1>6. ProofMap(new) = [o \in DOMAIN ProofMap(new) |-> ProofMap(new)[o]]
  BY DEF ProofMap
<1>7. QED BY <1>4, <1>5, <1>6 DEF Put, new

\* One that changes no status makes none.
LEMMA OthersDoNotCount ==
    ASSUME NEW blocks, NEW txs, Linked(blocks, txs),
           NEW id, NEW h, NEW hash, NEW key, ~ChangesStatus(id)
    PROVE  ProofMap(RecordTx(txs, id, h, hash, key)) = ProofMap(txs)
<1> DEFINE new == RecordTx(txs, id, h, hash, key)
<1>1. \A o : /\ IsAnchored(new, o) <=> IsAnchored(txs, o)
             /\ IsAnchored(txs, o) => Proof(new, o) = Proof(txs, o)
  BY OtherProofsStay
<1> HIDE DEF new
<1>2. \A o : o \in DOMAIN ProofMap(new) <=> o \in DOMAIN ProofMap(txs)
  BY <1>1, MapIsOfAnchored
<1>3. \A o \in DOMAIN ProofMap(new) : ProofMap(new)[o] = ProofMap(txs)[o]
  BY <1>1, <1>2, MapIsOfAnchored
<1>4. /\ ProofMap(new) = [o \in DOMAIN ProofMap(new) |-> ProofMap(new)[o]]
      /\ ProofMap(txs) = [o \in DOMAIN ProofMap(txs) |-> ProofMap(txs)[o]]
  BY DEF ProofMap
<1>5. QED BY <1>2, <1>3, <1>4 DEF new

\* The registry's proofs are the map of the ledger's transactions.
LEMMA ProofsAre ==
    /\ Proofs = ProofMap(db.blockchain_transactions)
    /\ Proofs' = ProofMap(db'.blockchain_transactions)
  BY DEF Proofs, ProofMap

LEMMA Stutters ==
    ASSUME db'.blockchain_transactions = db.blockchain_transactions,
           DOMAIN db'.trust_objects = DOMAIN db.trust_objects
    PROVE  UNCHANGED Registry!vars
  BY ProofsAre DEF Registry!vars

\* What an inserted transaction is to the registry: the registration of an object
\* with a digest, the revocation of its proof, or nothing.
LEMMA InsertsAsRegistry ==
    ASSUME IInv, InsertTx
    PROVE  [Registry!Next]_(Registry!vars)
<1> DEFINE blocks == db.blockchain_blocks
           txs == db.blockchain_transactions
           id == TxId(TxKind(pc))
           hash == TxHash(TxKind(pc))
           o == call.obj
<1>1. /\ Linked(blocks, txs) /\ CallOnItsWay /\ ControlTyped /\ DOMAIN db = TableNames
      /\ pc \in TxStatements
  BY DEF IInv, TablesTyped, InsertTx, TxStatements
<1>2. db'.blockchain_transactions = RecordTx(txs, id, TopHeight(blocks), hash, notary)
  BY <1>1, TableNamesAre DEF InsertTx
<1>3. DOMAIN db'.trust_objects = DOMAIN db.trust_objects
  BY Inserts, TableNamesAre DEF UpToObjects
<1>4. /\ TopHeight(blocks) \in Int
      /\ \A j \in DOMAIN txs \ {id} : txs[j].height < TopHeight(blocks)
  <2>1. Len(blocks) \in Nat /\ blocks[Len(blocks)].root = id
    BY <1>1 DEF Linked, IsSequence, CallOnItsWay
  <2> HIDE DEF id, blocks, txs
  <2>2. QED BY <1>1, <2>1 DEF Linked, TopHeight
<1>5. call \in Call /\ o \in Objects /\ now \in Nat
  BY <1>1 DEF ControlTyped, CallStatements, Call
<1>6. id[1] = TxKind(pc) /\ id[2] = o
  BY DEF TxId
<1>7. CASE pc = "registerTx"
  <2>1. id[1] = "REGISTER_PROOF" /\ hash = ContentHash(call, now)
    BY <1>6, <1>7, KindOf DEF TxHash
  <2>2. ContentHash(call, now) \in Digests
    BY <1>5 DEF ContentHash, Digests, Call
  <2>3. Proofs' = Put(Proofs, o, [hash |-> hash, status |-> "ACTIVE"])
    <3> HIDE DEF id, blocks, txs, hash, o
    <3>1. ChangesStatus(id) /\ id[1] # "REVOKE_PROOF"
      BY <2>1 DEF ChangesStatus
    <3>2. QED BY <1>1, <1>2, <1>4, <1>6, <3>1, LatestCounts, ProofsAre DEF txs
  <2>4. Registry!Anchor(o)
    <3> HIDE DEF hash, o
    <3>1. o \in DOMAIN Proofs' /\ Proofs'[o] = [hash |-> hash, status |-> "ACTIVE"]
      BY <2>3 DEF Put
    <3>2. QED BY <1>3, <2>1, <2>2, <2>3, <3>1 DEF Registry!Anchor, Registry!Put, Put
  <2>5. QED BY <1>5, <2>4 DEF Registry!Next
<1>8. CASE pc = "revokeTx"
  <2>1. id[1] = "REVOKE_PROOF" /\ hash = Proof(txs, o).hash
    BY <1>6, <1>8, KindOf DEF TxHash
  <2>2. o \in DOMAIN Proofs /\ Proofs[o] = Proof(txs, o)
    BY <1>1, <1>8, MapIsOfAnchored, ProofsAre DEF CallOnItsWay
  <2>3. Proofs' = Put(Proofs, o, [hash |-> hash, status |-> "REVOKED"])
    <3> HIDE DEF id, blocks, txs, hash, o
    <3>1. ChangesStatus(id)
      BY <2>1 DEF ChangesStatus
    <3>2. QED BY <1>1, <1>2, <1>4, <1>6, <2>1, <3>1, LatestCounts, ProofsAre DEF txs
  <2>4. Registry!Revoke(o)
    <3> HIDE DEF hash, o, txs
    <3>1. QED BY <1>3, <2>1, <2>2, <2>3 DEF Registry!Revoke, Registry!Put, Put
  <2>5. QED BY <1>5, <2>4 DEF Registry!Next
<1>9. CASE pc \in {"eventTx", "alertTx"}
  <2>1. ~ChangesStatus(id)
    BY <1>6, <1>9, KindOf DEF ChangesStatus
  <2>2. Proofs' = Proofs
    <3> HIDE DEF id, blocks, txs, hash, o
    <3>1. ProofMap(RecordTx(txs, id, TopHeight(blocks), hash, notary)) = ProofMap(txs)
      BY <1>1, <2>1, OthersDoNotCount
    <3>2. QED BY <1>2, <3>1, ProofsAre DEF txs
  <2>3. QED BY <1>3, <2>2 DEF Registry!vars
<1>10. QED BY <1>1, <1>7, <1>8, <1>9 DEF TxStatements

LEMMA DeletesAsRegistry ==
    ASSUME IInv, DeleteTable
    PROVE  [Registry!Next]_(Registry!vars)
<1>1. pc \in TableNames
  BY DEF DeleteTable
<1>2. DOMAIN <<>> = {}
  OBVIOUS
<1>3. CASE pc = "trust_objects"
  <2>1. /\ DOMAIN db'.trust_objects = {}
        /\ db'.blockchain_transactions = db.blockchain_transactions
    BY <1>2, <1>3, Deletes, TableNamesAre DEF UpToObjects
  <2>2. Registry!Drop
    BY <2>1, ProofsAre DEF Registry!Drop
  <2>3. QED BY <2>2 DEF Registry!Next
<1>4. CASE pc = "blockchain_transactions"
  <2>1. /\ db'.blockchain_transactions = <<>> /\ db'.trust_objects = db.trust_objects
        /\ DOMAIN db.trust_objects = {}
    BY <1>4, Deletes, TableNamesAre DEF UpToObjects, IInv, DeletedInOrder
  <2>2. ProofMap(<<>>) = Registry!NoProofs
    BY <1>2 DEF ProofMap, Registry!NoProofs
  <2>3. Registry!Wipe
    BY <2>1, <2>2, ProofsAre DEF Registry!Wipe
  <2>4. QED BY <2>3 DEF Registry!Next
<1>5. CASE pc \notin {"trust_objects", "blockchain_transactions"}
  <2>1. /\ db'.blockchain_transactions = db.blockchain_transactions
        /\ db'.trust_objects = db.trust_objects
    BY <1>5, Deletes, TableNamesAre DEF UpToObjects
  <2>2. QED BY <2>1, Stutters
<1>6. QED BY <1>3, <1>4, <1>5

LEMMA StoresAsRegistry ==
    ASSUME IInv, InsertObject
    PROVE  Registry!Next
<1>1. /\ db'.blockchain_transactions = db.blockchain_transactions
      /\ DOMAIN db'.trust_objects = DOMAIN db.trust_objects \cup {call.obj}
  BY StoresObject DEF LedgerQuiet
<1>2. pc = "objectRow"
  BY DEF InsertObject
<1>3. call.obj \in Objects /\ IsAnchored(db.blockchain_transactions, call.obj)
  BY <1>2 DEF IInv, ControlTyped, CallStatements, CallOnItsWay, Call
<1>4. Registry!Store(call.obj)
  BY <1>1, <1>3, MapIsOfAnchored, ProofsAre DEF Registry!Store
<1>5. QED BY <1>3, <1>4 DEF Registry!Next

LEMMA RegistryStep ==
    ASSUME IInv, [Next]_vars
    PROVE  [Registry!Next]_(Registry!vars)
<1>1. CASE QuietStatement
  BY <1>1, QuietStatementQuiet, Stutters DEF Quiet, LedgerQuiet
<1>2. CASE Around
  BY <1>2, AroundQuiet, Stutters DEF Quiet, LedgerQuiet
<1>3. CASE StartServer \/ StartSeedScript
  BY <1>3, Starts, Stutters DEF Quiet, LedgerQuiet
<1>4. CASE DeleteTable
  BY <1>4, DeletesAsRegistry
<1>5. CASE MineBlock
  BY <1>5, Mines, Stutters, TableNamesAre DEF UpToObjects
<1>6. CASE InsertTx
  BY <1>6, InsertsAsRegistry
<1>7. CASE InsertObject
  BY <1>7, StoresAsRegistry
<1>8. CASE LoadOrInitLedger
  BY <1>8, LoadsLedger, Stutters, TableNamesAre DEF UpToObjects
<1>9. CASE UNCHANGED vars
  BY <1>9, Stutters DEF vars
<1>10. QED BY <1>1, <1>2, <1>3, <1>4, <1>5, <1>6, <1>7, <1>8, <1>9, StepCases

\* The proofs of the application are a trust registry (blockchain.interface.ts), for
\* any seed and any requests, and wherever the process dies: each statement anchors,
\* revokes, stores or clears, or does nothing that a reader of getProof could see.
THEOREM ServerImplementsRegistry == Spec => ImplementsRegistry
<1>1. Init => Registry!Init
  <2> SUFFICES ASSUME Init PROVE Registry!Init
    OBVIOUS
  <2>1. db.blockchain_transactions = <<>> /\ db.trust_objects = <<>>
    BY TableNamesAre DEF Init, EmptyDb, UpToObjects
  <2>2. DOMAIN <<>> = {}
    OBVIOUS
  <2>3. ProofMap(<<>>) = Registry!NoProofs
    BY <2>2 DEF ProofMap, Registry!NoProofs
  <2>4. QED BY <2>1, <2>2, <2>3, ProofsAre DEF Registry!Init
<1>2. IInv /\ [Next]_vars => [Registry!Next]_(Registry!vars)
  BY RegistryStep
<1>3. QED BY <1>1, <1>2, Invariance, PTL DEF Spec, ImplementsRegistry, Registry!Spec

------------------------------------------------------------------------------
(* The process and the call it handles *)

\* The process has built its ledger.
Running == mode # "down" /\ pc \notin TableNames \cup StartStatements

\* Nothing is in hand between two calls, and a process that does not run has neither
\* a script nor a ledger.
ProcessTyped ==
    /\ call \in Call \cup {NoCall}
    /\ pc \notin CallStatements => call = NoCall
    /\ crashes \in [seeding : Nat, serving : Nat]
    /\ mode = "down" => pc = "idle" /\ script = <<>> /\ chain = <<>>
    /\ mode = "serving" => script = <<>>
    /\ pc \in StartStatements => mode \in {"starting", "seed script"}

\* A process that has built its ledger holds a genesis block, and the table has it.
LedgerBuilt ==
    /\ IsSequence(chain)
    /\ Running => chain # <<>> /\ db.blockchain_blocks # <<>>

LEMMA StatementCourse ==
    ASSUME IInv, Statement
    PROVE  /\ UNCHANGED <<mode, script, now, calls, crashes>>
           /\ call' = IF pc' = "idle" THEN NoCall ELSE call
           /\ \/ pc \in CallStatements /\ pc' \in CallStatements \cup {"idle"}
              \/ pc \in StartStatements /\ pc' \in StartStatements \cup {"idle"}
              \/ pc \in TableNames /\ pc' \in TableNames \cup {"notaryKeystore"}
<1> DEFINE advancing == CallStatements \ {"deriveKeystore", "deriveIdentity"}
<1>1. \/ Advance /\ pc \in advancing \cup StartStatements \cup TableNames
      \/ Abort /\ pc \in {"revokeBlock", "eventRow", "credentialRow", "revocationRow"}
      \/ DeriveKeystore \/ DeriveIdentity
  BY DEF Statement, IdentityRow, KeystoreRow, MineBlock, RevokeUnknown, InsertTx,
         InsertObject, InsertEvent, EventRefused, SetOwner, InsertOwnership, InsertCredential,
         CredentialRefused, InsertRevocation, RevocationRefused, SetRevoked,
         InsertSecurityEvent, SetMetadata, InjectEvent, DeleteTable, NotaryKeystore,
         NotaryIdentity, LoadOrInitLedger, CallStatements, StartStatements, TxStatements
<1>2. CASE Advance /\ pc \in advancing
  <2>1. NextPc(call)[pc] \in CallStatements \cup {"idle"}
    BY <1>2, NextBlock, NextTx, NextRow DEF CallStatements, TxStatements
  <2>2. QED BY <1>2, <2>1 DEF Advance, GoTo, bounds
<1>3. CASE Advance /\ pc \in StartStatements
  <2>1. NextPc(call)[pc] \in StartStatements \cup {"idle"}
    BY <1>3, NextStart DEF StartStatements
  <2>2. QED BY <1>3, <2>1 DEF Advance, GoTo, bounds
<1>4. CASE Advance /\ pc \in TableNames
  <2>1. NextPc(call)[pc] \in TableNames \cup {"notaryKeystore"}
    BY <1>4, NextTable, TableNamesAre DEF UpToObjects
  <2>2. QED BY <1>4, <2>1 DEF Advance, GoTo, bounds
<1>5. CASE Abort /\ pc \in {"revokeBlock", "eventRow", "credentialRow", "revocationRow"}
  BY <1>5 DEF Abort, GoTo, bounds, CallStatements
<1>6. CASE DeriveKeystore \/ DeriveIdentity
  <2>1. call \in Call /\ pc \in CallStatements
    BY <1>6 DEF DeriveKeystore, DeriveIdentity, IInv, ControlTyped, CallStatements
  <2>2. FirstPc(call.op) \in CallStatements /\ "deriveIdentity" \in CallStatements
        /\ "idle" \notin CallStatements
    BY <2>1, FirstStatement DEF CallStatements, TxStatements
  <2>3. QED BY <1>6, <2>1, <2>2 DEF DeriveKeystore, DeriveIdentity, GoTo, bounds
<1>7. QED BY <1>1, <1>2, <1>3, <1>4, <1>5, <1>6

\* The tables' names, the statements of the start and those of a call differ.
LEMMA StatementsDiffer ==
    /\ CallStatements \cap StartStatements = {} /\ CallStatements \cap TableNames = {}
    /\ StartStatements \cap TableNames = {}
    /\ "idle" \notin CallStatements \cup StartStatements \cup TableNames
  BY TableNamesAre DEF CallStatements, TxStatements, StartStatements, UpToObjects

LEMMA LoadedIsSequence ==
    ASSUME NEW blocks, IsSequence(blocks), NEW txs
    PROVE  /\ IsSequence(Load(blocks, txs)) /\ Len(Load(blocks, txs)) = Len(blocks)
           /\ Len(blocks) \in Nat
           /\ blocks # <<>> => Load(blocks, txs) # <<>>
<1> DEFINE L == Load(blocks, txs)
<1>1. Len(blocks) \in Nat /\ DOMAIN blocks = 1..Len(blocks)
  BY DEF IsSequence
<1>2. DOMAIN L = 1..Len(blocks) /\ L = [i \in 1..Len(blocks) |-> L[i]]
  BY <1>1 DEF Load
<1> HIDE DEF L
<1>3. L \in [1..Len(blocks) -> {L[i] : i \in DOMAIN L}]
  BY <1>2
<1>4. L \in Seq({L[i] : i \in DOMAIN L})
  BY <1>1, <1>3, SeqDef
<1>5. Len(L) = Len(blocks)
  BY <1>1, <1>2, <1>4
<1>6. blocks # <<>> => L # <<>>
  <2>1. blocks # <<>> => 1 \in DOMAIN blocks
    BY <1>1 DEF IsSequence
  <2>2. QED BY <1>1, <1>2, <2>1
<1>7. QED BY <1>1, <1>4, <1>5, <1>6 DEF L, IsSequence

LEMMA ProcessSteps ==
    ASSUME IInv, ProcessTyped, [Next]_vars PROVE ProcessTyped'
<1> ControlTyped BY DEF IInv
<1>1. CASE Statement
  <2>1. mode # "down" /\ mode' # "down"
    BY <1>1, StatementCourse, StatementsDiffer DEF ProcessTyped
  <2>2. call' \in Call \cup {NoCall} /\ (pc' \notin CallStatements => call' = NoCall)
    BY <1>1, StatementCourse, StatementsDiffer DEF ProcessTyped
  <2>3. pc' \in StartStatements => mode' \in {"starting", "seed script"}
    BY <1>1, StatementCourse, StatementsDiffer
       DEF ProcessTyped, IInv, DeletedInOrder, StartStatements
  <2>4. QED BY <1>1, <2>1, <2>2, <2>3, StatementCourse DEF ProcessTyped
<1>2. CASE StartServer \/ StartSeedScript
  <2>1. /\ call' = call /\ pc \notin CallStatements /\ crashes' = crashes
        /\ mode' \in {"starting", "seed script"}
    BY <1>2, StatementsDiffer DEF StartServer, StartSeedScript, bounds, ProcessTyped
  <2>2. QED BY <2>1 DEF ProcessTyped
<1>3. ASSUME NEW c \in Call, Begin(c)
      PROVE  call' \in Call /\ pc' \in CallStatements /\ pc' \notin StartStatements
  BY <1>3, BeginsElsewhere, StatementsDiffer
<1>4. ASSUME NEW c \in ClientCalls, Request(c) PROVE ProcessTyped'
  <2>1. c \in Call /\ Begin(c) /\ UNCHANGED <<mode, script, chain, crashes>> /\ mode = "serving"
    BY <1>4, ServerAssumption DEF Request, memory
  <2>2. QED BY <1>3, <2>1 DEF ProcessTyped
<1>5. CASE NextSeedCall
  <2>1. Head(script) \in Call
    <3>1. script \in Seq(Call) /\ script # <<>>
      BY <1>5 DEF NextSeedCall, ControlTyped
    <3>2. QED BY <3>1
  <2>2. Begin(Head(script)) /\ UNCHANGED <<mode, chain, crashes>>
        /\ mode \in {"seed script", "starting"}
    BY <1>5 DEF NextSeedCall, memory
  <2>3. QED BY <1>3, <2>1, <2>2 DEF ProcessTyped
<1>6. CASE SeedDone
  <2>1. /\ pc' = "idle" /\ call' = call /\ script' = <<>> /\ crashes' = crashes
        /\ mode' = "down" => chain' = <<>>
        /\ pc \notin CallStatements
    BY <1>6, StatementsDiffer DEF SeedDone, bounds
  <2>2. QED BY <2>1, StatementsDiffer DEF ProcessTyped
<1>7. CASE Crash
  <2>1. pc' = "idle" /\ call' = NoCall /\ script' = <<>> /\ mode' = "down" /\ chain' = <<>>
    BY <1>7 DEF Crash
  <2>a. crashes' \in [seeding : Nat, serving : Nat]
    <3>1. \/ crashes' = [crashes EXCEPT !.serving = @ + 1]
          \/ crashes' = [crashes EXCEPT !.seeding = @ + 1]
      BY <1>7 DEF Crash
    <3>2. crashes \in [seeding : Nat, serving : Nat]
      BY DEF ProcessTyped
    <3>3. QED BY <3>1, <3>2
  <2>2. QED BY <2>1, <2>a, StatementsDiffer DEF ProcessTyped
<1>8. CASE Tick
  BY <1>8 DEF Tick, memory, ProcessTyped
<1>9. CASE UNCHANGED vars
  BY <1>9 DEF vars, memory, bounds, ProcessTyped
<1>10. QED BY <1>1, <1>2, <1>4, <1>5, <1>6, <1>7, <1>8, <1>9 DEF Next, Process

LEMMA LedgerSteps ==
    ASSUME IInv, ProcessTyped, LedgerBuilt, [Next]_vars PROVE LedgerBuilt'
<1> DOMAIN db = TableNames /\ IsSequence(db.blockchain_blocks) /\ ControlTyped
  BY DEF IInv, TablesTyped, Linked
<1> DEFINE quiet == /\ chain' = chain /\ db'.blockchain_blocks = db.blockchain_blocks
<1>a. ASSUME quiet, Running' => Running PROVE LedgerBuilt'
  BY <1>a DEF LedgerBuilt
<1>b. ASSUME Statement, pc \in CallStatements PROVE Running' => Running
  BY <1>b, StatementCourse, StatementsDiffer DEF Running
<1>1. CASE QuietStatement \/ InsertObject \/ InsertTx
  <2>1. quiet
    <3>1. db'.blockchain_blocks = db.blockchain_blocks
      BY <1>1, QuietStatementQuiet, StoresObject, Inserts, TableNamesAre
         DEF Quiet, LedgerQuiet
    <3>2. chain' = chain
      BY <1>1 DEF QuietStatement, IdentityRow, KeystoreRow, DeriveKeystore, DeriveIdentity,
         RevokeUnknown, Abort, InsertTx, InsertObject, InsertEvent, EventRefused, SetOwner,
         InsertOwnership, InsertCredential, CredentialRefused, InsertRevocation,
         RevocationRefused, SetRevoked, InsertSecurityEvent, SetMetadata, InjectEvent,
         NotaryKeystore, NotaryIdentity, memory
    <3>3. QED BY <3>1, <3>2
  <2>2. Running' => Running
    <3>1. CASE pc \in CallStatements
      BY <1>1, <1>b, <3>1 DEF Statement, QuietStatement
    <3>2. CASE pc \notin CallStatements
      <4>1. NotaryKeystore \/ NotaryIdentity
        BY <1>1, <3>2 DEF QuietStatement, IdentityRow, KeystoreRow, DeriveKeystore,
           DeriveIdentity, RevokeUnknown, InsertTx, InsertObject, InsertEvent, EventRefused,
           SetOwner, InsertOwnership, InsertCredential, CredentialRefused, InsertRevocation,
           RevocationRefused, SetRevoked, InsertSecurityEvent, SetMetadata, InjectEvent,
           CallStatements, TxStatements
      <4>2. pc' \in StartStatements
        BY <4>1, NextStart DEF NotaryKeystore, NotaryIdentity, Advance, GoTo, StartStatements
      <4>3. QED BY <4>2 DEF Running
    <3>3. QED BY <3>1, <3>2
  <2>3. QED BY <1>a, <2>1, <2>2
<1>2. CASE MineBlock
  <2>1. PICK b : chain' = Append(chain, b)
    BY <1>2 DEF MineBlock
  <2>2. PICK r : db'.blockchain_blocks = Append(db.blockchain_blocks, r)
    BY <1>2, TableNamesAre DEF MineBlock
  <2>3. IsSequence(chain') /\ Len(chain') >= 1
    BY <2>1, Appended DEF LedgerBuilt
  <2>4. Len(db'.blockchain_blocks) >= 1
    BY <2>2, Appended
  <2>5. chain' # <<>> /\ db'.blockchain_blocks # <<>>
    BY <2>3, <2>4
  <2>6. QED BY <2>3, <2>5 DEF LedgerBuilt
<1>3. CASE LoadOrInitLedger
  <2>1. chain' = Load(db'.blockchain_blocks, db.blockchain_transactions)
    BY <1>3 DEF LoadOrInitLedger
  <2>2. IsSequence(db'.blockchain_blocks)
    BY <1>3, LoadsLedger DEF IInv, TablesTyped, Linked
  <2>3. db'.blockchain_blocks # <<>>
    BY <1>3, TableNamesAre DEF LoadOrInitLedger
  <2>4. QED BY <2>1, <2>2, <2>3, LoadedIsSequence DEF LedgerBuilt
<1>4. CASE DeleteTable \/ StartServer \/ StartSeedScript
  <2>1. CASE DeleteTable
    <3>1. pc \in TableNames /\ pc' = NextPc(call)[pc] /\ chain' = chain
      BY <2>1 DEF DeleteTable, Advance, GoTo, memory
    <3>2. pc' \in TableNames \cup StartStatements
      BY <3>1, NextTable, TableNamesAre DEF UpToObjects, StartStatements
    <3>3. QED BY <3>1, <3>2 DEF LedgerBuilt, Running
  <2>a. CASE StartServer \/ StartSeedScript
    <3>1. pc' \in {"security_events", "notaryKeystore"} /\ chain' = chain
      BY <2>a DEF StartServer, StartSeedScript, Tables, memory
    <3>2. pc' \in TableNames \cup StartStatements
      BY <3>1, TableNamesAre DEF UpToObjects, StartStatements
    <3>3. QED BY <3>1, <3>2 DEF LedgerBuilt, Running
  <2>2. QED BY <1>4, <2>1, <2>a
<1>5. CASE Around
  <2>1. db' = db
    BY <1>5, AroundQuiet DEF Around, Request, NextSeedCall, SeedDone, Crash, Tick
  <2>2. \/ chain' = chain /\ (Running' => Running)
        \/ chain' = <<>> /\ mode' = "down"
    BY <1>5, StatementsDiffer
       DEF Around, Request, NextSeedCall, SeedDone, Crash, Tick, Begin, memory, Running
  <2>3. IsSequence(<<>>)
    BY DEF IsSequence
  <2>4. QED BY <2>1, <2>2, <2>3 DEF LedgerBuilt, Running
<1>6. CASE UNCHANGED vars
  BY <1>6 DEF vars, memory, LedgerBuilt, Running
<1>7. QED BY <1>1, <1>2, <1>3, <1>4, <1>5, <1>6, StepCases

------------------------------------------------------------------------------
(* The tables a statement leaves alone *)

KeyStatement ==
    \/ IdentityRow \/ KeystoreRow \/ DeriveKeystore \/ DeriveIdentity
    \/ NotaryKeystore \/ NotaryIdentity

ColumnStatement == SetOwner \/ SetRevoked \/ SetMetadata

EventStatement == InsertEvent \/ InsertOwnership \/ InsertSecurityEvent \/ InjectEvent

Refusal == RevokeUnknown \/ EventRefused \/ CredentialRefused \/ RevocationRefused

LEMMA QuietCases ==
    ASSUME QuietStatement
    PROVE  \/ KeyStatement \/ ColumnStatement \/ EventStatement \/ Refusal
           \/ InsertCredential \/ InsertRevocation
  BY DEF QuietStatement, KeyStatement, ColumnStatement, EventStatement, Refusal

LeavesAlone(written) == \A t \in TableNames \ written : db'[t] = db[t]

LEMMA QuietLeaves ==
    ASSUME DOMAIN db = TableNames
    PROVE  /\ KeyStatement => LeavesAlone({"identities", "wallet_keystores"})
           /\ ColumnStatement => LeavesAlone({"trust_objects"})
           /\ EventStatement =>
                 LeavesAlone({"provenance_events", "ownership_events", "security_events"})
           /\ Refusal => db' = db
           /\ InsertCredential => LeavesAlone({"credentials"})
           /\ InsertRevocation => LeavesAlone({"revocations"})
<1>1. KeyStatement => LeavesAlone({"identities", "wallet_keystores"})
  BY DEF KeyStatement, IdentityRow, KeystoreRow, DeriveKeystore, DeriveIdentity,
         NotaryKeystore, NotaryIdentity, Row, LeavesAlone
<1>2. ColumnStatement => LeavesAlone({"trust_objects"})
  BY DEF ColumnStatement, SetOwner, SetRevoked, SetMetadata, LeavesAlone
<1>3. EventStatement =>
          LeavesAlone({"provenance_events", "ownership_events", "security_events"})
  BY DEF EventStatement, InsertEvent, InsertOwnership, InsertSecurityEvent, InjectEvent,
         LeavesAlone
<1>4. Refusal => db' = db
  BY DEF Refusal, RevokeUnknown, EventRefused, CredentialRefused, RevocationRefused, Abort
<1>5. InsertCredential => LeavesAlone({"credentials"})
  BY DEF InsertCredential, LeavesAlone
<1>6. InsertRevocation => LeavesAlone({"revocations"})
  BY DEF InsertRevocation, Row, LeavesAlone
<1>7. QED BY <1>1, <1>2, <1>3, <1>4, <1>5, <1>6

LEMMA NamedTables ==
    /\ "identities" \in TableNames /\ "wallet_keystores" \in TableNames
    /\ "trust_objects" \in TableNames /\ "revocations" \in TableNames
    /\ "credentials" \in TableNames
    /\ "blockchain_blocks" \in TableNames /\ "blockchain_transactions" \in TableNames
  BY TableNamesAre DEF UpToObjects

\* The statements a call begins with.
LEMMA BeginsWith ==
    ASSUME NEW c \in Call, Begin(c)
    PROVE  /\ pc' \in {"deriveKeystore", "identityRow", "registerBlock", "eventBlock",
                       "revokeBlock", "alertBlock", "metadata", "brokenEvent"}
           /\ call' = c /\ pc = "idle"
  BY FirstStatement DEF Begin

\* What the steps around the statements do to the control state.
LEMMA AroundCourse ==
    ASSUME IInv, Around
    PROVE  /\ db' = db
           /\ pc' \in {"idle", "deriveKeystore", "identityRow", "registerBlock", "eventBlock",
                       "revokeBlock", "alertBlock", "metadata", "brokenEvent"}
<1>1. db' = db
  BY DEF Around, Request, NextSeedCall, SeedDone, Crash, Tick
<1>2. ASSUME NEW c \in ClientCalls, Request(c)
      PROVE  pc' \in {"deriveKeystore", "identityRow", "registerBlock", "eventBlock",
                       "revokeBlock", "alertBlock", "metadata", "brokenEvent"}
  BY <1>2, BeginsWith, ServerAssumption DEF Request
<1>3. ASSUME NextSeedCall
      PROVE  pc' \in {"deriveKeystore", "identityRow", "registerBlock", "eventBlock",
                       "revokeBlock", "alertBlock", "metadata", "brokenEvent"}
  <2>1. script \in Seq(Call) /\ script # <<>> /\ Begin(Head(script))
    BY <1>3 DEF NextSeedCall, IInv, ControlTyped
  <2>2. Head(script) \in Call
    BY <2>1
  <2>3. QED BY <2>1, <2>2, BeginsWith
<1>4. SeedDone \/ Crash \/ Tick => pc' = "idle"
  BY DEF SeedDone, Crash, Tick
<1>5. QED BY <1>1, <1>2, <1>3, <1>4 DEF Around

------------------------------------------------------------------------------
(* Objects, revocations, credentials *)

\* A revocation or a credential is of a stored object: they are deleted before it,
\* and a credential is inserted by the call that stored its object.
ObjectRowsTyped ==
    /\ DOMAIN db.trust_objects \subseteq Objects /\ IsFiniteSet(DOMAIN db.trust_objects)
    /\ DOMAIN db.revocations \subseteq DOMAIN db.trust_objects
    /\ DOMAIN db.credentials \subseteq DOMAIN db.trust_objects
    /\ pc \in {"ownership_events", "provenance_events", "credentials", "trust_objects"} =>
          DOMAIN db.revocations = {}
    /\ pc = "trust_objects" => DOMAIN db.credentials = {}
    /\ pc = "credentialRow" => Stored(call.obj)

LEMMA ObjectRowsFrame ==
    ASSUME ObjectRowsTyped,
           DOMAIN db'.trust_objects = DOMAIN db.trust_objects,
           db'.revocations = db.revocations, db'.credentials = db.credentials,
           pc' \notin UpToObjects,
           pc' = "credentialRow" => Stored(call'.obj)
    PROVE  ObjectRowsTyped'
  BY DEF ObjectRowsTyped, Stored, UpToObjects

LEMMA ObjectRowsQuiet ==
    ASSUME IInv, ObjectRowsTyped, QuietStatement
    PROVE  ObjectRowsTyped'
<1> DOMAIN db = TableNames BY DEF IInv, TablesTyped
<1>1. DOMAIN db'.trust_objects = DOMAIN db.trust_objects
  BY QuietStatementQuiet DEF Quiet
<1>2. pc' \notin UpToObjects
  BY QuietStatementElsewhere, TableNamesAre DEF Elsewhere
<1>3. CASE InsertEvent
  <2>1. Stored(call.obj) /\ (pc' = "credentialRow" => call' = call)
    BY <1>3 DEF InsertEvent, Advance, GoTo
  <2>2. db'.revocations = db.revocations /\ db'.credentials = db.credentials
    BY <1>3, QuietLeaves, NamedTables DEF EventStatement, LeavesAlone
  <2>3. pc' = "credentialRow" => Stored(call'.obj)
    BY <2>1
  <2>4. QED BY <1>1, <1>2, <2>2, <2>3, ObjectRowsFrame
<1>4. CASE InsertCredential
  <2>1. pc = "credentialRow" /\ pc' = "idle"
    BY <1>4, NextRow DEF InsertCredential, Advance, GoTo
  <2>2. Stored(call.obj) /\ db'.revocations = db.revocations
    BY <1>4, <2>1, QuietLeaves, NamedTables DEF ObjectRowsTyped, LeavesAlone
  <2>3. DOMAIN db'.credentials \subseteq DOMAIN db.credentials \cup {call.obj}
    BY <1>4, NamedTables DEF InsertCredential, Put
  <2>4. QED BY <1>1, <2>1, <2>2, <2>3 DEF ObjectRowsTyped, Stored
<1>5. CASE InsertRevocation
  <2>1. pc' = "statusColumn" /\ Stored(call.obj)
    BY <1>5, NextRow DEF InsertRevocation, Advance, GoTo
  <2>2. db'.credentials = db.credentials
    BY <1>5, QuietLeaves, NamedTables DEF LeavesAlone
  <2>3. DOMAIN db'.revocations \subseteq DOMAIN db.revocations \cup {call.obj}
    BY <1>5, NamedTables DEF InsertRevocation, Put
  <2>4. QED BY <1>1, <2>1, <2>2, <2>3 DEF ObjectRowsTyped, Stored
<1>6. CASE KeyStatement \/ ColumnStatement \/ Refusal \/ (EventStatement /\ ~InsertEvent)
  <2>1. db'.revocations = db.revocations /\ db'.credentials = db.credentials
    BY <1>6, QuietLeaves, NamedTables DEF LeavesAlone
  <2>2. pc' # "credentialRow"
    <3>1. CASE KeyStatement
      <4>1. call \in Call \/ ~DeriveIdentity
        BY DEF DeriveIdentity, IInv, ControlTyped, CallStatements
      <4>2. QED BY <3>1, <4>1, NextRow, NextStart, FirstStatement
         DEF KeyStatement, IdentityRow, KeystoreRow, DeriveKeystore, DeriveIdentity,
             NotaryKeystore, NotaryIdentity, Advance, GoTo
    <3>2. CASE ColumnStatement \/ Refusal \/ (EventStatement /\ ~InsertEvent)
      BY <3>2, NextRow
         DEF ColumnStatement, SetOwner, SetRevoked, SetMetadata, Refusal, RevokeUnknown,
             EventRefused, CredentialRefused, RevocationRefused, EventStatement,
             InsertOwnership, InsertSecurityEvent, InjectEvent, Advance, Abort, GoTo
    <3>3. QED BY <1>6, <3>1, <3>2
  <2>3. QED BY <1>1, <1>2, <2>1, <2>2, ObjectRowsFrame
<1>7. QED BY <1>3, <1>4, <1>5, <1>6, QuietCases

LEMMA ObjectRowsSteps ==
    ASSUME IInv, ObjectRowsTyped, [Next]_vars PROVE ObjectRowsTyped'
<1> DOMAIN db = TableNames BY DEF IInv, TablesTyped
<1> DEFINE same == /\ db'.trust_objects = db.trust_objects
                   /\ db'.revocations = db.revocations /\ db'.credentials = db.credentials
<1>1. CASE QuietStatement
  BY <1>1, ObjectRowsQuiet
<1>2. CASE InsertObject
  <2>1. pc = "objectRow" /\ pc' = "eventBlock" /\ LeavesAlone({"trust_objects"})
    BY <1>2, NextRow DEF InsertObject, Advance, GoTo, Row, LeavesAlone
  <2>2. call.obj \in Objects
    BY <2>1 DEF IInv, ControlTyped, CallStatements, Call
  <2>3. DOMAIN db'.trust_objects = DOMAIN db.trust_objects \cup {call.obj}
    BY <1>2, StoresObject
  <2>4. IsFiniteSet(DOMAIN db'.trust_objects)
    BY <2>3, FS_AddElement DEF ObjectRowsTyped
  <2>5. db'.revocations = db.revocations /\ db'.credentials = db.credentials
    BY <2>1, NamedTables DEF LeavesAlone
  <2>6. QED BY <2>1, <2>2, <2>3, <2>4, <2>5 DEF ObjectRowsTyped
<1>3. CASE MineBlock \/ InsertTx \/ LoadOrInitLedger
  <2>1. same
    BY <1>3, Mines, Inserts, LoadsLedger, NamedTables
  <2>2. pc' \in TxStatements \cup {"objectRow", "eventRow", "revocationRow", "securityRow",
                                   "idle"}
    BY <1>3, NextBlock, NextTx, NextStart
       DEF MineBlock, InsertTx, LoadOrInitLedger, Advance, GoTo, TxStatements
  <2>3. pc' \notin UpToObjects \cup {"credentialRow"}
    BY <2>2 DEF UpToObjects, TxStatements
  <2>4. QED BY <2>1, <2>3, ObjectRowsFrame
<1>4. CASE DeleteTable
  <2>1. /\ pc \in TableNames /\ pc' = NextPc(call)[pc]
        /\ db'[pc] = <<>> /\ \A t \in TableNames \ {pc} : db'[t] = db[t]
    BY <1>4, Deletes DEF DeleteTable, Advance, GoTo
  <2>2. DOMAIN <<>> = {} /\ IsFiniteSet({})
    BY FS_EmptySet
  <2>3. /\ DOMAIN db'.trust_objects \subseteq Objects
        /\ IsFiniteSet(DOMAIN db'.trust_objects)
    BY <2>1, <2>2, NamedTables DEF ObjectRowsTyped
  <2>4. /\ DOMAIN db'.revocations \subseteq DOMAIN db'.trust_objects
        /\ DOMAIN db'.credentials \subseteq DOMAIN db'.trust_objects
    BY <2>1, <2>2, NamedTables DEF ObjectRowsTyped
  <2>5. /\ pc' \in {"ownership_events", "provenance_events", "credentials", "trust_objects"}
              => DOMAIN db'.revocations = {}
        /\ pc' = "trust_objects" => DOMAIN db'.credentials = {}
        /\ pc' # "credentialRow"
    BY <2>1, <2>2, NamedTables, NextTable, TableNamesAre DEF ObjectRowsTyped, UpToObjects
  <2>6. QED BY <2>3, <2>4, <2>5 DEF ObjectRowsTyped
<1>5. CASE StartServer \/ StartSeedScript
  <2>1. db' = db /\ pc' \in {"security_events", "notaryKeystore"}
    BY <1>5 DEF StartServer, StartSeedScript, Tables
  <2>2. QED BY <2>1 DEF ObjectRowsTyped, Stored
<1>6. CASE Around
  <2>1. db' = db /\ pc' \notin UpToObjects \cup {"credentialRow"}
    BY <1>6, AroundCourse DEF UpToObjects
  <2>2. QED BY <2>1, ObjectRowsFrame
<1>7. CASE UNCHANGED vars
  BY <1>7 DEF vars, ObjectRowsTyped, Stored
<1>8. QED BY <1>1, <1>2, <1>3, <1>4, <1>5, <1>6, <1>7, StepCases

------------------------------------------------------------------------------
(* Identities and keys *)

KeyRowsTyped ==
    /\ DOMAIN db.identities \subseteq Dids
    /\ DOMAIN db.wallet_keystores \subseteq Dids /\ IsFiniteSet(DOMAIN db.wallet_keystores)

LEMMA KeyRowsSteps ==
    ASSUME IInv, KeyRowsTyped, [Next]_vars PROVE KeyRowsTyped'
<1> DOMAIN db = TableNames BY DEF IInv, TablesTyped
<1> DEFINE same == /\ db'.identities = db.identities
                   /\ db'.wallet_keystores = db.wallet_keystores
<1>1. ASSUME same PROVE KeyRowsTyped'
  BY <1>1 DEF KeyRowsTyped
<1>2. CASE KeyStatement
  <2>1. Notary \in Dids /\ (pc \in CallStatements => call.from \in Dids)
    BY ServerAssumption DEF IInv, ControlTyped, Call
  <2>2. PICK d \in Dids :
          /\ DOMAIN db'.identities \subseteq DOMAIN db.identities \cup {d}
          /\ \/ DOMAIN db'.wallet_keystores = DOMAIN db.wallet_keystores
             \/ DOMAIN db'.wallet_keystores = DOMAIN db.wallet_keystores \cup {d}
    BY <1>2, <2>1, NamedTables
       DEF KeyStatement, IdentityRow, KeystoreRow, DeriveKeystore, DeriveIdentity,
           NotaryKeystore, NotaryIdentity, Row, Put, CallStatements
  <2>3. IsFiniteSet(DOMAIN db'.wallet_keystores)
    <3>1. IsFiniteSet(DOMAIN db.wallet_keystores)
      BY DEF KeyRowsTyped
    <3>2. IsFiniteSet(DOMAIN db.wallet_keystores \cup {d})
      BY <3>1, FS_AddElement
    <3>3. QED BY <2>2, <3>1, <3>2
  <2>4. QED BY <2>2, <2>3 DEF KeyRowsTyped
<1>3. CASE QuietStatement /\ ~KeyStatement
  <2>1. same
    BY <1>3, QuietCases, QuietLeaves, NamedTables DEF LeavesAlone
  <2>2. QED BY <1>1, <2>1
<1>4. CASE MineBlock \/ InsertTx \/ LoadOrInitLedger \/ InsertObject
  <2>1. InsertObject => same
    BY NamedTables DEF InsertObject, Row
  <2>2. same
    BY <1>4, <2>1, Mines, Inserts, LoadsLedger, NamedTables
  <2>3. QED BY <1>1, <2>2
<1>5. CASE DeleteTable
  <2>1. /\ pc \in TableNames
        /\ db'[pc] = <<>> /\ \A t \in TableNames \ {pc} : db'[t] = db[t]
    BY <1>5, Deletes DEF DeleteTable
  <2>2. DOMAIN <<>> = {} /\ IsFiniteSet({})
    BY FS_EmptySet
  <2>3. QED BY <2>1, <2>2, NamedTables DEF KeyRowsTyped
<1>6. CASE StartServer \/ StartSeedScript \/ Around \/ UNCHANGED vars
  <2>1. db' = db
    BY <1>6, AroundCourse DEF StartServer, StartSeedScript, vars
  <2>2. QED BY <1>1, <2>1
<1>7. QED BY <1>2, <1>3, <1>4, <1>5, <1>6, StepCases

------------------------------------------------------------------------------
(* The type invariant *)

TypeInv == IInv /\ ProcessTyped /\ LedgerBuilt /\ ObjectRowsTyped /\ KeyRowsTyped

LEMMA InitTypes == Init => TypeInv
<1> SUFFICES ASSUME Init PROVE TypeInv
  OBVIOUS
<1>1. /\ mode = "down" /\ pc = "idle" /\ script = <<>> /\ chain = <<>> /\ call = NoCall
      /\ crashes = [seeding |-> 0, serving |-> 0]
      /\ \A t \in TableNames : db[t] = <<>>
  BY DEF Init, EmptyDb
<1>2. DOMAIN <<>> = {} /\ IsFiniteSet({}) /\ IsSequence(<<>>)
  BY FS_EmptySet DEF IsSequence
<1>3. ProcessTyped
  BY <1>1, StatementsDiffer DEF ProcessTyped
<1>4. LedgerBuilt
  BY <1>1, <1>2 DEF LedgerBuilt, Running
<1>5. ObjectRowsTyped /\ KeyRowsTyped
  BY <1>1, <1>2, NamedTables DEF ObjectRowsTyped, KeyRowsTyped
<1>6. QED BY <1>3, <1>4, <1>5, InitInv DEF TypeInv

LEMMA TypeSteps == TypeInv /\ [Next]_vars => TypeInv'
  BY StepInv, ProcessSteps, LedgerSteps, ObjectRowsSteps, KeyRowsSteps DEF TypeInv

LEMMA Types == Spec => []TypeInv
  BY InitTypes, TypeSteps, PTL DEF Spec

\* For every seed, every set of requests and any number of crashes: the statement
\* that comes next is one of the call that is handled, nothing is revoked or a
\* credential that is not stored, and a process has a ledger exactly while it runs.
THEOREM ServerTypes == Spec => []TypeOK
<1>1. TypeInv => TypeOK
  <2> SUFFICES ASSUME TypeInv PROVE TypeOK
    OBVIOUS
  <2>1. pc = "idle" \/ pc \in DOMAIN NextPc(call) \cup {"deriveKeystore", "deriveIdentity"}
    <3>1. pc \in {"idle"} \cup TableNames \cup StartStatements \cup CallStatements
      BY DEF TypeInv, IInv, ControlTyped
    <3>2. QED BY <3>1, TableNamesAre
       DEF NextPc, UpToObjects, StartStatements, CallStatements, TxStatements
  <2>2. mode = "serving" => chain # <<>>
    BY DEF TypeInv, IInv, DeletedInOrder, ProcessTyped, LedgerBuilt, Running
  <2>3. QED BY <2>1, <2>2
     DEF TypeOK, TypeInv, IInv, ControlTyped, TablesTyped, ProcessTyped, ObjectRowsTyped,
         KeyRowsTyped
<1>2. QED BY <1>1, Types, PTL

------------------------------------------------------------------------------
(* Counting what crashes leave behind *)

LEMMA NoMore ==
    ASSUME NEW T, IsFiniteSet(T), NEW S, S \subseteq T, NEW n \in Nat, Cardinality(T) <= n
    PROVE  Cardinality(S) <= n
<1>1. /\ Cardinality(S) \in Nat /\ Cardinality(T) \in Nat
      /\ Cardinality(S) <= Cardinality(T)
  BY FS_Subset, FS_CardinalityType
<1>2. QED BY <1>1

LEMMA OneMore ==
    ASSUME NEW T, IsFiniteSet(T), NEW x, NEW S, S \subseteq T \cup {x},
           NEW n \in Nat, Cardinality(T) <= n
    PROVE  Cardinality(S) <= n + 1
<1>1. IsFiniteSet(T \cup {x}) /\ Cardinality(T \cup {x}) <= n + 1
  <2>1. /\ IsFiniteSet(T \cup {x})
        /\ Cardinality(T \cup {x}) = IF x \in T THEN Cardinality(T) ELSE Cardinality(T) + 1
    BY FS_AddElement
  <2>2. Cardinality(T) \in Nat
    BY FS_CardinalityType
  <2>3. QED BY <2>1, <2>2
<1>2. QED BY <1>1, NoMore

LEMMA CrashesCounted ==
    ASSUME ProcessTyped
    PROVE  /\ Crashes \in Nat
           /\ crashes' = crashes => Crashes' = Crashes
           /\ Crash => Crashes' = Crashes + 1
<1>1. crashes \in [seeding : Nat, serving : Nat]
  BY DEF ProcessTyped
<1>2. Crash => \/ crashes' = [crashes EXCEPT !.serving = @ + 1]
               \/ crashes' = [crashes EXCEPT !.seeding = @ + 1]
  BY DEF Crash
<1>3. Crash => Crashes' = Crashes + 1
  BY <1>1, <1>2 DEF Crashes
<1>4. QED BY <1>1, <1>3 DEF Crashes

\* All that the steps around the statements do to pc, mode and crashes.
LEMMA AroundCounts ==
    ASSUME IInv, ProcessTyped, Around
    PROVE  \/ Crash /\ pc' = "idle" /\ mode' = "down"
           \/ pc = "idle" /\ mode # "down" /\ Crashes' = Crashes
<1>1. ASSUME NEW c \in ClientCalls, Request(c)
      PROVE  pc = "idle" /\ mode # "down" /\ crashes' = crashes
  BY <1>1 DEF Request, Begin
<1>2. NextSeedCall \/ SeedDone \/ Tick => pc = "idle" /\ mode # "down" /\ crashes' = crashes
  BY DEF NextSeedCall, SeedDone, Tick, Begin, bounds
<1>3. Crash => pc' = "idle" /\ mode' = "down"
  BY DEF Crash
<1>4. QED BY <1>1, <1>2, <1>3, CrashesCounted DEF Around

------------------------------------------------------------------------------
(* Blocks without their transaction *)

Torn(blocks, txs) == {i \in 2..Len(blocks) : blocks[i].root \notin DOMAIN txs}

\* The block whose transaction is inserted next.
InHand == IF pc \in TxStatements THEN {Len(db.blockchain_blocks)} ELSE {}

\* The seed, or one that died, has deleted the transactions and not yet the blocks.
Wiped ==
    /\ db.trust_objects = <<>> /\ db.blockchain_transactions = <<>>
    /\ mode = "down" \/ pc \in UpToObjects \cup {"blockchain_transactions", "blockchain_blocks"}

\* Every block but the one in hand and those a crash tore has its transaction, or
\* the seed is about to delete the blocks too.
TornInv ==
    /\ pc = "blockchain_transactions" => db.trust_objects = <<>>
    /\ pc = "blockchain_blocks" => Wiped
    /\ pc \in TxStatements => Len(db.blockchain_blocks) >= 2
    /\ \A id \in DOMAIN db.blockchain_transactions :
          db.blockchain_transactions[id].height >= 1
    /\ \/ Wiped
       \/ Cardinality(Torn(db.blockchain_blocks, db.blockchain_transactions) \ InHand)
             <= Crashes

LEMMA TornFinite ==
    ASSUME NEW blocks, Len(blocks) \in Nat, NEW txs
    PROVE  IsFiniteSet(Torn(blocks, txs))
<1>1. IsFiniteSet(2..Len(blocks))
  BY FS_Interval
<1>2. Torn(blocks, txs) \subseteq 2..Len(blocks)
  BY DEF Torn
<1>3. QED BY <1>1, <1>2, FS_Subset

LEMMA TornFrame ==
    ASSUME TornInv, ~Wiped, LedgerQuiet, Crashes' = Crashes,
           pc \notin TxStatements, pc' \notin TxStatements \cup TableNames
    PROVE  TornInv'
<1>1. InHand = {} /\ InHand' = {}
  BY DEF InHand
<1>2. QED BY <1>1, TableNamesAre DEF TornInv, LedgerQuiet, UpToObjects

LEMMA TornStatements ==
    ASSUME TypeInv, TornInv, QuietStatement \/ InsertObject
    PROVE  TornInv'
<1> IInv /\ ProcessTyped BY DEF TypeInv
<1>1. LedgerQuiet
  BY QuietStatementQuiet, StoresObject DEF Quiet
<1>2. Statement
  BY DEF Statement, QuietStatement
<1>3. pc \in CallStatements \cup StartStatements /\ pc \notin TxStatements
  BY DEF QuietStatement, IdentityRow, KeystoreRow, DeriveKeystore, DeriveIdentity,
         RevokeUnknown, InsertObject, InsertEvent, EventRefused, SetOwner,
         InsertOwnership, InsertCredential, CredentialRefused, InsertRevocation,
         RevocationRefused, SetRevoked, InsertSecurityEvent, SetMetadata, InjectEvent,
         NotaryKeystore, NotaryIdentity, CallStatements, StartStatements, TxStatements
<1>4. mode # "down" /\ ~Wiped
  BY <1>3, StatementsDiffer, TableNamesAre DEF ProcessTyped, Wiped
<1>5. pc' \notin TxStatements \cup TableNames
  <2>1. CASE QuietStatement
    BY <2>1, QuietStatementElsewhere DEF Elsewhere
  <2>2. CASE InsertObject
    <3>1. pc' = "eventBlock"
      BY <2>2, NextRow DEF InsertObject, Advance, GoTo
    <3>2. QED BY <3>1, TableNamesAre DEF TxStatements, UpToObjects
  <2>3. QED BY <2>1, <2>2
<1>6. Crashes' = Crashes
  BY <1>2, StatementCourse, CrashesCounted
<1>7. QED BY <1>1, <1>3, <1>4, <1>5, <1>6, TornFrame

LEMMA TornMines == ASSUME TypeInv, TornInv, MineBlock PROVE TornInv'
<1> DEFINE old == db.blockchain_blocks
           txs == db.blockchain_transactions
<1> IInv /\ ProcessTyped /\ LedgerBuilt BY DEF TypeInv
<1>1. /\ pc \in CallStatements \ TxStatements /\ pc' \in TxStatements
      /\ Crashes' = Crashes
  <2>1. pc \in {"registerBlock", "eventBlock", "revokeBlock", "alertBlock"}
        /\ pc' = NextPc(call)[pc]
    BY DEF MineBlock, Advance, GoTo
  <2>2. Statement
    BY DEF Statement
  <2>3. QED BY <2>1, <2>2, NextBlock, StatementCourse, CrashesCounted
           DEF CallStatements, TxStatements
<1>2. pc \notin TableNames /\ pc' \notin TableNames /\ mode # "down" /\ ~Wiped
  BY <1>1, StatementsDiffer, TableNamesAre DEF ProcessTyped, Wiped, CallStatements
<1>3. IsSequence(old) /\ old # <<>>
  BY <1>1, <1>2, StatementsDiffer
     DEF IInv, TablesTyped, Linked, LedgerBuilt, Running
<1>4. PICK b : db'.blockchain_blocks = Append(old, b)
  BY NamedTables DEF MineBlock, IInv, TablesTyped
<1>5. db'.blockchain_transactions = txs /\ db'.trust_objects = db.trust_objects
  BY Mines, NamedTables
<1>6. /\ Len(old) \in Nat /\ Len(old) >= 1 /\ Len(Append(old, b)) = Len(old) + 1
      /\ \A i \in 1..Len(old) : Append(old, b)[i] = old[i]
  BY <1>3, Appended DEF IsSequence
<1>7. Torn(Append(old, b), txs) \ {Len(old) + 1} = Torn(old, txs)
  <2> HIDE DEF old, txs
  <2>1. QED BY <1>6 DEF Torn
<1>8. InHand = {} /\ InHand' = {Len(old) + 1}
  BY <1>1, <1>4, <1>6 DEF InHand
<1>9. Cardinality(Torn(db'.blockchain_blocks, db'.blockchain_transactions) \ InHand')
        <= Crashes'
  BY <1>1, <1>2, <1>4, <1>5, <1>7, <1>8 DEF TornInv
<1>10. QED BY <1>1, <1>2, <1>4, <1>5, <1>6, <1>9, NamedTables DEF TornInv

LEMMA TornInserts == ASSUME TypeInv, TornInv, InsertTx PROVE TornInv'
<1> DEFINE blocks == db.blockchain_blocks
           old == db.blockchain_transactions
           new == db'.blockchain_transactions
           n == Len(blocks)
<1> IInv /\ ProcessTyped BY DEF TypeInv
<1>1. /\ pc \in TxStatements /\ pc' \notin TxStatements \cup TableNames
      /\ Crashes' = Crashes /\ Crashes \in Nat
  <2>1. pc \in TxStatements /\ pc' = NextPc(call)[pc]
    BY DEF InsertTx, Advance, GoTo, TxStatements
  <2>2. pc' \in {"objectRow", "eventRow", "revocationRow", "securityRow"}
    BY <2>1, NextTx DEF TxStatements
  <2>3. Statement
    BY DEF Statement
  <2>4. QED BY <2>1, <2>2, <2>3, TableNamesAre, StatementCourse, CrashesCounted
           DEF TxStatements, UpToObjects
<1>2. pc \notin TableNames /\ mode # "down" /\ ~Wiped
  BY <1>1, StatementsDiffer, TableNamesAre DEF ProcessTyped, Wiped, CallStatements
<1>3. n \in Nat /\ n >= 2 /\ blocks[n].root = TxId(TxKind(pc))
  BY <1>1 DEF TornInv, IInv, CallOnItsWay, TablesTyped, Linked, IsSequence
<1>4. db'.blockchain_blocks = blocks
  BY Inserts, NamedTables
<1>5. /\ DOMAIN new = DOMAIN old \cup {blocks[n].root}
      /\ \A x \in DOMAIN new : new[x].height = n - 1 \/ (x \in DOMAIN old /\ new[x] = old[x])
  BY <1>3, NamedTables DEF InsertTx, RecordTx, Put, TopHeight, IInv, TablesTyped
<1>6. \A x \in DOMAIN new : new[x].height >= 1
  <2> TAKE x \in DOMAIN new
  <2>1. CASE new[x].height = n - 1
    BY <1>3, <2>1
  <2>2. CASE x \in DOMAIN old /\ new[x] = old[x]
    BY <2>2 DEF TornInv
  <2>3. QED BY <1>5, <2>1, <2>2
<1>7. Torn(blocks, new) \subseteq Torn(blocks, old) \ {n}
  BY <1>5 DEF Torn
<1>8. Cardinality(Torn(blocks, new)) <= Crashes
  <2>1. IsFiniteSet(Torn(blocks, old) \ {n})
    BY <1>3, TornFinite, FS_Subset
  <2>2. Cardinality(Torn(blocks, old) \ {n}) <= Crashes
    BY <1>1, <1>2 DEF TornInv, InHand
  <2> HIDE DEF blocks, old, new, n
  <2>3. QED BY <1>1, <1>7, <2>1, <2>2, NoMore
<1>9. InHand' = {}
  BY <1>1 DEF InHand
<1>10. QED BY <1>1, <1>4, <1>6, <1>8, <1>9, NamedTables DEF TornInv

LEMMA TornLoads == ASSUME TypeInv, TornInv, LoadOrInitLedger PROVE TornInv'
<1> DEFINE txs == db.blockchain_transactions
<1> IInv /\ ProcessTyped BY DEF TypeInv
<1>1. /\ pc = "ledger" /\ pc' = "idle" /\ mode # "down" /\ Crashes' = Crashes /\ Crashes \in Nat
  <2>1. pc = "ledger" /\ pc' = NextPc(call)[pc]
    BY DEF LoadOrInitLedger, Advance, GoTo
  <2>2. Statement
    BY DEF Statement
  <2>3. QED BY <2>1, <2>2, NextStart, StatementCourse, CrashesCounted DEF ProcessTyped
<1>2. /\ pc \notin TableNames \cup TxStatements /\ pc' \notin TableNames \cup TxStatements
      /\ ~Wiped
  BY <1>1, TableNamesAre DEF UpToObjects, TxStatements, Wiped
<1>3. db'.blockchain_transactions = txs
  BY LoadsLedger, NamedTables
<1>4. CASE db'.blockchain_blocks = db.blockchain_blocks
  BY <1>1, <1>2, <1>3, <1>4, NamedTables DEF TornInv, InHand
<1>5. CASE db'.blockchain_blocks = <<Genesis(notary)>>
  <2>1. Torn(db'.blockchain_blocks, txs) = {}
    BY <1>5 DEF Torn
  <2>2. Cardinality({} \ InHand') <= Crashes'
    BY <1>1, <1>2, FS_EmptySet DEF InHand
  <2>3. QED BY <1>2, <1>3, <2>1, <2>2, NamedTables DEF TornInv
<1>6. db'.blockchain_blocks = db.blockchain_blocks \/ db'.blockchain_blocks = <<Genesis(notary)>>
  BY NamedTables DEF LoadOrInitLedger, IInv, TablesTyped
<1>7. QED BY <1>4, <1>5, <1>6

LEMMA TornDeletes == ASSUME TypeInv, TornInv, DeleteTable PROVE TornInv'
<1> DEFINE blocks == db.blockchain_blocks
           txs == db.blockchain_transactions
<1> IInv /\ ProcessTyped BY DEF TypeInv
<1>1. /\ pc \in TableNames /\ pc' = NextPc(call)[pc]
      /\ db'[pc] = <<>> /\ \A t \in TableNames \ {pc} : db'[t] = db[t]
  BY Deletes DEF DeleteTable, Advance, GoTo
<1>2. mode' = mode /\ mode # "down" /\ Crashes' = Crashes /\ Crashes \in Nat
  <2>1. Statement
    BY DEF Statement
  <2>2. QED BY <1>1, <2>1, StatementsDiffer, StatementCourse, CrashesCounted DEF ProcessTyped
<1>3. pc \notin TxStatements /\ pc' \notin TxStatements
  BY <1>1, NextTable, TableNamesAre DEF UpToObjects, TxStatements
<1>4. InHand = {} /\ InHand' = {}
  BY <1>3 DEF InHand
<1>5. DOMAIN <<>> = {}
  OBVIOUS
<1>6. CASE pc \in UpToObjects
  <2>1. /\ pc' \in UpToObjects \cup {"blockchain_transactions"}
        /\ pc' = "blockchain_transactions" => pc = "trust_objects"
    BY <1>1, <1>6, NextTable DEF UpToObjects
  <2>2. db'.blockchain_blocks = blocks /\ db'.blockchain_transactions = txs
    BY <1>1, <1>6, NamedTables DEF UpToObjects
  <2>3. pc' = "blockchain_transactions" => db'.trust_objects = <<>>
    BY <1>1, <2>1
  <2>4. Wiped => Wiped'
    BY <1>1, <2>1, <2>2, NamedTables DEF Wiped
  <2>5. QED BY <1>2, <1>3, <1>4, <2>1, <2>2, <2>3, <2>4 DEF TornInv, UpToObjects
<1>7. CASE pc = "blockchain_transactions"
  <2>1. pc' = "blockchain_blocks" /\ db'.blockchain_transactions = <<>>
        /\ db'.trust_objects = <<>>
    BY <1>1, <1>7, NextTable, NamedTables DEF TornInv
  <2>2. Wiped'
    BY <2>1 DEF Wiped
  <2>3. QED BY <1>3, <1>5, <2>1, <2>2 DEF TornInv
<1>8. CASE pc = "blockchain_blocks"
  <2>1. /\ pc' = "wallet_keystores" /\ db'.blockchain_transactions = <<>>
        /\ db'.blockchain_blocks = <<>>
    BY <1>1, <1>8, NextTable, NamedTables DEF TornInv, Wiped
  <2>2. Torn(<<>>, <<>>) = {} /\ Cardinality({} \ {}) <= Crashes
    BY <1>2, FS_EmptySet DEF Torn
  <2>3. QED BY <1>2, <1>3, <1>4, <1>5, <2>1, <2>2 DEF TornInv
<1>9. CASE pc \in {"wallet_keystores", "identities"}
  <2>1. pc' \in {"identities", "notaryKeystore"} /\ ~Wiped
    BY <1>1, <1>2, <1>9, NextTable DEF Wiped, UpToObjects
  <2>2. db'.blockchain_blocks = blocks /\ db'.blockchain_transactions = txs
    BY <1>1, <1>9, NamedTables
  <2>3. QED BY <1>2, <1>3, <1>4, <2>1, <2>2 DEF TornInv
<1>10. QED BY <1>1, <1>6, <1>7, <1>8, <1>9, TableNamesAre

LEMMA TornStarts == ASSUME TypeInv, TornInv, StartServer \/ StartSeedScript PROVE TornInv'
<1> ProcessTyped BY DEF TypeInv
<1>1. /\ pc = "idle" /\ db' = db /\ Crashes' = Crashes /\ mode' # "down"
      /\ \/ pc' = "security_events"
         \/ pc' = "notaryKeystore" /\ ~Wiped
  BY CrashesCounted
     DEF StartServer, StartSeedScript, bounds, Tables, ProcessTyped, Wiped
<1>2. InHand = {} /\ InHand' = {}
  BY <1>1, TableNamesAre DEF InHand, TxStatements
<1>3. Wiped => Wiped'
  BY <1>1 DEF Wiped, UpToObjects
<1>4. QED BY <1>1, <1>2, <1>3, TableNamesAre DEF TornInv, TxStatements

LEMMA TornAround == ASSUME TypeInv, TornInv, Around PROVE TornInv'
<1> DEFINE blocks == db.blockchain_blocks
           txs == db.blockchain_transactions
<1> IInv /\ ProcessTyped BY DEF TypeInv
<1>1. db' = db /\ pc' \notin TxStatements \cup TableNames /\ Crashes \in Nat
  BY AroundQuiet, AroundCourse, CrashesCounted, TableNamesAre
     DEF TxStatements, UpToObjects
<1>2. InHand' = {}
  BY <1>1 DEF InHand
<1>3. CASE pc = "idle" /\ mode # "down" /\ Crashes' = Crashes
  <2>1. ~Wiped /\ InHand = {}
    BY <1>3, StatementsDiffer, TableNamesAre DEF Wiped, InHand, CallStatements
  <2>2. QED BY <1>1, <1>2, <1>3, <2>1, NamedTables DEF TornInv
<1>4. CASE Crash /\ pc' = "idle" /\ mode' = "down"
  <2>1. Crashes' = Crashes + 1
    BY <1>4, CrashesCounted
  <2>2. Wiped => Wiped'
    BY <1>1, <1>4 DEF Wiped
  <2>3. ASSUME Cardinality(Torn(blocks, txs) \ InHand) <= Crashes
        PROVE  Cardinality(Torn(blocks, txs) \ {}) <= Crashes + 1
    <3>1. Len(blocks) \in Nat
      BY DEF IInv, TablesTyped, Linked, IsSequence
    <3>2. IsFiniteSet(Torn(blocks, txs) \ InHand)
      BY <3>1, TornFinite, FS_Subset
    <3>3. Torn(blocks, txs) \ {} \subseteq (Torn(blocks, txs) \ InHand) \cup {Len(blocks)}
      BY DEF InHand
    <3> HIDE DEF blocks, txs
    <3>4. QED BY <1>1, <2>3, <3>2, <3>3, OneMore
  <2>4. QED BY <1>1, <1>2, <2>1, <2>2, <2>3, NamedTables DEF TornInv
<1>5. QED BY <1>3, <1>4, AroundCounts

LEMMA TornSteps == TypeInv /\ TornInv /\ [Next]_vars => TornInv'
<1> SUFFICES ASSUME TypeInv, TornInv, [Next]_vars PROVE TornInv'
  OBVIOUS
<1>1. CASE UNCHANGED vars
  BY <1>1 DEF vars, bounds, TornInv, Wiped, InHand, Crashes
<1>2. QED BY <1>1, TornStatements, TornMines, TornInserts, TornLoads, TornDeletes, TornStarts,
             TornAround, StepCases

LEMMA InitTorn == Init => TornInv
<1> SUFFICES ASSUME Init PROVE TornInv
  OBVIOUS
<1>1. /\ mode = "down" /\ pc = "idle"
      /\ db.trust_objects = <<>> /\ db.blockchain_transactions = <<>>
  BY NamedTables DEF Init, EmptyDb
<1>2. Wiped /\ DOMAIN <<>> = {}
  BY <1>1 DEF Wiped
<1>3. QED BY <1>1, <1>2 DEF TornInv, TxStatements

------------------------------------------------------------------------------
(* Keys that differ from the published ones *)

Split(ids, wallet) == {d \in DOMAIN wallet : ~SignedBy(ids, d, wallet[d])}

\* The did between the two rows of its key.
KeyInHand ==
    IF pc \in {"keystoreRow", "deriveIdentity"} THEN {call.from}
    ELSE IF pc = "notaryIdentity" /\ Notary \notin DOMAIN db.identities THEN {Notary}
    ELSE {}

\* Where the notary has its keystore: before any object is stored and after the last
\* one is deleted.
NotaryInv ==
    /\ pc \in {"blockchain_transactions", "blockchain_blocks", "wallet_keystores", "identities"}
          => db.trust_objects = <<>>
    /\ db.trust_objects # <<>> => Notary \in DOMAIN db.wallet_keystores
    /\ pc \in {"notaryIdentity", "ledger"} \/ Running => Notary \in DOMAIN db.wallet_keystores

\* Every did but the one in hand and those a crash split publishes the key it signs
\* with.  A fresh notary has no identity row, which would be left alone.
KeysInv ==
    /\ pc = "keystoreRow" =>
          call.from \in DOMAIN db.identities /\ db.identities[call.from] = NewKey
    /\ pc = "deriveIdentity" =>
          call.from \in DOMAIN db.wallet_keystores /\ KeyOf(call.from) = DerivedKey
    /\ pc = "identities" => DOMAIN db.wallet_keystores = {}
    /\ pc = "notaryKeystore" =>
          Notary \in DOMAIN db.wallet_keystores \/ Notary \notin DOMAIN db.identities
    /\ pc = "notaryIdentity" => notary = KeyOf(Notary)
    /\ Cardinality(Split(db.identities, db.wallet_keystores) \ KeyInHand) <= Crashes

LEMMA SplitFinite ==
    ASSUME NEW ids, NEW wallet, IsFiniteSet(DOMAIN wallet), NEW hand
    PROVE  IsFiniteSet(Split(ids, wallet) \ hand)
  BY FS_Subset DEF Split

\* All but a call's own statements and the start's leave both rows alone.
LEMMA KeysAlone ==
    ASSUME IInv, Statement, ~KeyStatement, ~DeleteTable
    PROVE  /\ db'.identities = db.identities /\ db'.wallet_keystores = db.wallet_keystores
           /\ pc \in CallStatements \cup {"ledger"}
           /\ pc' \in (CallStatements \cup {"idle"}) \ {"keystoreRow", "deriveIdentity"}
           /\ pc \notin {"keystoreRow", "deriveIdentity", "notaryIdentity"}
<1> DOMAIN db = TableNames BY DEF IInv, TablesTyped
<1>1. QuietStatement \/ MineBlock \/ InsertTx \/ InsertObject \/ LoadOrInitLedger
  BY DEF Statement, QuietStatement
<1>2. db'.identities = db.identities /\ db'.wallet_keystores = db.wallet_keystores
  <2>1. InsertObject => LeavesAlone({"trust_objects"})
    BY DEF InsertObject, Row, LeavesAlone
  <2>2. QED BY <1>1, <2>1, QuietCases, QuietLeaves, Mines, Inserts, LoadsLedger, NamedTables
           DEF LeavesAlone
<1>3. pc \in (CallStatements \cup {"ledger"}) \ {"keystoreRow", "deriveIdentity", "identityRow",
                                                 "deriveKeystore"}
  BY DEF KeyStatement, Statement, RevokeUnknown, InsertObject, InsertEvent, EventRefused,
         SetOwner, InsertOwnership, InsertCredential, CredentialRefused, InsertRevocation,
         RevocationRefused, SetRevoked, InsertSecurityEvent, SetMetadata, InjectEvent,
         MineBlock, InsertTx, LoadOrInitLedger, CallStatements, TxStatements
<1>4. pc' = NextPc(call)[pc] \/ pc' = "idle"
  BY DEF KeyStatement, Statement, RevokeUnknown, InsertObject, InsertEvent, EventRefused,
         SetOwner, InsertOwnership, InsertCredential, CredentialRefused, InsertRevocation,
         RevocationRefused, SetRevoked, InsertSecurityEvent, SetMetadata, InjectEvent,
         MineBlock, InsertTx, LoadOrInitLedger, Advance, Abort, GoTo
<1>5. pc' \in (CallStatements \cup {"idle"}) \ {"keystoreRow", "deriveIdentity"}
  BY <1>3, <1>4, NextBlock, NextTx, NextRow, NextStart DEF CallStatements, TxStatements
<1>6. pc # "notaryIdentity"
  BY <1>3 DEF CallStatements, TxStatements
<1>7. QED BY <1>2, <1>3, <1>5, <1>6

\* The rows a key statement writes.
LEMMA KeyRows ==
    ASSUME IInv, KeyStatement
    PROVE  \/ /\ pc = "identityRow" /\ pc' = "keystoreRow" /\ call' = call
              /\ db'.identities = Put(db.identities, call.from, NewKey)
              /\ db'.wallet_keystores = db.wallet_keystores
           \/ /\ pc = "keystoreRow" /\ pc' = "idle"
              /\ db'.identities = db.identities
              /\ db'.wallet_keystores = Put(db.wallet_keystores, call.from, NewKey)
           \/ /\ pc = "deriveKeystore" /\ pc' = "deriveIdentity" /\ call' = call
              /\ db'.identities = db.identities
              /\ db'.wallet_keystores = Put(db.wallet_keystores, call.from, DerivedKey)
           \/ /\ pc = "deriveIdentity" /\ pc' = FirstPc(call.op)
              /\ pc' \in CallStatements \ {"deriveKeystore", "deriveIdentity", "keystoreRow"}
              /\ db'.identities = Put(db.identities, call.from, DerivedKey)
              /\ db'.wallet_keystores = db.wallet_keystores
           \/ /\ pc = "notaryKeystore" /\ pc' = "notaryIdentity"
              /\ db'.identities = db.identities
              /\ \/ /\ Notary \in DOMAIN db.wallet_keystores
                    /\ db'.wallet_keystores = db.wallet_keystores
                 \/ /\ Notary \notin DOMAIN db.wallet_keystores
                    /\ db'.wallet_keystores = Put(db.wallet_keystores, Notary, DerivedKey)
              /\ notary' = db'.wallet_keystores[Notary]
           \/ /\ pc = "notaryIdentity" /\ pc' = "ledger"
              /\ db'.wallet_keystores = db.wallet_keystores
              /\ \/ Notary \in DOMAIN db.identities /\ db'.identities = db.identities
                 \/ /\ Notary \notin DOMAIN db.identities
                    /\ db'.identities = Put(db.identities, Notary, notary)
<1> DOMAIN db = TableNames BY DEF IInv, TablesTyped
<1>1. CASE IdentityRow \/ KeystoreRow
  BY <1>1, NextRow, NamedTables DEF IdentityRow, KeystoreRow, Row, Advance, GoTo
<1>2. CASE DeriveKeystore
  BY <1>2, NamedTables DEF DeriveKeystore, Row, GoTo
<1>3. CASE DeriveIdentity
  <2>1. pc = "deriveIdentity" /\ call \in Call
    BY <1>3 DEF DeriveIdentity, IInv, ControlTyped, CallStatements
  <2>2. FirstPc(call.op) \in CallStatements \ {"deriveKeystore", "deriveIdentity",
                                               "keystoreRow"}
    BY <2>1, FirstStatement DEF CallStatements
  <2>3. QED BY <1>3, <2>2, NamedTables DEF DeriveIdentity, Row, GoTo
<1>4. CASE NotaryKeystore
  BY <1>4, NextStart, NamedTables DEF NotaryKeystore, Row, Advance, GoTo
<1>5. CASE NotaryIdentity
  BY <1>5, NextStart, NamedTables DEF NotaryIdentity, Row, Advance, GoTo
<1>6. QED BY <1>1, <1>2, <1>3, <1>4, <1>5 DEF KeyStatement

LEMMA NotarySteps ==
    ASSUME TypeInv, NotaryInv, [Next]_vars PROVE NotaryInv'
<1> DEFINE wallet == db.wallet_keystores
           sensitive == {"blockchain_transactions", "blockchain_blocks", "wallet_keystores",
                         "identities"}
<1> IInv /\ ProcessTyped BY DEF TypeInv
<1>1. CASE Statement /\ ~DeleteTable
  <2>1. pc' \notin sensitive /\ mode' = mode /\ mode # "down"
    BY <1>1, StatementCourse, StatementsDiffer, NamedTables, KeysAlone, KeyRows, TableNamesAre
       DEF ProcessTyped, CallStatements, TxStatements
  <2>2. Notary \in DOMAIN wallet => Notary \in DOMAIN db'.wallet_keystores
    BY <1>1, KeysAlone, KeyRows DEF Put
  <2>3. CASE pc = "notaryKeystore"
    <3>1. Notary \in DOMAIN db'.wallet_keystores
      BY <1>1, <2>3, StatementsDiffer, KeysAlone, KeyRows
         DEF Put, CallStatements, TxStatements
    <3>2. QED BY <2>1, <3>1 DEF NotaryInv
  <2>4. CASE pc # "notaryKeystore"
    <3>1. pc \in {"notaryIdentity", "ledger"} \/ Running
      BY <1>1, <2>1, <2>4, StatementsDiffer, KeysAlone, KeyRows DEF Running, CallStatements
    <3>2. Notary \in DOMAIN db'.wallet_keystores
      BY <2>2, <3>1 DEF NotaryInv
    <3>3. QED BY <2>1, <3>2 DEF NotaryInv
  <2>5. QED BY <2>3, <2>4
<1>2. CASE DeleteTable
  <2>1. /\ pc \in TableNames /\ pc' = NextPc(call)[pc]
        /\ db'[pc] = <<>> /\ \A t \in TableNames \ {pc} : db'[t] = db[t]
    BY <1>2, Deletes DEF DeleteTable, Advance, GoTo
  <2>2. pc' \in TableNames \cup {"notaryKeystore"} /\ pc' \notin {"notaryIdentity", "ledger"}
    BY <2>1, NextTable, TableNamesAre DEF UpToObjects
  <2>3. ~Running'
    BY <2>2 DEF Running, StartStatements
  <2>4. pc' \in sensitive => db'.trust_objects = <<>>
    BY <2>1, NextTable, NamedTables, TableNamesAre DEF NotaryInv, UpToObjects
  <2>5. db'.trust_objects # <<>> => Notary \in DOMAIN db'.wallet_keystores
    BY <2>1, NamedTables DEF NotaryInv
  <2>6. QED BY <2>2, <2>3, <2>4, <2>5 DEF NotaryInv
<1>3. CASE StartServer \/ StartSeedScript
  <2>1. db' = db /\ pc' \in {"security_events", "notaryKeystore"}
    BY <1>3 DEF StartServer, StartSeedScript, Tables
  <2>2. ~Running'
    BY <2>1, TableNamesAre DEF Running, StartStatements, UpToObjects
  <2>3. QED BY <2>1, <2>2 DEF NotaryInv
<1>4. CASE Around
  <2>1. db' = db /\ pc' \notin sensitive \cup {"notaryIdentity", "ledger"}
    BY <1>4, AroundCourse
  <2>2. Running' => Running
    BY <1>4, AroundCounts, StatementsDiffer DEF Running
  <2>3. QED BY <2>1, <2>2 DEF NotaryInv
<1>5. CASE UNCHANGED vars
  BY <1>5 DEF vars, NotaryInv, Running
<1>6. QED BY <1>1, <1>2, <1>3, <1>4, <1>5, StepCases DEF Statement, QuietStatement

\* The count stays when the did in hand takes the rest of what is split.
LEMMA SplitCount ==
    ASSUME TypeInv, KeysInv, Crashes' = Crashes,
           Split(db'.identities, db'.wallet_keystores) \ KeyInHand'
             \subseteq Split(db.identities, db.wallet_keystores) \ KeyInHand
    PROVE  Cardinality(Split(db'.identities, db'.wallet_keystores) \ KeyInHand') <= Crashes'
<1> DEFINE old == Split(db.identities, db.wallet_keystores) \ KeyInHand
           new == Split(db'.identities, db'.wallet_keystores) \ KeyInHand'
<1>1. IsFiniteSet(old)
  BY SplitFinite DEF TypeInv, KeyRowsTyped
<1>2. Crashes \in Nat /\ Cardinality(old) <= Crashes
  BY CrashesCounted DEF TypeInv, KeysInv
<1>3. new \subseteq old
  OBVIOUS
<1> HIDE DEF old, new
<1>4. Cardinality(new) <= Crashes
  BY <1>1, <1>2, <1>3, NoMore
<1>5. QED BY <1>4 DEF new

LEMMA KeysFrame ==
    ASSUME TypeInv, KeysInv, Crashes' = Crashes,
           db'.identities = db.identities, db'.wallet_keystores = db.wallet_keystores,
           pc \notin {"keystoreRow", "deriveIdentity", "notaryIdentity"},
           pc' \notin {"keystoreRow", "deriveIdentity", "notaryIdentity", "notaryKeystore",
                       "identities"}
    PROVE  KeysInv'
<1>1. KeyInHand = {} /\ KeyInHand' = {}
  BY DEF KeyInHand
<1>2. QED BY <1>1, SplitCount DEF KeysInv

LEMMA KeysWritten ==
    ASSUME TypeInv, KeysInv, KeyStatement
    PROVE  KeysInv'
<1> DEFINE ids == db.identities
           wallet == db.wallet_keystores
           old == Split(ids, wallet) \ KeyInHand
           new == Split(db'.identities, db'.wallet_keystores) \ KeyInHand'
<1> IInv /\ ProcessTyped BY DEF TypeInv
<1>1. UNCHANGED <<mode, calls>> /\ Crashes' = Crashes
  <2>1. Statement
    BY DEF KeyStatement, Statement
  <2>2. QED BY <2>1, StatementCourse, CrashesCounted
<1>2. NewKey' = NewKey
  BY <1>1 DEF NewKey
<1>3. CASE pc = "identityRow"
  <2>1. /\ pc' = "keystoreRow" /\ call' = call
        /\ db'.identities = Put(ids, call.from, NewKey) /\ db'.wallet_keystores = wallet
    BY <1>3, KeyRows
  <2>2. KeyInHand = {} /\ KeyInHand' = {call.from}
    BY <1>3, <2>1 DEF KeyInHand
  <2>3. new \subseteq old
    BY <2>1, <2>2 DEF Split, SignedBy, Put
  <2>4. call'.from \in DOMAIN db'.identities /\ db'.identities[call'.from] = NewKey
    BY <2>1 DEF Put
  <2>5. QED BY <1>1, <1>2, <2>1, <2>3, <2>4, SplitCount DEF KeysInv
<1>4. CASE pc = "keystoreRow"
  <2>1. /\ pc' = "idle" /\ db'.identities = ids
        /\ db'.wallet_keystores = Put(wallet, call.from, NewKey)
    BY <1>4, KeyRows
  <2>2. KeyInHand = {call.from} /\ KeyInHand' = {}
    BY <1>4, <2>1 DEF KeyInHand
  <2>3. new \subseteq old
    BY <1>4, <2>1, <2>2 DEF Split, SignedBy, Put, KeysInv
  <2>4. QED BY <1>1, <2>1, <2>3, SplitCount DEF KeysInv
<1>5. CASE pc = "deriveKeystore"
  <2>1. /\ pc' = "deriveIdentity" /\ call' = call /\ db'.identities = ids
        /\ db'.wallet_keystores = Put(wallet, call.from, DerivedKey)
    BY <1>5, KeyRows
  <2>2. KeyInHand = {} /\ KeyInHand' = {call.from}
    BY <1>5, <2>1 DEF KeyInHand
  <2>3. new \subseteq old
    BY <2>1, <2>2 DEF Split, SignedBy, Put
  <2>4. call'.from \in DOMAIN db'.wallet_keystores
        /\ db'.wallet_keystores[call'.from] = DerivedKey
    BY <2>1 DEF Put
  <2>5. QED BY <1>1, <2>1, <2>3, <2>4, SplitCount DEF KeysInv, KeyOf
<1>6. CASE pc = "deriveIdentity"
  <2>1. /\ pc' \in CallStatements \ {"deriveKeystore", "deriveIdentity", "keystoreRow"}
        /\ db'.identities = Put(ids, call.from, DerivedKey) /\ db'.wallet_keystores = wallet
    BY <1>6, KeyRows
  <2>2. pc' \notin {"identities", "notaryKeystore", "notaryIdentity"}
    BY <2>1 DEF CallStatements, TxStatements
  <2>3. KeyInHand = {call.from} /\ KeyInHand' = {}
    BY <1>6, <2>1, <2>2 DEF KeyInHand
  <2>4. new \subseteq old
    BY <1>6, <2>1, <2>3 DEF Split, SignedBy, Put, KeysInv, KeyOf
  <2>5. QED BY <1>1, <2>1, <2>2, <2>4, SplitCount DEF KeysInv
<1>7. CASE pc = "notaryKeystore"
  <2>1. /\ pc' = "notaryIdentity" /\ db'.identities = ids
        /\ \/ Notary \in DOMAIN wallet /\ db'.wallet_keystores = wallet
           \/ /\ Notary \notin DOMAIN wallet
              /\ db'.wallet_keystores = Put(wallet, Notary, DerivedKey)
        /\ notary' = db'.wallet_keystores[Notary]
    BY <1>7, KeyRows
  <2>2. KeyInHand = {}
        /\ KeyInHand' = IF Notary \notin DOMAIN ids THEN {Notary} ELSE {}
    BY <1>7, <2>1 DEF KeyInHand
  <2>3. new \subseteq old
    BY <1>7, <2>1, <2>2 DEF Split, SignedBy, Put, KeysInv
  <2>4. QED BY <1>1, <2>1, <2>3, SplitCount DEF KeysInv, KeyOf
<1>8. CASE pc = "notaryIdentity"
  <2>1. /\ pc' = "ledger" /\ db'.wallet_keystores = wallet
        /\ \/ Notary \in DOMAIN ids /\ db'.identities = ids
           \/ Notary \notin DOMAIN ids /\ db'.identities = Put(ids, Notary, notary)
    BY <1>8, KeyRows
  <2>2. KeyInHand' = {}
        /\ KeyInHand = IF Notary \notin DOMAIN ids THEN {Notary} ELSE {}
    BY <1>8, <2>1 DEF KeyInHand
  <2>3. new \subseteq old
    BY <1>8, <2>1, <2>2 DEF Split, SignedBy, Put, KeysInv, KeyOf
  <2>4. QED BY <1>1, <2>1, <2>3, SplitCount DEF KeysInv
<1>9. QED BY <1>3, <1>4, <1>5, <1>6, <1>7, <1>8, KeyRows

LEMMA KeysDeletes ==
    ASSUME TypeInv, KeysInv, DeleteTable
    PROVE  KeysInv'
<1> IInv /\ ProcessTyped BY DEF TypeInv
<1>1. /\ pc \in TableNames /\ pc' = NextPc(call)[pc]
      /\ db'[pc] = <<>> /\ \A t \in TableNames \ {pc} : db'[t] = db[t]
  BY Deletes DEF DeleteTable, Advance, GoTo
<1>2. /\ pc \notin {"keystoreRow", "deriveIdentity", "notaryIdentity"}
      /\ pc' \notin {"keystoreRow", "deriveIdentity", "notaryIdentity"}
      /\ pc' = "identities" => pc = "wallet_keystores"
      /\ pc' = "notaryKeystore" => pc = "identities"
  BY <1>1, NextTable, TableNamesAre DEF UpToObjects
<1>3. Crashes' = Crashes /\ Crashes \in Nat
  <2>1. Statement
    BY DEF Statement
  <2>2. QED BY <2>1, StatementCourse, CrashesCounted
<1>4. KeyInHand = {} /\ KeyInHand' = {} /\ DOMAIN <<>> = {}
  BY <1>2 DEF KeyInHand
<1>5. Split(db'.identities, db'.wallet_keystores)
        \subseteq Split(db.identities, db.wallet_keystores)
  BY <1>1, <1>4, NamedTables DEF Split, KeysInv
<1>6. /\ pc' = "identities" => DOMAIN db'.wallet_keystores = {}
      /\ pc' = "notaryKeystore" => Notary \notin DOMAIN db'.identities
  BY <1>1, <1>2, <1>4
<1>7. QED BY <1>2, <1>3, <1>4, <1>5, <1>6, SplitCount DEF KeysInv

LEMMA KeysSteps ==
    ASSUME TypeInv, NotaryInv, KeysInv, [Next]_vars PROVE KeysInv'
<1> DEFINE ids == db.identities
           wallet == db.wallet_keystores
<1> IInv /\ ProcessTyped BY DEF TypeInv
<1>1. CASE Statement /\ ~KeyStatement /\ ~DeleteTable
  <2>1. Crashes' = Crashes
    BY <1>1, StatementCourse, CrashesCounted
  <2>2. pc' \notin {"notaryIdentity", "notaryKeystore", "identities"}
    BY <1>1, KeysAlone DEF CallStatements, TxStatements
  <2>3. QED BY <1>1, <2>1, <2>2, KeysAlone, KeysFrame
<1>2. CASE KeyStatement
  BY <1>2, KeysWritten
<1>3. CASE DeleteTable
  BY <1>3, KeysDeletes
<1>4. CASE StartServer \/ StartSeedScript
  <2>1. /\ pc = "idle" /\ db' = db /\ Crashes' = Crashes
        /\ \/ pc' = "security_events"
           \/ pc' = "notaryKeystore" /\ db.trust_objects # <<>>
    BY <1>4, CrashesCounted
       DEF StartServer, StartSeedScript, bounds, Tables, ProcessTyped
  <2>2. KeyInHand = {} /\ KeyInHand' = {}
    BY <2>1 DEF KeyInHand
  <2>3. pc' = "notaryKeystore" => Notary \in DOMAIN db'.wallet_keystores
    BY <2>1 DEF NotaryInv
  <2>4. QED BY <2>1, <2>2, <2>3 DEF KeysInv
<1>5. CASE Around
  <2>1. /\ db' = db
        /\ pc' \notin {"keystoreRow", "deriveIdentity", "notaryIdentity", "notaryKeystore",
                       "identities"}
    BY <1>5, AroundCourse
  <2>2. CASE pc = "idle" /\ Crashes' = Crashes
    BY <2>1, <2>2, KeysFrame
  <2>3. CASE Crash
    <3>1. Crashes' = Crashes + 1 /\ Crashes \in Nat
      BY <2>3, CrashesCounted
    <3>2. IsFiniteSet(Split(ids, wallet) \ KeyInHand)
          /\ Cardinality(Split(ids, wallet) \ KeyInHand) <= Crashes
      BY SplitFinite DEF TypeInv, KeyRowsTyped, KeysInv
    <3>3. PICK d : KeyInHand \subseteq {d}
      BY DEF KeyInHand
    <3>4. Split(ids, wallet) \ {} \subseteq (Split(ids, wallet) \ KeyInHand) \cup {d}
      BY <3>3
    <3>5. Cardinality(Split(ids, wallet) \ {}) <= Crashes + 1
      <4> HIDE DEF ids, wallet
      <4>1. QED BY <3>1, <3>2, <3>4, OneMore
    <3>6. KeyInHand' = {}
      BY <2>1 DEF KeyInHand
    <3>7. QED BY <2>1, <3>1, <3>5, <3>6 DEF KeysInv
  <2>4. QED BY <1>5, <2>2, <2>3, AroundCounts
<1>6. CASE UNCHANGED vars
  BY <1>6 DEF vars, memory, bounds, KeysInv, KeyInHand, NewKey, KeyOf, Crashes
<1>7. QED BY <1>1, <1>2, <1>3, <1>4, <1>5, <1>6, StepCases DEF Statement, QuietStatement

LEMMA InitKeys == Init => NotaryInv /\ KeysInv
<1> SUFFICES ASSUME Init PROVE NotaryInv /\ KeysInv
  OBVIOUS
<1>1. /\ mode = "down" /\ pc = "idle" /\ Crashes = 0
      /\ db.trust_objects = <<>> /\ db.wallet_keystores = <<>>
  BY NamedTables DEF Init, EmptyDb, Crashes
<1>2. DOMAIN <<>> = {} /\ Cardinality({}) = 0
  BY FS_EmptySet
<1>3. Split(db.identities, db.wallet_keystores) \ KeyInHand = {}
  BY <1>1, <1>2 DEF Split
<1>4. NotaryInv
  BY <1>1 DEF NotaryInv, Running
<1>5. Cardinality(Split(db.identities, db.wallet_keystores) \ KeyInHand) <= Crashes
  BY <1>1, <1>2, <1>3
<1>6. QED BY <1>1, <1>4, <1>5 DEF KeysInv

\* At most one did for each crash signs with another key than its identity publishes,
\* the did in hand aside (wallet.service.ts writes keystore and identity in two
\* statements), for every seed, every set of requests and any number of crashes.
THEOREM CrashesSplitKeys == Spec => []OnlyCrashesSplitKeys
<1> DEFINE Inv == TypeInv /\ NotaryInv /\ KeysInv
<1>1. Init => Inv
  BY InitTypes, InitKeys
<1>2. Inv /\ [Next]_vars => Inv'
  BY TypeSteps, NotarySteps, KeysSteps
<1>3. Inv => OnlyCrashesSplitKeys
  <2> SUFFICES ASSUME Inv PROVE OnlyCrashesSplitKeys
    OBVIOUS
  <2> DEFINE hand == IF call # NoCall THEN {call.from}
                     ELSE IF pc = "notaryIdentity" THEN {Notary} ELSE {}
             split == Split(db.identities, db.wallet_keystores)
  <2>1. KeyInHand \subseteq hand
    <3>1. pc \in {"keystoreRow", "deriveIdentity"} => call \in Call
      BY DEF TypeInv, IInv, ControlTyped, CallStatements
    <3>2. call \in Call => call # NoCall
      BY DEF Call, NoCall
    <3>3. pc = "notaryIdentity" => call = NoCall
      BY DEF TypeInv, ProcessTyped, CallStatements, TxStatements
    <3>4. QED BY <3>1, <3>2, <3>3 DEF KeyInHand
  <2>2. IsFiniteSet(split \ KeyInHand) /\ Cardinality(split \ KeyInHand) <= Crashes
        /\ Crashes \in Nat
    BY SplitFinite, CrashesCounted DEF TypeInv, KeyRowsTyped, KeysInv
  <2>3. split \ hand \subseteq split \ KeyInHand
    BY <2>1
  <2>4. Cardinality(split \ hand) <= Crashes
    <3> HIDE DEF split, hand
    <3>1. QED BY <2>2, <2>3, NoMore
  <2>5. QED BY <2>4 DEF OnlyCrashesSplitKeys, Split, KeyOf
<1>4. QED BY <1>1, <1>2, <1>3, PTL DEF Spec

------------------------------------------------------------------------------
(* Revocations *)

RevokedIn(txs, o) == IsAnchored(txs, o) /\ Proof(txs, o).status = "REVOKED"

HasRevocation(txs, o) == \E id \in ProofTxs(txs, o) : id[1] = "REVOKE_PROOF"

\* The objects the ledger calls revoked and their row does not.
Overlooked(objects, txs) ==
    {o \in DOMAIN objects : RevokedIn(txs, o) /\ objects[o].status = "ACTIVE"}

\* The object whose revocation is on the ledger and not yet in its row.
BeingRevoked == IF pc \in {"revocationRow", "statusColumn"} THEN {call.obj} ELSE {}

StatusTyped(objects) ==
    \A o \in DOMAIN objects :
        "status" \in DOMAIN objects[o]
        /\ objects[o].status \in {"ACTIVE", "REVOKED", "TAMPERED"}

\* What tables say of a revocation, the ledger says; what the ledger says is in the
\* object's row too, but for the object in hand and those a crash left.
RevocationInv ==
    /\ StatusTyped(db.trust_objects)
    /\ \A o \in DOMAIN db.trust_objects :
          db.trust_objects[o].status = "REVOKED" \/ o \in DOMAIN db.revocations =>
              HasRevocation(db.blockchain_transactions, o)
    /\ pc \in {"revocationRow", "statusColumn"} =>
          HasRevocation(db.blockchain_transactions, call.obj)
    /\ pc = "objectRow" => ~RevokedIn(db.blockchain_transactions, call.obj)
    /\ Cardinality(Overlooked(db.trust_objects, db.blockchain_transactions) \ BeingRevoked)
          <= Crashes

LEMMA RevokedByMap ==
    ASSUME NEW txs, NEW o
    PROVE  RevokedIn(txs, o) <=> /\ o \in DOMAIN ProofMap(txs)
                                 /\ ProofMap(txs)[o].status = "REVOKED"
  BY MapIsOfAnchored DEF RevokedIn

\* The proof map after a transaction's row.
LEMMA InsertedProofs ==
    ASSUME IInv, InsertTx
    PROVE  LET old == ProofMap(db.blockchain_transactions)
               new == ProofMap(db'.blockchain_transactions)
               hash == TxHash(TxKind(pc))
           IN  /\ pc = "registerTx" =>
                    new = Put(old, call.obj, [hash |-> hash, status |-> "ACTIVE"])
               /\ pc = "revokeTx" =>
                    new = Put(old, call.obj, [hash |-> hash, status |-> "REVOKED"])
               /\ pc \in {"eventTx", "alertTx"} => new = old
<1> DEFINE blocks == db.blockchain_blocks
           txs == db.blockchain_transactions
           id == TxId(TxKind(pc))
           hash == TxHash(TxKind(pc))
<1>1. Linked(blocks, txs) /\ CallOnItsWay /\ DOMAIN db = TableNames /\ pc \in TxStatements
  BY DEF IInv, TablesTyped, InsertTx, TxStatements
<1>2. db'.blockchain_transactions = RecordTx(txs, id, TopHeight(blocks), hash, notary)
  BY <1>1, TableNamesAre DEF InsertTx
<1>3. /\ TopHeight(blocks) \in Int
      /\ \A j \in DOMAIN txs \ {id} : txs[j].height < TopHeight(blocks)
  <2>1. Len(blocks) \in Nat /\ blocks[Len(blocks)].root = id
    BY <1>1 DEF Linked, IsSequence, CallOnItsWay
  <2> HIDE DEF id, blocks, txs
  <2>2. QED BY <1>1, <2>1 DEF Linked, TopHeight
<1>4. id[1] = TxKind(pc) /\ id[2] = call.obj
  BY DEF TxId
<1>5. ChangesStatus(id) =>
        ProofMap(db'.blockchain_transactions) =
          Put(ProofMap(txs), id[2],
              [hash |-> hash,
               status |-> IF id[1] = "REVOKE_PROOF" THEN "REVOKED" ELSE "ACTIVE"])
  <2> HIDE DEF id, blocks, txs, hash
  <2>1. QED BY <1>1, <1>2, <1>3, LatestCounts
<1>6. ~ChangesStatus(id) => ProofMap(db'.blockchain_transactions) = ProofMap(txs)
  <2> HIDE DEF id, blocks, txs, hash
  <2>1. QED BY <1>1, <1>2, OthersDoNotCount
<1>7. /\ pc = "registerTx" => ChangesStatus(id) /\ id[1] # "REVOKE_PROOF"
      /\ pc = "revokeTx" => ChangesStatus(id) /\ id[1] = "REVOKE_PROOF"
      /\ pc \in {"eventTx", "alertTx"} => ~ChangesStatus(id)
  BY <1>4, KindOf DEF ChangesStatus
<1> HIDE DEF id, hash, txs
<1>8. QED BY <1>4, <1>5, <1>6, <1>7 DEF hash, txs

LEMMA InsertedRevocations ==
    ASSUME IInv, InsertTx
    PROVE  LET old == db.blockchain_transactions
               new == db'.blockchain_transactions
           IN  /\ \A o : o # call.obj => (RevokedIn(new, o) <=> RevokedIn(old, o))
               /\ pc = "registerTx" => ~RevokedIn(new, call.obj)
               /\ pc = "revokeTx" => HasRevocation(new, call.obj)
               /\ pc \in {"eventTx", "alertTx"} =>
                    (RevokedIn(new, call.obj) <=> RevokedIn(old, call.obj))
               /\ \A o : HasRevocation(old, o) => HasRevocation(new, o)
<1> DEFINE old == db.blockchain_transactions
           new == db'.blockchain_transactions
           id == TxId(TxKind(pc))
<1>1. pc \in TxStatements /\ DOMAIN db = TableNames
  BY DEF InsertTx, TxStatements, IInv, TablesTyped
<1>2. DOMAIN new = DOMAIN old \cup {id}
  BY <1>1, NamedTables DEF InsertTx, RecordTx, Put
<1>3. \A o : HasRevocation(old, o) => HasRevocation(new, o)
  BY <1>2 DEF HasRevocation, ProofTxs
<1>4. pc = "revokeTx" => HasRevocation(new, call.obj)
  <2>1. pc = "revokeTx" => id[1] = "REVOKE_PROOF" /\ id[2] = call.obj
    BY KindOf DEF TxId
  <2> HIDE DEF id, old, new
  <2>2. QED BY <1>2, <2>1 DEF HasRevocation, ProofTxs, ChangesStatus
<1>5. \A o : o # call.obj => (RevokedIn(new, o) <=> RevokedIn(old, o))
  <2>1. \A o : o # call.obj => /\ o \in DOMAIN ProofMap(new) <=> o \in DOMAIN ProofMap(old)
                               /\ o \in DOMAIN ProofMap(old) =>
                                     ProofMap(new)[o] = ProofMap(old)[o]
    BY <1>1, InsertedProofs DEF Put, TxStatements
  <2>2. QED BY <2>1, RevokedByMap
<1>6. pc = "registerTx" => ~RevokedIn(new, call.obj)
  <2>1. pc = "registerTx" => ProofMap(new)[call.obj].status = "ACTIVE"
    BY InsertedProofs DEF Put
  <2>2. QED BY <2>1, RevokedByMap
<1>7. pc \in {"eventTx", "alertTx"} =>
        (RevokedIn(new, call.obj) <=> RevokedIn(old, call.obj))
  BY InsertedProofs, RevokedByMap
<1>8. QED BY <1>3, <1>4, <1>5, <1>6, <1>7

LEMMA OverlookedCount ==
    ASSUME TypeInv, RevocationInv, Crashes' = Crashes,
           Overlooked(db'.trust_objects, db'.blockchain_transactions) \ BeingRevoked'
             \subseteq Overlooked(db.trust_objects, db.blockchain_transactions) \ BeingRevoked
    PROVE  Cardinality(Overlooked(db'.trust_objects, db'.blockchain_transactions)
                         \ BeingRevoked') <= Crashes'
<1> DEFINE old == Overlooked(db.trust_objects, db.blockchain_transactions) \ BeingRevoked
           new == Overlooked(db'.trust_objects, db'.blockchain_transactions) \ BeingRevoked'
<1>1. IsFiniteSet(old)
  <2>1. IsFiniteSet(DOMAIN db.trust_objects) /\ old \subseteq DOMAIN db.trust_objects
    BY DEF TypeInv, ObjectRowsTyped, Overlooked
  <2> HIDE DEF old
  <2>2. QED BY <2>1, FS_Subset
<1>2. Crashes \in Nat /\ Cardinality(old) <= Crashes
  BY CrashesCounted DEF TypeInv, RevocationInv
<1>3. new \subseteq old
  OBVIOUS
<1> HIDE DEF old, new
<1>4. Cardinality(new) <= Crashes
  BY <1>1, <1>2, <1>3, NoMore
<1>5. QED BY <1>4 DEF new

LEMMA RevocationFrame ==
    ASSUME TypeInv, RevocationInv, Crashes' = Crashes,
           db'.trust_objects = db.trust_objects, db'.revocations = db.revocations,
           db'.blockchain_transactions = db.blockchain_transactions,
           pc \notin {"revocationRow", "statusColumn"},
           pc' \notin {"revocationRow", "statusColumn", "objectRow"}
    PROVE  RevocationInv'
<1>1. BeingRevoked = {} /\ BeingRevoked' = {}
  BY DEF BeingRevoked
<1>2. QED BY <1>1, OverlookedCount DEF RevocationInv

\* A column of an object's row: what becomes of its status.
LEMMA ColumnsWritten ==
    ASSUME TypeInv, RevocationInv, ColumnStatement
    PROVE  /\ DOMAIN db'.trust_objects = DOMAIN db.trust_objects
           /\ StatusTyped(db'.trust_objects)
           /\ \A o \in DOMAIN db.trust_objects :
                 db'.trust_objects[o].status =
                   IF o # call.obj \/ pc = "ownerColumn" THEN db.trust_objects[o].status
                   ELSE IF pc = "statusColumn" THEN "REVOKED" ELSE "TAMPERED"
           /\ pc \in {"ownerColumn", "statusColumn", "metadata"}
           /\ pc' \in {"ownershipRow", "idle"}
<1> DEFINE objects == db.trust_objects
<1>1. DOMAIN db = TableNames /\ StatusTyped(objects)
  BY DEF TypeInv, IInv, TablesTyped, RevocationInv
<1>2. CASE SetOwner
  <2>1. db'.trust_objects = [objects EXCEPT ![call.obj] = [@ EXCEPT !.owner = call.to]]
    BY <1>1, <1>2, NamedTables DEF SetOwner
  <2>2. pc = "ownerColumn" /\ pc' = "ownershipRow"
    BY <1>2, NextRow DEF SetOwner, Advance, GoTo
  <2>3. QED BY <1>1, <2>1, <2>2 DEF StatusTyped
<1>3. CASE SetRevoked
  <2>1. db'.trust_objects = [objects EXCEPT ![call.obj] = [@ EXCEPT !.status = "REVOKED"]]
    BY <1>1, <1>3, NamedTables DEF SetRevoked
  <2>2. pc = "statusColumn" /\ pc' = "idle"
    BY <1>3, NextRow DEF SetRevoked, Advance, GoTo
  <2>3. QED BY <1>1, <2>1, <2>2 DEF StatusTyped
<1>4. CASE SetMetadata
  <2>1. db'.trust_objects = [objects EXCEPT ![call.obj] =
                               [@ EXCEPT !.meta = call.meta, !.drift = (call.op = "audit"),
                                         !.status = "TAMPERED"]]
    BY <1>1, <1>4, NamedTables DEF SetMetadata
  <2>2. pc = "metadata" /\ pc' = "idle"
    BY <1>4, NextRow DEF SetMetadata, Advance, GoTo
  <2>3. QED BY <1>1, <2>1, <2>2 DEF StatusTyped
<1>5. QED BY <1>2, <1>3, <1>4 DEF ColumnStatement

LEMMA RevocationColumns ==
    ASSUME TypeInv, RevocationInv, ColumnStatement
    PROVE  RevocationInv'
<1> DEFINE objects == db.trust_objects
           txs == db.blockchain_transactions
<1> IInv /\ ProcessTyped /\ DOMAIN db = TableNames BY DEF TypeInv, IInv, TablesTyped
<1>1. /\ db'.blockchain_transactions = txs /\ db'.revocations = db.revocations
  BY QuietLeaves, NamedTables DEF LeavesAlone
<1>2. Crashes' = Crashes
  <2>1. Statement
    BY DEF Statement, ColumnStatement
  <2>2. QED BY <2>1, StatementCourse, CrashesCounted
<1>3. pc' \notin {"revocationRow", "statusColumn", "objectRow"} /\ BeingRevoked' = {}
  BY ColumnsWritten DEF BeingRevoked
<1>4. \A o \in DOMAIN db'.trust_objects :
        db'.trust_objects[o].status = "REVOKED" \/ o \in DOMAIN db'.revocations =>
            HasRevocation(txs, o)
  BY <1>1, ColumnsWritten DEF RevocationInv
<1>5. Overlooked(db'.trust_objects, txs) \subseteq Overlooked(objects, txs) \ BeingRevoked
  <2> SUFFICES ASSUME NEW o \in Overlooked(db'.trust_objects, txs)
               PROVE  o \in Overlooked(objects, txs) \ BeingRevoked
    OBVIOUS
  <2>1. /\ o \in DOMAIN objects /\ RevokedIn(txs, o)
        /\ db'.trust_objects[o].status = "ACTIVE"
    BY ColumnsWritten DEF Overlooked
  <2>2. objects[o].status = "ACTIVE" /\ (o # call.obj \/ pc = "ownerColumn")
    BY <2>1, ColumnsWritten
  <2>3. QED BY <2>1, <2>2 DEF Overlooked, BeingRevoked
<1>6. Cardinality(Overlooked(db'.trust_objects, db'.blockchain_transactions)
                    \ BeingRevoked') <= Crashes'
  BY <1>1, <1>2, <1>3, <1>5, OverlookedCount
<1>7. QED BY <1>1, <1>3, <1>4, <1>6, ColumnsWritten DEF RevocationInv

LEMMA RevocationQuiet ==
    ASSUME TypeInv, RevocationInv, QuietStatement
    PROVE  RevocationInv'
<1> DEFINE objects == db.trust_objects
           txs == db.blockchain_transactions
<1> IInv /\ ProcessTyped /\ DOMAIN db = TableNames BY DEF TypeInv, IInv, TablesTyped
<1>1. Crashes' = Crashes
  <2>1. Statement
    BY DEF Statement, QuietStatement
  <2>2. QED BY <2>1, StatementCourse, CrashesCounted
<1>2. CASE ColumnStatement
  BY <1>2, RevocationColumns
<1>3. CASE InsertRevocation
  <2>1. /\ pc = "revocationRow" /\ pc' = "statusColumn" /\ call' = call
    BY <1>3, NextRow DEF InsertRevocation, Advance, GoTo
  <2>2. db'.trust_objects = objects /\ db'.blockchain_transactions = txs
    BY <1>3, QuietLeaves, NamedTables DEF LeavesAlone
  <2>3. DOMAIN db'.revocations \subseteq DOMAIN db.revocations \cup {call.obj}
    BY <1>3, NamedTables DEF InsertRevocation, Put
  <2>4. HasRevocation(txs, call.obj)
    BY <2>1 DEF RevocationInv
  <2>5. BeingRevoked' = BeingRevoked
    BY <2>1 DEF BeingRevoked
  <2>6. Cardinality(Overlooked(db'.trust_objects, db'.blockchain_transactions)
                      \ BeingRevoked') <= Crashes'
    BY <1>1, <2>2, <2>5, OverlookedCount
  <2>7. QED BY <2>1, <2>2, <2>3, <2>4, <2>6 DEF RevocationInv
<1>4. CASE RevocationRefused
  <2>1. pc = "revocationRow" /\ pc' = "idle" /\ db' = db /\ ~Stored(call.obj)
    BY <1>4 DEF RevocationRefused, Abort, GoTo
  <2>2. BeingRevoked = {call.obj} /\ BeingRevoked' = {}
    BY <2>1 DEF BeingRevoked
  <2>3. Overlooked(objects, txs) \ {} \subseteq Overlooked(objects, txs) \ {call.obj}
    BY <2>1 DEF Overlooked, Stored
  <2>4. Cardinality(Overlooked(db'.trust_objects, db'.blockchain_transactions)
                      \ BeingRevoked') <= Crashes'
    BY <1>1, <2>1, <2>2, <2>3, OverlookedCount
  <2>5. QED BY <2>1, <2>4 DEF RevocationInv
<1>5. CASE KeyStatement \/ EventStatement \/ InsertCredential
           \/ RevokeUnknown \/ EventRefused \/ CredentialRefused
  <2>1. /\ db'.trust_objects = objects /\ db'.revocations = db.revocations
        /\ db'.blockchain_transactions = txs
    BY <1>5, QuietLeaves, NamedTables DEF LeavesAlone, Refusal
  <2>2. /\ pc \notin {"revocationRow", "statusColumn"}
        /\ pc' \notin {"revocationRow", "statusColumn", "objectRow"}
    <3>1. pc' # "objectRow"
      BY QuietStatementElsewhere DEF Elsewhere
    <3>2. CASE KeyStatement
      <4>1. pc = "deriveIdentity" => FirstPc(call.op) \notin {"revocationRow", "statusColumn"}
        BY FirstStatement DEF IInv, ControlTyped, CallStatements
      <4>2. QED BY <3>1, <3>2, <4>1, KeyRows
    <3>3. CASE EventStatement \/ InsertCredential
      BY <3>1, <3>3, NextRow DEF EventStatement, InsertEvent, InsertOwnership,
         InsertSecurityEvent, InjectEvent, InsertCredential, Advance, GoTo
    <3>4. CASE RevokeUnknown \/ EventRefused \/ CredentialRefused
      BY <3>4 DEF RevokeUnknown, EventRefused, CredentialRefused, Abort, GoTo
    <3>5. QED BY <1>5, <3>2, <3>3, <3>4
  <2>3. QED BY <1>1, <2>1, <2>2, RevocationFrame
<1>6. QED BY <1>2, <1>3, <1>4, <1>5, QuietCases DEF Refusal

LEMMA RevocationStores ==
    ASSUME TypeInv, RevocationInv, InsertObject
    PROVE  RevocationInv'
<1> DEFINE objects == db.trust_objects
           txs == db.blockchain_transactions
<1> IInv /\ ProcessTyped /\ DOMAIN db = TableNames BY DEF TypeInv, IInv, TablesTyped
<1>1. pc = "objectRow" /\ pc' = "eventBlock" /\ BeingRevoked = {} /\ BeingRevoked' = {}
  BY NextRow DEF InsertObject, Advance, GoTo, BeingRevoked
<1>2. Crashes' = Crashes
  <2>1. Statement
    BY DEF Statement
  <2>2. QED BY <2>1, StatementCourse, CrashesCounted
<1>3. PICK r : /\ db'.trust_objects = Put(objects, call.obj, r)
               /\ "status" \in DOMAIN r /\ r.status = "ACTIVE"
  BY NamedTables DEF InsertObject, Row
<1>4. db'.blockchain_transactions = txs /\ db'.revocations = db.revocations
  BY NamedTables DEF InsertObject, Row
<1>5. /\ DOMAIN db'.trust_objects = DOMAIN objects \cup {call.obj}
      /\ db'.trust_objects[call.obj] = r
      /\ \A o \in DOMAIN objects \ {call.obj} : db'.trust_objects[o] = objects[o]
  BY <1>3 DEF Put
<1>6. StatusTyped(db'.trust_objects)
  BY <1>3, <1>5 DEF RevocationInv, StatusTyped
<1>7. \A o \in DOMAIN db'.trust_objects :
        db'.trust_objects[o].status = "REVOKED" \/ o \in DOMAIN db'.revocations =>
            HasRevocation(txs, o)
  <2>1. DOMAIN db.revocations \subseteq DOMAIN objects
    BY DEF TypeInv, ObjectRowsTyped
  <2>2. QED BY <1>3, <1>4, <1>5, <2>1 DEF RevocationInv
<1>8. Overlooked(db'.trust_objects, txs) \subseteq Overlooked(objects, txs)
  <2>1. ~RevokedIn(txs, call.obj)
    BY <1>1 DEF RevocationInv
  <2>2. QED BY <1>5, <2>1 DEF Overlooked
<1>9. Cardinality(Overlooked(db'.trust_objects, db'.blockchain_transactions)
                    \ BeingRevoked') <= Crashes'
  BY <1>1, <1>2, <1>4, <1>8, OverlookedCount
<1>10. QED BY <1>1, <1>4, <1>6, <1>7, <1>9 DEF RevocationInv

LEMMA RevocationInserts ==
    ASSUME TypeInv, RevocationInv, InsertTx
    PROVE  RevocationInv'
<1> DEFINE objects == db.trust_objects
           old == db.blockchain_transactions
           new == db'.blockchain_transactions
<1> IInv /\ ProcessTyped /\ DOMAIN db = TableNames BY DEF TypeInv, IInv, TablesTyped
<1>1. Crashes' = Crashes
  <2>1. Statement
    BY DEF Statement
  <2>2. QED BY <2>1, StatementCourse, CrashesCounted
<1>2. /\ pc \in TxStatements /\ call' = call
      /\ pc' = "objectRow" <=> pc = "registerTx"
      /\ pc' = "revocationRow" <=> pc = "revokeTx"
      /\ pc' # "statusColumn"
  BY NextTx DEF InsertTx, Advance, GoTo, TxStatements
<1>3. db'.trust_objects = objects /\ db'.revocations = db.revocations
  BY Inserts, NamedTables
<1>4. \A o \in DOMAIN objects :
        objects[o].status = "REVOKED" \/ o \in DOMAIN db.revocations => HasRevocation(new, o)
  BY InsertedRevocations DEF RevocationInv
<1>5. Overlooked(objects, new) \ BeingRevoked' \subseteq Overlooked(objects, old) \ BeingRevoked
  <2>1. BeingRevoked = {} /\ BeingRevoked' = IF pc = "revokeTx" THEN {call.obj} ELSE {}
    BY <1>2 DEF BeingRevoked, TxStatements
  <2>2. \A o : RevokedIn(new, o) => RevokedIn(old, o) \/ (pc = "revokeTx" /\ o = call.obj)
    BY <1>2, InsertedRevocations DEF TxStatements
  <2> HIDE DEF objects, old, new
  <2>3. QED BY <2>1, <2>2 DEF Overlooked
<1>6. Cardinality(Overlooked(db'.trust_objects, new) \ BeingRevoked') <= Crashes'
  BY <1>1, <1>3, <1>5, OverlookedCount
<1>7. QED BY <1>2, <1>3, <1>4, <1>6, InsertedRevocations DEF RevocationInv

LEMMA RevocationDeletes ==
    ASSUME TypeInv, RevocationInv, DeleteTable
    PROVE  RevocationInv'
<1> DEFINE objects == db.trust_objects
           txs == db.blockchain_transactions
<1> IInv /\ ProcessTyped BY DEF TypeInv
<1>1. /\ pc \in TableNames /\ pc' = NextPc(call)[pc]
      /\ db'[pc] = <<>> /\ \A t \in TableNames \ {pc} : db'[t] = db[t]
  BY Deletes DEF DeleteTable, Advance, GoTo
<1>2. /\ pc \notin {"revocationRow", "statusColumn"}
      /\ pc' \notin {"revocationRow", "statusColumn", "objectRow"}
  BY <1>1, NextTable, TableNamesAre DEF UpToObjects
<1>3. BeingRevoked = {} /\ BeingRevoked' = {} /\ DOMAIN <<>> = {}
  BY <1>2 DEF BeingRevoked
<1>4. Crashes' = Crashes
  <2>1. Statement
    BY DEF Statement
  <2>2. QED BY <2>1, StatementCourse, CrashesCounted
<1>5. pc = "blockchain_transactions" => DOMAIN objects = {}
  BY DEF IInv, DeletedInOrder
<1>6. CASE pc \in {"trust_objects", "blockchain_transactions"}
  <2>1. DOMAIN db'.trust_objects = {}
    BY <1>1, <1>3, <1>5, <1>6, NamedTables
  <2>2. Overlooked(db'.trust_objects, db'.blockchain_transactions) = {}
    BY <2>1 DEF Overlooked
  <2>3. QED BY <1>2, <1>3, <1>4, <2>1, <2>2, OverlookedCount DEF RevocationInv, StatusTyped
<1>7. CASE pc \notin {"trust_objects", "blockchain_transactions"}
  <2>1. db'.trust_objects = objects /\ db'.blockchain_transactions = txs
    BY <1>1, <1>7, NamedTables
  <2>2. DOMAIN db'.revocations \subseteq DOMAIN db.revocations
    BY <1>1, <1>3, NamedTables
  <2>3. QED BY <1>2, <1>3, <1>4, <2>1, <2>2, OverlookedCount DEF RevocationInv
<1>8. QED BY <1>6, <1>7

LEMMA RevocationSteps == TypeInv /\ RevocationInv /\ [Next]_vars => RevocationInv'
<1> SUFFICES ASSUME TypeInv, RevocationInv, [Next]_vars PROVE RevocationInv'
  OBVIOUS
<1> DEFINE objects == db.trust_objects
           txs == db.blockchain_transactions
<1> IInv /\ ProcessTyped /\ DOMAIN db = TableNames BY DEF TypeInv, IInv, TablesTyped
<1>1. CASE MineBlock \/ LoadOrInitLedger
  <2>1. /\ db'.trust_objects = objects /\ db'.revocations = db.revocations
        /\ db'.blockchain_transactions = txs
    BY <1>1, Mines, LoadsLedger, NamedTables
  <2>2. Statement
    BY <1>1 DEF Statement
  <2>3. Crashes' = Crashes
    BY <2>2, StatementCourse, CrashesCounted
  <2>4. /\ pc \notin {"revocationRow", "statusColumn"}
        /\ pc' \notin {"revocationRow", "statusColumn", "objectRow"}
    BY <1>1, NextBlock, NextStart DEF MineBlock, LoadOrInitLedger, Advance, GoTo
  <2>5. QED BY <2>1, <2>3, <2>4, RevocationFrame
<1>2. CASE StartServer \/ StartSeedScript
  <2>1. /\ pc = "idle" /\ db' = db /\ Crashes' = Crashes
        /\ pc' \in {"security_events", "notaryKeystore"}
    BY <1>2, CrashesCounted DEF StartServer, StartSeedScript, bounds, Tables, ProcessTyped
  <2>2. QED BY <2>1, RevocationFrame
<1>3. CASE Around
  <2>1. db' = db /\ pc' \notin {"revocationRow", "statusColumn", "objectRow"}
    BY <1>3, AroundCourse
  <2>2. CASE pc = "idle" /\ Crashes' = Crashes
    BY <2>1, <2>2, RevocationFrame
  <2>3. CASE Crash
    <3>1. Crashes' = Crashes + 1 /\ Crashes \in Nat
      BY <2>3, CrashesCounted
    <3>2. IsFiniteSet(Overlooked(objects, txs) \ BeingRevoked)
          /\ Cardinality(Overlooked(objects, txs) \ BeingRevoked) <= Crashes
      BY FS_Subset DEF TypeInv, ObjectRowsTyped, Overlooked, RevocationInv
    <3>3. PICK o : BeingRevoked \subseteq {o}
      BY DEF BeingRevoked
    <3>4. Overlooked(objects, txs) \ {}
            \subseteq (Overlooked(objects, txs) \ BeingRevoked) \cup {o}
      BY <3>3
    <3>5. Cardinality(Overlooked(objects, txs) \ {}) <= Crashes + 1
      <4> HIDE DEF objects, txs
      <4>1. QED BY <3>1, <3>2, <3>4, OneMore
    <3>6. BeingRevoked' = {}
      BY <2>1 DEF BeingRevoked
    <3>7. QED BY <2>1, <3>1, <3>5, <3>6 DEF RevocationInv
  <2>4. QED BY <1>3, <2>2, <2>3, AroundCounts
<1>4. CASE UNCHANGED vars
  BY <1>4 DEF vars, bounds, RevocationInv, BeingRevoked, Crashes
<1>5. QED BY <1>1, <1>2, <1>3, <1>4, RevocationQuiet, RevocationStores, RevocationInserts,
             RevocationDeletes, StepCases

LEMMA InitRevocations == Init => RevocationInv
<1> SUFFICES ASSUME Init PROVE RevocationInv
  OBVIOUS
<1>1. pc = "idle" /\ Crashes = 0 /\ db.trust_objects = <<>>
  BY NamedTables DEF Init, EmptyDb, Crashes
<1>2. DOMAIN db.trust_objects = {} /\ Cardinality({}) = 0
  BY <1>1, FS_EmptySet
<1>3. Overlooked(db.trust_objects, db.blockchain_transactions) \ BeingRevoked = {}
  BY <1>2 DEF Overlooked
<1>4. QED BY <1>1, <1>2, <1>3 DEF RevocationInv, StatusTyped

\* A revoked claim costs its holder the full verification.
LEMMA RevokedClaimCounts ==
    ASSUME NEW statuses, IsFiniteSet(DOMAIN statuses),
           NEW o \in DOMAIN statuses, statuses[o] = "REVOKED"
    PROVE  ~IsFullyVerified(statuses)
<1> DEFINE revoked == {x \in DOMAIN statuses : statuses[x] = "REVOKED"}
<1>1. IsFiniteSet(revoked) /\ revoked # {}
  BY FS_Subset
<1>2. Cardinality(revoked) \in Nat /\ Cardinality(revoked) # 0
  BY <1>1, FS_CardinalityType, FS_EmptySet
<1>3. ReputationScore(statuses) = Clamp(10, 100, 95 - 30 * Cardinality(revoked))
  BY DEF ReputationScore
<1> HIDE DEF revoked
<1>4. QED BY <1>2, <1>3 DEF IsFullyVerified, Clamp

\* What the tables say of a revocation, the ledger says; at most one object for each
\* crash is revoked on the ledger and active in its row (revocation.service.ts writes
\* them in three statements), and without a crash no holder of a revoked claim is
\* fully verified: for every seed, every set of requests and any number of crashes.
THEOREM RevocationReachesAllLayers == Spec => []RevocationLayers
<1> DEFINE Inv == TypeInv /\ RevocationInv
<1>1. Init => Inv
  BY InitTypes, InitRevocations
<1>2. Inv /\ [Next]_vars => Inv'
  BY TypeSteps, RevocationSteps
<1>3. Inv => RevocationLayers
  <2> SUFFICES ASSUME Inv PROVE RevocationLayers
    OBVIOUS
  <2> DEFINE objects == db.trust_objects
             txs == db.blockchain_transactions
             rest == Overlooked(objects, txs) \ BeingRevoked
  <2>1. /\ IsFiniteSet(rest) /\ Cardinality(rest) <= Crashes /\ Crashes \in Nat
        /\ IsFiniteSet(DOMAIN objects)
    BY FS_Subset, CrashesCounted DEF TypeInv, ObjectRowsTyped, Overlooked, RevocationInv
  <2>2. \A o : Revoked(o) <=> RevokedIn(txs, o)
    BY DEF Revoked, RevokedIn
  <2>3. \A o \in DOMAIN objects :
          objects[o].status = "REVOKED" \/ o \in DOMAIN db.revocations =>
            \E id \in ProofTxs(txs, o) : id[1] = "REVOKE_PROOF"
    BY DEF RevocationInv, HasRevocation
  <2>4. Cardinality({o \in DOMAIN objects :
                       Revoked(o) /\ objects[o].status = "ACTIVE"
                       /\ ~(call # NoCall /\ call.obj = o)}) <= Crashes
    <3> DEFINE left == {o \in DOMAIN objects :
                          Revoked(o) /\ objects[o].status = "ACTIVE"
                          /\ ~(call # NoCall /\ call.obj = o)}
    <3>1. pc \in {"revocationRow", "statusColumn"} => call # NoCall
      BY DEF TypeInv, IInv, ControlTyped, CallStatements, Call, NoCall
    <3>2. left \subseteq rest
      BY <2>2, <3>1 DEF Overlooked, BeingRevoked
    <3> HIDE DEF left, rest
    <3>3. Cardinality(left) <= Crashes
      BY <2>1, <3>2, NoMore
    <3>4. QED BY <3>3 DEF left
  <2>5. ASSUME pc = "idle", Crashes = 0,
               NEW o \in DOMAIN objects, Revoked(o), objects[o].status # "TAMPERED"
        PROVE  ~IsFullyVerified(ClaimStatuses(objects[o].subject))
    <3>1. rest = {}
      <4> HIDE DEF rest
      <4>1. Cardinality(rest) \in Nat
        BY <2>1, FS_CardinalityType
      <4>2. QED BY <2>1, <2>5, <4>1, FS_EmptySet
    <3>2. objects[o].status = "REVOKED"
      BY <2>2, <2>5, <3>1 DEF Overlooked, BeingRevoked, RevocationInv, StatusTyped
    <3> DEFINE statuses == ClaimStatuses(objects[o].subject)
    <3>3. /\ DOMAIN statuses \subseteq DOMAIN objects
          /\ o \in DOMAIN statuses /\ statuses[o] = "REVOKED"
      BY <3>2 DEF ClaimStatuses
    <3>4. IsFiniteSet(DOMAIN statuses)
      BY <2>1, <3>3, FS_Subset
    <3> HIDE DEF statuses
    <3>5. ~IsFullyVerified(statuses)
      BY <3>3, <3>4, RevokedClaimCounts
    <3>6. QED BY <3>5 DEF statuses
  <2>6. QED BY <2>3, <2>4, <2>5 DEF RevocationLayers
<1>4. QED BY <1>1, <1>2, <1>3, PTL DEF Spec

------------------------------------------------------------------------------
(* A server that never died is healthy *)

\* seed.ts: the seed registers no identity of the notary, whose key is derived.
NotaryNotSeeded ==
    \A i \in DOMAIN SeedCalls : SeedCalls[i].op = "identity" => SeedCalls[i].from # Notary

\* Nothing has died and no client has called yet.
Seeding == Crashes = 0 /\ mode # "serving"

\* One key signs all blocks: nobody but the constructor of the adapter gives the
\* notary one.
OneNotaryKey ==
    /\ Notary \in DOMAIN db.wallet_keystores => KeyOf(Notary) = DerivedKey
    /\ \A i \in DOMAIN db.blockchain_blocks : db.blockchain_blocks[i].by = DerivedKey
    /\ pc \in {"notaryIdentity", "ledger"} \/ Running => notary = DerivedKey
    /\ pc \in CallStatements /\ call.op = "identity" => call.from # Notary
    /\ pc \in {"identityRow", "keystoreRow"} => call.from # Notary
    /\ \A i \in DOMAIN script : script[i].op = "identity" => script[i].from # Notary

\* The millisecond in the id of a transaction.
TimeOf(id) ==
    IF id[1] = "REGISTER_PROOF" THEN id[3].at
    ELSE IF id[1] = "REVOKE_PROOF" THEN id[3]
    ELSE IF id[1] = "RECORD_PROVENANCE" THEN id[3][2]
    ELSE id[3][1]

\* The statements before the first block of a call, and between that of the object
\* and that of its creation.
BeforeBlock == {"deriveKeystore", "deriveIdentity", "registerBlock", "revokeBlock", "alertBlock"}
BetweenBlocks == {"registerTx", "objectRow", "eventBlock"}

\* No two blocks carry the same transaction: those of a call of the seed are made in
\* its millisecond, and are of two kinds.
RootsDiffer(blocks) ==
    /\ \A i \in 2..Len(blocks) :
          /\ TimeOf(blocks[i].root) \in 0..now
          /\ pc \in BeforeBlock => TimeOf(blocks[i].root) # now
          /\ pc \in BetweenBlocks /\ TimeOf(blocks[i].root) = now =>
                blocks[i].root[1] = "REGISTER_PROOF"
    /\ \A i, j \in 2..Len(blocks) : blocks[i].root = blocks[j].root => i = j

HealthInv ==
    /\ Seeding => OneNotaryKey /\ RootsDiffer(db.blockchain_blocks)
    /\ Running /\ Crashes = 0 => LedgerIntegrity(chain, notary)

\* The server serves until it dies.
LEMMA SeedingBefore ==
    ASSUME ProcessTyped, [Next]_vars, Crashes' = 0
    PROVE  /\ Crashes = 0 /\ ~Crash
           /\ mode' # "serving" => mode # "serving"
<1>1. Crashes \in Nat /\ (crashes' = crashes => Crashes' = Crashes) /\ ~Crash
  BY CrashesCounted
<1>2. ~Statement => crashes' = crashes /\ (mode' # "serving" => mode # "serving")
  BY <1>1 DEF Next, Process, StartServer, NextSeedCall, SeedDone, StartSeedScript, Request,
              Tick, vars, bounds
<1>3. Statement => mode' = mode /\ crashes' = crashes
  <2>1. Advance \/ Abort => mode' = mode /\ crashes' = crashes
    BY DEF Advance, Abort, bounds
  <2>2. Statement => Advance \/ Abort \/ DeriveKeystore \/ DeriveIdentity
    BY DEF Statement, IdentityRow, KeystoreRow, MineBlock, RevokeUnknown, InsertTx,
         InsertObject, InsertEvent, EventRefused, SetOwner, InsertOwnership, InsertCredential,
         CredentialRefused, InsertRevocation, RevocationRefused, SetRevoked,
         InsertSecurityEvent, SetMetadata, InjectEvent, DeleteTable, NotaryKeystore,
         NotaryIdentity, LoadOrInitLedger
  <2>3. QED BY <2>1, <2>2 DEF DeriveKeystore, DeriveIdentity, bounds
<1>4. QED BY <1>1, <1>2, <1>3

LEMMA RootTimes ==
    ASSUME pc \in {"registerBlock", "eventBlock", "revokeBlock", "alertBlock"}
    PROVE  /\ TimeOf(TxId(TxKind(pc))) = now
           /\ TxId(TxKind(pc))[1] = TxKind(pc)
           /\ TxKind(pc) = "REGISTER_PROOF" <=> pc = "registerBlock"
           /\ TxKind(pc) = "RECORD_PROVENANCE" <=> pc = "eventBlock"
<1>1. CASE pc = "registerBlock"
  <2>1. TxKind(pc) = "REGISTER_PROOF"
    BY <1>1 DEF TxKind
  <2>2. TxId("REGISTER_PROOF") = <<"REGISTER_PROOF", call.obj, ContentHash(call, now)>>
    BY DEF TxId
  <2>3. ContentHash(call, now).at = now
    BY DEF ContentHash
  <2>4. QED BY <1>1, <2>1, <2>2, <2>3 DEF TimeOf
<1>2. CASE pc = "eventBlock"
  <2>1. TxKind(pc) = "RECORD_PROVENANCE"
    BY <1>2 DEF TxKind
  <2>2. TxId("RECORD_PROVENANCE") = <<"RECORD_PROVENANCE", call.obj, EventId>>
    BY DEF TxId
  <2>3. EventId[2] = now
    BY DEF EventId
  <2>4. QED BY <1>2, <2>1, <2>2, <2>3 DEF TimeOf
<1>3. CASE pc = "revokeBlock"
  <2>1. TxKind(pc) = "REVOKE_PROOF"
    BY <1>3 DEF TxKind
  <2>2. TxId("REVOKE_PROOF") = <<"REVOKE_PROOF", call.obj, now>>
    BY DEF TxId
  <2>3. QED BY <1>3, <2>1, <2>2 DEF TimeOf
<1>4. CASE pc = "alertBlock"
  <2>1. TxKind(pc) = "SECURITY_ALERT"
    BY <1>4 DEF TxKind
  <2>2. TxId("SECURITY_ALERT") = <<"SECURITY_ALERT", call.obj, <<now, calls>>>>
    BY DEF TxId
  <2>3. QED BY <1>4, <2>1, <2>2 DEF TimeOf
<1>5. QED BY <1>1, <1>2, <1>3, <1>4

\* A step that leaves the blocks and the clock alone.
LEMMA RootsFrame ==
    ASSUME RootsDiffer(db.blockchain_blocks),
           db'.blockchain_blocks = db.blockchain_blocks, now' = now,
           pc' \in BeforeBlock => pc \in BeforeBlock,
           pc' \in BetweenBlocks => pc \in BeforeBlock \cup BetweenBlocks
    PROVE  RootsDiffer(db.blockchain_blocks)'
  BY DEF RootsDiffer

\* Which statements lead before and between the blocks of a call.
LEMMA BlocksAhead ==
    ASSUME IInv, Statement, ~MineBlock
    PROVE  /\ pc' \in BeforeBlock => pc \in BeforeBlock
           /\ pc' \in BetweenBlocks => pc \in BeforeBlock \cup BetweenBlocks
<1>1. CASE DeriveKeystore \/ DeriveIdentity
  BY <1>1 DEF DeriveKeystore, DeriveIdentity, BeforeBlock
<1>2. CASE Abort
  BY <1>2 DEF Abort, GoTo, BeforeBlock, BetweenBlocks
<1>3. CASE DeleteTable
  <2>1. pc \in TableNames /\ pc' = NextPc(call)[pc]
    BY <1>3 DEF DeleteTable, Advance, GoTo
  <2>2. pc' \in TableNames \cup StartStatements
    BY <2>1, NextTable, TableNamesAre DEF UpToObjects, StartStatements
  <2>3. QED BY <2>2, TableNamesAre
     DEF BeforeBlock, BetweenBlocks, UpToObjects, StartStatements
<1>4. CASE InsertTx
  BY <1>4, NextTx DEF InsertTx, Advance, GoTo, BeforeBlock, BetweenBlocks
<1>5. CASE InsertObject
  BY <1>5, NextRow DEF InsertObject, Advance, GoTo, BeforeBlock, BetweenBlocks
<1>6. CASE NotaryKeystore \/ NotaryIdentity \/ LoadOrInitLedger
  BY <1>6, NextStart
     DEF NotaryKeystore, NotaryIdentity, LoadOrInitLedger, Advance, GoTo, BeforeBlock,
         BetweenBlocks
<1>7. CASE \/ IdentityRow \/ KeystoreRow \/ InsertEvent \/ SetOwner \/ InsertOwnership
           \/ InsertCredential \/ InsertRevocation \/ SetRevoked \/ InsertSecurityEvent
           \/ SetMetadata \/ InjectEvent
  <2>1. /\ pc' = NextPc(call)[pc]
        /\ pc \in {"identityRow", "keystoreRow", "eventRow", "ownerColumn", "ownershipRow",
                   "credentialRow", "revocationRow", "statusColumn", "securityRow",
                   "metadata", "brokenEvent"}
    BY <1>7 DEF IdentityRow, KeystoreRow, InsertEvent, SetOwner, InsertOwnership,
                InsertCredential, InsertRevocation, SetRevoked, InsertSecurityEvent,
                SetMetadata, InjectEvent, Advance, GoTo
  <2>2. pc' \in {"keystoreRow", "idle", "credentialRow", "ownerColumn",
                 "ownershipRow", "statusColumn", "metadata"}
    BY <2>1, NextRow
  <2>3. QED BY <2>2 DEF BeforeBlock, BetweenBlocks
<1>8. QED BY <1>1, <1>2, <1>3, <1>4, <1>5, <1>6, <1>7
         DEF Statement, RevokeUnknown, EventRefused, CredentialRefused, RevocationRefused

LEMMA RootsMined ==
    ASSUME IInv, RootsDiffer(db.blockchain_blocks), MineBlock
    PROVE  RootsDiffer(db.blockchain_blocks)'
<1> DEFINE old == db.blockchain_blocks
           id == TxId(TxKind(pc))
           r == [root |-> id, by |-> notary]
           n == Len(old)
<1>1. /\ pc \in {"registerBlock", "eventBlock", "revokeBlock", "alertBlock"}
      /\ pc' = NextPc(call)[pc] /\ now' = now
  BY DEF MineBlock, Advance, GoTo, bounds
<1>2. /\ TimeOf(id) = now
      /\ id[1] = "REGISTER_PROOF" <=> pc = "registerBlock"
      /\ id[1] = "RECORD_PROVENANCE" <=> pc = "eventBlock"
  BY <1>1, RootTimes
<1>3. db'.blockchain_blocks = Append(old, r)
  BY NamedTables DEF MineBlock, IInv, TablesTyped
<1>4. /\ n \in Nat /\ Len(Append(old, r)) = n + 1
      /\ \A i \in 1..n : Append(old, r)[i] = old[i]
      /\ Append(old, r)[n + 1].root = id
  BY Appended DEF IInv, TablesTyped, Linked
<1>5. /\ pc' \notin BeforeBlock
      /\ pc' \in BetweenBlocks => pc = "registerBlock"
  BY <1>1, NextBlock DEF BeforeBlock, BetweenBlocks
<1>6. \A i \in 2..n : old[i].root # id
  <2>1. CASE pc = "eventBlock"
    BY <1>2, <2>1 DEF RootsDiffer, BetweenBlocks
  <2>2. CASE pc # "eventBlock"
    BY <1>1, <1>2, <2>2 DEF RootsDiffer, BeforeBlock
  <2>3. QED BY <2>1, <2>2
<1>7. \A i \in 2..n : pc = "registerBlock" => TimeOf(old[i].root) # now
  BY DEF RootsDiffer, BeforeBlock
<1>8. now \in 0..now
  BY DEF IInv, ControlTyped
<1>9. \A i \in 2..n+1 : i \in 2..n \/ i = n + 1
  BY <1>4
<1>10. \A i \in 2..n : TimeOf(old[i].root) \in 0..now
  BY DEF RootsDiffer
<1>11. \A i, j \in 2..n : old[i].root = old[j].root => i = j
  BY DEF RootsDiffer
<1> DEFINE new == Append(old, r)
<1>12. \A i \in 2..n+1 : \/ i \in 2..n /\ new[i] = old[i]
                         \/ i = n + 1 /\ new[i].root = id
  BY <1>4, <1>9
<1> HIDE DEF old, id, r, n, new
<1>13. \A i \in 2..n+1 :
          /\ TimeOf(new[i].root) \in 0..now
          /\ pc' \in BetweenBlocks /\ TimeOf(new[i].root) = now =>
                new[i].root[1] = "REGISTER_PROOF"
  BY <1>2, <1>5, <1>7, <1>8, <1>10, <1>12
<1>14. \A i, j \in 2..n+1 : new[i].root = new[j].root => i = j
  BY <1>6, <1>11, <1>12
<1>15. db'.blockchain_blocks = new /\ Len(new) = n + 1
  BY <1>3, <1>4 DEF new
<1>16. QED BY <1>1, <1>5, <1>13, <1>14, <1>15 DEF RootsDiffer

\* The clock goes on before each call of the seed.
LEMMA RootsOlder ==
    ASSUME IInv, RootsDiffer(db.blockchain_blocks), NextSeedCall
    PROVE  RootsDiffer(db.blockchain_blocks)'
<1>1. now \in Nat /\ now' = now + 1 /\ db' = db
  BY DEF NextSeedCall, IInv, ControlTyped
<1>2. \A t \in 0..now : t \in 0..now' /\ t # now'
  BY <1>1
<1>3. \A i \in 2..Len(db.blockchain_blocks) :
          TimeOf(db.blockchain_blocks[i].root) \in 0..now'
          /\ TimeOf(db.blockchain_blocks[i].root) # now'
  BY <1>2 DEF RootsDiffer
<1>4. QED BY <1>1, <1>3 DEF RootsDiffer

LEMMA RootsSteps ==
    ASSUME TypeInv, RootsDiffer(db.blockchain_blocks), Next, ~Crash, mode # "serving"
    PROVE  RootsDiffer(db.blockchain_blocks)'
<1> IInv /\ ProcessTyped /\ DOMAIN db = TableNames BY DEF TypeInv, IInv, TablesTyped
<1> DEFINE blocks == db.blockchain_blocks
<1>1. CASE MineBlock
  BY <1>1, RootsMined
<1>2. CASE Statement /\ ~MineBlock /\ db'.blockchain_blocks = blocks
  BY <1>2, StatementCourse, BlocksAhead, RootsFrame
<1>3. CASE DeleteTable /\ db'.blockchain_blocks # blocks
  <2>1. db'.blockchain_blocks = <<>>
    BY <1>3, Deletes, NamedTables DEF DeleteTable
  <2>2. QED BY <2>1 DEF RootsDiffer
<1>4. CASE LoadOrInitLedger /\ db'.blockchain_blocks # blocks
  <2>1. db'.blockchain_blocks = <<Genesis(notary)>>
    BY <1>4, NamedTables DEF LoadOrInitLedger
  <2>2. QED BY <2>1 DEF RootsDiffer
<1>5. CASE QuietStatement \/ InsertTx \/ InsertObject
  <2>1. db'.blockchain_blocks = blocks
    BY <1>5, QuietStatementQuiet, StoresObject, Inserts, NamedTables DEF Quiet, LedgerQuiet
  <2>2. Statement /\ ~MineBlock
    BY <1>5 DEF Statement, QuietStatement, MineBlock, IdentityRow, KeystoreRow,
         DeriveKeystore, DeriveIdentity, RevokeUnknown, InsertTx,
         InsertObject, InsertEvent, EventRefused, SetOwner, InsertOwnership, InsertCredential,
         CredentialRefused, InsertRevocation, RevocationRefused, SetRevoked,
         InsertSecurityEvent, SetMetadata, InjectEvent, NotaryKeystore, NotaryIdentity
  <2>3. QED BY <1>2, <2>1, <2>2
<1>6. CASE NextSeedCall
  BY <1>6, RootsOlder
<1>7. CASE StartServer \/ StartSeedScript \/ SeedDone
  <2>1. /\ db' = db /\ now' = now
        /\ pc' \in {"security_events", "notaryKeystore", "idle"}
    BY <1>7 DEF StartServer, StartSeedScript, SeedDone, bounds, Tables
  <2>2. QED BY <2>1, RootsFrame DEF BeforeBlock, BetweenBlocks
<1>8. (DeleteTable \/ LoadOrInitLedger) => Statement
  BY DEF Statement
<1>9. (DeleteTable \/ LoadOrInitLedger) => ~MineBlock
  BY TableNamesAre DEF DeleteTable, LoadOrInitLedger, MineBlock, UpToObjects
<1>10. ~Tick /\ \A c \in ClientCalls : ~Request(c)
  BY DEF Request, Tick
<1>11. QED BY <1>1, <1>2, <1>3, <1>4, <1>5, <1>6, <1>7, <1>8, <1>9, <1>10, StepCases DEF Around

LEMMA IdentityCalls ==
    ASSUME NEW c \in Call
    PROVE  FirstPc(c.op) = "identityRow" => c.op = "identity"
  BY DEF FirstPc, Call

\* What the statements do to the key the adapter holds.
LEMMA NotaryMemory ==
    ASSUME IInv, Statement
    PROVE  \/ notary' = notary /\ ~NotaryKeystore
           \/ NotaryKeystore /\ pc' = "notaryIdentity" /\ notary' = db'.wallet_keystores[Notary]
<1>1. CASE NotaryKeystore
  BY <1>1, NextStart DEF NotaryKeystore, Advance, GoTo
<1>2. CASE Statement /\ ~NotaryKeystore
  BY <1>2 DEF Statement, IdentityRow, KeystoreRow, DeriveKeystore, DeriveIdentity, MineBlock,
         RevokeUnknown, Abort, InsertTx, InsertObject, InsertEvent, EventRefused, SetOwner,
         InsertOwnership, InsertCredential, CredentialRefused, InsertRevocation,
         RevocationRefused, SetRevoked, InsertSecurityEvent, SetMetadata, InjectEvent,
         DeleteTable, NotaryIdentity, LoadOrInitLedger, memory
<1>3. QED BY <1>1, <1>2

LEMMA NotaryKeySame ==
    ASSUME TypeInv, OneNotaryKey, Statement
    PROVE  Notary \in DOMAIN db'.wallet_keystores => db'.wallet_keystores[Notary] = DerivedKey
<1> IInv /\ DOMAIN db = TableNames BY DEF TypeInv, IInv, TablesTyped
<1>1. CASE KeyStatement
  BY <1>1, KeyRows DEF OneNotaryKey, KeyOf, Put
<1>2. CASE ~KeyStatement /\ ~DeleteTable
  BY <1>2, KeysAlone DEF OneNotaryKey, KeyOf
<1>3. CASE DeleteTable
  <2>1. \/ db'.wallet_keystores = db.wallet_keystores
        \/ db'.wallet_keystores = <<>>
    BY <1>3, Deletes, NamedTables
  <2>2. DOMAIN <<>> = {}
    OBVIOUS
  <2>3. QED BY <2>1, <2>2 DEF OneNotaryKey, KeyOf
<1>4. QED BY <1>1, <1>2, <1>3

LEMMA BlocksSigned ==
    ASSUME TypeInv, OneNotaryKey, Statement
    PROVE  \A i \in DOMAIN db'.blockchain_blocks : db'.blockchain_blocks[i].by = DerivedKey
<1> DEFINE old == db.blockchain_blocks
           new == db'.blockchain_blocks
<1> IInv /\ ProcessTyped /\ DOMAIN db = TableNames BY DEF TypeInv, IInv, TablesTyped
<1>1. CASE MineBlock
  <2>1. PICK r : new = Append(old, r) /\ r.by = notary
    BY <1>1, NamedTables DEF MineBlock
  <2>2. notary = DerivedKey
    <3>1. pc \in CallStatements
      BY <1>1 DEF MineBlock, CallStatements
    <3>2. Running
      BY <3>1, StatementsDiffer DEF Running, ProcessTyped
    <3>3. QED BY <3>2 DEF OneNotaryKey
  <2>3. IsSequence(old)
    BY DEF IInv, TablesTyped, Linked
  <2>4. /\ IsSequence(Append(old, r)) /\ Len(old) \in Nat
        /\ Len(Append(old, r)) = Len(old) + 1
        /\ \A i \in 1..Len(old) : Append(old, r)[i] = old[i]
        /\ Append(old, r)[Len(old) + 1] = r
    BY <2>3, Appended
  <2>5. DOMAIN old = 1..Len(old) /\ DOMAIN Append(old, r) = 1..Len(old) + 1
    BY <2>3, <2>4 DEF IsSequence
  <2>6. \A i \in DOMAIN old : old[i].by = DerivedKey
    BY DEF OneNotaryKey
  <2> HIDE DEF old
  <2>7. QED BY <2>1, <2>2, <2>4, <2>5, <2>6
<1>2. CASE LoadOrInitLedger
  <2>1. new = old \/ new = <<Genesis(notary)>>
    BY <1>2, NamedTables DEF LoadOrInitLedger
  <2>2. notary = DerivedKey
    BY <1>2 DEF LoadOrInitLedger, OneNotaryKey
  <2>3. \A i \in DOMAIN <<Genesis(notary)>> : <<Genesis(notary)>>[i].by = notary
    <3> DEFINE g == Genesis(notary)
    <3>1. g.by = notary
      BY DEF Genesis
    <3> HIDE DEF g
    <3>2. DOMAIN <<g>> = 1..1 /\ <<g>>[1] = g
      OBVIOUS
    <3>3. \A i \in DOMAIN <<g>> : <<g>>[i].by = notary
      BY <3>1, <3>2
    <3>4. QED BY <3>3 DEF g
  <2>4. CASE new = old
    BY <2>4 DEF OneNotaryKey
  <2>5. CASE new = <<Genesis(notary)>>
    BY <2>2, <2>3, <2>5
  <2>6. QED BY <2>1, <2>4, <2>5
<1>3. CASE DeleteTable
  <2>1. new = old \/ new = <<>>
    BY <1>3, Deletes, NamedTables
  <2>2. DOMAIN <<>> = {}
    OBVIOUS
  <2>3. QED BY <2>1, <2>2 DEF OneNotaryKey
<1>4. CASE QuietStatement \/ InsertTx \/ InsertObject
  <2>1. new = old
    BY <1>4, QuietStatementQuiet, StoresObject, Inserts, NamedTables DEF Quiet, LedgerQuiet
  <2>2. QED BY <2>1 DEF OneNotaryKey
<1>5. QED BY <1>1, <1>2, <1>3, <1>4 DEF Statement, QuietStatement

LEMMA KeyStatements ==
    ASSUME TypeInv, OneNotaryKey, Statement
    PROVE  OneNotaryKey'
<1> IInv /\ ProcessTyped BY DEF TypeInv
<1>1. UNCHANGED script /\ mode' = mode /\ mode # "down"
  BY StatementCourse, StatementsDiffer DEF ProcessTyped
<1>2. pc' \in CallStatements => pc \in CallStatements /\ call' = call /\ call \in Call
  BY StatementCourse, StatementsDiffer DEF IInv, ControlTyped, StartStatements
<1>3. \/ pc' \notin {"identityRow", "keystoreRow"}
      \/ pc = "identityRow" /\ pc' = "keystoreRow"
      \/ pc = "deriveIdentity" /\ pc' = FirstPc(call.op)
  <2>1. CASE KeyStatement
    BY <2>1, KeyRows
  <2>2. CASE ~KeyStatement /\ ~DeleteTable
    <3>1. pc' = NextPc(call)[pc] \/ pc' = "idle"
      BY <2>2 DEF KeyStatement, Statement, RevokeUnknown, InsertObject, InsertEvent,
         EventRefused, SetOwner, InsertOwnership, InsertCredential, CredentialRefused,
         InsertRevocation, RevocationRefused, SetRevoked, InsertSecurityEvent, SetMetadata,
         InjectEvent, MineBlock, InsertTx, LoadOrInitLedger, Advance, Abort, GoTo
    <3>2. pc \in (CallStatements \cup {"ledger"}) \ {"identityRow", "keystoreRow",
                                              "deriveIdentity", "deriveKeystore"}
      BY <2>2 DEF KeyStatement, Statement, RevokeUnknown, InsertObject, InsertEvent,
         EventRefused, SetOwner, InsertOwnership, InsertCredential, CredentialRefused,
         InsertRevocation, RevocationRefused, SetRevoked, InsertSecurityEvent, SetMetadata,
         InjectEvent, MineBlock, InsertTx, LoadOrInitLedger, CallStatements, TxStatements
    <3>3. NextPc(call)[pc] \notin {"identityRow", "keystoreRow"}
      BY <3>2, NextBlock, NextTx, NextRow, NextStart DEF CallStatements, TxStatements
    <3>4. QED BY <3>1, <3>3
  <2>3. CASE DeleteTable
    <3>1. pc \in TableNames
      BY <2>3 DEF DeleteTable
    <3>2. pc' \notin CallStatements
      BY <3>1, StatementCourse, StatementsDiffer DEF StartStatements
    <3>3. QED BY <3>2 DEF CallStatements
  <2>4. QED BY <2>1, <2>2, <2>3
<1>4. pc' \in {"identityRow", "keystoreRow"} => call'.from # Notary
  <2>1. "identityRow" \in CallStatements /\ "keystoreRow" \in CallStatements
    BY DEF CallStatements
  <2>2. CASE pc = "deriveIdentity" /\ pc' = FirstPc(call.op)
    <3>1. (call \in Call /\ call' = call) \/ pc' \notin {"identityRow", "keystoreRow"}
      BY <1>2, <2>1
    <3>2. call \in Call => pc' # "keystoreRow" /\ (pc' = "identityRow" => call.op = "identity")
      BY <2>2, FirstStatement, IdentityCalls
    <3>3. pc \in CallStatements
      BY <2>2 DEF CallStatements
    <3>4. QED BY <3>1, <3>2, <3>3 DEF OneNotaryKey
  <2>3. CASE pc = "identityRow" /\ pc' = "keystoreRow"
    BY <1>2, <2>1, <2>3 DEF OneNotaryKey
  <2>4. QED BY <1>3, <2>2, <2>3
<1>5. pc' \in CallStatements /\ call'.op = "identity" => call'.from # Notary
  BY <1>2 DEF OneNotaryKey
<1>6. pc' \in {"notaryIdentity", "ledger"} \/ Running' => notary' = DerivedKey
  <2>1. CASE NotaryKeystore
    <3>1. Notary \in DOMAIN db'.wallet_keystores
      BY <2>1, KeyRows DEF NotaryKeystore, KeyStatement, Put
    <3>2. QED BY <2>1, <3>1, NotaryMemory, NotaryKeySame
  <2>2. CASE ~NotaryKeystore
    <3>1. notary' = notary
      BY <2>2, NotaryMemory
    <3>2. pc = "notaryKeystore" => NotaryKeystore
      BY TableNamesAre
         DEF UpToObjects, TxStatements, Statement, IdentityRow, KeystoreRow, DeriveKeystore,
         DeriveIdentity, MineBlock,
         RevokeUnknown, InsertTx, InsertObject, InsertEvent, EventRefused, SetOwner,
         InsertOwnership, InsertCredential, CredentialRefused, InsertRevocation,
         RevocationRefused, SetRevoked, InsertSecurityEvent, SetMetadata, InjectEvent,
         DeleteTable, NotaryIdentity, LoadOrInitLedger
    <3>3. pc \in CallStatements \cup {"notaryIdentity", "ledger"} \cup TableNames
      BY <2>2, <3>2, StatementCourse DEF StartStatements
    <3>4. pc \in TableNames => pc' \in TableNames \cup {"notaryKeystore"}
      BY StatementCourse, StatementsDiffer
    <3>5. CASE pc \in TableNames
      BY <3>4, <3>5, StatementsDiffer DEF Running, StartStatements
    <3>6. CASE pc \in CallStatements
      BY <1>1, <3>1, <3>6, StatementsDiffer DEF OneNotaryKey, Running
    <3>7. CASE pc \in {"notaryIdentity", "ledger"}
      BY <3>1, <3>7 DEF OneNotaryKey
    <3>8. QED BY <3>3, <3>5, <3>6, <3>7
  <2>3. QED BY <2>1, <2>2
<1>7. QED BY <1>1, <1>4, <1>5, <1>6, NotaryKeySame, BlocksSigned DEF OneNotaryKey, KeyOf

LEMMA KeyBegins ==
    ASSUME NEW c \in Call, Begin(c), c.op = "identity" => c.from # Notary
    PROVE  /\ call' = c
           /\ pc' \in {"identityRow", "keystoreRow"} => c.from # Notary
           /\ pc' \notin {"notaryIdentity", "ledger"}
<1>1. pc' \in {"deriveKeystore", FirstPc(c.op)} /\ call' = c
  BY DEF Begin
<1>2. QED BY <1>1, FirstStatement, IdentityCalls

LEMMA NotaryKeySteps ==
    ASSUME NotaryNotSeeded, TypeInv, OneNotaryKey, Next, ~Crash, mode # "serving",
           mode' # "serving"
    PROVE  OneNotaryKey'
<1> IInv /\ ProcessTyped BY DEF TypeInv
<1>1. CASE Statement
  BY <1>1, KeyStatements
<1>2. CASE StartServer \/ StartSeedScript
  <2>1. /\ db' = db /\ script' \in {SeedCalls, <<>>} /\ pc = "idle"
        /\ pc' \in {"security_events", "notaryKeystore"}
    BY <1>2 DEF StartServer, StartSeedScript, Tables, ProcessTyped
  <2>2. pc' \notin CallStatements \cup {"idle", "notaryIdentity", "ledger"} /\ ~Running'
    BY <2>1, StatementsDiffer, TableNamesAre DEF UpToObjects, StartStatements, Running
  <2>3. \A i \in DOMAIN script' : script'[i].op = "identity" => script'[i].from # Notary
    BY <2>1 DEF NotaryNotSeeded
  <2>4. pc' \notin {"identityRow", "keystoreRow"}
    BY <2>1
  <2>5. QED BY <2>1, <2>2, <2>3, <2>4 DEF OneNotaryKey, KeyOf
<1>3. CASE NextSeedCall
  <2>1. /\ script \in Seq(Call) /\ script # <<>> /\ Begin(Head(script))
        /\ script' = Tail(script) /\ mode' = mode /\ db' = db /\ notary' = notary
        /\ pc = "idle" /\ mode # "down"
    BY <1>3 DEF NextSeedCall, Begin, memory, IInv, ControlTyped
  <2>2. Head(script) \in Call /\ Head(script) = script[1] /\ 1 \in DOMAIN script
    BY <2>1
  <2>3. \A i \in DOMAIN Tail(script) :
            i + 1 \in DOMAIN script /\ Tail(script)[i] = script[i + 1]
    BY <2>1
  <2>4. \A i \in DOMAIN script' : script'[i].op = "identity" => script'[i].from # Notary
    BY <2>1, <2>3 DEF OneNotaryKey
  <2>5. Head(script).op = "identity" => Head(script).from # Notary
    BY <2>2 DEF OneNotaryKey
  <2>6. /\ call' = Head(script)
        /\ pc' \in {"identityRow", "keystoreRow"} => Head(script).from # Notary
        /\ pc' \notin {"notaryIdentity", "ledger"}
    BY <2>1, <2>2, <2>5, KeyBegins
  <2>7. Running
    BY <2>1, StatementsDiffer DEF Running
  <2>8. QED BY <2>1, <2>4, <2>5, <2>6, <2>7 DEF OneNotaryKey, KeyOf
<1>4. CASE SeedDone
  <2>1. /\ pc' = "idle" /\ script' = script /\ db' = db /\ mode' = "down"
    BY <1>4 DEF SeedDone, bounds
  <2>2. QED BY <2>1, StatementsDiffer DEF OneNotaryKey, KeyOf, Running
<1>5. ~Tick /\ \A c \in ClientCalls : ~Request(c)
  BY DEF Request, Tick
<1>6. QED BY <1>1, <1>2, <1>3, <1>4, <1>5 DEF Next, Process

------------------------------------------------------------------------------
(* The ledger a process holds *)

\* What a restart reads back: no block is torn, each has its own transaction.
LEMMA LoadsIntact ==
    ASSUME TypeInv, TornInv, Seeding, OneNotaryKey, RootsDiffer(db.blockchain_blocks),
           LoadOrInitLedger
    PROVE  LedgerIntegrity(chain', notary')
<1> DEFINE blocks == db.blockchain_blocks
           txs == db.blockchain_transactions
           new == db'.blockchain_blocks
           n == Len(blocks)
<1> IInv /\ ProcessTyped BY DEF TypeInv
<1>1. /\ pc = "ledger" /\ mode # "down" /\ notary' = notary /\ notary = DerivedKey
      /\ chain' = Load(new, txs)
  BY DEF LoadOrInitLedger, ProcessTyped, OneNotaryKey
<1>2. CASE blocks = <<>>
  <2>1. new = <<Genesis(notary)>>
    BY <1>2, NamedTables DEF LoadOrInitLedger, IInv, TablesTyped
  <2> DEFINE g == Genesis(notary)
             loaded == Load(<<g>>, txs)
  <2>2. g.by = notary
    BY DEF Genesis
  <2> HIDE DEF g
  <2>3. DOMAIN <<g>> = 1..1 /\ <<g>>[1] = g /\ IsSequence(<<g>>)
    BY DEF IsSequence
  <2>4. Len(loaded) = 1 /\ loaded # <<>>
    BY <2>3, LoadedIsSequence
  <2>5. loaded[1].by = g.by
    BY <2>3 DEF Load
  <2> HIDE DEF loaded
  <2>6. LedgerIntegrity(loaded, notary)
    BY <2>2, <2>4, <2>5 DEF LedgerIntegrity
  <2>7. QED BY <1>1, <2>1, <2>6 DEF loaded, g
<1>3. CASE blocks # <<>>
  <2>1. new = blocks
    BY <1>3 DEF LoadOrInitLedger
  <2>2. /\ IsSequence(blocks) /\ Linked(blocks, txs)
    BY DEF IInv, TablesTyped, Linked
  <2>3. /\ n \in Nat /\ n >= 1 /\ DOMAIN blocks = 1..n
    BY <1>3, <2>2 DEF IsSequence
  <2> DEFINE loaded == Load(blocks, txs)
  <2>4. Len(loaded) = n /\ loaded # <<>>
    BY <1>3, <2>2, LoadedIsSequence
  <2>5. \A i \in 1..n : /\ loaded[i].by = blocks[i].by /\ loaded[i].root = blocks[i].root
                        /\ loaded[i].txs = {id \in DOMAIN txs : txs[id].height = i - 1}
    BY <2>3 DEF Load
  <2>6. \A i \in 1..n : blocks[i].by = notary
    BY <1>1, <2>3 DEF OneNotaryKey
  <2>7. \A i \in 2..n : blocks[i].root \in DOMAIN txs
    <3>1. pc \notin TxStatements /\ ~Wiped
      BY <1>1, TableNamesAre DEF TxStatements, Wiped, UpToObjects
    <3>2. InHand = {}
      BY <3>1 DEF InHand
    <3>3. Cardinality(Torn(blocks, txs) \ {}) <= 0
      BY <3>1, <3>2 DEF TornInv, Seeding
    <3>4. IsFiniteSet(Torn(blocks, txs))
      BY <2>3, TornFinite
    <3>5. Torn(blocks, txs) \ {} = Torn(blocks, txs)
      OBVIOUS
    <3> HIDE DEF blocks, txs
    <3>6. Cardinality(Torn(blocks, txs)) \in Nat
      BY <3>4, FS_CardinalityType
    <3>7. Torn(blocks, txs) = {}
      BY <3>3, <3>4, <3>5, <3>6, FS_EmptySet
    <3>8. QED BY <3>7 DEF Torn, n
  <2>8. \A id \in DOMAIN txs : /\ txs[id].height + 1 \in 2..n
                               /\ blocks[txs[id].height + 1].root = id
                               /\ txs[id].height \in Int
    BY <2>2, <2>3 DEF TornInv, Linked
  <2>9. \A i, j \in 2..n : blocks[i].root = blocks[j].root => i = j
    BY DEF RootsDiffer
  <2> HIDE DEF loaded, blocks, txs, n
  <2>10. \A i \in 2..n : {id \in DOMAIN txs : txs[id].height = i - 1} = {blocks[i].root}
    <3> TAKE i \in 2..n
    <3>1. txs[blocks[i].root].height + 1 = i
      BY <2>7, <2>8, <2>9
    <3>2. txs[blocks[i].root].height = i - 1
      BY <2>7, <2>8, <3>1
    <3>3. \A id \in DOMAIN txs : txs[id].height = i - 1 => id = blocks[i].root
      BY <2>8
    <3>4. QED BY <2>7, <3>2, <3>3
  <2>11. LedgerIntegrity(loaded, notary)
    BY <2>3, <2>4, <2>5, <2>6, <2>10 DEF LedgerIntegrity
  <2>12. QED BY <1>1, <2>1, <2>11 DEF loaded, blocks, txs
<1>4. QED BY <1>2, <1>3

LEMMA MinesIntact ==
    ASSUME TypeInv, LedgerIntegrity(chain, notary), MineBlock
    PROVE  LedgerIntegrity(chain', notary')
<1> DEFINE m == Mined(TxId(TxKind(pc)), notary)
           n == Len(chain)
<1>1. chain' = Append(chain, m) /\ notary' = notary
  BY DEF MineBlock
<1>2. m.by = notary /\ m.txs = {m.root}
  BY DEF Mined
<1>3. chain # <<>> /\ IsSequence(chain)
  BY DEF TypeInv, LedgerBuilt, LedgerIntegrity
<1> HIDE DEF m
<1>4. /\ IsSequence(Append(chain, m)) /\ n \in Nat /\ Len(Append(chain, m)) = n + 1
      /\ \A i \in 1..n : Append(chain, m)[i] = chain[i]
      /\ Append(chain, m)[n + 1] = m
  BY <1>3, Appended
<1>5. n >= 1
  BY <1>3, <1>4 DEF IsSequence
<1>6. Append(chain, m) # <<>>
  BY <1>4, <1>5
<1>7. \A i \in 2..n+1 : i \in 2..n \/ i = n + 1
  BY <1>4
<1> HIDE DEF n
<1>8. LedgerIntegrity(Append(chain, m), notary)
  BY <1>2, <1>4, <1>5, <1>6, <1>7 DEF LedgerIntegrity, n
<1>9. QED BY <1>1, <1>8

LEMMA IntactSteps ==
    ASSUME TypeInv, TornInv, HealthInv, [Next]_vars, Running', Crashes' = 0
    PROVE  LedgerIntegrity(chain', notary')
<1> IInv /\ ProcessTyped BY DEF TypeInv
<1>1. Crashes = 0 /\ ~Crash
  BY SeedingBefore
<1>2. ASSUME Running, chain' = chain, notary' = notary
      PROVE  LedgerIntegrity(chain', notary')
  BY <1>1, <1>2 DEF HealthInv
<1>3. CASE MineBlock
  <2>1. Running
    BY <1>3, StatementsDiffer DEF Running, MineBlock, CallStatements, ProcessTyped
  <2>2. QED BY <1>1, <1>3, <2>1, MinesIntact DEF HealthInv
<1>4. CASE LoadOrInitLedger
  <2>1. Seeding
    BY <1>1, <1>4 DEF Seeding, LoadOrInitLedger, ProcessTyped, StartStatements
  <2>2. QED BY <1>4, <2>1, LoadsIntact DEF HealthInv
<1>5. CASE Statement /\ ~MineBlock /\ ~LoadOrInitLedger
  <2>1. chain' = chain
    BY <1>5 DEF Statement, IdentityRow, KeystoreRow, DeriveKeystore, DeriveIdentity,
         RevokeUnknown, Abort, InsertTx, InsertObject, InsertEvent, EventRefused, SetOwner,
         InsertOwnership, InsertCredential, CredentialRefused, InsertRevocation,
         RevocationRefused, SetRevoked, InsertSecurityEvent, SetMetadata, InjectEvent,
         DeleteTable, NotaryKeystore, NotaryIdentity, memory
  <2>2. pc' \notin TableNames \cup StartStatements /\ mode' # "down"
    BY DEF Running
  <2>3. pc \in CallStatements \/ pc = "ledger"
    <3>1. pc \in TableNames => pc' \in TableNames \cup StartStatements
      BY <1>5, StatementCourse, StatementsDiffer DEF StartStatements
    <3>2. pc \in {"notaryKeystore", "notaryIdentity"} => pc' \in StartStatements
      <4>1. pc \in {"notaryKeystore", "notaryIdentity"} => KeyStatement
        BY <1>5, KeysAlone, NamedTables, TableNamesAre
           DEF CallStatements, TxStatements, DeleteTable, UpToObjects
      <4>2. KeyStatement /\ pc \in {"notaryKeystore", "notaryIdentity"} =>
                pc' \in StartStatements
        BY KeyRows DEF StartStatements
      <4>3. QED BY <4>1, <4>2
    <3>3. QED BY <1>5, <2>2, <3>1, <3>2, StatementCourse DEF StartStatements
  <2>4. pc # "ledger"
    BY <1>5, TableNamesAre
       DEF Statement, IdentityRow, KeystoreRow, DeriveKeystore, DeriveIdentity,
         RevokeUnknown, InsertTx, InsertObject, InsertEvent, EventRefused, SetOwner,
         InsertOwnership, InsertCredential, CredentialRefused, InsertRevocation,
         RevocationRefused, SetRevoked, InsertSecurityEvent, SetMetadata, InjectEvent,
         DeleteTable, NotaryKeystore, NotaryIdentity, UpToObjects
  <2>5. notary' = notary
    BY <1>5, <2>2, NotaryMemory DEF StartStatements
  <2>6. Running
    BY <2>3, <2>4, StatementsDiffer DEF Running, ProcessTyped
  <2>7. QED BY <1>2, <2>1, <2>5, <2>6
<1>6. CASE StartServer \/ StartSeedScript
  <2>1. pc' \in {"security_events", "notaryKeystore"}
    BY <1>6 DEF StartServer, StartSeedScript, Tables
  <2>2. QED BY <2>1, TableNamesAre DEF Running, UpToObjects, StartStatements
<1>7. CASE NextSeedCall \/ SeedDone \/ Tick \/ \E c \in ClientCalls : Request(c)
  <2>1. /\ pc = "idle" /\ mode # "down"
        /\ (chain' = chain /\ notary' = notary) \/ mode' = "down"
    BY <1>7 DEF NextSeedCall, SeedDone, Tick, Request, Begin, memory
  <2>2. QED BY <1>2, <2>1, StatementsDiffer DEF Running
<1>8. CASE UNCHANGED vars
  BY <1>2, <1>8 DEF vars, memory, Running
<1>9. QED BY <1>1, <1>3, <1>4, <1>5, <1>6, <1>7, <1>8 DEF Next, Process

LEMMA HealthSteps ==
    NotaryNotSeeded /\ TypeInv /\ TornInv /\ HealthInv /\ [Next]_vars => HealthInv'
<1> SUFFICES ASSUME NotaryNotSeeded, TypeInv, TornInv, HealthInv, [Next]_vars
             PROVE  HealthInv'
  OBVIOUS
<1> ProcessTyped BY DEF TypeInv
<1>1. ASSUME Seeding', Next
      PROVE  OneNotaryKey' /\ RootsDiffer(db.blockchain_blocks)'
  <2>1. mode # "serving" /\ mode' # "serving" /\ ~Crash /\ Seeding
    BY <1>1, SeedingBefore DEF Seeding
  <2>2. OneNotaryKey /\ RootsDiffer(db.blockchain_blocks)
    BY <2>1 DEF HealthInv
  <2>3. QED BY <1>1, <2>1, <2>2, NotaryKeySteps, RootsSteps
<1>2. ASSUME Seeding', UNCHANGED vars
      PROVE  OneNotaryKey' /\ RootsDiffer(db.blockchain_blocks)'
  <2>1. Seeding
    BY <1>2 DEF vars, bounds, Seeding, Crashes
  <2>2. OneNotaryKey /\ RootsDiffer(db.blockchain_blocks)
    BY <2>1 DEF HealthInv
  <2>3. QED BY <1>2, <2>2
     DEF vars, bounds, memory, OneNotaryKey, KeyOf, Running, RootsDiffer
<1>3. QED BY <1>1, <1>2, IntactSteps DEF HealthInv

LEMMA InitHealth == Init => HealthInv
<1> SUFFICES ASSUME Init PROVE HealthInv
  OBVIOUS
<1>1. /\ mode = "down" /\ pc = "idle" /\ script = <<>> /\ DOMAIN <<>> = {}
      /\ db.wallet_keystores = <<>> /\ db.blockchain_blocks = <<>>
  BY NamedTables DEF Init, EmptyDb
<1>2. OneNotaryKey
  BY <1>1 DEF OneNotaryKey, Running, CallStatements, TxStatements
<1>3. RootsDiffer(db.blockchain_blocks)
  BY <1>1 DEF RootsDiffer
<1>4. QED BY <1>1, <1>2, <1>3 DEF HealthInv, Running

\* consortium-blockchain.adapter.ts mineBlock: for every seed that leaves the notary
\* alone and any requests, each death leaves at most one block without its
\* transaction, no block ever has another's, and a server that never died finds its
\* ledger intact and its notary's key in place.
THEOREM CrashesTearBlocks ==
    ASSUME NotaryNotSeeded
    PROVE  Spec => []OnlyCrashesTearBlocks
<1> DEFINE Inv == TypeInv /\ NotaryInv /\ TornInv /\ HealthInv
<1>1. Init => Inv
  BY InitTypes, InitKeys, InitTorn, InitHealth
<1>2. Inv /\ [Next]_vars => Inv'
  BY TypeSteps, NotarySteps, TornSteps, HealthSteps
<1>3. Inv => OnlyCrashesTearBlocks
  <2> SUFFICES ASSUME Inv PROVE OnlyCrashesTearBlocks
    OBVIOUS
  <2> DEFINE blocks == db.blockchain_blocks
             txs == db.blockchain_transactions
  <2>1. \A id \in DOMAIN txs : /\ txs[id].height + 1 \in 2..Len(blocks)
                               /\ blocks[txs[id].height + 1].root = id
    BY DEF TypeInv, IInv, TablesTyped, Linked, TornInv
  <2>2. txs # <<>> => Cardinality(Torn(blocks, txs) \ InHand) <= Crashes
    BY DEF TornInv, Wiped
  <2>3. mode = "serving" /\ Crashes = 0 => Healthy
    <3>1. mode = "serving" => Running
      BY DEF TypeInv, IInv, DeletedInOrder, ProcessTyped, Running
    <3>2. QED BY <3>1 DEF HealthInv, NotaryInv, Healthy
  <2>4. QED BY <2>1, <2>2, <2>3 DEF OnlyCrashesTearBlocks, Torn, InHand, TxStatements
<1>4. QED BY <1>1, <1>2, <1>3, PTL DEF Spec

------------------------------------------------------------------------------
(* The risk of what is not accepted *)

LEMMA FactsAreFacts == ASSUME NEW o PROVE FactsOf(o) \in Facts
<1> DEFINE f == FactsOf(o)
<1>1. /\ f.hashMatch \in BOOLEAN /\ f.signatureValid \in BOOLEAN /\ f.isRevoked \in BOOLEAN
      /\ f.isExpired \in BOOLEAN /\ f.continuous \in BOOLEAN /\ f.proofValid \in BOOLEAN
      /\ f.device \in BOOLEAN
  BY DEF FactsOf, SignedBy, IsExpired, Continuous, VerifyProof, IsAnchored
<1>2. QED BY <1>1 DEF FactsOf, Facts

\* The five checks that a verdict fails on each score at least ELEVATED.
LEMMA RejectionScores ==
    ASSUME NEW f \in Facts, NEW c \in Counts,
           OverallStatus(f) \notin {"AUTHENTIC", "CONSENSUS_REJECTED"}
    PROVE  RiskScore(f, c) >= 25 /\ RiskScore(f, c) \in Nat
<1> DEFINE tampered == Impact(~f.hashMatch, 55)
           unsigned == Impact(~f.signatureValid, 45)
           revoked == Impact(f.isRevoked, 40)
           expired == Impact(f.isExpired, 25)
           broken == Impact(~f.continuous, 35)
           duplicate == Impact(c.duplicate, 30)
           spike == Impact(c.spike, 20)
           incidents == Impact(f.device /\ c.incidents, 30)
           sum == tampered + unsigned + revoked + expired + broken + duplicate + spike
                  + incidents
<1>1. /\ tampered \in Nat /\ (~f.hashMatch => tampered = 55)
      /\ unsigned \in Nat /\ (~f.signatureValid => unsigned = 45)
      /\ revoked \in Nat /\ (f.isRevoked => revoked = 40)
      /\ expired \in Nat /\ (f.isExpired => expired = 25)
      /\ broken \in Nat /\ (~f.continuous => broken = 35)
      /\ duplicate \in Nat /\ spike \in Nat /\ incidents \in Nat
  BY DEF Impact
<1>2. ~f.hashMatch \/ ~f.signatureValid \/ f.isRevoked \/ f.isExpired \/ ~f.continuous
  BY DEF OverallStatus
<1>3. RiskScore(f, c) = Clamp(0, 100, sum)
  BY DEF RiskScore
<1> HIDE DEF tampered, unsigned, revoked, expired, broken, duplicate, spike, incidents
<1>4. sum \in Nat /\ sum >= 25
  BY <1>1, <1>2
<1> HIDE DEF sum
<1>5. QED BY <1>3, <1>4 DEF Clamp

\* anomaly.service.ts assessTrustObjectRisk: whatever the tables hold and whatever else
\* the engine counts, an object that is tampered with, badly signed, revoked, expired
\* or out of custody is not a low risk.
THEOREM RejectedIsRisky == Spec => []UntrustedIsRisky
<1>1. UntrustedIsRisky
  <2> SUFFICES ASSUME NEW o \in DOMAIN db.trust_objects, NEW c \in Counts,
                      OverallStatus(FactsOf(o)) \notin {"AUTHENTIC", "CONSENSUS_REJECTED"}
               PROVE  RiskLevel(RiskScore(FactsOf(o), c)) # "LOW"
    BY DEF UntrustedIsRisky
  <2> DEFINE score == RiskScore(FactsOf(o), c)
  <2>1. score \in Nat /\ score >= 25
    BY FactsAreFacts, RejectionScores
  <2> HIDE DEF score
  <2>2. RiskLevel(score) # "LOW"
    BY <2>1 DEF RiskLevel
  <2>3. QED BY <2>2 DEF score
<1>2. QED BY <1>1, PTL

------------------------------------------------------------------------------
(* Where a statement comes from *)

\* A statement leads to the next one of its list, or ends the call.
LEMMA StatementNext ==
    ASSUME Statement
    PROVE  \/ pc \notin {"deriveKeystore", "deriveIdentity"} /\ pc' = NextPc(call)[pc]
           \/ pc' = "idle"
           \/ pc = "deriveKeystore" /\ pc' = "deriveIdentity"
           \/ pc = "deriveIdentity" /\ pc' = FirstPc(call.op)
<1> TableNames \cap {"deriveKeystore", "deriveIdentity"} = {}
  BY TableNamesAre DEF UpToObjects
<1>1. QED
  BY DEF Statement, IdentityRow, KeystoreRow, MineBlock, RevokeUnknown, InsertTx,
         InsertObject, InsertEvent, EventRefused, SetOwner, InsertOwnership, InsertCredential,
         CredentialRefused, InsertRevocation, RevocationRefused, SetRevoked,
         InsertSecurityEvent, SetMetadata, InjectEvent, DeleteTable, NotaryKeystore,
         NotaryIdentity, LoadOrInitLedger, DeriveKeystore, DeriveIdentity, Advance, Abort, GoTo

LEMMA FirstOf ==
    ASSUME NEW c \in Call
    PROVE  /\ FirstPc(c.op) = "registerBlock" <=> c.op \in {"create", "issue"}
           /\ FirstPc(c.op) = "eventBlock" <=> c.op = "transfer"
           /\ FirstPc(c.op) = "brokenEvent" <=> c.op = "inject"
  BY DEF FirstPc, Call

\* The statements that may come before one.
LEMMA Before ==
    ASSUME IInv, Statement
    PROVE  /\ pc' # "deriveKeystore"
           /\ pc' = "deriveIdentity" => pc = "deriveKeystore"
           /\ pc' = "registerBlock" => pc = "deriveIdentity" /\ call.op \in {"create", "issue"}
           /\ pc' = "registerTx" => pc = "registerBlock"
           /\ pc' = "objectRow" => pc = "registerTx"
           /\ pc' = "eventBlock" =>
                 pc = "objectRow" \/ (pc = "deriveIdentity" /\ call.op = "transfer")
           /\ pc' = "eventTx" => pc = "eventBlock"
           /\ pc' = "eventRow" => pc = "eventTx"
           /\ pc' = "ownerColumn" => pc = "eventRow" /\ call.op = "transfer"
           /\ pc' = "ownershipRow" => pc = "ownerColumn"
           /\ pc' = "brokenEvent" => pc = "deriveIdentity" /\ call.op = "inject"
<1> DEFINE some == {"deriveKeystore", "deriveIdentity", "registerBlock", "registerTx",
                    "objectRow", "eventBlock", "eventTx", "eventRow", "ownerColumn",
                    "ownershipRow", "brokenEvent"}
<1> SUFFICES ASSUME pc' \in some PROVE
           /\ pc' # "deriveKeystore"
           /\ pc' = "deriveIdentity" => pc = "deriveKeystore"
           /\ pc' = "registerBlock" => pc = "deriveIdentity" /\ call.op \in {"create", "issue"}
           /\ pc' = "registerTx" => pc = "registerBlock"
           /\ pc' = "objectRow" => pc = "registerTx"
           /\ pc' = "eventBlock" =>
                 pc = "objectRow" \/ (pc = "deriveIdentity" /\ call.op = "transfer")
           /\ pc' = "eventTx" => pc = "eventBlock"
           /\ pc' = "eventRow" => pc = "eventTx"
           /\ pc' = "ownerColumn" => pc = "eventRow" /\ call.op = "transfer"
           /\ pc' = "ownershipRow" => pc = "ownerColumn"
           /\ pc' = "brokenEvent" => pc = "deriveIdentity" /\ call.op = "inject"
  OBVIOUS
<1>1. pc' \in CallStatements /\ pc' # "idle"
  BY DEF CallStatements, TxStatements
<1>2. pc \in CallStatements /\ call \in Call
  <2>1. pc \in CallStatements
    BY <1>1, StatementCourse, StatementsDiffer DEF StartStatements, CallStatements, TxStatements
  <2>2. QED BY <2>1 DEF IInv, ControlTyped
<1>3. CASE pc \notin {"deriveKeystore", "deriveIdentity"} /\ pc' = NextPc(call)[pc]
  <2>1. NextPc(call)["eventRow"] = "ownerColumn" <=> call.op = "transfer"
    BY DEF NextPc
  <2>2. QED
    BY <1>2, <1>3, <2>1, NextBlock, NextTx, NextRow DEF CallStatements, TxStatements
<1>4. CASE pc = "deriveKeystore" /\ pc' = "deriveIdentity"
  BY <1>4
<1>5. CASE pc = "deriveIdentity" /\ pc' = FirstPc(call.op)
  BY <1>2, <1>5, FirstOf, FirstStatement
<1>6. QED BY <1>1, <1>3, <1>4, <1>5, StatementNext

\* The statements of a call are those of what it asks for.
CallFits ==
    /\ pc \in {"registerBlock", "registerTx", "objectRow"} => call.op # "transfer"
    /\ pc \in {"ownerColumn", "ownershipRow"} => call.op = "transfer"
    /\ pc = "brokenEvent" => call.op = "inject"
    /\ mode = "serving" /\ pc \in CallStatements => call.op # "inject"

LEMMA FitSteps == IInv /\ ProcessTyped /\ CallFits /\ [Next]_vars => CallFits'
<1> SUFFICES ASSUME IInv, ProcessTyped, CallFits, [Next]_vars PROVE CallFits'
  OBVIOUS
<1>1. CASE Statement
  <2>1. mode' = mode /\ (pc' # "idle" => call' = call)
        /\ (pc' \in CallStatements => pc \in CallStatements)
    BY <1>1, StatementCourse, StatementsDiffer
       DEF StartStatements, CallStatements, TxStatements
  <2>2. QED BY <1>1, <2>1, Before, StatementsDiffer DEF CallFits
<1>2. ASSUME NEW c \in Call, Begin(c), mode' = "serving" => c.op # "inject" PROVE CallFits'
  <2>1. pc' \in {"deriveKeystore", FirstPc(c.op)} /\ call' = c
    BY <1>2 DEF Begin
  <2>2. QED BY <1>2, <2>1, FirstOf, FirstStatement DEF CallFits
<1>3. ASSUME NEW c \in ClientCalls, Request(c) PROVE CallFits'
  BY <1>2, <1>3, ServerAssumption DEF Request
<1>4. CASE NextSeedCall
  <2>1. script \in Seq(Call) /\ script # <<>> /\ Begin(Head(script)) /\ mode' # "serving"
    BY <1>4 DEF NextSeedCall, IInv, ControlTyped
  <2>2. Head(script) \in Call
    BY <2>1
  <2>3. QED BY <1>2, <2>1, <2>2
<1>5. CASE StartServer \/ StartSeedScript \/ SeedDone \/ Crash \/ Tick
  <2>1. pc' \in {"idle", "security_events", "notaryKeystore"}
    BY <1>5 DEF StartServer, StartSeedScript, SeedDone, Crash, Tick, Tables
  <2>2. QED BY <2>1 DEF CallFits, CallStatements, TxStatements
<1>6. CASE UNCHANGED vars
  BY <1>6 DEF vars, CallFits
<1>7. QED BY <1>1, <1>3, <1>4, <1>5, <1>6 DEF Next, Process

------------------------------------------------------------------------------
(* The table of custody events *)

Bounded(rows) == \E n \in Nat : DOMAIN rows \subseteq 0..n

LEMMA RowidAbove ==
    ASSUME NEW rows, Bounded(rows)
    PROVE  NextRowid(rows) \in Nat /\ \A i \in DOMAIN rows : i < NextRowid(rows)
<1>1. CASE DOMAIN rows = {}
  BY <1>1 DEF NextRowid
<1>2. CASE DOMAIN rows # {}
  <2>1. DOMAIN rows \subseteq Nat /\ \E n \in Nat : \A i \in DOMAIN rows : i <= n
    BY DEF Bounded
  <2>2. \E m \in DOMAIN rows : \A i \in DOMAIN rows : i <= m
    BY <1>2, <2>1, GreatestExists
  <2> DEFINE m == CHOOSE i \in DOMAIN rows : \A j \in DOMAIN rows : j <= i
  <2>3. m \in DOMAIN rows /\ \A i \in DOMAIN rows : i <= m
    BY <2>2
  <2>4. NextRowid(rows) = 1 + m
    BY <1>2 DEF NextRowid
  <2> HIDE DEF m
  <2>5. QED BY <2>1, <2>3, <2>4
<1>3. QED BY <1>1, <1>2

\* The rows an event does not replace.
Kept(events, e) == {i \in DOMAIN events : events[i].id # e.id}

\* The new row is the one of the highest rowid, the others with its id are gone.
LEMMA Replaced ==
    ASSUME NEW events, Bounded(events), NEW e
    PROVE  LET new == ReplaceEvent(events, e)
               r == NextRowid(events)
           IN  /\ Bounded(new)
               /\ DOMAIN new = Kept(events, e) \cup {r}
               /\ new[r] = e /\ r \notin DOMAIN events
               /\ \A i \in DOMAIN new \ {r} : new[i] = events[i]
               /\ \A i \in DOMAIN new \ {r} : i < r /\ i \in Nat
               /\ r \in Nat
<1> DEFINE kept == Kept(events, e)
           rest == [i \in kept |-> events[i]]
           r == NextRowid(events)
           new == ReplaceEvent(events, e)
<1>1. r \in Nat /\ \A i \in DOMAIN events : i < r /\ i \in Nat
  BY RowidAbove DEF Bounded
<1>2. new = Put(rest, r, e)
  BY DEF ReplaceEvent, Kept
<1>3. r \notin DOMAIN events
  BY <1>1
<1>4. DOMAIN new = kept \cup {r} /\ new[r] = e /\ \A i \in kept : new[i] = events[i]
  BY <1>2, <1>3 DEF Put, Kept
<1> HIDE DEF new, r
<1>5. DOMAIN new \subseteq 0..r
  BY <1>1, <1>4 DEF Kept
<1>6. QED BY <1>1, <1>3, <1>4, <1>5 DEF Bounded, new, r

------------------------------------------------------------------------------
(* Custody *)

\* The counters an id is made of have passed it.
PastId(id) == id[2] \in 0..now /\ id[3] \in 0..calls

\* Every time is past, an object is not older than its creation, and what the seed
\* injects is older than any object.
HistoryTyped ==
    LET events == db.provenance_events
        objects == db.trust_objects
    IN  /\ calls \in Nat
        /\ Bounded(events)
        /\ \A i \in DOMAIN events :
              /\ events[i].at \in Int /\ events[i].at <= now
              /\ PastId(events[i].id)
              /\ events[i].id[1] = "CREATION" /\ Stored(events[i].obj) =>
                    events[i].id[2] <= objects[events[i].obj].at
              /\ events[i].id[1] = "INJECTED" => events[i].at < 0
        /\ IsSequence(db.ownership_events)
        /\ \A k \in DOMAIN db.ownership_events : PastId(db.ownership_events[k].id)
        /\ \A o \in DOMAIN objects : "owner" \in DOMAIN objects[o] /\ objects[o].at \in 0..now

Fresh(rows) == \A i \in DOMAIN rows : rows[i].id # EventId

\* The event of an object that comes last by time and rowid.
IsLast(events, o, i) ==
    /\ events[i].obj = o
    /\ \A j \in DOMAIN events : events[j].obj = o => ~Precedes(events, i, j)

\* Up to its event the id of a transfer is new; from then on the event is the last
\* one of the object, and the owner is its receiver when the ownership row is written.
BeforeEvent == {"deriveKeystore", "deriveIdentity", "eventBlock", "eventTx", "eventRow"}

TransferOnItsWay ==
    LET events == db.provenance_events
        objects == db.trust_objects
    IN  /\ pc \in BeforeEvent /\ call.op = "transfer" =>
              Fresh(events) /\ Fresh(db.ownership_events)
        /\ pc \in {"eventBlock", "eventTx", "eventRow"} /\ call.op # "transfer" =>
              Stored(call.obj) /\ objects[call.obj].at = now
        /\ pc \in {"ownerColumn", "ownershipRow"} =>
              \A i \in DOMAIN events : events[i].id = EventId =>
                  events[i].obj = call.obj /\ events[i].to = call.to
        /\ pc = "ownerColumn" =>
              /\ Fresh(db.ownership_events)
              /\ \A i \in DOMAIN events : IsLast(events, call.obj, i) => events[i].id = EventId
        /\ pc = "ownershipRow" /\ Stored(call.obj) => objects[call.obj].owner = call.to

Owned(objects, events, rows) ==
    \A o \in DOMAIN objects : \A i \in DOMAIN events :
        /\ IsLast(events, o, i)
        /\ events[i].type = "TRANSFER" /\ events[i].at > objects[o].at
        /\ \E k \in DOMAIN rows : rows[k].id = events[i].id
        => objects[o].owner = events[i].to

CustodyInv ==
    /\ HistoryTyped
    /\ TransferOnItsWay
    /\ Owned(db.trust_objects, db.provenance_events, db.ownership_events)

CustodyTables == {"provenance_events", "ownership_events", "trust_objects"}

LEMMA CustodyNames == CustodyTables \subseteq TableNames
  BY TableNamesAre DEF CustodyTables, UpToObjects

SameCustody ==
    /\ db'.provenance_events = db.provenance_events
    /\ db'.ownership_events = db.ownership_events
    /\ db'.trust_objects = db.trust_objects

\* Time goes on and leaves what is past in the past.
LEMMA HistoryFrame ==
    ASSUME HistoryTyped, SameCustody, now \in Nat,
           now' \in Nat, now' >= now, calls' \in Nat, calls' >= calls
    PROVE  HistoryTyped'
<1> DEFINE events == db.provenance_events
           rows == db.ownership_events
           objects == db.trust_objects
<1>1. \A id : PastId(id) => PastId(id)'
  BY DEF HistoryTyped, PastId
<1>2. \A i \in DOMAIN events : events[i].at \in Int /\ events[i].at <= now'
  BY DEF HistoryTyped
<1>3. \A o \in DOMAIN objects : "owner" \in DOMAIN objects[o] /\ objects[o].at \in 0..now'
  BY DEF HistoryTyped
<1>4. \A i \in DOMAIN events : PastId(events[i].id)'
  BY <1>1 DEF HistoryTyped, SameCustody
<1>5. \A k \in DOMAIN rows : PastId(rows[k].id)'
  BY <1>1 DEF HistoryTyped, SameCustody
<1>6. QED BY <1>2, <1>3, <1>4, <1>5 DEF HistoryTyped, SameCustody, Stored

LEMMA EventIdSame ==
    ASSUME call' = call, now' = now, calls' = calls PROVE EventId' = EventId
  BY DEF EventId

\* The statements that touch neither custody nor objects, and the refusals.
LEMMA CustodyFrame ==
    ASSUME TypeInv, CallFits, CustodyInv, Statement, SameCustody,
           pc \in {"objectRow", "eventRow", "ownerColumn"} => pc' = "idle"
    PROVE  CustodyInv'
<1> IInv /\ now \in Nat BY DEF TypeInv, IInv, ControlTyped
<1>1. now' = now /\ calls' = calls /\ (pc' # "idle" => call' = call)
  BY StatementCourse
<1>2. HistoryTyped'
  BY <1>1, HistoryFrame DEF CustodyInv, HistoryTyped
<1>3. TransferOnItsWay'
  <2>1. CASE pc' \in BeforeEvent \ {"idle"}
    <3>1. EventId' = EventId /\ call' = call
      BY <1>1, <2>1, EventIdSame DEF BeforeEvent
    <3>2. pc' \notin {"ownerColumn", "ownershipRow"}
      BY <2>1 DEF BeforeEvent
    <3>3. pc' # "deriveKeystore" /\ (call.op = "transfer" => pc \in BeforeEvent)
      BY <2>1, Before DEF BeforeEvent
    <3>4. pc' \in {"eventBlock", "eventTx", "eventRow"} /\ call.op # "transfer" =>
             pc \in {"eventBlock", "eventTx", "eventRow"}
      BY Before
    <3>5. QED BY <1>1, <3>1, <3>2, <3>3, <3>4
      DEF CustodyInv, TransferOnItsWay, SameCustody, Fresh, Stored
  <2>2. pc' \notin {"ownerColumn", "ownershipRow"}
    BY Before
  <2>3. QED BY <2>1, <2>2 DEF TransferOnItsWay, BeforeEvent
<1>4. QED BY <1>2, <1>3 DEF CustodyInv, SameCustody

\* A new object is as young as any event, so none came after it.
LEMMA CustodyStores ==
    ASSUME TypeInv, CallFits, CustodyInv, InsertObject
    PROVE  CustodyInv'
<1> DEFINE events == db.provenance_events
           rows == db.ownership_events
           objects == db.trust_objects
<1> IInv /\ now \in Nat /\ DOMAIN db = TableNames BY DEF TypeInv, IInv, ControlTyped, TablesTyped
<1>1. PICK row : /\ db'.trust_objects = Put(objects, call.obj, row)
                 /\ "owner" \in DOMAIN row /\ row.at = now
  BY CustodyNames DEF InsertObject, Row, CustodyTables
<1>2. db'.provenance_events = events /\ db'.ownership_events = rows
  BY CustodyNames DEF InsertObject, Row, CustodyTables
<1>3. pc = "objectRow" /\ pc' = "eventBlock" /\ call' = call /\ now' = now /\ calls' = calls
  BY NextRow DEF InsertObject, Advance, GoTo, bounds
<1>4. /\ DOMAIN db'.trust_objects = DOMAIN objects \cup {call.obj}
      /\ db'.trust_objects[call.obj].at = now /\ "owner" \in DOMAIN db'.trust_objects[call.obj]
      /\ \A o \in DOMAIN objects \ {call.obj} : db'.trust_objects[o] = objects[o]
  BY <1>1 DEF Put
<1>5. HistoryTyped'
  <2>1. \A id : PastId(id)' <=> PastId(id)
    BY <1>3 DEF PastId
  <2>2. \A i \in DOMAIN events :
          events[i].id[1] = "CREATION" /\ events[i].obj \in DOMAIN db'.trust_objects =>
            events[i].id[2] <= db'.trust_objects[events[i].obj].at
    <3> TAKE i \in DOMAIN events
    <3>1. events[i].id[2] <= now
      BY DEF CustodyInv, HistoryTyped, PastId
    <3>2. QED BY <1>4, <3>1 DEF CustodyInv, HistoryTyped, Stored
  <2>3. \A o \in DOMAIN db'.trust_objects : /\ "owner" \in DOMAIN db'.trust_objects[o]
                                            /\ db'.trust_objects[o].at \in 0..now
    BY <1>4 DEF CustodyInv, HistoryTyped
  <2>4. QED BY <1>2, <1>3, <2>1, <2>2, <2>3 DEF CustodyInv, HistoryTyped, Stored
<1>6. TransferOnItsWay'
  BY <1>3, <1>4 DEF TransferOnItsWay, CallFits, Stored
<1>7. Owned(db'.trust_objects, events, rows)
  BY <1>4 DEF Owned, CustodyInv, HistoryTyped
<1>8. QED BY <1>2, <1>5, <1>6, <1>7 DEF CustodyInv

\* What a step does to the columns of the objects but not to their age.
LEMMA HistoryColumns ==
    ASSUME TypeInv, CustodyInv, now' = now, calls' = calls,
           db'.provenance_events = db.provenance_events,
           db'.ownership_events = db.ownership_events,
           DOMAIN db'.trust_objects = DOMAIN db.trust_objects,
           \A o \in DOMAIN db.trust_objects :
              /\ "owner" \in DOMAIN db'.trust_objects[o]
              /\ db'.trust_objects[o].at = db.trust_objects[o].at
    PROVE  HistoryTyped'
<1>1. \A id : PastId(id)' <=> PastId(id)
  BY DEF PastId
<1>2. QED BY <1>1 DEF CustodyInv, HistoryTyped, Stored

\* The receiver becomes the owner; the last event is the one of this transfer, of
\* which there is no ownership row yet.
LEMMA CustodyOwner ==
    ASSUME TypeInv, CallFits, CustodyInv, SetOwner
    PROVE  CustodyInv'
<1> DEFINE events == db.provenance_events
           rows == db.ownership_events
           objects == db.trust_objects
<1> IInv /\ DOMAIN db = TableNames BY DEF TypeInv, IInv, TablesTyped
<1>1. db'.trust_objects = [objects EXCEPT ![call.obj] = [@ EXCEPT !.owner = call.to]]
  BY CustodyNames DEF SetOwner, CustodyTables
<1>2. db'.provenance_events = events /\ db'.ownership_events = rows
  BY CustodyNames DEF SetOwner, CustodyTables
<1>3. pc = "ownerColumn" /\ pc' = "ownershipRow" /\ call' = call /\ now' = now /\ calls' = calls
  BY NextRow DEF SetOwner, Advance, GoTo, bounds
<1>4. /\ DOMAIN db'.trust_objects = DOMAIN objects
      /\ \A o \in DOMAIN objects :
            /\ "owner" \in DOMAIN db'.trust_objects[o]
            /\ db'.trust_objects[o].at = objects[o].at
            /\ db'.trust_objects[o].owner = IF o = call.obj THEN call.to ELSE objects[o].owner
  BY <1>1 DEF CustodyInv, HistoryTyped
<1>5. HistoryTyped'
  BY <1>2, <1>3, <1>4, HistoryColumns
<1>6. TransferOnItsWay'
  <2>1. EventId' = EventId
    BY <1>3, EventIdSame
  <2>2. Stored(call.obj)' => db'.trust_objects[call.obj].owner = call.to
    BY <1>3, <1>4 DEF Stored
  <2>3. QED BY <1>2, <1>3, <2>1, <2>2 DEF CustodyInv, TransferOnItsWay, BeforeEvent
<1>7. Owned(db'.trust_objects, events, rows)
  <2> SUFFICES ASSUME NEW o \in DOMAIN objects, NEW i \in DOMAIN events, IsLast(events, o, i),
                      events[i].type = "TRANSFER", events[i].at > objects[o].at,
                      \E k \in DOMAIN rows : rows[k].id = events[i].id
               PROVE  db'.trust_objects[o].owner = events[i].to
    BY <1>4 DEF Owned
  <2>1. o # call.obj
    BY <1>3 DEF CustodyInv, TransferOnItsWay, Fresh
  <2>2. QED BY <1>4, <2>1 DEF CustodyInv, Owned
<1>8. QED BY <1>2, <1>5, <1>6, <1>7 DEF CustodyInv

LEMMA CustodyColumns ==
    ASSUME TypeInv, CallFits, CustodyInv, SetRevoked \/ SetMetadata
    PROVE  CustodyInv'
<1> DEFINE events == db.provenance_events
           rows == db.ownership_events
           objects == db.trust_objects
<1> IInv /\ DOMAIN db = TableNames BY DEF TypeInv, IInv, TablesTyped
<1>1. PICK row : /\ db'.trust_objects = [objects EXCEPT ![call.obj] = row]
                 /\ DOMAIN row = DOMAIN objects[call.obj]
                 /\ row.at = objects[call.obj].at /\ row.owner = objects[call.obj].owner
  <2> DEFINE revoked == [objects[call.obj] EXCEPT !.status = "REVOKED"]
             changed == [objects[call.obj] EXCEPT !.meta = call.meta,
                            !.drift = (call.op = "audit"), !.status = "TAMPERED"]
  <2>1. \/ db'.trust_objects = [objects EXCEPT ![call.obj] = revoked]
        \/ db'.trust_objects = [objects EXCEPT ![call.obj] = changed]
    BY CustodyNames DEF SetRevoked, SetMetadata, CustodyTables
  <2>2. /\ DOMAIN revoked = DOMAIN objects[call.obj]
        /\ revoked.at = objects[call.obj].at /\ revoked.owner = objects[call.obj].owner
    OBVIOUS
  <2>3. /\ DOMAIN changed = DOMAIN objects[call.obj]
        /\ changed.at = objects[call.obj].at /\ changed.owner = objects[call.obj].owner
    OBVIOUS
  <2> HIDE DEF revoked, changed
  <2>4. QED BY <2>1, <2>2, <2>3
<1>2. db'.provenance_events = events /\ db'.ownership_events = rows
  BY CustodyNames DEF SetRevoked, SetMetadata, CustodyTables
<1>3. pc' = "idle" /\ now' = now /\ calls' = calls
  BY NextRow DEF SetRevoked, SetMetadata, Advance, GoTo, bounds
<1>4. /\ DOMAIN db'.trust_objects = DOMAIN objects
      /\ \A o \in DOMAIN objects :
            /\ "owner" \in DOMAIN db'.trust_objects[o]
            /\ db'.trust_objects[o].at = objects[o].at
            /\ db'.trust_objects[o].owner = objects[o].owner
  BY <1>1 DEF CustodyInv, HistoryTyped
<1>5. HistoryTyped'
  BY <1>2, <1>3, <1>4, HistoryColumns
<1>6. TransferOnItsWay'
  BY <1>3 DEF TransferOnItsWay, BeforeEvent
<1>7. Owned(db'.trust_objects, events, rows)
  BY <1>4 DEF CustodyInv, Owned
<1>8. QED BY <1>2, <1>5, <1>6, <1>7 DEF CustodyInv

\* The ownership row of a transfer comes when its receiver is the owner.
LEMMA CustodyOwnership ==
    ASSUME TypeInv, CallFits, CustodyInv, InsertOwnership
    PROVE  CustodyInv'
<1> DEFINE events == db.provenance_events
           rows == db.ownership_events
           objects == db.trust_objects
           new == [id |-> EventId, obj |-> call.obj, from |-> call.from, to |-> call.to]
<1> IInv /\ now \in Nat /\ DOMAIN db = TableNames BY DEF TypeInv, IInv, ControlTyped, TablesTyped
<1>1. db'.ownership_events = Append(rows, new)
  BY CustodyNames DEF InsertOwnership, CustodyTables
<1>2. db'.provenance_events = events /\ db'.trust_objects = objects
  BY CustodyNames DEF InsertOwnership, CustodyTables
<1>3. pc = "ownershipRow" /\ pc' = "idle" /\ now' = now /\ calls' = calls
  BY NextRow DEF InsertOwnership, Advance, GoTo, bounds
<1>4. calls \in Nat /\ IsSequence(rows)
  BY DEF CustodyInv, HistoryTyped
<1>5. /\ IsSequence(Append(rows, new)) /\ DOMAIN Append(rows, new) = 1..(Len(rows) + 1)
      /\ \A k \in DOMAIN rows : Append(rows, new)[k] = rows[k]
      /\ \A k \in DOMAIN Append(rows, new) \ DOMAIN rows : Append(rows, new)[k].id = EventId
  <2>1. DOMAIN rows = 1..Len(rows) /\ Len(rows) \in Nat
    BY <1>4 DEF IsSequence
  <2>2. IsSequence(Append(rows, new)) /\ Len(Append(rows, new)) = Len(rows) + 1
        /\ (\A k \in 1..Len(rows) : Append(rows, new)[k] = rows[k])
        /\ Append(rows, new)[Len(rows) + 1] = new
    BY <1>4, Appended
  <2>3. DOMAIN Append(rows, new) = 1..(Len(rows) + 1)
    BY <2>2 DEF IsSequence
  <2> HIDE DEF rows
  <2>4. QED BY <2>1, <2>2, <2>3
<1>6. PastId(EventId)
  BY <1>4 DEF PastId, EventId
<1>7. HistoryTyped'
  <2>1. \A id : PastId(id)' <=> PastId(id)
    BY <1>3 DEF PastId
  <2>2. \A k \in DOMAIN db'.ownership_events : PastId(db'.ownership_events[k].id)
    BY <1>1, <1>5, <1>6 DEF CustodyInv, HistoryTyped
  <2>3. QED BY <1>1, <1>2, <1>3, <1>5, <2>1, <2>2 DEF CustodyInv, HistoryTyped, Stored
<1>8. TransferOnItsWay'
  BY <1>3 DEF TransferOnItsWay, BeforeEvent
<1>9. Owned(objects, events, db'.ownership_events)
  <2> SUFFICES ASSUME NEW o \in DOMAIN objects, NEW i \in DOMAIN events, IsLast(events, o, i),
                      events[i].type = "TRANSFER", events[i].at > objects[o].at,
                      NEW k \in DOMAIN db'.ownership_events,
                      db'.ownership_events[k].id = events[i].id
               PROVE  objects[o].owner = events[i].to
    BY DEF Owned
  <2>1. CASE k \in DOMAIN rows
    BY <1>1, <1>5, <2>1 DEF CustodyInv, Owned
  <2>2. CASE k \notin DOMAIN rows
    <3>1. events[i].id = EventId
      BY <1>1, <1>5, <2>2
    <3>2. events[i].obj = call.obj /\ events[i].to = call.to
      BY <1>3, <3>1 DEF CustodyInv, TransferOnItsWay
    <3>3. o = call.obj
      BY <3>2 DEF IsLast
    <3>4. QED BY <1>3, <3>2, <3>3 DEF CustodyInv, TransferOnItsWay, Stored
  <2>3. QED BY <2>1, <2>2
<1>10. QED BY <1>2, <1>7, <1>8, <1>9 DEF CustodyInv

\* What an event replaces is either of its own id, or nothing.
LEMMA LastBefore ==
    ASSUME NEW events, Bounded(events), NEW e, NEW o,
           NEW i \in DOMAIN events, events[i].id # e.id,
           IsLast(ReplaceEvent(events, e), o, i), ~IsLast(events, o, i)
    PROVE  \E j \in DOMAIN events : /\ events[j].obj = o /\ events[j].id = e.id
                                    /\ Precedes(events, i, j)
<1> DEFINE new == ReplaceEvent(events, e)
<1>1. /\ DOMAIN new = Kept(events, e) \cup {NextRowid(events)}
      /\ NextRowid(events) \notin DOMAIN events
      /\ \A j \in DOMAIN new \ {NextRowid(events)} : new[j] = events[j]
  BY Replaced
<1> HIDE DEF new
<1>2. i \in DOMAIN new /\ new[i] = events[i] /\ events[i].obj = o
  BY <1>1 DEF IsLast, new, Kept
<1>3. PICK j \in DOMAIN events : events[j].obj = o /\ Precedes(events, i, j)
  BY <1>2 DEF IsLast
<1>4. ASSUME events[j].id # e.id PROVE FALSE
  <2>1. j \in DOMAIN new /\ new[j] = events[j]
    BY <1>1, <1>4 DEF Kept
  <2>2. Precedes(new, i, j)
    BY <1>2, <1>3, <2>1 DEF Precedes
  <2>3. QED BY <1>3, <2>1, <2>2 DEF IsLast, new
<1>5. QED BY <1>3, <1>4

\* The rows of the table after an event was written.
LEMMA HistoryReplaces ==
    ASSUME CustodyInv, IInv, now' = now, calls' = calls, NEW e,
           db'.provenance_events = ReplaceEvent(db.provenance_events, e),
           db'.ownership_events = db.ownership_events,
           db'.trust_objects = db.trust_objects,
           e.at \in Int, e.at <= now, PastId(e.id),
           e.id[1] = "CREATION" /\ Stored(e.obj) => e.id[2] <= db.trust_objects[e.obj].at,
           e.id[1] = "INJECTED" => e.at < 0
    PROVE  HistoryTyped'
<1> DEFINE events == db.provenance_events
           new == ReplaceEvent(events, e)
           Good(x) == /\ x.at \in Int /\ x.at <= now
                      /\ PastId(x.id)
                      /\ x.id[1] = "CREATION" /\ Stored(x.obj) =>
                            x.id[2] <= db.trust_objects[x.obj].at
                      /\ x.id[1] = "INJECTED" => x.at < 0
<1>1. Bounded(events) /\ \A i \in DOMAIN events : Good(events[i])
  BY DEF CustodyInv, HistoryTyped
<1>2. Good(e)
  OBVIOUS
<1>3. /\ Bounded(new)
      /\ DOMAIN new = Kept(events, e) \cup {NextRowid(events)}
      /\ new[NextRowid(events)] = e
      /\ \A j \in DOMAIN new \ {NextRowid(events)} : new[j] = events[j]
  BY <1>1, Replaced
<1>4. \A i \in DOMAIN new : Good(new[i])
  <2> HIDE DEF Good, new
  <2>1. QED BY <1>1, <1>2, <1>3 DEF Kept
<1>5. \A id : PastId(id)' <=> PastId(id)
  BY DEF PastId
<1>6. db'.provenance_events = new
  OBVIOUS
<1> HIDE DEF new
<1>7. QED BY <1>3, <1>4, <1>5, <1>6 DEF CustodyInv, HistoryTyped, Stored

\* The new event is the last one of its object.
LEMMA NewIsLast ==
    ASSUME NEW events, Bounded(events), NEW e, e.at \in Int,
           \A i \in DOMAIN events : events[i].at \in Int /\ events[i].at <= e.at,
           NEW i \in DOMAIN ReplaceEvent(events, e), IsLast(ReplaceEvent(events, e), e.obj, i)
    PROVE  ReplaceEvent(events, e)[i] = e
<1> DEFINE new == ReplaceEvent(events, e)
           r == NextRowid(events)
<1>1. /\ DOMAIN new = Kept(events, e) \cup {r}
      /\ new[r] = e /\ r \in Nat
      /\ \A j \in DOMAIN new \ {r} : new[j] = events[j]
      /\ \A j \in DOMAIN new \ {r} : j < r /\ j \in Nat
  BY Replaced
<1>2. ASSUME i # r PROVE FALSE
  <2>1. i \in DOMAIN events /\ new[i] = events[i] /\ i < r
    BY <1>1, <1>2 DEF Kept
  <2> HIDE DEF new, r
  <2>2. Precedes(new, i, r)
    BY <1>1, <2>1 DEF Precedes
  <2>3. QED BY <1>1, <2>2 DEF IsLast, new
<1>3. QED BY <1>1, <1>2

LEMMA CustodyEvent ==
    ASSUME TypeInv, CallFits, CustodyInv, InsertEvent
    PROVE  CustodyInv'
<1> DEFINE events == db.provenance_events
           rows == db.ownership_events
           objects == db.trust_objects
           e == NewEvent
           new == ReplaceEvent(events, e)
<1> IInv /\ now \in Nat /\ DOMAIN db = TableNames BY DEF TypeInv, IInv, ControlTyped, TablesTyped
<1>1. db'.provenance_events = new
  BY CustodyNames DEF InsertEvent, CustodyTables
<1>2. db'.ownership_events = rows /\ db'.trust_objects = objects
  BY CustodyNames DEF InsertEvent, CustodyTables
<1>3. pc = "eventRow" /\ now' = now /\ calls' = calls /\ (pc' # "idle" => call' = call)
  BY DEF InsertEvent, Advance, GoTo, bounds
<1>4. pc' \in {"credentialRow", "ownerColumn", "idle"} /\ Statement
  BY <1>3, NextRow DEF InsertEvent, Advance, GoTo, Statement
<1>5. /\ calls \in Nat /\ Bounded(events)
      /\ \A i \in DOMAIN events : events[i].at \in Int /\ events[i].at <= now
  BY DEF CustodyInv, HistoryTyped
<1>6. /\ e.id = EventId /\ e.obj = call.obj /\ e.to = call.to /\ e.at = now
      /\ e.type = IF call.op = "transfer" THEN "TRANSFER" ELSE "CREATION"
      /\ EventId = IF call.op = "transfer" THEN <<"TRANSFER", now, calls>>
                   ELSE <<"CREATION", now, 0>>
  BY DEF NewEvent, EventId
<1> HIDE DEF e
<1>7. HistoryTyped'
  <2>1. PastId(e.id)
    BY <1>5, <1>6 DEF PastId
  <2>2. e.id[1] = "CREATION" /\ Stored(e.obj) => e.id[2] <= objects[e.obj].at
    BY <1>3, <1>6 DEF CustodyInv, TransferOnItsWay
  <2>3. e.id[1] # "INJECTED"
    BY <1>6
  <2>4. QED BY <1>1, <1>2, <1>3, <1>6, <2>1, <2>2, <2>3, HistoryReplaces
<1>8. /\ \A i \in DOMAIN new : IsLast(new, call.obj, i) => new[i] = e
      /\ \A i \in DOMAIN new : new[i] = e \/ (i \in DOMAIN events /\ new[i] = events[i]
                                              /\ events[i].id # EventId)
  <2>1. /\ DOMAIN new = Kept(events, e) \cup {NextRowid(events)}
        /\ new[NextRowid(events)] = e
        /\ \A i \in DOMAIN new \ {NextRowid(events)} : new[i] = events[i]
    BY <1>5, Replaced
  <2>2. \A i \in DOMAIN new : IsLast(new, call.obj, i) => new[i] = e
    BY <1>5, <1>6, NewIsLast
  <2> HIDE DEF new
  <2>3. QED BY <1>6, <2>1, <2>2 DEF Kept
<1>9. TransferOnItsWay'
  <2>1. CASE pc' = "ownerColumn"
    <3>1. call' = call /\ EventId' = EventId /\ call.op = "transfer"
      BY <1>3, <1>4, <2>1, Before, EventIdSame
    <3>2. Fresh(rows)
      BY <1>3, <3>1 DEF CustodyInv, TransferOnItsWay, BeforeEvent
    <3> HIDE DEF new, events
    <3>3. \A i \in DOMAIN new : /\ new[i].id = EventId => new[i] = e
                                /\ IsLast(new, call.obj, i) => new[i].id = EventId
      BY <1>6, <1>8
    <3>4. QED BY <1>1, <1>2, <1>6, <2>1, <3>1, <3>2, <3>3 DEF TransferOnItsWay, BeforeEvent, Fresh
  <2>2. CASE pc' \in {"credentialRow", "idle"}
    BY <2>2 DEF TransferOnItsWay, BeforeEvent
  <2>3. QED BY <1>4, <2>1, <2>2
<1>10. Owned(objects, new, rows)
  <2> SUFFICES ASSUME NEW o \in DOMAIN objects, NEW i \in DOMAIN new, IsLast(new, o, i),
                      new[i].type = "TRANSFER", new[i].at > objects[o].at,
                      NEW k \in DOMAIN rows, rows[k].id = new[i].id
               PROVE  objects[o].owner = new[i].to
    BY DEF Owned
  <2>1. CASE new[i] = e
    <3>1. call.op = "transfer"
      BY <1>6, <2>1
    <3>2. Fresh(rows)
      BY <1>3, <3>1 DEF CustodyInv, TransferOnItsWay, BeforeEvent
    <3>3. QED BY <1>6, <2>1, <3>2 DEF Fresh
  <2>2. CASE i \in DOMAIN events /\ new[i] = events[i] /\ events[i].id # EventId
    <3>1. CASE IsLast(events, o, i)
      BY <2>2, <3>1 DEF CustodyInv, Owned
    <3>2. ASSUME ~IsLast(events, o, i) PROVE FALSE
      <4>1. PICK j \in DOMAIN events : /\ events[j].obj = o /\ events[j].id = EventId
                                       /\ Precedes(events, i, j)
        BY <1>5, <1>6, <2>2, <3>2, LastBefore
      <4>2. call.op # "transfer"
        BY <1>3, <4>1 DEF CustodyInv, TransferOnItsWay, BeforeEvent, Fresh
      <4>3. now <= objects[o].at /\ objects[o].at \in Nat
        BY <1>6, <4>1, <4>2 DEF CustodyInv, HistoryTyped, Stored
      <4>4. QED BY <1>5, <2>2, <4>3
    <3>3. QED BY <3>1, <3>2
  <2>3. QED BY <1>8, <2>1, <2>2
<1>11. QED BY <1>1, <1>2, <1>7, <1>9, <1>10 DEF CustodyInv

\* What the seed injects comes before everything and replaces nothing that comes after.
LEMMA CustodyInjected ==
    ASSUME TypeInv, CallFits, CustodyInv, InjectEvent
    PROVE  CustodyInv'
<1> DEFINE events == db.provenance_events
           rows == db.ownership_events
           objects == db.trust_objects
           e == [id |-> <<"INJECTED", 0, 0>>, obj |-> call.obj, from |-> call.from,
                 to |-> call.to, at |-> -1, type |-> "TRANSFER", key |-> NoKey]
           new == ReplaceEvent(events, e)
<1> IInv /\ now \in Nat /\ DOMAIN db = TableNames BY DEF TypeInv, IInv, ControlTyped, TablesTyped
<1>1. db'.provenance_events = new
  BY CustodyNames DEF InjectEvent, CustodyTables
<1>2. db'.ownership_events = rows /\ db'.trust_objects = objects
  BY CustodyNames DEF InjectEvent, CustodyTables
<1>3. pc' = "idle" /\ now' = now /\ calls' = calls
  BY NextRow DEF InjectEvent, Advance, GoTo, bounds
<1>4. /\ calls \in Nat /\ Bounded(events)
      /\ \A i \in DOMAIN events : /\ events[i].at \in Int
                                  /\ events[i].id[1] = "INJECTED" => events[i].at < 0
  BY DEF CustodyInv, HistoryTyped
<1>5. e.id = <<"INJECTED", 0, 0>> /\ e.at = -1
  OBVIOUS
<1> HIDE DEF e
<1>6. HistoryTyped'
  <2>1. PastId(e.id)
    BY <1>4, <1>5 DEF PastId
  <2>2. QED BY <1>1, <1>2, <1>3, <1>5, <2>1, HistoryReplaces
<1>7. TransferOnItsWay'
  BY <1>3 DEF TransferOnItsWay, BeforeEvent
<1>8. Owned(objects, new, rows)
  <2> SUFFICES ASSUME NEW o \in DOMAIN objects, NEW i \in DOMAIN new, IsLast(new, o, i),
                      new[i].type = "TRANSFER", new[i].at > objects[o].at,
                      NEW k \in DOMAIN rows, rows[k].id = new[i].id
               PROVE  objects[o].owner = new[i].to
    BY DEF Owned
  <2>1. objects[o].at \in Nat
    BY DEF CustodyInv, HistoryTyped
  <2>2. i \in DOMAIN events /\ new[i] = events[i] /\ events[i].id # e.id
    <3>1. /\ DOMAIN new = Kept(events, e) \cup {NextRowid(events)}
          /\ new[NextRowid(events)] = e
          /\ \A j \in DOMAIN new \ {NextRowid(events)} : new[j] = events[j]
      BY <1>4, Replaced
    <3> HIDE DEF new
    <3>2. QED BY <1>5, <2>1, <3>1 DEF Kept
  <2>3. CASE IsLast(events, o, i)
    BY <2>2, <2>3 DEF CustodyInv, Owned
  <2>4. ASSUME ~IsLast(events, o, i) PROVE FALSE
    <3>1. PICK j \in DOMAIN events : events[j].id = e.id /\ Precedes(events, i, j)
      BY <1>4, <2>2, <2>4, LastBefore
    <3>2. events[j].id[1] = "INJECTED"
      BY <1>5, <3>1
    <3>3. events[j].at < 0 /\ events[j].at \in Int /\ events[i].at \in Int
      BY <1>4, <2>2, <3>1, <3>2
    <3>4. events[i].at <= events[j].at
      BY <3>1, <3>3 DEF Precedes
    <3>5. QED BY <2>1, <2>2, <3>3, <3>4
  <2>5. QED BY <2>3, <2>4
<1>9. QED BY <1>1, <1>2, <1>6, <1>7, <1>8 DEF CustodyInv

\* The seed empties the ownership table first, then the events, then the objects.
LEMMA CustodyDeletes ==
    ASSUME TypeInv, CallFits, CustodyInv, DeleteTable
    PROVE  CustodyInv'
<1> DEFINE events == db.provenance_events
           rows == db.ownership_events
           objects == db.trust_objects
<1> IInv BY DEF TypeInv
<1>1. pc \in TableNames /\ db'[pc] = <<>> /\ \A t \in TableNames \ {pc} : db'[t] = db[t]
  BY Deletes DEF DeleteTable
<1>2. Statement
  BY DEF Statement
<1>3. /\ pc' \in TableNames \cup {"notaryKeystore"} /\ now' = now /\ calls' = calls
      /\ pc \notin CallStatements
  BY <1>1, <1>2, StatementCourse, StatementsDiffer
<1>4. TransferOnItsWay'
  BY <1>3, TableNamesAre DEF TransferOnItsWay, BeforeEvent, UpToObjects
<1>5. /\ db'.provenance_events \in {events, <<>>}
      /\ db'.ownership_events \in {rows, <<>>}
      /\ db'.trust_objects \in {objects, <<>>}
  BY <1>1, CustodyNames DEF CustodyTables
<1>6. DOMAIN <<>> = {} /\ Bounded(<<>>) /\ IsSequence(<<>>)
  BY DEF Bounded, IsSequence
<1>7. HistoryTyped'
  <2>1. \A id : PastId(id)' <=> PastId(id)
    BY <1>3 DEF PastId
  <2>2. \A o : Stored(o)' => Stored(o) /\ db'.trust_objects = objects
    BY <1>5, <1>6 DEF Stored
  <2>3. \A o \in DOMAIN db'.trust_objects : "owner" \in DOMAIN db'.trust_objects[o]
                                            /\ db'.trust_objects[o].at \in 0..now
    BY <1>5, <1>6 DEF CustodyInv, HistoryTyped
  <2>4. \A k \in DOMAIN db'.ownership_events : PastId(db'.ownership_events[k].id)
    BY <1>5, <1>6 DEF CustodyInv, HistoryTyped
  <2>5. Bounded(db'.provenance_events) /\ IsSequence(db'.ownership_events)
    BY <1>5, <1>6 DEF CustodyInv, HistoryTyped
  <2>6. CASE db'.provenance_events = events
    BY <1>3, <2>1, <2>2, <2>3, <2>4, <2>5, <2>6 DEF CustodyInv, HistoryTyped
  <2>7. CASE db'.provenance_events = <<>>
    BY <1>3, <1>6, <2>1, <2>3, <2>4, <2>5, <2>7 DEF CustodyInv, HistoryTyped
  <2>8. QED BY <1>5, <2>6, <2>7
<1>8. Owned(db'.trust_objects, db'.provenance_events, db'.ownership_events)
  <2>1. CASE pc \in CustodyTables
    BY <1>1, <1>6, <2>1 DEF Owned, CustodyTables
  <2>2. CASE pc \notin CustodyTables
    <3>1. SameCustody
      BY <1>1, <2>2, CustodyNames DEF SameCustody, CustodyTables
    <3>2. QED BY <3>1 DEF SameCustody, CustodyInv
  <2>3. QED BY <2>1, <2>2
<1>9. QED BY <1>4, <1>7, <1>8 DEF CustodyInv

\* The statements that write to other tables, and the refusals.
LEMMA CustodyOthers ==
    ASSUME TypeInv, CallFits, CustodyInv,
           \/ KeyStatement \/ Refusal \/ InsertCredential \/ InsertRevocation
           \/ InsertSecurityEvent \/ MineBlock \/ InsertTx \/ LoadOrInitLedger
    PROVE  CustodyInv'
<1> IInv /\ DOMAIN db = TableNames BY DEF TypeInv, IInv, TablesTyped
<1>1. Statement
  BY DEF KeyStatement, Refusal, Statement
<1>2. SameCustody
  <2>1. CASE KeyStatement \/ InsertCredential \/ InsertRevocation
    BY <2>1, QuietLeaves, CustodyNames DEF LeavesAlone, SameCustody, CustodyTables
  <2>2. CASE Refusal
    BY <2>2, QuietLeaves DEF SameCustody
  <2>3. CASE InsertSecurityEvent
    BY <2>3, CustodyNames DEF InsertSecurityEvent, SameCustody, CustodyTables
  <2>4. CASE MineBlock \/ InsertTx \/ LoadOrInitLedger
    BY <2>4, Mines, Inserts, LoadsLedger, CustodyNames DEF SameCustody, CustodyTables
  <2>5. QED BY <2>1, <2>2, <2>3, <2>4
<1>3. pc \in {"objectRow", "eventRow", "ownerColumn"} => pc' = "idle"
  BY DEF KeyStatement, IdentityRow, KeystoreRow, DeriveKeystore, DeriveIdentity,
         NotaryKeystore, NotaryIdentity, Refusal, RevokeUnknown, EventRefused,
         CredentialRefused, RevocationRefused, Abort, GoTo, InsertCredential,
         InsertRevocation, InsertSecurityEvent, MineBlock, InsertTx, LoadOrInitLedger
<1>4. QED BY <1>1, <1>2, <1>3, CustodyFrame

\* The id of the transfer that begins is new: it has a number or a time of its own.
LEMMA CustodyAround ==
    ASSUME TypeInv, CallFits, CustodyInv, Around
    PROVE  CustodyInv'
<1> DEFINE events == db.provenance_events
           rows == db.ownership_events
<1> IInv /\ ProcessTyped /\ now \in Nat /\ calls \in Nat
  BY DEF TypeInv, IInv, ControlTyped, CustodyInv, HistoryTyped
<1>1. db' = db
  BY AroundCourse
<1>2. now' \in Nat /\ now' >= now /\ calls' \in Nat /\ calls' >= calls
  <2>1. now' \in {now, now + 1} /\ calls' \in {calls, calls + 1}
    BY DEF Around, Request, NextSeedCall, SeedDone, Crash, Tick, bounds
  <2>2. QED BY <2>1
<1>3. HistoryTyped'
  BY <1>1, <1>2, HistoryFrame DEF CustodyInv, SameCustody
<1>4. ASSUME NEW c \in Call, Begin(c), now' > now \/ calls' > calls
      PROVE  TransferOnItsWay'
  <2>1. /\ pc' \in {"deriveKeystore", FirstPc(c.op)} /\ call' = c
        /\ pc' \notin {"ownerColumn", "ownershipRow", "eventTx", "eventRow"}
    BY <1>4, BeginsWith DEF Begin
  <2>2. pc' = "eventBlock" => c.op = "transfer"
    BY <2>1, FirstOf
  <2>3. c.op = "transfer" => EventId' = <<"TRANSFER", now', calls'>>
    BY <2>1 DEF EventId
  <2>4. \A id : PastId(id) => id # <<"TRANSFER", now', calls'>>
    BY <1>2, <1>4 DEF PastId
  <2>5. c.op = "transfer" => Fresh(events)' /\ Fresh(rows)'
    BY <1>1, <2>3, <2>4 DEF Fresh, CustodyInv, HistoryTyped
  <2>6. QED BY <2>1, <2>2, <2>5 DEF TransferOnItsWay
<1>5. TransferOnItsWay'
  <2>1. ASSUME NEW c \in ClientCalls, Request(c) PROVE TransferOnItsWay'
    BY <1>4, <2>1, ServerAssumption DEF Request
  <2>2. CASE NextSeedCall
    <3>1. script \in Seq(Call) /\ script # <<>> /\ Begin(Head(script)) /\ now' = now + 1
      BY <2>2 DEF NextSeedCall, IInv, ControlTyped
    <3>2. now' > now
      BY <3>1
    <3>3. Head(script) \in Call
      BY <3>1
    <3>4. QED BY <1>4, <3>1, <3>2, <3>3
  <2>3. CASE SeedDone \/ Crash \/ Tick
    <3>1. pc' = "idle"
      BY <2>3 DEF SeedDone, Crash, Tick
    <3>2. QED BY <3>1 DEF TransferOnItsWay, BeforeEvent
  <2>4. QED BY <2>1, <2>2, <2>3 DEF Around
<1>6. QED BY <1>1, <1>3, <1>5 DEF CustodyInv

LEMMA CustodySteps == TypeInv /\ CallFits /\ CustodyInv /\ [Next]_vars => CustodyInv'
<1> SUFFICES ASSUME TypeInv, CallFits, CustodyInv, [Next]_vars PROVE CustodyInv'
  OBVIOUS
<1> IInv /\ now \in Nat BY DEF TypeInv, IInv, ControlTyped
<1>1. CASE StartServer \/ StartSeedScript
  <2>1. db' = db /\ now' = now /\ calls' = calls
    BY <1>1 DEF StartServer, StartSeedScript, bounds
  <2>2. pc' \in {"security_events", "notaryKeystore"}
    BY <1>1 DEF StartServer, StartSeedScript, Tables
  <2>3. HistoryTyped'
    BY <2>1, HistoryFrame DEF CustodyInv, HistoryTyped, SameCustody
  <2>4. QED BY <2>1, <2>2, <2>3 DEF CustodyInv, TransferOnItsWay, BeforeEvent
<1>2. CASE UNCHANGED vars
  BY <1>2 DEF vars, bounds, CustodyInv, HistoryTyped, TransferOnItsWay, PastId, Stored,
              Fresh, EventId
<1>3. CASE Statement
  <2>1. CASE ColumnStatement
    BY <2>1, CustodyOwner, CustodyColumns DEF ColumnStatement
  <2>2. CASE EventStatement
    BY <2>2, CustodyEvent, CustodyOwnership, CustodyInjected, CustodyOthers DEF EventStatement
  <2>3. CASE InsertObject \/ DeleteTable
    BY <2>3, CustodyStores, CustodyDeletes
  <2>4. QED BY <1>3, <2>1, <2>2, <2>3, CustodyOthers
            DEF Statement, KeyStatement, Refusal, ColumnStatement, EventStatement
<1>4. QED BY <1>1, <1>2, <1>3, CustodyAround DEF Next, Process, Around

LEMMA InitCustody == Init => CallFits /\ CustodyInv
<1> SUFFICES ASSUME Init PROVE CallFits /\ CustodyInv
  OBVIOUS
<1>1. db.provenance_events = <<>> /\ db.ownership_events = <<>> /\ db.trust_objects = <<>>
  BY CustodyNames DEF Init, EmptyDb, CustodyTables
<1>2. DOMAIN <<>> = {} /\ Bounded(<<>>) /\ IsSequence(<<>>)
  BY DEF Bounded, IsSequence
<1>3. pc = "idle" /\ calls \in Nat
  BY DEF Init
<1>4. CallFits /\ TransferOnItsWay
  BY <1>3 DEF CallFits, TransferOnItsWay, BeforeEvent, CallStatements, TxStatements
<1>5. HistoryTyped
  BY <1>1, <1>2, <1>3 DEF HistoryTyped
<1>6. QED BY <1>1, <1>2, <1>4, <1>5 DEF CustodyInv, Owned

\* The owner column follows the custody chain: SetOwner and InsertOwnership of a
\* transfer come after its event, the last one of the object.
THEOREM OwnerIsLastReceiver == Spec => []OwnerFollowsCustody
<1> DEFINE Inv == TypeInv /\ CallFits /\ CustodyInv
<1>1. Init => Inv
  BY InitTypes, InitCustody
<1>2. Inv /\ [Next]_vars => Inv'
  BY TypeSteps, FitSteps, CustodySteps DEF TypeInv
<1>3. Inv => OwnerFollowsCustody
  <2> SUFFICES ASSUME CustodyInv, NEW o \in DOMAIN db.trust_objects,
                      NEW i \in DOMAIN Provenance(o),
                      \A j \in DOMAIN Provenance(o) : ~Precedes(Provenance(o), i, j),
                      Provenance(o)[i].type = "TRANSFER",
                      Provenance(o)[i].at > db.trust_objects[o].at,
                      \E k \in DOMAIN db.ownership_events :
                          db.ownership_events[k].id = Provenance(o)[i].id
               PROVE  db.trust_objects[o].owner = Provenance(o)[i].to
    BY DEF OwnerFollowsCustody
  <2> DEFINE events == db.provenance_events
  <2>1. /\ DOMAIN Provenance(o) = {j \in DOMAIN events : events[j].obj = o}
        /\ \A j \in DOMAIN Provenance(o) : Provenance(o)[j] = events[j]
    BY DEF Provenance
  <2>2. IsLast(events, o, i)
    BY <2>1 DEF IsLast, Precedes
  <2>3. QED BY <2>1, <2>2 DEF CustodyInv, Owned
<1>4. QED BY <1>1, <1>2, <1>3, PTL DEF Spec

------------------------------------------------------------------------------
(* The verdict on other objects *)

\* What the verdict on an object is made of.
SameLedger(o) ==
    LET old == db.blockchain_transactions
        new == db'.blockchain_transactions
    IN  /\ IsAnchored(new, o) <=> IsAnchored(old, o)
        /\ IsAnchored(old, o) => Proof(new, o) = Proof(old, o)
        /\ \A k : VerifyProof(new, o, k) <=> VerifyProof(old, o, k)

LEMMA SameVerdict ==
    ASSUME NEW o, now' = now, notary' = notary,
           db'.trust_objects[o] = db.trust_objects[o],
           db'.identities = db.identities,
           o \in DOMAIN db'.revocations <=> o \in DOMAIN db.revocations,
           Provenance(o)' = Provenance(o),
           SameLedger(o)
    PROVE  Verdict(o)' = Verdict(o)
<1> DEFINE f == FactsOf(o)
<1>1. f.hashMatch' <=> f.hashMatch
  BY DEF FactsOf, SameLedger, CanonicalHash
<1>2. f.signatureValid' <=> f.signatureValid
  BY DEF FactsOf, SignedBy
<1>3. f.isRevoked' <=> f.isRevoked
  BY DEF FactsOf, SameLedger
<1>4. f.isExpired' <=> f.isExpired
  BY DEF FactsOf, IsExpired
<1>5. f.continuous' <=> f.continuous
  BY DEF FactsOf, Continuous, SignedBy
<1>6. f.proofValid' <=> f.proofValid
  BY DEF FactsOf, SameLedger
<1>7. f.device' <=> f.device
  BY DEF FactsOf
<1>8. QED BY <1>1, <1>2, <1>3, <1>4, <1>5, <1>6, <1>7 DEF Verdict, OverallStatus

\* While it serves, the process makes the statements of its calls and no others.
LEMMA ServingStatements ==
    ASSUME TypeInv, CallFits, Statement, mode = "serving"
    PROVE  /\ ~(InjectEvent \/ DeleteTable \/ NotaryKeystore \/ NotaryIdentity \/ LoadOrInitLedger)
           /\ now' = now /\ notary' = notary
<1> IInv /\ ProcessTyped BY DEF TypeInv
<1>1. pc \notin TableNames \cup StartStatements
  BY DEF IInv, DeletedInOrder, ProcessTyped
<1>2. ~(DeleteTable \/ NotaryKeystore \/ NotaryIdentity \/ LoadOrInitLedger)
  BY <1>1 DEF DeleteTable, NotaryKeystore, NotaryIdentity, LoadOrInitLedger, StartStatements
<1>3. ~InjectEvent
  BY DEF InjectEvent, CallFits, CallStatements
<1>4. notary' = notary
  BY <1>2 DEF Statement, IdentityRow, KeystoreRow, MineBlock, RevokeUnknown, InsertTx,
         InsertObject, InsertEvent, EventRefused, SetOwner, InsertOwnership, InsertCredential,
         CredentialRefused, InsertRevocation, RevocationRefused, SetRevoked,
         InsertSecurityEvent, SetMetadata, InjectEvent, DeriveKeystore, DeriveIdentity,
         Advance, Abort, memory
<1>5. QED BY <1>2, <1>3, <1>4, StatementCourse

\* The event of another object leaves the chain of this one alone, unless it takes
\* the place of a row with its id.
LEMMA OtherChain ==
    ASSUME NEW o, DOMAIN db = TableNames, InsertEvent, o # call.obj,
           Bounded(db.provenance_events),
           \A i \in DOMAIN Provenance(o) : Provenance(o)[i].id # EventId
    PROVE  Provenance(o)' = Provenance(o)
<1> DEFINE events == db.provenance_events
           e == NewEvent
           new == ReplaceEvent(events, e)
           r == NextRowid(events)
<1>1. db'.provenance_events = new
  BY CustodyNames DEF InsertEvent, CustodyTables
<1>2. e.id = EventId /\ e.obj = call.obj
  BY DEF NewEvent
<1> HIDE DEF e
<1>3. /\ DOMAIN new = Kept(events, e) \cup {r}
      /\ new[r] = e /\ r \notin DOMAIN events
      /\ \A i \in DOMAIN new \ {r} : new[i] = events[i]
  BY Replaced
<1> HIDE DEF new, r, events
<1>4. /\ DOMAIN Provenance(o) = {i \in DOMAIN events : events[i].obj = o}
      /\ \A i \in DOMAIN Provenance(o) : Provenance(o)[i] = events[i]
  BY DEF Provenance, events
<1>5. \A i : i \in DOMAIN new /\ new[i].obj = o <=> i \in DOMAIN Provenance(o)
  BY <1>2, <1>3, <1>4 DEF Kept
<1>6. \A i \in DOMAIN Provenance(o) : new[i] = events[i]
  BY <1>2, <1>3, <1>4, <1>5
<1>7. Provenance(o)' = [i \in {j \in DOMAIN new : new[j].obj = o} |-> new[i]]
  BY <1>1 DEF Provenance
<1>8. {j \in DOMAIN new : new[j].obj = o} = {i \in DOMAIN events : events[i].obj = o}
  BY <1>4, <1>5
<1>9. QED BY <1>4, <1>6, <1>7, <1>8 DEF Provenance, events

\* A request for an object while the server serves: another object keeps its verdict.
LEMMA OtherVerdictStays ==
    ASSUME TypeInv, CallFits, CustodyInv, Statement, mode = "serving",
           NEW o \in DOMAIN db.trust_objects, call.obj # o,
           pc \notin {"identityRow", "deriveIdentity"},
           pc = "eventRow" /\ call.op # "transfer" =>
               \A i \in DOMAIN Provenance(o) : Provenance(o)[i].id # EventId,
           pc = "revocationRow" /\ o \in DOMAIN db.revocations => db.revocations[o].id # now
    PROVE  Verdict(o)' = Verdict(o)
<1> DEFINE txs == db.blockchain_transactions
<1> IInv /\ DOMAIN db = TableNames BY DEF TypeInv, IInv, TablesTyped
<1>a. now' = now /\ notary' = notary
  BY ServingStatements
<1>b. /\ {"provenance_events", "trust_objects", "revocations", "identities",
          "blockchain_transactions"} \subseteq TableNames
  BY NamedTables, CustodyNames DEF CustodyTables
<1>c. db'.provenance_events = db.provenance_events => Provenance(o)' = Provenance(o)
  BY DEF Provenance
<1>d. db'.blockchain_transactions = txs => SameLedger(o)
  BY DEF SameLedger
<1>1. CASE KeystoreRow \/ DeriveKeystore
  <2>1. \A t \in TableNames \ {"wallet_keystores"} : db'[t] = db[t]
    BY <1>1 DEF KeystoreRow, DeriveKeystore, Row
  <2>2. QED BY <1>a, <1>b, <1>c, <1>d, <2>1, SameVerdict
<1>2. CASE MineBlock
  <2>1. \A t \in TableNames \ {"blockchain_blocks"} : db'[t] = db[t]
    BY <1>2, Mines
  <2>2. QED BY <1>a, <1>b, <1>c, <1>d, <2>1, SameVerdict
<1>3. CASE InsertTx
  <2>1. \A t \in TableNames \ {"blockchain_transactions"} : db'[t] = db[t]
    BY <1>3, Inserts
  <2>2. SameLedger(o)
    <3> DEFINE blocks == db.blockchain_blocks
               id == TxId(TxKind(pc))
               h == TopHeight(blocks)
               hash == TxHash(TxKind(pc))
    <3>1. db'.blockchain_transactions = RecordTx(txs, id, h, hash, notary)
      BY <1>3, <1>b DEF InsertTx
    <3>2. Linked(blocks, txs) /\ o # id[2]
      BY DEF IInv, TablesTyped, TxId
    <3> HIDE DEF txs, blocks, id, h, hash
    <3>3. LET new == RecordTx(txs, id, h, hash, notary)
          IN  /\ IsAnchored(new, o) <=> IsAnchored(txs, o)
              /\ IsAnchored(txs, o) => Proof(new, o) = Proof(txs, o)
              /\ \A k : VerifyProof(new, o, k) <=> VerifyProof(txs, o, k)
      BY <3>2, OtherProofsStay
    <3>4. QED BY <3>1, <3>3 DEF SameLedger, txs
  <2>3. QED BY <1>a, <1>b, <1>c, <2>1, <2>2, SameVerdict
<1>4. CASE InsertObject \/ ColumnStatement
  <2>1. \A t \in TableNames \ {"trust_objects"} : db'[t] = db[t]
    BY <1>4, QuietLeaves DEF LeavesAlone, InsertObject, Row
  <2>2. db'.trust_objects[o] = db.trust_objects[o]
    <3>1. CASE InsertObject
      BY <1>b, <3>1 DEF InsertObject, Row, Put
    <3>2. CASE ColumnStatement
      BY <1>b, <3>2 DEF ColumnStatement, SetOwner, SetRevoked, SetMetadata
    <3>3. QED BY <1>4, <3>1, <3>2
  <2>3. QED BY <1>a, <1>b, <1>c, <1>d, <2>1, <2>2, SameVerdict
<1>5. CASE InsertEvent
  <2>1. \A t \in TableNames \ {"provenance_events"} : db'[t] = db[t]
    BY <1>5 DEF InsertEvent
  <2>2. \A i \in DOMAIN Provenance(o) : Provenance(o)[i].id # EventId
    BY <1>5 DEF InsertEvent, Provenance, CustodyInv, TransferOnItsWay, BeforeEvent, Fresh
  <2>3. Provenance(o)' = Provenance(o)
    BY <1>5, <2>2, OtherChain DEF CustodyInv, HistoryTyped
  <2>4. QED BY <1>a, <1>b, <1>d, <2>1, <2>3, SameVerdict
<1>6. CASE InsertOwnership \/ InsertSecurityEvent \/ InsertCredential
  <2>1. \A t \in TableNames \ {"ownership_events", "security_events", "credentials"} :
            db'[t] = db[t]
    BY <1>6 DEF InsertOwnership, InsertSecurityEvent, InsertCredential
  <2>2. QED BY <1>a, <1>b, <1>c, <1>d, <2>1, SameVerdict
<1>7. CASE InsertRevocation
  <2>1. \A t \in TableNames \ {"revocations"} : db'[t] = db[t]
    BY <1>7, QuietLeaves DEF LeavesAlone
  <2>2. o \in DOMAIN db'.revocations <=> o \in DOMAIN db.revocations
    <3>1. DOMAIN db'.revocations =
             {x \in DOMAIN db.revocations \ {call.obj} : db.revocations[x].id # now}
                \cup {call.obj}
      BY <1>7, <1>b DEF InsertRevocation, Put
    <3>2. QED BY <1>7, <3>1 DEF InsertRevocation
  <2>3. QED BY <1>a, <1>b, <1>c, <1>d, <2>1, <2>2, SameVerdict
<1>8. CASE Refusal
  <2>1. db' = db
    BY <1>8, QuietLeaves
  <2>2. QED BY <1>a, <1>c, <1>d, <2>1, SameVerdict
<1>9. CASE IdentityRow \/ DeriveIdentity
  BY <1>9 DEF IdentityRow, DeriveIdentity
<1>10. QED BY <1>1, <1>2, <1>3, <1>4, <1>5, <1>6, <1>7, <1>8, <1>9, ServingStatements
              DEF Statement, ColumnStatement, Refusal

\* The statements of a request (the services of src/src/core) change no verdict of
\* verifyTrustObject but that on the object of the request, for any number of
\* requests on any number of objects; what remains are the ids made of the clock and
\* the keys that are replaced.
THEOREM RequestsTouchTheirObject == Spec => RequestsAreIsolated
<1> DEFINE Inv == TypeInv /\ CallFits /\ CustodyInv
           Isolated ==
               mode = "serving" /\ mode' = "serving" /\ db' # db =>
                 \A o \in DOMAIN db.trust_objects :
                     Verdict(o)' # Verdict(o) =>
                       \/ call.obj = o
                       \/ pc \in {"identityRow", "deriveIdentity"}
                       \/ pc = "eventRow" /\ call.op # "transfer"
                          /\ \E i \in DOMAIN Provenance(o) : Provenance(o)[i].id = EventId
                       \/ pc = "revocationRow" /\ o \in DOMAIN db.revocations
                                              /\ db.revocations[o].id = now
<1>1. Init => Inv
  BY InitTypes, InitCustody
<1>2. Inv /\ [Next]_vars => Inv'
  BY TypeSteps, FitSteps, CustodySteps DEF TypeInv
<1>3. Inv /\ [Next]_vars => Isolated
  <2> SUFFICES ASSUME Inv, [Next]_vars, mode = "serving", db' # db PROVE Isolated
    OBVIOUS
  <2>1. Statement
    <3>1. ~StartServer /\ ~StartSeedScript
      BY DEF StartServer, StartSeedScript
    <3>2. ~Around
      BY AroundCourse DEF TypeInv
    <3>3. ~UNCHANGED vars
      BY DEF vars
    <3>4. QED BY <3>1, <3>2, <3>3 DEF Next, Process, Around
  <2>2. QED BY <2>1, OtherVerdictStays
<1>4. Inv /\ [Next]_vars => [Isolated]_vars
  BY <1>3
<1>5. QED BY <1>1, <1>2, <1>4, PTL DEF Spec, RequestsAreIsolated
==============================================================================
