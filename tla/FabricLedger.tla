----------------------------- MODULE FabricLedger -----------------------------
(***************************************************************************)
(* The Fabric backend: the chaincode (fabric-chaincode/trustgrid_cc.go) and *)
(* the adapter that emulates it in memory (production-blockchain.adapter.ts,*)
(* class ProductionBlockchainAdapter), given the same calls.                *)
(*                                                                         *)
(* The adapter answers a call at once.  The chaincode is simulated by the   *)
(* endorsers on the state they have, and the transaction is ordered and     *)
(* committed later, in an order of Fabric's choosing, if no key it read has *)
(* been written since (Fabric's MVCC check, external).  Calls of different  *)
(* clients are therefore in flight together.                               *)
(*                                                                         *)
(* No caller passes an empty id or hash, so the chaincode's check for one   *)
(* is left out.  A proof is its content hash and its status.  A call is     *)
(* numbered, which stands for its Fabric transaction id.                   *)
(***************************************************************************)
EXTENDS Integers, Sequences, FiniteSets

CONSTANTS
    Objects,      \* trust object ids
    Digests,      \* content hashes
    MaxCalls      \* bound: the calls

Genesis == "TO-GENESIS-000"

ASSUME FabricAssumption == MaxCalls \in Nat /\ Genesis \notin Objects

VARIABLES
    state,        \* chaincode: key -> [proof, version]
    records,      \* chaincode: the keys PROV~ and SEC~ of its events
    endorsed,     \* calls simulated and not yet committed
    worldState,   \* adapter: object -> proof
    blocks,       \* adapter: the block after genesis, with its transaction
    calls,        \* how many calls were made
    twice,        \* objects registered again since the chaincode has them
    contended     \* objects two calls were in flight about

chaincode == <<state, records, endorsed>>
adapter == <<worldState, blocks>>
vars == <<chaincode, adapter, calls, twice, contended>>

Put(f, k, v) == [x \in DOMAIN f \cup {k} |-> IF x = k THEN v ELSE f[x]]

ActiveProof(h) == [hash |-> h, status |-> "ACTIVE"]

\* The genesis block, which links to nothing; a block hash is the block's number.
GenesisBlock == [height |-> 0, prev |-> -1, tx |-> "genesis"]

------------------------------------------------------------------------------
(* The emulation *)

\* currentHeight is counted apart from the array and never differs from it.
EmulateBlock(tx) ==
    blocks' = Append(blocks, [height |-> Len(blocks), prev |-> Len(blocks) - 1, tx |-> tx])

EmulateRegister(o, h) ==
    /\ worldState' = Put(worldState, o, ActiveProof(h))
    /\ EmulateBlock(<<"REGISTER_PROOF", calls>>)

\* Mutant: the world state is not updated.
EmulateRevokeBlockOnly(o) ==
    IF o \in DOMAIN worldState
    THEN EmulateBlock(<<"REVOKE_PROOF", calls>>) /\ UNCHANGED worldState
    ELSE UNCHANGED adapter

\* A proof that is not there raises before anything is written.
EmulateRevoke(o) ==
    IF o \in DOMAIN worldState
    THEN /\ worldState' = [worldState EXCEPT ![o].status = "REVOKED"]
         /\ EmulateBlock(<<"REVOKE_PROOF", calls>>)
    ELSE UNCHANGED adapter

EmulateRecord(type) ==
    /\ EmulateBlock(<<type, calls>>)
    /\ UNCHANGED worldState

\* verifyProof
EmulateVerify(o, h) ==
    o \in DOMAIN worldState /\ worldState[o].hash = h /\ worldState[o].status # "REVOKED"

\* verifyLedgerIntegrity: the links, and the hash of each header.
EmulatedIntegrity ==
    \A i \in 2..Len(blocks) : blocks[i].prev = blocks[i - 1].height /\ blocks[i].height = i - 1

------------------------------------------------------------------------------
(* The chaincode *)

VersionOf(key) == IF key \in DOMAIN state THEN state[key].version ELSE 0

Endorse(key, proof) ==
    endorsed' = endorsed \cup {[id |-> calls, key |-> key, proof |-> proof,
                                read |-> VersionOf(key)]}

\* Mutant: an object that is anchored already is anchored again.
RegisterProofAgain(o, h) ==
    /\ Endorse(o, ActiveProof(h))
    /\ UNCHANGED <<state, records>>

RegisterProof(o, h) ==
    /\ IF o \notin DOMAIN state THEN Endorse(o, ActiveProof(h)) ELSE UNCHANGED endorsed
    /\ UNCHANGED <<state, records>>

RevokeProof(o) ==
    /\ IF o \in DOMAIN state
       THEN Endorse(o, [state[o].proof EXCEPT !.status = "REVOKED"])
       ELSE UNCHANGED endorsed
    /\ UNCHANGED <<state, records>>

VerifyProof(o, h) ==
    o \in DOMAIN state /\ state[o].proof.hash = h /\ state[o].proof.status # "REVOKED"

\* A custody event or an alert has a key of its own and reads nothing: it is
\* committed whatever else is.
PutRecord(type, o) ==
    /\ records' = records \cup {<<type, o, calls>>}
    /\ UNCHANGED <<state, endorsed>>

\* InitLedger puts the genesis proof, at any time and whatever is there.
InitLedger ==
    /\ state' = Put(state, Genesis,
                    [proof |-> ActiveProof("0000"), version |-> VersionOf(Genesis) + 1])
    /\ UNCHANGED <<records, endorsed>>

Valid(t) == VersionOf(t.key) = t.read

\* Mutant: the ledger takes what was endorsed whatever was written since.
CommitUnchecked(t) ==
    /\ t \in endorsed
    /\ endorsed' = endorsed \ {t}
    /\ state' = Put(state, t.key, [proof |-> t.proof, version |-> VersionOf(t.key) + 1])
    /\ UNCHANGED <<records, adapter, calls, twice, contended>>

Commit(t) ==
    /\ t \in endorsed
    /\ endorsed' = endorsed \ {t}
    /\ state' = IF Valid(t)
                THEN Put(state, t.key, [proof |-> t.proof, version |-> VersionOf(t.key) + 1])
                ELSE state
    /\ UNCHANGED <<records, adapter, calls, twice, contended>>

------------------------------------------------------------------------------

InFlight(o) == \E t \in endorsed : t.key = o

Begin(o) ==
    /\ calls < MaxCalls
    /\ calls' = calls + 1
    /\ contended' = IF InFlight(o) THEN contended \cup {o} ELSE contended

CallRegisterProof(o, h) ==
    /\ Begin(o) /\ RegisterProof(o, h) /\ EmulateRegister(o, h)
    /\ twice' = IF o \in DOMAIN state THEN twice \cup {o} ELSE twice

CallRevokeProof(o) ==
    Begin(o) /\ RevokeProof(o) /\ EmulateRevoke(o) /\ UNCHANGED twice

CallAddProvenanceEvent(o) ==
    Begin(o) /\ PutRecord("PROV", o) /\ EmulateRecord("RECORD_PROVENANCE") /\ UNCHANGED twice

CallRecordSecurityEvent(o) ==
    Begin(o) /\ PutRecord("SEC", o) /\ EmulateRecord("SECURITY_ALERT") /\ UNCHANGED twice

CallInitLedger ==
    /\ calls < MaxCalls /\ calls' = calls + 1
    /\ InitLedger
    /\ UNCHANGED <<adapter, twice, contended>>

Init ==
    /\ state = [k \in {Genesis} |-> [proof |-> ActiveProof("0000"), version |-> 1]]
    /\ records = {} /\ endorsed = {}
    /\ worldState = [o \in {} |-> o]
    /\ blocks = <<GenesisBlock>>
    /\ calls = 0 /\ twice = {} /\ contended = {}

Next ==
    \/ \E o \in Objects, h \in Digests : CallRegisterProof(o, h)
    \/ \E o \in Objects \cup {Genesis} : CallRevokeProof(o)
    \/ \E o \in Objects : CallAddProvenanceEvent(o) \/ CallRecordSecurityEvent(o)
    \/ CallInitLedger
    \/ \E t \in endorsed : Commit(t)

Spec == Init /\ [][Next]_vars

------------------------------------------------------------------------------
(* Properties *)

\* Both keep the promises of a trust registry: what was registered is answered
\* until it is registered again, and a revocation keeps the hash.
Emulated == INSTANCE TrustRegistry WITH proof <- worldState, stored <- {}

Chaincode ==
    INSTANCE TrustRegistry WITH
        proof <- [o \in DOMAIN state \cap Objects |-> state[o].proof],
        stored <- {}

ImplementRegistry == Emulated!Spec /\ Chaincode!Spec

\* The chaincode promises more: an object is registered once, with one hash, and
\* stays revoked, whichever calls are in flight together.
RegisteredForGood ==
    [][\A o \in DOMAIN state \cap Objects :
          /\ o \in DOMAIN state' /\ state'[o].proof.hash = state[o].proof.hash
          /\ state[o].proof.status = "REVOKED" => state'[o].proof.status = "REVOKED"]_vars

\* The emulation answers what the chaincode would, about every object that was
\* not registered a second time and about which no two calls ran together; and
\* its chain verifies.
EmulationAgrees ==
    /\ \A o \in Objects \ (twice \cup contended) :
          ~InFlight(o) => /\ o \in DOMAIN state <=> o \in DOMAIN worldState
                          /\ o \in DOMAIN state => worldState[o] = state[o].proof
                          /\ \A h \in Digests : VerifyProof(o, h) <=> EmulateVerify(o, h)
    /\ EmulatedIntegrity
==============================================================================
