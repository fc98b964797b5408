-------------------------- MODULE FabricLedgerProofs --------------------------
(***************************************************************************)
(* The Fabric backend, for every set of objects and hashes and any number  *)
(* of calls in flight together: nothing is registered twice and a           *)
(* revocation is never undone, the chaincode and its emulation implement   *)
(* the registry, and they agree where FabricLedger says.                   *)
(***************************************************************************)
EXTENDS FabricLedger, TLAPS

Keys == Objects \cup {Genesis}

Hashes == Digests \cup {"0000"}

Proofs == [hash : Hashes, status : {"ACTIVE", "REVOKED"}]

\* The world state of the peers, the adapter's map and its chain are well formed.
StateTyped ==
    /\ DOMAIN state \subseteq Keys
    /\ \A k \in DOMAIN state :
          /\ state[k] = [proof |-> state[k].proof, version |-> state[k].version]
          /\ state[k].proof \in Proofs /\ state[k].version \in Nat \ {0}

WorldTyped ==
    /\ DOMAIN worldState \subseteq Objects
    /\ worldState \in [DOMAIN worldState -> Proofs]

\* What the endorsers promised.  Nothing was read that is newer than the state;
\* and a call that would still be valid registers an object that is not there, or
\* revokes the proof that is.
EndorsedOnState ==
    \A t \in endorsed :
        /\ t.key \in Keys /\ t.read \in Nat /\ t.read <= VersionOf(t.key)
        /\ Valid(t) => \/ /\ t.key \notin DOMAIN state
                          /\ \E h \in Digests : t.proof = ActiveProof(h)
                       \/ /\ t.key \in DOMAIN state
                          /\ t.proof = [hash |-> state[t.key].proof.hash, status |-> "REVOKED"]

IInv == StateTyped /\ WorldTyped /\ EndorsedOnState

------------------------------------------------------------------------------
(* Operators *)

\* A key that is written has a newer version, every other the version it had.
LEMMA VersionGrows ==
    ASSUME StateTyped, NEW k, NEW p,
           state' = Put(state, k, [proof |-> p, version |-> VersionOf(k) + 1])
    PROVE  /\ \A x : VersionOf(x) \in Nat
           /\ VersionOf(k)' = VersionOf(k) + 1
           /\ \A x : x # k => VersionOf(x)' = VersionOf(x)
<1>1. \A x : VersionOf(x) \in Nat
  BY DEF VersionOf, StateTyped
<1>2. DOMAIN state' = DOMAIN state \cup {k}
  BY DEF Put
<1>3. state'[k] = [proof |-> p, version |-> VersionOf(k) + 1]
  BY DEF Put
<1>4. \A x \in DOMAIN state : x # k => state'[x] = state[x]
  BY DEF Put
<1>5. QED BY <1>1, <1>2, <1>3, <1>4 DEF VersionOf

\* A state that is written stays well formed.
LEMMA PutKeepsStateTyped ==
    ASSUME StateTyped, NEW k \in Keys, NEW p \in Proofs,
           state' = Put(state, k, [proof |-> p, version |-> VersionOf(k) + 1])
    PROVE  StateTyped'
<1>1. VersionOf(k) \in Nat
  BY DEF VersionOf, StateTyped
<1>2. DOMAIN state' = DOMAIN state \cup {k}
  BY DEF Put
<1>3. state'[k] = [proof |-> p, version |-> VersionOf(k) + 1]
  BY DEF Put
<1>4. \A x \in DOMAIN state : x # k => state'[x] = state[x]
  BY DEF Put
<1>5. QED BY <1>1, <1>2, <1>3, <1>4 DEF StateTyped

\* Endorsing changes nothing for what is in flight.
LEMMA EndorsementKept ==
    ASSUME EndorsedOnState, state' = state,
           NEW t \in endorsed
    PROVE  /\ t.key \in Keys /\ t.read \in Nat /\ t.read <= VersionOf(t.key)'
           /\ Valid(t)' => \/ /\ t.key \notin DOMAIN state'
                              /\ \E h \in Digests : t.proof = ActiveProof(h)
                           \/ /\ t.key \in DOMAIN state'
                              /\ t.proof = [hash |-> state'[t.key].proof.hash,
                                            status |-> "REVOKED"]
  BY DEF EndorsedOnState, Valid, VersionOf

\* A commit, or InitLedger, makes what was endorsed on its key invalid and leaves
\* the rest as it was.
LEMMA PutKeepsEndorsed ==
    ASSUME StateTyped, EndorsedOnState, NEW k, NEW p,
           state' = Put(state, k, [proof |-> p, version |-> VersionOf(k) + 1]),
           endorsed' \subseteq endorsed
    PROVE  EndorsedOnState'
<1> SUFFICES ASSUME NEW t \in endorsed
             PROVE  /\ t.key \in Keys /\ t.read \in Nat /\ t.read <= VersionOf(t.key)'
                    /\ Valid(t)' =>
                          \/ /\ t.key \notin DOMAIN state'
                             /\ \E h \in Digests : t.proof = ActiveProof(h)
                          \/ /\ t.key \in DOMAIN state'
                             /\ t.proof = [hash |-> state'[t.key].proof.hash,
                                           status |-> "REVOKED"]
  BY DEF EndorsedOnState
<1>1. /\ t.key \in Keys /\ t.read \in Nat /\ t.read <= VersionOf(t.key)
      /\ Valid(t) => \/ /\ t.key \notin DOMAIN state
                        /\ \E h \in Digests : t.proof = ActiveProof(h)
                     \/ /\ t.key \in DOMAIN state
                        /\ t.proof = [hash |-> state[t.key].proof.hash, status |-> "REVOKED"]
  BY DEF EndorsedOnState
<1>2. /\ \A x : VersionOf(x) \in Nat
      /\ VersionOf(k)' = VersionOf(k) + 1
      /\ \A x : x # k => VersionOf(x)' = VersionOf(x)
  BY VersionGrows
<1>3. CASE t.key = k
  <2>1. t.read < VersionOf(t.key)'
    BY <1>1, <1>2, <1>3
  <2>2. ~Valid(t)'
    BY <1>1, <1>2, <1>3, <2>1 DEF Valid
  <2>3. QED BY <1>1, <1>2, <1>3, <2>1, <2>2
<1>4. CASE t.key # k
  <2>1. Valid(t)' = Valid(t) /\ VersionOf(t.key)' = VersionOf(t.key)
    BY <1>2, <1>4 DEF Valid
  <2>2. /\ DOMAIN state' = DOMAIN state \cup {k}
        /\ \A x \in DOMAIN state : x # k => state'[x] = state[x]
    BY DEF Put
  <2>3. QED BY <1>1, <1>4, <2>1, <2>2
<1>5. QED BY <1>3, <1>4

------------------------------------------------------------------------------
(* The invariant *)

LEMMA InitTyped == Init => IInv
  BY FabricAssumption DEF Init, IInv, StateTyped, WorldTyped, EndorsedOnState, Keys, Hashes,
     Proofs, ActiveProof

\* What one endorsement adds.
LEMMA EndorseKeepsInv ==
    ASSUME StateTyped, EndorsedOnState, state' = state,
           NEW k \in Keys, NEW p, Endorse(k, p),
           \/ k \notin DOMAIN state /\ \E h \in Digests : p = ActiveProof(h)
           \/ k \in DOMAIN state /\ p = [hash |-> state[k].proof.hash, status |-> "REVOKED"]
    PROVE  EndorsedOnState'
<1> DEFINE new == [id |-> calls, key |-> k, proof |-> p, read |-> VersionOf(k)]
<1>1. endorsed' = endorsed \cup {new}
  BY DEF Endorse
<1>2. VersionOf(k) \in Nat /\ VersionOf(k)' = VersionOf(k)
  BY DEF VersionOf, StateTyped
<1>3. /\ new.key = k /\ new.proof = p /\ new.read = VersionOf(k)
  OBVIOUS
<1> HIDE DEF new
<1>4. SUFFICES ASSUME NEW t \in endorsed'
               PROVE  /\ t.key \in Keys /\ t.read \in Nat /\ t.read <= VersionOf(t.key)'
                      /\ Valid(t)' =>
                            \/ /\ t.key \notin DOMAIN state'
                               /\ \E h \in Digests : t.proof = ActiveProof(h)
                            \/ /\ t.key \in DOMAIN state'
                               /\ t.proof = [hash |-> state'[t.key].proof.hash,
                                             status |-> "REVOKED"]
  BY DEF EndorsedOnState
<1>5. CASE t \in endorsed
  BY <1>5, EndorsementKept
<1>6. CASE t = new
  BY <1>2, <1>3, <1>6
<1>7. QED BY <1>1, <1>5, <1>6

LEMMA RegisterKeepsInv ==
    ASSUME IInv, NEW o \in Objects, NEW h \in Digests, CallRegisterProof(o, h)
    PROVE  IInv'
<1>1. state' = state
  BY DEF CallRegisterProof, RegisterProof
<1>2. StateTyped'
  BY <1>1 DEF IInv, StateTyped
<1>3. EndorsedOnState'
  <2>1. CASE o \notin DOMAIN state
    BY <1>1, <2>1, EndorseKeepsInv DEF IInv, CallRegisterProof, RegisterProof, Keys
  <2>2. CASE o \in DOMAIN state
    <3>1. endorsed' = endorsed
      BY <2>2 DEF CallRegisterProof, RegisterProof
    <3>2. QED BY <1>1, <3>1, EndorsementKept DEF IInv, EndorsedOnState
  <2>3. QED BY <2>1, <2>2
<1>4. WorldTyped'
  <2>1. worldState' = Put(worldState, o, ActiveProof(h))
    BY DEF CallRegisterProof, EmulateRegister
  <2>2. ActiveProof(h) \in Proofs
    BY DEF ActiveProof, Proofs, Hashes
  <2>3. QED BY <2>1, <2>2 DEF IInv, WorldTyped, Put
<1>5. QED BY <1>2, <1>3, <1>4 DEF IInv

\* The emulation's revocation sets one proof, or does nothing.
LEMMA EmulatedRevocation ==
    ASSUME IInv, NEW o \in Keys, EmulateRevoke(o)
    PROVE  \/ worldState' = worldState
           \/ /\ o \in DOMAIN worldState
              /\ worldState' = Put(worldState, o, [hash |-> worldState[o].hash,
                                                   status |-> "REVOKED"])
<1>1. CASE o \notin DOMAIN worldState
  BY <1>1 DEF EmulateRevoke, adapter
<1>2. CASE o \in DOMAIN worldState
  <2>1. worldState' = [worldState EXCEPT ![o] = [worldState[o] EXCEPT !.status = "REVOKED"]]
    BY <1>2 DEF EmulateRevoke
  <2>2. worldState[o] \in Proofs
    BY <1>2 DEF IInv, WorldTyped
  <2>3. [worldState[o] EXCEPT !.status = "REVOKED"]
            = [hash |-> worldState[o].hash, status |-> "REVOKED"]
    BY <2>2 DEF Proofs
  <2> DEFINE revoked == [hash |-> worldState[o].hash, status |-> "REVOKED"]
  <2>4. worldState' = [worldState EXCEPT ![o] = revoked]
    BY <2>1, <2>3
  <2> HIDE DEF revoked
  <2>5. worldState' = [x \in DOMAIN worldState |-> IF x = o THEN revoked ELSE worldState[x]]
    BY <2>4 DEF IInv, WorldTyped
  <2>6. DOMAIN worldState \cup {o} = DOMAIN worldState
    BY <1>2
  <2>7. worldState' = Put(worldState, o, revoked)
    BY <2>5, <2>6 DEF Put
  <2>8. QED BY <1>2, <2>7 DEF revoked
<1>3. QED BY <1>1, <1>2

LEMMA RevokeKeepsInv ==
    ASSUME IInv, NEW o \in Keys, CallRevokeProof(o)
    PROVE  IInv'
<1>1. state' = state
  BY DEF CallRevokeProof, RevokeProof
<1>2. StateTyped'
  BY <1>1 DEF IInv, StateTyped
<1>3. EndorsedOnState'
  <2>1. CASE o \in DOMAIN state
    <3>1. [state[o].proof EXCEPT !.status = "REVOKED"]
              = [hash |-> state[o].proof.hash, status |-> "REVOKED"]
      BY <2>1 DEF IInv, StateTyped, Proofs
    <3>2. QED BY <1>1, <2>1, <3>1, EndorseKeepsInv DEF IInv, CallRevokeProof, RevokeProof
  <2>2. CASE o \notin DOMAIN state
    <3>1. endorsed' = endorsed
      BY <2>2 DEF CallRevokeProof, RevokeProof
    <3>2. QED BY <1>1, <3>1, EndorsementKept DEF IInv, EndorsedOnState
  <2>3. QED BY <2>1, <2>2
<1>4. WorldTyped'
  <2>1. \/ worldState' = worldState
        \/ /\ o \in DOMAIN worldState
           /\ worldState' = Put(worldState, o, [hash |-> worldState[o].hash,
                                                status |-> "REVOKED"])
    BY EmulatedRevocation DEF CallRevokeProof
  <2>2. \A x \in DOMAIN worldState : worldState[x].hash \in Hashes
    BY DEF IInv, WorldTyped, Proofs
  <2>3. QED BY <2>1, <2>2 DEF IInv, WorldTyped, Put, Proofs
<1>5. QED BY <1>2, <1>3, <1>4 DEF IInv

LEMMA CommitKeepsInv ==
    ASSUME IInv, NEW t \in endorsed, Commit(t)
    PROVE  IInv'
<1>1. endorsed' \subseteq endorsed /\ worldState' = worldState
  BY DEF Commit, adapter
<1>2. WorldTyped'
  BY <1>1 DEF IInv, WorldTyped
<1>3. CASE Valid(t)
  <2>1. state' = Put(state, t.key, [proof |-> t.proof, version |-> VersionOf(t.key) + 1])
    BY <1>3 DEF Commit
  <2>2. t.key \in Keys /\ t.proof \in Proofs
    <3>1. t.key \in Keys
      BY DEF IInv, EndorsedOnState
    <3>2. ASSUME NEW h \in Digests, t.proof = ActiveProof(h) PROVE t.proof \in Proofs
      BY <3>2 DEF ActiveProof, Proofs, Hashes
    <3>3. ASSUME t.key \in DOMAIN state,
                 t.proof = [hash |-> state[t.key].proof.hash, status |-> "REVOKED"]
          PROVE  t.proof \in Proofs
      BY <3>3 DEF IInv, StateTyped, Proofs
    <3>4. QED BY <1>3, <3>1, <3>2, <3>3 DEF IInv, EndorsedOnState
  <2>3. QED BY <1>1, <1>2, <2>1, <2>2, PutKeepsStateTyped, PutKeepsEndorsed DEF IInv
<1>4. CASE ~Valid(t)
  <2>1. state' = state
    BY <1>4 DEF Commit
  <2>2. QED BY <1>1, <1>2, <2>1, EndorsementKept DEF IInv, StateTyped, EndorsedOnState
<1>5. QED BY <1>3, <1>4

LEMMA InitLedgerKeepsInv ==
    ASSUME IInv, CallInitLedger
    PROVE  IInv'
<1>1. /\ state' = Put(state, Genesis, [proof |-> ActiveProof("0000"),
                                       version |-> VersionOf(Genesis) + 1])
      /\ endorsed' = endorsed /\ worldState' = worldState
  BY DEF CallInitLedger, InitLedger, adapter
<1>2. Genesis \in Keys /\ ActiveProof("0000") \in Proofs
  BY DEF Keys, ActiveProof, Proofs, Hashes
<1>3. QED BY <1>1, <1>2, PutKeepsStateTyped, PutKeepsEndorsed DEF IInv, WorldTyped

\* Custody events, alerts and stuttering touch no proof.
LEMMA RestKeepsInv ==
    ASSUME IInv, UNCHANGED <<state, endorsed, worldState>>
    PROVE  IInv'
  BY EndorsementKept DEF IInv, StateTyped, WorldTyped, EndorsedOnState

\* What each step is.
LEMMA Steps ==
    ASSUME [Next]_vars
    PROVE  \/ \E o \in Objects, h \in Digests : CallRegisterProof(o, h)
           \/ \E o \in Keys : CallRevokeProof(o)
           \/ \E t \in endorsed : Commit(t)
           \/ CallInitLedger
           \/ UNCHANGED <<state, endorsed, worldState>>
<1>1. CASE UNCHANGED vars
  BY <1>1 DEF vars, chaincode, adapter
<1>2. ASSUME NEW o \in Objects, CallAddProvenanceEvent(o) \/ CallRecordSecurityEvent(o)
      PROVE  UNCHANGED <<state, endorsed, worldState>>
  BY <1>2 DEF CallAddProvenanceEvent, CallRecordSecurityEvent, PutRecord, EmulateRecord
<1>3. QED BY <1>1, <1>2 DEF Next, Keys

LEMMA InvStep == IInv /\ [Next]_vars => IInv'
  BY Steps, RegisterKeepsInv, RevokeKeepsInv, CommitKeepsInv, InitLedgerKeepsInv, RestKeepsInv

LEMMA Invariance == Spec => []IInv
<1>1. Init => IInv
  BY InitTyped
<1>2. IInv /\ [Next]_vars => IInv'
  BY InvStep
<1>3. QED BY <1>1, <1>2, PTL DEF Spec

------------------------------------------------------------------------------
(* Registered for good *)

\* A commit sets one proof, of an object that had none or to its revocation.
LEMMA CommittedProof ==
    ASSUME IInv, NEW t \in endorsed, Commit(t), state' # state
    PROVE  /\ state' = Put(state, t.key, [proof |-> t.proof, version |-> VersionOf(t.key) + 1])
           /\ \/ /\ t.key \notin DOMAIN state
                 /\ \E h \in Digests : t.proof = ActiveProof(h)
              \/ /\ t.key \in DOMAIN state
                 /\ t.proof = [hash |-> state[t.key].proof.hash, status |-> "REVOKED"]
<1>1. Valid(t)
  BY DEF Commit
<1>2. QED BY <1>1 DEF Commit, IInv, EndorsedOnState

\* What RegisteredForGood asks of one step.
StaysRegistered ==
    \A o \in DOMAIN state \cap Objects :
        /\ o \in DOMAIN state' /\ state'[o].proof.hash = state[o].proof.hash
        /\ state[o].proof.status = "REVOKED" => state'[o].proof.status = "REVOKED"

LEMMA StepStaysRegistered ==
    ASSUME IInv, [Next]_vars
    PROVE  StaysRegistered
<1>1. CASE state' = state
  BY <1>1 DEF StaysRegistered
<1>2. ASSUME NEW t \in endorsed, Commit(t), state' # state
      PROVE  StaysRegistered
  <2>1. state' = Put(state, t.key, [proof |-> t.proof, version |-> VersionOf(t.key) + 1])
    BY <1>2, CommittedProof
  <2>2. /\ DOMAIN state' = DOMAIN state \cup {t.key}
        /\ state'[t.key].proof = t.proof
        /\ \A x \in DOMAIN state : x # t.key => state'[x] = state[x]
    BY <2>1 DEF Put
  <2>3. \/ t.key \notin DOMAIN state
        \/ t.proof = [hash |-> state[t.key].proof.hash, status |-> "REVOKED"]
    BY <1>2, CommittedProof
  <2>4. t.key \in DOMAIN state => /\ t.proof.hash = state[t.key].proof.hash
                                  /\ t.proof.status = "REVOKED"
    BY <2>3
  <2>5. QED BY <2>2, <2>4 DEF StaysRegistered
<1>3. CASE CallInitLedger
  BY <1>3, FabricAssumption DEF CallInitLedger, InitLedger, Put, StaysRegistered
<1>4. QED BY <1>1, <1>2, <1>3, Steps
     DEF CallRegisterProof, RegisterProof, CallRevokeProof, RevokeProof

\* trustgrid_cc.go, RegisterProof and RevokeProof: whichever calls are endorsed on
\* the same state, an object keeps the hash it was registered with and a revoked
\* one stays revoked.
THEOREM ChaincodeRegistersForGood == Spec => RegisteredForGood
<1>1. IInv /\ [Next]_vars => [StaysRegistered]_vars
  BY StepStaysRegistered
<1>2. Spec => []IInv
  BY Invariance
<1>3. [][StaysRegistered]_vars => RegisteredForGood
  BY PTL DEF StaysRegistered, RegisteredForGood
<1>4. QED BY <1>1, <1>2, <1>3, PTL DEF Spec

------------------------------------------------------------------------------
(* Refinement *)

\* The step of the emulation is one of the registry's.
LEMMA EmulatedStep ==
    ASSUME IInv, [Next]_vars
    PROVE  [Emulated!Next]_(Emulated!vars)
<1> USE DEF Emulated!vars
<1>1. CASE worldState' = worldState
  BY <1>1
<1>2. ASSUME NEW o \in Objects, NEW h \in Digests, CallRegisterProof(o, h)
      PROVE  Emulated!Anchor(o)
  <2>1. worldState' = Put(worldState, o, ActiveProof(h))
    BY <1>2 DEF CallRegisterProof, EmulateRegister
  <2>2. o \in DOMAIN worldState' /\ worldState'[o] = ActiveProof(h)
    BY <2>1 DEF Put
  <2>3. QED BY <2>1, <2>2 DEF Emulated!Anchor, Emulated!Put, Put, ActiveProof
<1>3. ASSUME NEW o \in Keys, CallRevokeProof(o), worldState' # worldState
      PROVE  o \in Objects /\ Emulated!Revoke(o)
  <2>1. /\ o \in DOMAIN worldState
        /\ worldState' = Put(worldState, o, [hash |-> worldState[o].hash,
                                             status |-> "REVOKED"])
    BY <1>3, EmulatedRevocation DEF CallRevokeProof
  <2>2. QED BY <2>1 DEF IInv, WorldTyped, Emulated!Revoke, Emulated!Put, Put
<1>4. CASE \E t \in endorsed : Commit(t)
  BY <1>1, <1>4 DEF Commit, adapter
<1>5. CASE CallInitLedger
  BY <1>1, <1>5 DEF CallInitLedger, adapter
<1>6. QED BY <1>1, <1>2, <1>3, <1>4, <1>5, Steps DEF Emulated!Next

\* The proofs of the objects, without the genesis entry.
View == [o \in DOMAIN state \cap Objects |-> state[o].proof]

\* So is the chaincode's: a commit anchors or revokes, all else is no step.
LEMMA ChaincodeStep ==
    ASSUME IInv, [Next]_vars
    PROVE  [Chaincode!Next]_(Chaincode!vars)
<1>1. CASE View' = View
  BY <1>1 DEF View, Chaincode!vars
<1>2. ASSUME NEW t \in endorsed, Commit(t), View' # View
      PROVE  \E o \in Objects : Chaincode!Anchor(o) \/ Chaincode!Revoke(o)
  <2>1. state' # state
    BY <1>2 DEF View
  <2>2. state' = Put(state, t.key, [proof |-> t.proof, version |-> VersionOf(t.key) + 1])
    BY <1>2, <2>1, CommittedProof
  <2>3. /\ DOMAIN state' = DOMAIN state \cup {t.key}
        /\ state'[t.key].proof = t.proof
        /\ \A x \in DOMAIN state : x # t.key => state'[x] = state[x]
    BY <2>2 DEF Put
  <2>4. t.key \in Objects
    <3>1. SUFFICES ASSUME t.key \notin Objects PROVE View' = View
      BY <1>2
    <3>2. DOMAIN state' \cap Objects = DOMAIN state \cap Objects
      BY <2>3, <3>1
    <3>3. \A o \in DOMAIN state \cap Objects : state'[o].proof = state[o].proof
      BY <2>3, <3>1
    <3>4. QED BY <3>2, <3>3 DEF View
  <2>5. View' = Put(View, t.key, t.proof)
    <3>1. DOMAIN state' \cap Objects = (DOMAIN state \cap Objects) \cup {t.key}
      BY <2>3, <2>4
    <3>2. \A x \in DOMAIN state' \cap Objects :
              state'[x].proof = IF x = t.key THEN t.proof ELSE View[x]
      BY <2>3 DEF View
    <3>3. View' = [x \in DOMAIN state' \cap Objects |-> state'[x].proof]
      BY DEF View
    <3>4. DOMAIN View = DOMAIN state \cap Objects
      BY DEF View
    <3>5. QED BY <3>1, <3>2, <3>3, <3>4 DEF Put
  <2>6. CASE \E h \in Digests : t.proof = ActiveProof(h)
    <3>1. t.key \in DOMAIN View' /\ View'[t.key] = t.proof
      BY <2>5 DEF Put
    <3>2. View'[t.key].hash \in Digests /\ View'[t.key].status = "ACTIVE"
      BY <2>6, <3>1 DEF ActiveProof
    <3>3. View' = Chaincode!Put(View, t.key, View'[t.key])
      BY <2>5, <3>1 DEF Chaincode!Put, Put
    <3>4. Chaincode!Anchor(t.key)
      BY <3>1, <3>2, <3>3 DEF Chaincode!Anchor, View
    <3>5. QED BY <2>4, <3>4
  <2>7. CASE t.key \in DOMAIN state
             /\ t.proof = [hash |-> state[t.key].proof.hash, status |-> "REVOKED"]
    <3>1. t.key \in DOMAIN View /\ View[t.key] = state[t.key].proof
      BY <2>4, <2>7 DEF View
    <3>2. Chaincode!Revoke(t.key)
      BY <2>5, <2>7, <3>1 DEF Chaincode!Revoke, Chaincode!Put, Put, View
    <3>3. QED BY <2>4, <3>2
  <2>8. QED BY <1>2, <2>1, <2>6, <2>7, CommittedProof
<1>3. CASE CallInitLedger
  <2>1. /\ DOMAIN state' \cap Objects = DOMAIN state \cap Objects
        /\ \A o \in DOMAIN state \cap Objects : state'[o] = state[o]
    BY <1>3, FabricAssumption DEF CallInitLedger, InitLedger, Put
  <2>2. QED BY <1>1, <2>1 DEF View
<1>4. CASE state' = state
  BY <1>1, <1>4 DEF View
<1>5. QED BY <1>1, <1>2, <1>3, <1>4, Steps
     DEF Chaincode!Next, CallRegisterProof, RegisterProof, CallRevokeProof, RevokeProof

\* Both the chaincode and its emulation in the adapter are trust registries
\* (blockchain.interface.ts): a proof appears with its hash, a revocation keeps it,
\* and only a registration takes a revocation back.
THEOREM BothImplementRegistry == Spec => ImplementRegistry
<1>1. Init => Emulated!Init
  BY DEF Init, Emulated!Init, Emulated!NoProofs
<1>2. Init => Chaincode!Init
  <2>1. Init => DOMAIN state \cap Objects = {}
    BY FabricAssumption DEF Init
  <2>2. QED BY <2>1 DEF Init, Chaincode!Init, Chaincode!NoProofs
<1>3. IInv /\ [Next]_vars => [Emulated!Next]_(Emulated!vars)
  BY EmulatedStep
<1>4. IInv /\ [Next]_vars => [Chaincode!Next]_(Chaincode!vars)
  BY ChaincodeStep
<1>5. Spec => []IInv
  BY Invariance
<1>6. Spec => Emulated!Spec
  BY <1>1, <1>3, <1>5, PTL DEF Spec, Emulated!Spec
<1>7. Spec => Chaincode!Spec
  BY <1>2, <1>4, <1>5, PTL DEF Spec, Chaincode!Spec
<1>8. QED BY <1>6, <1>7 DEF ImplementRegistry

------------------------------------------------------------------------------
(* Agreement *)

\* What EmulationAgrees says of an object holds while nothing about it is in
\* flight.  While something is, it is one call, which will be valid when it is
\* committed and whose proof the emulation has already.
Uncontended == Objects \ (twice \cup contended)

Settled(o) ==
    /\ o \in DOMAIN state <=> o \in DOMAIN worldState
    /\ o \in DOMAIN state => worldState[o] = state[o].proof

Foreseen(o) ==
    \A t \in endorsed :
        t.key = o => /\ Valid(t)
                     /\ o \in DOMAIN worldState /\ worldState[o] = t.proof
                     /\ \A u \in endorsed : u.key = o => u = t

Agreement == \A o \in Uncontended : (~InFlight(o) => Settled(o)) /\ Foreseen(o)

\* Heights and links of the emulated chain.
Linked ==
    /\ \E B : blocks \in Seq(B)
    /\ \A i \in 1..Len(blocks) : blocks[i].height = i - 1 /\ blocks[i].prev = i - 2

AInv == IInv /\ Agreement

\* An object that a step does not touch stays as it was.
LEMMA UntouchedAgrees ==
    ASSUME Agreement, NEW o \in Uncontended,
           state' = state, worldState' = worldState, endorsed' = endorsed
    PROVE  (~InFlight(o)' => Settled(o)') /\ Foreseen(o)'
  BY DEF Agreement, InFlight, Settled, Foreseen, Valid, VersionOf

\* A call about one object leaves the others alone.
LEMMA OtherKeyAgrees ==
    ASSUME Agreement, NEW o \in Uncontended, NEW k, k # o,
           /\ o \in DOMAIN state <=> o \in DOMAIN state'
           /\ o \in DOMAIN state => state'[o] = state[o],
           /\ o \in DOMAIN worldState <=> o \in DOMAIN worldState'
           /\ o \in DOMAIN worldState => worldState'[o] = worldState[o],
           \A t : t.key # k => (t \in endorsed' <=> t \in endorsed)
    PROVE  (~InFlight(o)' => Settled(o)') /\ Foreseen(o)'
<1>1. VersionOf(o)' = VersionOf(o)
  BY DEF VersionOf
<1>2. InFlight(o)' <=> InFlight(o)
  BY DEF InFlight
<1>3. \A t : t.key = o => (Valid(t)' <=> Valid(t))
  BY <1>1 DEF Valid
<1>4. Settled(o) => Settled(o)'
  BY DEF Settled
<1>5. QED BY <1>2, <1>3, <1>4 DEF Agreement, Foreseen

\* A call that endorses a proof and gives it to the emulation, about an object with
\* nothing in flight.
LEMMA EndorsedAgrees ==
    ASSUME IInv, NEW o \in Objects, ~InFlight(o), NEW p, Endorse(o, p), state' = state,
           worldState' = Put(worldState, o, p)
    PROVE  InFlight(o)' /\ Foreseen(o)'
<1>1. PICK new : /\ endorsed' = endorsed \cup {new}
                  /\ new.key = o /\ new.proof = p /\ new.read = VersionOf(o)
  <2> DEFINE r == [id |-> calls, key |-> o, proof |-> p, read |-> VersionOf(o)]
  <2>1. endorsed' = endorsed \cup {r} /\ r.key = o /\ r.proof = p /\ r.read = VersionOf(o)
    BY DEF Endorse
  <2> HIDE DEF r
  <2>2. QED BY <2>1
<1>2. VersionOf(o)' = VersionOf(o)
  BY DEF VersionOf
<1>3. \A t \in endorsed' : t.key = o => t = new
  BY <1>1 DEF InFlight
<1>4. Valid(new)'
  BY <1>1, <1>2 DEF Valid
<1>5. o \in DOMAIN worldState' /\ worldState'[o] = p
  BY DEF Put
<1>6. QED BY <1>1, <1>3, <1>4, <1>5 DEF InFlight, Foreseen

LEMMA RegisterAgrees ==
    ASSUME AInv, NEW k \in Objects, NEW h \in Digests, CallRegisterProof(k, h),
           NEW o \in Uncontended'
    PROVE  (~InFlight(o)' => Settled(o)') /\ Foreseen(o)'
<1>1. /\ state' = state
      /\ worldState' = Put(worldState, k, ActiveProof(h))
      /\ o \in Uncontended
  BY DEF CallRegisterProof, RegisterProof, EmulateRegister, Begin, Uncontended
<1>2. CASE o # k
  <2>1. \A t : t.key # k => (t \in endorsed' <=> t \in endorsed)
    BY DEF CallRegisterProof, RegisterProof, Endorse
  <2>2. /\ o \in DOMAIN worldState <=> o \in DOMAIN worldState'
        /\ o \in DOMAIN worldState => worldState'[o] = worldState[o]
    BY <1>1, <1>2 DEF Put
  <2>3. QED BY <1>1, <1>2, <2>1, <2>2, OtherKeyAgrees DEF AInv
<1>3. CASE o = k
  <2>1. ~InFlight(o) /\ o \notin DOMAIN state
    BY <1>3 DEF CallRegisterProof, Begin, Uncontended
  <2>2. QED BY <1>1, <1>3, <2>1, EndorsedAgrees DEF AInv, CallRegisterProof, RegisterProof
<1>4. QED BY <1>2, <1>3

LEMMA RevokeAgrees ==
    ASSUME AInv, NEW k \in Keys, CallRevokeProof(k), NEW o \in Uncontended'
    PROVE  (~InFlight(o)' => Settled(o)') /\ Foreseen(o)'
<1>1. /\ state' = state /\ o \in Uncontended /\ o \in Objects
      /\ \/ worldState' = worldState
         \/ /\ k \in DOMAIN worldState
            /\ worldState' = Put(worldState, k, [hash |-> worldState[k].hash,
                                                 status |-> "REVOKED"])
  BY EmulatedRevocation DEF AInv, CallRevokeProof, RevokeProof, Begin, Uncontended
<1>2. CASE o # k
  <2>1. \A t : t.key # k => (t \in endorsed' <=> t \in endorsed)
    BY DEF CallRevokeProof, RevokeProof, Endorse
  <2>2. /\ o \in DOMAIN worldState <=> o \in DOMAIN worldState'
        /\ o \in DOMAIN worldState => worldState'[o] = worldState[o]
    BY <1>1, <1>2 DEF Put
  <2>3. QED BY <1>1, <1>2, <2>1, <2>2, OtherKeyAgrees DEF AInv
<1>3. CASE o = k
  <2>1. ~InFlight(o) /\ Settled(o)
    BY <1>1, <1>3 DEF CallRevokeProof, Begin, Uncontended, AInv, Agreement
  <2>2. CASE o \notin DOMAIN state
    <3>1. endorsed' = endorsed /\ worldState' = worldState
      BY <1>3, <2>1, <2>2
         DEF CallRevokeProof, RevokeProof, EmulateRevoke, adapter, Settled
    <3>2. QED BY <1>1, <3>1, UntouchedAgrees DEF AInv
  <2>3. CASE o \in DOMAIN state
    <3> DEFINE p == [state[o].proof EXCEPT !.status = "REVOKED"]
    <3>1. Endorse(o, p)
      BY <1>3, <2>3 DEF CallRevokeProof, RevokeProof
    <3>2. p = [hash |-> state[o].proof.hash, status |-> "REVOKED"]
      BY <2>3 DEF AInv, IInv, StateTyped, Proofs
    <3>3. o \in DOMAIN worldState /\ worldState[o] = state[o].proof
      BY <2>1, <2>3 DEF Settled
    <3>4. worldState' = [worldState EXCEPT ![o] = [worldState[o] EXCEPT !.status = "REVOKED"]]
      BY <1>3, <3>3 DEF CallRevokeProof, EmulateRevoke
    <3>5. worldState' = [worldState EXCEPT ![o] = p]
      BY <3>3, <3>4
    <3> HIDE DEF p
    <3>6. worldState' = [x \in DOMAIN worldState |-> IF x = o THEN p ELSE worldState[x]]
      BY <3>5 DEF AInv, IInv, WorldTyped
    <3>7. DOMAIN worldState \cup {o} = DOMAIN worldState
      BY <3>3
    <3>8. worldState' = Put(worldState, o, p)
      BY <3>6, <3>7 DEF Put
    <3>9. QED BY <1>1, <2>1, <3>1, <3>8, EndorsedAgrees DEF AInv
  <2>4. QED BY <2>2, <2>3
<1>4. QED BY <1>2, <1>3

LEMMA CommitAgrees ==
    ASSUME AInv, NEW u \in endorsed, Commit(u), NEW o \in Uncontended'
    PROVE  (~InFlight(o)' => Settled(o)') /\ Foreseen(o)'
<1>1. /\ o \in Uncontended /\ worldState' = worldState /\ endorsed' = endorsed \ {u}
      /\ state' = IF Valid(u)
                  THEN Put(state, u.key, [proof |-> u.proof, version |-> VersionOf(u.key) + 1])
                  ELSE state
  BY DEF Commit, adapter, Uncontended
<1>2. CASE o # u.key
  <2>1. /\ o \in DOMAIN state <=> o \in DOMAIN state'
        /\ o \in DOMAIN state => state'[o] = state[o]
    BY <1>1, <1>2 DEF Put
  <2>2. \A t : t.key # u.key => (t \in endorsed' <=> t \in endorsed)
    BY <1>1
  <2>3. QED BY <1>1, <1>2, <2>1, <2>2, OtherKeyAgrees DEF AInv
<1>3. CASE o = u.key
  <2>1. /\ Valid(u) /\ o \in DOMAIN worldState /\ worldState[o] = u.proof
        /\ \A t \in endorsed : t.key = o => t = u
    BY <1>1, <1>3 DEF AInv, Agreement, Foreseen
  <2>2. ~InFlight(o)'
    BY <1>1, <2>1 DEF InFlight
  <2>3. o \in DOMAIN state' /\ state'[o].proof = u.proof
    BY <1>1, <1>3, <2>1 DEF Put
  <2>4. QED BY <1>1, <2>1, <2>2, <2>3 DEF Settled, Foreseen, InFlight
<1>4. QED BY <1>2, <1>3

LEMMA InitLedgerAgrees ==
    ASSUME AInv, CallInitLedger, NEW o \in Uncontended'
    PROVE  (~InFlight(o)' => Settled(o)') /\ Foreseen(o)'
<1>1. /\ o \in Uncontended /\ o # Genesis
      /\ worldState' = worldState /\ endorsed' = endorsed
  BY FabricAssumption DEF CallInitLedger, InitLedger, adapter, Uncontended
<1>2. /\ o \in DOMAIN state <=> o \in DOMAIN state'
      /\ o \in DOMAIN state => state'[o] = state[o]
  BY <1>1 DEF CallInitLedger, InitLedger, Put
<1>3. QED BY <1>1, <1>2, OtherKeyAgrees DEF AInv

LEMMA RestAgrees ==
    ASSUME AInv, UNCHANGED <<state, endorsed, worldState>>, [Next]_vars,
           NEW o \in Uncontended'
    PROVE  (~InFlight(o)' => Settled(o)') /\ Foreseen(o)'
<1>1. o \in Uncontended
  BY DEF Uncontended, Next, vars, Begin, CallRegisterProof, CallRevokeProof,
         CallAddProvenanceEvent, CallRecordSecurityEvent, CallInitLedger, Commit
<1>2. QED BY <1>1, UntouchedAgrees DEF AInv

LEMMA AgreementStep == AInv /\ [Next]_vars => AInv'
<1> SUFFICES ASSUME AInv, [Next]_vars PROVE AInv'
  OBVIOUS
<1>1. IInv'
  BY InvStep DEF AInv
<1>2. ASSUME NEW o \in Uncontended' PROVE (~InFlight(o)' => Settled(o)') /\ Foreseen(o)'
  BY <1>2, Steps, RegisterAgrees, RevokeAgrees, CommitAgrees, InitLedgerAgrees, RestAgrees
<1>3. QED BY <1>1, <1>2 DEF AInv, Agreement

\* Every call of the emulation appends one linked block, or none.
LEMMA LinkedStep == Linked /\ [Next]_vars => Linked'
<1> SUFFICES ASSUME Linked, [Next]_vars PROVE Linked'
  OBVIOUS
<1>1. \/ blocks' = blocks
      \/ \E tx : EmulateBlock(tx)
  BY DEF Next, vars, adapter, CallRegisterProof, EmulateRegister, CallRevokeProof,
     EmulateRevoke, CallAddProvenanceEvent, CallRecordSecurityEvent, EmulateRecord,
     CallInitLedger, Commit
<1>2. CASE blocks' = blocks
  BY <1>2 DEF Linked
<1>3. ASSUME NEW tx, EmulateBlock(tx) PROVE Linked'
  <2> DEFINE new == [height |-> Len(blocks), prev |-> Len(blocks) - 1, tx |-> tx]
  <2>1. PICK B : blocks \in Seq(B)
    BY DEF Linked
  <2>2. blocks \in Seq(B \cup {new})
    BY <2>1
  <2>3. /\ blocks' \in Seq(B \cup {new})
        /\ Len(blocks') = Len(blocks) + 1
        /\ \A i \in 1..Len(blocks) : blocks'[i] = blocks[i]
        /\ blocks'[Len(blocks) + 1] = new
    BY <1>3, <2>2 DEF EmulateBlock
  <2>4. new.height = Len(blocks) /\ new.prev = Len(blocks) - 1
    OBVIOUS
  <2> HIDE DEF new
  <2>5. \A i \in 1..Len(blocks') : blocks'[i].height = i - 1 /\ blocks'[i].prev = i - 2
    BY <2>1, <2>3, <2>4 DEF Linked
  <2>6. QED BY <2>3, <2>5 DEF Linked
<1>4. QED BY <1>1, <1>2, <1>3

\* production-blockchain.adapter.ts against trustgrid_cc.go: about an object that was
\* not registered twice and about which no two calls ran together, the emulation
\* answers what the chaincode answers once nothing is in flight; its chain verifies.
THEOREM EmulationIsFaithful == Spec => []EmulationAgrees
<1>1. Init => AInv
  <2>1. ASSUME Init PROVE Agreement
    BY <2>1, FabricAssumption DEF Init, Agreement, InFlight, Settled, Foreseen, Uncontended
  <2>2. QED BY <2>1, InitTyped DEF AInv
<1>2. AInv /\ [Next]_vars => AInv'
  BY AgreementStep
<1>3. Init => Linked
  <2> SUFFICES ASSUME Init PROVE Linked
    OBVIOUS
  <2>1. blocks \in Seq({GenesisBlock}) /\ Len(blocks) = 1 /\ blocks[1] = GenesisBlock
    BY DEF Init
  <2>2. QED BY <2>1 DEF Linked, GenesisBlock
<1>4. Linked /\ [Next]_vars => Linked'
  BY LinkedStep
<1>5. AInv /\ Linked => EmulationAgrees
  <2> SUFFICES ASSUME AInv, Linked PROVE EmulationAgrees
    OBVIOUS
  <2>1. EmulatedIntegrity
    <3> SUFFICES ASSUME NEW i \in 2..Len(blocks)
                 PROVE  blocks[i].prev = blocks[i - 1].height /\ blocks[i].height = i - 1
      BY DEF EmulatedIntegrity
    <3>1. Len(blocks) \in Nat
      BY DEF Linked
    <3>2. i \in 1..Len(blocks) /\ i - 1 \in 1..Len(blocks)
      BY <3>1
    <3>3. blocks[i].height = i - 1 /\ blocks[i].prev = i - 2
      BY <3>2 DEF Linked
    <3>4. blocks[i - 1].height = (i - 1) - 1
      BY <3>2 DEF Linked
    <3>5. QED BY <3>3, <3>4, i \in Int
  <2>2. ASSUME NEW o \in Uncontended, ~InFlight(o)
        PROVE  /\ o \in DOMAIN state <=> o \in DOMAIN worldState
               /\ o \in DOMAIN state => worldState[o] = state[o].proof
               /\ \A h \in Digests : VerifyProof(o, h) <=> EmulateVerify(o, h)
    BY <2>2 DEF AInv, Agreement, Settled, VerifyProof, EmulateVerify
  <2>3. QED BY <2>1, <2>2 DEF EmulationAgrees, Uncontended
<1>6. QED BY <1>1, <1>2, <1>3, <1>4, <1>5, PTL DEF Spec
==============================================================================
