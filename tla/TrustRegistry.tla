---------------------------- MODULE TrustRegistry ----------------------------
(***************************************************************************)
(* What the application promises of the proofs it anchors, whatever ledger  *)
(* stands behind the interface BlockchainAdapter (blockchain.interface.ts)  *)
(* and however many statements a service needs:                            *)
(*                                                                         *)
(*   - a proof appears at once, with the hash it was registered with;       *)
(*   - a revocation keeps the hash, and only a new registration takes it    *)
(*     back;                                                               *)
(*   - an object is stored only when its proof is anchored, and no proof    *)
(*     goes away while any object is stored.                               *)
(*                                                                         *)
(* TrustServer implements this module.                                     *)
(***************************************************************************)
EXTENDS Naturals

CONSTANT Objects, Digests

VARIABLES
    proof,    \* anchored object -> [hash, status], what getProof answers
    stored    \* the objects with a row in trust_objects

vars == <<proof, stored>>

NoProofs == [o \in {} |-> o]

Init == proof = NoProofs /\ stored = {}

Put(f, k, v) == [x \in DOMAIN f \cup {k} |-> IF x = k THEN v ELSE f[x]]

\* registerProof, of whatever digest.
Anchor(o) ==
    /\ o \in DOMAIN proof'
    /\ proof'[o].hash \in Digests /\ proof'[o].status = "ACTIVE"
    /\ proof' = Put(proof, o, proof'[o])
    /\ UNCHANGED stored

\* revokeProof
Revoke(o) ==
    /\ o \in DOMAIN proof
    /\ proof' = Put(proof, o, [hash |-> proof[o].hash, status |-> "REVOKED"])
    /\ UNCHANGED stored

\* The row of an object follows its proof.
Store(o) ==
    /\ o \in DOMAIN proof
    /\ stored' = stored \cup {o}
    /\ UNCHANGED proof

\* The database is seeded again: the objects go first.
Drop ==
    /\ stored' = {}
    /\ UNCHANGED proof

Wipe ==
    /\ stored = {}
    /\ proof' = NoProofs
    /\ UNCHANGED stored

Next ==
    \/ \E o \in Objects : Anchor(o) \/ Revoke(o) \/ Store(o)
    \/ Drop
    \/ Wipe

Spec == Init /\ [][Next]_vars
=============================================================================
