----------------------------- MODULE Verification -----------------------------
(***************************************************************************)
(* What the application answers about an object, as functions of the facts  *)
(* it reads: the custody chain (provenance.service.ts), the verdict         *)
(* (verification.service.ts), the risk (anomaly.service.ts) and the score   *)
(* of a passport (passport.service.ts).  TrustServer reads the facts from   *)
(* the tables.                                                             *)
(*                                                                         *)
(*   keyOf  : did -> public key, the table identities                       *)
(*   events : the rows of provenance_events of one object, rowid -> event;  *)
(*            an event has the key it was signed with                       *)
(***************************************************************************)
EXTENDS Integers, Sequences, FiniteSets

SignedBy(keyOf, did, key) == did \in DOMAIN keyOf /\ keyOf[did] = key

\* ORDER BY timestamp ASC; rows of one millisecond come as they were inserted.
Precedes(events, i, j) ==
    events[i].at < events[j].at \/ (events[i].at = events[j].at /\ i < j)

Follows(events, i, j) ==
    /\ Precedes(events, i, j)
    /\ \A k \in DOMAIN events : ~(Precedes(events, i, k) /\ Precedes(events, k, j))

\* Mutant: the holder is not compared with the sender of the next event.
ContinuousAnySender(events, keyOf) ==
    /\ DOMAIN events # {}
    /\ \A i, j \in DOMAIN events : Follows(events, i, j) =>
          /\ events[j].at >= events[i].at
          /\ events[j].type = "TRANSFER" => SignedBy(keyOf, events[j].from, events[j].key)

\* verifyChainContinuity: each event with the one before it; the first event is not
\* looked at.
Continuous(events, keyOf) ==
    /\ DOMAIN events # {}
    /\ \A i, j \in DOMAIN events : Follows(events, i, j) =>
          /\ events[j].from = events[i].to
          /\ events[j].at >= events[i].at
          /\ events[j].type = "TRANSFER" => SignedBy(keyOf, events[j].from, events[j].key)

------------------------------------------------------------------------------

\* What steps 2 to 7 of verifyTrustObject find.
Facts == [hashMatch : BOOLEAN, signatureValid : BOOLEAN, isRevoked : BOOLEAN,
          isExpired : BOOLEAN, continuous : BOOLEAN, proofValid : BOOLEAN, device : BOOLEAN]

\* The first check that fails, in the order of the code; endorsementsCount is
\* always at least 1, so the quorum check is the proof check.
OverallStatus(f) ==
    IF ~f.hashMatch THEN IF f.device THEN "DEVICE_INTEGRITY_COMPROMISED" ELSE "TAMPERED"
    ELSE IF ~f.signatureValid THEN "INVALID_SIGNATURE"
    ELSE IF f.isRevoked THEN "REVOKED"
    ELSE IF f.isExpired THEN "EXPIRED"
    ELSE IF ~f.continuous THEN "PROVENANCE_MISMATCH"
    ELSE IF ~f.proofValid THEN "CONSENSUS_REJECTED"
    ELSE "AUTHENTIC"

------------------------------------------------------------------------------

\* What the engine counts in the tables: the same content hash under another
\* id, more than six verifications in fifteen minutes, incidents not remediated.
Counts == [duplicate : BOOLEAN, spike : BOOLEAN, incidents : BOOLEAN]

Impact(applies, points) == IF applies THEN points ELSE 0

Clamp(low, high, n) == IF n < low THEN low ELSE IF n > high THEN high ELSE n

\* accumulatedScore: tampered content, a signature that fails, revocation, expiry, a
\* gap in the custody chain, the content under another id, a spike of verifications,
\* incidents of a device.
RiskScore(f, c) ==
    Clamp(0, 100, Impact(~f.hashMatch, 55) + Impact(~f.signatureValid, 45)
                  + Impact(f.isRevoked, 40) + Impact(f.isExpired, 25)
                  + Impact(~f.continuous, 35) + Impact(c.duplicate, 30)
                  + Impact(c.spike, 20) + Impact(f.device /\ c.incidents, 30))

\* Mutant: off by one.
RiskLevelAbove(score) ==
    IF score > 80 THEN "CRITICAL" ELSE IF score > 55 THEN "HIGH"
    ELSE IF score > 25 THEN "ELEVATED" ELSE "LOW"

RiskLevel(score) ==
    IF score >= 80 THEN "CRITICAL" ELSE IF score >= 55 THEN "HIGH"
    ELSE IF score >= 25 THEN "ELEVATED" ELSE "LOW"

------------------------------------------------------------------------------

\* The score of generatePassport over the statuses of the claims' rows.
ReputationScore(statuses) ==
    LET revoked == Cardinality({o \in DOMAIN statuses : statuses[o] = "REVOKED"})
    IN  IF DOMAIN statuses = {} THEN 50 ELSE Clamp(10, 100, 95 - 30 * revoked)

IsFullyVerified(statuses) == ReputationScore(statuses) >= 70
=============================================================================
