------------------------------- MODULE DemoSeed -------------------------------
(***************************************************************************)
(* The calls of seedDatabase (seed.ts): the identities, then one scenario   *)
(* per sector.  An object has the last part of its customId, an identity    *)
(* the last part of its did, metadata a name that tells genuine from        *)
(* altered.                                                                *)
(***************************************************************************)
EXTENDS Sequences

DemoObjects == {"degree-genuine", "degree-tampered", "degree-revoked", "batch-402", "batch-999",
                "cctv-081", "cctv-082", "router-09", "gateway-01"}

DemoTypeOf == [o \in DemoObjects |->
    CASE o \in {"degree-genuine", "degree-tampered", "degree-revoked"} -> "CREDENTIAL"
      [] o \in {"batch-402", "batch-999"} -> "PRODUCT"
      [] o \in {"cctv-081", "cctv-082"} -> "EVIDENCE"
      [] o \in {"router-09", "gateway-01"} -> "DEVICE"]

Step(op, obj, from, to, meta) ==
    [op |-> op, obj |-> obj, from |-> from, to |-> to, meta |-> meta, complete |-> TRUE]

\* POST /api/identities/create
NewIdentity(did, meta) == Step("identity", "degree-genuine", did, did, meta)

\* POST /api/trust-objects, and the registrations of the sectors
Register(obj, by) == Step("create", obj, by, by, obj)

\* POST /api/education/issue, of the one university
Issue(obj, student, meta) == Step("issue", obj, "delhi-tech-univ", student, meta)

\* POST /api/supply-chain/transfer
TransferProduct(obj, from, to) == Step("transfer", obj, from, to, "batch-402")

\* POST /api/legal/transfer
TransferEvidence(obj, from, to) == Step("transfer", obj, from, to, "cctv-081")

\* revokeTrustObject, behind no route
Revoke(obj, by) == Step("revoke", obj, by, by, "degree-revoked")

\* POST /api/trust-objects/:id/tamper
Tamper(obj, meta) == Step("tamper", obj, "delhi-tech-univ", "delhi-tech-univ", meta)

\* POST /api/cybersecurity/audit, with the configuration that is observed
Audit(obj, observed) == Step("audit", obj, "soc-automated-probe", "ciso-admin", observed)

Organizations == <<"delhi-tech-univ", "bharat-pharma", "apex-logistics", "delhi-central-hub",
                   "medlife-retail", "delhi-forensics", "delhi-high-court", "national-cert">>

Individuals == <<"rahul-sharma", "priya-patel", "arun-kumar", "inspector-singh", "ciso-admin",
                 "global-verifier">>

\* createIdentity and storeKeyPair for each; the rows of organizations and users
\* are read by nothing modelled.
Identities ==
    LET dids == Organizations \o Individuals
    IN  [i \in DOMAIN dids |-> NewIdentity(dids[i], "degree-genuine")]

EducationScenario ==
    << Issue("degree-genuine", "rahul-sharma", "degree-genuine"),
       Issue("degree-tampered", "rahul-sharma", "degree-tampered"),
       Tamper("degree-tampered", "altered"),
       Issue("degree-revoked", "arun-kumar", "degree-revoked"),
       Revoke("degree-revoked", "delhi-tech-univ") >>

SupplyScenario ==
    << Register("batch-402", "bharat-pharma"),
       TransferProduct("batch-402", "bharat-pharma", "apex-logistics"),
       TransferProduct("batch-402", "apex-logistics", "delhi-central-hub"),
       TransferProduct("batch-402", "delhi-central-hub", "medlife-retail"),
       Register("batch-999", "bharat-pharma"),
       Step("inject", "batch-999", "unauthorized-smuggler", "medlife-retail", "batch-999") >>

LegalScenario ==
    << Register("cctv-081", "inspector-singh"),
       TransferEvidence("cctv-081", "inspector-singh", "delhi-forensics"),
       TransferEvidence("cctv-081", "delhi-forensics", "delhi-high-court"),
       Register("cctv-082", "inspector-singh"),
       Tamper("cctv-082", "altered") >>

SecurityScenario ==
    << Register("router-09", "ciso-admin"),
       Register("gateway-01", "ciso-admin"),
       Audit("gateway-01", "altered") >>

SeedDatabase ==
    Identities \o EducationScenario \o SupplyScenario \o LegalScenario \o SecurityScenario

\* The pairs of the demo page and the verdict it expects of the first of each.
DemoScenarios ==
    LET Pair(target, comparison, expected) ==
            [target |-> target, comparison |-> comparison, expected |-> expected]
    IN  { Pair("degree-tampered", "degree-genuine", "TAMPERED"),
          Pair("batch-999", "batch-402", "PROVENANCE_MISMATCH"),
          Pair("cctv-082", "cctv-081", "TAMPERED"),
          Pair("gateway-01", "router-09", "DEVICE_INTEGRITY_COMPROMISED") }
===============================================================================
