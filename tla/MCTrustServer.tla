---------------------------- MODULE MCTrustServer ----------------------------
EXTENDS TrustServer, DemoSeed

MCDids == {Identities[i].from : i \in DOMAIN Identities}
            \cup {"unauthorized-smuggler", "soc-automated-probe", Notary}

\* The objects of the seed, and one that clients may add.
MCObjects == DemoObjects \cup {"degree-new"}

MCTypeOf == [o \in MCObjects |-> IF o = "degree-new" THEN "CREDENTIAL" ELSE DemoTypeOf[o]]

MCMetadata == DemoObjects \cup {"altered"}

MCSerialOf == [m \in MCMetadata |-> IF m = "altered" THEN "degree-tampered" ELSE m]

MCShelfLife == 13

MCMaxTime == Len(SeedDatabase) + 1

Incomplete(c) == [c EXCEPT !.complete = FALSE]

\* What clients ask for, on the objects of the seed.  No route leads to the
\* revocation service; its callers are the seed and the tests of the services.
MCClientCalls ==
    {NewIdentity(d, "altered") : d \in {"delhi-tech-univ", Notary}}
    \cup {Issue("degree-new", "priya-patel", "altered"),
          Issue("degree-revoked", "priya-patel", "degree-revoked"),
          Incomplete(Issue("degree-genuine", "priya-patel", "degree-genuine"))}
    \cup {Register(o, "bharat-pharma") : o \in {"batch-402", "batch-999"}}
    \cup {TransferProduct("batch-402", "medlife-retail", "bharat-pharma"),
          TransferProduct("batch-402", "unauthorized-smuggler", "medlife-retail"),
          Incomplete(TransferProduct("batch-402", "medlife-retail", "apex-logistics"))}
    \cup {Revoke(o, "delhi-tech-univ") : o \in {"degree-genuine", "degree-new", "batch-402"}}
    \cup {Tamper("degree-genuine", m) : m \in {"degree-genuine", "altered"}}
    \cup {Audit("gateway-01", m) : m \in {"gateway-01", "altered"}}
==============================================================================
