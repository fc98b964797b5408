SPECIFICATION Spec
CONSTANTS
    Objects = {o1, o2}
    Digests = {h1, h2}
    MaxCalls = 4
INVARIANTS
    EmulationAgrees
PROPERTIES
    ImplementRegistry
    RegisteredForGood
CHECK_DEADLOCK FALSE
