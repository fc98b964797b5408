SPECIFICATION Spec
CONSTANTS
    Dids <- MCDids
    Objects <- MCObjects
    TypeOf <- MCTypeOf
    Metadata <- MCMetadata
    SerialOf <- MCSerialOf
    ShelfLife <- MCShelfLife
    SeedCalls <- SeedDatabase
    Scenarios <- DemoScenarios
    ClientCalls <- MCClientCalls
    MaxCalls = 2
    MaxCrashes = 1
    MaxTime <- MCMaxTime
INVARIANTS
    TypeOK
    RevocationLayers
    OnlyCrashesTearBlocks
    OnlyCrashesSplitKeys
    OwnerFollowsCustody
    UntrustedIsRisky
    DemoScenariosDetected
PROPERTIES
    ImplementsRegistry
    RequestsAreIsolated
    RestartKeepsObjects
    EventuallyServing
CHECK_DEADLOCK FALSE
