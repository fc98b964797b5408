SPECIFICATION Spec
CONSTANTS
    N = 3
    Proposers = {1}
    MaxOpen = 1
    MaxBlocks = 3
    Syncing = {2}
    Toggled = {2}
    Tamperable = {}
    Restartable = {1, 2}
INVARIANTS
    CertifiedBlocksStay
    OnlyTornCopiesFail
PROPERTIES
    StoredBlocksAreImmutable
    SyncHealsTornCopies
    ImplementsLedger
