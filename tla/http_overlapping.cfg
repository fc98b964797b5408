SPECIFICATION Spec
CONSTANTS
    N = 3
    Proposers = {1}
    MaxOpen = 2
    MaxBlocks = 2
    Syncing = {3}
    Toggled = {}
    Tamperable = {}
    Restartable = {}
PROPERTIES
    StoredBlocksAreImmutable
