SPECIFICATION Spec
CONSTANTS
    N = 3
    Proposers = {1, 2}
    MaxOpen = 2
    MaxBlocks = 2
    Syncing = {2}
    Toggled = {}
    Tamperable = {3}
    Restartable = {}
INVARIANTS
    ReadyNodesEndorse
    TypeOK
    CertifiedBlocksFormTree
    ForgedNeverOnline
