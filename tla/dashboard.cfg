SPECIFICATION DashSpec
CONSTANTS
    N = 2
    Proposers = {1}
    MaxOpen = 1
    MaxBlocks = 2
    Syncing = {1}
    Toggled = {1}
    Tamperable = {}
    Restartable = {1}
    MaxPolls = 2
INVARIANTS
    ShownAgreementStays

    
