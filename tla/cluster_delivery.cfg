SPECIFICATION FairSpec
CONSTANTS
    N = 3
    Quorum = 2
    Eligible = {1, 2}
    Kinds = {"REGISTER_PROOF"}
    Objects = {"object"}
    MaxBlocks = 2
    Mutations <- NoMutations
    Tamperable = {}
    Splits <- GammaCutOff
    Isolable = {2}
    Restartable = FALSE
PROPERTIES
    CommitsReachPeers
