SPECIFICATION Spec
CONSTANTS
    N = 3
    Quorum = 2
    Eligible = {1}
    Kinds = {"REGISTER_PROOF", "REVOKE_PROOF"}
    Objects = {"object"}
    MaxBlocks = 3
    Mutations <- NoMutations
    Tamperable = {}
    Splits <- GammaCutOff
    Isolable = {2}
    Restartable = TRUE
INVARIANTS
    GapFreeChainsVerify
