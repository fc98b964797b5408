SPECIFICATION Spec
CONSTANTS
    N = 3
    Quorum = 2
    Eligible = {1}
    Kinds = {"REGISTER_PROOF"}
    Objects = {"object"}
    MaxBlocks = 2
    Mutations <- RouteMutation
    Tamperable = {1}
    Splits <- NoSplits
    Isolable = {}
    Restartable = TRUE
INVARIANTS
    NoCertificateOverForgery
