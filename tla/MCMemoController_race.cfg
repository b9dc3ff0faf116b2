\* Two callers race on one DID.
SPECIFICATION Spec
CONSTANTS
    d1 = d1
    d2 = d2
    k1 = k1
    k2 = k2
    Callers = {c1, c2}
    Requests <- RaceRequests
    NoAuth = NoAuth
    MaxPolls = 2
    MaxTxs = 2
    Dids <- mcDids
    MTypes <- mcMTypes
    Keys <- mcKeys
    IntLimit = 4
    Fragments <- mcFragments
    Expiries <- mcExpiries
    Half = 2
    Uint256 = 8
    StrictContract = TRUE
SYMMETRY CallerSymmetry
INVARIANTS
    TypeOK
    NonceOrder
    NilIsInForce
PROPERTIES
    ImplementsSignedRequests
