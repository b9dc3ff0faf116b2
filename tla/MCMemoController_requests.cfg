\* One caller, every kind of request on two DIDs.
SPECIFICATION FairSpec
CONSTANTS
    d1 = d1
    d2 = d2
    k1 = k1
    k2 = k2
    Callers = {c1}
    Requests <- AllRequests
    NoAuth = NoAuth
    MaxPolls = 2
    MaxTxs = 3
    Dids <- mcDids
    MTypes <- mcMTypes
    Keys <- mcKeys
    IntLimit = 4
    Fragments <- mcFragments
    Expiries <- mcExpiries
    Half = 2
    Uint256 = 8
    StrictContract = FALSE
INVARIANTS
    NilIsInForce
    OnlySupportedTypes
    NoSignatureFromTheFuture
PROPERTIES
    EveryCallReturns
