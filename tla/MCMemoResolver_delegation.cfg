\* A delegation to another DID's key that expires.
SPECIFICATION Spec
CONSTANTS
    d1 = d1
    d2 = d2
    k1 = k1
    k2 = k2
    NoKey = NoKey
    Requests <- DelegationRequests
    Dids <- TwoDids
    MTypes <- mcMTypes
    Keys <- mcKeys
    IntLimit = 4
    Fragments <- OddFragments
    Expiries <- mcExpiries
    Half = 4
    Uint256 = 16
    StrictContract = FALSE
    MaxChanges = 3
    MaxTime = 3
INVARIANTS
    ListedWasValid
    ValidThroughoutIsListed
    KeysWereCurrent
    QuietResolveIsExact
