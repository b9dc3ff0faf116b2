\* The proxy access authentication method of README.md.
SPECIFICATION Spec
CONSTANTS
    d1 = d1
    d2 = d2
    k1 = k1
    k2 = k2
    NoKey = NoKey
    Requests <- ProxyRequests
    Dids <- OneDid
    MTypes <- mcMTypes
    Keys <- mcKeys
    IntLimit = 4
    Fragments <- LoginFragments
    Expiries <- mcExpiries
    Half = 4
    Uint256 = 16
    StrictContract = TRUE
    MaxChanges = 5
    MaxTime = 1
INVARIANTS
    AddedDelegationIsListed
