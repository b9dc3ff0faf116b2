\* One DID whose second key comes and goes as a login key.
SPECIFICATION FairSpec
CONSTANTS
    d1 = d1
    d2 = d2
    k1 = k1
    k2 = k2
    NoKey = NoKey
    Requests <- LoginRequests
    Dids <- OneDid
    MTypes <- mcMTypes
    Keys <- mcKeys
    IntLimit = 4
    Fragments <- LoginFragments
    Expiries <- mcExpiries
    Half = 4
    Uint256 = 16
    StrictContract = FALSE
    MaxChanges = 5
    MaxTime = 1
INVARIANTS
    TypeOK
    ListedWasValid
    DeactivatedIsEmpty
    ActiveMethodsAreListed
    QuietResolveIsExact
PROPERTIES
    CallReturns
