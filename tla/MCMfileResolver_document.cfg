\* A file whose price, controller and readers change.
SPECIFICATION FairSpec
CONSTANTS
    f1 = f1
    alice = alice
    bob = bob
    odd = odd
    NoMemo = NoMemo
    NoEncode = NoEncode
    Encodes = {"mid"}
    Requests <- FileRequests
    Buyers <- mcBuyers
    Parsable <- mcParsable
    Files = {f1}
    Memos <- mcMemos
    Ftypes <- mcFtypes
    Prices <- mcPrices
    Keywords <- mcKeywords
    MaxChanges = 5
    MaxBought = 1
    Half = 4
INVARIANTS
    TypeOK
    ReadersAreThoseOfTheCall
    NoPriceOfALaterController
    QuietResolveIsExact
PROPERTIES
    CallReturns
