\* One caller, every kind of request.
SPECIFICATION Spec
CONSTANTS
    f1 = f1
    alice = alice
    bob = bob
    NoMemo = NoMemo
    NoEncode = NoEncode
    Encodes = {"mid"}
    NoAuth = NoAuth
    Callers = {c1}
    Requests <- AllRequests
    MaxPolls = 2
    MaxTxs = 4
    Files = {f1}
    Memos <- mcMemos
    Ftypes <- mcFtypes
    Prices <- mcPrices
    Keywords <- mcKeywords
INVARIANTS
    TypeOK
    NilIsInForce
