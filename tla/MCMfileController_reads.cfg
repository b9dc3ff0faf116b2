\* Two callers grant and revoke a read permission.
SPECIFICATION Spec
CONSTANTS
    f1 = f1
    alice = alice
    bob = bob
    NoMemo = NoMemo
    NoEncode = NoEncode
    Encodes = {"mid"}
    NoAuth = NoAuth
    Callers = {c1, c2}
    Requests <- ReadRequests
    MaxPolls = 2
    MaxTxs = 2
    Files = {f1}
    Memos <- mcMemos
    Ftypes <- mcFtypes
    Prices <- mcPrices
    Keywords <- mcKeywords
SYMMETRY CallerSymmetry
INVARIANTS
    NonceOrder
    NilIsInForce
PROPERTIES
    ImplementsSignedRequests
