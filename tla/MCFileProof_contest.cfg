\* A submitter proves, is challenged and asks who won.
SPECIFICATION Spec
CONSTANTS
    c1 = c1
    c2 = c2
    acc = acc
    other = other
    Nobody = Nobody
    Accounts = {acc, other}
    Submitters = {acc, other}
    Settings <- mcSettings
    FirstSetting <- mcFirst
    FirstBals = {0}
    FirstProofs <- OtherProved
    MaxCycle = 2
    MaxAlter = 1
    Clients = {c1}
    AccountOf <- OneClient
    CallsOf <- ContestCalls
    Deeds <- ContestDeeds
    MaxPolls = 2
    MaxCalls = 3
    Half = 4
    Word = 64
INVARIANTS
    NoStaleProofSent
    WinnerIsOfItsCycle
PROPERTIES
    EveryCallReturns
CHECK_DEADLOCK FALSE
