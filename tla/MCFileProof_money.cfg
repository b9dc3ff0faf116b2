\* Two clients of one account pledge and pay, while the setting changes.
SPECIFICATION Spec
CONSTANTS
    c1 = c1
    c2 = c2
    acc = acc
    other = other
    Nobody = Nobody
    Accounts = {acc, other}
    Submitters = {other}
    Settings <- mcSettings
    FirstSetting <- mcFirst
    FirstBals = {0}
    FirstProofs <- OtherProved
    MaxCycle = 1
    MaxAlter = 1
    Clients = {c1, c2}
    AccountOf <- TwoClients
    CallsOf <- MoneyCalls
    Deeds <- MoneyDeeds
    MaxPolls = 2
    MaxCalls = 2
    Half = 4
    Word = 64
INVARIANTS
    TypeOK
    QuietCallPaysExactly
    UnpaidWasDisturbed
    AnswerIsTrue
CHECK_DEADLOCK FALSE
