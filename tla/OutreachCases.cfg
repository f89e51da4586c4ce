SPECIFICATION CasesSpec
CONSTANTS
    Attempts = {a1}
    Workers = {w1}
    MaxPeriod = 2
    Lots = {l1}
    Grants = {g1}
    None = None
    FreeGranted = 1
    Included = 1
    PackSize = 1
    Woo = FALSE
    GrantSize = 1
    Contracts = {"free", "paid", "frozen", "ended", "required"}
INVARIANTS
    OutreachTypeOK
    OneCreditPerAttempt
    PermittedSendHasCredit
    SentAtMostOnce
    UndeliverableCostsNothing
PROPERTIES
    ImplementsLedger
    ReportsAreReconciled
