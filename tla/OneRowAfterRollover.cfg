SPECIFICATION OutreachSpec
CONSTANTS
    Attempts = {a1}
    Workers = {w1}
    MaxPeriod = 2
    Lots = {}
    Grants = {}
    None = None
    FreeGranted = 1
    Included = 1
    PackSize = 1
    Woo = FALSE
    GrantSize = 1
    Contracts = {"free", "paid", "frozen"}
SYMMETRY Symmetry
INVARIANTS
    OneRowPerAttempt
