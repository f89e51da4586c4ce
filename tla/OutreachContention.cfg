SPECIFICATION OutreachSpec
CONSTANTS
    Attempts = {a1}
    Workers = {w1, w2}
    MaxPeriod = 1
    Lots = {}
    Grants = {}
    None = None
    FreeGranted = 1
    Included = 1
    PackSize = 1
    Woo = FALSE
    GrantSize = 1
    Contracts = {"free", "paid"}
SYMMETRY Symmetry
INVARIANTS
    ChargedOnceForSent
