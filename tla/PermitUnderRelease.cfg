SPECIFICATION OutreachSpec
CONSTANTS
    Attempts = {a1}
    Workers = {w1, w2}
    MaxPeriod = 0
    Lots = {}
    Grants = {}
    None = None
    FreeGranted = 1
    Included = 0
    PackSize = 1
    Woo = FALSE
    GrantSize = 1
    Contracts = {"free"}
SYMMETRY Symmetry
INVARIANTS
    PermittedSendHasCredit
