SPECIFICATION LotsSpec
CONSTANTS
    Attempts = {a1, a2, a3}
    MaxPeriod = 0
    Lots = {l1, l2}
    Grants = {}
    None = None
    FreeGranted = 1
    Included = 0
    PackSize = 2
    Woo = FALSE
    GrantSize = 1
SYMMETRY Symmetry
CHECK_DEADLOCK FALSE
INVARIANTS
    TypeOK
    CreditsAccounted
    LotsBackRows
    OneCorrectionOnMeter
