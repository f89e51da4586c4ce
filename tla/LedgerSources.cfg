SPECIFICATION SourcesSpec
CONSTANTS
    Attempts = {a1, a2, a3}
    MaxPeriod = 3
    Lots = {l1, l2}
    Grants = {g1, g2}
    None = None
    FreeGranted = 1
    Included = 1
    PackSize = 2
    Woo = TRUE
    GrantSize = 2
SYMMETRY Symmetry
CHECK_DEADLOCK FALSE
INVARIANTS
    CreditsAccounted
    WooHoldAlreadySetAside
    PeriodsClose
PROPERTIES
    RowsSettleForGood
