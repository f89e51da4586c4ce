SPECIFICATION Spec
CONSTANTS
    Attempts = {a1}
    MaxPeriod = 0
    Lots = {l1}
    Grants = {}
    None = None
    FreeGranted = 0
    Included = 0
    PackSize = 2
    Woo = FALSE
    GrantSize = 1
CHECK_DEADLOCK FALSE
INVARIANTS
    FrozenRefundCoversLot
