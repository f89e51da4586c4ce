SPECIFICATION SubscriptionsSpec
CHECK_DEADLOCK FALSE
CONSTANTS
    Contracts = {1, 2}
    MaxReceipts = 3
    MaxClock = 3
    Term = 1
    Period = 2
    MaxBad = 1
    MaxCycle = 2
    SyncMoves = 1
    Retries = 3
INVARIANTS
    SubscriptionsConsistent
    ServedPeriodIsOpen
PROPERTIES
    ContractsDoNotMix
    ChargesCreditedOnce
    LapsesEndService
    ImplementsEntitlement
    LifecycleInOrder
    ProjectionsConverge
