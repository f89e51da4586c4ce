SPECIFICATION LeasedSpec
CHECK_DEADLOCK FALSE
CONSTANTS
    MaxMessages = 2
    MaxControl = 2
    ModerationTries = 2
    Turners = {w1, w2}
    MaxMishaps = 1
    MaxWooEvents = 2
    MaxSecond = 2
    MaxGen = 2
    WooWorkers = {w1, w2}
    NoLease = none
    WooFaults = 1
    First = w1
INVARIANTS
    LeasedConsistent
    AnsweredOnce
    ReplyWithinOneOwner
    DeliveredIsNotReturned
PROPERTIES
    RecoveryIsCurrent
    PendingTurnsSettle
    ResumedRecoveriesSettle
