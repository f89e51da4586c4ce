SPECIFICATION QueuedSpec
CHECK_DEADLOCK FALSE
CONSTANTS
    MaxTime = 2
    MaxGeneration = 2
    MaxEvents = 2
    JobAttempts = 2
    Delay = 1
    Lifetime = 1
    Updaters = {u1}
    NoJob = none
    Shops = {1}
    Resumable = {1, 2}
    ShopOf <- OneShop
    Resumers = {w1}
    BatchSize = 1
    RepairLimit = 1
    ResumeHorizon = 2
    MaxCredit = 1
    MaxMoves = 2
    c1 = c1
    c2 = c2
    Commands = {c1, c2}
    Dispatchers = {d1}
    MaxClaims = 2
    MaxUpsets = 1
    NoKey = none
    ItemsOf <- TheItems
    MaxBatches = 3
    MaxPolls = 2
    MaxSubmits = 2
    MaxRetries = 1
    Translators = {w1}
    MaxFaults = 1
INVARIANTS
    
    GenerationsInTurn
    FollowUpSentOnce
    TranslationsSound
PROPERTIES
    OutreachInTime
    CandidatesSettle
    
    FollowUpsSettle
    ItemsSettle
