SPECIFICATION MCSpec
CONSTANTS
    KR <- MCKR
    US <- MCUS
    JP <- MCJP
    TopCap = {"k1", "k2", "u1"}
    Environments <- MCEnvironments
    P1Ticker <- MCP1
    Asked <- MCAsked
    MaxRuns = 2
    MaxHitches = 1
    Tickers = {"k1", "u1"}
    Years = {1, 2}
    Fills <- MCFills
    MaxEdits = 3
    CacheFiles = {"a short", "a long"}
    PriorityTickers = {"a", "b"}
    Owner <- MCOwner
    Payloads <- MCPayloads
    Requests = {r1}
    InPostgres = {"b"}
    SourceRequired = TRUE
    MaxBuilds = 2
    MaxLoads = 2
    MaxAsked = 1
INVARIANTS
    PartsTypeOK
    OkIsCovered
    PlanIsExecuted
    
    
    PromotionKeepsProjections
    ServedIsTheEvidence
PROPERTIES
    NothingAfterFailure
CHECK_DEADLOCK FALSE
