SPECIFICATION MCSpec
CONSTANTS
    Keys = {k1, k2}
    Requests = 2
    WindowSeconds = 3
    TicksPerSecond = 2
    MaxTime = 8
    Years = {1, 2}
    Companies <- MCCompanies
    Environments <- MCEnvironments
    InitialStores <- MCStores
    Loads <- MCLoads
    Metrics = {"adjusted_operating", "gaap_diluted_eps"}
    MaxLoads = 2
    Threads = {t1, t2}
    Payloads <- MCPayloads
    Typed = {"a", "_a"}
    Strip <- MCStrip
    MaxRestarts = 1
INVARIANTS
    PartsTypeOK
    LimiterPromise
    FixturesStayApart
    
    AuditCoversPanels
    

    
    
CHECK_DEADLOCK FALSE
