SPECIFICATION MCSpec
CONSTANTS
    Keys = {k1, k2}
    Writers = {w1, w2}
    Syncs = {s1, s2}
    NoKey = NoKey
    Faults = {"writer", "sync", "put", "delete"}
    MaxFaults = 2
    MaxWrites = 2
    Tickers <- MCTickers
    FirstYear = 1
    LastYear = 2
    Documents <- MCDocuments
    Stored <- MCStored
    MaxCollected = 2
    MaxCrashes = 1
    Exhibits <- MCExhibits
    FilingYear <- MCFilingYear
    Ranges <- MCRanges
    MaxCommands = 3
    MaxInterruptions = 1
    BulkFilings <- MCBulkFilings
    Statements <- MCStatements
    Tags <- MCTags
    MaxLoads = 2
    MaxStops = 1
INVARIANTS
    PartsTypeOK
    ReceiptsAreEarned
    
    TaxIsSharedOut
PROPERTIES
    KeepsQueuePromise
    ManifestsAreUploaded
    PointsFollowTheFiles
    CacheIsImplemented
    BuildsBecomeCurrent
    ForcedRunsRepair
    BulkMetricsFollowTheFilings
CHECK_DEADLOCK FALSE
