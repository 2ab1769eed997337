SPECIFICATION FairSpec
CONSTANTS
    a1 = a1
    a2 = a2
    a3 = a3
    Attempts = {a1, a2}
    Jobs = {"collect_original", "collect_restated", "collect_jquants",
            "collect_stooq", "collect_research",
            "collect_marcap", "load_sec_bulk", "load_sec_bulk_foreign", "import_consensus",
            "import_fnguide", "import_market", "normalize_long", "normalize_short",
            "load_kr_cache"}
    Program <- MCProgram
    Docs <- MCDocs
    Keys <- MCKeys
    LocalFiles <- MCLocalFiles
    NoJob = NoJob
    NoDoc <- MCNoDoc
    NoAttempt = NoAttempt
    Faults = {"raise", "lost_ack", "crash"}
    MaxFaults = 1
    MaxParallel = 1
CHECK_DEADLOCK FALSE
INVARIANTS
    AdjustmentsMatchEarnings
    UndisturbedAttemptSucceeds
    EndedRunIsSettled
PROPERTIES
    RunSettles
