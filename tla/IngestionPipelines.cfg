SPECIFICATION Spec
CONSTANTS
    a1 = a1
    a2 = a2
    a3 = a3
    Attempts = {a1, a2}
    Jobs = {"collect_original", "collect_restated", "collect_jquants", "collect_jquants_statements",
            "collect_stooq", "collect_fdr", "collect_pykrx", "collect_edinet", "collect_research",
            "collect_marcap", "collect_sec_bulk", "import_consensus",
            "import_fnguide", "import_market", "normalize_long", "normalize_short",
            "load_kr_cache",
            "collect_fred", "collect_kosis"}
    Program <- MCProgram
    Docs <- MCDocs
    Keys <- MCKeys
    LocalFiles <- MCLocalFiles
    NoJob = NoJob
    NoDoc <- MCNoDoc
    NoAttempt = NoAttempt
    Faults = {"raise", "lost_ack", "crash", "finish"}
    MaxFaults = 1
    MaxParallel = 2
SYMMETRY Symmetry
CHECK_DEADLOCK FALSE
INVARIANTS
    TypeOK
    ProvenanceClosed
    RegisteredBlobIsUploadable
    SucceededRunIsComplete
