SPECIFICATION Spec
CONSTANTS
    a1 = a1
    a2 = a2
    a3 = a3
    Attempts = {a1}
    Jobs = {"collect_fred"}
    Program <- MCProgram
    Docs <- MCDocs
    Keys <- MCKeys
    LocalFiles <- MCLocalFiles
    NoJob = NoJob
    NoDoc <- MCNoDoc
    NoAttempt = NoAttempt
    Faults = {}
    MaxFaults = 0
    MaxParallel = 1
SYMMETRY Symmetry
CHECK_DEADLOCK FALSE
INVARIANTS
    UndisturbedAttemptSucceeds
