CONSTANTS
    Procs = {p1, p2}
    Drivers = {"postgres", "sqlite"}
    Migs = {a1, b1}
    Rank <- MCRank
    Version <- MCVersion
    Sources <- MCSources
    Kinds = {"upTx"}
    GoMigs = {a1}
    Edited = {a1}
    BuildOf <- MCBuildOf
    MaxCalls = 2
    MaxRepairs = 0
    MaxFaults = 0
    a1 = a1
    p1 = p1
    p2 = p2
    b1 = b1
    Nobody = Nobody
SPECIFICATION Spec
INVARIANT RecordedWasExecuted
CHECK_DEADLOCK FALSE
