CONSTANTS
    Procs = {p1, p2}
    Drivers = {"postgres", "mysql"}
    Migs = {a1, b1}
    Rank <- MCRank
    Version <- MCVersion
    Sources <- MCSources
    Kinds = {"up", "upAll", "upTx", "upOne", "upTo", "upSource", "runUp", "down", "downTo", "runDown"}
    GoMigs = {}
    Edited = {a1}
    BuildOf <- MCBuildOf
    MaxCalls = 2
    MaxRepairs = 1
    MaxFaults = 1
    a1 = a1
    p1 = p1
    p2 = p2
    b1 = b1
    Nobody = Nobody
SPECIFICATION FairSpec
INVARIANTS TypeOK MutualExclusion RecordMatchesSchema DirtyDatabaseBlocks ModifiedMigrationBlocks
PROPERTY EveryCallReturns
CHECK_DEADLOCK FALSE
