CONSTANTS
    Requests = {r1, r2, r3}
    Sweep = Sweep
    Conns = {c1, c2}
    None = None
    Querying = {r1, r2}
    Rows = 1
SPECIFICATION FairSpec
INVARIANTS NoGridlock RefusedOnlyWhenForced NothingLeaks
PROPERTIES EveryRequestEnds ShutdownEnds
\* The server may have exited, or be stuck where hooks are many.
CHECK_DEADLOCK FALSE
