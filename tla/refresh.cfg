\* Any number of concurrent refreshes of one token; the clock stands still.
CONSTANTS
    Users = {u1, u2}
    Tokens = {t1, t2, t3}
    Reqs = {r1, r2}
    TicksPerSecond = 1
    TTL = 1
    MaxTime = 0
    MaxFaults = 1
    NoToken = NoToken
    NoRow = NoRow
SPECIFICATION Spec
SYMMETRY Symmetry
INVARIANTS TypeOK EveryReplacementChained RotationIsAtomic ReuseReportedAfterRevocation
PROPERTY ImplementsLifecycle
\* The clock, the pool and the faults are bounded, so a behaviour may end.
CHECK_DEADLOCK FALSE
