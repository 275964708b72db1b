\* Expiry and the cleanup racing a handler, under fairness; no symmetry, as one property is a liveness one.
CONSTANTS
    Users = {u1}
    Tokens = {t1, t2}
    Reqs = {r1}
    TicksPerSecond = 2
    TTL = 2
    MaxTime = 4
    MaxFaults = 1
    NoToken = NoToken
    NoRow = NoRow
SPECIFICATION FairSpec
INVARIANT DeadTokenNotExchanged
PROPERTIES KeptUntilExpired ExpiredRowsSwept
\* The clock, the pool and the faults are bounded, so a behaviour may end.
CHECK_DEADLOCK FALSE
