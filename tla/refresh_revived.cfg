\* A rotation in flight while its family is revoked.
CONSTANTS
    Users = {u1}
    Tokens = {t1, t2, t3, t4}
    Reqs = {r1, r2}
    TicksPerSecond = 1
    TTL = 1
    MaxTime = 0
    MaxFaults = 0
    NoToken = NoToken
    NoRow = NoRow
SPECIFICATION Spec
SYMMETRY Symmetry
INVARIANT RevokedFamilyStaysEnded
\* The clock, the pool and the faults are bounded, so a behaviour may end.
CHECK_DEADLOCK FALSE
