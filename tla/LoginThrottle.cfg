\* Three attempts at a time, three windows of time.
CONSTANTS
    Clients = {c1, c2, c3}
    MaxLoginFailures = 2
    RateLimitWindow = 2
    MaxClock = 4
    None = None
SYMMETRY Symmetry
SPECIFICATION Spec
INVARIANTS
    TypeOK
    FailuresBounded
    TwoWindowsAtMost
PROPERTY
    FailuresAreKept
CHECK_DEADLOCK FALSE
