\* Whatever is done again: two sites, of which one may follow the other, two
\* tests and trust decisions, two keys and connections; nothing fails.
CONSTANTS
    Requests = {r1, r2}
    Tokens = {alice}
    Admins = {alice}
    Conns = {c1, c2}
    Keys = {k1, k2}
    None = None
    MaxSites = 2
    MaxTests = 2
    MaxFaults = 0
    MaxDrops = 0
SYMMETRY Symmetry
SPECIFICATION Spec
INVARIANTS
    AuditIsComplete
    AuditIsTruthful
PROPERTY
    ImplementsLedger
CHECK_DEADLOCK FALSE
