\* The connection of a site with a trusted key changes; nothing fails.
CONSTANTS
    Requests = {r1, r2}
    Tokens = {alice}
    Admins = {alice}
    Conns = {c1, c2}
    Keys = {k1, k2}
    None = None
    MaxSites = 1
    MaxTests = 1
    MaxFaults = 0
    MaxDrops = 0
SYMMETRY Symmetry
SPECIFICATION Spec
INVARIANT
    KeyMatchesConnection
CHECK_DEADLOCK FALSE
