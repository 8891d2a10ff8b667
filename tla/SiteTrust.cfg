\* Two concurrent requests, a test, a failing statement, a drop or restart, and
\* handlers that go on unless they are dropped; no symmetry.
CONSTANTS
    Requests = {r1, r2}
    Tokens = {alice}
    Admins = {alice}
    Conns = {c1, c2}
    Keys = {k1}
    None = None
    MaxSites = 1
    MaxTests = 1
    MaxFaults = 1
    MaxDrops = 1
SPECIFICATION FairSpec
INVARIANTS
    TypeOK
    SecretsHaveSites
    SitesHaveSecrets
    GrantsAreSingle
PROPERTIES
    RequestsEnd
    HalfCreatedEnds
CHECK_DEADLOCK FALSE
