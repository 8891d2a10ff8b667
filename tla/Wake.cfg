\* A wake and another request, two changes of the inventory, a failing
\* statement, a drop or restart, and handlers that go on unless they are
\* dropped; no symmetry.
CONSTANTS
    Requests = {r1, r2}
    None = None
    MaxSites = 1
    MaxDevices = 1
    MaxWakes = 1
    MaxEdits = 2
    MaxFaults = 1
    MaxDrops = 1
SPECIFICATION FairSpec
INVARIANTS
    TypeOK
    HistoryIsTrue
    EveryCallIsRecorded
    WakeFollowsInventory
    DevicesHaveSites
PROPERTY
    WakesAreRecorded
CHECK_DEADLOCK FALSE
