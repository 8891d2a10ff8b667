\* A request is dropped while its wake is running.
CONSTANTS
    Requests = {r1, r2}
    None = None
    MaxSites = 1
    MaxDevices = 1
    MaxWakes = 1
    MaxEdits = 0
    MaxFaults = 0
    MaxDrops = 1
SYMMETRY Symmetry
SPECIFICATION Spec
INVARIANT
    SentIsRecorded
CHECK_DEADLOCK FALSE
