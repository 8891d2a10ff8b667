\* Three processes, one failing call or death.
CONSTANTS
    Procs = {p1, p2, p3}
    Keys = {k1, k2, k3, k4}
    Absent = Absent
    Torn = Torn
    MaxFaults = 1
SYMMETRY Symmetry
SPECIFICATION Spec
INVARIANTS
    TypeOK
    OneKey
    SecretsReadable
PROPERTY
    KeyIsKept
CHECK_DEADLOCK FALSE
