\* Every order of thread and router steps, for a wake and a connection test.
CONSTANTS
    Keys = {k1, k2}
    None = None
    Submitted <- MCSubmitted
SPECIFICATION FairSpec
INVARIANT
    TypeOK
PROPERTIES
    ImplementsWakeCall
    CallReturns
    AcceptedIsUsable
CHECK_DEADLOCK FALSE
