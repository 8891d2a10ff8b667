SPECIFICATION Spec
CONSTANTS
  Operators = {a, b}
  MaxCommands = 4
  MaxFaults = 1
INVARIANTS TypeOK StoppedIsSilent StartIsUnderWay NoOrphan SuccessIsTrue InstallRecovers
PROPERTIES StopIsHeeded StartedServes CommandsEnd
CHECK_DEADLOCK FALSE
