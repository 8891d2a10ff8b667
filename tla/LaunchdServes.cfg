SPECIFICATION FairSpec
CONSTANTS
  Operators = {a, b}
  MaxCommands = 2
  MaxFaults = 0
PROPERTY StartedJobServes
CHECK_DEADLOCK FALSE
