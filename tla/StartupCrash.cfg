\* The shipped people; one crash and no other fault.
SPECIFICATION LiveSpec
CONSTANTS
  Person <- MCPerson
  InitialPersons = {1, 2}
  ListDir <- MCListDir
  NEngines = 1
  MaxRescans = 0
  MaxCrashes = 1
  MaxRaises = 0
  MaxPowerLosses = 0
PROPERTIES CrashedServerReturns
\* With the faults, the rescans and the new people used up a server serves for ever.
CHECK_DEADLOCK FALSE
