\* Two shipped people and one to learn, three engines; two rescans and two crashes, each other fault once.
SPECIFICATION LiveSpec
CONSTANTS
  Person <- MCPerson
  InitialPersons = {1, 2}
  ListDir <- MCListDir
  NEngines = 3
  MaxRescans = 2
  MaxCrashes = 2
  MaxRaises = 1
  MaxPowerLosses = 1
INVARIANTS TypeOK InfoTruthful ServedNamesRight ServedComplete RescanTeaches
PROPERTIES ServesAgain
\* With the faults, the rescans and the new people used up a server serves for ever.
CHECK_DEADLOCK FALSE
