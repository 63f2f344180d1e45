\* Three pictures of two people, two rescans, a crash and a power loss.
SPECIFICATION Spec
CONSTANTS
  Person <- MCPerson
  Shows <- MCShows
  NoFile <- MCNoFile
  PoiValue <- MCPoiValue
  NoPoi <- Null
  Dumps <- MCDumps
  Torn <- MCTorn
  LoadPoi <- MCLoadPoi
  Drawn <- MCDrawn
  ReadAs <- MCReadAs
  Remains <- MCRemains
  Throws = Throws
  IntBits = 4
  LargestBits = 6
  MaxShots = 3
  MaxRescans = 2
  MaxCrashes = 1
  MaxPowerLosses = 1
INVARIANTS TypeOK PoiTruthful PoiComplete
PROPERTIES LoggedKept
