\* Two scales with three cells, two pictures.
SPECIFICATION Spec
CONSTANTS
  Height = 26
  Width = 26
  Scales <- MCScales
  Cells <- MCCells
  PnetVerdicts <- MCPnetVerdicts
  RnetVerdicts <- MCRnetVerdicts
  OnetVerdicts <- MCOnetVerdicts
  MaxPictures = 2
  MaxBoxes = 2
INVARIANTS TypeOK DetectionsBest DetectionsOfPicture SiftedBest LeftoversDead CropsInside
\* The pictures come to an end.
CHECK_DEADLOCK FALSE
