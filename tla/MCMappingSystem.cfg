SPECIFICATION Spec
CONSTANTS
  NCell = 12
  Width = 24
  Start = 2
  Images = 2
  ImageSet <- MCImageSet
  Displacements <- MCDisplacements
  MaxMoves = 2
  MaxImages = 2
INVARIANTS TypeOK Reckoned TrailConnected LostImages
PROPERTIES MapsSupported MoveEnds
CHECK_DEADLOCK FALSE
