SPECIFICATION Spec
CONSTANTS
  SeqMod = 12
  MaxDiff = 4
  BufferSize = 4
  MaxBack = 2
  frameBufferSize = 1
  FirstSeq = 8
  Lengths <- Lengths361
  InitRooms = {2, 3}
  Pointers <- PointersLow
  MaxFlight = 3
  MaxRepeats = 1
  NULL = NULL
INVARIANTS
  TypeOK
  NoHoles
  PicturesInOrder
  ArrivedIsShown
CHECK_DEADLOCK FALSE
