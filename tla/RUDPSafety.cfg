SPECIFICATION Spec
CONSTANTS
  Modulus = 8
  FirstSeq = 7
  MaxQueue = 2
  MaxRcvd = 3
  Duplicates = TRUE
  MaxPackets <- Packets21
  MaxResets <- Resets10
INVARIANTS
  TypeOK
  InOrder
  AckedIsReceived
  EofIsComplete
PROPERTIES
  StreamsAreFifo
CHECK_DEADLOCK FALSE
