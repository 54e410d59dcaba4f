SPECIFICATION FairSpec
CONSTANTS
  Modulus = 8
  FirstSeq = 7
  MaxQueue = 2
  MaxRcvd = 3
  Duplicates = FALSE
  MaxPackets <- Packets20
  MaxResets <- Resets10
PROPERTIES
  EverySentIsDelivered
  WindowReopens
  ResetEndsStream
CHECK_DEADLOCK FALSE
