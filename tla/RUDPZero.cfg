SPECIFICATION FairSpec
CONSTANTS
  Modulus = 8
  FirstSeq = 6
  MaxQueue = 2
  MaxRcvd = 3
  Duplicates = FALSE
  MaxPackets <- Packets20
  MaxResets <- Resets10
PROPERTIES
  OtherHalfEnds
CHECK_DEADLOCK FALSE
