SPECIFICATION FairSpec
CONSTANTS
  Leader = "10.0.0.1"
  Leaves = {"10.0.0.2", "10.0.0.21"}
  Unicast = {"10.0.0.2"}
  Inside <- Prefix
  Period = 2
  MaxFaults = 1
  NULL = NULL
INVARIANTS
  TypeOK
  NothingOutlivesItsTask
  JoinedIsListed
  SilentIsDropped
PROPERTIES
  OnlyTheSilentAreDropped
  Agreement
