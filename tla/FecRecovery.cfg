SPECIFICATION Spec
CONSTANTS
  SeqMod = 16
  MaxDiff = 5
  MaxBuff = 4
  FirstSeq = 11
  GroupSizes <- Sizes023
  Steps <- Steps13
  MaxOrdinal = 8
  MaxChanges = 1
  MaxFlight = 2
  NULL = NULL
INVARIANTS
  TypeOK
  ParityCoversGroup
  RecoveredIsWhole
  NothingTwice
  SingleLossIsRecovered
  SearchMeetsGroup
CHECK_DEADLOCK FALSE
