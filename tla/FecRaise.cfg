SPECIFICATION Spec
CONSTANTS
  SeqMod = 16
  MaxDiff = 5
  MaxBuff = 4
  FirstSeq = 1
  GroupSizes <- Sizes12
  Steps <- Steps1
  MaxOrdinal = 6
  MaxChanges = 1
  MaxFlight = 2
  NULL = NULL
INVARIANTS
  GroupsAreClosed
CHECK_DEADLOCK FALSE
