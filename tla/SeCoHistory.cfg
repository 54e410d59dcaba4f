SPECIFICATION Spec
CONSTANTS
  Root = "r"
  Children = {"m"}
  Clients = {"a", "b"}
  Parent <- Tree
  Groups = {"g"}
  Senders = {"a", "b"}
  Requests <- LateWatcher
  MaxSends <- N210
  Kinds = {"MSG", "SYNC_MSG"}
  MayFail = TRUE
INVARIANTS
  TypeOK
  MembersHoldHistory
  NeighboursAgree
  GoneLeavesNoTrace
  NothingAfterTheEnd
CHECK_DEADLOCK FALSE
