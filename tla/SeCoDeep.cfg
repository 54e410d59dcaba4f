SPECIFICATION Spec
CONSTANTS
  Root = "r"
  Children = {"m", "k"}
  Clients = {"a", "b"}
  Parent <- Chain3
  Groups = {"g"}
  Senders = {"b"}
  Requests <- RootRejoins
  MaxSends <- N120
  Kinds = {"MSG", "SYNC_MSG", "NO_HISTORY_MSG"}
  MayFail = TRUE
INVARIANTS
  RootClientsInOrder
  NeighboursAgree
  GoneLeavesNoTrace
CHECK_DEADLOCK FALSE
