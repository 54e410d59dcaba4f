SPECIFICATION Spec
CONSTANTS
  Root = "r"
  Children = {"m"}
  Clients = {"a", "b", "e"}
  Parent <- Tree
  Groups = {"g"}
  Senders = {"a", "b", "e"}
  Requests <- AllJoin
  MaxSends <- N200
  Kinds = {"MSG"}
  MayFail = FALSE
INVARIANTS
  EveryClientInOrder
CHECK_DEADLOCK FALSE
