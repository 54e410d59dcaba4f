SPECIFICATION Spec
CONSTANTS
  Root = "r"
  Children = {"m"}
  Clients = {"b"}
  Parent <- Tree
  Groups = {"g"}
  Senders = {"b"}
  Requests <- AllJoin
  MaxSends <- N110
  Kinds = {"MSG"}
  MayFail = FALSE
INVARIANTS
  NodesSurviveLeavers
CHECK_DEADLOCK FALSE
