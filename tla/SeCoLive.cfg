SPECIFICATION FairSpec
CONSTANTS
  Root = "r"
  Children = {"m"}
  Clients = {"a", "b"}
  Parent <- Tree
  Groups = {"g"}
  Senders = {"a", "b"}
  Requests <- SenderWatches
  MaxSends <- N100
  Kinds = {"MSG", "SYNC_MSG"}
  MayFail = TRUE
PROPERTIES
  KeptReachesMembers
  EndIsAnnounced
CHECK_DEADLOCK FALSE
