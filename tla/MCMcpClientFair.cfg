SPECIFICATION FairSpec
CONSTANTS
  c1 = c1
  c2 = c2
  Calls <- MCCalls
  Hellos <- MCHellos
  Cancelling <- MCCancelling
  NumShards = 2
  Shard <- MCShard
  Capacity = 1
  MayDisconnect = TRUE
INVARIANTS
  PendingConsistent
PROPERTIES
  StepsOfRequestReply
  ReturnsUnlessStuck
CHECK_DEADLOCK FALSE
