SPECIFICATION FairSpec
CONSTANTS
  h = h
  k = k
  NoCall = NoCall
  Calls <- MCCalls
  Method <- MCMethod
  Hanging <- MCTool
  Cancelling <- MCTool
  NumShards = 1
  Shard <- MCShard
  Capacity = 2
INVARIANTS
  HandshakeConsistent
PROPERTIES
  ImplementsRequestReply
  CallsEnd
CHECK_DEADLOCK FALSE
