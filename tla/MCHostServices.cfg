SPECIFICATION Spec
CONSTANTS
  Handlers = {h1, h2}
  Watchdog = w
  WaitPolls = 2
  MaxHandled = 2
  MaxFaults = 1
  SessionIds = {e1, e2}
  Posts = {o1, o2}
  Buffer = 1
  MaxInPost = 2
  Requests = {r1, r2, r3}
  FastSlots = 2
  HeavySlots = 1
  s1 = s1
  c1 = c1
  p1 = p1
  p2 = p2
  k1 = k1
  q1 = q1
  NoOne = NoOne
  Starts <- MCStarts
  Chats <- MCChats
  Gated <- MCGated
  Approvals <- MCApprovals
  ChatApprovals <- MCChatApprovals
  Aborts <- MCAborts
  MaxSteps = 2
  Moves <- MCMoves
  Locked = TRUE
  MaxCalls = 6
  MaxIdleFaults = 2
INVARIANTS
  AgentConsistent
  OneCheckpointPerApproval
  TypingPauses
PROPERTIES
  HumanDecides
  RunEnds
  EngineComesUp
  SessionsServe
  RequestsEnd
CHECK_DEADLOCK FALSE
