SPECIFICATION Spec
CONSTANTS
  h1 = h1
  k1 = k1
  k2 = k2
  l2 = l2
  A = A
  B = B
  NoCall = NoCall
  Calls <- MCCalls
  Session <- MCSession
  Id <- MCId
  Method <- MCMethod
  Hanging <- MCFirst
  Panicking <- MCSecond
  MayShutdown = TRUE
INVARIANTS
  ActiveConsistent
  GreetedNeverRefused
  CancelledByItsId
CHECK_DEADLOCK FALSE
