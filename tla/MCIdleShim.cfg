SPECIFICATION IdleSpec
CONSTANTS
  Locked = FALSE
  MaxCalls = 4
  MaxIdleFaults = 1
INVARIANT TypingPauses
CHECK_DEADLOCK FALSE
