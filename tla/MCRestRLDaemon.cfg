CONSTANTS
  Tasks = {"t1", "t3"}
  Ids = {"a", "b"}
  IdOf <- MCIdOf
  TargetOf <- MCTargetOf
  Starts = {"start1", "start2"}
  Stops = {"stop1"}
  Quits = {"quit"}
  Samples = 2
  None = None
SPECIFICATION FairSpec
INVARIANTS
  HeadConsistent
  ResolutionsConsistent
PROPERTIES
  ImplementsJobQueue
  QueueDrains
CHECK_DEADLOCK FALSE
