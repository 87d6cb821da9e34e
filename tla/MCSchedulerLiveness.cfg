SPECIFICATION FairSpec
CONSTANTS
  t1 = t1
  t2 = t2
  w1 = w1
  w2 = w2
  NoTask = NoTask
  Tasks <- MCTwoTasks
  Workers <- MCWorkers
  NumLanes = 2
  Priorities <- MCAllPriorities
  Cancelling <- MCOneTask
  Weights <- MCWeights
  AgeThreshold <- MCAgeThreshold
  MaxNow = 0
VIEW MCView
PROPERTY
  ImplementsTaskPool
CHECK_DEADLOCK FALSE
