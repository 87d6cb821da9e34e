SPECIFICATION Spec
CONSTANTS
  t1 = t1
  t2 = t2
  w1 = w1
  w2 = w2
  NoTask = NoTask
  Tasks <- MCTwoTasks
  Workers <- MCWorkers
  NumLanes = 3
  Priorities <- MCLowest
  Cancelling <- MCTwoTasks
  Weights <- MCWeights
  AgeThreshold <- MCFlatThreshold
  MaxNow = 1
SYMMETRY MCSymmetry
VIEW MCView
INVARIANTS
  QuotasHold
  NoLostWakeup
  LanesConsistent
PROPERTY
  StepsOfTaskPool
CHECK_DEADLOCK FALSE
