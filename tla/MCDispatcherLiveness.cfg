SPECIFICATION FairSpec
CONSTANTS
  t1 = t1
  t2 = t2
  w1 = w1
  w2 = w2
  NoTask = NoTask
  MayShutdown = TRUE
  Tasks <- MCTwoTasks
  Workers <- MCWorkers
  Cancelling <- MCOneTask
  Panicking <- MCNoTasks
  Hanging <- MCOneTask
PROPERTY
  WorkersServe
CHECK_DEADLOCK FALSE
