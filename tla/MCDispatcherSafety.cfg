SPECIFICATION Spec
CONSTANTS
  t1 = t1
  t2 = t2
  w1 = w1
  w2 = w2
  NoTask = NoTask
  MayShutdown = TRUE
  Tasks <- MCTwoTasks
  Workers <- MCWorkers
  Panicking <- MCOneTask
  Cancelling <- MCOneTask
  Hanging <- MCNoTasks
SYMMETRY MCSymmetry
INVARIANTS
  TasksOwned
  BooksBalance
  EventsMatchRecord
PROPERTY
  ImplementsTaskLifecycle
CHECK_DEADLOCK FALSE
