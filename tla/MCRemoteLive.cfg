SPECIFICATION Spec
CONSTANTS
  t1 = t1
  t2 = t2
  NoThread = NoThread
  Home = t1
  Threads <- MCThreads
  MaxDisturbances = 2
INVARIANTS SelectedIsLive NothingStaysAttached
PROPERTY Settles
CHECK_DEADLOCK FALSE
