SPECIFICATION Spec
CONSTANTS
  w1 = w1
  w2 = w2
  Home = w1
  NoWorkspace = NoWorkspace
  Workspaces <- MCWorkspaces
  MaxStarts = 2
  MaxCancels = 1
  MaxDisturbances = 2
INVARIANTS CanceledForReason LoginCanBeCanceled
PROPERTIES PageIsWanted EveryLoginEnds
CHECK_DEADLOCK FALSE
