SPECIFICATION Spec
CONSTANTS
  main = main
  t1 = t1
  t2 = t2
  n1 = n1
  n2 = n2
  n3 = n3
  s1 = s1
  s2 = s2
  c1 = c1
  c2 = c2
  NoClient = NoClient
  Main = main
  Worktrees <- MCWorktrees
  FirstName <- MCFirstName
  Names <- MCNames
  Scripts <- MCScripts
  FirstScript = s1
  Clients <- MCClients
  MaxCommands = 4
  MaxFaults = 1
INVARIANTS FileHoldsTheMap RecordsMatchGit WorktreesInheritTheScript
SYMMETRY Symmetry
CHECK_DEADLOCK FALSE
