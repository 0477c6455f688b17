SPECIFICATION FairSpec
CONSTANTS
    m1 = m1
    m2 = m2
    t1 = t1
    p1 = p1
    p2 = p2
    p3 = p3
    c1 = c1
    c2 = c2
    Mains <- MCMains
    Worktrees <- MCNoWorktrees
    ParentOf <- MCNoParents
    Procs <- MCTwoProcs
    Clients <- MCClients
    Ops <- LiveOps
    Foreign <- MCOneMain
    DiskFaults = FALSE
    NoProc = NoProc
    NoClient = NoClient
    NoWorkspace = NoWorkspace
CHECK_DEADLOCK FALSE
PROPERTIES
    EveryCommandReturns
