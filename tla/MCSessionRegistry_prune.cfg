SPECIFICATION Spec
CONSTANTS
    m1 = m1
    m2 = m2
    t1 = t1
    p1 = p1
    p2 = p2
    p3 = p3
    c1 = c1
    c2 = c2
    Mains <- MCMains
    Worktrees <- MCNoWorktrees
    ParentOf <- MCNoParents
    Procs <- MCTwoProcs
    Clients <- MCClients
    Ops <- DaemonOps
    Foreign <- MCMains
    DiskFaults = FALSE
    NoProc = NoProc
    NoClient = NoClient
    NoWorkspace = NoWorkspace
CHECK_DEADLOCK FALSE
SYMMETRY TwoProcSymmetry
INVARIANTS
    PruneSparesOthers
