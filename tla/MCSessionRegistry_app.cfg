SPECIFICATION Spec
CONSTANTS
    m1 = m1
    m2 = m2
    t1 = t1
    p1 = p1
    p2 = p2
    p3 = p3
    c1 = c1
    c2 = c2
    Mains <- MCOneMain
    Worktrees <- MCWorktrees
    ParentOf <- MCParentOf
    Procs <- MCProcs
    Clients <- MCClients
    Ops <- AppOps
    Foreign <- MCNone
    DiskFaults = TRUE
    NoProc = NoProc
    NoClient = NoClient
    NoWorkspace = NoWorkspace
CHECK_DEADLOCK FALSE
SYMMETRY Symmetry
INVARIANTS
    SingleSession
    FreshSpawnIsAlone
PROPERTIES
    LeaksOnlyThere
    DeafOnlyByKill
    RefinesSharedServer
