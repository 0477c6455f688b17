SPECIFICATION Spec
CONSTANTS
    a = a
    b = b
    t1 = t1
    t2 = t2
    m1 = m1
    Workspaces <- MCSolo
    Owner = a
    Threads <- MCOneThread
    MemoryThreads <- MCNone
    Depth <- MCDepth
    Sharers <- MCNone
    Methods <- DrainMethods
    Announcements <- MCNone
    MaxRequests = 2
    MaxEvents = 0
    BadOutput = TRUE
    NoWorkspace = NoWorkspace
    NoThread = NoThread
CHECK_DEADLOCK FALSE
INVARIANTS
    PendingStaysDrained
