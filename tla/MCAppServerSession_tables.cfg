SPECIFICATION Spec
CONSTANTS
    a = a
    b = b
    t1 = t1
    t2 = t2
    m1 = m1
    Workspaces <- MCWorkspaces
    Owner = a
    Threads <- MCThreads
    MemoryThreads <- MCMemory
    Depth <- MCDepth
    Sharers <- MCNone
    Methods <- TableMethods
    Announcements <- TableEvents
    MaxRequests = 2
    MaxEvents = 2
    BadOutput = FALSE
    NoWorkspace = NoWorkspace
    NoThread = NoThread
CHECK_DEADLOCK FALSE
INVARIANTS
    PendingIsExact
    ToldThreadsAreRouted
    NoCrossTalk
PROPERTIES
    RefinesRequestTable
    MemoryThreadsAreSilent
