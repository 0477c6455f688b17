SPECIFICATION FairPSpec
CONSTANTS
    a = a
    t1 = t1
    t2 = t2
    b1 = b1
    b2 = b2
    Workspaces <- MCWorkspaces
    Owner = a
    Threads <- MCOneThread
    MemoryThreads <- MCNone
    Depth <- MCDepth
    Sharers <- MCWorkspaces
    Methods <- MCNone
    Announcements <- TurnEvents
    Prompts <- MCOnePrompt
    MaxRequests = 3
    MaxEvents = 2
    BadOutput = FALSE
    NoWorkspace = NoWorkspace
    NoThread = NoThread
CHECK_DEADLOCK FALSE
INVARIANTS
    PromptsCleanUp
PROPERTIES
    TurnStaysInBackground
    ExitReleasesPrompts
