SPECIFICATION Spec
CONSTANTS
    c1 = c1
    c2 = c2
    u1 = u1
    h1 = h1
    h2 = h2
    Calls <- MCCalls
    Retryable <- MCRetryable
    Updates <- MCUpdates
    Hosts <- MCHosts
    Tokenless <- MCTokenless
    Trusted <- MCTrusted
    Open <- MCOpen
    Home = h1
    MaxConnections = 2
    Capacity = 1
    MaxDisturbances = 1
CHECK_DEADLOCK FALSE
INVARIANTS
    AtMostOnce
    EndReachesWaiters
    ClientFollowsSettings
PROPERTIES
    RefinesRequestTable
    UnusedConnectionsEnd
