SPECIFICATION FairSpec
CONSTANTS
    MaxChats = 2
    QueueSize = 2
    MaxConns = 1
    MaxSessions = 1
    MaxApprovals = 2
    MaxPeerChats = 1
    MaxCancels = 0
PROPERTIES
    ChatSettles
CHECK_DEADLOCK FALSE
