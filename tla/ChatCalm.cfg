SPECIFICATION CalmSpec
CONSTANTS
    MaxConns = 4
    MaxIds = 4
    Attempts = 1
    MaxSessions = 1
    MaxBursts = 0
    TabsClose = FALSE
PROPERTY BothGatesOpenAgain
CHECK_DEADLOCK FALSE
