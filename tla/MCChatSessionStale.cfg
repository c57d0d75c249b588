SPECIFICATION Spec
CONSTANTS
    MaxConns = 2
    MaxIds = 3
    Attempts = 1
    MaxSessions = 2
    MaxBursts = 0
    TabsClose = FALSE
PROPERTY OpenSessionSurvivesItsPeer
CHECK_DEADLOCK FALSE
