SPECIFICATION FairSpec
CONSTANTS
    MaxConns = 2
    MaxIds = 2
    Attempts = 1
    MaxSessions = 1
    MaxBursts = 1
    TabsClose = FALSE
INVARIANTS
    BothPeopleMatched
PROPERTY TransientStatesEnd
CHECK_DEADLOCK FALSE
