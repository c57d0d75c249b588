SPECIFICATION Spec
CONSTANTS
    MaxConns = 3
    MaxIds = 2
    Attempts = 2
    MaxSessions = 2
    MaxBursts = 0
    TabsClose = TRUE
INVARIANTS
    TypeOK
    BothPeopleMatched
    RecoveredOnFreshTLS
    HonestPeerNotRefused
    PendingComparisonPauses
CHECK_DEADLOCK FALSE
