SPECIFICATION Spec
CONSTANTS
    MaxBegins = 2
    MaxSessions = 4
    MaxFaults = 2
    MaxCrashes = 1
    RaceKinds = {"begin", "stop"}
INVARIANTS
    TypeOK
    OpenIsOnRecord
    OwedComparisonShuts
    FailedComparisonShuts
    NothingLeftOpen
    FreshAfterComparison
CHECK_DEADLOCK FALSE
