SPECIFICATION Spec
CONSTANTS
    MaxBegins = 2
    MaxSessions = 3
    MaxFaults = 0
    MaxCrashes = 0
    RaceKinds = {"begin"}
INVARIANT OneSessionRuns
CHECK_DEADLOCK FALSE
