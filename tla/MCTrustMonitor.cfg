SPECIFICATION Spec
CONSTANTS
    Capacity = 12
    RttWindow = 2
    RotationAge = 2
    Attempts = 2
    Handshakes = {30, 126}
    Stored = {10000000}
    MaxSessions = 3
    MaxBeats = 3
    MaxTime = 2
    MaxSwitches = 2
INVARIANTS
    TypeOK
    MildConditionsNeverAsk
    OpenMeansTrusted
    ScoredRttIsCurrent
    EstablishmentsCounted
CHECK_DEADLOCK FALSE
