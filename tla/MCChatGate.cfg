SPECIFICATION Spec
CONSTANTS
    MaxChats = 2
    QueueSize = 1
    MaxConns = 2
    MaxSessions = 2
    MaxApprovals = 2
    MaxPeerChats = 0
    MaxCancels = 1
INVARIANTS
    TypeOK
    WrittenUnderItsApproval
    DeliveredWasShown
    HonestAckKnown
    SlotsAreOfThisGate
PROPERTIES
    FinalStatusStays
    DeliveredUnderItsApproval
CHECK_DEADLOCK FALSE
