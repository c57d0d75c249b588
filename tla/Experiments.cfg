SPECIFICATION Spec
INVARIANTS
    TypeOK
    DocumentedOutcomes
    NoUnnecessaryRequest
    EveryEpisodeCaught
    MismatchBlocks
CHECK_DEADLOCK FALSE
