CONSTANTS
    Modules = 2
    MaxKills = 2
    MaxFaults = 1
    MaxMoves = 1
SPECIFICATION FairSpec
INVARIANTS UnknownUntilObserved ArchivedIsPublished
PROPERTY RecoveryCompletes
CHECK_DEADLOCK FALSE
