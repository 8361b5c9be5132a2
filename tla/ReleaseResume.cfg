CONSTANTS
    Modules = 2
    MaxKills = 1
    MaxFaults = 0
    MaxMoves = 0
SPECIFICATION Spec
INVARIANT PushedIsPrepared
CHECK_DEADLOCK FALSE
