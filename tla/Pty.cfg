SPECIFICATION FairSpec
CONSTANTS
    Sessions = {s1, s2}
    MaxPtys = 1
    IdleLimit = 3
INVARIANTS SlotAccounting SlotLimit NothingOutlivesHandler ExitFollowsOutput
PROPERTIES SlotIsFreed TeardownEnds
CHECK_DEADLOCK FALSE
