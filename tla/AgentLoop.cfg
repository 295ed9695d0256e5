SPECIFICATION FairSpec
CONSTANTS
    MaxSteps = 2
    MaxRetries = 2
    MaxCalls = 2
    MaxLines = 3
INVARIANTS EndsOnce NoReplay AnsweredInOrder UsageOncePerStep
PROPERTIES RunEnds ImplementsTurns
CHECK_DEADLOCK FALSE
