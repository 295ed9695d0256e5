SPECIFICATION Spec
CONSTANTS
    Limit = 1
    SearxHops = 4
    WebHops = 5
    MaxRetries = 2
    MaxLines = 2
INVARIANTS FetchesSafe EndsWell OneAttemptsText
PROPERTIES ChatEnds
CHECK_DEADLOCK FALSE
