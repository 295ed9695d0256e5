SPECIFICATION Spec
CONSTANTS
    Paths = {p1, p2}
    Uploads = {}
    MaxFiles = 2
    MaxChunks = 1
    MaxTotal = 1
    Jobs = {j1, j2}
    Glob = p1
    Matches <- Globbed
    Conflicts = {p2}
    MaxFaults = 1
    MaxActs = 2
SYMMETRY Symmetry
INVARIANTS AnswersAreTrue
PROPERTIES NoCollateral
CHECK_DEADLOCK FALSE
