SPECIFICATION Spec
CONSTANTS
    Paths = {p1, p2}
    Uploads = {u1}
    MaxFiles = 2
    MaxChunks = 1
    MaxTotal = 1
    Jobs = {j1}
    Glob = none
    Matches <- Plain
    Conflicts = {}
    MaxFaults = 1
    MaxActs = 2
SYMMETRY Symmetry
INVARIANTS UploadsLand AnswersAreTrue
PROPERTIES ImplementsUploads
CHECK_DEADLOCK FALSE
