SPECIFICATION Spec
CONSTANTS
    Ids = {a}
    Projects = {q1}
    Labels = {"label"}
    Phones = {p1, p2}
    Tasks = {t1, t2}
    None = None
    MaxConns = 1
    MaxChanges = 2
    Suspends = TRUE
SYMMETRY Symmetry
INVARIANTS EveryBroadcastShown
CHECK_DEADLOCK FALSE
