SPECIFICATION Spec
CONSTANTS
    Ids = {a, b}
    Projects = {q1, q2}
    Labels = {"label"}
    Phones = {p1, p2}
    Tasks = {t1}
    None = None
    MaxConns = 2
    MaxChanges = 2
    Suspends = FALSE
SYMMETRY Symmetry
INVARIANTS NoLostChange
PROPERTIES DeadAreSwept
CHECK_DEADLOCK FALSE
