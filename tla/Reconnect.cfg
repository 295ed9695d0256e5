SPECIFICATION SessionSpec
CONSTANTS
    MaxGeneration = 6
INVARIANTS NoOrphanChannel RetriesPaced ShownTruly
PROPERTY ImplementsOneLink
CHECK_DEADLOCK FALSE
