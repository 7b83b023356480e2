SPECIFICATION Spec
CONSTANTS
    LINES = 3
    ROWS = 3
    Faulty = TRUE
INVARIANTS
    WroteMeansStored
