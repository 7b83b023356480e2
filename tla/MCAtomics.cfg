SPECIFICATION MCSpec
CONSTANTS
    t1 = t1
    t2 = t2
    t3 = t3
    NULL = NULL
    Threads = {t1, t2, t3}
    Teams = {{t1}, {t2, t3}}
    Mine <- Blocks
    values <- Arrays
INVARIANTS
    IsMaximum
    NodesAccounted
PROPERTIES
    ImplementsStack
    Terminates
