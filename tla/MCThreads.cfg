SPECIFICATION MCSpec
CONSTANTS
    QCAP = 2
    NITEMS = 4
    Consumers = {c1, c2, c3}
    Producer = p
    NoThread = none
    ITERS = 3
    NTHREADS = 3
INVARIANTS
    ExactlyOnceInOrder
    NoLostWakeup
    CountRight
    Ownership
PROPERTIES
    ImplementsFifo
    Terminates
