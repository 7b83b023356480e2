SPECIFICATION MCSpec
CONSTANTS
    ForkMayFail = TRUE
    Outside = 2
    TICKS = 5
    ITERATIONS = 5
    Settings = {"cooked", "noecho"}
    MaxKeys = 5
    LINES = 3
    ROWS = 3
    Faulty = TRUE
INVARIANTS
    InStep
    Released
    SharedPageVisible
    Undisturbed
    TerminalRestored
    FilesFaithful
    PluginsUnloaded
PROPERTIES
    Terminates
