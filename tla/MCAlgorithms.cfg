SPECIFICATION MCSpec
CONSTANTS
    Algs = {"bubble", "insertion", "selection", "merge", "quick"}
    Keys = {1, 2, 3}
    MaxLen = 6
    MaxEvents = 7
    None = None
    NULL = NULL
    Numerals <- MCNumerals
    INT_MAX = 127
    LONG_MAX = 32767
    CAPACITY = 2
    MaxWord = 6
    MaxNodes = 20
    ArgStrings <- MCStrings
    MaxArgs = 3
    LOGSZ = 4
    MaxText = 5
INVARIANTS
    SortsCorrectly
    AppsCorrect
    ErrorPathsClean
    Lifecycle
    
    TextRight
PROPERTIES
    Finishes
