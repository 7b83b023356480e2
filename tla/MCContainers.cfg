SPECIFICATION MCSpec
CONSTANTS
    Values = {1, 2, 3}
    Junk = Junk
    Blocks = {a1, a2}
    NullPtr = NullPtr
    InitCap = 2
    MaxLen = 5
    k1 = k1
    k2 = k2
    k3 = k3
INVARIANTS
    HeapExact
PROPERTIES
    PushAppends
    IsDictionary
    ListsConform
    TreeConforms
