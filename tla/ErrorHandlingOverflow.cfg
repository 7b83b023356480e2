SPECIFICATION Spec
CONSTANTS
    None = None
    NULL = NULL
    INT_MAX = 127
    LONG_MAX = 32767
    Numerals = {0, 42, 127, 128, 300}
INVARIANTS
    ParseIntFaithful
