SPECIFICATION Spec
CONSTANT ForkMayFail = TRUE
INVARIANT SignalsOnlyOwnChild
CHECK_DEADLOCK FALSE
