SPECIFICATION Spec
CONSTANTS
    Limit <- MCLimit
    Width <- MCWidth
    PllLocks = FALSE
INVARIANT DeadPllIsReported
CHECK_DEADLOCK FALSE
