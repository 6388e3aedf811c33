SPECIFICATION Spec
CONSTANTS
    Opens = {o1, o2, o3}
    Keys = {k1, k2}
    MaxConcurrent = 1
    TempToken = FALSE
    MaxCloses = 1
    None = None
INVARIANT LiveStreamReachable
CHECK_DEADLOCK FALSE
