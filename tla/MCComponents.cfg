SPECIFICATION ComponentsSpec
CONSTANTS
    MaxWrites = 4
    MaxRuns = 2
    Elements = {1, 2}
    Sizes <- MCSizes
    MaxAppend = 4
    Trivial = TRUE
    MaxConnects = 2
    MaxBytes = 4
    Delimiters = {2, 4}
    MaxReaders = 2
    MachineStates = {s1, s2}
    UnknownState = unknown
    NoState = none
INVARIANTS InOrder StopFlushes SyncInOrder ClientServed EnteredBeforeLeft TimerReportsOwn
PROPERTIES StopReturns QueueDrains RollingKeepsLast ClientReturns MachineSettles
CHECK_DEADLOCK FALSE
