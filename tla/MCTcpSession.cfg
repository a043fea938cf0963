SPECIFICATION Spec
CONSTANTS
    Users = {u1, u2}
    Starter = u1
    Strand = strand
    MaxWrites = 3
    Size <- MCSize
    HighWaterMark = 2
    Timeouts = {TRUE, FALSE}
    EarlySharing = FALSE
    StarterInPool = TRUE
INVARIANTS SingleWriter CloseIsAssigned InOrder StopWithoutWriterDrains
    ByteCounts CallbacksPaired
PROPERTIES StoppedIsFinal FailureIsRecorded
CHECK_DEADLOCK FALSE
