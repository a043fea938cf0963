SPECIFICATION FairSpec
CONSTANTS
    Users = {u1, u2}
    Listeners = {l1, l2}
    Sessions = {s1}
    Nobody = nobody
    Stoppers = {t1, t2}
    Setups <- UsualSetups
    MaxStarts = 2
INVARIANTS CountsExact StoppedIsLast StoppedMeansStopped FailureReported
PROPERTIES StartAsserts StopCompletes
CHECK_DEADLOCK FALSE
