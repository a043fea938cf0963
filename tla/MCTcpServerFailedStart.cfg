SPECIFICATION Spec
CONSTANTS
    Users = {u1}
    Listeners = {l1, l2}
    Sessions = {s1}
    Nobody = nobody
    Stoppers = {t1, t2}
    Setups <- LateStopSetups
    MaxStarts = 3
PROPERTY StartAsserts
CHECK_DEADLOCK FALSE
