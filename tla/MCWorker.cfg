SPECIFICATION FairSpec
CONSTANTS
    Users = {u1, u2}
    Nobody = nobody
    Never = never
    Targets <- MCTargets
    ReadLimit = 2
    Setups <- MCSetups
INVARIANTS NeverTerminates StateMatchesThread NoStaleStop
PROPERTIES StopHonoured TargetHonoured StartReturns
CHECK_DEADLOCK FALSE
