SPECIFICATION Spec
CONSTANTS
    Users = {u1, u2}
    Nobody = nobody
    Never = never
    Targets <- MCTargets
    ReadLimit = 1
    Setups <- ThrowingSetups
INVARIANT NeverTerminates
CHECK_DEADLOCK FALSE
