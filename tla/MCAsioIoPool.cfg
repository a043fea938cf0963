SPECIFICATION Spec
CONSTANTS
    Users = {u1, u2}
    Workers = {w1, w2}
    Monitor = monitor
    Nobody = nobody
    Guarded = TRUE
    UserPrograms <- AllUsers
    HandlerPrograms <- AllHandlers
    CallbackPrograms <- AllCallbacks
    MaxQueue = 1
    ThreadsMayFail = TRUE
INVARIANTS CycleHasOwner CallbackAfterWorkers OneCallbackPerCycle
PROPERTY RestartWhenIdle
CHECK_DEADLOCK FALSE
