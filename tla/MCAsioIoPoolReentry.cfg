SPECIFICATION FairSpec
CONSTANTS
    Users = {u1, u2}
    Workers = {w1, w2}
    Monitor = monitor
    Nobody = nobody
    Guarded = FALSE
    UserPrograms <- AllUsers
    HandlerPrograms <- QuietHandlers
    CallbackPrograms <- AllCallbacks
    MaxQueue = 1
    ThreadsMayFail = FALSE
PROPERTY StopCompletes
CHECK_DEADLOCK FALSE
