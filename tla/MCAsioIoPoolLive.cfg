SPECIFICATION FairSpec
CONSTANTS
    Users = {u1, u2}
    Workers = {w1, w2}
    Monitor = monitor
    Nobody = nobody
    Guarded = FALSE
    UserPrograms <- PostAndRun
    HandlerPrograms <- QuietHandlers
    CallbackPrograms <- QuietCallbacks
    MaxQueue = 1
    ThreadsMayFail = FALSE
PROPERTIES StopCompletes NothingStranded
