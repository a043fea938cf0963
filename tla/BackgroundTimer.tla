--------------------------- MODULE BackgroundTimer ---------------------------
(***************************************************************************)
(* sg::background_timer, the predecessor of sg::worker: a thread that calls a *)
(* task until it is told to stop or the task throws, and then hands what was  *)
(* thrown to the stopped-callback.  One thread starts and joins it; any       *)
(* thread, and the callbacks, ask it to stop.                                 *)
(***************************************************************************)
EXTENDS Naturals

VARIABLES
    tThread,   \* m_thread and where it is in action(); "none" when not joinable
    tRunning,  \* m_is_running
    tStop,     \* m_stop_requested
    tError,    \* m_exception is set
    tStarting, \* is the owner inside start(), past its first test?
    tThrown    \* history: did the task of the thread throw?

timerVars == <<tThread, tRunning, tStop, tError, tStarting, tThrown>>

TimerInit ==
    /\ tThread = "none" /\ tRunning = FALSE /\ tStop = FALSE /\ tError = FALSE
    /\ tStarting = FALSE /\ tThrown = FALSE

----------------------------------------------------------------------------
\* Mutant: the state of the run is cleared before its thread is joined.
TimerStart_clearsFirst ==
    /\ ~tStarting /\ ~tRunning
    /\ tStarting' = TRUE /\ tError' = FALSE
    /\ UNCHANGED <<tThread, tRunning, tStop, tThrown>>

\* start(): refused while m_is_running; that is cleared before the thread ends ...
TimerStart ==
    /\ ~tStarting /\ ~tRunning
    /\ tStarting' = TRUE
    /\ UNCHANGED <<tThread, tRunning, tStop, tError, tThrown>>

\* ... so the thread is joined first; then the flags are set and the new one created,
\* which may fail: start() throws, and m_is_running stays set with no thread.
TimerCreate ==
    /\ tStarting /\ tThread \in {"none", "over"}
    /\ tStop' = FALSE /\ tError' = FALSE /\ tRunning' = TRUE
    /\ tThread' \in {"on_start", "none"} /\ tThrown' = FALSE
    /\ tStarting' = FALSE

\* wait_for_stop() joins, and does not ask for the stop.
TimerJoin ==
    /\ ~tStarting /\ tThread = "over"
    /\ tThread' = "none"
    /\ UNCHANGED <<tRunning, tStop, tError, tStarting, tThrown>>

TimerRequestStop ==
    /\ tStop' = TRUE
    /\ UNCHANGED <<tThread, tRunning, tError, tStarting, tThrown>>

----------------------------------------------------------------------------
(* action(), on the timer's thread *)

TimerStarted ==
    /\ tThread = "on_start"
    /\ tThread' = "check"
    /\ UNCHANGED <<tRunning, tStop, tError, tStarting, tThrown>>

TimerCheck ==
    /\ tThread = "check"
    /\ tThread' = IF tStop THEN "leave" ELSE "task"
    /\ UNCHANGED <<tRunning, tStop, tError, tStarting, tThrown>>

\* The task and the sleep after it, or an exception, which is kept.
TimerTask ==
    /\ tThread = "task"
    /\ \/ tThread' = "check" /\ UNCHANGED <<tError, tThrown>>
       \/ tThread' = "leave" /\ tError' = TRUE /\ tThrown' = TRUE
    /\ UNCHANGED <<tRunning, tStop, tStarting>>

TimerLeave ==
    /\ tThread = "leave"
    /\ tRunning' = FALSE /\ tThread' = "report"
    /\ UNCHANGED <<tStop, tError, tStarting, tThrown>>

\* The stopped-callback is given m_exception.
TimerReport ==
    /\ tThread = "report"
    /\ tThread' = "over"
    /\ UNCHANGED <<tRunning, tStop, tError, tStarting, tThrown>>

TimerNext == TimerStart \/ TimerCreate \/ TimerJoin \/ TimerRequestStop
             \/ TimerStarted \/ TimerCheck \/ TimerTask \/ TimerLeave \/ TimerReport

TimerSpec == TimerInit /\ [][TimerNext]_timerVars

----------------------------------------------------------------------------
(* Properties *)

\* The stopped-callback, and get_exception() after it, are given what the task of
\* that very run threw, even though the timer may be started again as soon as it
\* no longer counts as running, which is before the callback.
TimerReportsOwn == tThread \in {"report", "over"} => tError = tThrown
=============================================================================
