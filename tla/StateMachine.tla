---------------------------- MODULE StateMachine ----------------------------
(***************************************************************************)
(* sg::state_machine: a worker whose tick moves the machine to the state that *)
(* was last requested, and calls the exit, entry and tick callbacks.          *)
(* One thread starts and stops the machine, another sets states; callbacks    *)
(* do both.  Any callback may throw.                                          *)
(*                                                                           *)
(* Of the worker (see Worker) this model has what the machine relies on: one  *)
(* thread at a time, the stop flag, and the notification that ends a wait     *)
(* without a time limit.                                                      *)
(***************************************************************************)
EXTENDS Naturals

CONSTANTS MachineStates,   \* states that add_state() was called for
          UnknownState,    \* a state that it was not called for
          NoState

ASSUME MachineAssumption ==
    UnknownState \notin MachineStates /\ NoState \notin MachineStates \cup {UnknownState}

VARIABLES
    mThread,    \* where the worker thread is; "off" before the first start()
    mCurrent,   \* m_current_state
    mRequested, \* m_requested_state
    mJust,      \* just_started
    mTarget,    \* requested_state_, local to tick_action()
    mStop,      \* the worker's m_stop_requested
    mNotified,  \* the worker's m_notify_sem
    mForever,   \* is the interval endless?
    mStarter,   \* where start() is
    mSetter,    \* where the other thread is in its call
    mInside,    \* history: the state that has been entered and not left
    mThrown     \* history: something was thrown in this run

machineVars == <<mThread, mCurrent, mRequested, mJust, mTarget, mStop, mNotified, mForever,
                 mStarter, mSetter, mInside, mThrown>>
callVars == <<mStop, mRequested, mNotified, mForever, mStarter, mSetter>>

MachineAnyState == MachineStates \cup {UnknownState}
MachineLoops == mThread \in {"check", "first", "exit", "entry", "ticks", "wait"}
MachineInCallback == mThread \in {"on_start", "first", "exit", "entry", "ticks", "on_stop"}

MachineInit ==
    /\ mThread = "off" /\ mCurrent = NoState /\ mRequested = NoState /\ mJust = FALSE
    /\ mTarget = NoState /\ mStop = FALSE /\ mNotified = FALSE /\ mForever \in BOOLEAN
    /\ mStarter = "idle" /\ mSetter = "idle" /\ mInside = NoState /\ mThrown = FALSE

----------------------------------------------------------------------------
(* The callers *)

\* start(): refused while the worker runs; but a worker whose stop callback is
\* still running does not.
MachineStart ==
    /\ mStarter = "idle" /\ ~MachineLoops /\ mThread # "on_start"
    /\ \E initial \in MachineAnyState : mCurrent' = initial /\ mRequested' = initial
    /\ mStarter' = "create"
    /\ UNCHANGED <<mThread, mJust, mTarget, mStop, mNotified, mForever, mSetter, mInside, mThrown>>

\* The old worker is destroyed, which joins its thread, and the new one started.
MachineCreate ==
    /\ mStarter = "create" /\ mThread \in {"off", "over"}
    /\ mThread' = "on_start" /\ mStarter' = "idle"
    /\ mStop' = FALSE /\ mNotified' = FALSE
    /\ mInside' = NoState /\ mThrown' = FALSE
    /\ UNCHANGED <<mCurrent, mRequested, mJust, mTarget, mForever, mSetter>>

\* set_state() and request_stop(): a store, and then a notification.
SetStore ==
    /\ mSetter = "idle" /\ mThread # "off"
    /\ \/ \E s \in MachineAnyState : mRequested' = s /\ UNCHANGED mStop
       \/ mStop' = TRUE /\ UNCHANGED mRequested
    /\ mSetter' = "notify"
    /\ UNCHANGED <<mThread, mCurrent, mJust, mTarget, mNotified, mForever, mStarter, mInside,
                   mThrown>>

\* Mutant: set_state() does not notify the worker.
SetNotify_missing ==
    /\ mSetter = "notify"
    /\ mSetter' = "idle"
    /\ UNCHANGED <<mThread, mCurrent, mRequested, mJust, mTarget, mStop, mNotified, mForever,
                   mStarter, mInside, mThrown>>

SetNotify ==
    /\ mSetter = "notify"
    /\ mNotified' = TRUE /\ mSetter' = "idle"
    /\ UNCHANGED <<mThread, mCurrent, mRequested, mJust, mTarget, mStop, mForever, mStarter,
                   mInside, mThrown>>

\* The same calls from a callback: only its own thread takes the notification.
CallFromCallback ==
    /\ MachineInCallback
    /\ \/ \E s \in MachineAnyState : mRequested' = s /\ UNCHANGED mStop
       \/ mStop' = TRUE /\ UNCHANGED mRequested
    /\ mNotified' = TRUE
    /\ UNCHANGED <<mThread, mCurrent, mJust, mTarget, mForever, mStarter, mSetter, mInside,
                   mThrown>>

----------------------------------------------------------------------------
(* The worker thread *)

\* A callback, or m_states.at() for a state that was not added, throws: the tick
\* ends, and the worker with it.
TickThrows ==
    /\ mThread \in {"first", "exit", "entry", "ticks"}
    /\ mThread' = "on_stop" /\ mThrown' = TRUE
    /\ UNCHANGED <<mCurrent, mJust, mTarget, mInside, callVars>>

\* worker_on_start(): if the callback throws, the thread ends without a stop callback.
OnMachineStart ==
    /\ mThread = "on_start"
    /\ \/ mThread' = "check" /\ mJust' = TRUE
       \/ mThread' = "over" /\ UNCHANGED mJust
    /\ UNCHANGED <<mCurrent, mTarget, mInside, mThrown, callVars>>

\* Mutant: the entry callbacks of the initial state are forgotten.
TickBegin_noEntry ==
    /\ mThread = "check" /\ ~mStop
    /\ mTarget' = mRequested /\ mJust' = FALSE
    /\ mThread' = IF mCurrent # mRequested THEN "exit" ELSE "ticks"
    /\ UNCHANGED <<mCurrent, mInside, mThrown, callVars>>

\* tick_action() reads the request once, and asks whether it is the first tick.
TickBegin ==
    /\ mThread = "check" /\ ~mStop
    /\ mTarget' = mRequested /\ mJust' = FALSE
    /\ mThread' = IF mJust THEN "first"
                  ELSE IF mCurrent # mRequested THEN "exit" ELSE "ticks"
    /\ UNCHANGED <<mCurrent, mInside, mThrown, callVars>>

\* The entry callbacks of the initial state ...
FirstEntry ==
    /\ mThread = "first" /\ mCurrent \in MachineStates
    /\ mInside' = mCurrent
    /\ mThread' = IF mCurrent # mTarget THEN "exit" ELSE "ticks"
    /\ UNCHANGED <<mCurrent, mJust, mTarget, mThrown, callVars>>

\* ... the exit callbacks of the state it is in, and the change of state ...
ExitOld ==
    /\ mThread = "exit" /\ mCurrent \in MachineStates
    /\ mInside' = NoState
    /\ mCurrent' = mTarget /\ mThread' = "entry"
    /\ UNCHANGED <<mJust, mTarget, mThrown, callVars>>

\* ... the entry callbacks of the new state ...
EnterNew ==
    /\ mThread = "entry" /\ mCurrent \in MachineStates
    /\ mInside' = mCurrent /\ mThread' = "ticks"
    /\ UNCHANGED <<mCurrent, mJust, mTarget, mThrown, callVars>>

\* ... and the tick callbacks of the state it is in now.
RunTicks ==
    /\ mThread = "ticks" /\ mCurrent \in MachineStates
    /\ mThread' = "wait"
    /\ UNCHANGED <<mCurrent, mJust, mTarget, mInside, mThrown, callVars>>

\* The wait between two ticks takes all notifications.
TickWait ==
    /\ mThread = "wait" /\ (mNotified \/ ~mForever)
    /\ mNotified' = FALSE /\ mThread' = "check"
    /\ UNCHANGED <<mCurrent, mRequested, mJust, mTarget, mStop, mForever, mStarter, mSetter,
                   mInside, mThrown>>

TickStop ==
    /\ mThread = "check" /\ mStop
    /\ mThread' = "on_stop"
    /\ UNCHANGED <<mCurrent, mJust, mTarget, mInside, mThrown, callVars>>

\* worker_on_stop(): the exit callbacks of the current state and the machine's
\* stopped-callback; neither if the state was not added.
OnMachineStop ==
    /\ mThread = "on_stop"
    /\ mInside' = IF mCurrent \in MachineStates THEN NoState ELSE mInside
    /\ mThread' = "over"
    /\ UNCHANGED <<mCurrent, mJust, mTarget, mThrown, callVars>>

MachineRun == OnMachineStart \/ TickBegin \/ FirstEntry \/ ExitOld \/ EnterNew \/ RunTicks
              \/ TickWait \/ TickStop \/ TickThrows \/ OnMachineStop

MachineNext == MachineStart \/ MachineCreate \/ SetStore \/ SetNotify \/ CallFromCallback
               \/ MachineRun

MachineSpec == MachineInit /\ [][MachineNext]_machineVars

\* The threads are scheduled and callbacks return.
MachineFairness == WF_machineVars(MachineRun) /\ WF_machineVars(MachineCreate)
                   /\ WF_machineVars(SetNotify)

----------------------------------------------------------------------------
(* Properties *)

\* Tick and exit callbacks are those of the state whose entry callbacks were
\* called last, whatever is requested meanwhile, from callbacks too, and the
\* state is left before another is entered.  At the end of a run this needs more:
\* a machine stopped before its first tick leaves a state it never entered, one
\* whose exit callback threw leaves it again, and a start() during the stop
\* callback replaces the state that callback is about to leave.
EnteredBeforeLeft ==
    /\ mThread \in {"ticks", "exit"} => mInside = mCurrent
    /\ mThread = "entry" => mInside = NoState
    /\ mThread = "on_stop" /\ ~mJust /\ ~mThrown /\ mStarter = "idle"
          => mInside = mCurrent

\* A requested state becomes the current one, even if the machine waits for ever
\* between ticks, unless another is requested or the machine ends.
MachineSettles ==
    \A s \in MachineAnyState :
        (MachineLoops /\ mRequested = s) ~> (mCurrent = s \/ mRequested # s \/ ~MachineLoops)
=============================================================================
