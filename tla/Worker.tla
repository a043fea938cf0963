------------------------------- MODULE Worker -------------------------------
(***************************************************************************)
(* sg::worker: a thread that repeats a task, waiting an interval or for a   *)
(* notification between two ticks.  User threads start it, ask it to stop   *)
(* and join it; its callbacks (start, tick, stop) run on the worker thread  *)
(* and call it too.                                                         *)
(*                                                                          *)
(* The notification semaphore is drained at each use, so what matters of its *)
(* count is whether it is positive.  m_iterations_done is only compared with *)
(* m_stop_at_iteration: it is counted up to MaxDone, which no target         *)
(* exceeds, and callers read it during the first ReadLimit iterations.       *)
(***************************************************************************)
EXTENDS Naturals, FiniteSets

CONSTANTS Users, Nobody,
          Never,            \* MAX_ITERATION_COUNT: no target
          Targets,          \* iteration counts asked for
          ReadLimit,        \* bound: request_stop_after_iterations() reads counts below it
          Setups            \* the circumstances: how the program uses the worker

ASSUME WorkerAssumption ==
    /\ Nobody \notin Users
    /\ Never \notin Nat
    /\ Targets \subseteq Nat \ {0} /\ Targets # {} /\ IsFiniteSet(Targets)
    /\ ReadLimit \in Nat \ {0}
    /\ \A s \in Setups :
          /\ s.users \subseteq Users       \* the threads that call it
          /\ s.throws \in BOOLEAN          \* may the start callback throw?
          /\ s.restarts \in BOOLEAN        \* does the stop callback call start()?
          /\ s.retimes \in BOOLEAN         \* is set_interval() called?

VARIABLES
    setup,     \* which of the Setups this program is
    interval,  \* m_interval: "short" (a wait ends by itself, or there is none) or "forever"
    state,     \* m_state
    stopFlag,  \* m_stop_requested
    done,      \* m_iterations_done, up to MaxDone
    target,    \* m_stop_at_iteration
    notified,  \* m_notify_sem is positive
    joiner,    \* who holds m_join_mutex to join
    thread,    \* m_thread and where it is in action()
    owner,     \* the start() whose promise the thread fulfils
    promise,   \* per user: the outcome of the start callback, for its start()
    pc,        \* per user: where it is in a call
    seen,      \* per user: the m_iterations_done it has read
    crashed,   \* history: a joinable std::thread was assigned to (std::terminate)
    asked      \* history: a stop was requested since the worker became running

vars == <<setup, interval, state, stopFlag, done, target, notified, joiner, thread, owner, promise, pc,
          seen, crashed, asked>>
userVars == <<pc, promise, seen, joiner>>
world == <<setup, interval>>

MaxDone == ReadLimit + (CHOOSE n \in Targets : \A m \in Targets : m <= n)
Intervals == {"short", "forever"}
InLoop == thread \in {"check", "tick", "wait", "wait_forever"}
InUserCode == thread \in {"on_start", "tick", "on_stop"}

Init ==
    /\ setup \in Setups /\ interval \in Intervals
    /\ state = "stopped" /\ stopFlag = FALSE /\ done = 0 /\ target = Never /\ notified = FALSE
    /\ joiner = Nobody /\ thread = "none" /\ owner = Nobody
    /\ promise = [u \in Users |-> "none"] /\ pc = [u \in Users |-> "idle"]
    /\ seen = [u \in Users |-> 0] /\ crashed = FALSE /\ asked = FALSE

Goto(u, l) == pc' = [pc EXCEPT ![u] = l]

----------------------------------------------------------------------------
(* start() by a user thread *)

\* Only one caller moves the worker from stopped to running; others throw.
StartClaim(u) ==
    /\ pc[u] = "idle" /\ state = "stopped"
    /\ state' = "running"
    /\ asked' = FALSE
    /\ Goto(u, "start_join")
    /\ UNCHANGED <<world, stopFlag, done, target, notified, joiner, thread, owner, promise, seen, crashed>>

\* Mutant: start() does not join the thread of the previous run.
JoinLock_skipped(u) ==
    /\ pc[u] \in {"start_join", "wait_join"}
    /\ joiner = Nobody
    /\ IF pc[u] = "start_join" THEN Goto(u, "start_reset") /\ UNCHANGED joiner
                               ELSE joiner' = u /\ UNCHANGED pc
    /\ UNCHANGED <<world, state, stopFlag, done, target, notified, thread, owner, promise, seen,
                   crashed, asked>>

\* wait_for_stop(): takes m_join_mutex.
JoinLock(u) ==
    /\ pc[u] \in {"start_join", "wait_join"}
    /\ joiner = Nobody
    /\ joiner' = u
    /\ UNCHANGED <<world, state, stopFlag, done, target, notified, thread, owner, promise, pc, seen,
                   crashed, asked>>

\* wait_for_stop(): joins the thread if there is one and lets go of the mutex.
Join(u) ==
    /\ joiner = u
    /\ thread \in {"none", "done"}
    /\ thread' = "none"
    /\ joiner' = Nobody
    /\ Goto(u, IF pc[u] = "start_join" THEN "start_reset" ELSE "idle")
    /\ UNCHANGED <<world, state, stopFlag, done, target, notified, owner, promise, seen, crashed, asked>>

\* Mutant: a stop requested in the previous run is not cleared.
StartReset_keepsFlag(u) ==
    /\ pc[u] = "start_reset"
    /\ done' = 0
    /\ target' \in Targets \cup {Never}
    /\ notified' = FALSE
    /\ Goto(u, "start_thread")
    /\ UNCHANGED <<world, state, stopFlag, joiner, thread, owner, promise, seen, crashed, asked>>

\* Clears what is left of the previous run: the stop flag, the iteration count
\* and target, and notifications.
StartReset(u) ==
    /\ pc[u] = "start_reset"
    /\ stopFlag' = FALSE
    /\ done' = 0
    /\ target' \in Targets \cup {Never}
    /\ notified' = FALSE
    /\ Goto(u, "start_thread")
    /\ UNCHANGED <<world, state, joiner, thread, owner, promise, seen, crashed, asked>>

\* Creates the thread under m_join_mutex, or fails to and gives up.
StartThread(u) ==
    /\ pc[u] = "start_thread" /\ joiner = Nobody
    /\ \/ /\ crashed' = (crashed \/ thread # "none")
          /\ thread' = "on_start" /\ owner' = u
          /\ promise' = [promise EXCEPT ![u] = "pending"]
          /\ Goto(u, "start_wait")
       \/ /\ Goto(u, "start_catch")
          /\ UNCHANGED <<crashed, thread, owner, promise>>
    /\ UNCHANGED <<world, state, stopFlag, done, target, notified, joiner, seen, asked>>

\* start_future.get(): returns, or throws what the start callback threw.
StartWait(u) ==
    /\ pc[u] = "start_wait" /\ promise[u] # "pending"
    /\ promise' = [promise EXCEPT ![u] = "none"]
    /\ Goto(u, IF promise[u] = "kept" THEN "idle" ELSE "start_catch")
    /\ UNCHANGED <<world, state, stopFlag, done, target, notified, joiner, thread, owner, seen,
                   crashed, asked>>

\* Mutant: the failed start() leaves m_state alone.
StartCatch_keepsState(u) ==
    /\ pc[u] = "start_catch"
    /\ Goto(u, "idle")
    /\ UNCHANGED <<world, state, stopFlag, done, target, notified, joiner, thread, owner, promise,
                   seen, crashed, asked>>

\* catch in start(): the worker is marked as stopped and the exception rethrown.
StartCatch(u) ==
    /\ pc[u] = "start_catch"
    /\ state' = "stopped"
    /\ Goto(u, "idle")
    /\ UNCHANGED <<world, stopFlag, done, target, notified, joiner, thread, owner, promise, seen,
                   crashed, asked>>

----------------------------------------------------------------------------
(* The other calls: user threads (u), and callbacks on the worker thread.  A   *)
(* callback's call is one step: only its own thread reads what it wrote.      *)

\* request_stop(), by a user: sets the flag, and then notifies.
RequestStop(u) ==
    /\ pc[u] = "idle"
    /\ stopFlag' = TRUE
    /\ asked' = (asked \/ state = "running")
    /\ Goto(u, "notify")
    /\ UNCHANGED <<world, state, done, target, notified, joiner, thread, owner, promise, seen, crashed>>

\* request_stop_after_iterations(): reads the count ...
StopAfterRead(u) ==
    /\ pc[u] = "idle" /\ done < ReadLimit
    /\ seen' = [seen EXCEPT ![u] = done]
    /\ Goto(u, "after")
    /\ UNCHANGED <<world, state, stopFlag, done, target, notified, joiner, thread, owner, promise,
                   crashed, asked>>

\* Mutant: the worker is not notified of its new target.
StopAfterStore_silent(u) ==
    /\ pc[u] = "after"
    /\ \E n \in Targets : target' = seen[u] + n
    /\ seen' = [seen EXCEPT ![u] = 0]
    /\ Goto(u, "idle")
    /\ UNCHANGED <<world, state, stopFlag, done, notified, joiner, thread, owner, promise, crashed, asked>>

\* ... stores the target, which the thread may have passed meanwhile, or which
\* may be for a run that is over, and then notifies.
StopAfterStore(u) ==
    /\ pc[u] = "after"
    /\ \E n \in Targets : target' = seen[u] + n
    /\ seen' = [seen EXCEPT ![u] = 0]
    /\ Goto(u, "notify")
    /\ UNCHANGED <<world, state, stopFlag, done, notified, joiner, thread, owner, promise, crashed, asked>>

\* Mutant: the waiting worker is not woken.
Notify_lost(u) ==
    /\ pc[u] \in {"idle", "notify"}
    /\ Goto(u, "idle")
    /\ UNCHANGED <<world, state, stopFlag, done, target, notified, joiner, thread, owner, promise, seen,
                   crashed, asked>>

\* notify(), on its own or at the end of the two calls above.
Notify(u) ==
    /\ pc[u] \in {"idle", "notify"}
    /\ notified' = TRUE
    /\ Goto(u, "idle")
    /\ UNCHANGED <<world, state, stopFlag, done, target, joiner, thread, owner, promise, seen,
                   crashed, asked>>

WaitBegin(u) ==
    /\ pc[u] = "idle"
    /\ Goto(u, "wait_join")
    /\ UNCHANGED <<world, state, stopFlag, done, target, notified, joiner, thread, owner, promise,
                   seen, crashed, asked>>

\* set_interval(): read by the thread when it next begins to wait.
SetInterval(u) ==
    /\ setup.retimes /\ pc[u] = "idle"
    /\ interval' \in Intervals \ {interval}
    /\ UNCHANGED <<setup, state, stopFlag, done, target, notified, thread, owner, userVars,
                   crashed, asked>>

UserCall(u) ==
    \/ StartClaim(u) \/ SetInterval(u) \/ WaitBegin(u) \/ StopAfterRead(u)
    \/ RequestStop(u)
    \/ pc[u] = "idle" /\ Notify(u)

\* start() called by the stop callback: m_state is claimed, then wait_for_stop()
\* throws, outside start()'s try block.
StartInside ==
    /\ setup.restarts /\ thread = "on_stop" /\ state = "stopped"
    /\ state' = "running"
    /\ asked' = FALSE
    /\ UNCHANGED <<world, stopFlag, done, target, notified, thread, owner, userVars, crashed>>

\* request_stop(), request_stop_after_iterations() and notify() from a callback.
CallInside ==
    /\ InUserCode
    /\ \/ stopFlag' = TRUE /\ asked' = (asked \/ state = "running") /\ UNCHANGED target
       \/ /\ done < ReadLimit
          /\ \E n \in Targets : target' = done + n
          /\ UNCHANGED <<stopFlag, asked>>
       \/ UNCHANGED <<stopFlag, asked, target>>
    /\ notified' = TRUE
    /\ UNCHANGED <<world, state, done, thread, owner, userVars, crashed>>

CallbackCall ==
    \/ CallInside
    \/ StartInside

----------------------------------------------------------------------------
(* action(), on the worker thread *)

\* Mutant: the promise is not fulfilled when the start callback returns.
OnStart_silent ==
    /\ thread = "on_start"
    /\ thread' = "check"
    /\ UNCHANGED <<world, state, promise, stopFlag, done, target, notified, joiner, owner, pc, seen,
                   crashed, asked>>

\* The start callback returns, or throws: then the worker is marked as stopped
\* before start() hears of it, and the stop callback is not called.
OnStart ==
    /\ thread = "on_start"
    /\ \/ /\ thread' = "check"
          /\ promise' = [promise EXCEPT ![owner] = "kept"]
          /\ UNCHANGED state
       \/ /\ setup.throws
          /\ thread' = "done"
          /\ promise' = [promise EXCEPT ![owner] = "broken"]
          /\ state' = "stopped"
    /\ UNCHANGED <<world, stopFlag, done, target, notified, joiner, owner, pc, seen, crashed, asked>>

\* The loop condition; a tick begins and is counted, or the loop ends.
LoopCheck ==
    /\ thread = "check"
    /\ IF stopFlag
       THEN /\ thread' = "on_stop" /\ state' = "stopped"
            /\ UNCHANGED done
       ELSE /\ thread' = "tick"
            /\ done' = IF done = MaxDone THEN done ELSE done + 1
            /\ UNCHANGED state
    /\ UNCHANGED <<world, stopFlag, target, notified, owner, userVars, crashed, asked>>

TargetReached == target # Never /\ done >= target

\* The tick returns, and the target is tested after it; or it throws.
TickEnd ==
    /\ thread = "tick"
    /\ \/ /\ ~TargetReached
          /\ thread' = IF interval = "forever" THEN "wait_forever" ELSE "wait"
          /\ UNCHANGED state
       \/ thread' = "on_stop" /\ state' = "stopped"
    /\ UNCHANGED <<world, stopFlag, done, target, notified, owner, userVars, crashed, asked>>

\* wait_until_next_tick(): a notification or the interval ends the wait; all
\* notifications so far count as one.
WaitEnd ==
    /\ thread = "wait" \/ (thread = "wait_forever" /\ notified)
    /\ notified' = FALSE
    /\ thread' = "check"
    /\ UNCHANGED <<world, state, stopFlag, done, target, owner, userVars, crashed, asked>>

\* The stop callback returns or throws, and the thread ends.
OnStopEnd ==
    /\ thread = "on_stop"
    /\ thread' = "done"
    /\ UNCHANGED <<world, state, stopFlag, done, target, notified, owner, userVars, crashed, asked>>

action == OnStart \/ LoopCheck \/ TickEnd \/ WaitEnd \/ OnStopEnd

----------------------------------------------------------------------------
\* What a thread that is inside a call does next.
CallStep(u) == JoinLock(u) \/ Join(u) \/ StartReset(u) \/ StartThread(u) \/ StartWait(u)
               \/ StartCatch(u) \/ StopAfterStore(u) \/ (pc[u] = "notify" /\ Notify(u))

Next == \/ \E u \in setup.users : UserCall(u) \/ CallStep(u)
        \/ CallbackCall
        \/ action

Spec == Init /\ [][Next]_vars

\* Threads are scheduled, callbacks return, a mutex is handed on in the end.
FairSpec ==
    /\ Spec
    /\ WF_vars(action)
    /\ \A u \in Users : SF_vars(CallStep(u))
----------------------------------------------------------------------------
(* Properties *)

\* The type invariant.
TypeOK ==
    /\ setup \in Setups /\ interval \in Intervals
    /\ state \in {"running", "stopped"} /\ stopFlag \in BOOLEAN
    /\ done \in 0..MaxDone /\ target \in {Never} \cup 1..(MaxDone - 1) /\ notified \in BOOLEAN
    /\ joiner \in Users \cup {Nobody} /\ owner \in Users \cup {Nobody}
    /\ thread \in {"none", "on_start", "check", "tick", "wait", "wait_forever", "on_stop",
                  "done"}
    /\ promise \in [Users -> {"none", "pending", "kept", "broken"}]
    /\ pc \in [Users -> {"idle", "wait_join", "start_join", "start_reset", "start_thread",
                         "start_wait", "start_catch", "after", "notify"}]
    /\ seen \in [Users -> 0..(ReadLimit - 1)] /\ crashed \in BOOLEAN /\ asked \in BOOLEAN

\* The one std::thread is never assigned to while joinable, which would
\* terminate the program, however starts, stops and joins interleave.
NeverTerminates == ~crashed

\* A user between claiming the worker and its start() returning.
IsStarting(u) == pc[u] \in {"start_join", "start_reset", "start_thread", "start_wait",
                            "start_catch"}

\* A worker that reports to be running is running or being started: otherwise it
\* could be neither started nor stopped any more.  (A stop callback that calls
\* start() leaves it in just that state.)  And a thread that is still working
\* belongs to a worker that reports to be running: start() relies on it, as a
\* claimed worker has at most a finished thread to join.
StateMatchesThread ==
    /\ InLoop \/ thread = "on_start" => state = "running"
    /\ state = "running" /\ ~setup.restarts =>
          InLoop \/ thread = "on_start" \/ \E u \in Users : IsStarting(u)

\* A stop requested during one run never stops the next: a worker that has just
\* been started and is told to stop was told so since it was claimed.
NoStaleStop == stopFlag /\ (InLoop \/ thread = "on_start") => asked

\* A worker told to stop leaves its loop, even if it waits without a time limit.
StopHonoured == (stopFlag /\ InLoop) ~> ~InLoop

\* A worker that has done the iterations asked for stops, even if the target was
\* set while it waited without a time limit, unless the target is moved.
TargetHonoured == (TargetReached /\ InLoop) ~> (~InLoop \/ ~TargetReached)

\* start() returns or throws, if the start callback does.
StartReturns == \A u \in Users : IsStarting(u) ~> (pc[u] = "idle")
============================================================================
