------------------------------ MODULE TcpServer ------------------------------
(***************************************************************************)
(* sg::net::tcp_server: one listener coroutine per endpoint accepts          *)
(* connections and starts a session for each; stop_async() hands the stop    *)
(* over to a thread of its own, which waits for the listeners, disconnects   *)
(* the sessions, waits for them, stops the I/O pool and publishes the end.   *)
(*                                                                           *)
(* The server is composed with what it uses of its parts.  Of a session:     *)
(* onConnected, then, after a stop, a lost peer or a failed start, one       *)
(* onDisconnected on the session's strand (TcpSession, CallbacksPaired and   *)
(* StopCompletes).  Of the guardless pool: handlers run between run() and    *)
(* its stop, which running out of work brings about too, and the stopped-    *)
(* callback comes once, after the last handler (AsioIoPool,                  *)
(* CallbackAfterWorkers and OneCallbackPerCycle).                            *)
(*                                                                           *)
(* Durations are left out: a listener backing off after a transient error    *)
(* goes on after a while, whether its timer elapses or is cancelled.         *)
(***************************************************************************)
EXTENDS Naturals, FiniteSets

CONSTANTS Users, Listeners, Sessions, Nobody,
          Stoppers,   \* names for the threads that m_stopping_thread holds
          Setups,     \* who takes part and what may happen, see below
          MaxStarts   \* bound: start() calls that get past m_running

Actors == Users \cup Listeners \cup Sessions

\* "early": connections and errors arrive while start() is still inside run();
\* "run_fails": creating the pool's threads may fail after some have started;
\* "stop_after_failure": a stop_async() comes after a start() that threw, and
\* before the next one.
Circumstances == {"early", "run_fails", "stop_after_failure"}

ASSUME ServerAssumption ==
    /\ Nobody \notin Actors
    /\ Users \cap Listeners = {} /\ Users \cap Sessions = {} /\ Listeners \cap Sessions = {}
    \* start() refuses an empty list of endpoints
    /\ Setups \subseteq [users : SUBSET Users, listeners : (SUBSET Listeners) \ {{}},
                        may : SUBSET Circumstances]
    /\ MaxStarts \in Nat
    /\ IsFiniteSet(Listeners) /\ Listeners # {} /\ Stoppers # {}

VARIABLES
    setup,      \* the element of Setups that this behaviour is about
    running,    \* m_running
    stopping,   \* m_stop_in_operation
    holder,     \* who holds m_mutex_start_stop
    error,      \* m_last_error: the listener whose error it is, or Nobody
    count,      \* m_acceptors_running_count
    active,     \* m_active_sessions
    registered, \* m_sessions
    pool,       \* m_context
    listener,   \* the listener coroutines
    conn,       \* the connection each listener has accepted
    posted,     \* close handlers on the acceptors' strands
    closed,     \* acceptors that have been closed
    sess,       \* the sessions
    call,       \* per actor: where it is in a call of the server
    stopper,    \* the stopping threads
    starts,     \* history: start() calls so far
    failed,     \* history: the last start() threw
    blame       \* history: the failed listener that began the stop of this run, or Nobody

coreVars == <<running, stopping, holder, error>>
netVars == <<listener, conn, posted, closed>>
sessVars == <<sess, registered, active>>
history == <<starts, failed, blame>>
vars == <<setup, coreVars, netVars, sessVars, count, pool, call, stopper, history>>

Init ==
    /\ setup \in Setups
    /\ running = FALSE /\ stopping = TRUE /\ holder = Nobody /\ error = Nobody
    /\ count = 0 /\ active = 0 /\ registered = {} /\ pool = "none"
    /\ listener = [l \in Listeners |-> "none"] /\ conn = [l \in Listeners |-> Nobody]
    /\ posted = {} /\ closed = {} /\ sess = [s \in Sessions |-> "none"]
    /\ call = [a \in Actors |-> "none"] /\ stopper = [t \in Stoppers |-> "done"]
    /\ starts = 0 /\ failed = FALSE /\ blame = Nobody

Goes(a, c) == call' = [call EXCEPT ![a] = c]
Listens(l, c) == listener' = [listener EXCEPT ![l] = c]
Becomes(s, c) == sess' = [sess EXCEPT ![s] = c]

\* A handler of the listener, or of the session, is on a worker; user code of
\* the first kind may call the server.
InListenerCallback(l) == listener[l] \in {"filter", "created", "accept_error"}
Executing ==
    \/ \E l \in Listeners : listener[l] = "exit" \/ InListenerCallback(l)
    \/ \E s \in Sessions : sess[s] \in {"callback", "release"} \/ call[s] # "none"

\* What keeps the guardless pool from running out of work.
Work == \/ \E l \in Listeners : listener[l] \notin {"none", "done"}
        \/ posted # {}
        \/ \E s \in Sessions : sess[s] \notin {"none", "gone"}

----------------------------------------------------------------------------
(* start() *)

\* m_running.exchange(true); a server that is running throws.
StartClaim(u) ==
    /\ call[u] = "none" /\ ~running /\ starts < MaxStarts
    /\ running' = TRUE
    /\ starts' = starts + 1
    /\ Goes(u, "start_lock")
    /\ UNCHANGED <<setup, stopping, holder, error, netVars, sessVars, count, pool, stopper,
                   failed, blame>>

\* Takes the mutex, clears what the last run left and makes a new pool.
StartReset(u) ==
    /\ call[u] = "start_lock" /\ holder = Nobody
    /\ holder' = u
    /\ stopping' = FALSE /\ error' = Nobody /\ blame' = Nobody /\ failed' = FALSE
    /\ listener' = [l \in Listeners |-> "none"] /\ posted' = {} /\ closed' = {}
    /\ pool' = "idle"
    /\ Goes(u, "start_bind")
    /\ UNCHANGED <<setup, running, conn, sessVars, count, stopper, starts>>

\* bind_acceptors(), the co_spawns and OnStartedListening; either of the first
\* and the last may throw.
StartBind(u) ==
    /\ call[u] = "start_bind"
    /\ \/ /\ listener' = [l \in Listeners |-> IF l \in setup.listeners THEN "spawned" ELSE "done"]
          /\ count' = Cardinality(setup.listeners)
          /\ call' \in {[call EXCEPT ![u] = c] : c \in {"start_run", "start_catch"}}
       \/ Goes(u, "start_catch") /\ UNCHANGED <<listener, count>>
    /\ UNCHANGED <<setup, coreVars, conn, posted, closed, sessVars, pool, stopper, history>>

\* m_context->run() has created the first thread.
StartRun(u) ==
    /\ call[u] = "start_run"
    /\ pool' = "run"
    /\ Goes(u, "start_running")
    /\ UNCHANGED <<setup, coreVars, netVars, sessVars, count, stopper, history>>

\* Mutant: the last run's error is cleared after run() instead of before it.
StartReturn_clears(u) ==
    /\ call[u] = "start_running"
    /\ \/ /\ holder' = Nobody /\ error' = Nobody
          /\ Goes(u, "none")
          /\ UNCHANGED pool
       \/ /\ "run_fails" \in setup.may /\ pool = "run"
          /\ pool' = "failing"
          /\ Goes(u, "start_join")
          /\ UNCHANGED <<holder, error>>
    /\ UNCHANGED <<setup, running, stopping, netVars, sessVars, count, stopper, history>>

\* run() and start() return, or another thread cannot be created: the context is
\* stopped and the workers are joined.
StartReturn(u) ==
    /\ call[u] = "start_running"
    /\ \/ /\ holder' = Nobody
          /\ Goes(u, "none")
          /\ UNCHANGED pool
       \/ /\ "run_fails" \in setup.may /\ pool = "run"
          /\ pool' = "failing"
          /\ Goes(u, "start_join")
          /\ UNCHANGED holder
    /\ UNCHANGED <<setup, running, stopping, error, netVars, sessVars, count, stopper, history>>

StartJoin(u) ==
    /\ call[u] = "start_join" /\ ~Executing
    /\ Goes(u, "start_catch")
    /\ UNCHANGED <<setup, coreVars, netVars, sessVars, count, pool, stopper, history>>

\* catch: the acceptors and the pool go, and with it what was queued on it.
StartCatch(u) ==
    /\ call[u] = "start_catch"
    /\ listener' = [l \in Listeners |-> "none"] /\ posted' = {} /\ closed' = {}
    /\ pool' = "none" /\ count' = 0
    /\ running' = FALSE /\ holder' = Nobody /\ failed' = TRUE
    /\ Goes(u, "none")
    /\ UNCHANGED <<setup, stopping, error, conn, sessVars, stopper, starts, blame>>

start(u) == StartReset(u) \/ StartBind(u) \/ StartRun(u) \/ StartReturn(u) \/ StartJoin(u)
            \/ StartCatch(u)

----------------------------------------------------------------------------
(* stop_async(), future_get_once() and disconnect() *)

\* User threads and callbacks on the strand of a listener or a session call
\* stop_async().  (On a strand, and in OnStoppedListening, a call that finds the
\* stop under way returns at once and is left out.)
MayCall(a) ==
    /\ call[a] = "none"
    /\ CASE a \in Users     -> a \in setup.users
         [] a \in Listeners -> ~stopping /\ InListenerCallback(a)
         [] OTHER           -> ~stopping /\ sess[a] \in {"live", "callback"} /\ pool = "run"

StopCall(a) ==
    /\ MayCall(a)
    /\ Goes(a, "stop")
    /\ UNCHANGED <<setup, coreVars, netVars, sessVars, count, pool, stopper, history>>

Idle == {t \in Stoppers : stopper[t] = "done"}

\* The first stop_async() of a run creates the stopping thread; m_stopping_thread
\* then joins the previous one, with the mutex held.
stop_async(a) ==
    /\ call[a] = "stop" /\ holder = Nobody
    /\ failed => "stop_after_failure" \in setup.may
    /\ stopping' = TRUE
    /\ IF stopping
       THEN Goes(a, "none") /\ UNCHANGED <<holder, stopper, blame>>
       ELSE /\ Idle # {}
            /\ stopper' = [stopper EXCEPT ![CHOOSE t \in Idle : TRUE] = "close"]
            /\ holder' = a
            /\ Goes(a, "stop_join")
            /\ blame' = IF a \in Listeners /\ listener[a] = "exit" THEN a ELSE Nobody
    /\ UNCHANGED <<setup, running, error, netVars, sessVars, count, pool, starts, failed>>

StopJoin(a) ==
    /\ call[a] = "stop_join"
    /\ Cardinality(Stoppers \ Idle) <= 1
    /\ holder' = Nobody
    /\ Goes(a, "none")
    /\ UNCHANGED <<setup, running, stopping, error, netVars, sessVars, count, pool, stopper,
                   history>>

\* Mutants: the end is published before the pool is over; the pool is stopped
\* without waiting for the sessions.
PoolOver_early == TRUE
SessionsOver_early == TRUE

PoolOver == pool \notin {"run", "stop", "callback", "failing"}
SessionsOver == active = 0
ListenersOver == count = 0

\* future_get_once(): waits for the pool, and then for m_running.
future_get_once(u) ==
    /\ \/ call[u] = "none" /\ pool # "none" /\ Goes(u, "wait_pool")
       \/ call[u] = "wait_pool" /\ PoolOver /\ Goes(u, "wait_running")
       \/ call[u] = "wait_running" /\ ~running /\ Goes(u, "none")
    /\ UNCHANGED <<setup, coreVars, netVars, sessVars, count, pool, stopper, history>>

\* The sessions that are told to stop begin to.
Stopped(S) == [s \in Sessions |-> IF s \in S /\ sess[s] = "live" THEN "stopping" ELSE sess[s]]

\* disconnect(id) by a user, or in OnSessionCreated.
disconnect(s) ==
    /\ s \in registered
    /\ sess' = Stopped({s})
    /\ UNCHANGED <<setup, coreVars, netVars, registered, active, count, pool, call, stopper,
                   history>>

----------------------------------------------------------------------------
(* The stopping thread *)

\* Mutant: the acceptors are left open.
ToClose_none == {}

\* The acceptors of this run.
ToClose == {l \in setup.listeners : listener[l] # "none"}

StopperGoes(t, from, to) == stopper[t] = from /\ stopper' = [stopper EXCEPT ![t] = to]

\* Closes the acceptors, on their strands if the pool runs.
StopperClose(t) ==
    /\ StopperGoes(t, "close", "check")
    /\ IF pool = "run" THEN posted' = ToClose /\ UNCHANGED closed
                       ELSE closed' = ToClose /\ UNCHANGED posted
    /\ UNCHANGED <<setup, coreVars, listener, conn, sessVars, count, pool, call, history>>

\* Mutant: the count is reset while the listeners run.
StopperCheck_resets(t) ==
    /\ StopperGoes(t, "check", IF pool = "run" THEN "listeners" ELSE "disconnect")
    /\ count' = 0
    /\ UNCHANGED <<setup, coreVars, netVars, sessVars, pool, call, history>>

\* Only a running pool's listeners are waited for.
StopperCheck(t) ==
    /\ \/ pool = "run" /\ StopperGoes(t, "check", "listeners") /\ UNCHANGED count
       \/ pool # "run" /\ StopperGoes(t, "check", "disconnect") /\ count' = 0
    /\ UNCHANGED <<setup, coreVars, netVars, sessVars, pool, call, history>>

StopperListeners(t) ==
    /\ ListenersOver /\ StopperGoes(t, "listeners", "disconnect")
    /\ UNCHANGED <<setup, coreVars, netVars, sessVars, count, pool, call, history>>

\* disconnect_all()
StopperDisconnect(t) ==
    /\ StopperGoes(t, "disconnect", "sessions")
    /\ sess' = Stopped(registered)
    /\ UNCHANGED <<setup, coreVars, netVars, registered, active, count, pool, call, history>>

\* All sessions have ended: m_context->stop_async().
StopperPool(t) ==
    /\ SessionsOver /\ StopperGoes(t, "sessions", "pool")
    /\ pool' = IF pool = "run" THEN "stop" ELSE pool
    /\ UNCHANGED <<setup, coreVars, netVars, sessVars, count, call, history>>

\* The pool has stopped: m_running.store(false).
StopperPublish(t) ==
    /\ PoolOver /\ StopperGoes(t, "pool", "done")
    /\ running' = FALSE
    /\ UNCHANGED <<setup, stopping, holder, error, netVars, sessVars, count, pool, call, history>>

StopperStep(t) == StopperClose(t) \/ StopperCheck(t) \/ StopperListeners(t)
                  \/ StopperDisconnect(t) \/ StopperPool(t) \/ StopperPublish(t)

----------------------------------------------------------------------------
(* listener(), on the strand of its acceptor *)

ListenerRest == <<setup, running, stopping, holder, pool, stopper, history>>

\* The loop condition; async_accept suspends the coroutine.
Loop(l) == Listens(l, IF stopping THEN "exit" ELSE "accept")

\* The coroutine starts, or its retry timer elapses or is cancelled.
ListenerResume(l) ==
    /\ pool = "run" /\ listener[l] \in {"spawned", "backoff"}
    /\ Loop(l)
    /\ UNCHANGED <<ListenerRest, error, conn, posted, closed, sessVars, count, call>>

\* The posted close runs while the coroutine is suspended or over.
CloseAcceptor(l) ==
    /\ pool = "run" /\ l \in posted
    /\ listener[l] \in {"spawned", "accept", "backoff", "done"}
    /\ posted' = posted \ {l} /\ closed' = closed \cup {l}
    /\ UNCHANGED <<ListenerRest, error, listener, conn, sessVars, count, call>>

\* Can the accept of a listener complete by something from outside?
Arrival(l) ==
    /\ pool = "run" /\ listener[l] = "accept"
    /\ "early" \in setup.may \/ \A u \in Users : call[u] # "start_running"

\* A connection is accepted, and dropped if the server is stopping.
Accepted(l) ==
    /\ Arrival(l)
    /\ \/ stopping /\ Loop(l) /\ UNCHANGED <<sess, conn>>
       \/ /\ ~stopping
          /\ \E s \in Sessions : sess[s] = "none" /\ Becomes(s, "accepted")
                                 /\ conn' = [conn EXCEPT ![l] = s]
          /\ Listens(l, "filter")
    /\ UNCHANGED <<ListenerRest, error, posted, closed, registered, active, count, call>>

record_error(l) == error' = IF error = Nobody THEN l ELSE error

\* An error that is fatal to the acceptor is recorded; operation_aborted, after a
\* close, is not.  Then the listener stops the server and leaves the loop.
AcceptFails(l) ==
    /\ \/ pool = "run" /\ listener[l] = "accept" /\ l \in closed /\ UNCHANGED error
       \/ Arrival(l) /\ record_error(l)
    /\ Listens(l, "exit")
    /\ Goes(l, "stop")
    /\ UNCHANGED <<ListenerRest, conn, posted, closed, sessVars, count>>

\* A transient error: unless stopping, OnAcceptError may be called ...
AcceptTransient(l) ==
    /\ Arrival(l)
    /\ IF stopping THEN Loop(l) ELSE Listens(l, "accept_error")
    /\ UNCHANGED <<ListenerRest, error, conn, posted, closed, sessVars, count, call>>

\* ... and the timer is waited for.
BackOff(l) ==
    /\ listener[l] = "accept_error" /\ call[l] = "none"
    /\ Listens(l, "backoff")
    /\ UNCHANGED <<ListenerRest, error, conn, posted, closed, sessVars, count, call>>

\* ShouldAccept returns: the connection is dropped, as it is when the filter
\* throws or the session cannot be set up; or onConnected counts and registers it
\* and OnSessionCreated is called.
ListenerConnect(l) ==
    /\ listener[l] = "filter" /\ call[l] = "none"
    /\ \/ /\ Loop(l)
          /\ Becomes(conn[l], "gone") /\ conn' = [conn EXCEPT ![l] = Nobody]
          /\ UNCHANGED <<registered, active>>
       \/ /\ Listens(l, "created")
          /\ Becomes(conn[l], "live")
          /\ registered' = registered \cup {conn[l]} /\ active' = active + 1
          /\ UNCHANGED conn
    /\ UNCHANGED <<ListenerRest, error, posted, closed, count, call>>

\* OnSessionCreated returns and the reader starts, or it throws and the session
\* is stopped.
ListenerCreated(l) ==
    /\ listener[l] = "created" /\ call[l] = "none"
    /\ Loop(l) /\ conn' = [conn EXCEPT ![l] = Nobody]
    /\ sess' \in {sess, Stopped({conn[l]})}
    /\ UNCHANGED <<ListenerRest, error, posted, closed, registered, active, count, call>>

\* The end of the coroutine, after its stop_async() if it called one.
ListenerExit(l) ==
    /\ listener[l] = "exit" /\ call[l] = "none"
    /\ Listens(l, "done") /\ count' = count - 1
    /\ UNCHANGED <<ListenerRest, error, conn, posted, closed, sessVars, call>>

ListenerStep(l) == ListenerResume(l) \/ CloseAcceptor(l) \/ BackOff(l)
                   \/ ListenerConnect(l) \/ ListenerCreated(l) \/ ListenerExit(l)

----------------------------------------------------------------------------
(* The sessions, and the pool *)

SessionRest == <<setup, coreVars, netVars, count, pool, call, stopper, history>>

\* The peer leaves; the reader, spawned when start() returned, notices.
PeerLeaves(s) ==
    /\ pool = "run" /\ sess[s] = "live" /\ \A l \in Listeners : conn[l] # s
    /\ sess' = Stopped({s})
    /\ UNCHANGED <<SessionRest, registered, active>>

\* on_session_stopped(): OnDisconnected ...
SessionDisconnected(s) ==
    /\ pool = "run" /\ sess[s] = "stopping" /\ call[s] = "none"
    /\ Becomes(s, "callback")
    /\ UNCHANGED <<SessionRest, registered, active>>

\* ... returns or throws; the session is erased ...
SessionErase(s) ==
    /\ sess[s] = "callback" /\ call[s] = "none"
    /\ Becomes(s, "release") /\ registered' = registered \ {s}
    /\ UNCHANGED <<SessionRest, active>>

\* ... and no longer counted.
SessionRelease(s) ==
    /\ sess[s] = "release"
    /\ Becomes(s, "gone") /\ active' = active - 1
    /\ UNCHANGED <<SessionRest, registered>>

SessionStep(s) == SessionDisconnected(s) \/ SessionErase(s) \/ SessionRelease(s)

\* The pool runs out of work; its workers leave and OnStoppedListening is called
\* (with m_last_error); the callback returns and the cycle is over.
PoolStep ==
    /\ \/ pool = "run" /\ ~Work /\ pool' = "stop"
       \/ pool = "stop" /\ ~Executing /\ pool' = "callback"
       \/ pool = "callback" /\ pool' = "over"
    /\ UNCHANGED <<setup, coreVars, netVars, sessVars, count, call, stopper, history>>

----------------------------------------------------------------------------
Next ==
    \/ \E u \in setup.users : StartClaim(u) \/ start(u) \/ future_get_once(u)
    \/ \E a \in Actors : StopCall(a) \/ stop_async(a) \/ StopJoin(a)
    \/ \E t \in Stoppers : StopperStep(t)
    \/ \E l \in Listeners : ListenerStep(l) \/ Accepted(l) \/ AcceptFails(l) \/ AcceptTransient(l)
    \/ \E s \in Sessions : SessionStep(s) \/ PeerLeaves(s) \/ disconnect(s)
    \/ PoolStep

Spec == Init /\ [][Next]_vars

\* Threads and strands are scheduled, callbacks return, sessions that are told
\* to stop do (their writes have a timeout), an accept on a closed acceptor
\* completes, and the mutex is handed on in the end.  Nobody has to call anything
\* and no peer has to connect.
Fairness ==
    /\ \A u \in Users : WF_vars(start(u))
    /\ \A a \in Actors : WF_vars(stop_async(a) \/ StopJoin(a))
    /\ \A t \in Stoppers : WF_vars(StopperStep(t))
    /\ \A l \in Listeners : WF_vars(ListenerStep(l)) /\ WF_vars(l \in closed /\ AcceptFails(l))
    /\ \A s \in Sessions : WF_vars(SessionStep(s))
    /\ WF_vars(PoolStep)
FairSpec == Spec /\ Fairness

----------------------------------------------------------------------------
(* Properties *)

\* The type invariant; the counters are size_t and would wrap below 0.
TypeOK ==
    /\ setup \in Setups /\ running \in BOOLEAN /\ stopping \in BOOLEAN
    /\ holder \in Actors \cup {Nobody} /\ error \in Listeners \cup {Nobody}
    /\ count \in 0..Cardinality(Listeners) /\ active \in Nat /\ registered \subseteq Sessions
    /\ pool \in {"none", "idle", "run", "failing", "stop", "callback", "over"}
    /\ listener \in [Listeners -> {"none", "spawned", "accept", "filter", "created",
                                   "accept_error", "backoff", "exit", "done"}]
    /\ conn \in [Listeners -> Sessions \cup {Nobody}]
    /\ posted \subseteq Listeners /\ closed \subseteq Listeners
    /\ sess \in [Sessions -> {"none", "accepted", "live", "stopping", "callback", "release",
                              "gone"}]
    /\ call \in [Actors -> {"none", "start_lock", "start_bind", "start_run", "start_running",
                            "start_join", "start_catch", "stop", "stop_join", "wait_pool",
                            "wait_running"}]
    /\ stopper \in [Stoppers -> {"close", "check", "listeners", "disconnect", "sessions", "pool",
                                 "done"}]
    /\ starts \in 0..MaxStarts /\ failed \in BOOLEAN /\ blame \in Listeners \cup {Nobody}

\* The server's two numbers are right at every moment at which somebody relies on
\* them: the listeners still to exit, and the sessions onConnected was called for
\* whose teardown is not complete.
CountsExact ==
    /\ pool \in {"run", "stop"} =>
          count = Cardinality({l \in Listeners : listener[l] # "done"})
    /\ active = Cardinality({s \in Sessions : sess[s] \in {"live", "stopping", "callback", "release"}})

\* OnStoppedListening comes last: every listener has left, every session's
\* OnDisconnected has returned and its entry is gone, and a new start() is still
\* refused.
StoppedIsLast ==
    pool = "callback" =>
        /\ running /\ stopping
        /\ \A l \in Listeners : listener[l] = "done"
        /\ \A s \in Sessions : sess[s] \in {"none", "gone"}
        /\ registered = {}

\* is_stopped() never holds while the pool can still run a handler or a callback.
StoppedMeansStopped == ~running => pool \in {"none", "over"} /\ registered = {}

\* start() asserts that the last run was wound up: no session is active and no
\* listener is counted when it claims the server.
StartAsserts == [][~running /\ running' => active = 0 /\ count = 0]_vars

\* A server that a listener's failure has brought down is never reported as one
\* that stopped cleanly: when the stop was begun by the stop_async() of a listener
\* whose accept failed, OnStoppedListening is told an error, even if the failure
\* came while start() was still in run() or another thread was about to stop the
\* server itself.
FailureReported == pool = "callback" /\ blame # Nobody => error # Nobody

\* A stop completes and the server becomes startable again: from the moment a user,
\* a callback or a failed listener has called stop_async() of a server that is not
\* stopping, though the call may have to wait for a start() that is in run(), or
\* from the moment a stopping thread exists.  A call on a pool thread has returned
\* by then, or its listener or session could not have ended.
StopCompletes ==
    (\/ ~stopping /\ \E a \in Actors : call[a] = "stop"
     \/ \E t \in Stoppers : stopper[t] # "done")
    ~> (~running /\ \A t \in Stoppers : stopper[t] = "done")
==============================================================================
