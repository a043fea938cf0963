----------------------------- MODULE AsioIoPool -----------------------------
(***************************************************************************)
(* sg::net::asio_io_pool: worker threads that run a boost::asio::io_context *)
(* in cycles.  run() claims a cycle and spawns the workers and a monitor    *)
(* thread; the cycle ends when the context is stopped or runs out of work;  *)
(* the monitor then joins the workers, invokes the user's stopped-callback  *)
(* and publishes that the cycle is over.                                    *)
(*                                                                          *)
(* User threads, handlers executing on the workers, and the stopped-        *)
(* callback call the pool.  A program is a sequence of calls one after the  *)
(* other: restart() is <<"stop", "wait", "run">> and the destructor is      *)
(* <<"stop", "wait">>.                                                      *)
(***************************************************************************)
EXTENDS Integers, Sequences

CONSTANTS Users, Workers, Monitor, Nobody,
          Guarded,        \* m_guard_enabled
          UserPrograms,   \* what user threads call
          HandlerPrograms,   \* what handlers on the workers call
          CallbackPrograms,  \* what the stopped-callback calls
          MaxQueue,       \* bound: nobody begins to post with this many handlers queued
          ThreadsMayFail  \* can std::thread creation throw in run()?

Actors == Users \cup Workers \cup {Monitor}
Calls == {"run", "stop", "wait", "post"}

ASSUME PoolAssumption ==
    /\ Users \cap Workers = {} /\ Monitor \notin Users \cup Workers
    /\ Workers # {}
    /\ Nobody \notin Actors
    /\ Guarded \in BOOLEAN /\ ThreadsMayFail \in BOOLEAN
    /\ UserPrograms \cup HandlerPrograms \cup CallbackPrograms \subseteq Seq(Calls)
    /\ MaxQueue \in Nat

VARIABLES
    holder,     \* who holds m_mutex
    active,     \* m_cycle_active
    guard,      \* m_guard holds a work guard
    inCallback, \* m_cb_thread_id is set
    stopped,    \* io_context: stopped()
    queue,      \* io_context: handlers queued and not started
    worker,     \* the threads of m_workers
    monitor,    \* m_cb_thread
    phase,      \* where the thread inside run() is
    todo,       \* per actor: the calls left of its program
    due         \* history: cycles that run() started less callbacks invoked

vars == <<holder, active, guard, inCallback, stopped, queue, worker, monitor,
          phase, todo, due>>
ctxVars == <<stopped, queue, worker>>
cycleVars == <<active, guard, inCallback, monitor, due>>

\* The threads of m_workers that exist, joined or not.
Spawned == {w \in Workers : worker[w] # "none"}

\* io_context: outstanding work, which keeps run() from returning.
Work(q, g, ws) == q > 0 \/ g \/ \E w \in Workers : ws[w] = "handler"

Init ==
    /\ holder = Nobody /\ active = FALSE /\ guard = FALSE /\ inCallback = FALSE
    /\ stopped = FALSE /\ queue = 0 /\ worker = [w \in Workers |-> "none"]
    /\ monitor = "none" /\ phase = "none" /\ todo = [a \in Actors |-> <<>>] /\ due = 0

----------------------------------------------------------------------------
(* The callers *)

Doing(a, c) == todo[a] # <<>> /\ Head(todo[a]) = c
Returns(a) == todo' = [todo EXCEPT ![a] = Tail(@)]
Throws(a) == todo' = [todo EXCEPT ![a] = <<>>]

\* A thread, a handler or the stopped-callback begins a program.
Begin(a) ==
    /\ todo[a] = <<>>
    /\ \E p \in CASE a \in Users   -> UserPrograms
                  [] a \in Workers -> IF worker[a] = "handler" THEN HandlerPrograms ELSE {}
                  [] OTHER         -> IF inCallback THEN CallbackPrograms ELSE {} :
          /\ \A i \in DOMAIN p : p[i] = "post" => queue < MaxQueue
          /\ todo' = [todo EXCEPT ![a] = p]
    /\ UNCHANGED <<holder, cycleVars, ctxVars, phase>>

\* A handler is posted to the context.
Post(a) ==
    /\ Doing(a, "post")
    /\ queue' = queue + 1
    /\ Returns(a)
    /\ UNCHANGED <<holder, cycleVars, stopped, worker, phase>>

\* stop_async(): one critical section.
stop_async(a) ==
    /\ Doing(a, "stop")
    /\ holder = Nobody
    /\ IF active
       THEN guard' = FALSE /\ stopped' = TRUE
       ELSE UNCHANGED <<guard, stopped>>
    /\ Returns(a)
    /\ UNCHANGED <<holder, active, inCallback, monitor, due, queue, worker, phase>>

\* wait_for_stop(): returns at once in the stopped-callback.
wait_for_stop(a) ==
    /\ Doing(a, "wait")
    /\ ~active \/ (a = Monitor /\ inCallback)
    /\ Returns(a)
    /\ UNCHANGED <<holder, cycleVars, ctxVars, phase>>

----------------------------------------------------------------------------
(* run() *)

\* Refused in the stopped-callback.
RunRefused(a) ==
    /\ Doing(a, "run")
    /\ a = Monitor /\ inCallback
    /\ Throws(a)
    /\ UNCHANGED <<holder, cycleVars, ctxVars, phase>>

RunLock(a) ==
    /\ Doing(a, "run")
    /\ ~(a = Monitor /\ inCallback)
    /\ holder = Nobody
    /\ holder' = a /\ phase' = "check"
    /\ UNCHANGED <<cycleVars, ctxVars, todo>>

\* Mutants: a cycle winding down is taken for a healthy one; run() does not wait
\* for the end of a cycle whose context has stopped.
Healthy_active == active
CycleOver_stopped == ~active \/ stopped

\* The cycle in flight is healthy: the context is live.
Healthy == active /\ ~stopped

\* The previous cycle, if any, has been published as over.
CycleOver == ~active

\* Another run() has started the cycle: nothing to do.
RunAlready(a) ==
    /\ holder = a /\ phase = "check"
    /\ Healthy
    /\ holder' = Nobody /\ phase' = "none"
    /\ Returns(a)
    /\ UNCHANGED <<cycleVars, ctxVars>>

\* With no cycle in flight (run() waits for that holding the mutex): restart the
\* context, install the guard, claim the cycle.
StartCycle(a) ==
    /\ holder = a /\ phase = "check"
    /\ CycleOver
    /\ stopped' = FALSE
    /\ guard' = Guarded
    /\ active' = TRUE
    /\ phase' = "spawn"
    /\ UNCHANGED <<holder, inCallback, monitor, due, queue, worker, todo>>

SpawnWorker(a) ==
    /\ holder = a /\ phase = "spawn"
    /\ \E w \in Workers \ Spawned : worker' = [worker EXCEPT ![w] = "new"]
    /\ UNCHANGED <<holder, cycleVars, stopped, queue, phase, todo>>

\* The assignment to m_cb_thread joins the previous monitor, which has published
\* completion; run() returns true.
SpawnMonitor(a) ==
    /\ holder = a /\ phase = "spawn"
    /\ Spawned = Workers
    /\ monitor \in {"none", "done"}
    /\ monitor' = "joining"
    /\ due' = due + 1
    /\ holder' = Nobody /\ phase' = "none"
    /\ Returns(a)
    /\ UNCHANGED <<active, guard, inCallback, ctxVars>>

\* Creating a thread throws: drop the guard, stop the context ...
SpawnFails(a) ==
    /\ ThreadsMayFail
    /\ holder = a /\ phase = "spawn"
    /\ guard' = FALSE /\ stopped' = TRUE
    /\ phase' = "cleanup"
    /\ UNCHANGED <<holder, active, inCallback, monitor, due, queue, worker, todo>>

\* Mutants: the flag is not cleared; the stopped-callback is invoked as well.
Cleanup_keepsFlag(a) ==
    /\ holder = a /\ phase = "cleanup"
    /\ \A w \in Spawned : worker[w] = "exited"
    /\ worker' = [w \in Workers |-> "none"]
    /\ holder' = Nobody /\ phase' = "none"
    /\ Throws(a)
    /\ UNCHANGED <<cycleVars, stopped, queue>>

Cleanup_callsBack(a) ==
    /\ holder = a /\ phase = "cleanup"
    /\ \A w \in Spawned : worker[w] = "exited"
    /\ worker' = [w \in Workers |-> "none"]
    /\ active' = FALSE /\ due' = due - 1
    /\ holder' = Nobody /\ phase' = "none"
    /\ Throws(a)
    /\ UNCHANGED <<guard, inCallback, monitor, stopped, queue>>

\* ... join the workers that did start and rethrow.
Cleanup(a) ==
    /\ holder = a /\ phase = "cleanup"
    /\ \A w \in Spawned : worker[w] = "exited"
    /\ worker' = [w \in Workers |-> "none"]
    /\ active' = FALSE
    /\ holder' = Nobody /\ phase' = "none"
    /\ Throws(a)
    /\ UNCHANGED <<guard, inCallback, monitor, due, stopped, queue>>

run(a) == RunRefused(a) \/ RunLock(a) \/ RunAlready(a) \/ StartCycle(a)
          \/ SpawnWorker(a) \/ SpawnMonitor(a) \/ SpawnFails(a) \/ Cleanup(a)

----------------------------------------------------------------------------
(* The workers: io_context::run() *)

\* Enters run(), which returns at once if the context is stopped or has no work;
\* having no work stops the context.
WorkerEnter(w) ==
    /\ worker[w] = "new"
    /\ worker' = [worker EXCEPT ![w] = IF stopped \/ ~Work(queue, guard, worker)
                                        THEN "exited" ELSE "in"]
    /\ stopped' = (stopped \/ ~Work(queue, guard, worker))
    /\ UNCHANGED <<holder, cycleVars, queue, phase, todo>>

HandlerBegin(w) ==
    /\ worker[w] = "in" /\ ~stopped /\ queue > 0
    /\ queue' = queue - 1
    /\ worker' = [worker EXCEPT ![w] = "handler"]
    /\ UNCHANGED <<holder, cycleVars, stopped, phase, todo>>

\* The handler returns; the last piece of work stops the context.
HandlerEnd(w) ==
    /\ worker[w] = "handler" /\ todo[w] = <<>>
    /\ worker' = [worker EXCEPT ![w] = "in"]
    /\ stopped' = (stopped \/ ~Work(queue, guard, worker'))
    /\ UNCHANGED <<holder, cycleVars, queue, phase, todo>>

WorkerExit(w) ==
    /\ worker[w] = "in" /\ stopped
    /\ worker' = [worker EXCEPT ![w] = "exited"]
    /\ UNCHANGED <<holder, cycleVars, stopped, queue, phase, todo>>

WorkerStep(w) == WorkerEnter(w) \/ HandlerBegin(w) \/ HandlerEnd(w) \/ WorkerExit(w)

----------------------------------------------------------------------------
(* The monitor thread *)

\* Mutant: the callback is invoked without joining the workers.
MonitorJoin_noWait ==
    /\ monitor = "joining"
    /\ stopped
    /\ worker' = [w \in Workers |-> IF worker[w] = "exited" THEN "none" ELSE worker[w]]
    /\ monitor' = "callback" /\ inCallback' = TRUE
    /\ due' = due - 1
    /\ UNCHANGED <<holder, active, guard, stopped, queue, phase, todo>>

\* m_workers.clear() joins the workers; then the stopped-callback is invoked.
MonitorJoin ==
    /\ monitor = "joining"
    /\ \A w \in Workers : worker[w] = "exited"
    /\ worker' = [w \in Workers |-> "none"]
    /\ monitor' = "callback" /\ inCallback' = TRUE
    /\ due' = due - 1
    /\ UNCHANGED <<holder, active, guard, stopped, queue, phase, todo>>

MonitorReturn ==
    /\ monitor = "callback" /\ todo[Monitor] = <<>>
    /\ monitor' = "publish" /\ inCallback' = FALSE
    /\ UNCHANGED <<holder, active, guard, due, ctxVars, phase, todo>>

\* Mutant: publishing takes m_mutex, which run() holds while it waits for it.
MonitorPublish_locks ==
    /\ monitor = "publish" /\ holder = Nobody
    /\ active' = FALSE
    /\ monitor' = "done"
    /\ UNCHANGED <<holder, guard, inCallback, due, ctxVars, phase, todo>>

MonitorPublish ==
    /\ monitor = "publish"
    /\ active' = FALSE
    /\ monitor' = "done"
    /\ UNCHANGED <<holder, guard, inCallback, due, ctxVars, phase, todo>>

MonitorStep == MonitorJoin \/ MonitorReturn \/ MonitorPublish

----------------------------------------------------------------------------
CallStep(a) == Post(a) \/ stop_async(a) \/ wait_for_stop(a) \/ run(a)

Next ==
    \/ \E a \in Actors : Begin(a) \/ CallStep(a)
    \/ \E w \in Workers : WorkerStep(w)
    \/ MonitorStep

Spec == Init /\ [][Next]_vars

\* Threads are scheduled, and the mutex is not denied for ever to a thread that
\* waits for it.  Nobody is obliged to begin a call; handlers and callbacks return.
FairSpec ==
    /\ Spec
    /\ \A a \in Actors : SF_vars(CallStep(a))
    /\ \A w \in Workers : WF_vars(WorkerEnter(w) \/ HandlerBegin(w) \/ WorkerExit(w))
    /\ \A w \in Workers : SF_vars(HandlerEnd(w))
    /\ WF_vars(MonitorJoin \/ MonitorPublish) /\ SF_vars(MonitorReturn)

----------------------------------------------------------------------------
(* Properties *)

\* A claimed cycle always has somebody who will publish its end, the thread
\* starting it or the monitor, and they exist only while it is claimed: otherwise
\* run() and wait_for_stop() would wait for a flag that nobody clears.
CycleHasOwner ==
    active <=> (phase \in {"spawn", "cleanup"} \/ monitor \in {"joining", "callback", "publish"})

\* The stopped-callback runs after the last worker has left, with the context
\* stopped and no restart under way.
CallbackAfterWorkers ==
    inCallback => stopped /\ Spawned = {} /\ phase \notin {"spawn", "cleanup"}

\* Every cycle that run() starts invokes the callback once before it is over; a
\* run() that throws invokes none.
OneCallbackPerCycle == due \in {0, 1} /\ (~active => due = 0)

\* The context is restarted only when no thread of an earlier cycle is left in it.
RestartWhenIdle ==
    [][stopped /\ ~stopped' => Spawned = {} /\ monitor \notin {"joining", "callback"}]_vars

\* A stop that has been requested, or a context out of work, ends the cycle.
StopCompletes == (active /\ stopped) ~> ~active

\* A handler posted before run() is executed, once run() has returned, even when
\* the pool was just running out of work.
NothingStranded ==
    (queue > 0 /\ \A a \in Actors : todo[a] = <<>>)
        ~> (queue = 0 \/ \E a \in Actors : todo[a] # <<>>)
============================================================================
