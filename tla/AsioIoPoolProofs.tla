-------------------------- MODULE AsioIoPoolProofs --------------------------
(***************************************************************************)
(* Proofs about AsioIoPool, for any numbers of threads and workers and any  *)
(* programs that call the pool.                                             *)
(***************************************************************************)
EXTENDS AsioIoPool, TLAPS

WorkerStates == {"none", "new", "in", "handler", "exited"}
MonitorStates == {"none", "joining", "callback", "publish", "done"}
Phases == {"none", "check", "spawn", "cleanup"}

\* The types the argument needs.
ThreadTypes ==
    /\ worker \in [Workers -> WorkerStates]
    /\ monitor \in MonitorStates /\ phase \in Phases
    /\ active \in BOOLEAN /\ stopped \in BOOLEAN /\ inCallback \in BOOLEAN
    /\ due \in Int

\* A thread is starting a cycle, or the monitor is ending one.
Starting == phase \in {"spawn", "cleanup"}
Ending == monitor \in {"joining", "callback", "publish"}

\* Only the thread that holds the mutex is inside run().
LockInv == phase = "none" <=> holder = Nobody

\* The starting thread and the monitor never overlap, and between them they own
\* every worker: the monitor all of them until it has joined them.
WorkersInv ==
    /\ active <=> Starting \/ Ending
    /\ ~(Starting /\ Ending)
    /\ monitor = "joining" => Spawned = Workers
    /\ ~Starting /\ monitor # "joining" => Spawned = {}

\* Workers leave only a stopped context, which stays stopped to the end of the cycle.
StoppedInv ==
    /\ \A w \in Workers : worker[w] = "exited" => stopped
    /\ monitor \in {"callback", "publish"} => stopped
    /\ inCallback <=> monitor = "callback"

\* The callback is due exactly while the monitor waits for the workers.
DueInv == due = (IF monitor = "joining" THEN 1 ELSE 0)

IInv == ThreadTypes /\ LockInv /\ WorkersInv /\ StoppedInv /\ DueInv

USE PoolAssumption DEF Actors, WorkerStates, MonitorStates, Phases, cycleVars, ctxVars

\* A new pool has no cycle and no threads.
LEMMA InvInit == Init => IInv
<1> SUFFICES ASSUME Init PROVE IInv
  OBVIOUS
<1>1. ThreadTypes
  <2>1. worker \in [Workers -> WorkerStates]
    BY DEF Init
  <2>2. active \in BOOLEAN /\ stopped \in BOOLEAN /\ inCallback \in BOOLEAN
    BY DEF Init
  <2> QED BY <2>1, <2>2 DEF Init, ThreadTypes
<1>2. Spawned = {}
  BY DEF Init, Spawned
<1>3. WorkersInv /\ LockInv /\ DueInv
  BY <1>2 DEF Init, WorkersInv, LockInv, DueInv, Starting, Ending
<1>4. StoppedInv
  BY DEF Init, StoppedInv
<1> QED
  BY <1>1, <1>3, <1>4 DEF IInv

\* One step per action: each keeps the ownership of the workers intact.
LEMMA InvStep ==
  ASSUME IInv, [Next]_vars
  PROVE  IInv'
<1> USE DEF IInv, ThreadTypes, LockInv, WorkersInv, StoppedInv, DueInv, Starting,
            Ending, Spawned
<1>1. CASE UNCHANGED vars
  BY <1>1 DEF vars
<1>2. ASSUME NEW a \in Actors, Begin(a) PROVE IInv'
  BY <1>2 DEF Begin
<1>3. ASSUME NEW a \in Actors, Post(a) PROVE IInv'
  BY <1>3 DEF Post
<1>4. ASSUME NEW a \in Actors, stop_async(a) PROVE IInv'
  BY <1>4 DEF stop_async
<1>5. ASSUME NEW a \in Actors, wait_for_stop(a) PROVE IInv'
  BY <1>5 DEF wait_for_stop
<1>6. ASSUME NEW a \in Actors, run(a) PROVE IInv'
  <2>1. CASE RunRefused(a)   BY <2>1 DEF RunRefused
  <2>2. CASE RunLock(a)      BY <2>2 DEF RunLock
  <2>3. CASE RunAlready(a)   BY <2>3 DEF RunAlready
  <2>4. CASE StartCycle(a)   BY <2>4 DEF StartCycle, CycleOver
  <2>5. CASE SpawnWorker(a)  BY <2>5 DEF SpawnWorker
  <2>6. CASE SpawnMonitor(a) BY <2>6 DEF SpawnMonitor
  <2>7. CASE SpawnFails(a)   BY <2>7 DEF SpawnFails
  <2>8. CASE Cleanup(a)      BY <2>8 DEF Cleanup
  <2> QED
    BY <1>6, <2>1, <2>2, <2>3, <2>4, <2>5, <2>6, <2>7, <2>8 DEF run
<1>7. ASSUME NEW w \in Workers, WorkerStep(w) PROVE IInv'
  <2>1. CASE WorkerEnter(w)  BY <2>1 DEF WorkerEnter
  <2>2. CASE HandlerBegin(w) BY <2>2 DEF HandlerBegin
  <2>3. CASE HandlerEnd(w)   BY <2>3 DEF HandlerEnd
  <2>4. CASE WorkerExit(w)   BY <2>4 DEF WorkerExit
  <2> QED
    BY <1>7, <2>1, <2>2, <2>3, <2>4 DEF WorkerStep
<1>8. CASE MonitorStep
  <2>1. CASE MonitorJoin     BY <2>1 DEF MonitorJoin
  <2>2. CASE MonitorReturn   BY <2>2 DEF MonitorReturn
  <2>3. CASE MonitorPublish  BY <2>3 DEF MonitorPublish
  <2> QED
    BY <1>8, <2>1, <2>2, <2>3 DEF MonitorStep
<1> QED
  BY <1>1, <1>2, <1>3, <1>4, <1>5, <1>6, <1>7, <1>8 DEF Next, CallStep

\* The inductive invariant holds throughout: who owns the workers, the mutex and
\* the cycle in each phase of run() and of the monitor.
THEOREM Invariance == Spec => []IInv
  BY InvInit, InvStep, PTL DEF Spec

\* A claimed cycle always has an owner that will publish its end.
THEOREM CycleOwnership == Spec => []CycleHasOwner
<1>1. IInv => CycleHasOwner
  BY DEF IInv, WorkersInv, CycleHasOwner, Starting, Ending
<1> QED BY <1>1, Invariance, PTL

\* The stopped-callback never overlaps a worker or a restart.
THEOREM CallbackIsLast == Spec => []CallbackAfterWorkers
<1>1. IInv => CallbackAfterWorkers
  BY DEF IInv, WorkersInv, StoppedInv, CallbackAfterWorkers, Starting, Ending
<1> QED BY <1>1, Invariance, PTL

\* One invocation of the stopped-callback per cycle.
THEOREM CallbackOnce == Spec => []OneCallbackPerCycle
<1>1. IInv => OneCallbackPerCycle
  BY DEF IInv, WorkersInv, DueInv, OneCallbackPerCycle, Starting, Ending
<1> QED BY <1>1, Invariance, PTL

\* The context is restarted only when nothing of an earlier cycle is left in it.
THEOREM RestartIsExclusive == Spec => RestartWhenIdle
<1> DEFINE A == stopped /\ ~stopped' => Spawned = {} /\ monitor \notin {"joining", "callback"}
<1>1. ASSUME IInv, [Next]_vars PROVE A
  <2> SUFFICES ASSUME stopped, ~stopped' PROVE \E a \in Actors : StartCycle(a)
    BY <1>1 DEF IInv, WorkersInv, StartCycle, CycleOver, Starting, Ending
  <2>1. ~UNCHANGED vars
    BY DEF vars
  <2>2. \A a \in Actors : ~(Begin(a) \/ Post(a) \/ stop_async(a) \/ wait_for_stop(a))
    BY DEF Begin, Post, stop_async, wait_for_stop
  <2>3. \A a \in Actors : ~(RunRefused(a) \/ RunLock(a) \/ RunAlready(a) \/ SpawnWorker(a)
                            \/ SpawnMonitor(a) \/ SpawnFails(a) \/ Cleanup(a))
    BY DEF RunRefused, RunLock, RunAlready, SpawnWorker, SpawnMonitor, SpawnFails, Cleanup
  <2>4. \A w \in Workers : ~WorkerStep(w)
    BY DEF WorkerStep, WorkerEnter, HandlerBegin, HandlerEnd, WorkerExit
  <2>5. ~MonitorStep
    BY DEF MonitorStep, MonitorJoin, MonitorReturn, MonitorPublish
  <2> QED
    BY <1>1, <2>1, <2>2, <2>3, <2>4, <2>5, Zenon DEF Next, CallStep, run
<1>2. IInv /\ [Next]_vars => [A]_vars
  BY <1>1
<1>3. RestartWhenIdle <=> [][A]_vars
  BY PTL DEF RestartWhenIdle
<1> QED BY <1>2, <1>3, Invariance, PTL DEF Spec
=============================================================================
