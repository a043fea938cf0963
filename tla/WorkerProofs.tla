---------------------------- MODULE WorkerProofs ----------------------------
(***************************************************************************)
(* The thread handle, the state and the stop flag of sg::worker, for any      *)
(* number of threads, when the start callback does not throw.  When it does,  *)
(* a failed start() of one thread and a start() of another break all three.  *)
(***************************************************************************)
EXTENDS Worker, TLAPS

\* The start callback never throws.
NoThrow == \A s \in Setups : ~s.throws

\* Threads that have claimed the worker and whose run has not begun.
Early(u) == pc[u] \in {"start_join", "start_reset", "start_thread", "start_catch"}
Claiming(u) == Early(u) \/ (pc[u] = "start_wait" /\ promise[u] = "pending")

Working == thread \in {"on_start", "check", "tick", "wait", "wait_forever"}

ControlInv ==
    /\ ~setup.throws
    /\ state \in {"running", "stopped"} /\ stopFlag \in BOOLEAN /\ asked \in BOOLEAN
    /\ pc \in [Users -> {"idle", "wait_join", "start_join", "start_reset", "start_thread",
                         "start_wait", "start_catch", "after", "notify"}]
    /\ promise \in [Users -> {"none", "pending", "kept"}]
    /\ thread \in {"none", "on_start", "check", "tick", "wait", "wait_forever", "on_stop",
                  "done"}
    /\ setup \in Setups /\ Nobody \notin Users

\* Who holds m_join_mutex is joining.
JoinInv == \A u \in Users : joiner = u => pc[u] \in {"start_join", "wait_join"}

\* One claim at a time, of a worker that reports to be running; until it has
\* created the thread there is none that works, and once it has joined there is
\* none at all.
ClaimInv ==
    /\ \A u \in Users, v \in Users : Claiming(u) /\ Claiming(v) => u = v
    /\ \A u \in Users : Claiming(u) => state = "running"
    /\ \A u \in Users : Early(u) => ~Working
    /\ \A u \in Users : pc[u] \in {"start_reset", "start_thread", "start_catch"} => thread = "none"
    /\ \A u \in Users : pc[u] = "start_wait" =>
          promise[u] = "kept" \/ (promise[u] = "pending" /\ thread = "on_start" /\ owner = u)

StateInv ==
    /\ Working => state = "running"
    /\ state = "running" /\ ~setup.restarts => Working \/ \E u \in Users : Claiming(u)

\* From the reset on, the flag is only set by a stop that counts for this run.
FlagInv ==
    stopFlag /\ (Working \/ \E u \in Users : pc[u] = "start_thread") => asked

IInv == ControlInv /\ JoinInv /\ ClaimInv /\ StateInv /\ FlagInv /\ ~crashed

\* A new worker satisfies the invariant.
LEMMA WorkerInit == NoThrow /\ Init => IInv
<1> SUFFICES ASSUME NoThrow, Init PROVE IInv
  OBVIOUS
<1>1. ControlInv
  BY WorkerAssumption DEF NoThrow, Init, ControlInv
<1>2. JoinInv /\ ClaimInv
  BY WorkerAssumption DEF Init, JoinInv, ClaimInv, Claiming, Early
<1>3. StateInv /\ FlagInv /\ ~crashed
  BY DEF Init, StateInv, FlagInv, Working
<1> QED
  BY <1>1, <1>2, <1>3 DEF IInv

\* Every step of a caller, a callback and action() keeps it.
LEMMA WorkerStep == IInv /\ [Next]_vars => IInv'
<1> SUFFICES ASSUME IInv, [Next]_vars PROVE IInv'
  OBVIOUS
<1> USE DEF IInv, ControlInv, Claiming, Early, Working, world, userVars, Goto
<1>1. ASSUME NEW u \in Users, StartClaim(u) PROVE IInv'
  <2>1. ControlInv'
    BY <1>1 DEF StartClaim
  <2>2. JoinInv'
    BY <1>1 DEF StartClaim, JoinInv
  <2>3. ClaimInv'
    BY <1>1 DEF StartClaim, ClaimInv, StateInv
  <2>4. StateInv'
    BY <1>1 DEF StartClaim, ClaimInv, StateInv
  <2>5. FlagInv'
    BY <1>1 DEF StartClaim, ClaimInv, StateInv, FlagInv
  <2> QED
    BY <1>1, <2>1, <2>2, <2>3, <2>4, <2>5 DEF StartClaim
<1>2. ASSUME NEW u \in Users, JoinLock(u) PROVE IInv'
  BY <1>2 DEF JoinLock, JoinInv, ClaimInv, StateInv, FlagInv
<1>3. ASSUME NEW u \in Users, Join(u) PROVE IInv'
  <2>1. ControlInv'
    BY <1>3 DEF Join
  <2>2. JoinInv'
    BY <1>3 DEF Join, JoinInv
  <2>3. ClaimInv'
    BY <1>3 DEF Join, JoinInv, ClaimInv, StateInv
  <2>4. StateInv'
    BY <1>3 DEF Join, JoinInv, ClaimInv, StateInv
  <2>5. FlagInv'
    BY <1>3 DEF Join, JoinInv, ClaimInv, FlagInv
  <2>6. ~crashed'
    BY <1>3 DEF Join, ClaimInv
  <2> QED
    BY <2>1, <2>2, <2>3, <2>4, <2>5, <2>6
<1>4. ASSUME NEW u \in Users, StartReset(u) PROVE IInv'
  <2>1. ControlInv'
    BY <1>4 DEF StartReset
  <2>2. JoinInv'
    BY <1>4 DEF StartReset, JoinInv
  <2>3. ClaimInv'
    BY <1>4 DEF StartReset, ClaimInv, StateInv
  <2>4. StateInv'
    BY <1>4 DEF StartReset, ClaimInv, StateInv
  <2>5. FlagInv'
    BY <1>4 DEF StartReset, ClaimInv, StateInv, FlagInv
  <2> QED
    BY <1>4, <2>1, <2>2, <2>3, <2>4, <2>5 DEF StartReset
<1>5. ASSUME NEW u \in Users, StartThread(u) PROVE IInv'
  <2>1. ControlInv'
    BY <1>5 DEF StartThread
  <2>2. JoinInv'
    BY <1>5 DEF StartThread, JoinInv
  <2>3. ClaimInv'
    BY <1>5 DEF StartThread, JoinInv, ClaimInv, StateInv
  <2>4. StateInv'
    BY <1>5 DEF StartThread, JoinInv, ClaimInv, StateInv
  <2>5. FlagInv'
    BY <1>5 DEF StartThread, JoinInv, ClaimInv, FlagInv
  <2>6. ~crashed'
    BY <1>5 DEF StartThread, ClaimInv
  <2> QED
    BY <2>1, <2>2, <2>3, <2>4, <2>5, <2>6
<1>6. ASSUME NEW u \in Users, StartWait(u) PROVE IInv'
  BY <1>6 DEF StartWait, JoinInv, ClaimInv, StateInv, FlagInv
<1>7. ASSUME NEW u \in Users, StartCatch(u) PROVE IInv'
  BY <1>7 DEF StartCatch, JoinInv, ClaimInv, StateInv, FlagInv
<1>8. ASSUME NEW u \in Users, RequestStop(u) PROVE IInv'
  <2>1. ControlInv'
    BY <1>8 DEF RequestStop
  <2>2. JoinInv'
    BY <1>8 DEF RequestStop, JoinInv
  <2>3. ClaimInv'
    BY <1>8 DEF RequestStop, JoinInv, ClaimInv, StateInv
  <2>4. StateInv'
    BY <1>8 DEF RequestStop, JoinInv, ClaimInv, StateInv
  <2>5. FlagInv'
    BY <1>8 DEF RequestStop, ClaimInv, StateInv, FlagInv
  <2>6. ~crashed'
    BY <1>8 DEF RequestStop, ClaimInv
  <2> QED
    BY <2>1, <2>2, <2>3, <2>4, <2>5, <2>6
<1>9. ASSUME NEW u \in Users, StopAfterRead(u) \/ StopAfterStore(u) \/ Notify(u) \/ WaitBegin(u)
      PROVE IInv'
  BY <1>9 DEF StopAfterRead, StopAfterStore, Notify, WaitBegin, JoinInv, ClaimInv, StateInv, FlagInv
<1>10. ASSUME NEW u \in Users, SetInterval(u) PROVE IInv'
  BY <1>10 DEF SetInterval, JoinInv, ClaimInv, StateInv, FlagInv
<1>11. CASE StartInside
  <2>1. ControlInv'
    BY <1>11 DEF StartInside
  <2>2. JoinInv'
    BY <1>11 DEF StartInside, JoinInv
  <2>3. ClaimInv'
    BY <1>11 DEF StartInside, JoinInv, ClaimInv, StateInv
  <2>4. StateInv'
    BY <1>11 DEF StartInside, JoinInv, ClaimInv, StateInv
  <2>5. FlagInv'
    BY <1>11 DEF StartInside, JoinInv, ClaimInv, FlagInv
  <2>6. ~crashed'
    BY <1>11 DEF StartInside, ClaimInv
  <2> QED
    BY <2>1, <2>2, <2>3, <2>4, <2>5, <2>6
<1>12. CASE CallInside
  <2>1. ControlInv'
    BY <1>12 DEF CallInside
  <2>2. JoinInv'
    BY <1>12 DEF CallInside, JoinInv
  <2>3. ClaimInv'
    BY <1>12 DEF CallInside, ClaimInv
  <2>4. StateInv'
    BY <1>12 DEF CallInside, StateInv
  <2>5. FlagInv'
    <3>1. ~\E u \in Users : pc[u] = "start_thread"
      BY <1>12 DEF CallInside, InUserCode, ClaimInv
    <3>2. CASE asked' = (asked \/ state = "running")
      BY <1>12, <3>1, <3>2 DEF CallInside, StateInv, FlagInv
    <3>3. CASE UNCHANGED <<stopFlag, asked>>
      BY <1>12, <3>1, <3>3 DEF CallInside, FlagInv
    <3> QED
      BY <1>12, <3>2, <3>3 DEF CallInside
  <2> QED
    BY <1>12, <2>1, <2>2, <2>3, <2>4, <2>5 DEF CallInside
<1>13. CASE OnStart
  BY <1>13 DEF OnStart, JoinInv, ClaimInv, StateInv, FlagInv
<1>14. CASE LoopCheck
  BY <1>14 DEF LoopCheck, JoinInv, ClaimInv, StateInv, FlagInv
<1>15. CASE TickEnd
  BY <1>15 DEF TickEnd, JoinInv, ClaimInv, StateInv, FlagInv
<1>16. CASE WaitEnd
  BY <1>16 DEF WaitEnd, JoinInv, ClaimInv, StateInv, FlagInv
<1>17. CASE OnStopEnd
  BY <1>17 DEF OnStopEnd, JoinInv, ClaimInv, StateInv, FlagInv
<1>18. CASE UNCHANGED vars
  BY <1>18 DEF vars, JoinInv, ClaimInv, StateInv, FlagInv
<1> HIDE DEF IInv
<1>19. ASSUME NEW u \in setup.users, UserCall(u) \/ CallStep(u) PROVE IInv'
  <2>1. u \in Users
    BY WorkerAssumption DEF IInv
  <2> QED
    BY <2>1, <1>19, <1>1, <1>2, <1>3, <1>4, <1>5, <1>6, <1>7, <1>8, <1>9, <1>10 DEF UserCall, CallStep
<1> QED
  BY <1>11, <1>12, <1>13, <1>14, <1>15, <1>16, <1>17, <1>18, <1>19 DEF Next, CallbackCall, action

-----------------------------------------------------------------------------
\* The one std::thread is never assigned to while joinable: a claim is exclusive
\* and joins, under m_join_mutex, before it creates the next thread.
THEOREM WorkerNeverTerminates == NoThrow => (Spec => []NeverTerminates)
<1>1. IInv => NeverTerminates
  BY DEF IInv, NeverTerminates
<1> QED
  BY <1>1, WorkerInit, WorkerStep, PTL DEF Spec

\* A worker that reports to be running is running or being started, and one whose
\* thread works reports to be running.
THEOREM WorkerStateMatchesThread == NoThrow => (Spec => []StateMatchesThread)
<1>1. IInv => StateMatchesThread
  BY DEF IInv, StateInv, StateMatchesThread, Working, Claiming, Early, InLoop, IsStarting
<1> QED
  BY <1>1, WorkerInit, WorkerStep, PTL DEF Spec

\* A stop requested during one run never stops the next.
THEOREM WorkerNoStaleStop == NoThrow => (Spec => []NoStaleStop)
<1>1. IInv => NoStaleStop
  BY DEF IInv, FlagInv, NoStaleStop, Working, InLoop
<1> QED
  BY <1>1, WorkerInit, WorkerStep, PTL DEF Spec
=============================================================================
