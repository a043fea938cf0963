----------------------------- MODULE TickProofs -----------------------------
(***************************************************************************)
(* The two components that call user code once per tick: sg::state_machine,  *)
(* for any states, and sg::background_timer.                                 *)
(***************************************************************************)
EXTENDS StateMachine, BackgroundTimer, TLAPS

(* sg::state_machine *)

\* The new worker of a start() that is under way waits for the old one to end.
StarterInv == mStarter = "create" => mThread \in {"off", "over", "on_stop"}

\* just_started is true from the start callback to the first tick, and no state
\* is entered before.
FirstTickInv ==
    /\ mThread \in {"first", "exit", "entry", "ticks", "wait"} => ~mJust
    /\ mThread \in {"on_start", "first"} => mInside = NoState
    /\ mThread = "check" /\ mJust => mInside = NoState

\* Between ticks the machine is inside the state it reports.
BetweenTicksInv == mThread \in {"check", "wait"} /\ ~mJust => mInside = mCurrent

MachineInv ==
    /\ mThread \in {"off", "on_start", "check", "first", "exit", "entry", "ticks", "wait",
                    "on_stop", "over"}
    /\ mJust \in BOOLEAN
    /\ StarterInv /\ FirstTickInv /\ BetweenTicksInv /\ EnteredBeforeLeft

\* Every call and every step of the worker keeps it.
LEMMA MachineStep == MachineInv /\ [MachineNext]_machineVars => MachineInv'
<1> SUFFICES ASSUME MachineInv, [MachineNext]_machineVars PROVE MachineInv'
  OBVIOUS
<1> USE DEF MachineInv, StarterInv, FirstTickInv, BetweenTicksInv, EnteredBeforeLeft, callVars
<1>1. CASE MachineStart
  BY <1>1 DEF MachineStart, MachineLoops
<1>2. CASE MachineCreate
  BY <1>2 DEF MachineCreate
<1>3. CASE SetStore
  BY <1>3 DEF SetStore
<1>4. CASE SetNotify
  BY <1>4 DEF SetNotify
<1>5. CASE CallFromCallback
  BY <1>5 DEF CallFromCallback
<1>6. CASE OnMachineStart
  BY <1>6 DEF OnMachineStart
<1>7. CASE TickBegin
  BY <1>7 DEF TickBegin
<1>8. CASE FirstEntry
  BY <1>8 DEF FirstEntry
<1>9. CASE ExitOld
  BY <1>9 DEF ExitOld
<1>10. CASE EnterNew
  BY <1>10 DEF EnterNew
<1>11. CASE RunTicks
  BY <1>11 DEF RunTicks
<1>12. CASE TickWait
  BY <1>12 DEF TickWait
<1>13. CASE TickStop
  BY <1>13 DEF TickStop
<1>14. CASE TickThrows
  BY <1>14 DEF TickThrows
<1>15. CASE OnMachineStop
  BY <1>15 DEF OnMachineStop
<1>16. CASE UNCHANGED machineVars
  BY <1>16 DEF machineVars
<1> QED
  BY <1>1, <1>2, <1>3, <1>4, <1>5, <1>6, <1>7, <1>8, <1>9, <1>10, <1>11, <1>12, <1>13, <1>14,
     <1>15, <1>16 DEF MachineNext, MachineRun

\* Tick and exit callbacks are those of the state whose entry callbacks were called
\* last, and a state is left before another is entered, for any set of states and
\* whatever is requested meanwhile.
THEOREM MachineEntersBeforeLeaving == MachineSpec => []EnteredBeforeLeft
<1>1. MachineInit => MachineInv
  BY DEF MachineInit, MachineInv, StarterInv, FirstTickInv, BetweenTicksInv, EnteredBeforeLeft
<1>2. MachineInv => EnteredBeforeLeft
  BY DEF MachineInv
<1> QED
  BY <1>1, <1>2, MachineStep, PTL DEF MachineSpec

-----------------------------------------------------------------------------
(* sg::background_timer *)

\* A thread that is before its stopped-callback counts as running, so that a
\* start() never overtakes a task; nothing is thrown before the first task.
TimerInv ==
    /\ tThread \in {"on_start", "check", "task", "leave"} => tRunning
    /\ tRunning => tThread \in {"none", "on_start", "check", "task", "leave"}
    /\ tStarting => ~tRunning
    /\ tThread \in {"on_start", "check", "task"} => ~tThrown
    /\ tError \in BOOLEAN /\ tThrown \in BOOLEAN /\ tError = tThrown
    /\ tRunning \in BOOLEAN /\ tStarting \in BOOLEAN /\ tStop \in BOOLEAN

\* The stopped-callback is given what the task of that very run threw.
THEOREM TimerReportsItsOwn == TimerSpec => []TimerReportsOwn
<1>1. TimerInit => TimerInv
  BY DEF TimerInit, TimerInv
<1>2. TimerInv /\ [TimerNext]_timerVars => TimerInv'
  <2> SUFFICES ASSUME TimerInv, [TimerNext]_timerVars PROVE TimerInv'
    OBVIOUS
  <2> USE DEF TimerInv
  <2>1. CASE TimerStart
    BY <2>1 DEF TimerStart
  <2>2. CASE TimerCreate
    BY <2>2 DEF TimerCreate
  <2>3. CASE TimerJoin
    BY <2>3 DEF TimerJoin
  <2>4. CASE TimerRequestStop
    BY <2>4 DEF TimerRequestStop
  <2>5. CASE TimerStarted
    BY <2>5 DEF TimerStarted
  <2>6. CASE TimerCheck
    BY <2>6 DEF TimerCheck
  <2>7. CASE TimerTask
    <3>1. CASE tThread' = "check"
      BY <2>7, <3>1 DEF TimerTask
    <3>2. CASE tThread' = "leave"
      BY <2>7, <3>2 DEF TimerTask
    <3> QED
      BY <2>7, <3>1, <3>2 DEF TimerTask
  <2>8. CASE TimerLeave
    BY <2>8 DEF TimerLeave
  <2>9. CASE TimerReport
    BY <2>9 DEF TimerReport
  <2>10. CASE UNCHANGED timerVars
    BY <2>10 DEF timerVars
  <2> QED
    BY <2>1, <2>2, <2>3, <2>4, <2>5, <2>6, <2>7, <2>8, <2>9, <2>10 DEF TimerNext
<1>3. TimerInv => TimerReportsOwn
  BY DEF TimerInv, TimerReportsOwn
<1> QED
  BY <1>1, <1>2, <1>3, PTL DEF TimerSpec
=============================================================================
