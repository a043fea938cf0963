-------------------------- MODULE TcpServerProofs --------------------------
(***************************************************************************)
(* Proofs about TcpServer, for any number of threads, endpoints and         *)
(* sessions, of which there may be infinitely many.                         *)
(***************************************************************************)
EXTENDS TcpServer, FiniteSetTheorems, TLAPS

\* What the server is not proof against: a stop_async() that comes after a start()
\* that threw, and arrivals at an acceptor in a run() that fails.
Undisturbed ==
    \A c \in Setups : /\ "stop_after_failure" \notin c.may
                      /\ "run_fails" \in c.may => "early" \notin c.may

\* The sessions that active counts, and the listeners that count does.
Counted == {s \in Sessions : sess[s] \in {"live", "stopping", "callback", "release"}}
NotDone == {l \in Listeners : listener[l] # "done"}

\* No session exists.
Quiet == \A s \in Sessions : sess[s] \in {"none", "gone"}

\* No listener has accepted anything yet or is in a callback.
Halted == \A l \in Listeners : listener[l] \in {"none", "spawned", "accept", "done"}

\* start() is past the mutex; start() has claimed the server.
Building(a) == call[a] \in {"start_bind", "start_run", "start_running", "start_join", "start_catch"}
Starting(a) == call[a] = "start_lock" \/ Building(a)

\* A stopping thread is at work.
Winding(t) == stopper[t] # "done"

\* m_mutex_start_stop has one holder; a listener calls stop_async() in a callback or
\* before it exits; one start() at a time has claimed the server.
CallInv ==
    /\ \A a \in Actors : Building(a) \/ call[a] = "stop_join" => holder = a
    /\ \A a \in Actors \ Users : call[a] \in {"none", "stop", "stop_join"}
    /\ \A l \in Listeners : call[l] # "none" =>
          listener[l] \in {"filter", "created", "accept_error", "exit"}
    /\ \A a, b \in Actors : Starting(a) /\ Starting(b) => a = b

\* What holds while start() is between its claim and its return.
StartInv ==
    /\ \A a \in Actors : Starting(a) => running
    /\ \A a \in Actors : call[a] = "start_lock" =>
          (stopping \/ failed) /\ pool \in {"none", "over"}
    /\ \A a \in Actors : Building(a) => ~stopping /\ ~failed /\ posted = {} /\ closed = {}
    /\ \A a \in Actors : call[a] \in {"start_bind", "start_run"} => pool = "idle"
    /\ \A a \in Actors : call[a] = "start_running" => pool = "run"
    /\ \A a \in Actors : call[a] = "start_join" => pool = "failing"
    /\ \A a \in Actors : call[a] = "start_catch" => pool \in {"idle", "failing"}

\* One stopping thread at a time, in a server that runs, is stopping and that
\* nobody is starting; a server that is stopping has one.
StopInv ==
    /\ \A t, r \in Stoppers : Winding(t) /\ Winding(r) => t = r
    /\ \A t \in Stoppers : Winding(t) =>
          /\ running /\ stopping /\ pool \in {"run", "stop", "callback", "over"}
          /\ \A a \in Actors : ~Starting(a)
    /\ running /\ stopping /\ (\A a \in Actors : call[a] # "start_lock")
          => \E t \in Stoppers : Winding(t)
    /\ pool \in {"stop", "callback"} => \E t \in Stoppers : Winding(t)

\* The stages between a stop and a start, and between a start and a stop.
StageInv ==
    /\ failed => ~stopping
    /\ ~running => (stopping \/ failed) /\ pool \in {"none", "over"}
    /\ running /\ ~stopping /\ (\A a \in Actors : ~Starting(a)) => pool = "run" /\ ~failed

\* A listener leaves only after a stop, and all have left once the stopping thread
\* is past waiting for them, or the pool past running.
ListenInv ==
    /\ \A l \in Listeners : listener[l] \notin {"none", "spawned", "done"} =>
          pool \in {"run", "failing"}
    /\ \A l \in setup.listeners : listener[l] = "done" => stopping
    /\ \A l \in Listeners : listener[l] = "exit" => stopping \/ call[l] = "stop"
    /\ pool \in {"stop", "callback", "over"} => NotDone = {}
    /\ \A t \in Stoppers : stopper[t] \in {"disconnect", "sessions", "pool"} => NotDone = {}
    /\ \A t \in Stoppers : stopper[t] = "pool" => pool # "run"
    /\ \A l \in Listeners : pool = "run" => listener[l] # "none"
    /\ \A a \in Actors : call[a] = "start_run" => \A l \in Listeners : listener[l] # "none"

\* Without early arrivals nothing happens before start() returns.
HaltInv ==
    /\ pool = "failing" => Halted
    /\ \A a \in Actors : call[a] = "start_running" /\ "early" \notin setup.may => Halted /\ Quiet

\* m_acceptors_running_count.
CountInv ==
    /\ pool \in {"run", "stop"} => count = Cardinality(NotDone)
    /\ \A a \in Actors : call[a] = "start_run" => count = Cardinality(NotDone)
    /\ pool \in {"none", "stop", "callback", "over"} => count = 0

\* A listener and the session it has accepted.
ConnInv ==
    /\ \A l \in Listeners : listener[l] \in {"filter", "created"} <=> conn[l] # Nobody
    /\ \A l, m \in Listeners : conn[l] = conn[m] /\ conn[l] # Nobody => l = m
    /\ \A l \in Listeners : conn[l] # Nobody => sess[conn[l]] # "none"
    /\ \A l \in Listeners : listener[l] = "filter" => sess[conn[l]] = "accepted"
    /\ \A s \in Sessions : sess[s] = "accepted" =>
          \E l \in Listeners : listener[l] = "filter" /\ conn[l] = s

\* m_active_sessions and m_sessions.
SessInv ==
    /\ registered = {s \in Sessions : sess[s] \in {"live", "stopping", "callback"}}
    /\ IsFiniteSet(Counted) /\ active = Cardinality(Counted)
    /\ pool # "run" => Quiet

\* Acceptors are closed only by a stop, so that operation_aborted never begins one: a
\* listener that leaves and nobody is stopping has recorded its error.
ErrorInv ==
    /\ posted # {} \/ closed # {} => stopping
    /\ \A l \in Listeners : listener[l] = "exit" => stopping \/ error # Nobody
    /\ blame # Nobody => error # Nobody

ServerInv == /\ TypeOK /\ CallInv /\ StartInv /\ StopInv /\ StageInv /\ ListenInv
             /\ HaltInv /\ CountInv /\ ConnInv /\ SessInv /\ ErrorInv

USE DEF Actors, coreVars, netVars, sessVars, history, ListenerRest, SessionRest

\* What the setup of a behaviour says.
LEMMA SetupFacts ==
  ASSUME Undisturbed, TypeOK
  PROVE  /\ setup.users \subseteq Users /\ setup.listeners \subseteq Listeners
         /\ setup.listeners # {} /\ "stop_after_failure" \notin setup.may
         /\ "run_fails" \in setup.may => "early" \notin setup.may
<1>1. setup \in Setups
  BY DEF TypeOK
<1>2. setup \in [users : SUBSET Users, listeners : (SUBSET Listeners) \ {{}},
                 may : SUBSET Circumstances]
  BY <1>1, ServerAssumption
<1> QED BY <1>1, <1>2 DEF Undisturbed

\* The mutex has one holder.
LEMMA CallLemma ==
  ASSUME Undisturbed, ServerInv, [Next]_vars
  PROVE  CallInv'
<1>a. /\ setup.users \subseteq Users /\ Nobody \notin Actors
      /\ Users \cap Listeners = {} /\ Users \cap Sessions = {}
      /\ TypeOK /\ CallInv /\ StartInv /\ StageInv /\ ListenInv /\ HaltInv
  BY SetupFacts, ServerAssumption DEF ServerInv
<1> USE <1>a DEF TypeOK, CallInv, Building, Starting
<1>1. ASSUME NEW u \in setup.users, StartClaim(u) PROVE CallInv'
  BY <1>1 DEF StartClaim, Goes, StartInv
<1>2. ASSUME NEW u \in setup.users, StartReset(u) PROVE CallInv'
  BY <1>2 DEF StartReset, Goes, StartInv, ListenInv
<1>3. ASSUME NEW u \in setup.users, StartBind(u) PROVE CallInv'
  BY <1>3 DEF StartBind, Goes, StartInv, ListenInv
<1>4. ASSUME NEW u \in setup.users, StartRun(u) PROVE CallInv'
  BY <1>4 DEF StartRun, Goes
<1>5. ASSUME NEW u \in setup.users, StartReturn(u) PROVE CallInv'
  BY <1>5 DEF StartReturn, Goes
<1>6. ASSUME NEW u \in setup.users, StartJoin(u) PROVE CallInv'
  BY <1>6 DEF StartJoin, Goes
<1>7. ASSUME NEW u \in setup.users, StartCatch(u) PROVE CallInv'
  BY <1>7 DEF StartCatch, Goes, StartInv, ListenInv, HaltInv, Halted
<1>8. ASSUME NEW u \in setup.users, future_get_once(u) PROVE CallInv'
  BY <1>8 DEF future_get_once, Goes
<1>9. ASSUME NEW a \in Actors, StopCall(a) PROVE CallInv'
  BY <1>9 DEF StopCall, Goes, MayCall, InListenerCallback
<1>10. ASSUME NEW a \in Actors, stop_async(a) PROVE CallInv'
  BY <1>10 DEF stop_async, Goes
<1>11. ASSUME NEW a \in Actors, StopJoin(a) PROVE CallInv'
  BY <1>11 DEF StopJoin, Goes
<1>12. ASSUME NEW t \in Stoppers, StopperClose(t) PROVE CallInv'
  BY <1>12 DEF StopperClose, StopperGoes
<1>13. ASSUME NEW t \in Stoppers, StopperCheck(t) PROVE CallInv'
  BY <1>13 DEF StopperCheck, StopperGoes
<1>14. ASSUME NEW t \in Stoppers, StopperListeners(t) PROVE CallInv'
  BY <1>14 DEF StopperListeners, StopperGoes
<1>15. ASSUME NEW t \in Stoppers, StopperDisconnect(t) PROVE CallInv'
  BY <1>15 DEF StopperDisconnect, StopperGoes
<1>16. ASSUME NEW t \in Stoppers, StopperPool(t) PROVE CallInv'
  BY <1>16 DEF StopperPool, StopperGoes
<1>17. ASSUME NEW t \in Stoppers, StopperPublish(t) PROVE CallInv'
  BY <1>17 DEF StopperPublish, StopperGoes
<1>18. ASSUME NEW l \in Listeners, ListenerResume(l) PROVE CallInv'
  BY <1>18 DEF ListenerResume, Loop, Listens
<1>19. ASSUME NEW l \in Listeners, CloseAcceptor(l) PROVE CallInv'
  BY <1>19 DEF CloseAcceptor
<1>20. ASSUME NEW l \in Listeners, BackOff(l) PROVE CallInv'
  BY <1>20 DEF BackOff, Listens
<1>21. ASSUME NEW l \in Listeners, ListenerConnect(l) PROVE CallInv'
  BY <1>21 DEF ListenerConnect, Loop, Listens
<1>22. ASSUME NEW l \in Listeners, ListenerCreated(l) PROVE CallInv'
  BY <1>22 DEF ListenerCreated, Loop, Listens
<1>23. ASSUME NEW l \in Listeners, ListenerExit(l) PROVE CallInv'
  BY <1>23 DEF ListenerExit, Listens
<1>24. ASSUME NEW l \in Listeners, Accepted(l) PROVE CallInv'
  BY <1>24 DEF Accepted, Arrival, Loop, Listens
<1>25. ASSUME NEW l \in Listeners, AcceptFails(l) PROVE CallInv'
  BY <1>25 DEF AcceptFails, Arrival, Listens, Goes
<1>26. ASSUME NEW l \in Listeners, AcceptTransient(l) PROVE CallInv'
  BY <1>26 DEF AcceptTransient, Arrival, Loop, Listens
<1>27. ASSUME NEW s \in Sessions, SessionDisconnected(s) PROVE CallInv'
  BY <1>27 DEF SessionDisconnected
<1>28. ASSUME NEW s \in Sessions, SessionErase(s) PROVE CallInv'
  BY <1>28 DEF SessionErase
<1>29. ASSUME NEW s \in Sessions, SessionRelease(s) PROVE CallInv'
  BY <1>29 DEF SessionRelease
<1>30. ASSUME NEW s \in Sessions, PeerLeaves(s) PROVE CallInv'
  BY <1>30 DEF PeerLeaves
<1>31. ASSUME NEW s \in Sessions, disconnect(s) PROVE CallInv'
  BY <1>31 DEF disconnect
<1>32. CASE PoolStep
  BY <1>32 DEF PoolStep
<1>33. CASE UNCHANGED vars
  BY <1>33 DEF vars
<1> QED
  BY <1>1, <1>2, <1>3, <1>4, <1>5, <1>6, <1>7, <1>8, <1>9, <1>10, <1>11, <1>12, <1>13, <1>14,
     <1>15, <1>16, <1>17, <1>18, <1>19, <1>20, <1>21, <1>22, <1>23, <1>24, <1>25, <1>26, <1>27, <1>28,
     <1>29, <1>30, <1>31, <1>32, <1>33
  DEF Next, start, StopperStep, ListenerStep, SessionStep

\* start() builds a new pool in a server that is wound up.
LEMMA StartLemma ==
  ASSUME Undisturbed, ServerInv, [Next]_vars
  PROVE  StartInv'
<1>a. /\ setup.users \subseteq Users /\ setup.listeners \subseteq Listeners /\ Nobody \notin Actors
      /\ Users \cap Listeners = {} /\ Users \cap Sessions = {}
      /\ Listeners \cap Sessions = {}
      /\ TypeOK /\ CallInv /\ StartInv /\ StopInv /\ StageInv /\ ListenInv
  BY SetupFacts, ServerAssumption DEF ServerInv
<1> USE <1>a DEF TypeOK, CallInv, StartInv, Building, Starting
<1>1. ASSUME NEW u \in setup.users, StartClaim(u) PROVE StartInv'
  BY <1>1 DEF StartClaim, Goes, StageInv
<1>2. ASSUME NEW u \in setup.users, StartReset(u) PROVE StartInv'
  BY <1>2 DEF StartReset, Goes
<1>3. ASSUME NEW u \in setup.users, StartBind(u) PROVE StartInv'
  BY <1>3 DEF StartBind, Goes
<1>4. ASSUME NEW u \in setup.users, StartRun(u) PROVE StartInv'
  BY <1>4 DEF StartRun, Goes
<1>5. ASSUME NEW u \in setup.users, StartReturn(u) PROVE StartInv'
  BY <1>5 DEF StartReturn, Goes
<1>6. ASSUME NEW u \in setup.users, StartJoin(u) PROVE StartInv'
  BY <1>6 DEF StartJoin, Goes
<1>7. ASSUME NEW u \in setup.users, StartCatch(u) PROVE StartInv'
  BY <1>7 DEF StartCatch, Goes
<1>8. ASSUME NEW u \in setup.users, future_get_once(u) PROVE StartInv'
  BY <1>8 DEF future_get_once, Goes
<1>9. ASSUME NEW a \in Actors, StopCall(a) PROVE StartInv'
  BY <1>9 DEF StopCall, Goes
<1>10. ASSUME NEW a \in Actors, stop_async(a) PROVE StartInv'
  BY <1>10 DEF stop_async, Goes, StageInv
<1>11. ASSUME NEW a \in Actors, StopJoin(a) PROVE StartInv'
  BY <1>11 DEF StopJoin, Goes
<1>12. ASSUME NEW t \in Stoppers, StopperClose(t) PROVE StartInv'
  BY <1>12 DEF StopperClose, StopperGoes, StopInv, Winding
<1>13. ASSUME NEW t \in Stoppers, StopperCheck(t) PROVE StartInv'
  BY <1>13 DEF StopperCheck, StopperGoes
<1>14. ASSUME NEW t \in Stoppers, StopperListeners(t) PROVE StartInv'
  BY <1>14 DEF StopperListeners, StopperGoes
<1>15. ASSUME NEW t \in Stoppers, StopperDisconnect(t) PROVE StartInv'
  BY <1>15 DEF StopperDisconnect, StopperGoes
<1>16. ASSUME NEW t \in Stoppers, StopperPool(t) PROVE StartInv'
  BY <1>16 DEF StopperPool, StopperGoes, StopInv, Winding
<1>17. ASSUME NEW t \in Stoppers, StopperPublish(t) PROVE StartInv'
  BY <1>17 DEF StopperPublish, StopperGoes, StopInv, Winding
<1>18. ASSUME NEW l \in Listeners, ListenerResume(l) PROVE StartInv'
  BY <1>18 DEF ListenerResume, Loop, Listens
<1>19. ASSUME NEW l \in Listeners, CloseAcceptor(l) PROVE StartInv'
  BY <1>19 DEF CloseAcceptor
<1>20. ASSUME NEW l \in Listeners, BackOff(l) PROVE StartInv'
  BY <1>20 DEF BackOff, Listens
<1>21. ASSUME NEW l \in Listeners, ListenerConnect(l) PROVE StartInv'
  BY <1>21 DEF ListenerConnect, Loop, Listens
<1>22. ASSUME NEW l \in Listeners, ListenerCreated(l) PROVE StartInv'
  BY <1>22 DEF ListenerCreated, Loop, Listens
<1>23. ASSUME NEW l \in Listeners, ListenerExit(l) PROVE StartInv'
  BY <1>23 DEF ListenerExit, Listens
<1>24. ASSUME NEW l \in Listeners, Accepted(l) PROVE StartInv'
  BY <1>24 DEF Accepted, Arrival, Loop, Listens
<1>25. ASSUME NEW l \in Listeners, AcceptFails(l) PROVE StartInv'
  BY <1>25 DEF AcceptFails, Arrival, Listens, Goes
<1>26. ASSUME NEW l \in Listeners, AcceptTransient(l) PROVE StartInv'
  BY <1>26 DEF AcceptTransient, Arrival, Loop, Listens
<1>27. ASSUME NEW s \in Sessions, SessionDisconnected(s) PROVE StartInv'
  BY <1>27 DEF SessionDisconnected
<1>28. ASSUME NEW s \in Sessions, SessionErase(s) PROVE StartInv'
  BY <1>28 DEF SessionErase
<1>29. ASSUME NEW s \in Sessions, SessionRelease(s) PROVE StartInv'
  BY <1>29 DEF SessionRelease
<1>30. ASSUME NEW s \in Sessions, PeerLeaves(s) PROVE StartInv'
  BY <1>30 DEF PeerLeaves
<1>31. ASSUME NEW s \in Sessions, disconnect(s) PROVE StartInv'
  BY <1>31 DEF disconnect
<1>32. CASE PoolStep
  <2>1. ASSUME NEW a \in Actors, call[a] = "start_running" PROVE Work
    <3>1. PICK l \in setup.listeners : l \in Listeners
      BY SetupFacts
    <3>2. listener[l] # "done"
      BY <2>1, <3>1 DEF ListenInv
    <3> QED BY <2>1, <3>1, <3>2 DEF Work, ListenInv
  <2> QED BY <1>32, <2>1 DEF PoolStep
<1>33. CASE UNCHANGED vars
  BY <1>33 DEF vars
<1> QED
  BY <1>1, <1>2, <1>3, <1>4, <1>5, <1>6, <1>7, <1>8, <1>9, <1>10, <1>11, <1>12, <1>13, <1>14,
     <1>15, <1>16, <1>17, <1>18, <1>19, <1>20, <1>21, <1>22, <1>23, <1>24, <1>25, <1>26, <1>27, <1>28,
     <1>29, <1>30, <1>31, <1>32, <1>33
  DEF Next, start, StopperStep, ListenerStep, SessionStep

\* One thread winds the server up.
LEMMA StopLemma ==
  ASSUME Undisturbed, ServerInv, [Next]_vars
  PROVE  StopInv'
<1>a. /\ setup.users \subseteq Users /\ setup.listeners \subseteq Listeners /\ Nobody \notin Actors
      /\ Users \cap Listeners = {} /\ Users \cap Sessions = {}
      /\ Listeners \cap Sessions = {}
      /\ TypeOK /\ CallInv /\ StartInv /\ StopInv /\ StageInv /\ ListenInv
  BY SetupFacts, ServerAssumption DEF ServerInv
<1> USE <1>a DEF TypeOK, StopInv, Winding, Starting, Building
<1>1. ASSUME NEW u \in setup.users, StartClaim(u) PROVE StopInv'
  BY <1>1 DEF StartClaim, Goes, StageInv
<1>2. ASSUME NEW u \in setup.users, StartReset(u) PROVE StopInv'
  BY <1>2 DEF StartReset, Goes
<1>3. ASSUME NEW u \in setup.users, StartBind(u) PROVE StopInv'
  BY <1>3 DEF StartBind, Goes
<1>4. ASSUME NEW u \in setup.users, StartRun(u) PROVE StopInv'
  BY <1>4 DEF StartRun, Goes
<1>5. ASSUME NEW u \in setup.users, StartReturn(u) PROVE StopInv'
  BY <1>5 DEF StartReturn, Goes
<1>6. ASSUME NEW u \in setup.users, StartJoin(u) PROVE StopInv'
  BY <1>6 DEF StartJoin, Goes
<1>7. ASSUME NEW u \in setup.users, StartCatch(u) PROVE StopInv'
  BY <1>7 DEF StartCatch, Goes
<1>8. ASSUME NEW u \in setup.users, future_get_once(u) PROVE StopInv'
  BY <1>8 DEF future_get_once, Goes
<1>9. ASSUME NEW a \in Actors, StopCall(a) PROVE StopInv'
  BY <1>9 DEF StopCall, Goes, MayCall
<1>10. ASSUME NEW a \in Actors, stop_async(a) PROVE StopInv'
  <2>1. CASE stopping
    BY <1>10, <2>1 DEF stop_async, Goes
  <2>2. CASE ~stopping
    <3>1. PICK r \in Stoppers : stopper[r] = "done" /\ stopper' = [stopper EXCEPT ![r] = "close"]
      <4>1. (CHOOSE x \in Idle : TRUE) \in Idle
        BY <1>10, <2>2 DEF stop_async
      <4> QED BY <1>10, <2>2, <4>1 DEF stop_async, Idle
    <3>2. ~failed /\ \A b \in Actors : ~Building(b)
      BY <1>10, SetupFacts, ServerAssumption DEF stop_async, CallInv
    <3>3. \A b \in Actors : ~Starting(b)
      BY <2>2, <3>2 DEF StartInv
    <3>4. running /\ pool = "run"
      BY <2>2, <3>2, <3>3 DEF StageInv
    <3>5. \A b \in Actors : ~Starting(b)'
      BY <1>10, <3>3 DEF stop_async, Goes
    <3>6. running' /\ stopping' /\ pool' = "run"
      BY <1>10, <3>4 DEF stop_async
    <3>7. \A x \in Stoppers : Winding(x)' => x = r
      BY <2>2, <3>1
    <3>8. Winding(r)'
      BY <3>1
    <3> QED BY <3>5, <3>6, <3>7, <3>8
  <2> QED BY <2>1, <2>2
<1>11. ASSUME NEW a \in Actors, StopJoin(a) PROVE StopInv'
  BY <1>11 DEF StopJoin, Goes
<1>12. ASSUME NEW t \in Stoppers, StopperClose(t) PROVE StopInv'
  BY <1>12 DEF StopperClose, StopperGoes
<1>13. ASSUME NEW t \in Stoppers, StopperCheck(t) PROVE StopInv'
  BY <1>13 DEF StopperCheck, StopperGoes
<1>14. ASSUME NEW t \in Stoppers, StopperListeners(t) PROVE StopInv'
  BY <1>14 DEF StopperListeners, StopperGoes
<1>15. ASSUME NEW t \in Stoppers, StopperDisconnect(t) PROVE StopInv'
  BY <1>15 DEF StopperDisconnect, StopperGoes
<1>16. ASSUME NEW t \in Stoppers, StopperPool(t) PROVE StopInv'
  BY <1>16 DEF StopperPool, StopperGoes
<1>17. ASSUME NEW t \in Stoppers, StopperPublish(t) PROVE StopInv'
  BY <1>17 DEF StopperPublish, StopperGoes, PoolOver
<1>18. ASSUME NEW l \in Listeners, ListenerResume(l) PROVE StopInv'
  BY <1>18 DEF ListenerResume, Loop, Listens
<1>19. ASSUME NEW l \in Listeners, CloseAcceptor(l) PROVE StopInv'
  BY <1>19 DEF CloseAcceptor
<1>20. ASSUME NEW l \in Listeners, BackOff(l) PROVE StopInv'
  BY <1>20 DEF BackOff, Listens
<1>21. ASSUME NEW l \in Listeners, ListenerConnect(l) PROVE StopInv'
  BY <1>21 DEF ListenerConnect, Loop, Listens
<1>22. ASSUME NEW l \in Listeners, ListenerCreated(l) PROVE StopInv'
  BY <1>22 DEF ListenerCreated, Loop, Listens
<1>23. ASSUME NEW l \in Listeners, ListenerExit(l) PROVE StopInv'
  BY <1>23 DEF ListenerExit, Listens
<1>24. ASSUME NEW l \in Listeners, Accepted(l) PROVE StopInv'
  BY <1>24 DEF Accepted, Arrival, Loop, Listens
<1>25. ASSUME NEW l \in Listeners, AcceptFails(l) PROVE StopInv'
  BY <1>25 DEF AcceptFails, Arrival, Listens, Goes, CallInv
<1>26. ASSUME NEW l \in Listeners, AcceptTransient(l) PROVE StopInv'
  BY <1>26 DEF AcceptTransient, Arrival, Loop, Listens
<1>27. ASSUME NEW s \in Sessions, SessionDisconnected(s) PROVE StopInv'
  BY <1>27 DEF SessionDisconnected
<1>28. ASSUME NEW s \in Sessions, SessionErase(s) PROVE StopInv'
  BY <1>28 DEF SessionErase
<1>29. ASSUME NEW s \in Sessions, SessionRelease(s) PROVE StopInv'
  BY <1>29 DEF SessionRelease
<1>30. ASSUME NEW s \in Sessions, PeerLeaves(s) PROVE StopInv'
  BY <1>30 DEF PeerLeaves
<1>31. ASSUME NEW s \in Sessions, disconnect(s) PROVE StopInv'
  BY <1>31 DEF disconnect
<1>32. CASE PoolStep
  <2>1. ASSUME pool = "run", ~Work PROVE \E t \in Stoppers : Winding(t)
    <3>1. PICK l \in setup.listeners : l \in Listeners
      BY SetupFacts
    <3>2. listener[l] = "done"
      BY <2>1, <3>1 DEF Work, ListenInv
    <3>3. stopping
      BY <3>1, <3>2 DEF ListenInv
    <3>4. running /\ \A a \in Actors : call[a] # "start_lock"
      BY <2>1 DEF StageInv, StartInv
    <3> QED BY <3>3, <3>4
  <2> QED BY <1>32, <2>1 DEF PoolStep
<1>33. CASE UNCHANGED vars
  BY <1>33 DEF vars
<1> QED
  BY <1>1, <1>2, <1>3, <1>4, <1>5, <1>6, <1>7, <1>8, <1>9, <1>10, <1>11, <1>12, <1>13, <1>14,
     <1>15, <1>16, <1>17, <1>18, <1>19, <1>20, <1>21, <1>22, <1>23, <1>24, <1>25, <1>26, <1>27, <1>28,
     <1>29, <1>30, <1>31, <1>32, <1>33
  DEF Next, start, StopperStep, ListenerStep, SessionStep

\* The server is being wound up, wound up, being started or running.
LEMMA StageLemma ==
  ASSUME Undisturbed, ServerInv, [Next]_vars
  PROVE  StageInv'
<1>a. /\ setup.users \subseteq Users /\ setup.listeners \subseteq Listeners /\ Nobody \notin Actors
      /\ Users \cap Listeners = {} /\ Users \cap Sessions = {}
      /\ Listeners \cap Sessions = {}
      /\ TypeOK /\ CallInv /\ StartInv /\ StopInv /\ StageInv /\ ListenInv
  BY SetupFacts, ServerAssumption DEF ServerInv
<1> USE <1>a DEF TypeOK, StageInv, Starting, Building, CallInv, StartInv
<1>1. ASSUME NEW u \in setup.users, StartClaim(u) PROVE StageInv'
  BY <1>1 DEF StartClaim, Goes
<1>2. ASSUME NEW u \in setup.users, StartReset(u) PROVE StageInv'
  BY <1>2 DEF StartReset, Goes
<1>3. ASSUME NEW u \in setup.users, StartBind(u) PROVE StageInv'
  BY <1>3 DEF StartBind, Goes
<1>4. ASSUME NEW u \in setup.users, StartRun(u) PROVE StageInv'
  BY <1>4 DEF StartRun, Goes
<1>5. ASSUME NEW u \in setup.users, StartReturn(u) PROVE StageInv'
  BY <1>5 DEF StartReturn, Goes
<1>6. ASSUME NEW u \in setup.users, StartJoin(u) PROVE StageInv'
  BY <1>6 DEF StartJoin, Goes
<1>7. ASSUME NEW u \in setup.users, StartCatch(u) PROVE StageInv'
  BY <1>7 DEF StartCatch, Goes
<1>8. ASSUME NEW u \in setup.users, future_get_once(u) PROVE StageInv'
  BY <1>8 DEF future_get_once, Goes
<1>9. ASSUME NEW a \in Actors, StopCall(a) PROVE StageInv'
  BY <1>9 DEF StopCall, Goes, MayCall
<1>10. ASSUME NEW a \in Actors, stop_async(a) PROVE StageInv'
  <2>1. ~failed
    BY <1>10, SetupFacts DEF stop_async
  <2> QED BY <1>10, <2>1 DEF stop_async, Goes
<1>11. ASSUME NEW a \in Actors, StopJoin(a) PROVE StageInv'
  BY <1>11 DEF StopJoin, Goes
<1>12. ASSUME NEW t \in Stoppers, StopperClose(t) PROVE StageInv'
  BY <1>12 DEF StopperClose, StopperGoes
<1>13. ASSUME NEW t \in Stoppers, StopperCheck(t) PROVE StageInv'
  BY <1>13 DEF StopperCheck, StopperGoes
<1>14. ASSUME NEW t \in Stoppers, StopperListeners(t) PROVE StageInv'
  BY <1>14 DEF StopperListeners, StopperGoes
<1>15. ASSUME NEW t \in Stoppers, StopperDisconnect(t) PROVE StageInv'
  BY <1>15 DEF StopperDisconnect, StopperGoes
<1>16. ASSUME NEW t \in Stoppers, StopperPool(t) PROVE StageInv'
  BY <1>16 DEF StopperPool, StopperGoes, StopInv, Winding
<1>17. ASSUME NEW t \in Stoppers, StopperPublish(t) PROVE StageInv'
  BY <1>17 DEF StopperPublish, StopperGoes, StopInv, Winding, PoolOver
<1>18. ASSUME NEW l \in Listeners, ListenerResume(l) PROVE StageInv'
  BY <1>18 DEF ListenerResume, Loop, Listens
<1>19. ASSUME NEW l \in Listeners, CloseAcceptor(l) PROVE StageInv'
  BY <1>19 DEF CloseAcceptor
<1>20. ASSUME NEW l \in Listeners, BackOff(l) PROVE StageInv'
  BY <1>20 DEF BackOff, Listens
<1>21. ASSUME NEW l \in Listeners, ListenerConnect(l) PROVE StageInv'
  BY <1>21 DEF ListenerConnect, Loop, Listens
<1>22. ASSUME NEW l \in Listeners, ListenerCreated(l) PROVE StageInv'
  BY <1>22 DEF ListenerCreated, Loop, Listens
<1>23. ASSUME NEW l \in Listeners, ListenerExit(l) PROVE StageInv'
  BY <1>23 DEF ListenerExit, Listens
<1>24. ASSUME NEW l \in Listeners, Accepted(l) PROVE StageInv'
  BY <1>24 DEF Accepted, Arrival, Loop, Listens
<1>25. ASSUME NEW l \in Listeners, AcceptFails(l) PROVE StageInv'
  BY <1>25 DEF AcceptFails, Arrival, Listens, Goes
<1>26. ASSUME NEW l \in Listeners, AcceptTransient(l) PROVE StageInv'
  BY <1>26 DEF AcceptTransient, Arrival, Loop, Listens
<1>27. ASSUME NEW s \in Sessions, SessionDisconnected(s) PROVE StageInv'
  BY <1>27 DEF SessionDisconnected
<1>28. ASSUME NEW s \in Sessions, SessionErase(s) PROVE StageInv'
  BY <1>28 DEF SessionErase
<1>29. ASSUME NEW s \in Sessions, SessionRelease(s) PROVE StageInv'
  BY <1>29 DEF SessionRelease
<1>30. ASSUME NEW s \in Sessions, PeerLeaves(s) PROVE StageInv'
  BY <1>30 DEF PeerLeaves
<1>31. ASSUME NEW s \in Sessions, disconnect(s) PROVE StageInv'
  BY <1>31 DEF disconnect
<1>32. CASE PoolStep
  <2>1. pool = "run" /\ ~Work => stopping
    <3>1. PICK l \in setup.listeners : l \in Listeners
      BY SetupFacts
    <3> QED BY <3>1 DEF Work, ListenInv
  <2>2. pool \in {"stop", "callback"} => stopping /\ running
    BY DEF StopInv
  <2> QED BY <1>32, <2>1, <2>2 DEF PoolStep
<1>33. CASE UNCHANGED vars
  BY <1>33 DEF vars
<1> QED
  BY <1>1, <1>2, <1>3, <1>4, <1>5, <1>6, <1>7, <1>8, <1>9, <1>10, <1>11, <1>12, <1>13, <1>14,
     <1>15, <1>16, <1>17, <1>18, <1>19, <1>20, <1>21, <1>22, <1>23, <1>24, <1>25, <1>26, <1>27, <1>28,
     <1>29, <1>30, <1>31, <1>32, <1>33
  DEF Next, start, StopperStep, ListenerStep, SessionStep

\* No listener leaves before a stop, and none is left after it.
LEMMA ListenLemma ==
  ASSUME Undisturbed, ServerInv, [Next]_vars
  PROVE  ListenInv'
<1>a. /\ setup.users \subseteq Users /\ setup.listeners \subseteq Listeners /\ Nobody \notin Actors
      /\ Users \cap Listeners = {} /\ Users \cap Sessions = {}
      /\ Listeners \cap Sessions = {}
      /\ TypeOK /\ CallInv /\ StartInv /\ StopInv /\ ListenInv /\ HaltInv /\ CountInv /\ SessInv
  BY SetupFacts, ServerAssumption DEF ServerInv
<1> USE <1>a DEF TypeOK, ListenInv, NotDone
<1>1. ASSUME NEW u \in setup.users, StartClaim(u) PROVE ListenInv'
  BY <1>1 DEF StartClaim, Goes, StartInv
<1>2. ASSUME NEW u \in setup.users, StartReset(u) PROVE ListenInv'
  BY <1>2 DEF StartReset, Goes, StartInv, CallInv, StopInv, Starting, Winding
<1>3. ASSUME NEW u \in setup.users, StartBind(u) PROVE ListenInv'
  BY <1>3 DEF StartBind, Goes, StartInv, CallInv, StopInv, Starting, Building, Winding
<1>4. ASSUME NEW u \in setup.users, StartRun(u) PROVE ListenInv'
  BY <1>4 DEF StartRun, Goes, StartInv, StopInv, Starting, Building, Winding
<1>5. ASSUME NEW u \in setup.users, StartReturn(u) PROVE ListenInv'
  BY <1>5 DEF StartReturn, Goes, StartInv
<1>6. ASSUME NEW u \in setup.users, StartJoin(u) PROVE ListenInv'
  BY <1>6 DEF StartJoin, Goes
<1>7. ASSUME NEW u \in setup.users, StartCatch(u) PROVE ListenInv'
  BY <1>7 DEF StartCatch, Goes, StartInv, CallInv, StopInv, Starting, Building, Winding, HaltInv, Halted
<1>8. ASSUME NEW u \in setup.users, future_get_once(u) PROVE ListenInv'
  BY <1>8 DEF future_get_once, Goes
<1>9. ASSUME NEW a \in Actors, StopCall(a) PROVE ListenInv'
  BY <1>9 DEF StopCall, Goes, MayCall
<1>10. ASSUME NEW a \in Actors, stop_async(a) PROVE ListenInv'
  <2>1. \A r \in Stoppers : stopper'[r] = stopper[r] \/ stopper'[r] = "close"
    BY <1>10 DEF stop_async
  <2>2. stopping' /\ UNCHANGED <<setup, pool, listener>>
    BY <1>10 DEF stop_async
  <2>3. \A b \in Actors : call'[b] = "start_run" => call[b] = "start_run"
    BY <1>10 DEF stop_async, Goes
  <2> QED BY <2>1, <2>2, <2>3
<1>11. ASSUME NEW a \in Actors, StopJoin(a) PROVE ListenInv'
  BY <1>11 DEF StopJoin, Goes
<1>12. ASSUME NEW t \in Stoppers, StopperClose(t) PROVE ListenInv'
  BY <1>12 DEF StopperClose, StopperGoes
<1>13. ASSUME NEW t \in Stoppers, StopperCheck(t) PROVE ListenInv'
  BY <1>13 DEF StopperCheck, StopperGoes, StopInv, Winding
<1>14. ASSUME NEW t \in Stoppers, StopperListeners(t) PROVE ListenInv'
  <2>1. pool # "run" => NotDone = {}
    BY <1>14 DEF StopperListeners, StopperGoes, StopInv, Winding
  <2>2. pool = "run" => NotDone = {}
    <3>1. IsFiniteSet(NotDone)
      BY ServerAssumption, FS_Subset
    <3> QED BY <1>14, <3>1, FS_EmptySet DEF StopperListeners, ListenersOver, CountInv
  <2> QED BY <1>14, <2>1, <2>2 DEF StopperListeners, StopperGoes
<1>15. ASSUME NEW t \in Stoppers, StopperDisconnect(t) PROVE ListenInv'
  BY <1>15 DEF StopperDisconnect, StopperGoes
<1>16. ASSUME NEW t \in Stoppers, StopperPool(t) PROVE ListenInv'
  BY <1>16 DEF StopperPool, StopperGoes, StopInv, Winding
<1>17. ASSUME NEW t \in Stoppers, StopperPublish(t) PROVE ListenInv'
  BY <1>17 DEF StopperPublish, StopperGoes
<1>18. ASSUME NEW l \in Listeners, ListenerResume(l) PROVE ListenInv'
  BY <1>18 DEF ListenerResume, Loop, Listens, StopInv, Winding
<1>19. ASSUME NEW l \in Listeners, CloseAcceptor(l) PROVE ListenInv'
  BY <1>19 DEF CloseAcceptor
<1>20. ASSUME NEW l \in Listeners, BackOff(l) PROVE ListenInv'
  BY <1>20 DEF BackOff, Listens
<1>21. ASSUME NEW l \in Listeners, ListenerConnect(l) PROVE ListenInv'
  <2>1. \A t \in Stoppers : stopper[t] \notin {"disconnect", "sessions", "pool"}
    BY <1>21 DEF ListenerConnect
  <2>2. pool \in {"run", "failing"}
    BY <1>21 DEF ListenerConnect
  <2> QED BY <1>21, <2>1, <2>2 DEF ListenerConnect, Loop, Listens
<1>22. ASSUME NEW l \in Listeners, ListenerCreated(l) PROVE ListenInv'
  <2>1. \A t \in Stoppers : stopper[t] \notin {"disconnect", "sessions", "pool"}
    BY <1>22 DEF ListenerCreated
  <2>2. pool \in {"run", "failing"}
    BY <1>22 DEF ListenerCreated
  <2> QED BY <1>22, <2>1, <2>2 DEF ListenerCreated, Loop, Listens
<1>23. ASSUME NEW l \in Listeners, ListenerExit(l) PROVE ListenInv'
  BY <1>23 DEF ListenerExit, Listens, HaltInv, Halted
<1>24. ASSUME NEW l \in Listeners, Accepted(l) PROVE ListenInv'
  <2>1. \A t \in Stoppers : stopper[t] \notin {"disconnect", "sessions", "pool"}
    BY <1>24 DEF Accepted, Arrival
  <2>2. pool \in {"run", "failing"}
    BY <1>24 DEF Accepted, Arrival
  <2> QED BY <1>24, <2>1, <2>2 DEF Accepted, Arrival, Loop, Listens
<1>25. ASSUME NEW l \in Listeners, AcceptFails(l) PROVE ListenInv'
  BY <1>25 DEF AcceptFails, Arrival, Listens, Goes
<1>26. ASSUME NEW l \in Listeners, AcceptTransient(l) PROVE ListenInv'
  <2>1. \A t \in Stoppers : stopper[t] \notin {"disconnect", "sessions", "pool"}
    BY <1>26 DEF AcceptTransient, Arrival
  <2>2. pool \in {"run", "failing"}
    BY <1>26 DEF AcceptTransient, Arrival
  <2> QED BY <1>26, <2>1, <2>2 DEF AcceptTransient, Arrival, Loop, Listens
<1>27. ASSUME NEW s \in Sessions, SessionDisconnected(s) PROVE ListenInv'
  BY <1>27 DEF SessionDisconnected
<1>28. ASSUME NEW s \in Sessions, SessionErase(s) PROVE ListenInv'
  BY <1>28 DEF SessionErase
<1>29. ASSUME NEW s \in Sessions, SessionRelease(s) PROVE ListenInv'
  BY <1>29 DEF SessionRelease
<1>30. ASSUME NEW s \in Sessions, PeerLeaves(s) PROVE ListenInv'
  BY <1>30 DEF PeerLeaves
<1>31. ASSUME NEW s \in Sessions, disconnect(s) PROVE ListenInv'
  BY <1>31 DEF disconnect
<1>32. CASE PoolStep
  <2>1. pool = "run" /\ ~Work => NotDone = {}
    BY DEF Work
  <2> QED BY <1>32, <2>1 DEF PoolStep
<1>33. CASE UNCHANGED vars
  BY <1>33 DEF vars
<1> QED
  BY <1>1, <1>2, <1>3, <1>4, <1>5, <1>6, <1>7, <1>8, <1>9, <1>10, <1>11, <1>12, <1>13, <1>14,
     <1>15, <1>16, <1>17, <1>18, <1>19, <1>20, <1>21, <1>22, <1>23, <1>24, <1>25, <1>26, <1>27, <1>28,
     <1>29, <1>30, <1>31, <1>32, <1>33
  DEF Next, start, StopperStep, ListenerStep, SessionStep

\* A run() that fails has accepted nothing.
LEMMA HaltLemma ==
  ASSUME Undisturbed, ServerInv, [Next]_vars
  PROVE  HaltInv'
<1>a. /\ setup.users \subseteq Users /\ setup.listeners \subseteq Listeners /\ Nobody \notin Actors
      /\ Users \cap Listeners = {} /\ Users \cap Sessions = {}
      /\ Listeners \cap Sessions = {}
      /\ TypeOK /\ CallInv /\ StartInv /\ StopInv /\ ListenInv /\ HaltInv /\ SessInv
  BY SetupFacts, ServerAssumption DEF ServerInv
<1> USE <1>a DEF TypeOK, HaltInv, Halted, Quiet
<1>1. ASSUME NEW u \in setup.users, StartClaim(u) PROVE HaltInv'
  BY <1>1 DEF StartClaim, Goes
<1>2. ASSUME NEW u \in setup.users, StartReset(u) PROVE HaltInv'
  BY <1>2 DEF StartReset, Goes, StartInv
<1>3. ASSUME NEW u \in setup.users, StartBind(u) PROVE HaltInv'
  BY <1>3 DEF StartBind, Goes, StartInv, Building, Starting
<1>4. ASSUME NEW u \in setup.users, StartRun(u) PROVE HaltInv'
  BY <1>4 DEF StartRun, Goes, StartInv, ListenInv, SessInv, Quiet
<1>5. ASSUME NEW u \in setup.users, StartReturn(u) PROVE HaltInv'
  <2>1. "run_fails" \in setup.may => "early" \notin setup.may
    BY SetupFacts
  <2> QED BY <1>5, <2>1 DEF StartReturn, Goes, StartInv
<1>6. ASSUME NEW u \in setup.users, StartJoin(u) PROVE HaltInv'
  BY <1>6 DEF StartJoin, Goes
<1>7. ASSUME NEW u \in setup.users, StartCatch(u) PROVE HaltInv'
  BY <1>7 DEF StartCatch, Goes, StartInv, CallInv, Building, Starting
<1>8. ASSUME NEW u \in setup.users, future_get_once(u) PROVE HaltInv'
  BY <1>8 DEF future_get_once, Goes
<1>9. ASSUME NEW a \in Actors, StopCall(a) PROVE HaltInv'
  BY <1>9 DEF StopCall, Goes
<1>10. ASSUME NEW a \in Actors, stop_async(a) PROVE HaltInv'
  BY <1>10 DEF stop_async, Goes
<1>11. ASSUME NEW a \in Actors, StopJoin(a) PROVE HaltInv'
  BY <1>11 DEF StopJoin, Goes
<1>12. ASSUME NEW t \in Stoppers, StopperClose(t) PROVE HaltInv'
  BY <1>12 DEF StopperClose, StopperGoes
<1>13. ASSUME NEW t \in Stoppers, StopperCheck(t) PROVE HaltInv'
  BY <1>13 DEF StopperCheck, StopperGoes
<1>14. ASSUME NEW t \in Stoppers, StopperListeners(t) PROVE HaltInv'
  BY <1>14 DEF StopperListeners, StopperGoes
<1>15. ASSUME NEW t \in Stoppers, StopperDisconnect(t) PROVE HaltInv'
  BY <1>15 DEF StopperDisconnect, StopperGoes, Stopped
<1>16. ASSUME NEW t \in Stoppers, StopperPool(t) PROVE HaltInv'
  BY <1>16 DEF StopperPool, StopperGoes, StopInv, Winding
<1>17. ASSUME NEW t \in Stoppers, StopperPublish(t) PROVE HaltInv'
  BY <1>17 DEF StopperPublish, StopperGoes
<1>18. ASSUME NEW l \in Listeners, ListenerResume(l) PROVE HaltInv'
  BY <1>18 DEF ListenerResume, Loop, Listens, StartInv, Building
<1>19. ASSUME NEW l \in Listeners, CloseAcceptor(l) PROVE HaltInv'
  BY <1>19 DEF CloseAcceptor
<1>20. ASSUME NEW l \in Listeners, BackOff(l) PROVE HaltInv'
  BY <1>20 DEF BackOff, Listens
<1>21. ASSUME NEW l \in Listeners, ListenerConnect(l) PROVE HaltInv'
  BY <1>21 DEF ListenerConnect, Loop, Listens, Becomes
<1>22. ASSUME NEW l \in Listeners, ListenerCreated(l) PROVE HaltInv'
  BY <1>22 DEF ListenerCreated, Loop, Listens, Stopped
<1>23. ASSUME NEW l \in Listeners, ListenerExit(l) PROVE HaltInv'
  BY <1>23 DEF ListenerExit, Listens
<1>24. ASSUME NEW l \in Listeners, Accepted(l) PROVE HaltInv'
  BY <1>24 DEF Accepted, Arrival, Loop, Listens, StartInv, CallInv
<1>25. ASSUME NEW l \in Listeners, AcceptFails(l) PROVE HaltInv'
  BY <1>25 DEF AcceptFails, Arrival, Listens, Goes, StartInv, Building, CallInv
<1>26. ASSUME NEW l \in Listeners, AcceptTransient(l) PROVE HaltInv'
  BY <1>26 DEF AcceptTransient, Arrival, Loop, Listens, StartInv, CallInv
<1>27. ASSUME NEW s \in Sessions, SessionDisconnected(s) PROVE HaltInv'
  BY <1>27 DEF SessionDisconnected, Becomes
<1>28. ASSUME NEW s \in Sessions, SessionErase(s) PROVE HaltInv'
  BY <1>28 DEF SessionErase, Becomes
<1>29. ASSUME NEW s \in Sessions, SessionRelease(s) PROVE HaltInv'
  BY <1>29 DEF SessionRelease, Becomes
<1>30. ASSUME NEW s \in Sessions, PeerLeaves(s) PROVE HaltInv'
  BY <1>30 DEF PeerLeaves, Stopped
<1>31. ASSUME NEW s \in Sessions, disconnect(s) PROVE HaltInv'
  BY <1>31 DEF disconnect, Stopped
<1>32. CASE PoolStep
  BY <1>32 DEF PoolStep
<1>33. CASE UNCHANGED vars
  BY <1>33 DEF vars
<1> QED
  BY <1>1, <1>2, <1>3, <1>4, <1>5, <1>6, <1>7, <1>8, <1>9, <1>10, <1>11, <1>12, <1>13, <1>14,
     <1>15, <1>16, <1>17, <1>18, <1>19, <1>20, <1>21, <1>22, <1>23, <1>24, <1>25, <1>26, <1>27, <1>28,
     <1>29, <1>30, <1>31, <1>32, <1>33
  DEF Next, start, StopperStep, ListenerStep, SessionStep

\* The listeners are counted down one by one.
LEMMA CountLemma ==
  ASSUME Undisturbed, ServerInv, [Next]_vars
  PROVE  CountInv'
<1>a. /\ setup.users \subseteq Users /\ setup.listeners \subseteq Listeners /\ Nobody \notin Actors
      /\ Users \cap Listeners = {} /\ Users \cap Sessions = {}
      /\ Listeners \cap Sessions = {}
      /\ TypeOK /\ CallInv /\ StartInv /\ StopInv /\ ListenInv /\ HaltInv /\ CountInv
  BY SetupFacts, ServerAssumption DEF ServerInv
<1> USE <1>a DEF TypeOK, CountInv
<1>1. ASSUME NEW u \in setup.users, StartClaim(u) PROVE CountInv'
  BY <1>1 DEF StartClaim, Goes, StartInv, NotDone
<1>2. ASSUME NEW u \in setup.users, StartReset(u) PROVE CountInv'
  BY <1>2 DEF StartReset, Goes, StartInv, CallInv, Starting, Building
<1>3. ASSUME NEW u \in setup.users, StartBind(u) PROVE CountInv'
  <2>1. pool' = "idle" /\ pool = "idle"
    BY <1>3 DEF StartBind, StartInv
  <2>2. \A b \in Actors : call'[b] = "start_run" => b = u
    BY <1>3 DEF StartBind, Goes, CallInv, Starting, Building
  <2>3. call'[u] = "start_run" => count' = Cardinality(NotDone')
    <3> SUFFICES ASSUME call'[u] = "start_run" PROVE count' = Cardinality(NotDone')
      OBVIOUS
    <3>1. /\ listener' = [l \in Listeners |-> IF l \in setup.listeners THEN "spawned" ELSE "done"]
          /\ count' = Cardinality(setup.listeners)
      BY <1>3 DEF StartBind, Goes
    <3>2. NotDone' = setup.listeners
      BY <3>1 DEF NotDone
    <3> QED BY <3>1, <3>2
  <2> QED BY <2>1, <2>2, <2>3
<1>4. ASSUME NEW u \in setup.users, StartRun(u) PROVE CountInv'
  BY <1>4 DEF StartRun, Goes, StartInv, NotDone
<1>5. ASSUME NEW u \in setup.users, StartReturn(u) PROVE CountInv'
  BY <1>5 DEF StartReturn, Goes, StartInv, NotDone
<1>6. ASSUME NEW u \in setup.users, StartJoin(u) PROVE CountInv'
  BY <1>6 DEF StartJoin, Goes, NotDone
<1>7. ASSUME NEW u \in setup.users, StartCatch(u) PROVE CountInv'
  BY <1>7 DEF StartCatch, Goes, StartInv, CallInv, Starting, Building
<1>8. ASSUME NEW u \in setup.users, future_get_once(u) PROVE CountInv'
  BY <1>8 DEF future_get_once, Goes, NotDone
<1>9. ASSUME NEW a \in Actors, StopCall(a) PROVE CountInv'
  BY <1>9 DEF StopCall, Goes, NotDone
<1>10. ASSUME NEW a \in Actors, stop_async(a) PROVE CountInv'
  BY <1>10 DEF stop_async, Goes, NotDone
<1>11. ASSUME NEW a \in Actors, StopJoin(a) PROVE CountInv'
  BY <1>11 DEF StopJoin, Goes, NotDone
<1>12. ASSUME NEW t \in Stoppers, StopperClose(t) PROVE CountInv'
  BY <1>12 DEF StopperClose, StopperGoes, NotDone
<1>13. ASSUME NEW t \in Stoppers, StopperCheck(t) PROVE CountInv'
  <2>1. pool # "run" => NotDone = {} /\ \A a \in Actors : call[a] # "start_run"
    BY <1>13 DEF StopperCheck, StopperGoes, StopInv, Winding, ListenInv, Starting, Building
  <2>2. NotDone' = NotDone
    BY <1>13 DEF StopperCheck, NotDone
  <2> QED BY <1>13, <2>1, <2>2, FS_EmptySet DEF StopperCheck
<1>14. ASSUME NEW t \in Stoppers, StopperListeners(t) PROVE CountInv'
  BY <1>14 DEF StopperListeners, StopperGoes, NotDone
<1>15. ASSUME NEW t \in Stoppers, StopperDisconnect(t) PROVE CountInv'
  BY <1>15 DEF StopperDisconnect, StopperGoes, NotDone
<1>16. ASSUME NEW t \in Stoppers, StopperPool(t) PROVE CountInv'
  <2>1. NotDone = {} /\ NotDone' = {}
    BY <1>16 DEF StopperPool, StopperGoes, ListenInv, NotDone
  <2>2. pool' \in {"stop", "callback", "over"} /\ count' = count /\ UNCHANGED call
    BY <1>16 DEF StopperPool, StopperGoes, StopInv, Winding
  <2>3. count = 0
    BY <1>16, <2>1, FS_EmptySet DEF StopperPool, StopperGoes, StopInv, Winding
  <2> QED BY <2>1, <2>2, <2>3, FS_EmptySet
<1>17. ASSUME NEW t \in Stoppers, StopperPublish(t) PROVE CountInv'
  BY <1>17 DEF StopperPublish, StopperGoes, NotDone
<1>18. ASSUME NEW l \in Listeners, ListenerResume(l) PROVE CountInv'
  <2>1. NotDone' = NotDone
    BY <1>18 DEF ListenerResume, Loop, Listens, NotDone
  <2> QED BY <1>18, <2>1 DEF ListenerResume
<1>19. ASSUME NEW l \in Listeners, CloseAcceptor(l) PROVE CountInv'
  BY <1>19 DEF CloseAcceptor, NotDone
<1>20. ASSUME NEW l \in Listeners, BackOff(l) PROVE CountInv'
  <2>1. NotDone' = NotDone
    BY <1>20 DEF BackOff, Loop, Listens, NotDone
  <2> QED BY <1>20, <2>1 DEF BackOff
<1>21. ASSUME NEW l \in Listeners, ListenerConnect(l) PROVE CountInv'
  <2>1. NotDone' = NotDone
    BY <1>21 DEF ListenerConnect, Loop, Listens, NotDone
  <2> QED BY <1>21, <2>1 DEF ListenerConnect
<1>22. ASSUME NEW l \in Listeners, ListenerCreated(l) PROVE CountInv'
  <2>1. NotDone' = NotDone
    BY <1>22 DEF ListenerCreated, Loop, Listens, NotDone
  <2> QED BY <1>22, <2>1 DEF ListenerCreated
<1>23. ASSUME NEW l \in Listeners, ListenerExit(l) PROVE CountInv'
  <2>1. pool = "run"
    BY <1>23 DEF ListenerExit, ListenInv, HaltInv, Halted
  <2>2. l \in NotDone /\ NotDone' = NotDone \ {l}
    BY <1>23 DEF ListenerExit, Listens, NotDone
  <2>3. IsFiniteSet(NotDone)
    BY ServerAssumption, FS_Subset DEF NotDone
  <2>4. Cardinality(NotDone') = Cardinality(NotDone) - 1
    BY <2>2, <2>3, FS_RemoveElement
  <2>5. count' = count - 1 /\ pool' = pool /\ UNCHANGED call
    BY <1>23 DEF ListenerExit
  <2>6. \A a \in Actors : call[a] # "start_run"
    BY <2>1 DEF StartInv
  <2> QED BY <2>1, <2>4, <2>5, <2>6
<1>24. ASSUME NEW l \in Listeners, Accepted(l) PROVE CountInv'
  <2>1. NotDone' = NotDone
    BY <1>24 DEF Accepted, Arrival, Loop, Listens, NotDone
  <2> QED BY <1>24, <2>1 DEF Accepted, Arrival
<1>25. ASSUME NEW l \in Listeners, AcceptFails(l) PROVE CountInv'
  <2>1. NotDone' = NotDone
    BY <1>25 DEF AcceptFails, Arrival, Listens, NotDone
  <2>2. \A b \in Actors : call'[b] = "start_run" => call[b] = "start_run"
    BY <1>25 DEF AcceptFails, Goes
  <2> QED BY <1>25, <2>1, <2>2 DEF AcceptFails
<1>26. ASSUME NEW l \in Listeners, AcceptTransient(l) PROVE CountInv'
  <2>1. NotDone' = NotDone
    BY <1>26 DEF AcceptTransient, Arrival, Loop, Listens, NotDone
  <2> QED BY <1>26, <2>1 DEF AcceptTransient, Arrival
<1>27. ASSUME NEW s \in Sessions, SessionDisconnected(s) PROVE CountInv'
  BY <1>27 DEF SessionDisconnected, NotDone
<1>28. ASSUME NEW s \in Sessions, SessionErase(s) PROVE CountInv'
  BY <1>28 DEF SessionErase, NotDone
<1>29. ASSUME NEW s \in Sessions, SessionRelease(s) PROVE CountInv'
  BY <1>29 DEF SessionRelease, NotDone
<1>30. ASSUME NEW s \in Sessions, PeerLeaves(s) PROVE CountInv'
  BY <1>30 DEF PeerLeaves, NotDone
<1>31. ASSUME NEW s \in Sessions, disconnect(s) PROVE CountInv'
  BY <1>31 DEF disconnect, NotDone
<1>32. CASE PoolStep
  <2>1. pool = "run" /\ ~Work => NotDone = {}
    BY DEF Work, NotDone, ListenInv
  <2>2. NotDone' = NotDone /\ UNCHANGED <<count, call>>
    BY <1>32 DEF PoolStep, NotDone
  <2> QED BY <1>32, <2>1, <2>2, FS_EmptySet DEF PoolStep
<1>33. CASE UNCHANGED vars
  BY <1>33 DEF vars, NotDone
<1> QED
  BY <1>1, <1>2, <1>3, <1>4, <1>5, <1>6, <1>7, <1>8, <1>9, <1>10, <1>11, <1>12, <1>13, <1>14,
     <1>15, <1>16, <1>17, <1>18, <1>19, <1>20, <1>21, <1>22, <1>23, <1>24, <1>25, <1>26, <1>27, <1>28,
     <1>29, <1>30, <1>31, <1>32, <1>33
  DEF Next, start, StopperStep, ListenerStep, SessionStep

\* An accepted session belongs to the listener that accepted it.
LEMMA ConnLemma ==
  ASSUME Undisturbed, ServerInv, [Next]_vars
  PROVE  ConnInv'
<1>a. /\ setup.users \subseteq Users /\ setup.listeners \subseteq Listeners /\ Nobody \notin Actors
      /\ Users \cap Listeners = {} /\ Users \cap Sessions = {}
      /\ Listeners \cap Sessions = {}
      /\ TypeOK /\ StartInv /\ ListenInv /\ HaltInv /\ ConnInv /\ SessInv
  BY SetupFacts, ServerAssumption DEF ServerInv
<1> USE <1>a DEF TypeOK, ConnInv
<1>1. ASSUME NEW u \in setup.users, StartClaim(u) PROVE ConnInv'
  BY <1>1 DEF StartClaim, Goes
<1>2. ASSUME NEW u \in setup.users, StartReset(u) PROVE ConnInv'
  BY <1>2 DEF StartReset, Goes, StartInv, ListenInv
<1>3. ASSUME NEW u \in setup.users, StartBind(u) PROVE ConnInv'
  BY <1>3 DEF StartBind, Goes, StartInv, ListenInv, Building
<1>4. ASSUME NEW u \in setup.users, StartRun(u) PROVE ConnInv'
  BY <1>4 DEF StartRun, Goes
<1>5. ASSUME NEW u \in setup.users, StartReturn(u) PROVE ConnInv'
  BY <1>5 DEF StartReturn, Goes
<1>6. ASSUME NEW u \in setup.users, StartJoin(u) PROVE ConnInv'
  BY <1>6 DEF StartJoin, Goes
<1>7. ASSUME NEW u \in setup.users, StartCatch(u) PROVE ConnInv'
  BY <1>7 DEF StartCatch, Goes, StartInv, ListenInv, HaltInv, Halted, Building
<1>8. ASSUME NEW u \in setup.users, future_get_once(u) PROVE ConnInv'
  BY <1>8 DEF future_get_once, Goes
<1>9. ASSUME NEW a \in Actors, StopCall(a) PROVE ConnInv'
  BY <1>9 DEF StopCall, Goes
<1>10. ASSUME NEW a \in Actors, stop_async(a) PROVE ConnInv'
  BY <1>10 DEF stop_async, Goes
<1>11. ASSUME NEW a \in Actors, StopJoin(a) PROVE ConnInv'
  BY <1>11 DEF StopJoin, Goes
<1>12. ASSUME NEW t \in Stoppers, StopperClose(t) PROVE ConnInv'
  BY <1>12 DEF StopperClose, StopperGoes
<1>13. ASSUME NEW t \in Stoppers, StopperCheck(t) PROVE ConnInv'
  BY <1>13 DEF StopperCheck, StopperGoes
<1>14. ASSUME NEW t \in Stoppers, StopperListeners(t) PROVE ConnInv'
  BY <1>14 DEF StopperListeners, StopperGoes
<1>15. ASSUME NEW t \in Stoppers, StopperDisconnect(t) PROVE ConnInv'
  BY <1>15 DEF StopperDisconnect, StopperGoes, Stopped
<1>16. ASSUME NEW t \in Stoppers, StopperPool(t) PROVE ConnInv'
  BY <1>16 DEF StopperPool, StopperGoes
<1>17. ASSUME NEW t \in Stoppers, StopperPublish(t) PROVE ConnInv'
  BY <1>17 DEF StopperPublish, StopperGoes
<1>18. ASSUME NEW l \in Listeners, ListenerResume(l) PROVE ConnInv'
  BY <1>18 DEF ListenerResume, Loop, Listens
<1>19. ASSUME NEW l \in Listeners, CloseAcceptor(l) PROVE ConnInv'
  BY <1>19 DEF CloseAcceptor
<1>20. ASSUME NEW l \in Listeners, BackOff(l) PROVE ConnInv'
  BY <1>20 DEF BackOff, Listens
<1>21. ASSUME NEW l \in Listeners, ListenerConnect(l) PROVE ConnInv'
  BY <1>21 DEF ListenerConnect, Loop, Listens, Becomes
<1>22. ASSUME NEW l \in Listeners, ListenerCreated(l) PROVE ConnInv'
  BY <1>22 DEF ListenerCreated, Loop, Listens, Stopped
<1>23. ASSUME NEW l \in Listeners, ListenerExit(l) PROVE ConnInv'
  BY <1>23 DEF ListenerExit, Listens
<1>24. ASSUME NEW l \in Listeners, Accepted(l) PROVE ConnInv'
  BY <1>24 DEF Accepted, Arrival, Loop, Listens, Becomes
<1>25. ASSUME NEW l \in Listeners, AcceptFails(l) PROVE ConnInv'
  BY <1>25 DEF AcceptFails, Arrival, Listens, Goes
<1>26. ASSUME NEW l \in Listeners, AcceptTransient(l) PROVE ConnInv'
  BY <1>26 DEF AcceptTransient, Arrival, Loop, Listens
<1>27. ASSUME NEW s \in Sessions, SessionDisconnected(s) PROVE ConnInv'
  BY <1>27 DEF SessionDisconnected, Becomes
<1>28. ASSUME NEW s \in Sessions, SessionErase(s) PROVE ConnInv'
  BY <1>28 DEF SessionErase, Becomes
<1>29. ASSUME NEW s \in Sessions, SessionRelease(s) PROVE ConnInv'
  BY <1>29 DEF SessionRelease, Becomes
<1>30. ASSUME NEW s \in Sessions, PeerLeaves(s) PROVE ConnInv'
  BY <1>30 DEF PeerLeaves, Stopped
<1>31. ASSUME NEW s \in Sessions, disconnect(s) PROVE ConnInv'
  BY <1>31 DEF disconnect, Stopped
<1>32. CASE PoolStep
  BY <1>32 DEF PoolStep
<1>33. CASE UNCHANGED vars
  BY <1>33 DEF vars
<1> QED
  BY <1>1, <1>2, <1>3, <1>4, <1>5, <1>6, <1>7, <1>8, <1>9, <1>10, <1>11, <1>12, <1>13, <1>14,
     <1>15, <1>16, <1>17, <1>18, <1>19, <1>20, <1>21, <1>22, <1>23, <1>24, <1>25, <1>26, <1>27, <1>28,
     <1>29, <1>30, <1>31, <1>32, <1>33
  DEF Next, start, StopperStep, ListenerStep, SessionStep

\* Sessions that are told to stop are still counted and registered.
LEMMA StoppedCounts ==
  ASSUME TypeOK, SessInv, NEW S, sess' = Stopped(S), UNCHANGED <<registered, active>>
  PROVE  /\ registered' = {s \in Sessions : sess'[s] \in {"live", "stopping", "callback"}}
         /\ IsFiniteSet(Counted') /\ active' = Cardinality(Counted')
<1>1. Counted' = Counted
  BY DEF Counted, Stopped, TypeOK
<1>2. registered = {s \in Sessions : sess'[s] \in {"live", "stopping", "callback"}}
  BY DEF SessInv, Stopped, TypeOK
<1> QED BY <1>1, <1>2 DEF SessInv

\* Every session is counted from onConnected to the end of its teardown, and
\* registered until it is erased.
LEMMA SessLemma ==
  ASSUME Undisturbed, ServerInv, [Next]_vars
  PROVE  SessInv'
<1>a. /\ setup.users \subseteq Users /\ setup.listeners \subseteq Listeners /\ Nobody \notin Actors
      /\ Users \cap Listeners = {} /\ Users \cap Sessions = {}
      /\ Listeners \cap Sessions = {}
      /\ TypeOK /\ CallInv /\ StartInv /\ StopInv /\ ListenInv /\ HaltInv /\ CountInv /\ ConnInv /\ SessInv
  BY SetupFacts, ServerAssumption DEF ServerInv
<1> USE <1>a DEF TypeOK, Quiet
<1>1. ASSUME NEW u \in setup.users, StartClaim(u) PROVE SessInv'
  BY <1>1 DEF StartClaim, Goes, SessInv, Counted
<1>2. ASSUME NEW u \in setup.users, StartReset(u) PROVE SessInv'
  BY <1>2 DEF StartReset, Goes, SessInv, Counted, StartInv
<1>3. ASSUME NEW u \in setup.users, StartBind(u) PROVE SessInv'
  BY <1>3 DEF StartBind, Goes, SessInv, Counted
<1>4. ASSUME NEW u \in setup.users, StartRun(u) PROVE SessInv'
  BY <1>4 DEF StartRun, Goes, SessInv, Counted
<1>5. ASSUME NEW u \in setup.users, StartReturn(u) PROVE SessInv'
  <2>1. "run_fails" \in setup.may => "early" \notin setup.may
    BY SetupFacts
  <2>2. UNCHANGED sessVars
    BY <1>5 DEF StartReturn
  <2>3. pool' # "run" => Quiet
    BY <1>5, <2>1 DEF StartReturn, SessInv, HaltInv
  <2> QED BY <2>2, <2>3 DEF SessInv, Counted
<1>6. ASSUME NEW u \in setup.users, StartJoin(u) PROVE SessInv'
  BY <1>6 DEF StartJoin, Goes, SessInv, Counted
<1>7. ASSUME NEW u \in setup.users, StartCatch(u) PROVE SessInv'
  BY <1>7 DEF StartCatch, Goes, SessInv, Counted, StartInv, Building
<1>8. ASSUME NEW u \in setup.users, future_get_once(u) PROVE SessInv'
  BY <1>8 DEF future_get_once, Goes, SessInv, Counted
<1>9. ASSUME NEW a \in Actors, StopCall(a) PROVE SessInv'
  BY <1>9 DEF StopCall, Goes, SessInv, Counted
<1>10. ASSUME NEW a \in Actors, stop_async(a) PROVE SessInv'
  BY <1>10 DEF stop_async, Goes, SessInv, Counted
<1>11. ASSUME NEW a \in Actors, StopJoin(a) PROVE SessInv'
  BY <1>11 DEF StopJoin, Goes, SessInv, Counted
<1>12. ASSUME NEW t \in Stoppers, StopperClose(t) PROVE SessInv'
  BY <1>12 DEF StopperClose, StopperGoes, SessInv, Counted
<1>13. ASSUME NEW t \in Stoppers, StopperCheck(t) PROVE SessInv'
  BY <1>13 DEF StopperCheck, StopperGoes, SessInv, Counted
<1>14. ASSUME NEW t \in Stoppers, StopperListeners(t) PROVE SessInv'
  BY <1>14 DEF StopperListeners, StopperGoes, SessInv, Counted
<1>15. ASSUME NEW t \in Stoppers, StopperDisconnect(t) PROVE SessInv'
  <2>1. PICK S : sess' = Stopped(S)
    BY <1>15 DEF StopperDisconnect
  <2>2. UNCHANGED <<registered, active, pool>>
    BY <1>15 DEF StopperDisconnect
  <2>3. Quiet => Quiet'
    BY <2>1 DEF Quiet, Stopped
  <2> QED BY <2>1, <2>2, <2>3, StoppedCounts DEF SessInv
<1>16. ASSUME NEW t \in Stoppers, StopperPool(t) PROVE SessInv'
  <2>1. Counted = {}
    BY <1>16, FS_EmptySet DEF StopperPool, SessionsOver, SessInv
  <2>2. NotDone = {}
    BY <1>16 DEF StopperPool, StopperGoes, ListenInv
  <2>3. Quiet
    BY <2>1, <2>2 DEF Counted, NotDone, ConnInv
  <2>4. UNCHANGED sessVars
    BY <1>16 DEF StopperPool
  <2> QED BY <2>3, <2>4 DEF SessInv, Counted
<1>17. ASSUME NEW t \in Stoppers, StopperPublish(t) PROVE SessInv'
  BY <1>17 DEF StopperPublish, StopperGoes, SessInv, Counted
<1>18. ASSUME NEW l \in Listeners, ListenerResume(l) PROVE SessInv'
  BY <1>18 DEF ListenerResume, Loop, Listens, SessInv, Counted
<1>19. ASSUME NEW l \in Listeners, CloseAcceptor(l) PROVE SessInv'
  BY <1>19 DEF CloseAcceptor, SessInv, Counted
<1>20. ASSUME NEW l \in Listeners, BackOff(l) PROVE SessInv'
  BY <1>20 DEF BackOff, Listens, SessInv, Counted
<1>21. ASSUME NEW l \in Listeners, ListenerConnect(l) PROVE SessInv'
  <2>1. conn[l] \in Sessions /\ sess[conn[l]] = "accepted"
    BY <1>21 DEF ListenerConnect, ConnInv
  <2>2. pool = "run" /\ pool' = "run"
    BY <1>21, <2>1 DEF ListenerConnect, SessInv
  <2>3. CASE Becomes(conn[l], "gone") /\ UNCHANGED <<registered, active>>
    <3>1. Counted' = Counted
      BY <2>1, <2>3 DEF Counted, Becomes
    <3>2. registered = {s \in Sessions : sess'[s] \in {"live", "stopping", "callback"}}
      BY <2>1, <2>3 DEF SessInv, Becomes
    <3> QED BY <2>2, <2>3, <3>1, <3>2 DEF SessInv
  <2>4. CASE /\ Becomes(conn[l], "live")
             /\ registered' = registered \cup {conn[l]} /\ active' = active + 1
    <3>1. Counted' = Counted \cup {conn[l]} /\ conn[l] \notin Counted
      BY <2>1, <2>4 DEF Counted, Becomes
    <3>2. registered' = {s \in Sessions : sess'[s] \in {"live", "stopping", "callback"}}
      BY <2>1, <2>4 DEF SessInv, Becomes
    <3>3. IsFiniteSet(Counted') /\ Cardinality(Counted') = Cardinality(Counted) + 1
      BY <3>1, FS_AddElement DEF SessInv
    <3> QED BY <2>2, <2>4, <3>2, <3>3 DEF SessInv
  <2> QED BY <1>21, <2>3, <2>4 DEF ListenerConnect
<1>22. ASSUME NEW l \in Listeners, ListenerCreated(l) PROVE SessInv'
  <2>1. UNCHANGED <<registered, active, pool>>
    BY <1>22 DEF ListenerCreated
  <2>2. CASE sess' = sess
    BY <2>1, <2>2 DEF SessInv, Counted
  <2>3. CASE sess' = Stopped({conn[l]})
    <3>1. Quiet => Quiet'
      BY <2>3 DEF Stopped
    <3> QED BY <2>1, <2>3, <3>1, StoppedCounts DEF SessInv
  <2> QED BY <1>22, <2>2, <2>3 DEF ListenerCreated
<1>23. ASSUME NEW l \in Listeners, ListenerExit(l) PROVE SessInv'
  BY <1>23 DEF ListenerExit, Listens, SessInv, Counted
<1>24. ASSUME NEW l \in Listeners, Accepted(l) PROVE SessInv'
  <2>1. pool' = "run" /\ UNCHANGED <<registered, active>>
    BY <1>24 DEF Accepted, Arrival
  <2>2. Counted' = Counted
    BY <1>24 DEF Accepted, Becomes, Counted
  <2>3. registered = {s \in Sessions : sess'[s] \in {"live", "stopping", "callback"}}
    BY <1>24 DEF Accepted, Becomes, SessInv
  <2> QED BY <2>1, <2>2, <2>3 DEF SessInv
<1>25. ASSUME NEW l \in Listeners, AcceptFails(l) PROVE SessInv'
  BY <1>25 DEF AcceptFails, Arrival, Listens, Goes, SessInv, Counted
<1>26. ASSUME NEW l \in Listeners, AcceptTransient(l) PROVE SessInv'
  BY <1>26 DEF AcceptTransient, Arrival, Loop, Listens, SessInv, Counted
<1>27. ASSUME NEW s \in Sessions, SessionDisconnected(s) PROVE SessInv'
  <2>1. pool' = "run" /\ UNCHANGED <<registered, active>>
    BY <1>27 DEF SessionDisconnected
  <2>2. Counted' = Counted
    BY <1>27 DEF SessionDisconnected, Becomes, Counted
  <2>3. registered = {x \in Sessions : sess'[x] \in {"live", "stopping", "callback"}}
    BY <1>27 DEF SessionDisconnected, Becomes, SessInv
  <2> QED BY <2>1, <2>2, <2>3 DEF SessInv
<1>28. ASSUME NEW s \in Sessions, SessionErase(s) PROVE SessInv'
  <2>1. pool' = "run" /\ UNCHANGED active
    BY <1>28 DEF SessionErase, SessInv
  <2>2. Counted' = Counted
    BY <1>28 DEF SessionErase, Becomes, Counted
  <2>3. registered' = {x \in Sessions : sess'[x] \in {"live", "stopping", "callback"}}
    BY <1>28 DEF SessionErase, Becomes, SessInv
  <2> QED BY <2>1, <2>2, <2>3 DEF SessInv
<1>29. ASSUME NEW s \in Sessions, SessionRelease(s) PROVE SessInv'
  <2>1. pool' = "run" /\ UNCHANGED registered /\ active' = active - 1
    BY <1>29 DEF SessionRelease, SessInv
  <2>2. Counted' = Counted \ {s} /\ s \in Counted
    BY <1>29 DEF SessionRelease, Becomes, Counted
  <2>3. registered = {x \in Sessions : sess'[x] \in {"live", "stopping", "callback"}}
    BY <1>29 DEF SessionRelease, Becomes, SessInv
  <2>4. IsFiniteSet(Counted') /\ Cardinality(Counted') = Cardinality(Counted) - 1
    BY <2>2, FS_RemoveElement DEF SessInv
  <2> QED BY <2>1, <2>3, <2>4 DEF SessInv
<1>30. ASSUME NEW s \in Sessions, PeerLeaves(s) PROVE SessInv'
  <2>1. PICK S : sess' = Stopped(S)
    BY <1>30 DEF PeerLeaves
  <2>2. UNCHANGED <<registered, active, pool>>
    BY <1>30 DEF PeerLeaves
  <2>3. Quiet => Quiet'
    BY <2>1 DEF Quiet, Stopped
  <2> QED BY <2>1, <2>2, <2>3, StoppedCounts DEF SessInv
<1>31. ASSUME NEW s \in Sessions, disconnect(s) PROVE SessInv'
  <2>1. PICK S : sess' = Stopped(S)
    BY <1>31 DEF disconnect
  <2>2. UNCHANGED <<registered, active, pool>>
    BY <1>31 DEF disconnect
  <2>3. Quiet => Quiet'
    BY <2>1 DEF Quiet, Stopped
  <2> QED BY <2>1, <2>2, <2>3, StoppedCounts DEF SessInv
<1>32. CASE PoolStep
  <2>1. pool' # "run" => Quiet
    BY <1>32 DEF PoolStep, Work, SessInv
  <2>2. UNCHANGED sessVars
    BY <1>32 DEF PoolStep
  <2> QED BY <2>1, <2>2 DEF SessInv, Counted
<1>33. CASE UNCHANGED vars
  BY <1>33 DEF vars, SessInv, Counted
<1> QED
  BY <1>1, <1>2, <1>3, <1>4, <1>5, <1>6, <1>7, <1>8, <1>9, <1>10, <1>11, <1>12, <1>13, <1>14,
     <1>15, <1>16, <1>17, <1>18, <1>19, <1>20, <1>21, <1>22, <1>23, <1>24, <1>25, <1>26, <1>27, <1>28,
     <1>29, <1>30, <1>31, <1>32, <1>33
  DEF Next, start, StopperStep, ListenerStep, SessionStep

\* Every action keeps every variable in its set; the counters do not go below 0.
LEMMA TypeLemma ==
  ASSUME Undisturbed, ServerInv, [Next]_vars
  PROVE  TypeOK'
<1>a. /\ setup.users \subseteq Users /\ setup.listeners \subseteq Listeners /\ Nobody \notin Actors
      /\ Users \cap Listeners = {} /\ Users \cap Sessions = {}
      /\ Listeners \cap Sessions = {}
      /\ TypeOK /\ ListenInv /\ HaltInv /\ CountInv /\ ConnInv /\ SessInv
  BY SetupFacts, ServerAssumption DEF ServerInv
<1> USE <1>a DEF TypeOK, Loop, Becomes, Stopped
<1>1. ASSUME NEW u \in setup.users, StartClaim(u) PROVE TypeOK'
  <2>1. starts' \in 0..MaxStarts
    BY <1>1, ServerAssumption DEF StartClaim
  <2> QED BY <1>1, <2>1 DEF StartClaim, Goes
<1>2. ASSUME NEW u \in setup.users, StartReset(u) PROVE TypeOK'
  BY <1>2 DEF StartReset, Goes
<1>3. ASSUME NEW u \in setup.users, StartBind(u) PROVE TypeOK'
  <2>1. count' \in 0..Cardinality(Listeners)
    <3>1. Cardinality(setup.listeners) \in 0..Cardinality(Listeners)
      BY ServerAssumption, FS_Subset, FS_CardinalityType
    <3> QED BY <1>3, <3>1 DEF StartBind
  <2> QED BY <1>3, <2>1 DEF StartBind, Goes
<1>4. ASSUME NEW u \in setup.users, StartRun(u) PROVE TypeOK'
  BY <1>4 DEF StartRun, Goes
<1>5. ASSUME NEW u \in setup.users, StartReturn(u) PROVE TypeOK'
  BY <1>5 DEF StartReturn, Goes
<1>6. ASSUME NEW u \in setup.users, StartJoin(u) PROVE TypeOK'
  BY <1>6 DEF StartJoin, Goes
<1>7. ASSUME NEW u \in setup.users, StartCatch(u) PROVE TypeOK'
  <2>1. count' \in 0..Cardinality(Listeners)
    BY <1>7, ServerAssumption, FS_CardinalityType DEF StartCatch
  <2> QED BY <1>7, <2>1 DEF StartCatch, Goes
<1>8. ASSUME NEW u \in setup.users, future_get_once(u) PROVE TypeOK'
  BY <1>8 DEF future_get_once, Goes
<1>9. ASSUME NEW a \in Actors, StopCall(a) PROVE TypeOK'
  BY <1>9 DEF StopCall, Goes
<1>10. ASSUME NEW a \in Actors, stop_async(a) PROVE TypeOK'
  <2>1. stopper' \in [Stoppers -> {"close", "check", "listeners", "disconnect", "sessions",
                                  "pool", "done"}]
    BY <1>10 DEF stop_async
  <2>2. holder' \in Actors \cup {Nobody} /\ stopping' \in BOOLEAN
    BY <1>10 DEF stop_async
  <2> QED BY <1>10, <2>1, <2>2 DEF stop_async, Goes
<1>11. ASSUME NEW a \in Actors, StopJoin(a) PROVE TypeOK'
  BY <1>11 DEF StopJoin, Goes
<1>12. ASSUME NEW t \in Stoppers, StopperClose(t) PROVE TypeOK'
  <2>1. ToClose \subseteq Listeners
    BY DEF ToClose
  <2> QED BY <1>12, <2>1 DEF StopperClose, StopperGoes
<1>13. ASSUME NEW t \in Stoppers, StopperCheck(t) PROVE TypeOK'
  <2>1. count' \in 0..Cardinality(Listeners)
    BY <1>13, ServerAssumption, FS_CardinalityType DEF StopperCheck
  <2> QED BY <1>13, <2>1 DEF StopperCheck, StopperGoes
<1>14. ASSUME NEW t \in Stoppers, StopperListeners(t) PROVE TypeOK'
  BY <1>14 DEF StopperListeners, StopperGoes
<1>15. ASSUME NEW t \in Stoppers, StopperDisconnect(t) PROVE TypeOK'
  BY <1>15 DEF StopperDisconnect, StopperGoes
<1>16. ASSUME NEW t \in Stoppers, StopperPool(t) PROVE TypeOK'
  BY <1>16 DEF StopperPool, StopperGoes
<1>17. ASSUME NEW t \in Stoppers, StopperPublish(t) PROVE TypeOK'
  BY <1>17 DEF StopperPublish, StopperGoes
<1>18. ASSUME NEW l \in Listeners, ListenerResume(l) PROVE TypeOK'
  BY <1>18 DEF ListenerResume, Loop, Listens
<1>19. ASSUME NEW l \in Listeners, CloseAcceptor(l) PROVE TypeOK'
  BY <1>19 DEF CloseAcceptor
<1>20. ASSUME NEW l \in Listeners, BackOff(l) PROVE TypeOK'
  BY <1>20 DEF BackOff, Listens
<1>21. ASSUME NEW l \in Listeners, ListenerConnect(l) PROVE TypeOK'
  <2>1. conn[l] \in Sessions
    BY <1>21 DEF ListenerConnect, ConnInv
  <2> QED BY <1>21, <2>1 DEF ListenerConnect, Listens
<1>22. ASSUME NEW l \in Listeners, ListenerCreated(l) PROVE TypeOK'
  BY <1>22 DEF ListenerCreated, Loop, Listens
<1>23. ASSUME NEW l \in Listeners, ListenerExit(l) PROVE TypeOK'
  <2>1. count = Cardinality(NotDone)
    BY <1>23 DEF ListenerExit, ListenInv, HaltInv, Halted, CountInv
  <2>2. IsFiniteSet(NotDone) /\ l \in NotDone
    BY <1>23, ServerAssumption, FS_Subset DEF NotDone, ListenerExit
  <2>3. count \in Nat /\ count # 0
    BY <2>1, <2>2, FS_EmptySet, FS_CardinalityType
  <2>4. count' \in 0..Cardinality(Listeners)
    BY <1>23, <2>3, ServerAssumption, FS_CardinalityType DEF ListenerExit
  <2> QED BY <1>23, <2>4 DEF ListenerExit, Listens
<1>24. ASSUME NEW l \in Listeners, Accepted(l) PROVE TypeOK'
  BY <1>24 DEF Accepted, Arrival, Loop, Listens
<1>25. ASSUME NEW l \in Listeners, AcceptFails(l) PROVE TypeOK'
  BY <1>25 DEF AcceptFails, Arrival, Listens, Goes, record_error
<1>26. ASSUME NEW l \in Listeners, AcceptTransient(l) PROVE TypeOK'
  BY <1>26 DEF AcceptTransient, Arrival, Loop, Listens
<1>27. ASSUME NEW s \in Sessions, SessionDisconnected(s) PROVE TypeOK'
  BY <1>27 DEF SessionDisconnected
<1>28. ASSUME NEW s \in Sessions, SessionErase(s) PROVE TypeOK'
  BY <1>28 DEF SessionErase
<1>29. ASSUME NEW s \in Sessions, SessionRelease(s) PROVE TypeOK'
  <2>1. s \in Counted
    BY <1>29 DEF SessionRelease, Counted
  <2>2. active # 0
    BY <2>1, FS_EmptySet DEF SessInv
  <2>3. active' \in Nat
    BY <1>29, <2>2 DEF SessionRelease
  <2> QED BY <1>29, <2>3 DEF SessionRelease
<1>30. ASSUME NEW s \in Sessions, PeerLeaves(s) PROVE TypeOK'
  BY <1>30 DEF PeerLeaves
<1>31. ASSUME NEW s \in Sessions, disconnect(s) PROVE TypeOK'
  BY <1>31 DEF disconnect
<1>32. CASE PoolStep
  BY <1>32 DEF PoolStep
<1>33. CASE UNCHANGED vars
  BY <1>33 DEF vars
<1> QED
  BY <1>1, <1>2, <1>3, <1>4, <1>5, <1>6, <1>7, <1>8, <1>9, <1>10, <1>11, <1>12, <1>13, <1>14,
     <1>15, <1>16, <1>17, <1>18, <1>19, <1>20, <1>21, <1>22, <1>23, <1>24, <1>25, <1>26, <1>27, <1>28,
     <1>29, <1>30, <1>31, <1>32, <1>33
  DEF Next, start, StopperStep, ListenerStep, SessionStep

\* A listener records its error before it stops the server, and nothing but the next
\* start() clears it.
LEMMA ErrorLemma ==
  ASSUME Undisturbed, ServerInv, [Next]_vars
  PROVE  ErrorInv'
<1>a. /\ setup.users \subseteq Users /\ Nobody \notin Actors
      /\ TypeOK /\ StartInv /\ StopInv /\ ErrorInv
  BY SetupFacts, ServerAssumption DEF ServerInv
<1> USE <1>a DEF TypeOK, ErrorInv
<1>1. ASSUME NEW u \in setup.users, StartClaim(u) PROVE ErrorInv'
  BY <1>1 DEF StartClaim
<1>2. ASSUME NEW u \in setup.users, StartReset(u) PROVE ErrorInv'
  BY <1>2 DEF StartReset
<1>3. ASSUME NEW u \in setup.users, StartBind(u) PROVE ErrorInv'
  BY <1>3 DEF StartBind
<1>4. ASSUME NEW u \in setup.users, StartRun(u) PROVE ErrorInv'
  BY <1>4 DEF StartRun
<1>5. ASSUME NEW u \in setup.users, StartReturn(u) PROVE ErrorInv'
  BY <1>5 DEF StartReturn
<1>6. ASSUME NEW u \in setup.users, StartJoin(u) PROVE ErrorInv'
  BY <1>6 DEF StartJoin
<1>7. ASSUME NEW u \in setup.users, StartCatch(u) PROVE ErrorInv'
  BY <1>7 DEF StartCatch, StartInv, Building
<1>8. ASSUME NEW u \in setup.users, future_get_once(u) PROVE ErrorInv'
  BY <1>8 DEF future_get_once
<1>9. ASSUME NEW a \in Actors, StopCall(a) PROVE ErrorInv'
  BY <1>9 DEF StopCall
<1>10. ASSUME NEW a \in Actors, stop_async(a) PROVE ErrorInv'
  BY <1>10 DEF stop_async
<1>11. ASSUME NEW a \in Actors, StopJoin(a) PROVE ErrorInv'
  BY <1>11 DEF StopJoin
<1>12. ASSUME NEW t \in Stoppers, StopperClose(t) PROVE ErrorInv'
  BY <1>12 DEF StopperClose, StopperGoes, StopInv, Winding
<1>13. ASSUME NEW t \in Stoppers, StopperCheck(t) PROVE ErrorInv'
  BY <1>13 DEF StopperCheck
<1>14. ASSUME NEW t \in Stoppers, StopperListeners(t) PROVE ErrorInv'
  BY <1>14 DEF StopperListeners
<1>15. ASSUME NEW t \in Stoppers, StopperDisconnect(t) PROVE ErrorInv'
  BY <1>15 DEF StopperDisconnect
<1>16. ASSUME NEW t \in Stoppers, StopperPool(t) PROVE ErrorInv'
  BY <1>16 DEF StopperPool
<1>17. ASSUME NEW t \in Stoppers, StopperPublish(t) PROVE ErrorInv'
  BY <1>17 DEF StopperPublish
<1>18. ASSUME NEW l \in Listeners, ListenerResume(l) PROVE ErrorInv'
  BY <1>18 DEF ListenerResume, Loop, Listens
<1>19. ASSUME NEW l \in Listeners, CloseAcceptor(l) PROVE ErrorInv'
  BY <1>19 DEF CloseAcceptor
<1>20. ASSUME NEW l \in Listeners, BackOff(l) PROVE ErrorInv'
  BY <1>20 DEF BackOff, Listens
<1>21. ASSUME NEW l \in Listeners, ListenerConnect(l) PROVE ErrorInv'
  BY <1>21 DEF ListenerConnect, Loop, Listens
<1>22. ASSUME NEW l \in Listeners, ListenerCreated(l) PROVE ErrorInv'
  BY <1>22 DEF ListenerCreated, Loop, Listens
<1>23. ASSUME NEW l \in Listeners, ListenerExit(l) PROVE ErrorInv'
  BY <1>23 DEF ListenerExit, Listens
<1>24. ASSUME NEW l \in Listeners, Accepted(l) PROVE ErrorInv'
  BY <1>24 DEF Accepted, Loop, Listens
<1>25. ASSUME NEW l \in Listeners, AcceptFails(l) PROVE ErrorInv'
  BY <1>25 DEF AcceptFails, record_error, Listens
<1>26. ASSUME NEW l \in Listeners, AcceptTransient(l) PROVE ErrorInv'
  BY <1>26 DEF AcceptTransient, Loop, Listens
<1>27. ASSUME NEW s \in Sessions, SessionDisconnected(s) PROVE ErrorInv'
  BY <1>27 DEF SessionDisconnected
<1>28. ASSUME NEW s \in Sessions, SessionErase(s) PROVE ErrorInv'
  BY <1>28 DEF SessionErase
<1>29. ASSUME NEW s \in Sessions, SessionRelease(s) PROVE ErrorInv'
  BY <1>29 DEF SessionRelease
<1>30. ASSUME NEW s \in Sessions, PeerLeaves(s) PROVE ErrorInv'
  BY <1>30 DEF PeerLeaves
<1>31. ASSUME NEW s \in Sessions, disconnect(s) PROVE ErrorInv'
  BY <1>31 DEF disconnect
<1>32. CASE PoolStep
  BY <1>32 DEF PoolStep
<1>33. CASE UNCHANGED vars
  BY <1>33 DEF vars
<1> QED
  BY <1>1, <1>2, <1>3, <1>4, <1>5, <1>6, <1>7, <1>8, <1>9, <1>10, <1>11, <1>12, <1>13, <1>14,
     <1>15, <1>16, <1>17, <1>18, <1>19, <1>20, <1>21, <1>22, <1>23, <1>24, <1>25, <1>26, <1>27, <1>28,
     <1>29, <1>30, <1>31, <1>32, <1>33
  DEF Next, start, StopperStep, ListenerStep, SessionStep

----------------------------------------------------------------------------
(* What follows from the inductive invariant *)

\* A new server satisfies it.
LEMMA ServerInit == Init => ServerInv
<1> SUFFICES ASSUME Init PROVE ServerInv
  OBVIOUS
<1>1. TypeOK
  <2>1. 0 \in 0..Cardinality(Listeners) /\ 0 \in 0..MaxStarts
    BY ServerAssumption, FS_CardinalityType
  <2> QED BY <2>1, ServerAssumption DEF Init, TypeOK
<1>2. CallInv /\ StartInv /\ StopInv /\ StageInv
  BY DEF Init, CallInv, StartInv, StopInv, StageInv, Building, Starting, Winding
<1>3. setup.listeners \subseteq Listeners
  BY <1>1, ServerAssumption DEF TypeOK
<1>4. ListenInv /\ HaltInv /\ ConnInv
  BY <1>3 DEF Init, ListenInv, HaltInv, ConnInv, NotDone
<1>5. CountInv
  BY DEF Init, CountInv
<1>6. Counted = {} /\ Quiet
  BY DEF Init, Counted, Quiet
<1>7. registered = {s \in Sessions : sess[s] \in {"live", "stopping", "callback"}}
  BY DEF Init
<1>8. SessInv
  BY <1>6, <1>7, FS_EmptySet DEF Init, SessInv
<1>9. ErrorInv
  BY DEF Init, ErrorInv
<1> QED BY <1>1, <1>2, <1>4, <1>5, <1>8, <1>9 DEF ServerInv

\* Every step keeps it: the lemmas above, one conjunct each.
LEMMA ServerStep == ASSUME Undisturbed, ServerInv, [Next]_vars PROVE ServerInv'
  BY TypeLemma, CallLemma, StartLemma, StopLemma, StageLemma, ListenLemma, HaltLemma,
     CountLemma, ConnLemma, SessLemma, ErrorLemma
  DEF ServerInv

\* The inductive invariant holds throughout.
THEOREM ServerInvariance == ASSUME Undisturbed PROVE Spec => []ServerInv
  BY ServerInit, ServerStep, PTL DEF Spec

\* m_acceptors_running_count is the number of listeners still to exit, and
\* m_active_sessions the number of sessions whose teardown is not complete: what the
\* stopping thread waits for reaches 0 when it should and never wraps.
THEOREM CountsAreExact == ASSUME Undisturbed PROVE Spec => []CountsExact
<1>1. ServerInv => CountsExact
  BY DEF ServerInv, CountInv, SessInv, CountsExact, NotDone, Counted
<1> QED BY <1>1, ServerInvariance, PTL

\* OnStoppedListening is invoked when no listener and no session is left, and before
\* the server can be started again.
THEOREM StoppedComesLast == ASSUME Undisturbed PROVE Spec => []StoppedIsLast
<1>1. ServerInv => StoppedIsLast
  <2> SUFFICES ASSUME ServerInv, pool = "callback"
               PROVE  /\ running /\ stopping
                      /\ \A l \in Listeners : listener[l] = "done"
                      /\ \A s \in Sessions : sess[s] \in {"none", "gone"}
                      /\ registered = {}
    BY DEF StoppedIsLast
  <2>1. running /\ stopping
    BY DEF ServerInv, StopInv
  <2>2. \A l \in Listeners : listener[l] = "done"
    BY DEF ServerInv, ListenInv, NotDone
  <2>3. Quiet
    BY DEF ServerInv, SessInv
  <2>4. registered = {}
    BY <2>3 DEF ServerInv, SessInv, Quiet
  <2> QED BY <2>1, <2>2, <2>3, <2>4 DEF Quiet
<1> QED BY <1>1, ServerInvariance, PTL

\* A server that says it is stopped has no session left and no pool that could still
\* run a handler or a callback: it may be destroyed or started again.
THEOREM StoppedIsStopped == ASSUME Undisturbed PROVE Spec => []StoppedMeansStopped
<1>1. ServerInv => StoppedMeansStopped
  <2> SUFFICES ASSUME ServerInv, ~running PROVE pool \in {"none", "over"} /\ registered = {}
    BY DEF StoppedMeansStopped
  <2>1. pool \in {"none", "over"}
    BY DEF ServerInv, StageInv
  <2>2. Quiet
    BY <2>1 DEF ServerInv, SessInv
  <2>3. registered = {}
    BY <2>2 DEF ServerInv, SessInv, Quiet
  <2> QED BY <2>1, <2>3
<1> QED BY <1>1, ServerInvariance, PTL

\* What StartAsserts says of one step.
AssertStep == ~running /\ running' => active = 0 /\ count = 0

\* The assertions at the head of start() hold whenever it claims the server.
THEOREM StartFindsNothingLeft == ASSUME Undisturbed PROVE Spec => StartAsserts
<1>1. ServerInv /\ [Next]_vars => [AssertStep]_vars
  <2> SUFFICES ASSUME ServerInv, ~running PROVE active = 0 /\ count = 0
    BY DEF AssertStep
  <2>1. pool \in {"none", "over"}
    BY DEF ServerInv, StageInv
  <2>2. count = 0
    BY <2>1 DEF ServerInv, CountInv
  <2>3. Counted = {}
    BY <2>1 DEF ServerInv, SessInv, Quiet, Counted
  <2> QED BY <2>2, <2>3, FS_EmptySet DEF ServerInv, SessInv
<1>2. StartAsserts <=> [][AssertStep]_vars
  BY PTL DEF StartAsserts, AssertStep
<1> QED BY <1>1, <1>2, ServerInvariance, PTL DEF Spec

\* A server brought down by a listener is never reported as stopped cleanly: its
\* error was recorded before the stop began and has not been cleared since, although
\* the listener may have failed while start() was in run().
THEOREM FailureIsReported == ASSUME Undisturbed PROVE Spec => []FailureReported
<1>1. ServerInv => FailureReported
  BY DEF ServerInv, ErrorInv, FailureReported
<1> QED BY <1>1, ServerInvariance, PTL

============================================================================
