------------------------------ MODULE TcpClient ------------------------------
(***************************************************************************)
(* sg::net::tcp_client: a session and the pool it needs.  The pool is the     *)
(* client's own, without a work guard, so that it ends when nothing is left   *)
(* to do; or it is given to the client, and guarded.  One thread connects,    *)
(* disconnects and destroys the client.                                       *)
(*                                                                           *)
(* Of the pool this model has whether it executes handlers, and that run()    *)
(* waits for a cycle that is ending (AsioIoPool); of a session, that stopping *)
(* it takes a handler of the pool (TcpSession).                              *)
(***************************************************************************)
EXTENDS Naturals

CONSTANT MaxReaders   \* bound: readers of earlier sessions still ending at a connect()

ASSUME ClientAssumption == MaxReaders \in Nat \ {0}

VARIABLES
    cOwn,      \* the pool is the client's own
    cPool,     \* m_context: "running", "draining" (stopped, threads left) or "idle"
    cGuard,    \* connect() holds its work guard
    cConnect,  \* the coroutine that connects: "none", "running", "made" or "failed"
    cSession,  \* m_session: "none", "running", "stopping" or "stopped"
    cReaders,  \* reader coroutines not ended yet, of earlier sessions too
    cCall      \* where the user's call is

clientVars == <<cOwn, cPool, cGuard, cConnect, cSession, cReaders, cCall>>

ClientInit ==
    /\ cOwn \in BOOLEAN
    /\ cPool = "idle" /\ cGuard = FALSE /\ cConnect = "none"
    /\ cSession = "none" /\ cReaders = 0 /\ cCall = "idle"

\* io_context: outstanding work
ClientWork == cGuard \/ ~cOwn \/ cConnect = "running" \/ cReaders > 0 \/ cSession = "stopping"

SessionOver == cSession \in {"none", "stopped"}

\* stop_async() on the session, if there is one and it has not stopped
SessionStop == cSession' = IF cSession = "running" THEN "stopping" ELSE cSession

----------------------------------------------------------------------------
(* The user's thread *)

\* connect(): refused while the session is connected.  One that is not is stopped.
ConnectBegin ==
    /\ cCall = "idle" /\ cSession # "running" /\ cReaders < MaxReaders
    /\ SessionStop
    /\ cCall' = "wait_old"
    /\ UNCHANGED <<cOwn, cPool, cGuard, cConnect, cReaders>>

\* wait_until_stopped(); resolving the name may fail.
ConnectResolve ==
    /\ cCall = "wait_old" /\ SessionOver
    /\ cSession' = "none"
    /\ cCall' \in {"guard", "idle"}
    /\ UNCHANGED <<cOwn, cPool, cGuard, cConnect, cReaders>>

\* Mutant: no work guard is taken.
ConnectGuard_none ==
    /\ cCall = "guard"
    /\ cCall' = "run"
    /\ UNCHANGED <<cOwn, cPool, cGuard, cConnect, cSession, cReaders>>

ConnectGuard ==
    /\ cCall = "guard"
    /\ cGuard' = TRUE /\ cCall' = "run"
    /\ UNCHANGED <<cOwn, cPool, cConnect, cSession, cReaders>>

\* Mutant: run() takes a pool that is ending for a running one.
ConnectRun_draining ==
    /\ cCall = "run"
    /\ cPool' = IF cPool = "draining" THEN cPool ELSE "running"
    /\ cCall' = "spawn"
    /\ UNCHANGED <<cOwn, cGuard, cConnect, cSession, cReaders>>

\* m_context->run() waits for a cycle that is ending, and begins one if there is none;
\* or its threads cannot be created, and connect() throws.
ConnectRun ==
    /\ cCall = "run" /\ cPool # "draining"
    /\ \/ cPool' = "running" /\ cCall' = "spawn" /\ UNCHANGED cGuard
       \/ cPool = "idle" /\ cCall' = "idle" /\ cGuard' = FALSE /\ UNCHANGED cPool
    /\ UNCHANGED <<cOwn, cConnect, cSession, cReaders>>

ConnectSpawn ==
    /\ cCall = "spawn"
    /\ cConnect' = "running" /\ cCall' = "get"
    /\ UNCHANGED <<cOwn, cPool, cGuard, cSession, cReaders>>

\* fut.get(): throws if the connection failed or timed out; the guard goes out of scope.
ConnectGet ==
    /\ cCall = "get" /\ cConnect \in {"made", "failed"}
    /\ cConnect' = "none"
    /\ IF cConnect = "made" THEN cCall' = "start" /\ UNCHANGED cGuard
                            ELSE cCall' = "idle" /\ cGuard' = FALSE
    /\ UNCHANGED <<cOwn, cPool, cSession, cReaders>>

\* m_session->start() spawns the reader; or it fails, stops the session and waits for
\* that on the pool.
ConnectStart ==
    /\ cCall = "start"
    /\ \/ /\ cSession' = "running" /\ cReaders' = cReaders + 1
          /\ cCall' = "idle" /\ cGuard' = FALSE
       \/ /\ cSession' = "stopping" /\ cCall' = "failed"
          /\ UNCHANGED <<cReaders, cGuard>>
    /\ UNCHANGED <<cOwn, cPool, cConnect>>

ConnectFailed ==
    /\ cCall = "failed" /\ SessionOver
    /\ cSession' = "none" /\ cCall' = "idle" /\ cGuard' = FALSE
    /\ UNCHANGED <<cOwn, cPool, cConnect, cReaders>>

\* disconnect(), on its own or in the destructor: stops the session and waits.
Disconnect ==
    /\ cCall = "idle"
    /\ SessionStop
    /\ cCall' \in {"wait", "destroy"}
    /\ UNCHANGED <<cOwn, cPool, cGuard, cConnect, cReaders>>

DisconnectWait ==
    /\ cCall \in {"wait", "destroy"} /\ SessionOver
    /\ cCall' = IF cCall = "wait" THEN "idle" ELSE "over"
    /\ UNCHANGED <<cOwn, cPool, cGuard, cConnect, cSession, cReaders>>

ClientCalls == ConnectBegin \/ Disconnect
ClientStep == ConnectResolve \/ ConnectGuard \/ ConnectRun \/ ConnectSpawn \/ ConnectGet
              \/ ConnectStart \/ ConnectFailed \/ DisconnectWait

----------------------------------------------------------------------------
(* The pool: handlers are executed only while it runs *)

ConnectDone ==
    /\ cPool = "running" /\ cConnect = "running"
    /\ cConnect' \in {"made", "failed"}
    /\ UNCHANGED <<cOwn, cPool, cGuard, cSession, cReaders, cCall>>

\* close_impl()
SessionClosed ==
    /\ cPool = "running" /\ cSession = "stopping"
    /\ cSession' = "stopped"
    /\ UNCHANGED <<cOwn, cPool, cGuard, cConnect, cReaders, cCall>>

\* The reader of a session that was closed ends, or that of the live one does, when
\* the peer leaves, and closes the session.
ReaderEnds ==
    /\ cPool = "running"
    /\ cReaders > IF cSession = "running" THEN 1 ELSE 0
    /\ cReaders' = cReaders - 1
    /\ UNCHANGED <<cOwn, cPool, cGuard, cConnect, cSession, cCall>>

PeerLeft ==
    /\ cPool = "running" /\ cSession = "running"
    /\ cSession' = "stopping" /\ cReaders' = cReaders - 1
    /\ UNCHANGED <<cOwn, cPool, cGuard, cConnect, cCall>>

\* A cycle ends when the context has run out of work.
PoolDrains ==
    /\ cPool = "running" /\ ~ClientWork
    /\ cPool' = "draining"
    /\ UNCHANGED <<cOwn, cGuard, cConnect, cSession, cReaders, cCall>>

PoolEnds ==
    /\ cPool = "draining"
    /\ cPool' = "idle"
    /\ UNCHANGED <<cOwn, cGuard, cConnect, cSession, cReaders, cCall>>

ClientPool == ConnectDone \/ SessionClosed \/ ReaderEnds \/ PoolDrains \/ PoolEnds

ClientNext == ClientCalls \/ ClientStep \/ ClientPool \/ PeerLeft

ClientSpec == ClientInit /\ [][ClientNext]_clientVars

\* The threads are scheduled; a connection is made, refused or times out; nobody
\* has to call and no peer has to leave.
ClientFairness == WF_clientVars(ClientStep) /\ WF_clientVars(ConnectDone)
                  /\ WF_clientVars(SessionClosed) /\ WF_clientVars(PoolDrains \/ PoolEnds)

----------------------------------------------------------------------------
(* Properties *)

\* Whoever needs the pool has it: it never runs out of work between run() and the
\* session's first read, however connects follow disconnects, and is never left
\* ending while a session is live or a thread waits for one to stop.
ClientServed ==
    cCall \in {"get", "start", "failed"} \/ cSession \in {"running", "stopping"}
        => cPool = "running"

\* connect(), disconnect() and the destructor return, also when they meet the pool
\* that an earlier connection has just let run out of work.
ClientReturns == (cCall \notin {"idle", "over"}) ~> (cCall \in {"idle", "over"})
=============================================================================
