---------------------------- MODULE MCTcpServer ----------------------------
(* Instances of TcpServer for TLC. *)
EXTENDS TcpServer

OneUser == {CHOOSE u \in Users : TRUE}
OneListener == {CHOOSE l \in Listeners : TRUE}

\* Two threads and one endpoint, with a network or a thread library that misbehaves
\* while start() is in run(); and one thread and two endpoints.
UsualSetups ==
    {[users |-> Users, listeners |-> OneListener, may |-> {"early"}],
     [users |-> Users, listeners |-> OneListener, may |-> {"run_fails"}],
     [users |-> OneUser, listeners |-> Listeners, may |-> {"early"}]}

\* One thread, which calls stop_async() after a start() that threw.
LateStopSetups ==
    {[users |-> OneUser, listeners |-> OneListener, may |-> {"early", "stop_after_failure"}]}
=============================================================================
