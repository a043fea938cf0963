---------------------------- MODULE MCAsioIoPool ----------------------------
(* Instances of AsioIoPool for TLC. *)
EXTENDS AsioIoPool

Restart == <<"stop", "wait", "run">>
Single(calls) == {<<c>> : c \in calls}

\* Every entry point, from everywhere it may be called.
AllUsers == Single({"run", "stop", "wait", "post"}) \cup {Restart}
AllHandlers == Single({"stop", "post"})
AllCallbacks == Single({"stop", "wait", "run"}) \cup {Restart}

\* The stopped-callback does not stop the pool again.
QuietCallbacks == Single({"wait", "run"})

\* Whoever posts or stops makes sure that the pool runs afterwards, as
\* tcp_client::connect() and restart() do.
PostAndRun == {<<"post", "run">>, Restart} \cup Single({"run", "wait"})
QuietHandlers == Single({"post"})
=============================================================================
