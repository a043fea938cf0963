------------------------------ MODULE MCWorker ------------------------------
(* Instances of Worker for TLC. *)
EXTENDS Worker

MCTargets == {1, 2}
One == CHOOSE u \in Users : TRUE

\* Two threads that share a worker, whose interval is changed now and then; one
\* thread, a start callback that throws and a stop callback that restarts.
MCSetups == {[users |-> Users, throws |-> FALSE, restarts |-> FALSE, retimes |-> TRUE],
             [users |-> {One}, throws |-> TRUE, restarts |-> FALSE, retimes |-> TRUE],
             [users |-> {One}, throws |-> TRUE, restarts |-> TRUE, retimes |-> TRUE]}

\* Two threads, and a start callback that throws.
ThrowingSetups == {[users |-> Users, throws |-> TRUE, restarts |-> FALSE, retimes |-> FALSE]}
=============================================================================
