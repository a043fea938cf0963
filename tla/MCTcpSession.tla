---------------------------- MODULE MCTcpSession ----------------------------
(* Instances of TcpSession for TLC. *)
EXTENDS TcpSession

\* Two messages that together exceed the mark, and an empty one.
MCSize == [m \in 1..MaxWrites |-> CASE m = 1 -> 1 [] m = 2 -> 2 [] OTHER -> 0]
=============================================================================
