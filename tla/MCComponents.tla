---------------------------- MODULE MCComponents ----------------------------
(***************************************************************************)
(* The components that do not depend on each other, checked in one run: a     *)
(* behaviour is one of the component that `part` names, while the others stay *)
(* as they are constructed.                                                   *)
(***************************************************************************)
EXTENDS FileWriter, RollingBuffer, TcpClientSync, TcpClient, StateMachine, BackgroundTimer

VARIABLE part

parts == <<part, vars, bufferVars, syncVars, clientVars, machineVars, timerVars>>

MCSizes == 0..3

\* What is chosen at construction is chosen for the component that is looked at.
ComponentsInit ==
    /\ part \in {"writer", "buffer", "sync", "client", "machine", "timer"}
    /\ Init /\ BufferInit /\ SyncInit /\ ClientInit /\ MachineInit /\ TimerInit
    /\ part # "buffer" => cbSize = 0 /\ maxSize = 0
    /\ part # "client" => cOwn
    /\ part # "machine" => mForever

WriterPart ==
    /\ part = "writer" /\ Next
    /\ UNCHANGED <<part, bufferVars, syncVars, clientVars, machineVars, timerVars>>

BufferPart ==
    /\ part = "buffer" /\ BufferNext
    /\ UNCHANGED <<part, vars, syncVars, clientVars, machineVars, timerVars>>

SyncPart ==
    /\ part = "sync" /\ SyncNext
    /\ UNCHANGED <<part, vars, bufferVars, clientVars, machineVars, timerVars>>

ClientPart ==
    /\ part = "client" /\ ClientNext
    /\ UNCHANGED <<part, vars, bufferVars, syncVars, machineVars, timerVars>>

MachinePart ==
    /\ part = "machine" /\ MachineNext
    /\ UNCHANGED <<part, vars, bufferVars, syncVars, clientVars, timerVars>>

TimerPart ==
    /\ part = "timer" /\ TimerNext
    /\ UNCHANGED <<part, vars, bufferVars, syncVars, clientVars, machineVars>>

ComponentsNext == WriterPart \/ BufferPart \/ SyncPart \/ ClientPart \/ MachinePart \/ TimerPart

ComponentsSpec ==
    /\ ComponentsInit /\ [][ComponentsNext]_parts
    /\ Fairness /\ ClientFairness /\ MachineFairness
=============================================================================
