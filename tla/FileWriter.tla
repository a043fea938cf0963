----------------------------- MODULE FileWriter -----------------------------
(***************************************************************************)
(* sg::file_writer: buffers are queued by any thread and written to a file   *)
(* by a thread of the writer's own.  start() and stop() belong to one        *)
(* thread, the controller.  Buffers are numbered in the order in which       *)
(* write_async() queued them and are all one unit long.                      *)
(*                                                                           *)
(* m_signal is a binary semaphore, and releasing it beyond one is undefined: *)
(* the count goes up all the same (libstdc++) or stays at one (MSVC).        *)
(* The stream's exception mask is never set, so that a failing open or write *)
(* turns the stream bad and later writes into no-ops, and throws nothing:    *)
(* the catch clause around the writes is never entered.                      *)
(***************************************************************************)
EXTENDS Naturals, Sequences, SequencesExt

CONSTANTS MaxWrites,      \* bound: write_async() calls
          MaxRuns         \* bound: start() calls

ASSUME FileWriterAssumption ==
    MaxWrites \in Nat /\ MaxRuns \in Nat

VARIABLES
    data,      \* m_data, the queue
    signal,    \* the count of m_signal
    stopTok,   \* the stop token of m_thread
    thread,    \* where action() is; "none" when m_thread is not joinable
    batch,     \* m_old_data, local to action()
    count,     \* count, local to action()
    good,      \* the state of m_file
    file,      \* the contents of m_file
    byteCount, \* m_byte_count
    ctl,       \* where the controller is in stop()
    queued,    \* history: write_async() calls so far
    runs,      \* history: start() calls so far
    older,     \* history: the contents of the files of earlier runs
    mark,      \* history: queued, when stop() was last called
    flawless   \* history: no stream has failed so far

vars == <<data, signal, stopTok, thread, batch, count, good, file, byteCount, ctl,
          queued, runs, older, mark, flawless>>
history == <<queued, runs, older, mark, flawless>>

Init ==
    /\ data = <<>> /\ signal = 0 /\ stopTok = FALSE /\ thread = "none"
    /\ batch = <<>> /\ count = 0 /\ good = TRUE /\ file = <<>> /\ byteCount = 0
    /\ ctl = "idle" /\ queued = 0 /\ runs = 0 /\ older = <<>> /\ mark = 0
    /\ flawless = TRUE

Release == signal' \in {1, signal + 1}
----------------------------------------------------------------------------
(* The controller *)

\* start(): refused while m_thread is joinable; m_data and m_signal are kept.
start ==
    /\ ctl = "idle" /\ thread = "none" /\ runs < MaxRuns
    /\ byteCount' = 0
    /\ older' = older \o file /\ file' = <<>>
    /\ good' \in BOOLEAN
    /\ flawless' = (flawless /\ good')
    /\ thread' = "test" /\ stopTok' = FALSE
    /\ runs' = runs + 1
    /\ UNCHANGED <<data, signal, batch, count, ctl, queued, mark>>

\* stop(): requests the stop, releases m_signal and joins.
stop ==
    /\ ctl = "idle" /\ thread # "none"
    /\ stopTok' = TRUE
    /\ mark' = queued
    /\ ctl' = "release"
    /\ UNCHANGED <<data, signal, thread, batch, count, good, file, byteCount, queued, runs, older,
                   flawless>>

\* Mutant: the thread waiting for data is not woken.
StopRelease_missing ==
    /\ ctl = "release"
    /\ ctl' = "join"
    /\ UNCHANGED <<data, signal, stopTok, thread, batch, count, good, file, byteCount, history>>

StopRelease ==
    /\ ctl = "release"
    /\ Release
    /\ ctl' = "join"
    /\ UNCHANGED <<data, stopTok, thread, batch, count, good, file, byteCount, history>>

StopJoin ==
    /\ ctl = "join" /\ thread = "done"
    /\ thread' = "none" /\ ctl' = "idle"
    /\ UNCHANGED <<data, signal, stopTok, batch, count, good, file, byteCount, history>>

----------------------------------------------------------------------------
(* Any thread *)

\* Mutant: the writer is only woken for the first buffer.
write_async_once ==
    /\ queued < MaxWrites
    /\ data' = Append(data, queued + 1)
    /\ queued' = queued + 1
    /\ IF queued = 0 THEN Release ELSE UNCHANGED signal
    /\ UNCHANGED <<stopTok, thread, batch, count, good, file, byteCount, ctl, runs, older, mark,
                   flawless>>

\* write_async(): queues the buffer and releases m_signal, both under m_mutex.
write_async ==
    /\ queued < MaxWrites
    /\ data' = Append(data, queued + 1)
    /\ queued' = queued + 1
    /\ Release
    /\ UNCHANGED <<stopTok, thread, batch, count, good, file, byteCount, ctl, runs, older, mark,
                   flawless>>

----------------------------------------------------------------------------
(* action(), on m_thread *)

TestStop ==
    /\ thread = "test"
    /\ thread' = IF stopTok THEN "swap" ELSE "acquire"
    /\ UNCHANGED <<data, signal, stopTok, batch, count, good, file, byteCount, ctl, history>>

Acquire ==
    /\ thread = "acquire" /\ signal > 0
    /\ signal' = signal - 1
    /\ thread' = "swap"
    /\ UNCHANGED <<data, stopTok, batch, count, good, file, byteCount, ctl, history>>

\* Mutant: the queue is copied and not emptied.
Swap_copies ==
    /\ thread = "swap"
    /\ batch' = data /\ count' = 0
    /\ thread' = "write"
    /\ UNCHANGED <<data, signal, stopTok, good, file, byteCount, ctl, history>>

Swap ==
    /\ thread = "swap"
    /\ batch' = data /\ data' = <<>> /\ count' = 0
    /\ thread' = "write"
    /\ UNCHANGED <<signal, stopTok, good, file, byteCount, ctl, history>>

\* Writes the first buffer of the batch; a stream that is bad, or turns bad,
\* swallows it, and it is counted all the same.
Write ==
    /\ thread = "write" /\ batch # <<>>
    /\ good' \in {good, FALSE}
    /\ flawless' = (flawless /\ good')
    /\ file' = IF good' THEN Append(file, Head(batch)) ELSE file
    /\ batch' = Tail(batch)
    /\ count' = count + 1
    /\ UNCHANGED <<data, signal, stopTok, thread, byteCount, ctl, queued, runs, older, mark>>

Count ==
    /\ thread = "write" /\ batch = <<>>
    /\ byteCount' = byteCount + count /\ count' = 0
    /\ thread' = "leave"
    /\ UNCHANGED <<data, signal, stopTok, batch, good, file, ctl, history>>

\* Mutant: what was queued during the last write is not looked for.
Leave_atOnce ==
    /\ thread = "leave"
    /\ thread' = IF stopTok THEN "close" ELSE "test"
    /\ UNCHANGED <<data, signal, stopTok, batch, count, good, file, byteCount, ctl, history>>

\* The loop ends when a stop is requested and, under m_mutex, the queue is empty.
Leave ==
    /\ thread = "leave"
    /\ thread' = IF stopTok /\ data = <<>> THEN "close" ELSE "test"
    /\ UNCHANGED <<data, signal, stopTok, batch, count, good, file, byteCount, ctl, history>>

\* Closes the file and calls the stop callback.
Close ==
    /\ thread = "close"
    /\ thread' = "done"
    /\ UNCHANGED <<data, signal, stopTok, batch, count, good, file, byteCount, ctl, history>>

action == TestStop \/ Acquire \/ Swap \/ Write \/ Count \/ Leave \/ Close

Next == start \/ stop \/ StopRelease \/ StopJoin \/ write_async \/ action

Spec == Init /\ [][Next]_vars

\* Both threads are scheduled and m_mutex is held for a moment only; nobody has
\* to call anything.
Fairness == WF_vars(action) /\ WF_vars(StopRelease \/ StopJoin)
----------------------------------------------------------------------------
(* Properties *)

Numbers == 1..MaxWrites

\* The type invariant; the semaphore is released once per call and run at most.
TypeOK ==
    /\ data \in Seq(Numbers) /\ batch \in Seq(Numbers)
    /\ file \in Seq(Numbers) /\ older \in Seq(Numbers)
    /\ signal \in 0..(MaxWrites + MaxRuns)
    /\ thread \in {"none", "test", "acquire", "swap", "write", "leave", "close", "done"}
    /\ ctl \in {"idle", "release", "join"}
    /\ stopTok \in BOOLEAN /\ good \in BOOLEAN
    /\ count \in 0..MaxWrites /\ byteCount \in 0..MaxWrites
    /\ queued \in 0..MaxWrites /\ mark \in 0..MaxWrites /\ runs \in 0..MaxRuns
    /\ flawless \in BOOLEAN

\* As long as no stream fails nothing is lost, duplicated or reordered: the files
\* so far, the batch in hand and the queue are what was queued, in that order,
\* across stops and restarts.
InOrder ==
    flawless =>
        older \o file \o batch \o data = [i \in 1..queued |-> i]

\* "stops the writer and flushes the queue": once stop() has returned, whatever
\* was queued before it was called has been written, however it raced the thread.
StopFlushes ==
    flawless /\ thread = "none" /\ runs > 0 =>
        Len(older) + Len(file) >= mark

\* stop() returns, whatever the writers do.
StopReturns == (ctl # "idle") ~> (ctl = "idle")

\* A running writer gets to every buffer without being told again.
QueueDrains == \A n \in Numbers :
    (Contains(data, n) /\ thread # "none" /\ ~stopTok) ~> ~Contains(data, n)
============================================================================
