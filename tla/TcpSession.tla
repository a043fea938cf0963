----------------------------- MODULE TcpSession -----------------------------
(***************************************************************************)
(* One sg::net::tcp_session: the life of a TCP connection from start() to   *)
(* the final notification that it has stopped.                              *)
(*                                                                          *)
(* The session is shared by user threads (Users; one of them, Starter,      *)
(* calls start()) and by the handlers of its strand: the reader and writer  *)
(* coroutines and close_impl().  The strand runs one handler at a time, up  *)
(* to its next co_await; user threads interleave with it freely.  A step is *)
(* what the code does in one critical section of m_write_mutex, in one      *)
(* atomic operation on m_state, or between two points where another thread  *)
(* could tell the difference.                                               *)
(*                                                                          *)
(* Messages are numbered in the order write() accepts them; Size gives the  *)
(* number of bytes of each.  Their contents are left out.                   *)
(***************************************************************************)
EXTENDS Naturals, Sequences, FiniteSets

CONSTANTS Users,          \* threads of the program that hold the session
          Starter,        \* the one that calls start()
          Strand,         \* the session's strand, as an actor
          MaxWrites,      \* bound: writes accepted in a behaviour
          Size,           \* Size[m]: bytes of the m-th accepted message
          HighWaterMark,  \* options_t::write_high_water_mark (0: unlimited)
          Timeouts,       \* values of "timeout_msec # 0" the program uses
          EarlySharing,   \* do other threads hold the session before onConnected?
          StarterInPool   \* is start() called on a thread of the I/O pool?

ASSUME SessionAssumption ==
    /\ Starter \in Users
    /\ Strand \notin Users
    /\ MaxWrites \in Nat
    /\ Size \in [1..MaxWrites -> Nat]
    /\ HighWaterMark \in Nat
    /\ Timeouts \subseteq BOOLEAN /\ Timeouts # {}
    /\ EarlySharing \in BOOLEAN /\ StarterInPool \in BOOLEAN

VARIABLES
    state,        \* m_state
    startCalled,  \* m_start_called
    owed,         \* m_disconnection_callback_owed
    scheduled,    \* m_write_scheduled
    msgs,         \* m_write_msgs, as message numbers
    queued,       \* m_queued_bytes
    writing,      \* m_writing_bytes
    timeout,      \* m_options.timeout_msec # 0
    exception,    \* m_exception: "none" or the kind of error
    open,         \* m_socket.is_open()
    start,        \* where Starter is inside start()
    call,         \* per actor: what is left of the library call it is in
    strand,       \* the handler step the strand is executing
    resume,       \* where an inline close_impl() returns to
    closing,      \* close_impl() handlers posted to the strand
    reader,       \* the reader coroutine
    spawned,      \* writer coroutines spawned and not yet run
    inflight,     \* suspended writers: their async_write operations
    peer,         \* the other end of the connection (environment)
    accepted,     \* history: messages accepted by write()
    sent,         \* history: messages the socket has taken, in order
    connected,    \* history: invocations of onConnected
    reports,      \* history: the arguments onDisconnected was invoked with
    closedBy      \* history: the close() call that won

threadVars == <<start, call, startCalled, owed, connected>>
queueVars  == <<scheduled, msgs, queued, accepted>>
strandVars == <<strand, resume, reader>>
ioVars     == <<inflight, writing, sent>>
endVars    == <<exception, open, reports>>
vars == <<state, threadVars, queueVars, strandVars, ioVars, endVars, timeout,
          closing, spawned, peer, closedBy>>

Actors == Users \cup {Strand}
Messages == 1..MaxWrites

\* state_t
States == {"running", "stop_requested", "stopping", "stopped"}

\* What onDisconnected is told: a null exception_ptr or the kind of error.
Reasons == {"none", "error", "time_out"}

\* Where the starting thread can be.
StartSteps == {"none", "options", "owe", "on_connected", "catch", "record", "stop",
               "wait", "returned"}

\* The points in the strand's handlers where another thread can interleave.
StrandSteps == {"idle", "close_impl", "disconnected_cb",
                "reader", "data_cb", "reader_catch", "reader_close",
                "writer", "writer_check", "writer_drained", "writer_close"}

\* A pending async_write: its batch and how many messages of it the socket has
\* taken, whether cancel_after guards it, its outcome.
Write == [batch: Seq(Messages), taken: Nat, timed: BOOLEAN,
          result: {"pending", "ok", "aborted", "error"}]

\* The bytes in a sequence of messages.
Bytes(s) == LET sum[i \in 0..Len(s)] == IF i = 0 THEN 0 ELSE sum[i - 1] + Size[s[i]]
            IN  sum[Len(s)]

pending_bytes == queued + writing

\* Does a handler that runs user code occupy the strand?
InCallback == strand \in {"data_cb", "disconnected_cb"}

\* An actor may call into the session when it is in no other call and holds it.
CanCall(a) ==
    /\ call[a] = "idle"
    /\ CASE a = Strand  -> InCallback
         [] a = Starter -> start \in {"none", "on_connected", "returned"}
         [] OTHER       -> EarlySharing \/ start \notin {"none", "options", "owe"}

Goes(a, c) == call' = [call EXCEPT ![a] = c]

----------------------------------------------------------------------------
(* create() and the constructor *)
Init ==
    /\ state = "stopped" /\ startCalled = FALSE /\ owed = FALSE
    /\ scheduled = FALSE /\ msgs = <<>> /\ queued = 0 /\ writing = 0
    /\ timeout \in Timeouts /\ exception = "none" /\ open = TRUE
    /\ start = "none" /\ call = [a \in Actors |-> "idle"]
    /\ strand = "idle" /\ resume = "idle" /\ closing = 0
    /\ reader = "none" /\ spawned = 0 /\ inflight = {}
    /\ peer = "up" /\ accepted = 0 /\ sent = <<>>
    /\ connected = 0 /\ reports = <<>> /\ closedBy = "nobody"

----------------------------------------------------------------------------
(* write(), stop_async(), stop_async_force(), set_timeout(): any actor *)

\* write(): tested before the new message is counted.
BelowMark == HighWaterMark = 0 \/ pending_bytes < HighWaterMark

\* Mutant: every write spawns a writer.
need_spawn_always == TRUE

\* write(): no writer is scheduled yet.
need_spawn == ~scheduled

\* write(): the critical section.  A refused write throws and changes nothing.
WriteQueue(a) ==
    /\ CanCall(a)
    /\ accepted < MaxWrites
    /\ state = "running"
    /\ BelowMark
    /\ accepted' = accepted + 1
    /\ queued' = queued + Size[accepted + 1]
    /\ msgs' = Append(msgs, accepted + 1)
    /\ scheduled' = TRUE
    /\ IF need_spawn THEN Goes(a, "spawn") ELSE UNCHANGED call
    /\ UNCHANGED <<state, start, startCalled, owed, connected, strandVars, ioVars,
                   endVars, timeout, closing, spawned, peer, closedBy>>

\* Mutants of TakeBatch: the queue is copied instead of swapped; the count of the last batch is not reset.
TakeBatch_copies ==
    /\ msgs' = msgs /\ scheduled' = (scheduled /\ msgs # <<>>)
    /\ queued' = queued - Bytes(msgs) /\ writing' = Bytes(msgs)
    /\ UNCHANGED accepted

TakeBatch_keepsCount ==
    /\ msgs' = <<>> /\ scheduled' = (scheduled /\ msgs # <<>>)
    /\ queued' = queued - Bytes(msgs)
    /\ writing' = IF msgs = <<>> THEN writing ELSE Bytes(msgs)
    /\ UNCHANGED accepted

\* The writer's critical section: it takes every queued message.
TakeBatch ==
    /\ msgs' = <<>>
    /\ scheduled' = (scheduled /\ msgs # <<>>)
    /\ queued' = queued - Bytes(msgs)
    /\ writing' = Bytes(msgs)
    /\ UNCHANGED accepted

\* Mutant: the timeout is not applied.
IssueWrite_untimed ==
    inflight' = inflight \cup {[batch |-> msgs, taken |-> 0, timed |-> FALSE,
                                result |-> "pending"]}

\* writer(): async_write on what TakeBatch took; the coroutine suspends.
IssueWrite ==
    inflight' = inflight \cup {[batch |-> msgs, taken |-> 0, timed |-> timeout,
                                result |-> "pending"]}

\* write(): co_spawn, outside the lock.  On the strand itself Asio may run the
\* coroutine inline up to its first suspension.
SpawnWriter(a) ==
    /\ call[a] = "spawn"
    /\ Goes(a, "idle")
    /\ \/ /\ spawned' = spawned + 1
          /\ UNCHANGED <<queueVars, ioVars>>
       \/ /\ a = Strand /\ msgs # <<>>
          /\ TakeBatch
          /\ IssueWrite
          /\ UNCHANGED <<spawned, sent>>
    /\ UNCHANGED <<state, start, startCalled, owed, connected, strandVars, endVars,
                   timeout, closing, peer, closedBy>>

\* Mutants: the close is always left to a writer; never left to one.
shouldClose_never == FALSE
shouldClose_always == TRUE

\* stop_async(): no writer will see the request, so the caller closes.
shouldClose == ~scheduled

\* stop_async(): the critical section.  With a writer scheduled the close is its job.
StopRequest(a) ==
    /\ state = "running"
    /\ state' = "stop_requested"
    /\ IF shouldClose THEN Goes(a, "close") ELSE UNCHANGED call
    /\ UNCHANGED <<queueVars, startCalled, owed, connected, strandVars, ioVars,
                   endVars, timeout, closing, spawned, peer, closedBy>>

stop_async(a) == CanCall(a) /\ StopRequest(a) /\ UNCHANGED start

\* close(): one caller wins the transition and dispatches close_impl(), which
\* runs inline when the caller is on the strand (returning to `back`).
Close(a, who, back) ==
    /\ state \in {"running", "stop_requested"}
    /\ state' = "stopping"
    /\ closedBy' = who
    /\ IF a = Strand
       THEN /\ strand' = "close_impl" /\ resume' = back
            /\ UNCHANGED closing
       ELSE /\ closing' = closing + 1
            /\ UNCHANGED <<strand, resume>>

\* close() when another caller has won already.
CloseLost(back) ==
    /\ state \in {"stopping", "stopped"}
    /\ strand' = back
    /\ UNCHANGED <<state, closedBy, resume, closing>>

\* stop_async(): close() after the lock is released.
StopClose(a) ==
    /\ call[a] = "close"
    /\ Goes(a, "idle")
    /\ \/ Close(a, "stop_async", strand)
       \/ CloseLost(strand)
    /\ UNCHANGED <<queueVars, start, startCalled, owed, connected, reader, ioVars,
                   endVars, timeout, spawned, peer>>

stop_async_force(a) ==
    /\ CanCall(a)
    /\ Close(a, "stop_async_force", strand)
    /\ UNCHANGED <<threadVars, queueVars, reader, ioVars, endVars, timeout,
                   spawned, peer>>

\* apply_timeout_unsafe(): setsockopt throws on a closed socket.
ApplyTimeout(v) == timeout' = IF open THEN v ELSE timeout

\* set_timeout() off the strand: posts a task and blocks on its future.
SetTimeoutPost(a, v) ==
    /\ a # Strand /\ CanCall(a)
    /\ Goes(a, IF v THEN "timeout_on" ELSE "timeout_off")
    /\ UNCHANGED <<state, start, startCalled, owed, connected, queueVars, strandVars,
                   ioVars, endVars, timeout, closing, spawned, peer, closedBy>>

\* The task on the strand; the caller's future becomes ready.
SetTimeoutRun(a) ==
    /\ strand = "idle"
    /\ call[a] \in {"timeout_on", "timeout_off"}
    /\ ApplyTimeout(call[a] = "timeout_on")
    /\ Goes(a, "idle")
    /\ UNCHANGED <<state, start, startCalled, owed, connected, queueVars, strandVars,
                   ioVars, endVars, closing, spawned, peer, closedBy>>

\* set_timeout() from a callback: dispatch runs the task inline.
SetTimeoutInline(v) ==
    /\ CanCall(Strand)
    /\ ApplyTimeout(v)
    /\ UNCHANGED <<state, threadVars, queueVars, strandVars, ioVars, endVars,
                   closing, spawned, peer, closedBy>>

----------------------------------------------------------------------------
(* start(), by Starter *)

StartRest == <<queueVars, strandVars, ioVars, open, reports, timeout, closing,
               spawned, peer, closedBy>>

\* Mutant: m_start_called is not tested.
StartBegin_again ==
    /\ start \in {"none", "returned"} /\ call[Starter] = "idle"
    /\ state = "stopped"
    /\ startCalled' = TRUE
    /\ state' = "running"
    /\ start' = "options"
    /\ UNCHANGED <<StartRest, call, owed, connected, exception>>

\* start(): claims the session; a second call throws.
StartBegin ==
    /\ start \in {"none", "returned"} /\ call[Starter] = "idle"
    /\ ~startCalled /\ state = "stopped"
    /\ startCalled' = TRUE
    /\ state' = "running"
    /\ start' = "options"
    /\ UNCHANGED <<StartRest, call, owed, connected, exception>>

\* The socket options and endpoints; this throws if the peer has gone.
StartOptions ==
    /\ start = "options"
    /\ \/ open /\ start' = "owe"
       \/ (~open \/ peer = "gone") /\ start' = "catch"
    /\ UNCHANGED <<StartRest, call, startCalled, state, owed, connected, exception>>

\* Marks the disconnection callback as owed and invokes onConnected.
StartConnected ==
    /\ start = "owe"
    /\ owed' = TRUE
    /\ connected' = connected + 1
    /\ start' = "on_connected"
    /\ UNCHANGED <<StartRest, call, startCalled, state, exception>>

\* onConnected returns and the reader is spawned, or it throws.
StartReader ==
    /\ start = "on_connected" /\ call[Starter] = "idle"
    /\ \/ start' = "returned" /\ reader' = "spawned"
       \/ start' = "catch" /\ UNCHANGED reader
    /\ UNCHANGED <<state, call, startCalled, owed, connected, queueVars, strand,
                   resume, ioVars, endVars, timeout, closing, spawned, peer, closedBy>>

\* catch: is the error to be recorded?
StartCatch ==
    /\ start = "catch"
    /\ start' = IF state = "running" THEN "record" ELSE "stop"
    /\ UNCHANGED <<StartRest, call, startCalled, state, owed, connected, exception>>

\* Mutant: the test for an earlier exception is inverted.
Record_inverted(e) == exception' = IF exception # "none" THEN e ELSE exception

\* The first exception recorded wins.
Record(e) == exception' = IF exception = "none" THEN e ELSE exception

StartRecord ==
    /\ start = "record"
    /\ Record("error")
    /\ start' = "stop"
    /\ UNCHANGED <<StartRest, call, startCalled, state, owed, connected>>

\* catch: stop_async()
StartStop ==
    /\ start = "stop"
    /\ start' = "wait"
    /\ \/ StopRequest(Starter)
       \/ /\ state # "running"
          /\ UNCHANGED <<StartRest, call, startCalled, state, owed, connected, exception>>

\* Off the I/O threads the caller waits for the session to stop; on one it
\* does not.  The exception is rethrown.
StartRethrow ==
    /\ start = "wait" /\ call[Starter] = "idle"
    /\ StarterInPool \/ state = "stopped"
    /\ start' = "returned"
    /\ UNCHANGED <<StartRest, call, startCalled, state, owed, connected, exception>>

----------------------------------------------------------------------------
(* close_impl() on the strand *)

StrandRest == <<startCalled, owed, connected, start, call, queueVars, ioVars,
                timeout, spawned, peer>>

\* A posted close_impl() reaches the front of the strand.
CloseImplBegin ==
    /\ strand = "idle" /\ closing > 0
    /\ closing' = closing - 1
    /\ strand' = "close_impl" /\ resume' = "idle"
    /\ UNCHANGED <<StrandRest, state, reader, endVars, closedBy>>

\* Mutant: the callback is invoked whether owed or not.
CloseImpl_alwaysReports ==
    /\ strand = "close_impl"
    /\ open' = FALSE
    /\ reports' = Append(reports, exception)
    /\ strand' = "disconnected_cb"
    /\ UNCHANGED <<StrandRest, state, resume, reader, exception, closing, closedBy>>

\* Shuts the socket down, reads m_exception, invokes onDisconnected if owed.
CloseImpl ==
    /\ strand = "close_impl"
    /\ open' = FALSE
    /\ reports' = IF owed THEN Append(reports, exception) ELSE reports
    /\ strand' = "disconnected_cb"
    /\ UNCHANGED <<StrandRest, state, resume, reader, exception, closing, closedBy>>

\* onDisconnected has returned or thrown: the session is stopped.
CloseImplEnd ==
    /\ strand = "disconnected_cb" /\ call[Strand] = "idle"
    /\ state' = "stopped"
    /\ strand' = resume
    /\ UNCHANGED <<StrandRest, resume, reader, endVars, closing, closedBy>>

----------------------------------------------------------------------------
(* reader() on the strand *)

\* First entry, or back in the loop: wait for data while the socket is open.
ReaderLoop ==
    /\ \/ strand = "idle" /\ reader = "spawned"
       \/ strand = "reader"
    /\ IF open
       THEN /\ reader' = "reading" /\ strand' = "idle"
       ELSE /\ reader' = "done" /\ strand' = "reader_close"
    /\ UNCHANGED <<StrandRest, state, resume, endVars, closing, closedBy>>

\* The receive completes: with data, with eof or a reset, or because the socket closed.
ReadComplete ==
    /\ reader = "reading"
    /\ \/ open /\ peer = "up" /\ reader' = "data"
       \/ (~open \/ peer # "up") /\ reader' = "failed"
    /\ UNCHANGED <<StrandRest, state, strand, resume, endVars, closing, closedBy>>

\* The reader resumes with data and invokes onDataAvailable.
DataAvailable ==
    /\ strand = "idle" /\ reader = "data"
    /\ strand' = "data_cb" /\ reader' = "loop"
    /\ UNCHANGED <<StrandRest, state, resume, endVars, closing, closedBy>>

\* onDataAvailable returns or throws.
DataReturn ==
    /\ strand = "data_cb" /\ call[Strand] = "idle"
    /\ strand' \in {"reader", "reader_catch"}
    /\ UNCHANGED <<StrandRest, state, resume, reader, endVars, closing, closedBy>>

\* catch in reader(): only an error while running is recorded.
ReaderCatch ==
    /\ \/ strand = "idle" /\ reader = "failed"
       \/ strand = "reader_catch"
    /\ IF state = "running" THEN Record("error") ELSE UNCHANGED exception
    /\ reader' = "done" /\ strand' = "reader_close"
    /\ UNCHANGED <<StrandRest, state, resume, open, reports, closing, closedBy>>

\* Mutant: the reader ends without close().
ReaderClose_missing ==
    /\ strand = "reader_close"
    /\ strand' = "idle"
    /\ UNCHANGED <<StrandRest, reader, endVars, state, resume, closing, closedBy>>

ReaderClose ==
    /\ strand = "reader_close"
    /\ Close(Strand, "reader", "idle") \/ CloseLost("idle")
    /\ UNCHANGED <<StrandRest, reader, endVars>>

----------------------------------------------------------------------------
(* writer() on the strand *)

\* One turn of the loop: take the queue; write it, or leave if it was empty.
WriterTurn ==
    /\ TakeBatch
    /\ IF msgs = <<>>
       THEN strand' = "writer_check" /\ UNCHANGED inflight
       ELSE strand' = "idle" /\ IssueWrite
    /\ UNCHANGED <<sent, state, threadVars, resume, reader, endVars, timeout,
                   closing, peer, closedBy>>

WriterBegin ==
    /\ strand = "idle" /\ spawned > 0
    /\ spawned' = spawned - 1
    /\ WriterTurn

WriterNext == strand = "writer" /\ WriterTurn /\ UNCHANGED spawned

\* Mutant: the writer leaves without looking at m_state.
WriterCheck_leaves ==
    /\ strand = "writer_check"
    /\ strand' = "idle"
    /\ UNCHANGED <<StrandRest, state, resume, reader, endVars, closing, closedBy>>

\* The queue was empty: close if a stop has been requested meanwhile.
WriterCheck ==
    /\ strand = "writer_check"
    /\ strand' = IF state # "running" THEN "writer_drained" ELSE "idle"
    /\ UNCHANGED <<StrandRest, state, resume, reader, endVars, closing, closedBy>>

\* The socket takes the next message of a batch.
WriteSome ==
    \E w \in inflight :
        /\ open /\ peer # "gone"
        /\ w.result = "pending" /\ w.taken < Len(w.batch)
        /\ inflight' = (inflight \ {w}) \cup {[w EXCEPT !.taken = @ + 1]}
        /\ sent' = Append(sent, w.batch[w.taken + 1])
        /\ UNCHANGED <<state, threadVars, queueVars, strandVars, endVars, timeout,
                       writing, closing, spawned, peer, closedBy>>

\* The operation completes: all is written, or it fails because the timeout
\* elapsed or the socket was closed ("aborted"), or the peer reset the connection.
Outcome(w) == {r \in {"ok", "aborted", "error"} :
                 CASE r = "ok"      -> w.taken = Len(w.batch)
                   [] r = "aborted" -> w.taken < Len(w.batch) /\ (w.timed \/ ~open)
                   [] r = "error"   -> w.taken < Len(w.batch) /\ open /\ peer = "gone"}

WriteComplete ==
    \E w \in inflight :
        /\ w.result = "pending"
        /\ \E r \in Outcome(w) :
              inflight' = (inflight \ {w}) \cup {[w EXCEPT !.result = r]}
        /\ UNCHANGED <<state, threadVars, queueVars, strandVars, endVars, timeout,
                       writing, sent, closing, spawned, peer, closedBy>>

\* The writer resumes: go round again, or fail (a timeout while running throws time_out).
WriterResume ==
    /\ strand = "idle"
    /\ \E w \in inflight :
          /\ w.result # "pending"
          /\ inflight' = inflight \ {w}
          /\ IF w.result = "ok"
             THEN strand' = "writer" /\ UNCHANGED exception
             ELSE /\ strand' = "writer_close"
                  /\ IF state = "running"
                     THEN Record(IF w.timed /\ w.result = "aborted"
                                 THEN "time_out" ELSE "error")
                     ELSE UNCHANGED exception
    /\ UNCHANGED <<state, threadVars, queueVars, resume, reader, writing, sent, open,
                   reports, timeout, closing, spawned, peer, closedBy>>

\* close() at the end of writer(), after a failure or with everything written.
WriterClose ==
    /\ strand \in {"writer_close", "writer_drained"}
    /\ \/ Close(Strand, IF strand = "writer_close" THEN "writer" ELSE "drained", "idle")
       \/ CloseLost("idle")
    /\ UNCHANGED <<StrandRest, reader, endVars>>

----------------------------------------------------------------------------
(* the peer *)

\* The peer shuts down its sending side (it may still read), or goes away.
PeerLeaves ==
    /\ \/ peer = "up" /\ peer' = "half"
       \/ peer # "gone" /\ peer' = "gone"
    /\ UNCHANGED <<state, threadVars, queueVars, strandVars, ioVars, endVars, timeout,
                   closing, spawned, closedBy>>

----------------------------------------------------------------------------
UserCall(a) ==
    \/ WriteQueue(a)
    \/ stop_async(a)
    \/ stop_async_force(a)
    \/ \E v \in Timeouts : SetTimeoutPost(a, v)

\* What a thread that is inside the library does next.
ThreadStep(a) == SpawnWriter(a) \/ StopClose(a)

StartStep == StartOptions \/ StartConnected \/ StartReader \/ StartCatch
             \/ StartRecord \/ StartStop \/ StartRethrow

CloserStep == CloseImplBegin \/ CloseImpl \/ CloseImplEnd
ReaderStep == ReaderLoop \/ DataAvailable \/ DataReturn \/ ReaderCatch \/ ReaderClose
WriterStep == WriterBegin \/ WriterNext \/ WriterCheck \/ WriterResume \/ WriterClose

Next ==
    \/ \E a \in Actors : UserCall(a) \/ ThreadStep(a)
    \/ \E v \in Timeouts : SetTimeoutInline(v)
    \/ StartBegin \/ StartStep
    \/ CloserStep \/ ReaderStep \/ WriterStep
    \/ \E a \in Users : SetTimeoutRun(a)
    \/ ReadComplete \/ WriteSome \/ WriteComplete
    \/ PeerLeaves

\* Fairness.  A strand serves its handlers in the order they become ready, so
\* none waits for ever while the pool runs (SF: other handlers occupy the strand
\* in between).  Threads inside the library and callbacks finish, and the kernel
\* completes an operation whose outcome is due: a write that is all taken, timed
\* out, or cut by a close or a reset; a read that was cut.  Nothing obliges the
\* peer to send, to read or to leave, or the program to call anything.
ReadFails == ReadComplete /\ reader' = "failed"

Fairness ==
    /\ \A a \in Actors : WF_vars(ThreadStep(a))
    /\ \A a \in Users : SF_vars(SetTimeoutRun(a))
    /\ WF_vars(StartStep) /\ SF_vars(StartReader)
    /\ SF_vars(CloserStep) /\ SF_vars(ReaderStep) /\ SF_vars(WriterStep)
    /\ WF_vars(ReadFails) /\ WF_vars(WriteComplete)

Spec == Init /\ [][Next]_vars
FairSpec == Spec /\ Fairness

----------------------------------------------------------------------------
(* Properties *)

\* The type invariant (of the byte counters, ByteCounts says more).
ControlTypeOK ==
    /\ state \in States /\ startCalled \in BOOLEAN /\ owed \in BOOLEAN
    /\ scheduled \in BOOLEAN /\ msgs \in Seq(Messages)
    /\ timeout \in BOOLEAN /\ exception \in Reasons /\ open \in BOOLEAN
    /\ start \in StartSteps
    /\ call \in [Actors -> {"idle", "spawn", "close", "timeout_on", "timeout_off"}]
    /\ strand \in StrandSteps /\ resume \in {"idle", "data_cb"}
    /\ closing \in Nat /\ spawned \in Nat
    /\ reader \in {"none", "spawned", "reading", "data", "failed", "loop", "done"}
    /\ inflight \subseteq Write
    /\ peer \in {"up", "half", "gone"}
    /\ accepted \in 0..MaxWrites /\ sent \in Seq(Messages)
    /\ connected \in Nat /\ reports \in Seq(Reasons)
    /\ closedBy \in {"nobody", "stop_async", "stop_async_force", "reader", "writer",
                     "drained"}

\* Actors between queueing the message that needs a writer and spawning it.
Spawning == {a \in Actors : call[a] = "spawn"}

\* Is there a writer, or about to be one, that will look at the queue again?
HasWriter == Spawning # {} \/ spawned > 0 \/ inflight # {} \/ strand = "writer"

\* There is never more than one writer, in any of the forms a writer takes, and
\* none unless m_write_scheduled says so: two would interleave their async_writes
\* on one socket.
SingleWriter ==
    /\ \A a, b \in Spawning : a = b
    /\ spawned <= 1
    /\ \A v, w \in inflight : v = w
    /\ Spawning # {} => spawned = 0 /\ inflight = {} /\ strand # "writer"
    /\ spawned > 0 => inflight = {} /\ strand # "writer"
    /\ inflight # {} => strand # "writer"
    /\ HasWriter => scheduled

\* A requested stop is always somebody's job: a writer that will find the queue
\* empty, the caller of stop_async(), or the handler now at a close() on the strand.
CloseIsAssigned ==
    state = "stop_requested" =>
        \/ HasWriter
        \/ \E a \in Actors : call[a] = "close"
        \/ strand \in {"writer_check", "writer_drained", "writer_close"}

\* The peer is sent what write() accepted, in the order it was accepted.
InOrder == \A i \in 1..Len(sent) : i <= accepted /\ sent[i] = i

\* A stop_async() that closes the socket itself, because it found no writer
\* scheduled, drops nothing that write() accepted.
StopWithoutWriterDrains == closedBy = "stop_async" => Len(sent) = accepted

\* A graceful stop that no failure cuts short drops nothing: not through the
\* writer either, which closes when it has found the queue empty.
GracefulStopDrains ==
    closedBy \in {"stop_async", "drained"} => Len(sent) = accepted

\* The byte counters, which are unsigned, are those of the queue and of the batch
\* being written, return to 0 when no writer is scheduled, and exceed the mark by
\* less than the last message accepted.
ByteCounts ==
    /\ queued = Bytes(msgs)
    /\ \A w \in inflight : writing = Bytes(w.batch)
    /\ ~scheduled => pending_bytes = 0
    /\ HighWaterMark > 0 /\ accepted > 0 => pending_bytes < HighWaterMark + Size[accepted]

\* onDisconnected is invoked once for a session that onConnected was invoked
\* for, and never otherwise, when the session has stopped and start() has returned.
\* (If no other thread can stop it before onConnected is reached.)
CallbacksPaired ==
    /\ Len(reports) <= 1
    /\ (start = "returned" /\ state = "stopped" /\ ~EarlySharing) => Len(reports) = connected

\* A stopped session is closed for good: nothing is accepted, sent or reported
\* any more, and it never runs again.
FinalStep ==
    startCalled /\ state = "stopped" =>
        state' = "stopped" /\ ~open' /\ UNCHANGED <<accepted, sent, reports>>
StoppedIsFinal == [][FinalStep]_vars

\* A running session that its reader or writer brings down has the error recorded
\* for onDisconnected: only a requested stop is reported as clean.
FailureIsRecorded ==
    [][state = "running" /\ state' = "stopping" /\ closedBy' \in {"reader", "writer"}
         => exception # "none"]_vars

\* A requested stop completes when writes have a timeout.
StopCompletes == (state \in {"stop_requested", "stopping"}) ~> (state = "stopped")

\* A session whose peer leaves stops by itself once its reader runs.
PeerLossStops == (reader # "none" /\ peer # "up") ~> (state = "stopped")

\* Every accepted message is sent, or the session stops.
WritesProgress ==
    \A m \in Messages : (accepted >= m) ~> (Len(sent) >= m \/ state = "stopped")

----------------------------------------------------------------------------
(* A statement of the documentation that the code does not keep *)

\* tcp_server.h on session(id): inside OnSessionDataAvailable "the id is stable,
\* because the data callback and the session's teardown share its strand": the
\* callback never begins on a session whose disconnection has been reported.
DataOnlyBeforeTeardown == [][DataAvailable => reports = <<>>]_vars
============================================================================
