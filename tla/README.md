# Verification of libsg

TLA+ models of the concurrent core of [libsg](../src/README.md), TLC
configurations that check them on small instances, and TLAPS proofs of the
properties that matter most, for every value of the constants. `PROJECT.json`
maps each definition to the source lines it stands for.

## The system

libsg is a C++ utility library in three parts: `net` (asynchronous and
synchronous TCP over Boost.Asio), `common` (threads, files, buffers, strings,
checksums) and `imgui` (user-interface wrappers).

| component | state | operations | interaction | what is hard | what makes it correct |
|---|---|---|---|---|---|
| `tcp_session` | four-state `m_state`, write queue and its flag, byte counters, first exception, callback owed | `start`, `write`, `stop_async`, `stop_async_force`, `set_timeout`, coroutines `reader` and `writer`, `close` | user threads and one strand of an I/O pool; callbacks re-enter it | two locks' worth of state handed from callers to a coroutine; timeouts; teardown racing completions | one writer, in order, counted; a stop is always somebody's job and completes; callbacks are paired; stopped is final |
| `asio_io_pool` | cycle flag, `io_context`, work guard, worker and monitor threads | `run`, `stop_async`, `wait_for_stop`, `restart` | runs everybody's handlers; calls back when a cycle ends | cycles that end by themselves; thread creation failing half-way; re-entry from the callback | a cycle always has an owner, one callback, and never overlaps the next; nothing posted is stranded |
| `tcp_server` | running flag, stop flag, acceptors, sessions, counters of both | `start`, `stop_async`, accept loops, session callbacks | one pool, many sessions, a stopping thread | start racing stop; accept failing; sessions created during a stop | a stop ends with no session, no acceptor and one notification, and leaves nothing to the next run |
| `tcp_client` | pool, one session | `connect`, `disconnect` | one session on its own or a shared pool | callbacks on the pool; connection timeouts; a pool that runs out of work | whoever waits for the pool is served, and every call returns |
| `tcp_client_sync` | socket, read buffer | `connect`, `read*`, `write` | none | timeouts half-way through a read | no byte lost or duplicated |
| `worker` | two-state `m_state`, stop flag, iteration count and target, notification semaphore, thread, start promise, result future | `start`, `request_stop`, `request_stop_after_iterations`, `notify`, `wait_for_stop` | user threads and three callbacks on its own thread | starts, stops and joins from several threads; failing callbacks | one thread at a time; a stop or a target is honoured; nothing of one run leaks into the next |
| `state_machine` | current and requested state | `set_state`, `start`, `stop` | a `worker` | requests during callbacks | entry and exit callbacks alternate |
| `background_timer` | running and stop flags, sleeper | `start`, `request_stop`, `wait_for_stop`, `set_interval` | its own thread | locks held over callbacks; a restart before the last callback | a run reports its own exception |
| `file_writer` | queue, binary semaphore, file, thread | `start`, `stop`, `write_async` | writers, a controller, its thread | the last buffers before a stop | flushed in order when `stop` returns |
| `rolling_contiguous_buffer`, data channels | vector and two positions | `push_back`, `append`, `resize` | none | index arithmetic | the last N elements |
| bounds, ranges, bytes, crc, version, string, ... | none | pure functions | none | edges | equal to their definitions |
| imgui, native sockets, processes, files, cpu, locale, uuid | operating system | wrappers | | | not modelled |

## Modules

| module | what it models |
|---|---|
| `TcpSession` | one `tcp_session`, its users, its strand and its peer |
| `TcpSessionProofs` | theorems about it |
| `AsioIoPool` | one `asio_io_pool`, its callers, workers, monitor and `io_context` |
| `AsioIoPoolProofs` | theorems about it |
| `Worker` | one `worker`, its users and its thread |
| `WorkerProofs` | theorems about it |
| `FileWriter` | one `file_writer`, its writers, controller and thread |
| `FileWriterProofs` | theorems about it |
| `TcpServer` | one `tcp_server` with its users, listeners, stopping threads, sessions and pool |
| `TcpServerProofs` | theorems about it |
| `TcpClient` | one `tcp_client`, its session and its own or a shared pool |
| `TcpClientSync` | one `tcp_client_sync` and the stream it reads |
| `TcpClientProofs` | theorems about the two clients |
| `StateMachine` | one `state_machine` over an abstract worker |
| `BackgroundTimer` | one `background_timer`, its owner and its thread |
| `TickProofs` | theorems about the state machine and the timer |
| `LastN` | what a rolling buffer promises |
| `RollingBuffer` | `rolling_contiguous_buffer`, shown to implement `LastN` |
| `RollingBufferProofs` | the proof that it does |
| `MC*` | instances for TLC; the `.cfg` files of the same prefix are the runs |

Definitions with a suffix (`TakeBatch_copies`) are mutants: plausible mistakes
in the code that the named property must catch.

### TcpSession

Variables named after members stand for them. `start`, `call` and `strand` are
program counters: of the thread in `start()`, of every thread inside `write()`,
`stop_async()` or `set_timeout()`, and of the handler on the strand. The strand
runs one handler at a time to its next `co_await`; an actor on the strand runs
`close_impl()` inline and may run a new writer inline, others post. A step is
one critical section of `m_write_mutex`, one atomic operation on `m_state`, or
the code between two points at which another thread could tell the difference.
Suspended operations (`inflight`, `reader`) complete in the environment, with
every outcome Asio can give: all written, aborted by `cancel_after` or by a
close, reset. Messages are numbered in the order in which they were accepted
and have sizes, one of them zero. Refused calls change nothing and are not steps.
`dont_read` changes only what the data callback is given; `set_keepalive()`
takes the path of `set_timeout()`; moving `m_options` and storing endpoints is
left out.

`EarlySharing` lets other threads hold the session before `onConnected`
(`tcp_client` does not, a caller of `tcp_session::create` may), and
`StarterInPool` is true when `start()` is called by an accept loop.

### AsioIoPool

`run()` is a sequence of steps under `m_mutex` (`holder`, `phase`); a wait for
the previous cycle keeps the mutex, as in the code. Callers execute programs,
sequences of calls: `restart()` and the destructor are programs. `io_context`
is external: it is stopped or not, has queued handlers, and stops itself when it
runs out of work. `due` counts cycles started less callbacks invoked.

### Worker

`thread` is the program counter of `action()`, `pc[u]` of a user's call;
`joiner` holds `m_join_mutex`. `request_stop()` and
`request_stop_after_iterations()` by a user are separate steps for the store and
the notification; from a callback they are one, since only the worker's own
thread could see them half done. The stores between `m_stop_requested` and the
drain in `start()` are one step: no thread reads what they write before the new
thread exists, and a concurrent store comes before or after the group with the
same effect as in between. Iterations are counted up to a bound above every
target that can be computed, which is exact. `setup` is what the program
around the worker does: who calls it, whether the start callback throws, whether
the stop callback restarts it, whether `set_interval()` is called. An interval is
short (a wait ends by itself, or there is none) or endless; a wait uses the
interval that was read before it, as in the code. Not modelled: the result future.

### FileWriter

Releasing the binary semaphore beyond one is undefined; both outcomes that
library implementations have, counting on and staying at one, are explored. The stream
may fail at opening or at any write, silently.

### TcpServer

The composition of the net library. `listener[l]` is the coroutine of an
acceptor, `stopper[t]` a thread that `stop_async()` created, `call[a]` where a
user thread, or a callback on the strand of a listener or a session, is in
`start()`, `stop_async()` or `future_get_once()`. `m_stopping_thread` is
assigned while the previous thread may still run, which joins it: `StopJoin`,
with the mutex held. Sessions and the pool appear as what the server uses of
them, which the other modules establish: `onConnected` and then one
`onDisconnected` (`CallbacksPaired`, `StopCompletes` of `TcpSession`), handlers
only while the pool runs, the end of a guardless pool that has no work, one
stopped-callback after the last handler (`CallbackAfterWorkers`,
`OneCallbackPerCycle` of `AsioIoPool`). An accept completes with a connection, a
transient error (back-off) or a fatal one (recorded, stops the server).

A setup says who takes part and which circumstances may occur: connections
while `start()` is still inside `run()`; a `run()` that fails after its first
thread; a `stop_async()` after a failed `start()`. The passing run has them
apart. The third breaks `StartAsserts` (`server_failed_start`). The second with
the first goes wrong in two ways: a session accepted by the pool that `start()`
then destroys stays counted, which also breaks `StartAsserts`; and a callback or a
failed listener that is in `stop_async()` waits for the mutex that `start()`
holds, while `start()` waits for its thread. `StopCompletes` begins with the call,
so it is violated by that setup, and shows that nothing of the kind happens when
`run()` succeeds, or fails before anything has arrived.

`blame` is a history variable: the listener whose `stop_async()`, called because
its accept had failed, was the one that began the stop of this run. It is set where
a stopping thread is created, and `m_last_error` where an accept fails.
`FailureReported` says that when `OnStoppedListening` is called the second is there
if the first is. The converse is false, see Findings.

### TcpClient

The client's call is a program counter, as is the coroutine that connects.
`cReaders` counts readers that have not ended, which keep the guardless pool
working. The point of the model is whether the pool executes handlers whenever
somebody waits for one. `connect()` may fail at every step, `run()` included.

### TcpClientSync

A byte is the connection and the place in its stream. A read may end by
its goal, by a timeout with any part of it, or by an error, which disconnects.
A failed `connect()` may leave the socket open, which `is_connected()` reports.

### StateMachine

Over what `Worker` establishes: one thread at a time, a stop flag, a
notification that ends an endless wait. `set_state()` is a store and a
notification, with everything in between. `mInside` records which state's entry
callbacks ran without its exit callbacks. Whether the interval is endless is
chosen once, at the start: `set_interval()`, which passes the call on to the
worker, is modelled there.

### BackgroundTimer

`start()` tests `m_is_running`, joins and then resets, while the previous run's
stopped-callback may still be running. Creating the thread may fail, which leaves
`m_is_running` set. `set_interval()` is not modelled.

### RollingBuffer and LastN

`LastN` holds the last `capacity` elements that were added. `RollingBuffer` has
the vector, the allocation bound and the two positions; a `memcpy` with
overlapping regions yields arbitrary elements, so the refinement also shows that
none overlaps. The mapping is `items <- Contents` (`data()` to `data() + size()`)
and `capacity <- m_cb_size`.

## Runs

| run | shows | bounds |
|---|---|---|
| `session_safety` | one writer, close assigned, order, byte counts, high-water mark, callbacks paired, stopped is final, failures recorded | 2 users, 3 writes of sizes 1, 2, 0, mark 2, timeouts on and off |
| `session_live` | writes progress, a lost peer stops the session, a stop completes | 2 users, 1 write, stops before `onConnected` too |
| `session_drain`, `session_late_data` | what the documentation says and the code does not do (below) | as `session_safety` |
| `pool_safety` | cycle ownership, callback last and once, exclusive restart | 2 users, 2 workers, guarded, all calls from everywhere, failing threads |
| `pool_live` | a stopped or drained cycle ends, nothing posted before `run()` is stranded | guardless, callbacks do not stop the pool, who stops also runs |
| `pool_reentry` | the deadlock below | guardless, callbacks stop the pool |
| `worker` | no `std::terminate`, state and thread agree, no stale stop; stops, targets and starts get through | 2 users, or 1 with callbacks that throw and restart; targets 1 and 2, counts read up to 2, intervals changed at any time |
| `worker_failed_start` | the defect below | 2 users, a start callback that throws |
| `server` | counts exact, `OnStoppedListening` last and told of a failure that brought the server down, stopped means stopped, the assertion of `start()`, every `stop_async()` leads to a stopped server | 2 starts, 1 session; 2 users with 1 endpoint, or 1 user with 2 |
| `server_failed_start` | the defect below | 1 user, 3 starts |
| `components` | the order and flush of `file_writer`; `RollingBuffer` implements `LastN`; a synchronous client's reads are its stream; a client is served by its pool and gets back; entry and exit callbacks alternate and a requested state is reached; a timer reports its own exception | 4 writes, 2 runs; sizes and reserves 0 to 3, appends of up to 4; 2 connections of 4 bytes with delimiters at 2 and 4; 2 overlapping sessions; 2 states and an unknown one |

`components` runs models that share no state as alternatives (`part`), one after
the other, not as a product.

Two threads and one strand suffice for the races of the code: every critical
section involves one caller and one handler, and the deepest counterexample
(`session_drain`) needs a writer, a second caller and a message more than the
writer has taken. Three writes let a batch of two follow a batch of one. Two starts
of a server let whatever a run leaves behind meet the next run, a second
endpoint lets two listeners fail, and sessions only meet each other in a counter.
A buffer of size 3 with a reserve of 3 meets every case of `ensure_space()`,
with appends shorter and longer than the buffer. The
proofs below remove the bounds for the properties they cover.

Deadlock checking is off where the system may stop for good: a session ends,
the bounds on writes, runs and connections run out, and `wait_for_stop()` of a pool or a worker
that nobody stops blocks, as its documentation warns.

### Fairness

Threads inside the library, callbacks and handlers are scheduled and return. A
strand, and a mutex, serve whoever waits (strong fairness, because others
come in between): Asio's strands are first come, first served, and the mutexes
are held for short sections, except where a run shows otherwise. The kernel completes an operation
whose outcome is due. Nothing obliges the peer to read, send or leave, and
nobody is obliged to begin a call. `StopCompletes` of a session needs writes to
have a timeout, as the documentation says, and the server's relies on it. In
`TcpServer`, `TcpClient`, `StateMachine` and `FileWriter` weak fairness is
enough: a server's mutex is only held by a `start()` and by the first
`stop_async()` of a run, which are few, and the others are waited for by one
thread each. An accept on a closed acceptor completes, a connection attempt has a
timeout or fails, a state machine's task returns.

### Findings

* `session_drain`: the writer finds the queue empty, gives up its role under the
  lock, and reads `m_state` after it. A `write()` and a `stop_async()` in
  between leave the drain to a new writer, and the old one closes the socket: an accepted message
  is dropped by a graceful stop.
* `session_late_data`: data can be delivered after the disconnection was reported.
* `pool_reentry`: `run()` waits for the previous cycle holding the mutex;
  `stop_async()` in that cycle's stopped-callback waits for the mutex.
* `worker_failed_start`: a failed `start()` marks the worker stopped twice, the
  second time over another thread's start; two threads are then created into one
  handle, which terminates the program.
* `server_failed_start`: a `start()` that throws leaves `m_stop_in_operation`
  false. A `stop_async()` after it creates a stopping thread for a run that is
  over, and when the next `start()` succeeds before that thread ends, it sets
  `m_running` to false under the live run; the start after that fails the
  assertion at `tcp_server.cpp:210`.

Behaviours that the models show and that are listed as hazards: an
eof while a graceful stop waits for a write ends it at once; a stop requested
while another thread is in `start()` is forgotten; `start()` in a worker's
stop callback throws and leaves the worker marked as running; a server's `run()`
that fails after a connection was accepted leaves a session counted; `start()`
of a state machine during its stop callback makes that callback run the exit
callbacks of the new initial state; a failed `connect()` of a synchronous client
may leave a socket that passes for connected; a `background_timer` whose thread
could not be created counts as running for good.

Two more about `TcpServer`, which its model has but no run of its own:

* A setup with `may |-> {"early", "run_fails"}` deadlocks. A callback or a failed
  listener calls `stop_async()` while `start()` is still in `run()` and blocks on the
  mutex that `start()` holds (`tcp_server.cpp:128`); `run()` then fails to create
  another thread and joins the blocked one (`asio_io_pool.cpp:102`), so that
  `start()` neither returns nor throws, although `tcp_server.cpp:264-265` says that
  `run()` "stops the context and joins its workers before rethrowing".
* In every setup, an accept that fails after a
  user's `stop_async()` has begun, before the acceptor is closed, is still recorded
  (`tcp_server.cpp:395`), so that `pool = "callback" /\ blame = Nobody => error =
  Nobody` is violated; `tcp_server.h:41-42` promises that the error given to
  `OnStoppedListening` "is null if it stopped cleanly (i.e. through stop_async())".

Met while reading, without a model: `background_timer.h:36` says that
`wait_for_stop()` requests the stop, which it does not; `tcp_client_sync.h:27-28`
says that bytes are returned by a later read even if this one throws, but after
an error that is no timeout later reads throw until the next `connect()`, which clears
them; `bounds.h` promises the first element that is equal or greater, but
`greater_or_equal_index()` of 2 in 2, 2, 2 is 1, and describes
`lower_bound_index()` as the first lower element, which `std::lower_bound` does
not return.

## Proofs

Every safety property of the passing runs is a theorem. The proofs assume only
the assumptions on the constants named in the modules (`SessionAssumption`,
`PoolAssumption`, `WorkerAssumption`, `RollingAssumption`, `ServerAssumption`,
`ClientAssumption`, `SyncAssumption`, `MachineAssumption`; `FileWriter` and
`BackgroundTimer` have none): any number of threads, messages, sizes, endpoints,
sessions and programs. `ServerAssumption` says that users,
listeners and sessions are different things and that no setup has an empty list
of endpoints, which `start()` refuses. Two components have a hypothesis more:

* `Worker`, `NoThrow`: the start callback does not throw. With two threads and a
  callback that throws, all three theorems are false (`worker_failed_start`
  keeps the one that terminates the program).
* `TcpServer`, `Undisturbed`: no `stop_async()` comes after a `start()` that threw,
  and nothing arrives at an acceptor while `run()` is failing. `server_failed_start`
  shows what the first does, and the second leaves a session counted
  (the hazard at `tcp_server.cpp:275`) or `start()` hanging (the hazard at `:397`).
  The setups of the run `server` satisfy it.

**TcpSession.** None of the invariants is inductive alone. `SingleWriter` needs
that the flag is backed by a writer while the session can write
(`ScheduledInv`, whose one exception is a failed writer on its way to `close()`);
`CloseIsAssigned` needs both. Callback pairing needs that `close_impl()` exists
once (`CloserInv`), that what the callback is owed equals what was announced
(`ConnectedInv`), that an unshared session is idle (`UnsharedInv`), and that the
report is made between them (`ReportsInv`). Types are part of the invariant
since `close()` from a callback returns to where the strand was
(`StrandCallInv`). `IInv` is the conjunction; `InvStep` takes it one conjunct at
a time, one step per action. Proved: `TypeCorrectness`, `OneWriter`,
`NoLostClose`, `CallbackPairing`, `StopIsFinal`.

Where the messages are is a second group of conjuncts. `OrderInv` places every
accepted message in `sent`, in the rest of the one batch in flight or in the
queue, each counting up from where the one before ends; the exception is a batch
that a failed writer took with it, so that equality with `accepted` is only
claimed while the next writer still has to come (`NothingInFlight`). With it a
`stop_async()` that finds no writer scheduled finds everything sent, and nothing
is accepted or sent after that (`DrainInv`). `RecordInv` says that only
`close_impl()` closes the socket, so that reader and writer reach `close()` in a
running session with an error recorded. `ByteInv` relates the counters to queue
and batch. Steps that touch none of this are dealt with once (`StillLemma`).
What `Bytes` sums is proved from the existence and the uniqueness of its
partial sums, each by taking the least number for which it fails (`LeastElement`,
from the library's well-founded relations): a set takes the place of the
predicate that an induction theorem would need. Proved: `SentInOrder`,
`BytesAreCounted`, `StopDrains`, `FailureRecorded`.

**AsioIoPool.** `IInv` says who owns the workers in each phase: the starting
thread until the monitor exists, then the monitor until it has joined them;
workers leave only a stopped context; the callback is due exactly while the
monitor joins. Proved: `CycleOwnership`, `CallbackIsLast`, `CallbackOnce`,
`RestartIsExclusive`.

**FileWriter.** `IInv` adds to `InOrder` where `stop()` and `action()` are
together (`ControlInv`: a batch is only in hand while it is written, a thread that
leaves was asked to) and that the files hold what `stop()` found queued as soon as
the thread decides to leave (`FlushedInv`), which follows from `InOrder` since
queue and batch are empty then. Proved: `WritesInOrder`, `StopIsFlush`.

**Worker.** `IInv` is about claims: one caller at a time is between taking
`m_state` and its thread being started, the worker reports to be running
meanwhile, no thread works before it has created one and none exists once it has
joined (`ClaimInv`); who holds `m_join_mutex` is joining (`JoinInv`). Then a
working thread and a claim are the only reasons to report "running"
(`StateInv`), and from the reset on only a stop that counts sets the flag
(`FlagInv`). Proved: `WorkerNeverTerminates`, `WorkerStateMatchesThread`,
`WorkerNoStaleStop`.

**RollingBuffer.** The invariant is that the window lies at the end of the vector
and is full unless it starts at the front. It is what makes a shift find enough
elements (`EnsureSpaceKeeps`) and keeps the `memcpy` from overlapping.
`AddToWindow` then compares the new window with the last elements of the old one
and the added ones, index by index, the arithmetic being kept apart
(`NewWindow`, `NewIndex`). Proved: `WindowIsConsistent`, `RollingRefinement`.

**TcpServer.** No property is inductive without knowing which stage the server is
in, so `ServerInv` has a part for each thing that can be under way. `CallInv`:
the mutex has one holder, one `start()` at a time has claimed the server, and a
listener calls `stop_async()` at two places only. `StartInv`, `StopInv`: the
pool, the flags and the stopping threads while a start or a stop is under way; a
server that is stopping has exactly one stopping thread. `StageInv`: what is true
between them. `ListenInv`: a listener exits only after a stop, and all have when
the stopping thread is past waiting for them. `HaltInv`: without early arrivals
nothing is accepted before `start()` returns, which is why a failing `run()`
leaves no session. `CountInv`, `ConnInv`, `SessInv`: the two counters are
cardinalities, an accepted session belongs to one listener, and `m_sessions` holds
those that are live. `ErrorInv`: only a stop closes acceptors, so that an accept
aborted by a close never begins a stop, and a listener that is leaving a server
nobody is stopping has recorded its error. One lemma per part, one step per action; the cardinalities
come from `FiniteSetTheorems`. Proved: `CountsAreExact`, `StoppedComesLast`,
`StoppedIsStopped`, `StartFindsNothingLeft`, `FailureIsReported`.

**TcpClient, TcpClientSync.** `connect()` holds a work guard from `run()` on
(`GuardInv`), the pool runs from there to the first read and while a session needs
it (`RunsInv`), and a live session has a reader, which keeps a guardless pool from
ending (`ReaderInv`). Of the synchronous client, the bytes returned since
`connect()` followed by the buffered ones are the stream up to where it was
received (`StreamInv`); every read splits the buffer at one place. Proved:
`ClientHasItsPool`, `SyncStreamInOrder`.

**StateMachine, BackgroundTimer.** A new worker waits for the old one
(`StarterInv`), no state is entered before the first tick (`FirstTickInv`), and
between ticks the machine is inside the state it reports (`BetweenTicksInv`). A
timer whose thread is before the stopped-callback counts as running,
so that a `start()` never overtakes a task (`TimerInv`). Proved:
`MachineEntersBeforeLeaving`, `TimerReportsItsOwn`.

**Only model-checked.** Liveness: `session_live`, `pool_live`, `StopHonoured`,
`TargetHonoured` and `StartReturns` of `Worker`, `StopCompletes` of `TcpServer`,
and `StopReturns`, `QueueDrains`, `ClientReturns` and `MachineSettles` of the
components; the prover has no rule for fairness. `Worker` with a start callback
that throws, and `TcpServer` in the circumstances that `Undisturbed` excludes,
where the theorems are false.

## Plan

The models planned at the outset are done, and their safety properties are
proved. What is left:

1. The result future of `Worker`; `set_interval()` of `BackgroundTimer`.
2. Pure algorithms (bounds, byte order, version comparison) against reference definitions.

## Not modelled

Two thirds of the lines in `src/` are vendored: the date and time-zone library
under `common/include/sg/internal/date`, and a `jthread` replacement. `imgui`
wraps a user-interface library. Socket options and addresses, compression, strings, files,
processes, clocks and checksums are wrappers around the operating system or other
libraries, or stateless, with no protocol of their own. The code that keeps state
and runs concurrently is modelled; it is a small share of the lines.

Memory ordering is taken as sequentially consistent; the lifetime of objects is
not modelled, nor are the contents of messages, addresses and error texts.
