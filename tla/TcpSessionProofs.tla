--------------------------- MODULE TcpSessionProofs ---------------------------
(***************************************************************************)
(* Proofs about TcpSession, for any number of user threads, messages of any *)
(* sizes and any options.                                                   *)
(***************************************************************************)
EXTENDS TcpSession, WellFoundedInduction, TLAPS

\* close_impl() is executing on the strand.
InCloseImpl == strand \in {"close_impl", "disconnected_cb"}

\* Exactly one close_impl() exists while the session is stopping, posted or
\* running, and none at any other time.
CloserInv ==
    /\ closing <= 1
    /\ closing = 1 => ~InCloseImpl
    /\ state = "stopping" <=> (closing = 1 \/ InCloseImpl)

\* The strand is inside a library call only from the data callback.
StrandCallInv == call[Strand] # "idle" => strand = "data_cb"

\* While the session can still write, the flag is backed by a writer, except
\* between the failure of one and the close() it ends with.
ScheduledInv ==
    scheduled /\ state \in {"running", "stop_requested"} =>
        HasWriter \/ strand = "writer_close"

WriterInv == SingleWriter /\ ScheduledInv /\ CloseIsAssigned

\* Before start() the session is stopped and refuses writes.
BeforeStart == ~startCalled => state = "stopped" /\ ~scheduled

\* A session that only its creator holds is idle until onConnected.
Unshared == ~EarlySharing /\ start \in {"none", "options", "owe"}
UnsharedInv ==
    Unshared => /\ strand = "idle" /\ reader = "none" /\ closing = 0
                /\ spawned = 0 /\ inflight = {}
                /\ \A a \in Actors : call[a] \notin {"spawn", "close"}

\* onConnected is invoked once, when the callback becomes owed.
ConnectedInv ==
    /\ connected = (IF owed THEN 1 ELSE 0)
    /\ start \in {"none", "options", "owe"} => ~owed
    /\ start = "none" <=> ~startCalled
    /\ ~EarlySharing /\ start \in {"options", "owe"} => state = "running"

\* onDisconnected has been invoked, if owed, once close_impl() is past it.
Reported == strand = "disconnected_cb" \/ (state = "stopped" /\ startCalled)
ReportsInv ==
    /\ Len(reports) <= 1
    /\ ~Reported => reports = <<>>
    /\ Reported /\ ~EarlySharing => Len(reports) = connected

\* The socket is closed before the disconnection is reported.
ClosedInv == Reported => ~open

\* The numbers in s count up from n.
CountsUp(s, n) == \A i \in 1..Len(s) : s[i] = n + i

\* An operation in flight holds what follows the messages sent and precedes the
\* ones queued; one that succeeded holds nothing more.
FlightInOrder(w) ==
    /\ w.taken <= Len(w.batch) /\ w.taken <= Len(sent)
    /\ Len(sent) + (Len(w.batch) - w.taken) + Len(msgs) = accepted
    /\ CountsUp(w.batch, Len(sent) - w.taken)
    /\ w.result = "ok" => w.taken = Len(w.batch)

\* Will the next writer find in the queue everything that is not sent yet?
NothingInFlight == ~scheduled \/ Spawning # {} \/ spawned > 0 \/ strand = "writer"

\* Every accepted message is sent, in flight or queued, in this order, unless a
\* writer failed and took its batch with it.
OrderInv ==
    /\ CountsUp(sent, 0) /\ Len(sent) + Len(msgs) <= accepted
    /\ CountsUp(msgs, accepted - Len(msgs))
    /\ ~scheduled => msgs = <<>>
    /\ \A w \in inflight : FlightInOrder(w)
    /\ NothingInFlight => Len(sent) + Len(msgs) = accepted

\* A stop_async() on its way to close() has found everything sent, and nothing is
\* accepted after it.
DrainInv ==
    /\ \A a \in Actors : call[a] = "close" =>
          state # "running" /\ startCalled /\ Len(sent) = accepted
    /\ closedBy = "stop_async" => Len(sent) = accepted
    /\ closedBy # "nobody" => state \in {"stopping", "stopped"} /\ startCalled

\* The reader and the writer come to their close() in a running session only with
\* an error: the socket is closed by close_impl() alone.
RecordInv ==
    /\ ~open => state \in {"stopping", "stopped"} /\ startCalled
    /\ ~startCalled => strand = "idle" /\ reader = "none"
    /\ strand \in {"reader_close", "writer_close"} /\ state = "running" => exception # "none"

\* The counters are those of the queue and of the batch being written; only a write()
\* that found them below the mark has raised them.
ByteInv ==
    /\ queued = Bytes(msgs) /\ writing \in Nat
    /\ \A w \in inflight : writing = Bytes(w.batch)
    /\ ~scheduled => writing = 0
    /\ HighWaterMark > 0 /\ accepted > 0 => pending_bytes < HighWaterMark + Size[accepted]

IInv == /\ ControlTypeOK /\ CloserInv /\ StrandCallInv
        /\ WriterInv
        /\ BeforeStart /\ UnsharedInv /\ ConnectedInv /\ ReportsInv /\ ClosedInv
        /\ OrderInv /\ DrainInv /\ RecordInv /\ ByteInv

-------------------------------------------------------------------------------
(* Bytes *)

\* A set of numbers that is not empty has a least element: the form of induction
\* that what Bytes computes is proved by.
LEMMA LeastElement ==
  ASSUME NEW T \in SUBSET Nat, T # {}
  PROVE  \E n \in T : \A m \in T : ~(m < n)
<1> DEFINE R == {p \in Nat \X Nat : p[1] < p[2]}
<1>1. R = OpToRel(<, Nat)
  BY DEF OpToRel
<1>2. IsWellFoundedOn(R, Nat)
  BY <1>1, NatLessThanWellFounded
<1>3. PICK n \in T : \A m \in T : ~(<<m, n>> \in R)
  <2> HIDE DEF R
  <2> QED BY <1>2, WFMin
<1>4. ASSUME NEW m \in T, m < n PROVE FALSE
  <2>1. <<m, n>> \in R
    BY <1>4
  <2> QED BY <1>3, <2>1
<1> QED BY <1>4

\* f[i] is the number of bytes in the first i messages of s, for i up to n.
AddsUp(f, s, n) ==
    /\ f[0] = 0
    /\ \A i \in 1..n : f[i] = f[i - 1] + Size[s[i]]

\* The partial sums of a sequence of messages exist.
LEMMA SumExists ==
  ASSUME NEW s \in Seq(Messages)
  PROVE  \E f \in [0..Len(s) -> Nat] : AddsUp(f, s, Len(s))
<1> DEFINE T == {n \in 0..Len(s) : ~\E f \in [0..n -> Nat] : AddsUp(f, s, n)}
<1> SUFFICES ASSUME T # {} PROVE FALSE
  BY Len(s) \in 0..Len(s)
<1>1. T \in SUBSET Nat
  OBVIOUS
<1>2. PICK n \in T : \A m \in T : ~(m < n)
  <2> HIDE DEF T
  <2> QED BY <1>1, LeastElement
<1>3. n \in 0..Len(s) /\ ~\E f \in [0..n -> Nat] : AddsUp(f, s, n)
  OBVIOUS
<1>4. CASE n = 0
  <2> DEFINE f == [i \in 0..0 |-> 0]
  <2>1. f \in [0..0 -> Nat] /\ AddsUp(f, s, 0)
    BY DEF AddsUp
  <2> QED BY <1>3, <1>4, <2>1
<1>5. CASE n # 0
  <2>1. n \in Nat /\ n - 1 \in 0..Len(s) /\ n - 1 < n /\ n \in 1..Len(s)
    BY <1>3, <1>5
  <2>2. n - 1 \notin T
    BY <1>2, <2>1
  <2>3. PICK f \in [0..(n - 1) -> Nat] : AddsUp(f, s, n - 1)
    BY <2>1, <2>2
  <2>4. Size[s[n]] \in Nat
    <3> HIDE DEF T
    <3>1. s[n] \in Messages
      BY <2>1
    <3> QED BY <3>1, SessionAssumption DEF Messages
  <2> DEFINE g == [i \in 0..n |-> IF i = n THEN f[n - 1] + Size[s[n]] ELSE f[i]]
  <2>5. g \in [0..n -> Nat] /\ g[0] = 0
    <3>1. f[n - 1] + Size[s[n]] \in Nat
      BY <2>1, <2>3, <2>4
    <3>2. ASSUME NEW i \in 0..n, i # n PROVE f[i] \in Nat
      BY <2>1, <2>3, <3>2
    <3>3. 0 \in 0..n /\ f[0] = 0
      BY <2>1, <2>3 DEF AddsUp
    <3> QED BY <1>5, <3>1, <3>2, <3>3
  <2>6. ASSUME NEW i \in 1..n PROVE g[i] = g[i - 1] + Size[s[i]]
    <3>1. CASE i = n
      BY <2>1, <3>1
    <3>2. CASE i # n
      <4>1. i \in 1..(n - 1) /\ i - 1 \in 0..n /\ i - 1 # n
        BY <2>1, <3>2
      <4>2. f[i] = f[i - 1] + Size[s[i]]
        BY <2>3, <4>1 DEF AddsUp
      <4> QED BY <3>2, <4>1, <4>2
    <3> QED BY <3>1, <3>2
  <2>7. AddsUp(g, s, n)
    <3> HIDE DEF g
    <3> QED BY <2>5, <2>6 DEF AddsUp
  <2> QED BY <1>3, <2>5, <2>7
<1> QED BY <1>4, <1>5

\* They are unique.
LEMMA SumUnique ==
  ASSUME NEW s, NEW n \in Nat, NEW f, NEW g, AddsUp(f, s, n), AddsUp(g, s, n)
  PROVE  f[n] = g[n]
<1> DEFINE T == {i \in 0..n : f[i] # g[i]}
<1> SUFFICES ASSUME T # {} PROVE FALSE
  OBVIOUS
<1>1. T \in SUBSET Nat
  OBVIOUS
<1>2. PICK m \in T : \A i \in T : ~(i < m)
  <2> HIDE DEF T
  <2> QED BY <1>1, LeastElement
<1>3. m # 0
  BY DEF AddsUp
<1>4. m \in 1..n /\ m - 1 \in 0..n /\ m - 1 < m
  BY <1>3
<1>5. f[m - 1] = g[m - 1]
  BY <1>2, <1>4
<1>6. f[m] = f[m - 1] + Size[s[m]] /\ g[m] = g[m - 1] + Size[s[m]]
  BY <1>4 DEF AddsUp
<1> QED BY <1>4, <1>5, <1>6

\* Bytes is the last of them.
LEMMA BytesSum ==
  ASSUME NEW s \in Seq(Messages)
  PROVE  \E f \in [0..Len(s) -> Nat] : AddsUp(f, s, Len(s)) /\ Bytes(s) = f[Len(s)]
<1> DEFINE Sums(f) == f = [i \in 0..Len(s) |-> IF i = 0 THEN 0 ELSE f[i - 1] + Size[s[i]]]
           g == CHOOSE f : Sums(f)
<1>1. PICK f \in [0..Len(s) -> Nat] : AddsUp(f, s, Len(s))
  BY SumExists
<1>2. Sums(f)
  <2>1. f = [i \in 0..Len(s) |-> f[i]]
    BY <1>1, Zenon
  <2>2. ASSUME NEW i \in 0..Len(s)
        PROVE  f[i] = IF i = 0 THEN 0 ELSE f[i - 1] + Size[s[i]]
    BY <1>1 DEF AddsUp
  <2> QED BY <2>1, <2>2
<1>3. Sums(g)
  <2> HIDE DEF Sums
  <2> QED BY <1>2
<1>4. Bytes(s) = g[Len(s)]
  BY DEF Bytes
<1> HIDE DEF g
<1>5. AddsUp(g, s, Len(s))
  BY <1>3 DEF AddsUp
<1>6. g[Len(s)] = f[Len(s)]
  <2>1. Len(s) \in Nat
    OBVIOUS
  <2> HIDE DEF Sums
  <2> QED BY <1>1, <1>5, <2>1, SumUnique
<1> QED BY <1>1, <1>4, <1>6

\* What the byte counters are compared with: no bytes in no messages ...
LEMMA BytesEmpty == Bytes(<<>>) = 0
<1>1. <<>> \in Seq(Messages) /\ Len(<<>>) = 0
  OBVIOUS
<1> QED BY <1>1, BytesSum DEF AddsUp

\* ... a number of bytes in any ...
LEMMA BytesType == ASSUME NEW s \in Seq(Messages) PROVE Bytes(s) \in Nat
<1>1. Len(s) \in 0..Len(s)
  OBVIOUS
<1> QED BY <1>1, BytesSum

\* ... and one message more is its bytes more.
LEMMA BytesAppend ==
  ASSUME NEW s \in Seq(Messages), NEW m \in Messages
  PROVE  Bytes(Append(s, m)) = Bytes(s) + Size[m]
<1> DEFINE t == Append(s, m)
           n == Len(s)
<1>1. /\ t \in Seq(Messages) /\ Len(t) = n + 1 /\ n \in Nat
      /\ t[n + 1] = m /\ \A i \in 1..n : s[i] = t[i]
  OBVIOUS
<1>2. PICK f \in [0..n -> Nat] : AddsUp(f, s, n) /\ Bytes(s) = f[n]
  BY BytesSum
<1> HIDE DEF t
<1>3. PICK g \in [0..(n + 1) -> Nat] : AddsUp(g, t, n + 1) /\ Bytes(t) = g[n + 1]
  BY <1>1, BytesSum
<1>4. f[n] = g[n]
  <2>1. AddsUp(g, s, n)
    <3>1. g[0] = 0
      BY <1>3 DEF AddsUp
    <3>2. ASSUME NEW i \in 1..n PROVE g[i] = g[i - 1] + Size[s[i]]
      <4>1. i \in 1..(n + 1) /\ s[i] = t[i]
        BY <1>1
      <4>2. g[i] = g[i - 1] + Size[t[i]]
        BY <1>3, <4>1 DEF AddsUp
      <4> QED BY <4>1, <4>2
    <3> QED BY <3>1, <3>2 DEF AddsUp
  <2> HIDE DEF n
  <2> QED BY <1>1, <1>2, <2>1, SumUnique
<1>5. g[n + 1] = g[n] + Size[m]
  <2>1. n + 1 \in 1..(n + 1) /\ (n + 1) - 1 = n
    BY <1>1
  <2>2. g[n + 1] = g[(n + 1) - 1] + Size[t[n + 1]]
    BY <1>3, <2>1 DEF AddsUp
  <2> QED BY <1>1, <2>1, <2>2
<1> QED BY <1>2, <1>3, <1>4, <1>5 DEF t

-------------------------------------------------------------------------------
(* Type correctness *)

USE SessionAssumption DEF Actors, Messages, Write, States, Reasons, StrandSteps,
        StartSteps, threadVars, queueVars, strandVars, ioVars, endVars, StartRest,
        StrandRest

\* A new session has the right types.
LEMMA TypeInit == Init => ControlTypeOK
<1> SUFFICES ASSUME Init PROVE ControlTypeOK
  OBVIOUS
<1>1. timeout \in BOOLEAN
  BY Zenon DEF Init
<1>2. /\ state \in States /\ startCalled \in BOOLEAN /\ owed \in BOOLEAN
      /\ scheduled \in BOOLEAN /\ exception \in Reasons /\ open \in BOOLEAN
  BY DEF Init
<1>3. /\ start \in StartSteps
    /\ strand \in StrandSteps /\ resume \in {"idle", "data_cb"}
    /\ closing \in Nat /\ spawned \in Nat
  BY DEF Init
<1>4. call \in [Actors -> {"idle", "spawn", "close", "timeout_on", "timeout_off"}]
  BY DEF Init
<1>5. msgs \in Seq(Messages) /\ sent \in Seq(Messages) /\ reports \in Seq(Reasons)
  BY DEF Init
<1>6. inflight \subseteq Write
  BY DEF Init
<1>7. accepted \in 0..MaxWrites
  BY DEF Init
<1> QED
  BY <1>1, <1>2, <1>3, <1>4, <1>5, <1>6, <1>7 DEF Init, ControlTypeOK

\* What a writer issues is a write operation.
LEMMA IssuedWrite ==
  ASSUME NEW batch \in Seq(Messages), NEW timed \in BOOLEAN
  PROVE  [batch |-> batch, taken |-> 0, timed |-> timed, result |-> "pending"] \in Write
  OBVIOUS

\* A write operation stays one while the socket takes more of it.
LEMMA TakenWrite ==
  ASSUME NEW w \in Write
  PROVE  [w EXCEPT !.taken = @ + 1] \in Write
  OBVIOUS

\* What a sequence of messages holds are messages.
LEMMA MessageAt ==
  ASSUME NEW s \in Seq(Messages), NEW i \in 1..Len(s)
  PROVE  s[i] \in Messages
  OBVIOUS

\* The step of a type proof: every action keeps every variable in its set.
LEMMA TypeStep ==
  ASSUME ControlTypeOK, CloserInv, StrandCallInv, [Next]_vars
  PROVE  ControlTypeOK'
<1> USE DEF ControlTypeOK
<1>1. CASE UNCHANGED vars
  BY <1>1 DEF vars
<1>2. ASSUME NEW a \in Actors, WriteQueue(a) PROVE ControlTypeOK'
  BY <1>2 DEF WriteQueue, Goes
<1>3. ASSUME NEW a \in Actors, stop_async(a) PROVE ControlTypeOK'
  <2>1. call' \in [Actors -> {"idle", "spawn", "close", "timeout_on", "timeout_off"}]
    BY <1>3 DEF stop_async, StopRequest, Goes
  <2> QED BY <1>3, <2>1 DEF stop_async, StopRequest
<1>4. ASSUME NEW a \in Actors, stop_async_force(a) PROVE ControlTypeOK'
  BY <1>4 DEF stop_async_force, Close, CanCall, InCallback, CloserInv, InCloseImpl
<1>5. ASSUME NEW a \in Actors, NEW v \in Timeouts, SetTimeoutPost(a, v) PROVE ControlTypeOK'
  BY <1>5 DEF SetTimeoutPost, Goes
<1>6. ASSUME NEW a \in Actors, SpawnWriter(a) PROVE ControlTypeOK'
  <2>1. inflight' \subseteq Write
    BY <1>6, IssuedWrite DEF SpawnWriter, IssueWrite
  <2>2. scheduled' \in BOOLEAN
    BY <1>6, Zenon DEF SpawnWriter, TakeBatch
  <2>4. msgs' \in Seq(Messages) /\ accepted' = accepted /\ spawned' \in Nat /\ sent' = sent
    <3>1. CASE spawned' = spawned + 1 /\ UNCHANGED <<queueVars, ioVars>>
      BY <3>1
    <3>2. CASE TakeBatch /\ UNCHANGED <<spawned, sent>>
      BY <3>2 DEF TakeBatch
    <3> QED BY <1>6, <3>1, <3>2, Zenon DEF SpawnWriter
  <2>5. call' \in [Actors -> {"idle", "spawn", "close", "timeout_on", "timeout_off"}]
    BY <1>6 DEF SpawnWriter, Goes
  <2>6. UNCHANGED <<state, start, startCalled, owed, connected, strandVars, endVars,
                    timeout, closing, peer, closedBy>>
    BY <1>6, Zenon DEF SpawnWriter
  <2> QED BY <2>1, <2>2, <2>4, <2>5, <2>6
<1>7. ASSUME NEW a \in Actors, StopClose(a) PROVE ControlTypeOK'
  BY <1>7 DEF StopClose, Goes, Close, CloseLost, StrandCallInv
<1>8. ASSUME NEW v \in Timeouts, SetTimeoutInline(v) PROVE ControlTypeOK'
  BY <1>8 DEF SetTimeoutInline, ApplyTimeout
<1>9. ASSUME NEW a \in Users, SetTimeoutRun(a) PROVE ControlTypeOK'
  <2>1. timeout' \in BOOLEAN
    BY <1>9, Zenon DEF SetTimeoutRun, ApplyTimeout
  <2>2. QED
    BY <1>9, <2>1 DEF SetTimeoutRun, Goes
<1>10. CASE StartBegin
  BY <1>10 DEF StartBegin
<1>11. CASE StartStep
  <2>1. CASE StartOptions    BY <2>1 DEF StartOptions
  <2>2. CASE StartConnected  BY <2>2 DEF StartConnected
  <2>3. CASE StartReader     BY <2>3 DEF StartReader
  <2>4. CASE StartCatch      BY <2>4 DEF StartCatch
  <2>5. CASE StartRecord     BY <2>5 DEF StartRecord, Record
  <2>6. CASE StartStop
    <3>1. CASE StopRequest(Starter)
      <4>1. call' \in [Actors -> {"idle", "spawn", "close", "timeout_on", "timeout_off"}]
        BY <3>1 DEF StopRequest, Goes
      <4> QED BY <2>6, <3>1, <4>1 DEF StartStop, StopRequest
    <3>2. CASE ~StopRequest(Starter)
      <4>1. UNCHANGED <<StartRest, call, startCalled, state, owed, connected, exception>>
        BY <2>6, <3>2, Zenon DEF StartStop
      <4>2. start' \in StartSteps
        BY <2>6 DEF StartStop
      <4> QED BY <4>1, <4>2
    <3> QED BY <3>1, <3>2
  <2>7. CASE StartRethrow    BY <2>7 DEF StartRethrow
  <2> QED BY <1>11, <2>1, <2>2, <2>3, <2>4, <2>5, <2>6, <2>7 DEF StartStep
<1>12. CASE CloserStep
  <2>1. CASE CloseImplBegin  BY <2>1 DEF CloseImplBegin
  <2>2. CASE CloseImpl
    <3>1. Append(reports, exception) \in Seq(Reasons)
      OBVIOUS
    <3>2. reports' \in Seq(Reasons)
      BY <2>2, <3>1, Zenon DEF CloseImpl
    <3>3. open' \in BOOLEAN /\ strand' \in StrandSteps
      BY <2>2 DEF CloseImpl
    <3>4. UNCHANGED <<StrandRest, state, resume, reader, exception, closing, closedBy>>
      BY <2>2, Zenon DEF CloseImpl
    <3> QED BY <3>2, <3>3, <3>4
  <2>3. CASE CloseImplEnd    BY <2>3 DEF CloseImplEnd
  <2> QED BY <1>12, <2>1, <2>2, <2>3 DEF CloserStep
<1>13. CASE ReaderStep
  <2>1. CASE ReaderLoop      BY <2>1 DEF ReaderLoop
  <2>2. CASE DataAvailable   BY <2>2 DEF DataAvailable
  <2>3. CASE DataReturn      BY <2>3 DEF DataReturn
  <2>4. CASE ReaderCatch     BY <2>4 DEF ReaderCatch, Record
  <2>5. CASE ReaderClose     BY <2>5 DEF ReaderClose, Close, CloseLost
  <2> QED BY <1>13, <2>1, <2>2, <2>3, <2>4, <2>5 DEF ReaderStep
<1>14. CASE WriterStep
  <2>1. CASE WriterBegin     BY <2>1 DEF WriterBegin, WriterTurn, TakeBatch, IssueWrite
  <2>2. CASE WriterNext      BY <2>2 DEF WriterNext, WriterTurn, TakeBatch, IssueWrite
  <2>3. CASE WriterCheck     BY <2>3 DEF WriterCheck
  <2>4. CASE WriterResume    BY <2>4 DEF WriterResume, Record
  <2>5. CASE WriterClose     BY <2>5 DEF WriterClose, Close, CloseLost
  <2> QED BY <1>14, <2>1, <2>2, <2>3, <2>4, <2>5 DEF WriterStep
<1>15. CASE ReadComplete
  BY <1>15 DEF ReadComplete
<1>16. CASE WriteSome
  <2>1. PICK w \in inflight :
          /\ w.taken < Len(w.batch)
          /\ inflight' = (inflight \ {w}) \cup {[w EXCEPT !.taken = @ + 1]}
          /\ sent' = Append(sent, w.batch[w.taken + 1])
    BY <1>16, Zenon DEF WriteSome
  <2>a. w \in Write
    BY Zenon
  <2>b. /\ w.batch \in Seq(Messages) /\ w.taken \in Nat
        /\ w = [batch |-> w.batch, taken |-> w.taken, timed |-> w.timed, result |-> w.result]
    BY <2>a
  <2>c. [w EXCEPT !.taken = @ + 1] \in Write
    BY <2>a, TakenWrite, Zenon
  <2>2. w \in Write /\ [w EXCEPT !.taken = @ + 1] \in Write
    BY <2>a, <2>c
  <2>3. w.batch[w.taken + 1] \in Messages
    <3>1. w.taken + 1 \in 1..Len(w.batch)
      <4> HIDE DEF ControlTypeOK
      <4> QED BY <2>1, <2>b
    <3> QED BY <2>b, <3>1, MessageAt
  <2>4. inflight' \subseteq Write /\ sent' \in Seq(Messages)
    <3>1. inflight' \subseteq Write
      BY <2>1, <2>2, Zenon
    <3>2. Append(sent, w.batch[w.taken + 1]) \in Seq(Messages)
      BY <2>3
    <3> QED BY <2>1, <3>1, <3>2, Zenon
  <2>5. UNCHANGED <<state, threadVars, queueVars, strandVars, endVars, timeout,
                    writing, closing, spawned, peer, closedBy>>
    BY <1>16, Zenon DEF WriteSome
  <2> QED BY <2>4, <2>5
<1>17. CASE WriteComplete
  <2>1. PICK w \in inflight, r \in {"ok", "aborted", "error"} :
          inflight' = (inflight \ {w}) \cup {[w EXCEPT !.result = r]}
    BY <1>17, Zenon DEF WriteComplete, Outcome
  <2>2. w \in Write /\ [w EXCEPT !.result = r] \in Write
    OBVIOUS
  <2>3. inflight' \subseteq Write
    BY <2>1, <2>2
  <2> QED BY <1>17, <2>3 DEF WriteComplete
<1>18. CASE PeerLeaves
  BY <1>18 DEF PeerLeaves
<1> QED
  BY <1>1, <1>2, <1>3, <1>4, <1>5, <1>6, <1>7, <1>8, <1>9, <1>10, <1>11, <1>12,
     <1>13, <1>14, <1>15, <1>16, <1>17, <1>18
  DEF Next, UserCall, ThreadStep

\* close() wins once: no action makes a second close_impl().
LEMMA CloserLemma ==
  ASSUME ControlTypeOK, CloserInv, StrandCallInv, BeforeStart, [Next]_vars
  PROVE  CloserInv'
<1> USE DEF ControlTypeOK, CloserInv, InCloseImpl, StrandCallInv, BeforeStart
<1>1. CASE UNCHANGED vars
  BY <1>1 DEF vars
<1>2. ASSUME NEW a \in Actors, WriteQueue(a) PROVE CloserInv'
  BY <1>2 DEF WriteQueue, Goes, CanCall, InCallback
<1>3. ASSUME NEW a \in Actors, stop_async(a) PROVE CloserInv'
  BY <1>3 DEF stop_async, StopRequest, Goes, CanCall, InCallback
<1>4. ASSUME NEW a \in Actors, stop_async_force(a) PROVE CloserInv'
  BY <1>4 DEF stop_async_force, Close, CanCall, InCallback
<1>5. ASSUME NEW a \in Actors, NEW v \in Timeouts, SetTimeoutPost(a, v) PROVE CloserInv'
  BY <1>5 DEF SetTimeoutPost, Goes
<1>6. ASSUME NEW a \in Actors, SpawnWriter(a) PROVE CloserInv'
  BY <1>6 DEF SpawnWriter, Goes, TakeBatch, IssueWrite
<1>7. ASSUME NEW a \in Actors, StopClose(a) PROVE CloserInv'
  BY <1>7 DEF StopClose, Goes, Close, CloseLost
<1>8. ASSUME NEW v \in Timeouts, SetTimeoutInline(v) PROVE CloserInv'
  BY <1>8 DEF SetTimeoutInline
<1>9. ASSUME NEW a \in Users, SetTimeoutRun(a) PROVE CloserInv'
  BY <1>9 DEF SetTimeoutRun, Goes
<1>10. CASE StartBegin
  BY <1>10 DEF StartBegin
<1>11. CASE StartStep
  <2>1. CASE StartOptions
    BY <2>1 DEF StartOptions
  <2>2. CASE StartConnected
    BY <2>2 DEF StartConnected
  <2>3. CASE StartReader
    BY <2>3 DEF StartReader
  <2>4. CASE StartCatch
    BY <2>4 DEF StartCatch
  <2>5. CASE StartRecord
    BY <2>5 DEF StartRecord
  <2>6. CASE StartStop
    BY <2>6 DEF StartStop, StopRequest, Goes
  <2>7. CASE StartRethrow
    BY <2>7 DEF StartRethrow
  <2> QED BY <1>11, <2>1, <2>2, <2>3, <2>4, <2>5, <2>6, <2>7 DEF StartStep
<1>12. CASE CloserStep
  <2>1. CASE CloseImplBegin
    BY <2>1 DEF CloseImplBegin
  <2>2. CASE CloseImpl
    BY <2>2 DEF CloseImpl
  <2>3. CASE CloseImplEnd
    BY <2>3 DEF CloseImplEnd
  <2> QED BY <1>12, <2>1, <2>2, <2>3 DEF CloserStep
<1>13. CASE ReaderStep
  <2>1. CASE ReaderLoop
    BY <2>1 DEF ReaderLoop
  <2>2. CASE DataAvailable
    BY <2>2 DEF DataAvailable
  <2>3. CASE DataReturn
    BY <2>3 DEF DataReturn
  <2>4. CASE ReaderCatch
    BY <2>4 DEF ReaderCatch
  <2>5. CASE ReaderClose
    BY <2>5 DEF ReaderClose, Close, CloseLost
  <2> QED BY <1>13, <2>1, <2>2, <2>3, <2>4, <2>5 DEF ReaderStep
<1>14. CASE WriterStep
  <2>1. CASE WriterBegin
    BY <2>1 DEF WriterBegin, WriterTurn, TakeBatch, IssueWrite
  <2>2. CASE WriterNext
    BY <2>2 DEF WriterNext, WriterTurn, TakeBatch, IssueWrite
  <2>3. CASE WriterCheck
    BY <2>3 DEF WriterCheck
  <2>4. CASE WriterResume
    BY <2>4 DEF WriterResume
  <2>5. CASE WriterClose
    BY <2>5 DEF WriterClose, Close, CloseLost
  <2> QED BY <1>14, <2>1, <2>2, <2>3, <2>4, <2>5 DEF WriterStep
<1>15. CASE ReadComplete
  BY <1>15 DEF ReadComplete
<1>16. CASE WriteSome
  BY <1>16 DEF WriteSome
<1>17. CASE WriteComplete
  BY <1>17 DEF WriteComplete
<1>18. CASE PeerLeaves
  BY <1>18 DEF PeerLeaves
<1> QED
  BY <1>1, <1>2, <1>3, <1>4, <1>5, <1>6, <1>7, <1>8, <1>9, <1>10, <1>11, <1>12,
     <1>13, <1>14, <1>15, <1>16, <1>17, <1>18
  DEF Next, UserCall, ThreadStep

\* Calls made by a strand callback end before the callback does.
LEMMA StrandCallLemma ==
  ASSUME ControlTypeOK, CloserInv, StrandCallInv, [Next]_vars
  PROVE  StrandCallInv'
<1> USE DEF ControlTypeOK, CloserInv, InCloseImpl, StrandCallInv
<1>1. CASE UNCHANGED vars
  BY <1>1 DEF vars
<1>2. ASSUME NEW a \in Actors, WriteQueue(a) PROVE StrandCallInv'
  BY <1>2 DEF WriteQueue, Goes, CanCall, InCallback
<1>3. ASSUME NEW a \in Actors, stop_async(a) PROVE StrandCallInv'
  BY <1>3 DEF stop_async, StopRequest, Goes, CanCall, InCallback
<1>4. ASSUME NEW a \in Actors, stop_async_force(a) PROVE StrandCallInv'
  BY <1>4 DEF stop_async_force, Close, CanCall, InCallback
<1>5. ASSUME NEW a \in Actors, NEW v \in Timeouts, SetTimeoutPost(a, v) PROVE StrandCallInv'
  BY <1>5 DEF SetTimeoutPost, Goes
<1>6. ASSUME NEW a \in Actors, SpawnWriter(a) PROVE StrandCallInv'
  BY <1>6 DEF SpawnWriter, Goes, TakeBatch, IssueWrite
<1>7. ASSUME NEW a \in Actors, StopClose(a) PROVE StrandCallInv'
  BY <1>7 DEF StopClose, Goes, Close, CloseLost
<1>8. ASSUME NEW v \in Timeouts, SetTimeoutInline(v) PROVE StrandCallInv'
  BY <1>8 DEF SetTimeoutInline
<1>9. ASSUME NEW a \in Users, SetTimeoutRun(a) PROVE StrandCallInv'
  BY <1>9 DEF SetTimeoutRun, Goes
<1>10. CASE StartBegin
  BY <1>10 DEF StartBegin
<1>11. CASE StartStep
  <2>1. CASE StartOptions
    BY <2>1 DEF StartOptions
  <2>2. CASE StartConnected
    BY <2>2 DEF StartConnected
  <2>3. CASE StartReader
    BY <2>3 DEF StartReader
  <2>4. CASE StartCatch
    BY <2>4 DEF StartCatch
  <2>5. CASE StartRecord
    BY <2>5 DEF StartRecord
  <2>6. CASE StartStop
    BY <2>6 DEF StartStop, StopRequest, Goes
  <2>7. CASE StartRethrow
    BY <2>7 DEF StartRethrow
  <2> QED BY <1>11, <2>1, <2>2, <2>3, <2>4, <2>5, <2>6, <2>7 DEF StartStep
<1>12. CASE CloserStep
  <2>1. CASE CloseImplBegin
    BY <2>1 DEF CloseImplBegin
  <2>2. CASE CloseImpl
    BY <2>2 DEF CloseImpl
  <2>3. CASE CloseImplEnd
    BY <2>3 DEF CloseImplEnd
  <2> QED BY <1>12, <2>1, <2>2, <2>3 DEF CloserStep
<1>13. CASE ReaderStep
  <2>1. CASE ReaderLoop
    BY <2>1 DEF ReaderLoop
  <2>2. CASE DataAvailable
    BY <2>2 DEF DataAvailable
  <2>3. CASE DataReturn
    BY <2>3 DEF DataReturn
  <2>4. CASE ReaderCatch
    BY <2>4 DEF ReaderCatch
  <2>5. CASE ReaderClose
    BY <2>5 DEF ReaderClose, Close, CloseLost
  <2> QED BY <1>13, <2>1, <2>2, <2>3, <2>4, <2>5 DEF ReaderStep
<1>14. CASE WriterStep
  <2>1. CASE WriterBegin
    BY <2>1 DEF WriterBegin, WriterTurn, TakeBatch, IssueWrite
  <2>2. CASE WriterNext
    BY <2>2 DEF WriterNext, WriterTurn, TakeBatch, IssueWrite
  <2>3. CASE WriterCheck
    BY <2>3 DEF WriterCheck
  <2>4. CASE WriterResume
    BY <2>4 DEF WriterResume
  <2>5. CASE WriterClose
    BY <2>5 DEF WriterClose, Close, CloseLost
  <2> QED BY <1>14, <2>1, <2>2, <2>3, <2>4, <2>5 DEF WriterStep
<1>15. CASE ReadComplete
  BY <1>15 DEF ReadComplete
<1>16. CASE WriteSome
  BY <1>16 DEF WriteSome
<1>17. CASE WriteComplete
  BY <1>17 DEF WriteComplete
<1>18. CASE PeerLeaves
  BY <1>18 DEF PeerLeaves
<1> QED
  BY <1>1, <1>2, <1>3, <1>4, <1>5, <1>6, <1>7, <1>8, <1>9, <1>10, <1>11, <1>12,
     <1>13, <1>14, <1>15, <1>16, <1>17, <1>18
  DEF Next, UserCall, ThreadStep

\* Only start() moves a new session.
LEMMA BeforeStartLemma ==
  ASSUME ControlTypeOK, BeforeStart, CloserInv, [Next]_vars
  PROVE  BeforeStart'
<1> USE DEF ControlTypeOK, BeforeStart, CloserInv, InCloseImpl
<1>1. CASE UNCHANGED vars
  BY <1>1 DEF vars
<1>2. ASSUME NEW a \in Actors, WriteQueue(a) PROVE BeforeStart'
  BY <1>2 DEF WriteQueue, Goes, CanCall, InCallback
<1>3. ASSUME NEW a \in Actors, stop_async(a) PROVE BeforeStart'
  BY <1>3 DEF stop_async, StopRequest, Goes, CanCall, InCallback
<1>4. ASSUME NEW a \in Actors, stop_async_force(a) PROVE BeforeStart'
  BY <1>4 DEF stop_async_force, Close, CanCall, InCallback
<1>5. ASSUME NEW a \in Actors, NEW v \in Timeouts, SetTimeoutPost(a, v) PROVE BeforeStart'
  BY <1>5 DEF SetTimeoutPost, Goes
<1>6. ASSUME NEW a \in Actors, SpawnWriter(a) PROVE BeforeStart'
  BY <1>6 DEF SpawnWriter, Goes, TakeBatch, IssueWrite
<1>7. ASSUME NEW a \in Actors, StopClose(a) PROVE BeforeStart'
  BY <1>7 DEF StopClose, Goes, Close, CloseLost
<1>8. ASSUME NEW v \in Timeouts, SetTimeoutInline(v) PROVE BeforeStart'
  BY <1>8 DEF SetTimeoutInline
<1>9. ASSUME NEW a \in Users, SetTimeoutRun(a) PROVE BeforeStart'
  BY <1>9 DEF SetTimeoutRun, Goes
<1>10. CASE StartBegin
  BY <1>10 DEF StartBegin
<1>11. CASE StartStep
  <2>1. CASE StartOptions
    BY <2>1 DEF StartOptions
  <2>2. CASE StartConnected
    BY <2>2 DEF StartConnected
  <2>3. CASE StartReader
    BY <2>3 DEF StartReader
  <2>4. CASE StartCatch
    BY <2>4 DEF StartCatch
  <2>5. CASE StartRecord
    BY <2>5 DEF StartRecord
  <2>6. CASE StartStop
    BY <2>6 DEF StartStop, StopRequest, Goes
  <2>7. CASE StartRethrow
    BY <2>7 DEF StartRethrow
  <2> QED BY <1>11, <2>1, <2>2, <2>3, <2>4, <2>5, <2>6, <2>7 DEF StartStep
<1>12. CASE CloserStep
  <2>1. CASE CloseImplBegin
    BY <2>1 DEF CloseImplBegin
  <2>2. CASE CloseImpl
    BY <2>2 DEF CloseImpl
  <2>3. CASE CloseImplEnd
    BY <2>3 DEF CloseImplEnd
  <2> QED BY <1>12, <2>1, <2>2, <2>3 DEF CloserStep
<1>13. CASE ReaderStep
  <2>1. CASE ReaderLoop
    BY <2>1 DEF ReaderLoop
  <2>2. CASE DataAvailable
    BY <2>2 DEF DataAvailable
  <2>3. CASE DataReturn
    BY <2>3 DEF DataReturn
  <2>4. CASE ReaderCatch
    BY <2>4 DEF ReaderCatch
  <2>5. CASE ReaderClose
    BY <2>5 DEF ReaderClose, Close, CloseLost
  <2> QED BY <1>13, <2>1, <2>2, <2>3, <2>4, <2>5 DEF ReaderStep
<1>14. CASE WriterStep
  <2>1. CASE WriterBegin
    BY <2>1 DEF WriterBegin, WriterTurn, TakeBatch, IssueWrite
  <2>2. CASE WriterNext
    BY <2>2 DEF WriterNext, WriterTurn, TakeBatch, IssueWrite
  <2>3. CASE WriterCheck
    BY <2>3 DEF WriterCheck
  <2>4. CASE WriterResume
    BY <2>4 DEF WriterResume
  <2>5. CASE WriterClose
    BY <2>5 DEF WriterClose, Close, CloseLost
  <2> QED BY <1>14, <2>1, <2>2, <2>3, <2>4, <2>5 DEF WriterStep
<1>15. CASE ReadComplete
  BY <1>15 DEF ReadComplete
<1>16. CASE WriteSome
  BY <1>16 DEF WriteSome
<1>17. CASE WriteComplete
  BY <1>17 DEF WriteComplete
<1>18. CASE PeerLeaves
  BY <1>18 DEF PeerLeaves
<1> QED
  BY <1>1, <1>2, <1>3, <1>4, <1>5, <1>6, <1>7, <1>8, <1>9, <1>10, <1>11, <1>12,
     <1>13, <1>14, <1>15, <1>16, <1>17, <1>18
  DEF Next, UserCall, ThreadStep

\* Nobody else can touch an unshared session.
LEMMA UnsharedLemma ==
  ASSUME ControlTypeOK, UnsharedInv, BeforeStart, ConnectedInv, [Next]_vars
  PROVE  UnsharedInv'
<1> USE DEF ControlTypeOK, Unshared, UnsharedInv, BeforeStart, ConnectedInv
<1>1. CASE UNCHANGED vars
  BY <1>1 DEF vars
<1>2. ASSUME NEW a \in Actors, WriteQueue(a) PROVE UnsharedInv'
  BY <1>2 DEF WriteQueue, Goes, CanCall, InCallback
<1>3. ASSUME NEW a \in Actors, stop_async(a) PROVE UnsharedInv'
  BY <1>3 DEF stop_async, StopRequest, Goes, CanCall, InCallback
<1>4. ASSUME NEW a \in Actors, stop_async_force(a) PROVE UnsharedInv'
  BY <1>4 DEF stop_async_force, Close, CanCall, InCallback
<1>5. ASSUME NEW a \in Actors, NEW v \in Timeouts, SetTimeoutPost(a, v) PROVE UnsharedInv'
  BY <1>5 DEF SetTimeoutPost, Goes, CanCall
<1>6. ASSUME NEW a \in Actors, SpawnWriter(a) PROVE UnsharedInv'
  BY <1>6 DEF SpawnWriter, Goes, TakeBatch, IssueWrite
<1>7. ASSUME NEW a \in Actors, StopClose(a) PROVE UnsharedInv'
  BY <1>7 DEF StopClose, Goes, Close, CloseLost
<1>8. ASSUME NEW v \in Timeouts, SetTimeoutInline(v) PROVE UnsharedInv'
  BY <1>8 DEF SetTimeoutInline
<1>9. ASSUME NEW a \in Users, SetTimeoutRun(a) PROVE UnsharedInv'
  BY <1>9 DEF SetTimeoutRun, Goes
<1>10. CASE StartBegin
  BY <1>10 DEF StartBegin
<1>11. CASE StartStep
  <2>1. CASE StartOptions
    BY <2>1 DEF StartOptions
  <2>2. CASE StartConnected
    BY <2>2 DEF StartConnected
  <2>3. CASE StartReader
    BY <2>3 DEF StartReader
  <2>4. CASE StartCatch
    BY <2>4 DEF StartCatch
  <2>5. CASE StartRecord
    BY <2>5 DEF StartRecord
  <2>6. CASE StartStop
    BY <2>6 DEF StartStop, StopRequest, Goes
  <2>7. CASE StartRethrow
    BY <2>7 DEF StartRethrow
  <2> QED BY <1>11, <2>1, <2>2, <2>3, <2>4, <2>5, <2>6, <2>7 DEF StartStep
<1>12. CASE CloserStep
  <2>1. CASE CloseImplBegin
    BY <2>1 DEF CloseImplBegin
  <2>2. CASE CloseImpl
    BY <2>2 DEF CloseImpl
  <2>3. CASE CloseImplEnd
    BY <2>3 DEF CloseImplEnd
  <2> QED BY <1>12, <2>1, <2>2, <2>3 DEF CloserStep
<1>13. CASE ReaderStep
  <2>1. CASE ReaderLoop
    BY <2>1 DEF ReaderLoop
  <2>2. CASE DataAvailable
    BY <2>2 DEF DataAvailable
  <2>3. CASE DataReturn
    BY <2>3 DEF DataReturn
  <2>4. CASE ReaderCatch
    BY <2>4 DEF ReaderCatch
  <2>5. CASE ReaderClose
    BY <2>5 DEF ReaderClose, Close, CloseLost
  <2> QED BY <1>13, <2>1, <2>2, <2>3, <2>4, <2>5 DEF ReaderStep
<1>14. CASE WriterStep
  <2>1. CASE WriterBegin
    BY <2>1 DEF WriterBegin, WriterTurn, TakeBatch, IssueWrite
  <2>2. CASE WriterNext
    BY <2>2 DEF WriterNext, WriterTurn, TakeBatch, IssueWrite
  <2>3. CASE WriterCheck
    BY <2>3 DEF WriterCheck
  <2>4. CASE WriterResume
    BY <2>4 DEF WriterResume
  <2>5. CASE WriterClose
    BY <2>5 DEF WriterClose, Close, CloseLost
  <2> QED BY <1>14, <2>1, <2>2, <2>3, <2>4, <2>5 DEF WriterStep
<1>15. CASE ReadComplete
  BY <1>15 DEF ReadComplete
<1>16. CASE WriteSome
  BY <1>16 DEF WriteSome
<1>17. CASE WriteComplete
  BY <1>17 DEF WriteComplete
<1>18. CASE PeerLeaves
  BY <1>18 DEF PeerLeaves
<1> QED
  BY <1>1, <1>2, <1>3, <1>4, <1>5, <1>6, <1>7, <1>8, <1>9, <1>10, <1>11, <1>12,
     <1>13, <1>14, <1>15, <1>16, <1>17, <1>18
  DEF Next, UserCall, ThreadStep

\* The callback is owed exactly when onConnected has been invoked.
LEMMA ConnectedLemma ==
  ASSUME ControlTypeOK, ConnectedInv, CloserInv, UnsharedInv, [Next]_vars
  PROVE  ConnectedInv'
<1> USE DEF ControlTypeOK, ConnectedInv, CloserInv, InCloseImpl, Unshared, UnsharedInv
<1>1. CASE UNCHANGED vars
  BY <1>1 DEF vars
<1>2. ASSUME NEW a \in Actors, WriteQueue(a) PROVE ConnectedInv'
  BY <1>2 DEF WriteQueue, Goes, CanCall, InCallback
<1>3. ASSUME NEW a \in Actors, stop_async(a) PROVE ConnectedInv'
  BY <1>3 DEF stop_async, StopRequest, Goes, CanCall, InCallback
<1>4. ASSUME NEW a \in Actors, stop_async_force(a) PROVE ConnectedInv'
  BY <1>4 DEF stop_async_force, Close, CanCall, InCallback
<1>5. ASSUME NEW a \in Actors, NEW v \in Timeouts, SetTimeoutPost(a, v) PROVE ConnectedInv'
  BY <1>5 DEF SetTimeoutPost, Goes, CanCall
<1>6. ASSUME NEW a \in Actors, SpawnWriter(a) PROVE ConnectedInv'
  BY <1>6 DEF SpawnWriter, Goes, TakeBatch, IssueWrite
<1>7. ASSUME NEW a \in Actors, StopClose(a) PROVE ConnectedInv'
  BY <1>7 DEF StopClose, Goes, Close, CloseLost
<1>8. ASSUME NEW v \in Timeouts, SetTimeoutInline(v) PROVE ConnectedInv'
  BY <1>8 DEF SetTimeoutInline
<1>9. ASSUME NEW a \in Users, SetTimeoutRun(a) PROVE ConnectedInv'
  BY <1>9 DEF SetTimeoutRun, Goes
<1>10. CASE StartBegin
  BY <1>10 DEF StartBegin
<1>11. CASE StartStep
  <2>1. CASE StartOptions
    BY <2>1 DEF StartOptions
  <2>2. CASE StartConnected
    BY <2>2 DEF StartConnected
  <2>3. CASE StartReader
    BY <2>3 DEF StartReader
  <2>4. CASE StartCatch
    BY <2>4 DEF StartCatch
  <2>5. CASE StartRecord
    BY <2>5 DEF StartRecord
  <2>6. CASE StartStop
    <3>1. UNCHANGED <<owed, connected, startCalled>> /\ start' = "wait"
      BY <2>6, Zenon DEF StartStop, StopRequest
    <3> QED BY <2>6, <3>1 DEF StartStop
  <2>7. CASE StartRethrow
    BY <2>7 DEF StartRethrow
  <2> QED BY <1>11, <2>1, <2>2, <2>3, <2>4, <2>5, <2>6, <2>7 DEF StartStep
<1>12. CASE CloserStep
  <2>1. CASE CloseImplBegin
    BY <2>1 DEF CloseImplBegin
  <2>2. CASE CloseImpl
    BY <2>2 DEF CloseImpl
  <2>3. CASE CloseImplEnd
    BY <2>3 DEF CloseImplEnd
  <2> QED BY <1>12, <2>1, <2>2, <2>3 DEF CloserStep
<1>13. CASE ReaderStep
  <2>1. CASE ReaderLoop
    BY <2>1 DEF ReaderLoop
  <2>2. CASE DataAvailable
    BY <2>2 DEF DataAvailable
  <2>3. CASE DataReturn
    BY <2>3 DEF DataReturn
  <2>4. CASE ReaderCatch
    BY <2>4 DEF ReaderCatch
  <2>5. CASE ReaderClose
    BY <2>5 DEF ReaderClose, Close, CloseLost
  <2> QED BY <1>13, <2>1, <2>2, <2>3, <2>4, <2>5 DEF ReaderStep
<1>14. CASE WriterStep
  <2>1. CASE WriterBegin
    BY <2>1 DEF WriterBegin, WriterTurn, TakeBatch, IssueWrite
  <2>2. CASE WriterNext
    BY <2>2 DEF WriterNext, WriterTurn, TakeBatch, IssueWrite
  <2>3. CASE WriterCheck
    BY <2>3 DEF WriterCheck
  <2>4. CASE WriterResume
    BY <2>4 DEF WriterResume
  <2>5. CASE WriterClose
    BY <2>5 DEF WriterClose, Close, CloseLost
  <2> QED BY <1>14, <2>1, <2>2, <2>3, <2>4, <2>5 DEF WriterStep
<1>15. CASE ReadComplete
  BY <1>15 DEF ReadComplete
<1>16. CASE WriteSome
  BY <1>16 DEF WriteSome
<1>17. CASE WriteComplete
  BY <1>17 DEF WriteComplete
<1>18. CASE PeerLeaves
  BY <1>18 DEF PeerLeaves
<1> QED
  BY <1>1, <1>2, <1>3, <1>4, <1>5, <1>6, <1>7, <1>8, <1>9, <1>10, <1>11, <1>12,
     <1>13, <1>14, <1>15, <1>16, <1>17, <1>18
  DEF Next, UserCall, ThreadStep

\* The disconnection is reported once, after the connection was.
LEMMA ReportsLemma ==
  ASSUME ControlTypeOK, ReportsInv, ConnectedInv, CloserInv, StrandCallInv, BeforeStart, [Next]_vars
  PROVE  ReportsInv'
<1> USE DEF ControlTypeOK, ReportsInv, Reported, ConnectedInv, CloserInv, InCloseImpl, StrandCallInv, BeforeStart
<1>1. CASE UNCHANGED vars
  BY <1>1 DEF vars
<1>2. ASSUME NEW a \in Actors, WriteQueue(a) PROVE ReportsInv'
  BY <1>2 DEF WriteQueue, Goes, CanCall, InCallback
<1>3. ASSUME NEW a \in Actors, stop_async(a) PROVE ReportsInv'
  BY <1>3 DEF stop_async, StopRequest, Goes, CanCall, InCallback
<1>4. ASSUME NEW a \in Actors, stop_async_force(a) PROVE ReportsInv'
  BY <1>4 DEF stop_async_force, Close, CanCall, InCallback
<1>5. ASSUME NEW a \in Actors, NEW v \in Timeouts, SetTimeoutPost(a, v) PROVE ReportsInv'
  BY <1>5 DEF SetTimeoutPost, Goes, CanCall
<1>6. ASSUME NEW a \in Actors, SpawnWriter(a) PROVE ReportsInv'
  BY <1>6 DEF SpawnWriter, Goes, TakeBatch, IssueWrite
<1>7. ASSUME NEW a \in Actors, StopClose(a) PROVE ReportsInv'
  BY <1>7 DEF StopClose, Goes, Close, CloseLost
<1>8. ASSUME NEW v \in Timeouts, SetTimeoutInline(v) PROVE ReportsInv'
  BY <1>8 DEF SetTimeoutInline
<1>9. ASSUME NEW a \in Users, SetTimeoutRun(a) PROVE ReportsInv'
  BY <1>9 DEF SetTimeoutRun, Goes
<1>10. CASE StartBegin
  BY <1>10 DEF StartBegin
<1>11. CASE StartStep
  <2>1. CASE StartOptions
    BY <2>1 DEF StartOptions
  <2>2. CASE StartConnected
    BY <2>2 DEF StartConnected
  <2>3. CASE StartReader
    BY <2>3 DEF StartReader
  <2>4. CASE StartCatch
    BY <2>4 DEF StartCatch
  <2>5. CASE StartRecord
    BY <2>5 DEF StartRecord
  <2>6. CASE StartStop
    BY <2>6 DEF StartStop, StopRequest, Goes
  <2>7. CASE StartRethrow
    BY <2>7 DEF StartRethrow
  <2> QED BY <1>11, <2>1, <2>2, <2>3, <2>4, <2>5, <2>6, <2>7 DEF StartStep
<1>12. CASE CloserStep
  <2>1. CASE CloseImplBegin
    BY <2>1 DEF CloseImplBegin
  <2>2. CASE CloseImpl
    BY <2>2 DEF CloseImpl
  <2>3. CASE CloseImplEnd
    BY <2>3 DEF CloseImplEnd
  <2> QED BY <1>12, <2>1, <2>2, <2>3 DEF CloserStep
<1>13. CASE ReaderStep
  <2>1. CASE ReaderLoop
    BY <2>1 DEF ReaderLoop
  <2>2. CASE DataAvailable
    BY <2>2 DEF DataAvailable
  <2>3. CASE DataReturn
    BY <2>3 DEF DataReturn
  <2>4. CASE ReaderCatch
    BY <2>4 DEF ReaderCatch
  <2>5. CASE ReaderClose
    BY <2>5 DEF ReaderClose, Close, CloseLost
  <2> QED BY <1>13, <2>1, <2>2, <2>3, <2>4, <2>5 DEF ReaderStep
<1>14. CASE WriterStep
  <2>1. CASE WriterBegin
    BY <2>1 DEF WriterBegin, WriterTurn, TakeBatch, IssueWrite
  <2>2. CASE WriterNext
    BY <2>2 DEF WriterNext, WriterTurn, TakeBatch, IssueWrite
  <2>3. CASE WriterCheck
    BY <2>3 DEF WriterCheck
  <2>4. CASE WriterResume
    BY <2>4 DEF WriterResume
  <2>5. CASE WriterClose
    BY <2>5 DEF WriterClose, Close, CloseLost
  <2> QED BY <1>14, <2>1, <2>2, <2>3, <2>4, <2>5 DEF WriterStep
<1>15. CASE ReadComplete
  BY <1>15 DEF ReadComplete
<1>16. CASE WriteSome
  BY <1>16 DEF WriteSome
<1>17. CASE WriteComplete
  BY <1>17 DEF WriteComplete
<1>18. CASE PeerLeaves
  BY <1>18 DEF PeerLeaves
<1> QED
  BY <1>1, <1>2, <1>3, <1>4, <1>5, <1>6, <1>7, <1>8, <1>9, <1>10, <1>11, <1>12,
     <1>13, <1>14, <1>15, <1>16, <1>17, <1>18
  DEF Next, UserCall, ThreadStep

\* What a step of a call does to the set of actors about to spawn a writer.
LEMMA SpawningSame ==
  ASSUME UNCHANGED call
  PROVE  Spawning' = Spawning
  BY DEF Spawning

\* A call that goes elsewhere adds nobody.
LEMMA SpawningOther ==
  ASSUME call \in [Actors -> {"idle", "spawn", "close", "timeout_on", "timeout_off"}],
         NEW a \in Actors, NEW c, c # "spawn", call[a] # "spawn", Goes(a, c)
  PROVE  Spawning' = Spawning
  BY DEF Spawning, Goes

\* write() adds its caller.
LEMMA SpawningAdded ==
  ASSUME call \in [Actors -> {"idle", "spawn", "close", "timeout_on", "timeout_off"}],
         NEW a \in Actors, Goes(a, "spawn")
  PROVE  Spawning' = Spawning \cup {a}
  BY DEF Spawning, Goes

\* co_spawn removes its caller.
LEMMA SpawningRemoved ==
  ASSUME call \in [Actors -> {"idle", "spawn", "close", "timeout_on", "timeout_off"}],
         NEW a \in Actors, Goes(a, "idle")
  PROVE  Spawning' = Spawning \ {a}
  BY DEF Spawning, Goes

\* One writer, backed by the flag; the duty to close is handed on, never dropped.
LEMMA WriterLemma ==
  ASSUME ControlTypeOK, WriterInv, StrandCallInv, BeforeStart, [Next]_vars
  PROVE  WriterInv'
<1> USE DEF ControlTypeOK, WriterInv, ScheduledInv, SingleWriter, CloseIsAssigned, HasWriter, StrandCallInv, BeforeStart
<1>1. CASE UNCHANGED vars
  BY <1>1, SpawningSame DEF vars
<1>2. ASSUME NEW a \in Actors, WriteQueue(a) PROVE WriterInv'
  <2>1. CASE scheduled
    BY <1>2, <2>1, SpawningSame DEF WriteQueue, need_spawn
  <2>2. CASE ~scheduled
    <3>1. Spawning' = {a}
      BY <1>2, <2>2, SpawningAdded DEF WriteQueue, need_spawn
    <3> QED BY <1>2, <2>2, <3>1 DEF WriteQueue
  <2> QED BY <2>1, <2>2
<1>3. ASSUME NEW a \in Actors, stop_async(a) PROVE WriterInv'
  <2>1. CASE ~shouldClose
    BY <1>3, <2>1, SpawningSame DEF stop_async, StopRequest, shouldClose
  <2>2. CASE shouldClose
    <3>1. Spawning' = Spawning
      BY <1>3, <2>2, SpawningOther DEF stop_async, StopRequest, CanCall
    <3>2. call'[a] = "close"
      BY <1>3, <2>2 DEF stop_async, StopRequest, Goes
    <3> QED BY <1>3, <3>1, <3>2 DEF stop_async, StopRequest
  <2> QED BY <2>1, <2>2
<1>4. ASSUME NEW a \in Actors, stop_async_force(a) PROVE WriterInv'
   BY <1>4, SpawningSame DEF stop_async_force, Close, CanCall, InCallback
<1>5. ASSUME NEW a \in Actors, NEW v \in Timeouts, SetTimeoutPost(a, v) PROVE WriterInv'
  <2>1. Spawning' = Spawning
    BY <1>5, SpawningOther DEF SetTimeoutPost, CanCall
  <2>2. \A b \in Actors : call[b] = "close" => call'[b] = "close"
    BY <1>5 DEF SetTimeoutPost, CanCall, Goes
  <2> QED BY <1>5, <2>1, <2>2 DEF SetTimeoutPost
<1>6. ASSUME NEW a \in Actors, SpawnWriter(a) PROVE WriterInv'
  <2>1. Spawning = {a}
    BY <1>6 DEF SpawnWriter, Spawning
  <2>2. Spawning' = {}
    BY <1>6, <2>1, SpawningRemoved DEF SpawnWriter
  <2>3. spawned = 0 /\ inflight = {} /\ strand # "writer" /\ scheduled
    BY <2>1
  <2>4. HasWriter' /\ SingleWriter'
    <3>1. CASE spawned' = spawned + 1 /\ UNCHANGED <<queueVars, ioVars>>
      BY <1>6, <2>2, <2>3, <3>1 DEF SpawnWriter
    <3>2. CASE msgs # <<>> /\ TakeBatch /\ IssueWrite /\ UNCHANGED <<spawned, sent>>
      <4>1. scheduled'
        BY <2>3, <3>2 DEF TakeBatch
      <4> DEFINE n == [batch |-> msgs, taken |-> 0, timed |-> timeout, result |-> "pending"]
      <4>2. inflight' = {n}
        BY <2>3, <3>2, Zenon DEF IssueWrite
      <4> HIDE DEF n
      <4> QED BY <1>6, <2>2, <2>3, <3>2, <4>1, <4>2 DEF SpawnWriter
    <3> QED BY <1>6, <3>1, <3>2, Zenon DEF SpawnWriter
  <2> QED BY <2>4
<1>7. ASSUME NEW a \in Actors, StopClose(a) PROVE WriterInv'
  <2>1. Spawning' = Spawning
    BY <1>7, SpawningOther DEF StopClose
  <2>2. state' \in {"stopping", "stopped"}
    BY <1>7 DEF StopClose, Close, CloseLost
  <2>3. strand' = strand \/ strand' = "close_impl"
    BY <1>7 DEF StopClose, Close, CloseLost
  <2> QED BY <1>7, <2>1, <2>2, <2>3 DEF StopClose
<1>8. ASSUME NEW v \in Timeouts, SetTimeoutInline(v) PROVE WriterInv'
   BY <1>8, SpawningSame DEF SetTimeoutInline
<1>9. ASSUME NEW a \in Users, SetTimeoutRun(a) PROVE WriterInv'
  <2>1. Spawning' = Spawning
    BY <1>9, SpawningOther DEF SetTimeoutRun
  <2>2. \A b \in Actors : call[b] = "close" => call'[b] = "close"
    BY <1>9 DEF SetTimeoutRun, Goes
  <2> QED BY <1>9, <2>1, <2>2 DEF SetTimeoutRun
<1>10. CASE StartBegin
   BY <1>10, SpawningSame DEF StartBegin
<1>11. CASE StartStep
  <2>1. CASE StartOptions
     BY <2>1, SpawningSame DEF StartOptions
  <2>2. CASE StartConnected
     BY <2>2, SpawningSame DEF StartConnected
  <2>3. CASE StartReader
     BY <2>3, SpawningSame DEF StartReader
  <2>4. CASE StartCatch
     BY <2>4, SpawningSame DEF StartCatch
  <2>5. CASE StartRecord
     BY <2>5, SpawningSame DEF StartRecord
  <2>6. CASE StartStop
    <3>1. CASE ~shouldClose \/ state # "running"
      BY <2>6, <3>1, SpawningSame DEF StartStop, StopRequest, shouldClose
    <3>2. CASE shouldClose /\ state = "running"
      <4>1. call[Starter] # "spawn"
        BY <3>2 DEF shouldClose, Spawning
      <4>2. Spawning' = Spawning
        BY <2>6, <3>2, <4>1, SpawningOther DEF StartStop, StopRequest
      <4>3. call'[Starter] = "close"
        BY <2>6, <3>2 DEF StartStop, StopRequest, Goes
      <4> QED BY <2>6, <3>2, <4>2, <4>3 DEF StartStop, StopRequest
    <3> QED BY <3>1, <3>2
  <2>7. CASE StartRethrow
     BY <2>7, SpawningSame DEF StartRethrow
  <2> QED BY <1>11, <2>1, <2>2, <2>3, <2>4, <2>5, <2>6, <2>7 DEF StartStep
<1>12. CASE CloserStep
  <2>1. CASE CloseImplBegin
     BY <2>1, SpawningSame DEF CloseImplBegin
  <2>2. CASE CloseImpl
     BY <2>2, SpawningSame DEF CloseImpl
  <2>3. CASE CloseImplEnd
     BY <2>3, SpawningSame DEF CloseImplEnd
  <2> QED BY <1>12, <2>1, <2>2, <2>3 DEF CloserStep
<1>13. CASE ReaderStep
  <2>1. CASE ReaderLoop
     BY <2>1, SpawningSame DEF ReaderLoop
  <2>2. CASE DataAvailable
     BY <2>2, SpawningSame DEF DataAvailable
  <2>3. CASE DataReturn
     BY <2>3, SpawningSame DEF DataReturn
  <2>4. CASE ReaderCatch
     BY <2>4, SpawningSame DEF ReaderCatch
  <2>5. CASE ReaderClose
     BY <2>5, SpawningSame DEF ReaderClose, Close, CloseLost
  <2> QED BY <1>13, <2>1, <2>2, <2>3, <2>4, <2>5 DEF ReaderStep
<1>14. CASE WriterStep
  <2>1. CASE WriterBegin
    <3>1. spawned = 1 /\ inflight = {} /\ Spawning = {} /\ strand = "idle" /\ scheduled
      BY <2>1 DEF WriterBegin
    <3>2. spawned' = 0 /\ Spawning' = {} /\ state' = state /\ call' = call
      BY <2>1, <3>1, SpawningSame DEF WriterBegin, WriterTurn
    <3>3. CASE msgs = <<>>
      <4>1. ~scheduled'
        BY <2>1, <3>3, Zenon DEF WriterBegin, WriterTurn, TakeBatch
      <4>2. strand' = "writer_check" /\ inflight' = {}
        BY <2>1, <3>1, <3>3 DEF WriterBegin, WriterTurn
      <4> QED BY <3>2, <4>1, <4>2
    <3>4. CASE msgs # <<>>
      <4> DEFINE n == [batch |-> msgs, taken |-> 0, timed |-> timeout, result |-> "pending"]
      <4>1. inflight' = {n}
        BY <2>1, <3>1, <3>4, Zenon DEF WriterBegin, WriterTurn, IssueWrite
      <4> HIDE DEF n
      <4>2. scheduled' /\ strand' = "idle"
        BY <2>1, <3>1, <3>4 DEF WriterBegin, WriterTurn, TakeBatch
      <4> QED BY <3>1, <3>2, <4>1, <4>2
    <3> QED BY <3>3, <3>4
  <2>2. CASE WriterNext
    <3>1. spawned = 0 /\ inflight = {} /\ Spawning = {} /\ strand = "writer" /\ scheduled
      BY <2>2 DEF WriterNext
    <3>2. spawned' = 0 /\ Spawning' = {} /\ state' = state /\ call' = call
      BY <2>2, <3>1, SpawningSame DEF WriterNext, WriterTurn
    <3>3. CASE msgs = <<>>
      <4>1. ~scheduled'
        BY <2>2, <3>3, Zenon DEF WriterNext, WriterTurn, TakeBatch
      <4>2. strand' = "writer_check" /\ inflight' = {}
        BY <2>2, <3>1, <3>3 DEF WriterNext, WriterTurn
      <4> QED BY <3>2, <4>1, <4>2
    <3>4. CASE msgs # <<>>
      <4> DEFINE n == [batch |-> msgs, taken |-> 0, timed |-> timeout, result |-> "pending"]
      <4>1. inflight' = {n}
        BY <2>2, <3>1, <3>4, Zenon DEF WriterNext, WriterTurn, IssueWrite
      <4> HIDE DEF n
      <4>2. scheduled' /\ strand' = "idle"
        BY <2>2, <3>1, <3>4 DEF WriterNext, WriterTurn, TakeBatch
      <4> QED BY <3>1, <3>2, <4>1, <4>2
    <3> QED BY <3>3, <3>4
  <2>3. CASE WriterCheck
     BY <2>3, SpawningSame DEF WriterCheck
  <2>4. CASE WriterResume
     BY <2>4, SpawningSame DEF WriterResume
  <2>5. CASE WriterClose
     BY <2>5, SpawningSame DEF WriterClose, Close, CloseLost
  <2> QED BY <1>14, <2>1, <2>2, <2>3, <2>4, <2>5 DEF WriterStep
<1>15. CASE ReadComplete
   BY <1>15, SpawningSame DEF ReadComplete
<1>16. CASE WriteSome
  <2>1. Spawning' = Spawning
    BY <1>16, SpawningSame DEF WriteSome
  <2>2. \E w : inflight # {} /\ inflight' = {w}
    <3>1. PICK w \in inflight : inflight' = (inflight \ {w}) \cup {[w EXCEPT !.taken = @ + 1]}
      BY <1>16, Zenon DEF WriteSome
    <3>2. inflight \ {w} = {}
      OBVIOUS
    <3>3. inflight' = {[w EXCEPT !.taken = @ + 1]} /\ inflight # {}
      BY <3>1, <3>2, Zenon
    <3> QED BY <3>3, Zenon
  <2>3. UNCHANGED <<state, call, scheduled, strand, spawned>>
    BY <1>16, Zenon DEF WriteSome
  <2> QED BY <2>1, <2>2, <2>3
<1>17. CASE WriteComplete
  <2>1. Spawning' = Spawning
    BY <1>17, SpawningSame DEF WriteComplete
  <2>2. \E w : inflight # {} /\ inflight' = {w}
    <3>a. PICK w \in inflight : \E r \in Outcome(w) :
            inflight' = (inflight \ {w}) \cup {[w EXCEPT !.result = r]}
      BY <1>17, Zenon DEF WriteComplete
    <3>1. PICK r : inflight' = (inflight \ {w}) \cup {[w EXCEPT !.result = r]}
      BY <3>a, Zenon
    <3>2. inflight \ {w} = {}
      OBVIOUS
    <3>3. inflight' = {[w EXCEPT !.result = r]} /\ inflight # {}
      BY <3>1, <3>2, Zenon
    <3> QED BY <3>3, Zenon
  <2>3. UNCHANGED <<state, call, scheduled, strand, spawned>>
    BY <1>17, Zenon DEF WriteComplete
  <2> QED BY <2>1, <2>2, <2>3
<1>18. CASE PeerLeaves
   BY <1>18, SpawningSame DEF PeerLeaves
<1> QED
  BY <1>1, <1>2, <1>3, <1>4, <1>5, <1>6, <1>7, <1>8, <1>9, <1>10, <1>11, <1>12,
     <1>13, <1>14, <1>15, <1>16, <1>17, <1>18
  DEF Next, UserCall, ThreadStep

\* The socket stays closed once close_impl() has closed it.
LEMMA ClosedLemma ==
  ASSUME ControlTypeOK, ClosedInv, CloserInv, StrandCallInv, BeforeStart, [Next]_vars
  PROVE  ClosedInv'
<1> USE DEF ControlTypeOK, ClosedInv, Reported, CloserInv, InCloseImpl, StrandCallInv, BeforeStart
<1>1. CASE UNCHANGED vars
  BY <1>1 DEF vars
<1>2. ASSUME NEW a \in Actors, WriteQueue(a) PROVE ClosedInv'
  BY <1>2 DEF WriteQueue, Goes, CanCall, InCallback
<1>3. ASSUME NEW a \in Actors, stop_async(a) PROVE ClosedInv'
  BY <1>3 DEF stop_async, StopRequest, Goes, CanCall, InCallback
<1>4. ASSUME NEW a \in Actors, stop_async_force(a) PROVE ClosedInv'
  BY <1>4 DEF stop_async_force, Close, CanCall, InCallback
<1>5. ASSUME NEW a \in Actors, NEW v \in Timeouts, SetTimeoutPost(a, v) PROVE ClosedInv'
  BY <1>5 DEF SetTimeoutPost, Goes, CanCall
<1>6. ASSUME NEW a \in Actors, SpawnWriter(a) PROVE ClosedInv'
  BY <1>6 DEF SpawnWriter, Goes, TakeBatch, IssueWrite
<1>7. ASSUME NEW a \in Actors, StopClose(a) PROVE ClosedInv'
  BY <1>7 DEF StopClose, Goes, Close, CloseLost
<1>8. ASSUME NEW v \in Timeouts, SetTimeoutInline(v) PROVE ClosedInv'
  BY <1>8 DEF SetTimeoutInline
<1>9. ASSUME NEW a \in Users, SetTimeoutRun(a) PROVE ClosedInv'
  BY <1>9 DEF SetTimeoutRun, Goes
<1>10. CASE StartBegin
  BY <1>10 DEF StartBegin
<1>11. CASE StartStep
  <2>1. CASE StartOptions
    BY <2>1 DEF StartOptions
  <2>2. CASE StartConnected
    BY <2>2 DEF StartConnected
  <2>3. CASE StartReader
    BY <2>3 DEF StartReader
  <2>4. CASE StartCatch
    BY <2>4 DEF StartCatch
  <2>5. CASE StartRecord
    BY <2>5 DEF StartRecord
  <2>6. CASE StartStop
    BY <2>6 DEF StartStop, StopRequest, Goes
  <2>7. CASE StartRethrow
    BY <2>7 DEF StartRethrow
  <2> QED BY <1>11, <2>1, <2>2, <2>3, <2>4, <2>5, <2>6, <2>7 DEF StartStep
<1>12. CASE CloserStep
  <2>1. CASE CloseImplBegin
    BY <2>1 DEF CloseImplBegin
  <2>2. CASE CloseImpl
    BY <2>2 DEF CloseImpl
  <2>3. CASE CloseImplEnd
    BY <2>3 DEF CloseImplEnd
  <2> QED BY <1>12, <2>1, <2>2, <2>3 DEF CloserStep
<1>13. CASE ReaderStep
  <2>1. CASE ReaderLoop
    BY <2>1 DEF ReaderLoop
  <2>2. CASE DataAvailable
    BY <2>2 DEF DataAvailable
  <2>3. CASE DataReturn
    BY <2>3 DEF DataReturn
  <2>4. CASE ReaderCatch
    BY <2>4 DEF ReaderCatch
  <2>5. CASE ReaderClose
    BY <2>5 DEF ReaderClose, Close, CloseLost
  <2> QED BY <1>13, <2>1, <2>2, <2>3, <2>4, <2>5 DEF ReaderStep
<1>14. CASE WriterStep
  <2>1. CASE WriterBegin
    BY <2>1 DEF WriterBegin, WriterTurn, TakeBatch, IssueWrite
  <2>2. CASE WriterNext
    BY <2>2 DEF WriterNext, WriterTurn, TakeBatch, IssueWrite
  <2>3. CASE WriterCheck
    BY <2>3 DEF WriterCheck
  <2>4. CASE WriterResume
    BY <2>4 DEF WriterResume
  <2>5. CASE WriterClose
    BY <2>5 DEF WriterClose, Close, CloseLost
  <2> QED BY <1>14, <2>1, <2>2, <2>3, <2>4, <2>5 DEF WriterStep
<1>15. CASE ReadComplete
  BY <1>15 DEF ReadComplete
<1>16. CASE WriteSome
  BY <1>16 DEF WriteSome
<1>17. CASE WriteComplete
  BY <1>17 DEF WriteComplete
<1>18. CASE PeerLeaves
  BY <1>18 DEF PeerLeaves
<1> QED
  BY <1>1, <1>2, <1>3, <1>4, <1>5, <1>6, <1>7, <1>8, <1>9, <1>10, <1>11, <1>12,
     <1>13, <1>14, <1>15, <1>16, <1>17, <1>18
  DEF Next, UserCall, ThreadStep

\* No step of a stopped session accepts, sends, reports or restarts.
LEMMA FinalLemma ==
  ASSUME ControlTypeOK, ClosedInv, CloserInv, StrandCallInv, BeforeStart, [Next]_vars
  PROVE  FinalStep
<1> USE DEF FinalStep, ControlTypeOK, ClosedInv, Reported, CloserInv, InCloseImpl, StrandCallInv, BeforeStart
<1>1. CASE UNCHANGED vars
  BY <1>1 DEF vars
<1>2. ASSUME NEW a \in Actors, WriteQueue(a) PROVE FinalStep
  BY <1>2 DEF WriteQueue, Goes, CanCall, InCallback
<1>3. ASSUME NEW a \in Actors, stop_async(a) PROVE FinalStep
  BY <1>3 DEF stop_async, StopRequest, Goes, CanCall, InCallback
<1>4. ASSUME NEW a \in Actors, stop_async_force(a) PROVE FinalStep
  BY <1>4 DEF stop_async_force, Close, CanCall, InCallback
<1>5. ASSUME NEW a \in Actors, NEW v \in Timeouts, SetTimeoutPost(a, v) PROVE FinalStep
  BY <1>5 DEF SetTimeoutPost, Goes, CanCall
<1>6. ASSUME NEW a \in Actors, SpawnWriter(a) PROVE FinalStep
  BY <1>6 DEF SpawnWriter, Goes, TakeBatch, IssueWrite
<1>7. ASSUME NEW a \in Actors, StopClose(a) PROVE FinalStep
  BY <1>7 DEF StopClose, Goes, Close, CloseLost
<1>8. ASSUME NEW v \in Timeouts, SetTimeoutInline(v) PROVE FinalStep
  BY <1>8 DEF SetTimeoutInline
<1>9. ASSUME NEW a \in Users, SetTimeoutRun(a) PROVE FinalStep
  BY <1>9 DEF SetTimeoutRun, Goes
<1>10. CASE StartBegin
  BY <1>10 DEF StartBegin
<1>11. CASE StartStep
  <2>1. CASE StartOptions
    BY <2>1 DEF StartOptions
  <2>2. CASE StartConnected
    BY <2>2 DEF StartConnected
  <2>3. CASE StartReader
    BY <2>3 DEF StartReader
  <2>4. CASE StartCatch
    BY <2>4 DEF StartCatch
  <2>5. CASE StartRecord
    BY <2>5 DEF StartRecord
  <2>6. CASE StartStop
    BY <2>6 DEF StartStop, StopRequest, Goes
  <2>7. CASE StartRethrow
    BY <2>7 DEF StartRethrow
  <2> QED BY <1>11, <2>1, <2>2, <2>3, <2>4, <2>5, <2>6, <2>7 DEF StartStep
<1>12. CASE CloserStep
  <2>1. CASE CloseImplBegin
    BY <2>1 DEF CloseImplBegin
  <2>2. CASE CloseImpl
    BY <2>2 DEF CloseImpl
  <2>3. CASE CloseImplEnd
    BY <2>3 DEF CloseImplEnd
  <2> QED BY <1>12, <2>1, <2>2, <2>3 DEF CloserStep
<1>13. CASE ReaderStep
  <2>1. CASE ReaderLoop
    BY <2>1 DEF ReaderLoop
  <2>2. CASE DataAvailable
    BY <2>2 DEF DataAvailable
  <2>3. CASE DataReturn
    BY <2>3 DEF DataReturn
  <2>4. CASE ReaderCatch
    BY <2>4 DEF ReaderCatch
  <2>5. CASE ReaderClose
    BY <2>5 DEF ReaderClose, Close, CloseLost
  <2> QED BY <1>13, <2>1, <2>2, <2>3, <2>4, <2>5 DEF ReaderStep
<1>14. CASE WriterStep
  <2>1. CASE WriterBegin
    BY <2>1 DEF WriterBegin, WriterTurn, TakeBatch, IssueWrite
  <2>2. CASE WriterNext
    BY <2>2 DEF WriterNext, WriterTurn, TakeBatch, IssueWrite
  <2>3. CASE WriterCheck
    BY <2>3 DEF WriterCheck
  <2>4. CASE WriterResume
    BY <2>4 DEF WriterResume
  <2>5. CASE WriterClose
    BY <2>5 DEF WriterClose, Close, CloseLost
  <2> QED BY <1>14, <2>1, <2>2, <2>3, <2>4, <2>5 DEF WriterStep
<1>15. CASE ReadComplete
  BY <1>15 DEF ReadComplete
<1>16. CASE WriteSome
  BY <1>16 DEF WriteSome
<1>17. CASE WriteComplete
  BY <1>17 DEF WriteComplete
<1>18. CASE PeerLeaves
  BY <1>18 DEF PeerLeaves
<1> QED
  BY <1>1, <1>2, <1>3, <1>4, <1>5, <1>6, <1>7, <1>8, <1>9, <1>10, <1>11, <1>12,
     <1>13, <1>14, <1>15, <1>16, <1>17, <1>18
  DEF Next, UserCall, ThreadStep

-------------------------------------------------------------------------------
(* The order of the messages *)

\* The steps that move messages from write() to the socket.
PipelineStep ==
    \/ \E a \in Actors : WriteQueue(a) \/ SpawnWriter(a)
    \/ WriterBegin \/ WriterNext \/ WriterResume
    \/ WriteSome \/ WriteComplete

\* What every other step leaves alone.
PipelineStill ==
    /\ UNCHANGED <<accepted, msgs, queued, writing, sent, inflight, scheduled, spawned>>
    /\ Spawning' = Spawning
    /\ strand' = "writer" => strand = "writer"

\* Messages move by the steps of the pipeline only.
LEMMA StillLemma ==
  ASSUME ControlTypeOK, StrandCallInv, WriterInv, [Next]_vars, ~PipelineStep
  PROVE  PipelineStill
<1> USE DEF ControlTypeOK, StrandCallInv, PipelineStill
<1>1. CASE UNCHANGED vars
  BY <1>1, SpawningSame DEF vars
<1>3. ASSUME NEW a \in Actors, stop_async(a) PROVE PipelineStill
  <2>1. CASE shouldClose
    BY <1>3, <2>1, SpawningOther DEF stop_async, StopRequest, CanCall
  <2>2. CASE ~shouldClose
    BY <1>3, <2>2, SpawningSame DEF stop_async, StopRequest
  <2> QED BY <2>1, <2>2
<1>4. ASSUME NEW a \in Actors, stop_async_force(a) PROVE PipelineStill
  BY <1>4, SpawningSame DEF stop_async_force, Close
<1>5. ASSUME NEW a \in Actors, NEW v \in Timeouts, SetTimeoutPost(a, v) PROVE PipelineStill
  BY <1>5, SpawningOther DEF SetTimeoutPost, CanCall
<1>7. ASSUME NEW a \in Actors, StopClose(a) PROVE PipelineStill
  BY <1>7, SpawningOther DEF StopClose, Close, CloseLost
<1>8. ASSUME NEW v \in Timeouts, SetTimeoutInline(v) PROVE PipelineStill
  BY <1>8, SpawningSame DEF SetTimeoutInline
<1>9. ASSUME NEW a \in Users, SetTimeoutRun(a) PROVE PipelineStill
  BY <1>9, SpawningOther DEF SetTimeoutRun
<1>10. CASE StartBegin
  BY <1>10, SpawningSame DEF StartBegin
<1>11. CASE StartStep
  <2>1. CASE StartOptions    BY <2>1, SpawningSame DEF StartOptions
  <2>2. CASE StartConnected  BY <2>2, SpawningSame DEF StartConnected
  <2>3. CASE StartReader     BY <2>3, SpawningSame DEF StartReader
  <2>4. CASE StartCatch      BY <2>4, SpawningSame DEF StartCatch
  <2>5. CASE StartRecord     BY <2>5, SpawningSame DEF StartRecord
  <2>6. CASE StartStop
    <3>1. CASE StopRequest(Starter) /\ shouldClose
      <4>1. call[Starter] # "spawn"
        BY <3>1 DEF shouldClose, Spawning, WriterInv, SingleWriter, HasWriter
      <4> QED BY <3>1, <4>1, SpawningOther DEF StopRequest
    <3>2. CASE ~(StopRequest(Starter) /\ shouldClose)
      BY <2>6, <3>2, SpawningSame DEF StartStop, StopRequest
    <3> QED BY <3>1, <3>2
  <2>7. CASE StartRethrow    BY <2>7, SpawningSame DEF StartRethrow
  <2> QED BY <1>11, <2>1, <2>2, <2>3, <2>4, <2>5, <2>6, <2>7 DEF StartStep
<1>12. CASE CloserStep
  <2>1. CASE CloseImplBegin  BY <2>1, SpawningSame DEF CloseImplBegin
  <2>2. CASE CloseImpl       BY <2>2, SpawningSame DEF CloseImpl
  <2>3. CASE CloseImplEnd    BY <2>3, SpawningSame DEF CloseImplEnd
  <2> QED BY <1>12, <2>1, <2>2, <2>3 DEF CloserStep
<1>13. CASE ReaderStep
  <2>1. CASE ReaderLoop      BY <2>1, SpawningSame DEF ReaderLoop
  <2>2. CASE DataAvailable   BY <2>2, SpawningSame DEF DataAvailable
  <2>3. CASE DataReturn      BY <2>3, SpawningSame DEF DataReturn
  <2>4. CASE ReaderCatch     BY <2>4, SpawningSame DEF ReaderCatch
  <2>5. CASE ReaderClose     BY <2>5, SpawningSame DEF ReaderClose, Close, CloseLost
  <2> QED BY <1>13, <2>1, <2>2, <2>3, <2>4, <2>5 DEF ReaderStep
<1>14. CASE WriterCheck
  BY <1>14, SpawningSame DEF WriterCheck
<1>15. CASE WriterClose
  BY <1>15, SpawningSame DEF WriterClose, Close, CloseLost
<1>16. CASE ReadComplete
  BY <1>16, SpawningSame DEF ReadComplete
<1>18. CASE PeerLeaves
  BY <1>18, SpawningSame DEF PeerLeaves
<1> QED
  BY <1>1, <1>3, <1>4, <1>5, <1>7, <1>8, <1>9, <1>10, <1>11, <1>12, <1>13, <1>14,
     <1>15, <1>16, <1>18
  DEF Next, UserCall, ThreadStep, WriterStep, PipelineStep

\* Appending the next number keeps a sequence counting up.
LEMMA CountsUpAppend ==
  ASSUME NEW s \in Seq(Messages), NEW n \in Nat, NEW m \in Messages, CountsUp(s, n),
         m = n + Len(s) + 1
  PROVE  CountsUp(Append(s, m), n)
<1>1. Len(Append(s, m)) = Len(s) + 1
  OBVIOUS
<1>2. ASSUME NEW i \in 1..Len(s) PROVE Append(s, m)[i] = n + i
  BY DEF CountsUp
<1>3. Append(s, m)[Len(s) + 1] = n + (Len(s) + 1)
  OBVIOUS
<1>4. ASSUME NEW i \in 1..(Len(s) + 1) PROVE Append(s, m)[i] = n + i
  <2>1. i \in 1..Len(s) \/ i = Len(s) + 1
    OBVIOUS
  <2> QED BY <1>2, <1>3, <2>1
<1> QED BY <1>1, <1>4 DEF CountsUp

\* The same numbers, counted from the same place.
LEMMA CountsUpFrom ==
  ASSUME NEW s, NEW m, NEW n, CountsUp(s, m), m = n
  PROVE  CountsUp(s, n)
  OBVIOUS

\* The length of a queue that one more message joins.
LEMMA LengthAppend ==
  ASSUME NEW s \in Seq(Messages), NEW m \in Messages
  PROVE  Len(Append(s, m)) = Len(s) + 1
  OBVIOUS

\* Counting one more message, here and there.
LEMMA OneMore ==
  \A d \in Int : \A k, q, n \in Nat : k + d + q = n => k + d + (q + 1) = n + 1
  OBVIOUS

\* The next message of a batch b, of which t are taken, is the one after the last
\* of those sent; taking it moves it from the one to the other.
LEMMA NextOfBatch ==
  ASSUME NEW b \in Seq(Messages), NEW t \in Nat, NEW s \in Seq(Messages), NEW d \in Nat,
         t < Len(b), Len(s) = d + t, CountsUp(s, 0), CountsUp(b, d)
  PROVE  /\ CountsUp(Append(s, b[t + 1]), 0)
         /\ Len(Append(s, b[t + 1])) = d + (t + 1)
<1>1. t + 1 \in 1..Len(b)
  OBVIOUS
<1>2. b[t + 1] = d + (t + 1)
  BY <1>1 DEF CountsUp
<1> DEFINE m == b[t + 1]
<1>3. m \in Messages
  BY <1>1, MessageAt
<1>4. m = 0 + Len(s) + 1
  BY <1>2
<1> HIDE DEF m
<1>5. CountsUp(Append(s, m), 0)
  BY <1>3, <1>4, CountsUpAppend
<1>6. Len(Append(s, m)) = d + (t + 1)
  <2>1. Len(Append(s, m)) = Len(s) + 1
    BY <1>3, LengthAppend
  <2> QED BY <2>1
<1> QED BY <1>5, <1>6 DEF m

\* What a writer takes from the queue is in order after what has been sent.
LEMMA TakenInOrder ==
  ASSUME ControlTypeOK, OrderInv, NothingInFlight, msgs # <<>>, TakeBatch, UNCHANGED sent,
         NEW n \in Write, n.batch = msgs, n.taken = 0, n.result = "pending",
         inflight' = {n}, spawned' = 0, Spawning' = {}, strand' # "writer", scheduled'
  PROVE  OrderInv'
<1> USE DEF ControlTypeOK
<1>1. /\ msgs' = <<>> /\ accepted' = accepted /\ sent' = sent
  BY DEF TakeBatch
<1>2. Len(sent) + Len(msgs) = accepted
  BY DEF OrderInv
<1>3. CountsUp(msgs, Len(sent))
  <2>1. accepted - Len(msgs) = Len(sent)
    BY <1>2
  <2>2. CountsUp(msgs, accepted - Len(msgs))
    BY DEF OrderInv
  <2> QED BY <2>1, <2>2, CountsUpFrom
<1>4. FlightInOrder(n)'
  BY <1>1, <1>2, <1>3 DEF FlightInOrder, CountsUp
<1>5. CountsUp(sent, 0)' /\ CountsUp(msgs, accepted - Len(msgs))'
  BY <1>1 DEF OrderInv, CountsUp
<1>6. (Len(sent) + Len(msgs) <= accepted)'
  BY <1>1, <1>2
<1>7. ~NothingInFlight'
  BY DEF NothingInFlight
<1> QED
  BY <1>1, <1>4, <1>5, <1>6, <1>7 DEF OrderInv

\* Every step of the pipeline hands the messages on in order; none is skipped,
\* repeated or overtaken.
LEMMA OrderLemma ==
  ASSUME ControlTypeOK, StrandCallInv, WriterInv, OrderInv, WriterInv', [Next]_vars
  PROVE  OrderInv'
<1> USE DEF ControlTypeOK
<1>1. CASE ~PipelineStep
  <2>1. PipelineStill
    BY <1>1, StillLemma
  <2>2. \A w \in inflight : FlightInOrder(w)'
    BY <2>1 DEF PipelineStill, OrderInv, FlightInOrder, CountsUp
  <2>3. CountsUp(sent, 0)' /\ CountsUp(msgs, accepted - Len(msgs))'
    BY <2>1 DEF PipelineStill, OrderInv, CountsUp
  <2>4. NothingInFlight' => NothingInFlight
    BY <2>1 DEF PipelineStill, NothingInFlight
  <2> QED BY <2>1, <2>2, <2>3, <2>4 DEF PipelineStill, OrderInv
<1>2. ASSUME NEW a \in Actors, WriteQueue(a) PROVE OrderInv'
  <2>1. /\ accepted' = accepted + 1 /\ accepted < MaxWrites /\ scheduled'
        /\ UNCHANGED <<sent, inflight, spawned, strand>>
        /\ msgs' = Append(msgs, accepted + 1)
    BY <1>2 DEF WriteQueue
  <2> DEFINE m == accepted + 1
             n == accepted - Len(msgs)
  <2>2. m \in Messages /\ n \in Nat /\ CountsUp(msgs, n) /\ m = n + Len(msgs) + 1
    BY <2>1 DEF OrderInv
  <2>3. Len(msgs') = Len(msgs) + 1 /\ msgs' = Append(msgs, m)
    BY <2>1, <2>2
  <2> HIDE DEF m, n
  <2>4. CountsUp(msgs', n)
    BY <2>2, <2>3, CountsUpAppend
  <2>5. CountsUp(msgs, accepted - Len(msgs))'
    BY <2>1, <2>3, <2>4 DEF CountsUp, n
  <2>6. \A w \in inflight : FlightInOrder(w)'
    <3> SUFFICES ASSUME NEW w \in inflight PROVE FlightInOrder(w)'
      OBVIOUS
    <3>1. FlightInOrder(w)
      BY DEF OrderInv
    <3>2. CountsUp(w.batch, Len(sent) - w.taken)'
      BY <2>1, <3>1 DEF FlightInOrder, CountsUp
    <3>3. w.batch \in Seq(Messages) /\ w.taken \in Nat
      OBVIOUS
    <3>4. PICK d \in Int : d = Len(w.batch) - w.taken
      BY <3>3
    <3>5. Len(sent) + d + Len(msgs) = accepted
      BY <3>1, <3>4 DEF FlightInOrder
    <3>6. Len(sent) + d + (Len(msgs) + 1) = accepted + 1
      BY <3>5, OneMore
    <3>7. (Len(sent) + (Len(w.batch) - w.taken) + Len(msgs) = accepted)'
      BY <2>1, <2>3, <3>4, <3>6
    <3> QED BY <2>1, <3>1, <3>2, <3>7 DEF FlightInOrder
  <2>7. NothingInFlight' => NothingInFlight
    <3>1. CASE scheduled
      <4>1. Spawning' = Spawning
        BY <1>2, <3>1, SpawningSame DEF WriteQueue, need_spawn
      <4> QED BY <2>1, <4>1 DEF NothingInFlight
    <3> QED BY <3>1 DEF NothingInFlight
  <2>8. CountsUp(sent, 0)'
    BY <2>1 DEF OrderInv, CountsUp
  <2> QED BY <2>1, <2>3, <2>5, <2>6, <2>7, <2>8 DEF OrderInv
<1>3. ASSUME NEW a \in Actors, SpawnWriter(a) PROVE OrderInv'
  <2>1. Spawning = {a} /\ inflight = {} /\ spawned = 0 /\ strand # "writer" /\ scheduled
    <3>1. Spawning = {a}
      BY <1>3 DEF SpawnWriter, Spawning, WriterInv, SingleWriter
    <3> QED BY <3>1 DEF WriterInv, SingleWriter, HasWriter
  <2>2. Spawning' = {}
    BY <1>3, <2>1, SpawningRemoved DEF SpawnWriter
  <2>3. NothingInFlight
    BY <2>1 DEF NothingInFlight
  <2>4. CASE spawned' = spawned + 1 /\ UNCHANGED <<queueVars, ioVars>>
    <3>1. CountsUp(sent, 0)' /\ CountsUp(msgs, accepted - Len(msgs))'
      BY <2>4 DEF OrderInv, CountsUp
    <3> QED BY <2>1, <2>3, <2>4, <3>1 DEF OrderInv
  <2>5. CASE msgs # <<>> /\ TakeBatch /\ IssueWrite /\ UNCHANGED <<spawned, sent>>
    <3> DEFINE n == [batch |-> msgs, taken |-> 0, timed |-> timeout, result |-> "pending"]
    <3>1. inflight' = {n}
      BY <2>1, <2>5, Zenon DEF IssueWrite
    <3>2. n \in Write /\ n.batch = msgs /\ n.taken = 0 /\ n.result = "pending"
      BY IssuedWrite
    <3> HIDE DEF n
    <3>3. scheduled'
      BY <2>1, <2>5 DEF TakeBatch
    <3>4. strand' # "writer"
      BY <1>3, <2>1 DEF SpawnWriter
    <3> QED BY <2>1, <2>2, <2>3, <2>5, <3>1, <3>2, <3>3, <3>4, TakenInOrder
  <2> QED BY <1>3, <2>4, <2>5, Zenon DEF SpawnWriter
<1>4. ASSUME WriterTurn, strand \in {"idle", "writer"}, spawned' = 0, NothingInFlight,
             scheduled, inflight = {}, Spawning = {}
      PROVE  OrderInv'
  <2>1. Spawning' = {}
    BY <1>4, SpawningSame DEF WriterTurn
  <2>2. CASE msgs = <<>>
    <3>1. msgs' = <<>> /\ UNCHANGED <<accepted, sent, inflight>>
      BY <1>4, <2>2 DEF WriterTurn, TakeBatch
    <3>2. CountsUp(sent, 0)' /\ CountsUp(msgs, accepted - Len(msgs))'
      BY <3>1 DEF OrderInv, CountsUp
    <3> QED BY <1>4, <2>2, <3>1, <3>2 DEF OrderInv
  <2>3. CASE msgs # <<>>
    <3> DEFINE n == [batch |-> msgs, taken |-> 0, timed |-> timeout, result |-> "pending"]
    <3>1. inflight' = {n}
      BY <1>4, <2>3, Zenon DEF WriterTurn, IssueWrite
    <3>2. n \in Write /\ n.batch = msgs /\ n.taken = 0 /\ n.result = "pending"
      BY IssuedWrite
    <3> HIDE DEF n
    <3>3. scheduled' /\ strand' # "writer" /\ TakeBatch /\ UNCHANGED sent
      BY <1>4, <2>3 DEF WriterTurn, TakeBatch
    <3> QED BY <1>4, <2>1, <2>3, <3>1, <3>2, <3>3, TakenInOrder
  <2> QED BY <2>2, <2>3
<1>5. CASE WriterBegin
  <2>1. spawned = 1 /\ inflight = {} /\ Spawning = {} /\ scheduled
    BY <1>5 DEF WriterBegin, WriterInv, SingleWriter, HasWriter
  <2> QED BY <1>4, <1>5, <2>1 DEF WriterBegin, NothingInFlight
<1>6. CASE WriterNext
  <2>1. spawned = 0 /\ inflight = {} /\ Spawning = {} /\ scheduled
    BY <1>6 DEF WriterNext, WriterInv, SingleWriter, HasWriter
  <2> QED BY <1>4, <1>6, <2>1 DEF WriterNext, NothingInFlight
<1>7. CASE WriterResume
  <2>1. PICK w \in inflight :
          /\ w.result # "pending" /\ inflight' = inflight \ {w}
          /\ IF w.result = "ok" THEN strand' = "writer" ELSE strand' = "writer_close"
    BY <1>7, Zenon DEF WriterResume
  <2>2. UNCHANGED <<accepted, msgs, sent, scheduled, spawned>> /\ Spawning' = Spawning
    BY <1>7, SpawningSame DEF WriterResume
  <2>3. inflight' = {} /\ spawned = 0 /\ Spawning = {} /\ scheduled
    BY <2>1 DEF WriterInv, SingleWriter, HasWriter
  <2>4. w \in Write /\ FlightInOrder(w)
    BY DEF OrderInv
  <2>5. NothingInFlight' => w.result = "ok"
    BY <2>1, <2>2, <2>3 DEF NothingInFlight
  <2>6. NothingInFlight' => Len(sent) + Len(msgs) = accepted
    BY <2>4, <2>5 DEF FlightInOrder
  <2>7. CountsUp(sent, 0)' /\ CountsUp(msgs, accepted - Len(msgs))'
    BY <2>2 DEF OrderInv, CountsUp
  <2> QED BY <2>2, <2>3, <2>6, <2>7 DEF OrderInv
<1>8. CASE WriteSome
  <2>1. PICK w \in inflight :
          /\ w.result = "pending" /\ w.taken < Len(w.batch)
          /\ inflight' = (inflight \ {w}) \cup {[w EXCEPT !.taken = @ + 1]}
          /\ sent' = Append(sent, w.batch[w.taken + 1])
    BY <1>8, Zenon DEF WriteSome
  <2>2. UNCHANGED <<accepted, msgs, scheduled, spawned, strand>> /\ Spawning' = Spawning
    BY <1>8, SpawningSame DEF WriteSome
  <2>3. inflight \ {w} = {} /\ scheduled /\ spawned = 0 /\ Spawning = {} /\ strand # "writer"
    BY DEF WriterInv, SingleWriter, HasWriter
  <2>4. w \in Write /\ FlightInOrder(w)
    BY DEF OrderInv
  <2>5. PICK b \in Seq(Messages), t \in Nat : b = w.batch /\ t = w.taken
    BY <2>4, Zenon
  <2>6. PICK d \in Nat : d = Len(sent) - t
    BY <2>4, <2>5 DEF FlightInOrder
  <2>7. t < Len(b) /\ Len(sent) = d + t /\ CountsUp(sent, 0) /\ CountsUp(b, d)
    <3>1. CountsUp(b, Len(sent) - t)
      BY <2>4, <2>5 DEF FlightInOrder
    <3>2. CountsUp(b, d)
      BY <2>6, <3>1
    <3>3. t < Len(b) /\ CountsUp(sent, 0)
      BY <2>1, <2>5, Zenon DEF OrderInv
    <3>4. Len(sent) = d + t
      <4>1. Len(sent) \in Nat
        OBVIOUS
      <4> HIDE DEF ControlTypeOK
      <4> QED BY <2>6, <4>1
    <3> QED BY <3>2, <3>3, <3>4
  <2>8. d + Len(b) + Len(msgs) = accepted
    BY <2>4, <2>5, <2>7 DEF FlightInOrder
  <2>9. CountsUp(sent', 0) /\ Len(sent') = d + (t + 1)
    <3>1. sent' = Append(sent, b[t + 1])
      BY <2>1, <2>5
    <3> QED BY <2>7, <3>1, NextOfBatch
  <2> DEFINE n == [w EXCEPT !.taken = @ + 1]
  <2>10. inflight' = {n}
    BY <2>1, <2>3, Zenon
  <2>11. n.batch = b /\ n.taken = t + 1 /\ n.result = "pending"
    <3>1. w = [batch |-> w.batch, taken |-> w.taken, timed |-> w.timed, result |-> w.result]
      BY <2>4
    <3> QED BY <2>1, <2>5, <3>1
  <2> HIDE DEF n, ControlTypeOK
  <2>12. t + 1 <= Len(b) /\ t + 1 <= Len(sent') /\ Len(sent') - (t + 1) = d
    BY <2>7, <2>9
  <2>13. FlightInOrder(n)'
    <3>1. CountsUp(b, Len(sent') - (t + 1))
      BY <2>7, <2>12
    <3>2. CountsUp(b, Len(sent) - (t + 1))'
      BY <3>1 DEF CountsUp
    <3>3. Len(sent') + (Len(b) - (t + 1)) + Len(msgs') = accepted'
      <4>1. Len(msgs') = Len(msgs) /\ accepted' = accepted /\ Len(msgs) \in Nat /\ Len(b) \in Nat
        BY <2>2 DEF ControlTypeOK
      <4> QED BY <2>8, <2>9, <4>1
    <3> QED BY <2>11, <2>12, <3>2, <3>3 DEF FlightInOrder
  <2>14. ~NothingInFlight'
    BY <2>2, <2>3 DEF NothingInFlight
  <2>15. CountsUp(sent, 0)' /\ CountsUp(msgs, accepted - Len(msgs))'
    BY <2>2, <2>9 DEF OrderInv, CountsUp
  <2>16. (Len(sent) + Len(msgs) <= accepted)'
    BY <2>2, <2>8, <2>9, <2>12 DEF ControlTypeOK
  <2> QED BY <2>2, <2>3, <2>10, <2>13, <2>14, <2>15, <2>16 DEF OrderInv
<1>9. CASE WriteComplete
  <2>1. PICK w \in inflight : \E r \in Outcome(w) :
          inflight' = (inflight \ {w}) \cup {[w EXCEPT !.result = r]}
    BY <1>9, Zenon DEF WriteComplete
  <2>a. PICK r \in Outcome(w) : inflight' = (inflight \ {w}) \cup {[w EXCEPT !.result = r]}
    BY <2>1, Zenon
  <2>2. UNCHANGED <<accepted, msgs, sent, scheduled, spawned, strand>> /\ Spawning' = Spawning
    BY <1>9, SpawningSame DEF WriteComplete
  <2>3. inflight \ {w} = {}
    BY DEF WriterInv, SingleWriter
  <2>4. w \in Write /\ FlightInOrder(w)
    BY DEF OrderInv
  <2> DEFINE n == [w EXCEPT !.result = r]
  <2>5. n.batch = w.batch /\ n.taken = w.taken /\ n.result = r
    BY <2>4
  <2>6. inflight' = {n}
    BY <2>a, <2>3, Zenon
  <2>7. r = "ok" => w.taken = Len(w.batch)
    BY DEF Outcome
  <2> HIDE DEF n
  <2>8. FlightInOrder(n)'
    BY <2>2, <2>4, <2>5, <2>7 DEF FlightInOrder, CountsUp
  <2>9. CountsUp(sent, 0)' /\ CountsUp(msgs, accepted - Len(msgs))'
    BY <2>2 DEF OrderInv, CountsUp
  <2>10. NothingInFlight' => NothingInFlight
    BY <2>2 DEF NothingInFlight
  <2> QED BY <2>2, <2>6, <2>8, <2>9, <2>10 DEF OrderInv
<1> QED
  BY <1>1, <1>2, <1>3, <1>5, <1>6, <1>7, <1>8, <1>9 DEF PipelineStep

\* When everything is sent and the session no longer runs, nothing is accepted or
\* sent any more: a writer in flight has nothing left to write.
LEMMA DrainedStays ==
  ASSUME ControlTypeOK, StrandCallInv, WriterInv, OrderInv, [Next]_vars,
         Len(sent) = accepted, state # "running"
  PROVE  sent' = sent /\ accepted' = accepted
<1>1. CASE ~PipelineStep
  BY <1>1, StillLemma DEF PipelineStill
<1>2. ASSUME NEW a \in Actors, WriteQueue(a) PROVE FALSE
  BY <1>2 DEF WriteQueue
<1>3. ASSUME NEW a \in Actors, SpawnWriter(a) PROVE sent' = sent /\ accepted' = accepted
  BY <1>3 DEF SpawnWriter, TakeBatch
<1>4. CASE WriterBegin \/ WriterNext
  BY <1>4 DEF WriterBegin, WriterNext, WriterTurn, TakeBatch
<1>5. CASE WriterResume
  BY <1>5 DEF WriterResume
<1>6. ASSUME WriteSome PROVE FALSE
  <2>1. PICK w \in inflight : w.taken < Len(w.batch)
    BY <1>6, Zenon DEF WriteSome
  <2>2. w \in Write /\ FlightInOrder(w)
    BY DEF OrderInv, ControlTypeOK
  <2>3. PICK b \in Seq(Messages), t \in Nat : b = w.batch /\ t = w.taken
    BY <2>2, Zenon
  <2>4. t < Len(b) /\ Len(sent) + (Len(b) - t) + Len(msgs) = accepted
    BY <2>1, <2>2, <2>3 DEF FlightInOrder
  <2>5. Len(msgs) \in Nat /\ Len(sent) \in Nat /\ Len(b) \in Nat
    BY DEF ControlTypeOK
  <2> QED BY <2>4, <2>5
<1>7. CASE WriteComplete
  BY <1>7 DEF WriteComplete
<1> QED BY <1>1, <1>2, <1>3, <1>4, <1>5, <1>6, <1>7 DEF PipelineStep

\* A stop_async() that found no writer closes a session with everything sent.
LEMMA DrainLemma ==
  ASSUME ControlTypeOK, StrandCallInv, BeforeStart, WriterInv, OrderInv, DrainInv, [Next]_vars
  PROVE  DrainInv'
<1>a. Len(sent) = accepted /\ state # "running" => Len(sent') = accepted'
  BY DrainedStays
<1>b. ~scheduled => Len(sent) = accepted
  BY DEF OrderInv, NothingInFlight, ControlTypeOK
<1> USE <1>a DEF ControlTypeOK, DrainInv, BeforeStart, StrandCallInv
<1>1. CASE UNCHANGED vars
  BY <1>1 DEF vars
<1>2. ASSUME NEW a \in Actors, WriteQueue(a) PROVE DrainInv'
  BY <1>2 DEF WriteQueue, Goes, need_spawn
<1>3. ASSUME NEW a \in Actors, stop_async(a) PROVE DrainInv'
  <2>1. StopRequest(a)
    BY <1>3 DEF stop_async
  <2> QED BY <1>b, <2>1 DEF StopRequest, shouldClose, Goes
<1>4. ASSUME NEW a \in Actors, stop_async_force(a) PROVE DrainInv'
  BY <1>4 DEF stop_async_force, Close, CanCall, InCallback
<1>5. ASSUME NEW a \in Actors, NEW v \in Timeouts, SetTimeoutPost(a, v) PROVE DrainInv'
  BY <1>5 DEF SetTimeoutPost, Goes
<1>6. ASSUME NEW a \in Actors, SpawnWriter(a) PROVE DrainInv'
  BY <1>6 DEF SpawnWriter, Goes
<1>7. ASSUME NEW a \in Actors, StopClose(a) PROVE DrainInv'
  BY <1>7 DEF StopClose, Goes, Close, CloseLost
<1>8. ASSUME NEW v \in Timeouts, SetTimeoutInline(v) PROVE DrainInv'
  BY <1>8 DEF SetTimeoutInline
<1>9. ASSUME NEW a \in Users, SetTimeoutRun(a) PROVE DrainInv'
  BY <1>9 DEF SetTimeoutRun, Goes
<1>10. CASE StartBegin
  BY <1>10 DEF StartBegin
<1>11. CASE StartStep
  <2>1. CASE StartOptions
    BY <2>1 DEF StartOptions
  <2>2. CASE StartConnected
    BY <2>2 DEF StartConnected
  <2>3. CASE StartReader
    BY <2>3 DEF StartReader
  <2>4. CASE StartCatch
    BY <2>4 DEF StartCatch
  <2>5. CASE StartRecord
    BY <2>5 DEF StartRecord
  <2>6. CASE StartStop
    <3>1. CASE StopRequest(Starter)
      BY <1>b, <3>1 DEF StopRequest, shouldClose, Goes
    <3>2. CASE ~StopRequest(Starter)
      BY <2>6, <3>2 DEF StartStop
    <3> QED BY <3>1, <3>2
  <2>7. CASE StartRethrow
    BY <2>7 DEF StartRethrow
  <2> QED BY <1>11, <2>1, <2>2, <2>3, <2>4, <2>5, <2>6, <2>7 DEF StartStep
<1>12. CASE CloserStep
  <2>1. CASE CloseImplBegin
    BY <2>1 DEF CloseImplBegin
  <2>2. CASE CloseImpl
    BY <2>2 DEF CloseImpl
  <2>3. CASE CloseImplEnd
    BY <2>3 DEF CloseImplEnd
  <2> QED BY <1>12, <2>1, <2>2, <2>3 DEF CloserStep
<1>13. CASE ReaderStep
  <2>1. CASE ReaderLoop
    BY <2>1 DEF ReaderLoop
  <2>2. CASE DataAvailable
    BY <2>2 DEF DataAvailable
  <2>3. CASE DataReturn
    BY <2>3 DEF DataReturn
  <2>4. CASE ReaderCatch
    BY <2>4 DEF ReaderCatch
  <2>5. CASE ReaderClose
    BY <2>5 DEF ReaderClose, Close, CloseLost
  <2> QED BY <1>13, <2>1, <2>2, <2>3, <2>4, <2>5 DEF ReaderStep
<1>14. CASE WriterStep
  <2>1. CASE WriterBegin
    BY <2>1 DEF WriterBegin, WriterTurn
  <2>2. CASE WriterNext
    BY <2>2 DEF WriterNext, WriterTurn
  <2>3. CASE WriterCheck
    BY <2>3 DEF WriterCheck
  <2>4. CASE WriterResume
    BY <2>4 DEF WriterResume
  <2>5. CASE WriterClose
    BY <2>5 DEF WriterClose, Close, CloseLost
  <2> QED BY <1>14, <2>1, <2>2, <2>3, <2>4, <2>5 DEF WriterStep
<1>15. CASE ReadComplete
  BY <1>15 DEF ReadComplete
<1>16. CASE WriteSome
  <2>1. UNCHANGED <<state, call, startCalled, closedBy>>
    BY <1>16, Zenon DEF WriteSome
  <2> QED BY <2>1
<1>17. CASE WriteComplete
  BY <1>17 DEF WriteComplete
<1>18. CASE PeerLeaves
  BY <1>18 DEF PeerLeaves
<1> QED
  BY <1>1, <1>2, <1>3, <1>4, <1>5, <1>6, <1>7, <1>8, <1>9, <1>10, <1>11, <1>12,
     <1>13, <1>14, <1>15, <1>16, <1>17, <1>18
  DEF Next, UserCall, ThreadStep

\* An error that makes the reader or the writer end is recorded before it closes.
LEMMA RecordLemma ==
  ASSUME ControlTypeOK, CloserInv, StrandCallInv, BeforeStart, ConnectedInv, WriterInv, RecordInv,
         [Next]_vars
  PROVE  RecordInv'
<1> USE DEF ControlTypeOK, RecordInv, BeforeStart, StrandCallInv, CloserInv, InCloseImpl
<1>1. CASE UNCHANGED vars
  BY <1>1 DEF vars
<1>2. ASSUME NEW a \in Actors, WriteQueue(a) PROVE RecordInv'
  BY <1>2 DEF WriteQueue, Goes, CanCall
<1>3. ASSUME NEW a \in Actors, stop_async(a) PROVE RecordInv'
  BY <1>3 DEF stop_async, StopRequest, Goes, CanCall
<1>4. ASSUME NEW a \in Actors, stop_async_force(a) PROVE RecordInv'
  BY <1>4 DEF stop_async_force, Close, CanCall, InCallback
<1>5. ASSUME NEW a \in Actors, NEW v \in Timeouts, SetTimeoutPost(a, v) PROVE RecordInv'
  BY <1>5 DEF SetTimeoutPost, Goes
<1>6. ASSUME NEW a \in Actors, SpawnWriter(a) PROVE RecordInv'
  BY <1>6 DEF SpawnWriter, Goes
<1>7. ASSUME NEW a \in Actors, StopClose(a) PROVE RecordInv'
  BY <1>7 DEF StopClose, Goes, Close, CloseLost
<1>8. ASSUME NEW v \in Timeouts, SetTimeoutInline(v) PROVE RecordInv'
  BY <1>8 DEF SetTimeoutInline
<1>9. ASSUME NEW a \in Users, SetTimeoutRun(a) PROVE RecordInv'
  BY <1>9 DEF SetTimeoutRun, Goes
<1>10. CASE StartBegin
  BY <1>10 DEF StartBegin
<1>11. CASE StartStep
  <2>1. CASE StartOptions
    BY <2>1 DEF StartOptions
  <2>2. CASE StartConnected
    BY <2>2 DEF StartConnected
  <2>3. CASE StartReader
    BY <2>3 DEF StartReader, ConnectedInv
  <2>4. CASE StartCatch
    BY <2>4 DEF StartCatch
  <2>5. CASE StartRecord
    BY <2>5 DEF StartRecord, Record
  <2>6. CASE StartStop
    BY <2>6 DEF StartStop, StopRequest, Goes
  <2>7. CASE StartRethrow
    BY <2>7 DEF StartRethrow
  <2> QED BY <1>11, <2>1, <2>2, <2>3, <2>4, <2>5, <2>6, <2>7 DEF StartStep
<1>12. CASE CloserStep
  <2>1. CASE CloseImplBegin
    BY <2>1 DEF CloseImplBegin
  <2>2. CASE CloseImpl
    BY <2>2 DEF CloseImpl
  <2>3. CASE CloseImplEnd
    BY <2>3 DEF CloseImplEnd
  <2> QED BY <1>12, <2>1, <2>2, <2>3 DEF CloserStep
<1>13. CASE ReaderStep
  <2>1. CASE ReaderLoop
    BY <2>1 DEF ReaderLoop
  <2>2. CASE DataAvailable
    BY <2>2 DEF DataAvailable
  <2>3. CASE DataReturn
    BY <2>3 DEF DataReturn
  <2>4. CASE ReaderCatch
    BY <2>4 DEF ReaderCatch, Record
  <2>5. CASE ReaderClose
    BY <2>5 DEF ReaderClose, Close, CloseLost
  <2> QED BY <1>13, <2>1, <2>2, <2>3, <2>4, <2>5 DEF ReaderStep
<1>14. CASE WriterStep
  <2>1. CASE WriterBegin
    BY <2>1 DEF WriterBegin, WriterTurn, WriterInv, SingleWriter, HasWriter
  <2>2. CASE WriterNext
    BY <2>2 DEF WriterNext, WriterTurn, WriterInv, SingleWriter, HasWriter
  <2>3. CASE WriterCheck
    BY <2>3 DEF WriterCheck
  <2>4. CASE WriterResume
    BY <2>4 DEF WriterResume, Record, WriterInv, SingleWriter, HasWriter
  <2>5. CASE WriterClose
    BY <2>5 DEF WriterClose, Close, CloseLost
  <2> QED BY <1>14, <2>1, <2>2, <2>3, <2>4, <2>5 DEF WriterStep
<1>15. CASE ReadComplete
  BY <1>15 DEF ReadComplete
<1>16. CASE WriteSome
  BY <1>16 DEF WriteSome
<1>17. CASE WriteComplete
  BY <1>17 DEF WriteComplete
<1>18. CASE PeerLeaves
  BY <1>18 DEF PeerLeaves
<1> QED
  BY <1>1, <1>2, <1>3, <1>4, <1>5, <1>6, <1>7, <1>8, <1>9, <1>10, <1>11, <1>12,
     <1>13, <1>14, <1>15, <1>16, <1>17, <1>18
  DEF Next, UserCall, ThreadStep

\* What FailureIsRecorded says of one step.
FailureStep ==
    state = "running" /\ state' = "stopping" /\ closedBy' \in {"reader", "writer"}
        => exception # "none"

\* Only ReaderClose and WriterClose bring a session down in the reader's or the
\* writer's name.
LEMMA FailureLemma ==
  ASSUME ControlTypeOK, DrainInv, RecordInv, [Next]_vars
  PROVE  FailureStep
<1> USE DEF ControlTypeOK, DrainInv, RecordInv, FailureStep
<1>1. CASE UNCHANGED vars
  BY <1>1 DEF vars
<1>2. ASSUME NEW a \in Actors, WriteQueue(a) PROVE FailureStep
  BY <1>2 DEF WriteQueue, Goes
<1>3. ASSUME NEW a \in Actors, stop_async(a) PROVE FailureStep
  BY <1>3 DEF stop_async, StopRequest, Goes, CanCall
<1>4. ASSUME NEW a \in Actors, stop_async_force(a) PROVE FailureStep
  BY <1>4 DEF stop_async_force, Close, CanCall, InCallback
<1>5. ASSUME NEW a \in Actors, NEW v \in Timeouts, SetTimeoutPost(a, v) PROVE FailureStep
  BY <1>5 DEF SetTimeoutPost, Goes
<1>6. ASSUME NEW a \in Actors, SpawnWriter(a) PROVE FailureStep
  BY <1>6 DEF SpawnWriter, Goes
<1>7. ASSUME NEW a \in Actors, StopClose(a) PROVE FailureStep
  BY <1>7 DEF StopClose, Goes, Close, CloseLost
<1>8. ASSUME NEW v \in Timeouts, SetTimeoutInline(v) PROVE FailureStep
  BY <1>8 DEF SetTimeoutInline
<1>9. ASSUME NEW a \in Users, SetTimeoutRun(a) PROVE FailureStep
  BY <1>9 DEF SetTimeoutRun, Goes
<1>10. CASE StartBegin
  BY <1>10 DEF StartBegin
<1>11. CASE StartStep
  <2>1. CASE StartOptions
    BY <2>1 DEF StartOptions
  <2>2. CASE StartConnected
    BY <2>2 DEF StartConnected
  <2>3. CASE StartReader
    BY <2>3 DEF StartReader
  <2>4. CASE StartCatch
    BY <2>4 DEF StartCatch
  <2>5. CASE StartRecord
    BY <2>5 DEF StartRecord
  <2>6. CASE StartStop
    BY <2>6 DEF StartStop, StopRequest, Goes
  <2>7. CASE StartRethrow
    BY <2>7 DEF StartRethrow
  <2> QED BY <1>11, <2>1, <2>2, <2>3, <2>4, <2>5, <2>6, <2>7 DEF StartStep
<1>12. CASE CloserStep
  <2>1. CASE CloseImplBegin
    BY <2>1 DEF CloseImplBegin
  <2>2. CASE CloseImpl
    BY <2>2 DEF CloseImpl
  <2>3. CASE CloseImplEnd
    BY <2>3 DEF CloseImplEnd
  <2> QED BY <1>12, <2>1, <2>2, <2>3 DEF CloserStep
<1>13. CASE ReaderStep
  <2>1. CASE ReaderLoop
    BY <2>1 DEF ReaderLoop
  <2>2. CASE DataAvailable
    BY <2>2 DEF DataAvailable
  <2>3. CASE DataReturn
    BY <2>3 DEF DataReturn
  <2>4. CASE ReaderCatch
    BY <2>4 DEF ReaderCatch
  <2>5. CASE ReaderClose
    BY <2>5 DEF ReaderClose, Close, CloseLost
  <2> QED BY <1>13, <2>1, <2>2, <2>3, <2>4, <2>5 DEF ReaderStep
<1>14. CASE WriterStep
  <2>1. CASE WriterBegin
    BY <2>1 DEF WriterBegin, WriterTurn
  <2>2. CASE WriterNext
    BY <2>2 DEF WriterNext, WriterTurn
  <2>3. CASE WriterCheck
    BY <2>3 DEF WriterCheck
  <2>4. CASE WriterResume
    BY <2>4 DEF WriterResume
  <2>5. CASE WriterClose
    BY <2>5 DEF WriterClose, Close, CloseLost
  <2> QED BY <1>14, <2>1, <2>2, <2>3, <2>4, <2>5 DEF WriterStep
<1>15. CASE ReadComplete
  BY <1>15 DEF ReadComplete
<1>16. CASE WriteSome
  BY <1>16 DEF WriteSome
<1>17. CASE WriteComplete
  BY <1>17 DEF WriteComplete
<1>18. CASE PeerLeaves
  BY <1>18 DEF PeerLeaves
<1> QED
  BY <1>1, <1>2, <1>3, <1>4, <1>5, <1>6, <1>7, <1>8, <1>9, <1>10, <1>11, <1>12,
     <1>13, <1>14, <1>15, <1>16, <1>17, <1>18
  DEF Next, UserCall, ThreadStep

-------------------------------------------------------------------------------
(* The byte counters *)

\* Every step keeps the counters exact and below the mark.
LEMMA ByteLemma ==
  ASSUME ControlTypeOK, StrandCallInv, WriterInv, OrderInv, ByteInv, [Next]_vars
  PROVE  ByteInv'
<1> USE DEF ControlTypeOK
<1>a. queued \in Nat /\ writing \in Nat
  BY BytesType DEF ByteInv
<1>1. CASE ~PipelineStep
  <2>1. PipelineStill
    BY <1>1, StillLemma
  <2> QED BY <2>1 DEF PipelineStill, ByteInv, pending_bytes
<1>2. ASSUME NEW a \in Actors, WriteQueue(a) PROVE ByteInv'
  <2>1. /\ accepted' = accepted + 1 /\ accepted + 1 \in Messages /\ scheduled'
        /\ queued' = queued + Size[accepted + 1] /\ msgs' = Append(msgs, accepted + 1)
        /\ UNCHANGED <<inflight, writing>> /\ BelowMark
    BY <1>2 DEF WriteQueue
  <2>2. queued' = Bytes(msgs')
    BY <2>1, BytesAppend DEF ByteInv
  <2>3. Size[accepted + 1] \in Nat
    BY <2>1
  <2>4. HighWaterMark > 0 => (pending_bytes < HighWaterMark + Size[accepted])'
    BY <1>a, <2>1, <2>3 DEF BelowMark, pending_bytes
  <2> QED BY <2>1, <2>2, <2>4 DEF ByteInv
<1>3. ASSUME TakeBatch, inflight = {},
             \/ UNCHANGED inflight
             \/ msgs # <<>> /\ IssueWrite
      PROVE  ByteInv'
  <2>1. queued' = 0 /\ writing' = queued /\ msgs' = <<>> /\ UNCHANGED accepted
    BY <1>3, <1>a DEF TakeBatch, ByteInv
  <2>2. queued' = Bytes(msgs')
    BY <2>1, BytesEmpty
  <2>3. ~scheduled' => writing' = 0
    BY <1>3, <2>1, BytesEmpty DEF TakeBatch, ByteInv, OrderInv
  <2>4. pending_bytes' <= pending_bytes
    BY <1>a, <2>1 DEF pending_bytes
  <2>5. \A w \in inflight' : writing' = Bytes(w.batch)
    <3>1. CASE UNCHANGED inflight
      BY <1>3, <3>1
    <3>2. CASE IssueWrite
      <4> DEFINE n == [batch |-> msgs, taken |-> 0, timed |-> timeout, result |-> "pending"]
      <4>1. inflight' = {n} /\ n.batch = msgs
        BY <1>3, <3>2, Zenon DEF IssueWrite
      <4> HIDE DEF n
      <4> QED BY <2>1, <4>1 DEF ByteInv
    <3> QED BY <1>3, <3>1, <3>2
  <2>6. HighWaterMark > 0 /\ accepted > 0 => (pending_bytes < HighWaterMark + Size[accepted])'
    <3> SUFFICES ASSUME HighWaterMark > 0, accepted > 0
                 PROVE  (pending_bytes < HighWaterMark + Size[accepted])'
      OBVIOUS
    <3>1. Size[accepted] \in Nat /\ accepted' = accepted
      BY <2>1
    <3>2. pending_bytes \in Nat /\ pending_bytes' \in Nat
      BY <1>a, <2>1 DEF pending_bytes
    <3>3. pending_bytes < HighWaterMark + Size[accepted]
      BY DEF ByteInv
    <3> QED BY <2>4, <3>1, <3>2, <3>3
  <2> QED BY <1>a, <2>1, <2>2, <2>3, <2>5, <2>6 DEF ByteInv
<1>4. ASSUME NEW a \in Actors, SpawnWriter(a) PROVE ByteInv'
  <2>1. inflight = {}
    <3>1. a \in Spawning
      BY <1>4 DEF SpawnWriter, Spawning
    <3> QED BY <3>1 DEF WriterInv, SingleWriter
  <2>2. CASE UNCHANGED <<queueVars, ioVars>>
    BY <2>2 DEF ByteInv, pending_bytes
  <2>3. CASE msgs # <<>> /\ TakeBatch /\ IssueWrite
    BY <1>3, <2>1, <2>3
  <2> QED BY <1>4, <2>2, <2>3, Zenon DEF SpawnWriter
<1>5. CASE WriterBegin \/ WriterNext
  <2>1. inflight = {} /\ WriterTurn
    BY <1>5 DEF WriterBegin, WriterNext, WriterInv, SingleWriter, HasWriter
  <2>2. TakeBatch /\ (UNCHANGED inflight \/ (msgs # <<>> /\ IssueWrite))
    BY <2>1, Zenon DEF WriterTurn
  <2> QED BY <1>3, <2>1, <2>2
<1>6. CASE WriterResume
  <2>1. inflight' \subseteq inflight /\ UNCHANGED <<queueVars, writing>>
    BY <1>6 DEF WriterResume
  <2> QED BY <2>1 DEF ByteInv, pending_bytes
<1>7. CASE WriteSome
  <2>1. PICK w \in inflight :
          inflight' = (inflight \ {w}) \cup {[w EXCEPT !.taken = @ + 1]}
    BY <1>7, Zenon DEF WriteSome
  <2>2. [w EXCEPT !.taken = @ + 1].batch = w.batch
    BY w \in Write
  <2>3. UNCHANGED <<queueVars, writing>>
    BY <1>7 DEF WriteSome
  <2>4. \A v \in inflight' : writing' = Bytes(v.batch)
    BY <2>1, <2>2, <2>3 DEF ByteInv
  <2> QED BY <2>3, <2>4 DEF ByteInv, pending_bytes
<1>8. CASE WriteComplete
  <2>1. PICK w \in inflight : \E r \in Outcome(w) :
          inflight' = (inflight \ {w}) \cup {[w EXCEPT !.result = r]}
    BY <1>8, Zenon DEF WriteComplete
  <2>2. PICK r \in Outcome(w) : inflight' = (inflight \ {w}) \cup {[w EXCEPT !.result = r]}
    BY <2>1, Zenon
  <2>3. [w EXCEPT !.result = r].batch = w.batch
    BY w \in Write
  <2>4. UNCHANGED <<queueVars, writing>>
    BY <1>8 DEF WriteComplete
  <2>5. \A v \in inflight' : writing' = Bytes(v.batch)
    BY <2>2, <2>3, <2>4 DEF ByteInv
  <2> QED BY <2>4, <2>5 DEF ByteInv, pending_bytes
<1> QED
  BY <1>1, <1>2, <1>4, <1>5, <1>6, <1>7, <1>8 DEF PipelineStep

-------------------------------------------------------------------------------
(* The inductive invariant and what follows from it *)

\* A new session satisfies the inductive invariant.
LEMMA InvInit == Init => IInv
<1> SUFFICES ASSUME Init PROVE IInv
  OBVIOUS
<1>1. ControlTypeOK
  BY TypeInit
<1>2. Spawning = {}
  BY DEF Init, Spawning
<1>3. WriterInv
  BY <1>2 DEF Init, WriterInv, SingleWriter, ScheduledInv, CloseIsAssigned, HasWriter
<1>4. CloserInv /\ StrandCallInv /\ BeforeStart /\ UnsharedInv
  BY DEF Init, CloserInv, InCloseImpl, StrandCallInv, BeforeStart, UnsharedInv, Unshared
<1>5. ConnectedInv /\ ReportsInv /\ ClosedInv
  BY DEF Init, ConnectedInv, ReportsInv, ClosedInv, Reported
<1>6. OrderInv
  BY <1>2 DEF Init, OrderInv, CountsUp
<1>7. DrainInv /\ RecordInv
  BY DEF Init, DrainInv, RecordInv
<1>8. ByteInv
  BY BytesEmpty DEF Init, ByteInv
<1> QED
  BY <1>1, <1>3, <1>4, <1>5, <1>6, <1>7, <1>8 DEF IInv

\* Every step keeps it: the lemmas above, one conjunct each.
LEMMA InvStep == IInv /\ [Next]_vars => IInv'
  BY TypeStep, CloserLemma, StrandCallLemma, BeforeStartLemma, UnsharedLemma,
     ConnectedLemma, ReportsLemma, WriterLemma, ClosedLemma, OrderLemma, DrainLemma,
     RecordLemma, ByteLemma
  DEF IInv

\* The inductive invariant holds throughout: types, one close, one writer, what
\* the callbacks are owed, a socket that stays closed, and where each message is.
THEOREM Invariance == Spec => []IInv
  BY InvInit, InvStep, PTL DEF Spec

\* Every variable but the byte counters keeps its type.
THEOREM TypeCorrectness == Spec => []ControlTypeOK
<1>1. IInv => ControlTypeOK
  BY DEF IInv
<1> QED BY <1>1, Invariance, PTL

\* m_write_scheduled admits one writer at a time, whoever calls write().
THEOREM OneWriter == Spec => []SingleWriter
<1>1. IInv => SingleWriter
  BY DEF IInv, WriterInv
<1> QED BY <1>1, Invariance, PTL

\* After stop_async() somebody always remains who will close the session: the
\* hand-over between the caller and the writer loses no close.
THEOREM NoLostClose == Spec => []CloseIsAssigned
<1>1. IInv => CloseIsAssigned
  BY DEF IInv, WriterInv
<1> QED BY <1>1, Invariance, PTL

\* onDisconnected is invoked at most once, and exactly once for a session that
\* connected and stopped.
THEOREM CallbackPairing == Spec => []CallbacksPaired
<1>1. IInv => CallbacksPaired
  BY DEF IInv, CallbacksPaired, ReportsInv, Reported, ConnectedInv
<1> QED BY <1>1, Invariance, PTL

\* A stopped session never accepts, sends or reports anything again, keeps its
\* socket closed and cannot be restarted.
THEOREM StopIsFinal == Spec => StoppedIsFinal
<1>1. IInv /\ [Next]_vars => [FinalStep]_vars
  BY FinalLemma DEF IInv
<1>2. StoppedIsFinal <=> [][FinalStep]_vars
  BY PTL DEF StoppedIsFinal, FinalStep
<1> QED BY <1>1, <1>2, Invariance, PTL DEF Spec

\* The socket is given what write() accepted, in the order it was accepted, whichever
\* threads write and whatever writer each of them finds or spawns.
THEOREM SentInOrder == Spec => []InOrder
<1>1. IInv => InOrder
  <2> SUFFICES ASSUME IInv, NEW i \in 1..Len(sent) PROVE i <= accepted /\ sent[i] = i
    BY DEF InOrder
  <2>1. CountsUp(sent, 0) /\ Len(sent) + Len(msgs) <= accepted
    BY DEF IInv, OrderInv
  <2>2. msgs \in Seq(Messages) /\ sent \in Seq(Messages) /\ accepted \in 0..MaxWrites
    BY DEF IInv, ControlTypeOK
  <2>3. sent[i] = 0 + i
    BY <2>1 DEF CountsUp
  <2> QED BY <2>1, <2>2, <2>3
<1> QED BY <1>1, Invariance, PTL

\* The two unsigned counters never wrap, are exact and return to 0, and what is
\* pending exceeds the high-water mark by less than the last message accepted.
THEOREM BytesAreCounted == Spec => []ByteCounts
<1>1. IInv => ByteCounts
  <2> SUFFICES ASSUME IInv PROVE ByteCounts
    OBVIOUS
  <2>1. ~scheduled => queued = 0 /\ writing = 0
    BY BytesEmpty DEF IInv, OrderInv, ByteInv
  <2> QED BY <2>1 DEF IInv, ByteInv, ByteCounts, pending_bytes
<1> QED BY <1>1, Invariance, PTL

\* A stop_async() that closes the session itself leaves no accepted message unsent.
THEOREM StopDrains == Spec => []StopWithoutWriterDrains
<1>1. IInv => StopWithoutWriterDrains
  BY DEF IInv, DrainInv, StopWithoutWriterDrains
<1> QED BY <1>1, Invariance, PTL

\* The reader or the writer that brings a running session down has left its error
\* for onDisconnected.
THEOREM FailureRecorded == Spec => FailureIsRecorded
<1>1. IInv /\ [Next]_vars => [FailureStep]_vars
  <2> SUFFICES ASSUME IInv, [Next]_vars PROVE FailureStep
    OBVIOUS
  <2> QED BY FailureLemma DEF IInv
<1>2. FailureIsRecorded <=> [][FailureStep]_vars
  BY PTL DEF FailureIsRecorded, FailureStep
<1> QED BY <1>1, <1>2, Invariance, PTL DEF Spec
===============================================================================
