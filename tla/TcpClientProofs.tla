-------------------------- MODULE TcpClientProofs --------------------------
(***************************************************************************)
(* The two clients: tcp_client always has the pool it needs, for any number  *)
(* of readers left over, and tcp_client_sync returns its stream, for any     *)
(* number of connections and bytes and any delimiters.                       *)
(***************************************************************************)
EXTENDS TcpClient, TcpClientSync, SequenceTheorems, TLAPS

(* sg::net::tcp_client *)

\* connect() holds its work guard from run() on.
GuardInv == cCall \in {"run", "spawn", "get", "start", "failed"} => cGuard

\* The pool runs from run() to the first read, and as long as a session needs it.
RunsInv ==
    cCall \in {"spawn", "get", "start", "failed"} \/ cSession \in {"running", "stopping"}
        => cPool = "running"

\* A live session has a reader, which keeps a pool without a guard from ending.
ReaderInv == cReaders \in Nat /\ (cSession = "running" => cReaders > 0)

ClientInv == GuardInv /\ RunsInv /\ ReaderInv

\* Every step of the user, the pool and the peer keeps it.
LEMMA ClientInvStep == ClientInv /\ [ClientNext]_clientVars => ClientInv'
<1> SUFFICES ASSUME ClientInv, [ClientNext]_clientVars PROVE ClientInv'
  OBVIOUS
<1> USE DEF ClientInv, GuardInv, RunsInv, ReaderInv
<1>1. CASE ConnectBegin
  BY <1>1 DEF ConnectBegin, SessionStop
<1>2. CASE ConnectResolve
  BY <1>2 DEF ConnectResolve
<1>3. CASE ConnectGuard
  BY <1>3 DEF ConnectGuard
<1>4. CASE ConnectRun
  <2>1. CASE cCall' = "spawn"
    BY <1>4, <2>1 DEF ConnectRun
  <2>2. CASE cCall' = "idle"
    BY <1>4, <2>2 DEF ConnectRun
  <2> QED
    BY <1>4, <2>1, <2>2 DEF ConnectRun
<1>5. CASE ConnectSpawn
  BY <1>5 DEF ConnectSpawn
<1>6. CASE ConnectGet
  <2>1. CASE cConnect = "made"
    BY <1>6, <2>1 DEF ConnectGet
  <2>2. CASE cConnect # "made"
    BY <1>6, <2>2 DEF ConnectGet
  <2> QED
    BY <2>1, <2>2
<1>7. CASE ConnectStart
  <2>1. CASE cSession' = "running"
    BY <1>7, <2>1 DEF ConnectStart
  <2>2. CASE cSession' = "stopping"
    BY <1>7, <2>2 DEF ConnectStart
  <2> QED
    BY <1>7, <2>1, <2>2 DEF ConnectStart
<1>8. CASE ConnectFailed
  BY <1>8 DEF ConnectFailed
<1>9. CASE Disconnect
  BY <1>9 DEF Disconnect, SessionStop
<1>10. CASE DisconnectWait
  BY <1>10 DEF DisconnectWait
<1>11. CASE ConnectDone
  BY <1>11 DEF ConnectDone
<1>12. CASE SessionClosed
  BY <1>12 DEF SessionClosed
<1>13. CASE ReaderEnds
  BY <1>13 DEF ReaderEnds
<1>14. CASE PeerLeft
  BY <1>14 DEF PeerLeft
<1>15. CASE PoolDrains
  BY <1>15 DEF PoolDrains, ClientWork
<1>16. CASE PoolEnds
  BY <1>16 DEF PoolEnds
<1>17. CASE UNCHANGED clientVars
  BY <1>17 DEF clientVars
<1> QED
  BY <1>1, <1>2, <1>3, <1>4, <1>5, <1>6, <1>7, <1>8, <1>9, <1>10, <1>11, <1>12, <1>13, <1>14,
     <1>15, <1>16, <1>17 DEF ClientNext, ClientCalls, ClientStep, ClientPool

\* Whoever needs the pool has it: it does not run out of work between run() and the
\* session's first read, and is not ending while a session is live or being waited for.
THEOREM ClientHasItsPool == ClientSpec => []ClientServed
<1>1. ClientInit => ClientInv
  BY DEF ClientInit, ClientInv, GuardInv, RunsInv, ReaderInv
<1>2. ClientInv => ClientServed
  BY DEF ClientInv, RunsInv, ClientServed
<1> QED
  BY <1>1, <1>2, ClientInvStep, PTL DEF ClientSpec

----------------------------------------------------------------------------
(* sg::net::tcp_client_sync *)

Byte == Nat \X Nat

\* s is what connection c brought after its first n bytes.
IsStream(s, c, n) == s \in Seq(Byte) /\ \A i \in 1..Len(s) : s[i] = <<c, n + i>>

\* Nothing is a part of any stream.
LEMMA EmptyStream == \A c, n : IsStream(<<>>, c, n) /\ Len(<<>>) = 0
  BY EmptySeq DEF IsStream

\* Two parts of the stream that follow each other are one.
LEMMA StreamConcat ==
  ASSUME NEW c \in Nat, NEW n \in Nat, NEW m \in Nat, NEW s, NEW t, IsStream(s, c, n),
         m = n + Len(s), IsStream(t, c, m)
  PROVE  IsStream(s \o t, c, n) /\ Len(s \o t) = Len(s) + Len(t)
<1>1. s \in Seq(Byte) /\ t \in Seq(Byte) /\ Len(s) \in Nat /\ Len(t) \in Nat
  BY LenProperties DEF IsStream
<1>2. /\ s \o t \in Seq(Byte) /\ Len(s \o t) = Len(s) + Len(t)
      /\ \A i \in 1..(Len(s) + Len(t)) :
            (s \o t)[i] = IF i <= Len(s) THEN s[i] ELSE t[i - Len(s)]
  BY <1>1, ConcatProperties
<1>3. ASSUME NEW i \in 1..(Len(s) + Len(t)) PROVE (s \o t)[i] = <<c, n + i>>
  <2>1. CASE i <= Len(s)
    <3>1. i \in 1..Len(s)
      BY <1>1, <2>1
    <3> QED
      BY <1>2, <2>1, <3>1 DEF IsStream
  <2>2. CASE ~(i <= Len(s))
    <3>1. i - Len(s) \in 1..Len(t) /\ m + (i - Len(s)) = n + i
      BY <1>1, <2>2
    <3> QED
      BY <1>2, <2>2, <3>1 DEF IsStream
  <2> QED
    BY <2>1, <2>2
<1> QED
  BY <1>2, <1>3 DEF IsStream

\* The two parts of what is buffered that a read makes.
FirstOf(s, k) == SubSeq(s, 1, k)
RestOf(s, k) == SubSeq(s, k + 1, Len(s))

\* Cut anywhere, a part of the stream is two.
LEMMA StreamCut ==
  ASSUME NEW c \in Nat, NEW n \in Nat, NEW k \in Nat, NEW s, IsStream(s, c, n), k <= Len(s)
  PROVE  /\ IsStream(FirstOf(s, k), c, n) /\ Len(FirstOf(s, k)) = k
         /\ IsStream(RestOf(s, k), c, n + k) /\ Len(RestOf(s, k)) = Len(s) - k
<1>1. s \in Seq(Byte) /\ Len(s) \in Nat /\ k \in Nat /\ k <= Len(s)
  BY LenProperties DEF IsStream
<1>2. \A i \in 1..Len(s) : s[i] \in Byte
  BY <1>1, ElementOfSeq
<1>3. /\ SubSeq(s, 1, k) \in Seq(Byte) /\ Len(SubSeq(s, 1, k)) = k
      /\ \A i \in 1..k : SubSeq(s, 1, k)[i] = s[i]
  <2>1. \A i \in 1..k : s[i] \in Byte
    BY <1>1, <1>2
  <2>2. /\ SubSeq(s, 1, k) \in Seq(Byte)
        /\ Len(SubSeq(s, 1, k)) = IF 1 <= k THEN k - 1 + 1 ELSE 0
        /\ \A i \in 1..(k - 1 + 1) : SubSeq(s, 1, k)[i] = s[1 + i - 1]
    BY <1>1, <2>1, SubSeqProperties
  <2> QED
    BY <1>1, <2>2
<1>4. /\ SubSeq(s, k + 1, Len(s)) \in Seq(Byte)
      /\ Len(SubSeq(s, k + 1, Len(s))) = Len(s) - k
      /\ \A i \in 1..(Len(s) - k) : SubSeq(s, k + 1, Len(s))[i] = s[k + i]
  <2>1. (\A i \in (k + 1)..Len(s) : s[i] \in Byte) /\ k + 1 \in Int
    BY <1>1, <1>2
  <2>2. /\ SubSeq(s, k + 1, Len(s)) \in Seq(Byte)
        /\ Len(SubSeq(s, k + 1, Len(s))) = IF k + 1 <= Len(s) THEN Len(s) - (k + 1) + 1 ELSE 0
        /\ \A i \in 1..(Len(s) - (k + 1) + 1) :
              SubSeq(s, k + 1, Len(s))[i] = s[(k + 1) + i - 1]
    BY <1>1, <2>1, SubSeqProperties
  <2>3. \A i \in 1..(Len(s) - k) : i \in 1..(Len(s) - (k + 1) + 1) /\ (k + 1) + i - 1 = k + i
    BY <1>1
  <2> QED
    BY <1>1, <2>2, <2>3
<1>5. IsStream(SubSeq(s, 1, k), c, n)
  <2>1. \A i \in 1..k : i \in 1..Len(s)
    BY <1>1
  <2> QED
    BY <1>3, <2>1 DEF IsStream
<1>6. IsStream(SubSeq(s, k + 1, Len(s)), c, n + k)
  <2>1. \A i \in 1..(Len(s) - k) : k + i \in 1..Len(s) /\ n + (k + i) = (n + k) + i
    BY <1>1
  <2> QED
    BY <1>4, <2>1 DEF IsStream
<1> QED
  BY <1>3, <1>4, <1>5, <1>6 DEF FirstOf, RestOf

\* The bytes returned since connect() and then those buffered are the stream.
StreamInv ==
    /\ conn \in Nat /\ arrived \in Nat
    /\ IsStream(taken, conn, 0)
    /\ IsStream(readBuffer, conn, Len(taken))
    /\ Len(taken) + Len(readBuffer) = arrived

\* Lengths are numbers.
LEMMA Lengths == StreamInv => Len(taken) \in Nat /\ Len(readBuffer) \in Nat
  BY LenProperties DEF StreamInv, IsStream

\* What is buffered once k more bytes have arrived continues the stream.
LEMMA FilledContinues ==
  ASSUME StreamInv, NEW k \in Nat
  PROVE  IsStream(Filled(k), conn, Len(taken)) /\ Len(Filled(k)) = Len(readBuffer) + k
<1>1. Len(taken) \in Nat /\ Len(readBuffer) \in Nat /\ conn \in Nat /\ arrived \in Nat
      /\ Len(taken) + Len(readBuffer) = arrived
  BY Lengths DEF StreamInv
<1>2. NextBytes(k) \in Seq(Byte) /\ Len(NextBytes(k)) = k
  <2>1. NextBytes(k) \in [1..k -> Byte]
    BY <1>1 DEF NextBytes, Byte
  <2> QED
    BY <2>1 DEF NextBytes
<1>3. IsStream(NextBytes(k), conn, arrived)
  BY <1>1, <1>2 DEF IsStream, NextBytes
<1> QED
  BY <1>1, <1>2, <1>3, StreamConcat DEF StreamInv, Filled

\* A read that returns what is first in the buffer keeps the stream in order.
LEMMA TakeKeeps ==
  ASSUME StreamInv, NEW k \in Nat, NEW n \in 0..(Len(readBuffer) + k), Take(n, k)
  PROVE  StreamInv'
<1> DEFINE F == Filled(k)
           head == FirstOf(F, n)
           tail == RestOf(F, n)
<1>1. IsStream(F, conn, Len(taken)) /\ Len(F) = Len(readBuffer) + k
  BY FilledContinues
<1>2. /\ taken' = taken \o head /\ readBuffer' = tail /\ arrived' = arrived + k
      /\ conn' = conn
  BY <1>1 DEF Take, FirstOf, RestOf
<1>3. Len(taken) \in Nat /\ Len(readBuffer) \in Nat /\ conn \in Nat /\ arrived \in Nat
      /\ Len(taken) + Len(readBuffer) = arrived /\ n <= Len(F) /\ n \in Nat
  BY <1>1, Lengths DEF StreamInv
<1> HIDE DEF F
<1>4. /\ IsStream(head, conn, Len(taken)) /\ Len(head) = n
      /\ IsStream(tail, conn, Len(taken) + n) /\ Len(tail) = Len(F) - n
  <2>1. conn \in Nat /\ Len(taken) \in Nat /\ n \in Nat /\ n <= Len(F)
        /\ IsStream(F, conn, Len(taken))
    BY <1>1, <1>3
  <2>2. IsStream(head, conn, Len(taken))
    BY <2>1, StreamCut
  <2>3. Len(head) = n
    BY <2>1, StreamCut
  <2>4. IsStream(tail, conn, Len(taken) + n)
    BY <2>1, StreamCut
  <2>5. Len(tail) = Len(F) - n
    BY <2>1, StreamCut
  <2> QED
    BY <2>2, <2>3, <2>4, <2>5
<1> HIDE DEF head, tail
<1>5. IsStream(taken \o head, conn, 0) /\ Len(taken \o head) = Len(taken) + n
  <2>1. 0 + Len(taken) = Len(taken) /\ IsStream(taken, conn, 0)
    BY <1>3 DEF StreamInv
  <2> QED
    BY <1>3, <1>4, <2>1, StreamConcat
<1>6. IsStream(taken', conn', 0) /\ Len(taken') = Len(taken) + n
  BY <1>2, <1>5 DEF IsStream
<1>7. IsStream(readBuffer', conn', Len(taken')) /\ Len(readBuffer') = Len(readBuffer) + k - n
  BY <1>1, <1>2, <1>4, <1>6 DEF IsStream
<1>8. conn' \in Nat /\ arrived' \in Nat /\ Len(taken') + Len(readBuffer') = arrived'
  BY <1>2, <1>3, <1>6, <1>7
<1> QED
  BY <1>6, <1>7, <1>8 DEF StreamInv

\* A read that fails keeps what has arrived.
LEMMA FailKeeps ==
  ASSUME StreamInv, NEW k \in Nat, ReadFails(k)
  PROVE  StreamInv'
<1>1. IsStream(Filled(k), conn, Len(taken)) /\ Len(Filled(k)) = Len(readBuffer) + k
  BY FilledContinues
<1>2. Len(taken) \in Nat /\ Len(readBuffer) \in Nat
  BY Lengths
<1> QED
  BY <1>1, <1>2 DEF StreamInv, ReadFails

\* What may arrive is a number of bytes.
LEMMA ArrivalsAreNatural == ASSUME NEW n \in Nat PROVE MayArrive(n) \subseteq Nat
  BY DEF MayArrive

\* Every connect, read, write and disconnect keeps the stream in order.
LEMMA StreamStep == StreamInv /\ [SyncNext]_syncVars => StreamInv'
<1> SUFFICES ASSUME StreamInv, [SyncNext]_syncVars PROVE StreamInv'
  OBVIOUS
<1>1. CASE SyncConnect
  <2>1. conn' \in Nat /\ arrived' = 0 /\ taken' = <<>> /\ readBuffer' = <<>>
    BY <1>1 DEF SyncConnect, StreamInv
  <2>2. IsStream(<<>>, conn', 0) /\ Len(<<>>) = 0
    BY EmptyStream
  <2> QED
    BY <2>1, <2>2 DEF StreamInv, IsStream
<1>2. CASE SyncDisconnect \/ SyncWrite
  BY <1>2 DEF SyncDisconnect, SyncWrite, StreamInv
<1>3. ASSUME NEW size \in 0..MaxBytes, SyncRead(size) PROVE StreamInv'
  <2>1. CASE Len(readBuffer) >= size
    <3>1. Take(size, 0) /\ size \in 0..(Len(readBuffer) + 0)
      BY <1>3, <2>1, SyncAssumption DEF SyncRead, StreamInv
    <3> QED
      BY <3>1, TakeKeeps
  <2>2. CASE ~(Len(readBuffer) >= size)
    <3>1. size - Len(readBuffer) \in Nat
      BY <2>2, SyncAssumption DEF StreamInv
    <3>2. PICK k \in MayArrive(size - Len(readBuffer)) :
             IF Len(readBuffer) + k = size THEN Take(size, k) ELSE ReadFails(k)
      BY <1>3, <2>2 DEF SyncRead
    <3>3. k \in Nat
      BY <3>1, <3>2, ArrivalsAreNatural
    <3>4. CASE Len(readBuffer) + k = size
      <4>1. size \in 0..(Len(readBuffer) + k)
        BY <3>4, SyncAssumption
      <4> QED
        BY <3>2, <3>3, <3>4, <4>1, TakeKeeps
    <3> QED
      BY <3>2, <3>3, <3>4, FailKeeps
  <2> QED
    BY <2>1, <2>2
<1>4. CASE SyncReadUntil
  <2>1. PICK k \in (IF Found(readBuffer) # {} THEN {0} ELSE MayArrive(MaxBytes)) :
           IF Found(Filled(k)) # {} THEN \E first \in Found(Filled(k)) : Take(first, k)
                                   ELSE ReadFails(k)
    BY <1>4 DEF SyncReadUntil
  <2>2. k \in Nat
    BY <2>1, ArrivalsAreNatural, SyncAssumption
  <2>3. CASE Found(Filled(k)) # {}
    <3>1. PICK first \in Found(Filled(k)) : Take(first, k)
      BY <2>1, <2>3
    <3>2. first \in 1..(Len(readBuffer) + k)
      BY <2>2, FilledContinues DEF Found
    <3>3. first \in 0..(Len(readBuffer) + k)
      BY <2>2, <3>2, Lengths
    <3> QED
      BY <2>2, <3>1, <3>3, TakeKeeps
  <2> QED
    BY <2>1, <2>2, <2>3, FailKeeps
<1>5. CASE SyncReadSome
  <2>1. CASE readBuffer # <<>>
    <3>1. Take(Len(readBuffer), 0) /\ Len(readBuffer) \in 0..(Len(readBuffer) + 0)
      BY <1>5, <2>1 DEF SyncReadSome, StreamInv
    <3> QED
      BY <3>1, TakeKeeps
  <2>2. CASE readBuffer = <<>>
    <3>1. PICK k \in MayArrive(MaxBytes) : IF k > 0 THEN Take(k, k) ELSE ReadFails(0)
      BY <1>5, <2>2 DEF SyncReadSome
    <3>2. k \in Nat /\ k \in 0..(Len(readBuffer) + k)
      BY <2>2, <3>1, ArrivalsAreNatural, SyncAssumption
    <3> QED
      BY <3>1, <3>2, TakeKeeps, FailKeeps
  <2> QED
    BY <2>1, <2>2
<1>6. CASE UNCHANGED syncVars
  BY <1>6 DEF syncVars, StreamInv
<1> QED
  BY <1>1, <1>2, <1>3, <1>4, <1>5, <1>6 DEF SyncNext

\* The reads since connect() have returned the stream from its beginning and the
\* buffer continues it, however reads, timeouts, errors and reconnections are mixed.
THEOREM SyncStreamInOrder == SyncSpec => []SyncInOrder
<1>1. SyncInit => StreamInv
  BY EmptyStream DEF SyncInit, StreamInv
<1>2. StreamInv => SyncInOrder
  <2> SUFFICES ASSUME StreamInv PROVE SyncInOrder
    OBVIOUS
  <2> DEFINE both == taken \o readBuffer
  <2>1. 0 + Len(taken) = Len(taken)
    BY Lengths
  <2>2. IsStream(both, conn, 0) /\ Len(both) = arrived
    BY <2>1, StreamConcat DEF StreamInv
  <2> HIDE DEF both
  <2>3. both = [i \in 1..arrived |-> both[i]]
    BY <2>2, LenProperties DEF IsStream
  <2>4. \A i \in 1..arrived : both[i] = <<conn, i>>
    BY <2>2 DEF IsStream
  <2>5. both = [i \in 1..arrived |-> <<conn, i>>]
    BY <2>3, <2>4
  <2> QED
    BY <2>5 DEF SyncInOrder, both
<1> QED
  BY <1>1, <1>2, StreamStep, PTL DEF SyncSpec
=============================================================================
