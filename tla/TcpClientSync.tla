---------------------------- MODULE TcpClientSync ----------------------------
(***************************************************************************)
(* sg::net::tcp_client_sync: one thread connects, reads and writes; every     *)
(* operation blocks until it is done, fails or times out.  What arrived and   *)
(* was not asked for, or too late, waits in m_read_buffer for a later read.   *)
(*                                                                           *)
(* A byte is <<c, i>>: the i-th that connection c brought.  The bytes at      *)
(* Delimiters are those that read_until() looks for.                         *)
(***************************************************************************)
EXTENDS Naturals, Sequences

CONSTANTS MaxConnects,  \* bound: connect() calls
          MaxBytes,     \* bound: bytes a connection brings
          Delimiters    \* their places in the stream

ASSUME SyncAssumption ==
    MaxConnects \in Nat /\ MaxBytes \in Nat /\ Delimiters \subseteq 1..MaxBytes

VARIABLES
    syncOpen,    \* m_socket.is_open()
    syncUp,      \* is the open socket connected?
    readBuffer,  \* m_read_buffer
    conn,        \* history: connect() calls so far
    arrived,     \* history: bytes that the connection has brought
    taken        \* history: what the reads since connect() returned

syncVars == <<syncOpen, syncUp, readBuffer, conn, arrived, taken>>

SyncInit ==
    /\ syncOpen = FALSE /\ syncUp = FALSE /\ readBuffer = <<>>
    /\ conn = 0 /\ arrived = 0 /\ taken = <<>>

\* The next k bytes of the stream, and the buffer when they have been read.
NextBytes(k) == [i \in 1..k |-> <<conn, arrived + i>>]
Filled(k) == readBuffer \o NextBytes(k)

\* run_with_timeout(): the bytes that may come before a read ends, at most n.
MayArrive(n) == {k \in 0..n : k = 0 \/ (syncUp /\ arrived + k <= MaxBytes)}

----------------------------------------------------------------------------
\* Mutant: what is left of the previous connection stays in the buffer.
SyncConnect_keepsBuffer ==
    /\ ~syncOpen /\ conn < MaxConnects
    /\ conn' = conn + 1 /\ arrived' = 0 /\ taken' = <<>>
    /\ syncUp' \in BOOLEAN
    /\ syncOpen' \in (IF syncUp' THEN {TRUE} ELSE BOOLEAN)
    /\ UNCHANGED readBuffer

\* connect(): a failing resolver leaves the socket closed, a failing or late
\* async_connect may leave it open, so that it passes for connected.
SyncConnect ==
    /\ ~syncOpen /\ conn < MaxConnects
    /\ readBuffer' = <<>>
    /\ conn' = conn + 1 /\ arrived' = 0 /\ taken' = <<>>
    /\ syncUp' \in BOOLEAN
    /\ syncOpen' \in (IF syncUp' THEN {TRUE} ELSE BOOLEAN)

\* disconnect(): m_read_buffer is kept.
SyncDisconnect ==
    /\ syncOpen' = FALSE /\ syncUp' = FALSE
    /\ UNCHANGED <<readBuffer, conn, arrived, taken>>

\* k bytes arrive, and the read returns the first n that are buffered ...
Take(n, k) ==
    /\ taken' = taken \o SubSeq(Filled(k), 1, n)
    /\ readBuffer' = SubSeq(Filled(k), n + 1, Len(readBuffer) + k)
    /\ arrived' = arrived + k
    /\ UNCHANGED <<syncOpen, syncUp, conn>>

\* ... or it throws, and keeps them: throw_on_read_error() disconnects unless the
\* operation timed out.
ReadFails(k) ==
    /\ readBuffer' = Filled(k)
    /\ arrived' = arrived + k
    /\ \/ UNCHANGED <<syncOpen, syncUp>>
       \/ syncOpen' = FALSE /\ syncUp' = FALSE
    /\ UNCHANGED <<conn, taken>>

\* read(size)
SyncRead(size) ==
    /\ syncOpen
    /\ IF Len(readBuffer) >= size THEN Take(size, 0)
       ELSE \E k \in MayArrive(size - Len(readBuffer)) :
               IF Len(readBuffer) + k = size THEN Take(size, k) ELSE ReadFails(k)

\* The places of the delimiters in the buffer.
Found(buffer) == {i \in 1..Len(buffer) : buffer[i][2] \in Delimiters}

\* read_until(): the socket is only read if no delimiter is buffered, and may
\* bring more than the delimiter.
SyncReadUntil ==
    /\ syncOpen
    /\ \E k \in (IF Found(readBuffer) # {} THEN {0} ELSE MayArrive(MaxBytes)) :
          LET found == Found(Filled(k)) IN
          IF found # {} THEN \E first \in found : (\A i \in found : first <= i) /\ Take(first, k)
                        ELSE ReadFails(k)

\* read_some()
SyncReadSome ==
    /\ syncOpen
    /\ IF readBuffer # <<>> THEN Take(Len(readBuffer), 0)
       ELSE \E k \in MayArrive(MaxBytes) : IF k > 0 THEN Take(k, k) ELSE ReadFails(0)

\* write(): nothing of the client changes, or it fails, on a timeout too, and the
\* connection is given up.
SyncWrite == syncOpen /\ SyncDisconnect

SyncNext ==
    \/ SyncConnect \/ SyncDisconnect \/ SyncReadUntil \/ SyncReadSome \/ SyncWrite
    \/ \E size \in 0..MaxBytes : SyncRead(size)

SyncSpec == SyncInit /\ [][SyncNext]_syncVars

----------------------------------------------------------------------------
(* Properties *)

\* However reads of all kinds, timeouts, errors and reconnections are mixed, the
\* reads since connect() have returned the stream from its beginning, and the
\* buffer continues it: no byte is lost, repeated, reordered or left over from
\* an earlier connection.
SyncInOrder == taken \o readBuffer = [i \in 1..arrived |-> <<conn, i>>]
=============================================================================
