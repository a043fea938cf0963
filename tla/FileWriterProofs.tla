-------------------------- MODULE FileWriterProofs --------------------------
(***************************************************************************)
(* The order of what file_writer writes and the flush by stop(), for any      *)
(* number of buffers and of runs.                                             *)
(***************************************************************************)
EXTENDS FileWriter, SequenceTheorems, TLAPS

SeqsInv ==
    /\ data \in Seq(Nat) /\ batch \in Seq(Nat) /\ file \in Seq(Nat) /\ older \in Seq(Nat)
    /\ queued \in Nat /\ mark \in Nat /\ mark <= queued

\* Where stop() and action() are together.
ControlInv ==
    /\ flawless \in BOOLEAN /\ stopTok \in BOOLEAN /\ good \in BOOLEAN
    /\ flawless => good
    /\ thread \in {"none", "test", "acquire", "swap", "write", "leave", "close", "done"}
    /\ thread # "write" => batch = <<>>
    /\ thread # "none" => (stopTok <=> ctl # "idle")
    /\ thread = "none" => ctl = "idle"
    /\ thread \in {"close", "done"} => stopTok

\* What had been queued when stop() was called is in the files from the moment
\* the thread decides to leave.
FlushedInv ==
    flawless /\ thread \in {"close", "done", "none"} => Len(older) + Len(file) >= mark

IInv == SeqsInv /\ ControlInv /\ InOrder /\ FlushedInv

----------------------------------------------------------------------------
(* Sequences *)

\* The first n numbers, and one more.
LEMMA OneMore ==
    ASSUME NEW n \in Nat, NEW s \in Seq(Nat), s = [i \in 1..n |-> i]
    PROVE  Append(s, n + 1) = [i \in 1..(n + 1) |-> i]
<1>1. Len(s) = n
  OBVIOUS
<1>2. [i \in 1..(n + 1) |-> i] \in Seq(Nat) /\ Len([i \in 1..(n + 1) |-> i]) = n + 1
  OBVIOUS
<1>3. /\ Append(s, n + 1) \in Seq(Nat) /\ Len(Append(s, n + 1)) = n + 1
      /\ \A i \in 1..n : Append(s, n + 1)[i] = s[i]
      /\ Append(s, n + 1)[n + 1] = n + 1
  BY <1>1, AppendProperties
<1>4. \A i \in 1..(n + 1) : Append(s, n + 1)[i] = [j \in 1..(n + 1) |-> j][i]
  BY <1>3
<1> QED
  BY <1>2, <1>3, <1>4, SeqEqual

\* Concatenation is associative: stated so that the equation is only unfolded for
\* the sequences at hand.
Associates(p, q, r) == (p \o q) \o r = p \o (q \o r)

LEMMA Associative ==
    ASSUME NEW p \in Seq(Nat), NEW q \in Seq(Nat), NEW r \in Seq(Nat)
    PROVE  Associates(p, q, r)
<1> DEFINE pq == p \o q
           qr == q \o r
           x == pq \o r
           y == p \o qr
<1>0. Len(p) \in Nat /\ Len(q) \in Nat /\ Len(r) \in Nat
  BY LenProperties
<1>1. /\ pq \in Seq(Nat) /\ Len(pq) = Len(p) + Len(q)
      /\ \A i \in 1..(Len(p) + Len(q)) : pq[i] = IF i <= Len(p) THEN p[i] ELSE q[i - Len(p)]
  BY ConcatProperties
<1>2. /\ qr \in Seq(Nat) /\ Len(qr) = Len(q) + Len(r)
      /\ \A i \in 1..(Len(q) + Len(r)) : qr[i] = IF i <= Len(q) THEN q[i] ELSE r[i - Len(q)]
  BY ConcatProperties
<1> HIDE DEF pq, qr
<1>a. pq \in Seq(Nat) /\ qr \in Seq(Nat)
  BY <1>1, <1>2
<1>3. /\ x \in Seq(Nat) /\ Len(x) = Len(pq) + Len(r)
      /\ \A i \in 1..(Len(pq) + Len(r)) : x[i] = IF i <= Len(pq) THEN pq[i] ELSE r[i - Len(pq)]
  BY <1>a, ConcatProperties
<1>4. /\ y \in Seq(Nat) /\ Len(y) = Len(p) + Len(qr)
      /\ \A i \in 1..(Len(p) + Len(qr)) : y[i] = IF i <= Len(p) THEN p[i] ELSE qr[i - Len(p)]
  BY <1>a, ConcatProperties
<1> HIDE DEF x, y
<1>5. Len(x) = Len(y)
  BY <1>0, <1>1, <1>2, <1>3, <1>4
<1>6. ASSUME NEW i \in 1..Len(x) PROVE x[i] = y[i]
  <2>1. i \in Nat /\ i >= 1 /\ i <= Len(p) + Len(q) + Len(r)
    BY <1>0, <1>1, <1>3
  <2>2. x[i] = IF i <= Len(p) + Len(q) THEN pq[i] ELSE r[i - (Len(p) + Len(q))]
    BY <1>0, <1>1, <1>3, <2>1
  <2>3. y[i] = IF i <= Len(p) THEN p[i] ELSE qr[i - Len(p)]
    BY <1>0, <1>2, <1>4, <2>1
  <2>4. CASE i <= Len(p)
    <3>1. i \in 1..(Len(p) + Len(q)) /\ i <= Len(p) + Len(q)
      BY <1>0, <2>1, <2>4
    <3> QED
      BY <1>1, <2>2, <2>3, <2>4, <3>1
  <2>5. CASE ~(i <= Len(p)) /\ i <= Len(p) + Len(q)
    <3>1. i - Len(p) \in 1..(Len(q) + Len(r)) /\ i - Len(p) <= Len(q) /\ i \in 1..(Len(p) + Len(q))
      BY <1>0, <2>1, <2>5
    <3> QED
      BY <1>1, <1>2, <2>2, <2>3, <2>5, <3>1
  <2>6. CASE ~(i <= Len(p) + Len(q))
    <3>1. /\ i - Len(p) \in 1..(Len(q) + Len(r)) /\ ~(i - Len(p) <= Len(q)) /\ ~(i <= Len(p))
          /\ (i - Len(p)) - Len(q) = i - (Len(p) + Len(q))
      BY <1>0, <2>1, <2>6
    <3> QED
      BY <1>2, <2>2, <2>3, <2>6, <3>1
  <2> QED
    BY <2>4, <2>5, <2>6
<1> QED
  BY <1>3, <1>4, <1>5, <1>6, SeqEqual DEF x, y, pq, qr, Associates

\* The head of b moves from the batch to the file.
LEMMA MoveHead ==
    ASSUME NEW f \in Seq(Nat), NEW b \in Seq(Nat), b # <<>>
    PROVE  Append(f, Head(b)) \o Tail(b) = f \o b
<1>1. /\ Head(b) \in Nat /\ Tail(b) \in Seq(Nat) /\ Len(Tail(b)) = Len(b) - 1
      /\ \A i \in 1..Len(Tail(b)) : Tail(b)[i] = b[i + 1]
  BY HeadTailProperties
<1>2. <<Head(b)>> \in Seq(Nat) /\ Len(<<Head(b)>>) = 1 /\ <<Head(b)>>[1] = Head(b)
  BY <1>1
<1>3. Head(b) = b[1] /\ Len(b) \in Nat \ {0}
  BY EmptySeq
<1> DEFINE c == <<Head(b)>> \o Tail(b)
<1>4. /\ c \in Seq(Nat) /\ Len(c) = Len(b)
      /\ \A i \in 1..Len(b) : c[i] = IF i <= 1 THEN <<Head(b)>>[i] ELSE Tail(b)[i - 1]
  <2>1. /\ c \in Seq(Nat) /\ Len(c) = 1 + Len(Tail(b))
        /\ \A i \in 1..(1 + Len(Tail(b))) :
              c[i] = IF i <= 1 THEN <<Head(b)>>[i] ELSE Tail(b)[i - 1]
    BY <1>1, <1>2, ConcatProperties
  <2>2. 1 + Len(Tail(b)) = Len(b)
    BY <1>1, <1>3
  <2> QED
    BY <2>1, <2>2, Zenon
<1> HIDE DEF c
<1>5. \A i \in 1..Len(b) : c[i] = b[i]
  <2> SUFFICES ASSUME NEW i \in 1..Len(b) PROVE c[i] = b[i]
    OBVIOUS
  <2>1. CASE i = 1
    BY <1>2, <1>3, <1>4, <2>1
  <2>2. CASE i # 1
    <3>1. i - 1 \in 1..Len(Tail(b)) /\ (i - 1) + 1 = i /\ ~(i <= 1)
      BY <1>1, <1>3, <2>2
    <3> QED
      BY <1>1, <1>4, <3>1
  <2> QED
    BY <2>1, <2>2
<1>6. <<Head(b)>> \o Tail(b) = b
  BY <1>4, <1>5, SeqEqual DEF c
<1>7. Append(f, Head(b)) = f \o <<Head(b)>>
  BY <1>1, AppendIsConcat
<1>8. Associates(f, <<Head(b)>>, Tail(b))
  BY <1>1, <1>2, Associative
<1> QED
  BY <1>6, <1>7, <1>8 DEF Associates

\* ... also after the files of earlier runs.
LEMMA MoveHeadAfter ==
    ASSUME NEW e \in Seq(Nat), NEW f \in Seq(Nat), NEW b \in Seq(Nat), b # <<>>
    PROVE  e \o Append(f, Head(b)) \o Tail(b) = e \o f \o b
<1> DEFINE g == Append(f, Head(b))
           t == Tail(b)
<1>1. g \in Seq(Nat) /\ t \in Seq(Nat)
  BY HeadTailProperties, AppendProperties
<1>2. g \o t = f \o b
  BY MoveHead
<1> HIDE DEF g, t
<1>3. Associates(e, g, t) /\ Associates(e, f, b)
  BY <1>1, Associative
<1> QED
  BY <1>2, <1>3 DEF g, t, Associates

\* Appending to the last of two sequences appends to both.
LEMMA AppendToSecond ==
    ASSUME NEW f \in Seq(Nat), NEW d \in Seq(Nat), NEW n \in Nat
    PROVE  f \o Append(d, n) = Append(f \o d, n)
<1>1. <<n>> \in Seq(Nat) /\ Append(d, n) = d \o <<n>>
  BY AppendIsConcat
<1>2. f \o d \in Seq(Nat) /\ Append(f \o d, n) = (f \o d) \o <<n>>
  BY ConcatProperties, AppendIsConcat
<1>3. Associates(f, d, <<n>>)
  BY <1>1, Associative
<1> QED
  BY <1>1, <1>2, <1>3 DEF Associates

----------------------------------------------------------------------------
(* The invariant *)

\* A file_writer that was just constructed satisfies the invariant.
LEMMA WriterInit == Init => IInv
<1> SUFFICES ASSUME Init PROVE IInv
  OBVIOUS
<1>1. <<>> \in Seq(Nat) /\ Len(<<>>) = 0
  BY EmptySeq
<1>2. SeqsInv /\ ControlInv /\ FlushedInv
  <2>1. SeqsInv
    BY <1>1 DEF Init, SeqsInv
  <2>2. ControlInv
    BY DEF Init, ControlInv
  <2>3. FlushedInv
    BY <1>1 DEF Init, FlushedInv
  <2> QED
    BY <2>1, <2>2, <2>3
<1>3. <<>> \o <<>> = <<>>
  BY <1>1, ConcatEmptySeq
<1>4. [i \in 1..0 |-> i] = <<>>
  <2>1. [i \in 1..0 |-> i] \in Seq(Nat) /\ Len([i \in 1..0 |-> i]) = 0
    OBVIOUS
  <2> QED
    BY <1>1, <2>1, SeqEqual
<1>5. InOrder
  BY <1>3, <1>4 DEF Init, InOrder
<1> QED
  BY <1>2, <1>5 DEF IInv

\* Every step of the controller, of a writer and of action() keeps it.
LEMMA WriterStep == IInv /\ [Next]_vars => IInv'
<1> SUFFICES ASSUME IInv, [Next]_vars PROVE IInv'
  OBVIOUS
<1>e. <<>> \in Seq(Nat) /\ Len(<<>>) = 0
  BY EmptySeq
<1> USE DEF IInv
<1>1. CASE start
  <2>1. SeqsInv'
    BY <1>1, <1>e, ConcatProperties DEF start, SeqsInv
  <2>2. ControlInv'
    BY <1>1 DEF start, ControlInv
  <2>3. older' \o file' = older \o file
    BY <1>1, ConcatProperties, ConcatEmptySeq DEF start, SeqsInv
  <2>4. InOrder'
    BY <1>1, <2>3 DEF start, InOrder
  <2>5. FlushedInv'
    BY <1>1 DEF start, FlushedInv
  <2> QED
    BY <2>1, <2>2, <2>4, <2>5
<1>2. CASE stop
  <2>1. SeqsInv' /\ ControlInv' /\ InOrder'
    BY <1>2 DEF stop, SeqsInv, ControlInv, InOrder
  <2>2. thread \notin {"close", "done", "none"}
    BY <1>2 DEF stop, ControlInv
  <2> QED
    BY <1>2, <2>1, <2>2 DEF stop, FlushedInv
<1>3. CASE StopRelease
  BY <1>3 DEF StopRelease, Release, history, SeqsInv, ControlInv, InOrder, FlushedInv
<1>4. CASE StopJoin
  BY <1>4 DEF StopJoin, history, SeqsInv, ControlInv, InOrder, FlushedInv
<1>5. CASE write_async
  <2>1. SeqsInv'
    BY <1>5, AppendProperties DEF write_async, SeqsInv
  <2>2. ControlInv' /\ FlushedInv'
    BY <1>5 DEF write_async, ControlInv, FlushedInv
  <2>3. InOrder'
    <3> DEFINE fb == older \o file \o batch
    <3>1. fb \in Seq(Nat) /\ data \in Seq(Nat) /\ queued \in Nat /\ queued + 1 \in Nat
      BY ConcatProperties DEF SeqsInv
    <3>2. (older \o file \o batch)' = fb /\ data' = Append(data, queued + 1) /\ queued' = queued + 1
          /\ flawless' = flawless
      BY <1>5 DEF write_async
    <3>3. flawless => fb \o data = [i \in 1..queued |-> i]
      BY DEF InOrder
    <3> HIDE DEF fb
    <3>4. fb \o data \in Seq(Nat)
      BY <3>1, ConcatProperties
    <3>5. flawless => Append(fb \o data, queued + 1) = [i \in 1..(queued + 1) |-> i]
      BY <3>1, <3>3, <3>4, OneMore
    <3>6. fb \o Append(data, queued + 1) = Append(fb \o data, queued + 1)
      BY <3>1, AppendToSecond
    <3> QED
      BY <3>2, <3>5, <3>6 DEF InOrder
  <2> QED
    BY <2>1, <2>2, <2>3
<1>6. CASE TestStop
  BY <1>6 DEF TestStop, history, SeqsInv, ControlInv, InOrder, FlushedInv
<1>7. CASE Acquire
  BY <1>7 DEF Acquire, history, SeqsInv, ControlInv, InOrder, FlushedInv
<1>8. CASE Swap
  <2>1. SeqsInv' /\ ControlInv' /\ FlushedInv'
    BY <1>8, <1>e DEF Swap, history, SeqsInv, ControlInv, FlushedInv
  <2>2. InOrder'
    <3> DEFINE f == older \o file
    <3>1. f \in Seq(Nat) /\ data \in Seq(Nat) /\ batch = <<>>
      BY <1>8, ConcatProperties DEF Swap, SeqsInv, ControlInv
    <3>2. flawless => f \o batch \o data = [i \in 1..queued |-> i]
      BY DEF InOrder
    <3>3. (older \o file)' = f /\ batch' = data /\ data' = <<>> /\ UNCHANGED <<queued, flawless>>
      BY <1>8 DEF Swap, history
    <3> HIDE DEF f
    <3>4. f \o data \in Seq(Nat)
      BY <3>1, ConcatProperties
    <3>5. f \o <<>> \o data = f \o data /\ f \o data \o <<>> = f \o data
      BY <3>1, <3>4, ConcatEmptySeq
    <3> QED
      BY <3>1, <3>2, <3>3, <3>5 DEF InOrder
  <2> QED
    BY <2>1, <2>2
<1>9. CASE Write
  <2>1. Head(batch) \in Nat /\ Tail(batch) \in Seq(Nat)
    BY <1>9, HeadTailProperties DEF Write, SeqsInv
  <2>2. SeqsInv'
    BY <1>9, <2>1, AppendProperties DEF Write, SeqsInv
  <2>3. ControlInv' /\ FlushedInv'
    BY <1>9 DEF Write, ControlInv, FlushedInv
  <2>4. ASSUME flawless' PROVE (older \o file \o batch \o data)' = older \o file \o batch \o data
    <3>1. /\ file' = Append(file, Head(batch)) /\ batch' = Tail(batch)
          /\ older' = older /\ data' = data /\ batch # <<>>
      BY <1>9, <2>4 DEF Write
    <3>2. older \in Seq(Nat) /\ file \in Seq(Nat) /\ batch \in Seq(Nat)
      BY DEF SeqsInv
    <3>3. older \o Append(file, Head(batch)) \o Tail(batch) = older \o file \o batch
      BY <3>1, <3>2, MoveHeadAfter
    <3> QED
      BY <3>1, <3>3
  <2>5. InOrder'
    BY <1>9, <2>4 DEF Write, InOrder
  <2> QED
    BY <2>2, <2>3, <2>5
<1>10. CASE Count
  BY <1>10 DEF Count, history, SeqsInv, ControlInv, InOrder, FlushedInv
<1>11. CASE Leave
  <2>1. SeqsInv' /\ ControlInv' /\ InOrder'
    BY <1>11 DEF Leave, history, SeqsInv, ControlInv, InOrder
  <2>2. ASSUME flawless, data = <<>> PROVE Len(older) + Len(file) = queued
    <3>1. batch = <<>>
      BY <1>11 DEF Leave, ControlInv
    <3>2. older \o file \in Seq(Nat) /\ Len(older \o file) = Len(older) + Len(file)
      BY ConcatProperties DEF SeqsInv
    <3>3. older \o file \o batch \o data = older \o file
      BY <2>2, <3>1, <3>2, ConcatEmptySeq
    <3>4. older \o file = [i \in 1..queued |-> i] /\ queued \in Nat
      BY <2>2, <3>3 DEF InOrder, SeqsInv
    <3>5. Len([i \in 1..queued |-> i]) = queued
      BY <3>4
    <3> QED
      BY <3>2, <3>4, <3>5
  <2>3. FlushedInv'
    BY <1>11, <2>2 DEF Leave, history, FlushedInv, SeqsInv
  <2> QED
    BY <2>1, <2>3
<1>12. CASE Close
  BY <1>12 DEF Close, history, SeqsInv, ControlInv, InOrder, FlushedInv
<1>13. CASE UNCHANGED vars
  BY <1>13 DEF vars, SeqsInv, ControlInv, InOrder, FlushedInv
<1> QED
  BY <1>1, <1>2, <1>3, <1>4, <1>5, <1>6, <1>7, <1>8, <1>9, <1>10, <1>11, <1>12, <1>13
  DEF Next, action

----------------------------------------------------------------------------
(* The theorems *)

\* While no stream fails, the files of all runs, the batch in hand and the queue
\* together are what write_async() was given, in order: nothing is lost, repeated
\* or reordered, across any number of stops and restarts.
THEOREM WritesInOrder == Spec => []InOrder
<1>1. IInv => InOrder
  BY DEF IInv
<1> QED
  BY <1>1, WriterInit, WriterStep, PTL DEF Spec

\* When stop() has returned, whatever was queued before it was called has been
\* written.
THEOREM StopIsFlush == Spec => []StopFlushes
<1>1. IInv => StopFlushes
  BY DEF IInv, FlushedInv, StopFlushes
<1> QED
  BY <1>1, WriterInit, WriterStep, PTL DEF Spec
=============================================================================
