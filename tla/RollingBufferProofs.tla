------------------------- MODULE RollingBufferProofs -------------------------
(***************************************************************************)
(* The rolling buffer implements LastN, for every size, reserve and kind of   *)
(* element.  The inductive invariant is that the window lies at the end of    *)
(* the vector and starts at its front unless it is full.                      *)
(***************************************************************************)
EXTENDS RollingBuffer, SequenceTheorems, TLAPS

\* The inductive invariant.
IInv == BufferTypeOK /\ WindowFull

----------------------------------------------------------------------------
(* Windows of sequences *)

\* What a window [b, e) of a sequence holds.
LEMMA Window ==
    ASSUME NEW S, NEW d \in Seq(S), NEW b \in Nat, NEW e \in Nat, b <= e, e <= Len(d)
    PROVE  /\ SubSeq(d, b + 1, e) \in Seq(S)
           /\ Len(SubSeq(d, b + 1, e)) = e - b
           /\ \A i \in 1..(e - b) : SubSeq(d, b + 1, e)[i] = d[b + i]
<1>1. b + 1 \in Int /\ e \in Int
  OBVIOUS
<1>2. \A i \in (b + 1)..e : d[i] \in S
  BY ElementOfSeq, LenProperties
<1>3. /\ SubSeq(d, b + 1, e) \in Seq(S)
      /\ Len(SubSeq(d, b + 1, e)) = IF b + 1 <= e THEN e - (b + 1) + 1 ELSE 0
      /\ \A i \in 1..(e - (b + 1) + 1) : SubSeq(d, b + 1, e)[i] = d[(b + 1) + i - 1]
  BY <1>1, <1>2, SubSeqProperties
<1> QED
  BY <1>3

\* The last n elements of w, and how to recognise them.
LEMMA LastUnique ==
    ASSUME NEW S, NEW w \in Seq(S), NEW t \in Seq(S), NEW n \in Nat,
           Len(t) = IF Len(w) > n THEN n ELSE Len(w),
           \A i \in 1..Len(t) : t[i] = w[Len(w) - Len(t) + i]
    PROVE  t = Rolling!Last(w, n)
<1>1. Len(w) \in Nat
  BY LenProperties
<1>2. CASE Len(w) > n
  <2>1. LET u == SubSeq(w, (Len(w) - n) + 1, Len(w)) IN
          /\ u \in Seq(S) /\ Len(u) = n
          /\ \A i \in 1..n : u[i] = w[Len(w) - n + i]
    BY <1>1, <1>2, Window, Len(w) - n \in Nat
  <2>2. t = SubSeq(w, (Len(w) - n) + 1, Len(w))
    BY <1>2, <2>1, SeqEqual
  <2> QED
    BY <1>2, <2>2 DEF Rolling!Last
<1>3. CASE ~(Len(w) > n)
  <2>1. t = w
    BY <1>1, <1>3, SeqEqual
  <2> QED
    BY <1>3, <2>1 DEF Rolling!Last
<1> QED
  BY <1>2, <1>3

----------------------------------------------------------------------------
(* The operations *)

\* ensure_space() leaves the end of the window at the end of the vector, all of
\* it or enough to fill the buffer with the n elements to come.
Kept(v, n) ==
    LET k == Len(v.data) - v.begin IN
    /\ v.data \in Seq(Elements) /\ v.begin \in Nat
    /\ k \in 0..(posEnd - posBegin)
    /\ k = posEnd - posBegin \/ k + n >= cbSize
    /\ v.begin = 0 \/ k = cbSize
    /\ \A i \in 1..k : v.data[v.begin + i] = mData[posEnd - k + i]

\* What ensure_space() leaves of the window: no memcpy() of it overlaps.
LEMMA EnsureSpaceKeeps ==
    ASSUME IInv, NEW n \in Nat, NEW v \in EnsureSpace(n)
    PROVE  Kept(v, n)
<1> USE DEF IInv, BufferTypeOK, WindowFull
<1>1. CASE posEnd + n <= maxSize
  <2>1. v = [data |-> mData, begin |-> posBegin]
    BY <1>1 DEF EnsureSpace
  <2> QED
    BY <2>1 DEF Kept
<1>2. CASE posEnd + n > maxSize /\ n >= cbSize
  <2>1. v = [data |-> <<>>, begin |-> 0]
    BY <1>2 DEF EnsureSpace
  <2>2. <<>> \in Seq(Elements) /\ Len(<<>>) = 0
    BY EmptySeq
  <2> QED
    BY <1>2, <2>1, <2>2 DEF Kept
<1>3. CASE posEnd + n > maxSize /\ n < cbSize
  <2> DEFINE keep == cbSize - n
             tail == SubSeq(mData, (posEnd - keep) + 1, posEnd)
  <2>1. keep \in Nat /\ keep <= posEnd - posBegin /\ posEnd - keep \in Nat
    BY <1>3
  <2>2. ~(maxSize - cbSize >= cbSize /\ posEnd - keep < keep)
    BY <1>3
  <2>3. PICK d \in Moved(Keep(n)) : v = [data |-> d, begin |-> 0]
    BY <1>3 DEF EnsureSpace
  <2>4. d = tail
    BY <2>2, <2>3 DEF Moved, Keep
  <2>5. /\ tail \in Seq(Elements) /\ Len(tail) = keep
        /\ \A i \in 1..keep : tail[i] = mData[posEnd - keep + i]
    <3> DEFINE b == posEnd - keep
    <3>1. /\ mData \in Seq(Elements) /\ b \in Nat /\ posEnd \in Nat
          /\ b <= posEnd /\ posEnd <= Len(mData) /\ posEnd - b = keep
      BY <2>1
    <3> HIDE DEF b, keep, IInv, BufferTypeOK, WindowFull
    <3>2. /\ SubSeq(mData, b + 1, posEnd) \in Seq(Elements)
          /\ Len(SubSeq(mData, b + 1, posEnd)) = posEnd - b
          /\ \A i \in 1..(posEnd - b) : SubSeq(mData, b + 1, posEnd)[i] = mData[b + i]
      BY <3>1, Window
    <3> QED
      BY <3>1, <3>2 DEF b
  <2>6. keep \in 0..(posEnd - posBegin) /\ keep + n >= cbSize
    BY <1>3, <2>1
  <2> HIDE DEF keep, tail, IInv, BufferTypeOK, WindowFull
  <2>7. v.data = tail /\ v.begin = 0
    BY <2>3, <2>4
  <2>8. Len(v.data) - v.begin = keep
    BY <2>1, <2>5, <2>7
  <2>9. \A i \in 1..keep : v.data[v.begin + i] = mData[posEnd - keep + i]
    <3> SUFFICES ASSUME NEW i \in 1..keep
                 PROVE  v.data[v.begin + i] = mData[posEnd - keep + i]
      OBVIOUS
    <3>1. v.begin + i = i
      BY <2>1, <2>7
    <3> QED
      BY <2>5, <2>7, <3>1
  <2> QED
    BY <2>5, <2>6, <2>7, <2>8, <2>9 DEF Kept
<1> QED
  BY <1>1, <1>2, <1>3

\* The numbers of an insertion: a window [b, ld) of a vector shrinks to [xb, lx), of
\* length k, before ls elements are added and it becomes [yb, lx + ls), where c is
\* m_cb_size.
Positions(ld, b, lx, xb, k, ls, c, yb) ==
    /\ ld \in Nat /\ b \in Nat /\ lx \in Nat /\ xb \in Nat /\ k \in Nat /\ ls \in Nat /\ c \in Nat
    /\ b <= ld /\ ld - b <= c /\ xb + k = lx /\ k <= ld - b
    /\ k = ld - b \/ k + ls >= c
    /\ xb = 0 \/ k = c
    /\ yb = IF k + ls > c THEN (lx + ls) - c ELSE xb

\* The window after advance_pos() is within the vector and as long as it should be.
LEMMA NewWindow ==
    ASSUME NEW ld, NEW b, NEW lx, NEW xb, NEW k, NEW ls, NEW c, NEW yb,
           Positions(ld, b, lx, xb, k, ls, c, yb)
    PROVE  /\ yb \in Nat /\ yb <= lx + ls /\ (lx + ls) - yb <= c
           /\ yb = 0 \/ (lx + ls) - yb = c
           /\ (lx + ls) - yb \in Nat /\ ld - b \in Nat
           /\ (lx + ls) - yb = IF (ld - b) + ls > c THEN c ELSE (ld - b) + ls
  BY DEF Positions

\* The i-th element of the new window is the j-th of the old one and what is added.
SameIndex(ld, b, lx, xb, k, ls, yb, i, j) ==
    /\ j \in 1..((ld - b) + ls) /\ yb + i \in 1..(lx + ls)
    /\ (yb + i) - lx = j - (ld - b)
    /\ yb + i <= lx <=> j <= ld - b
    /\ yb + i <= lx => /\ (yb + i) - xb \in 1..k /\ xb + ((yb + i) - xb) = yb + i
                       /\ (ld - k) + ((yb + i) - xb) = b + j
                       /\ j \in 1..(ld - b)

\* Where the elements of the window after advance_pos() come from.
LEMMA NewIndex ==
    ASSUME NEW ld, NEW b, NEW lx, NEW xb, NEW k, NEW ls, NEW c, NEW yb,
           Positions(ld, b, lx, xb, k, ls, c, yb),
           NEW i \in 1..((lx + ls) - yb)
    PROVE  SameIndex(ld, b, lx, xb, k, ls, yb, i, ((ld - b) + ls) - ((lx + ls) - yb) + i)
<1> DEFINE j == ((ld - b) + ls) - ((lx + ls) - yb) + i
<1>1. /\ ld \in Nat /\ b \in Nat /\ lx \in Nat /\ xb \in Nat /\ k \in Nat /\ ls \in Nat /\ c \in Nat
      /\ b <= ld /\ xb + k = lx /\ xb <= yb /\ yb \in Nat /\ yb <= lx + ls
      /\ (lx + ls) - yb <= (ld - b) + ls
  BY DEF Positions
<1>2. i \in Nat /\ i >= 1 /\ i <= (lx + ls) - yb /\ j \in Int
  BY <1>1
<1>3. j \in 1..((ld - b) + ls) /\ yb + i \in 1..(lx + ls) /\ (yb + i) - lx = j - (ld - b)
  BY <1>1, <1>2
<1> QED
  BY <1>1, <1>2, <1>3 DEF SameIndex

\* y is x with s added, and the k elements of x from xb on are those of d before ld.
Extended(S, d, x, s, y, xb, k, ld, lx, ls) ==
    /\ d \in Seq(S) /\ x \in Seq(S) /\ s \in Seq(S)
    /\ ld = Len(d) /\ lx = Len(x) /\ ls = Len(s)
    /\ \A i \in 1..k : x[xb + i] = d[(ld - k) + i]
    /\ y = x \o s

\* Adding s to a vector x whose window [xb, lx) is the end of the window [b, ld) of
\* d keeps the last c elements of that window and s.
LEMMA AddToWindow ==
    ASSUME NEW S, NEW d, NEW x, NEW s, NEW y,
           NEW b, NEW xb, NEW c, NEW k, NEW yb, NEW ld, NEW lx, NEW ls,
           Extended(S, d, x, s, y, xb, k, ld, lx, ls),
           Positions(ld, b, lx, xb, k, ls, c, yb)
    PROVE  SubSeq(y, yb + 1, lx + ls) = Rolling!Last(SubSeq(d, b + 1, ld) \o s, c)
<1> DEFINE items == SubSeq(d, b + 1, ld)
           w == items \o s
           t == SubSeq(y, yb + 1, lx + ls)
           li == ld - b
           lt == (lx + ls) - yb
<1>0. /\ ld \in Nat /\ lx \in Nat /\ ls \in Nat /\ lx + ls \in Nat /\ b \in Nat /\ c \in Nat
      /\ b <= ld /\ xb \in Nat /\ k \in Nat
  BY DEF Positions
<1>1. /\ yb \in Nat /\ yb <= lx + ls /\ li \in Nat /\ lt \in Nat
      /\ lt = IF li + ls > c THEN c ELSE li + ls
  BY NewWindow
<1>2. /\ y \in Seq(S) /\ Len(y) = lx + ls
      /\ \A i \in 1..(lx + ls) : y[i] = IF i <= lx THEN x[i] ELSE s[i - lx]
  BY ConcatProperties DEF Extended
<1>3. /\ items \in Seq(S) /\ Len(items) = li
      /\ \A i \in 1..li : items[i] = d[b + i]
  <2>1. d \in Seq(S) /\ ld <= Len(d)
    BY <1>0 DEF Extended
  <2> QED
    BY <1>0, <2>1, Window
<1>4. /\ t \in Seq(S) /\ Len(t) = lt
      /\ \A i \in 1..lt : t[i] = y[yb + i]
  <2> DEFINE e == lx + ls
  <2>1. y \in Seq(S) /\ yb \in Nat /\ e \in Nat /\ yb <= e /\ e <= Len(y)
    BY <1>0, <1>1, <1>2
  <2> HIDE DEF e
  <2>2. /\ SubSeq(y, yb + 1, e) \in Seq(S) /\ Len(SubSeq(y, yb + 1, e)) = e - yb
        /\ \A i \in 1..(e - yb) : SubSeq(y, yb + 1, e)[i] = y[yb + i]
    BY <2>1, Window
  <2> QED
    BY <2>2 DEF e
<1> HIDE DEF items, t
<1>5. /\ w \in Seq(S) /\ Len(w) = li + ls
      /\ \A i \in 1..(li + ls) : w[i] = IF i <= li THEN items[i] ELSE s[i - li]
  <2>1. /\ w \in Seq(S) /\ Len(w) = Len(items) + Len(s)
        /\ \A i \in 1..(Len(items) + Len(s)) :
              w[i] = IF i <= Len(items) THEN items[i] ELSE s[i - Len(items)]
    BY <1>3, ConcatProperties DEF Extended
  <2> HIDE DEF w, li
  <2> QED
    BY <1>3, <2>1 DEF Extended
<1> HIDE DEF w
<1>6. ASSUME NEW i \in 1..lt
      PROVE  t[i] = w[(li + ls) - lt + i]
  <2> DEFINE j == (li + ls) - lt + i
             h == yb + i
             g == h - xb
  <2>1. /\ j \in 1..(li + ls) /\ h \in 1..(lx + ls) /\ h - lx = j - li
        /\ h <= lx <=> j <= li
        /\ h <= lx => g \in 1..k /\ xb + g = h /\ (ld - k) + g = b + j /\ j \in 1..li
    <3>1. SameIndex(ld, b, lx, xb, k, ls, yb, i, j)
      BY NewIndex
    <3> HIDE DEF j
    <3> QED
      BY <3>1 DEF SameIndex
  <2>2. t[i] = y[h]
    BY <1>4
  <2> HIDE DEF h, j, li, g
  <2>3. w[j] = IF j <= li THEN items[j] ELSE s[j - li]
    BY <1>5, <2>1
  <2>4. y[h] = IF h <= lx THEN x[h] ELSE s[h - lx]
    BY <1>2, <2>1
  <2>5. CASE h <= lx
    <3>1. items[j] = d[b + j]
      BY <1>3, <2>1, <2>5
    <3>2. x[h] = d[b + j]
      BY <2>1, <2>5 DEF Extended
    <3> QED
      BY <2>1, <2>2, <2>3, <2>4, <2>5, <3>1, <3>2 DEF j
  <2>6. CASE ~(h <= lx)
    BY <2>1, <2>2, <2>3, <2>4, <2>6 DEF j
  <2> QED
    BY <2>5, <2>6
<1>7. t = Rolling!Last(w, c)
  <2> HIDE DEF li, lt
  <2>1. \A i \in 1..Len(t) : t[i] = w[(Len(w) - Len(t)) + i]
    BY <1>4, <1>5, <1>6
  <2>2. Len(t) = IF Len(w) > c THEN c ELSE Len(w)
    BY <1>1, <1>4, <1>5
  <2>3. t \in Seq(S) /\ w \in Seq(S) /\ c \in Nat
    BY <1>0, <1>4, <1>5
  <2> QED
    BY <2>1, <2>2, <2>3, LastUnique
<1> QED
  BY <1>7 DEF items, w, t

\* push_back() and append() keep the invariant and implement Add.
LEMMA InsertAdds ==
    ASSUME IInv, NEW s \in Seq(Elements), Insert(s)
    PROVE  IInv' /\ Rolling!Add(s)
<1>1. PICK v \in EnsureSpace(Len(s)) :
        LET end == Len(v.data) + Len(s) IN
        /\ mData' = v.data \o s
        /\ posEnd' = end
        /\ posBegin' = IF end - v.begin > cbSize THEN end - cbSize ELSE v.begin
        /\ UNCHANGED <<cbSize, maxSize>>
  BY DEF Insert
<1>2. Kept(v, Len(s)) /\ Len(s) \in Nat
  BY <1>1, EnsureSpaceKeeps, LenProperties
<1> DEFINE x == v.data
           xb == v.begin
           k == Len(x) - xb
<1>3. /\ x \in Seq(Elements) /\ xb \in Nat /\ Len(x) \in Nat
      /\ k \in Nat /\ xb + k = Len(x) /\ k <= posEnd - posBegin
      /\ k = posEnd - posBegin \/ k + Len(s) >= cbSize
      /\ xb = 0 \/ k = cbSize
      /\ \A i \in 1..k : x[xb + i] = mData[(posEnd - k) + i]
  BY <1>2, LenProperties DEF Kept, IInv, BufferTypeOK
<1>4. /\ mData' = x \o s /\ posEnd' = Len(x) + Len(s)
      /\ posBegin' = IF (Len(x) + Len(s)) - xb > cbSize THEN (Len(x) + Len(s)) - cbSize ELSE xb
      /\ cbSize' = cbSize /\ maxSize' = maxSize
  BY <1>1
<1> HIDE DEF x, xb
<1>5. posBegin' = IF k + Len(s) > cbSize THEN (Len(x) + Len(s)) - cbSize ELSE xb
  BY <1>2, <1>3, <1>4
<1> HIDE DEF k
<1> DEFINE lx == Len(x)
           ls == Len(s)
<1>6. /\ mData' \in Seq(Elements) /\ Len(mData') = lx + ls
  BY <1>3, <1>4, ConcatProperties
<1>7. /\ lx \in Nat /\ ls \in Nat /\ mData \in Seq(Elements) /\ posEnd = Len(mData)
      /\ cbSize \in Nat /\ posBegin \in Nat /\ posEnd \in Nat
      /\ posBegin <= posEnd /\ posEnd - posBegin <= cbSize
  BY <1>2, <1>3 DEF IInv, BufferTypeOK
<1>8. Positions(posEnd, posBegin, lx, xb, k, ls, cbSize, posBegin')
  BY <1>3, <1>5, <1>7 DEF Positions
<1>9. lx = Len(x) /\ ls = Len(s) /\ posEnd' = lx + ls
  BY <1>4
<1> HIDE DEF lx, ls
<1>10. /\ posBegin' \in Nat /\ posBegin' <= lx + ls /\ (lx + ls) - posBegin' <= cbSize
       /\ posBegin' = 0 \/ (lx + ls) - posBegin' = cbSize
  BY <1>8, NewWindow
<1>11. SubSeq(mData', posBegin' + 1, lx + ls)
           = Rolling!Last(SubSeq(mData, posBegin + 1, posEnd) \o s, cbSize)
  <2> DEFINE y == mData'
             yb == posBegin'
  <2>1. Positions(posEnd, posBegin, lx, xb, k, ls, cbSize, yb)
    BY <1>8
  <2>2. Extended(Elements, mData, x, s, y, xb, k, posEnd, lx, ls)
    BY <1>3, <1>4, <1>7, <1>9 DEF Extended
  <2> HIDE DEF y, yb
  <2>3. SubSeq(y, yb + 1, lx + ls)
           = Rolling!Last(SubSeq(mData, posBegin + 1, posEnd) \o s, cbSize)
    BY <2>1, <2>2, AddToWindow
  <2> QED
    BY <2>3 DEF y, yb
<1>12. IInv'
  BY <1>4, <1>6, <1>7, <1>9, <1>10 DEF IInv, BufferTypeOK, WindowFull
<1>13. Contents' = Rolling!Last(Contents \o s, cbSize)
  BY <1>9, <1>11 DEF Contents
<1> QED
  BY <1>4, <1>12, <1>13 DEF Rolling!Add

\* resize() keeps the invariant and the end of the contents that fits.
LEMMA ResizeKeeps ==
    ASSUME IInv, BufferResize
    PROVE  IInv' /\ \E size \in Sizes : Rolling!Resize(size)
<1>1. PICK size \in Sizes, reserve \in Sizes :
        LET toCopy == IF posEnd - posBegin < size THEN posEnd - posBegin ELSE size IN
        /\ mData' = SubSeq(mData, Len(mData) - toCopy + 1, Len(mData))
        /\ cbSize' = size /\ maxSize' = size + reserve
        /\ posBegin' = 0 /\ posEnd' = toCopy
  BY DEF BufferResize
<1> DEFINE n == IF posEnd - posBegin < size THEN posEnd - posBegin ELSE size
           b == posEnd - n
<1>2. /\ mData \in Seq(Elements) /\ posEnd = Len(mData)
      /\ posBegin \in Nat /\ posEnd \in Nat /\ posBegin <= posEnd
      /\ size \in Nat /\ reserve \in Nat
  BY RollingAssumption DEF IInv, BufferTypeOK
<1>3. n \in Nat /\ b \in Nat /\ b <= posEnd /\ posEnd - b = n /\ n <= size /\ size + reserve \in Nat
      /\ n <= posEnd - posBegin /\ posBegin + ((posEnd - posBegin) - n) = b
      /\ size + reserve >= size
  BY <1>2
<1>4. mData' = SubSeq(mData, b + 1, posEnd) /\ cbSize' = size /\ maxSize' = size + reserve
      /\ posBegin' = 0 /\ posEnd' = n
  BY <1>1, <1>2
<1>5. n = IF posEnd - posBegin > size THEN size ELSE posEnd - posBegin
  BY <1>2
<1> HIDE DEF n, b
<1>6. /\ mData' \in Seq(Elements) /\ Len(mData') = n
      /\ \A i \in 1..n : mData'[i] = mData[b + i]
  <2>1. posEnd <= Len(mData)
    BY <1>2
  <2> QED
    BY <1>2, <1>3, <1>4, <2>1, Window
<1>7. IInv'
  BY <1>2, <1>3, <1>4, <1>6 DEF IInv, BufferTypeOK, WindowFull
<1>8. Contents' = mData'
  BY <1>4, <1>6, SubSeqFull DEF Contents
<1>9. /\ Contents \in Seq(Elements) /\ Len(Contents) = posEnd - posBegin
      /\ \A i \in 1..(posEnd - posBegin) : Contents[i] = mData[posBegin + i]
  <2>1. posEnd <= Len(mData)
    BY <1>2
  <2> QED
    BY <1>2, <2>1, Window DEF Contents
<1>10. ASSUME NEW i \in 1..n
       PROVE  mData'[i] = Contents[(posEnd - posBegin) - n + i]
  <2> DEFINE j == (posEnd - posBegin) - n + i
  <2>1. j \in 1..(posEnd - posBegin) /\ posBegin + j = b + i
    BY <1>2, <1>3
  <2> HIDE DEF j
  <2>2. Contents[j] = mData[b + i]
    BY <1>9, <2>1
  <2> QED
    BY <1>6, <2>2 DEF j
<1>11. mData' = Rolling!Last(Contents, size)
  <2> DEFINE t == mData'
  <2>1. t \in Seq(Elements) /\ Len(t) = IF Len(Contents) > size THEN size ELSE Len(Contents)
    BY <1>5, <1>6, <1>9
  <2>2. \A i \in 1..Len(t) : t[i] = Contents[(Len(Contents) - Len(t)) + i]
    BY <1>6, <1>9, <1>10
  <2> HIDE DEF t
  <2>3. t = Rolling!Last(Contents, size)
    BY <1>2, <1>9, <2>1, <2>2, LastUnique
  <2> QED
    BY <2>3 DEF t
<1> QED
  BY <1>4, <1>7, <1>8, <1>11 DEF Rolling!Resize

----------------------------------------------------------------------------
(* The theorems *)

\* An empty buffer satisfies the invariant.
LEMMA BufferInitInv == BufferInit => IInv /\ Rolling!Init
<1> SUFFICES ASSUME BufferInit PROVE IInv /\ Rolling!Init
  OBVIOUS
<1>1. <<>> \in Seq(Elements) /\ Len(<<>>) = 0
  BY EmptySeq
<1>2. cbSize \in Nat /\ maxSize \in Nat /\ maxSize >= cbSize
  BY RollingAssumption DEF BufferInit
<1>3. IInv
  BY <1>1, <1>2 DEF BufferInit, IInv, BufferTypeOK, WindowFull
<1>4. Contents = <<>>
  BY SubSeqEmpty DEF BufferInit, Contents
<1> QED
  BY <1>3, <1>4 DEF BufferInit, Rolling!Init

\* Every operation keeps the invariant and is one of LastN's, or changes nothing
\* that LastN sees.
LEMMA BufferStep ==
    IInv /\ [BufferNext]_bufferVars => IInv' /\ [Rolling!Next]_<<Contents, cbSize>>
<1> SUFFICES ASSUME IInv, [BufferNext]_bufferVars
             PROVE  IInv' /\ [Rolling!Next]_<<Contents, cbSize>>
  OBVIOUS
<1>1. CASE PushBack
  <2>1. PICK e \in Elements : Insert(<<e>>)
    BY <1>1 DEF PushBack
  <2>2. <<e>> \in Seq(Elements) /\ <<e>> \in [1..1 -> Elements]
    OBVIOUS
  <2>3. <<e>> \in Rolling!Additions
    BY <2>2, RollingAssumption, 1 \in 0..MaxAppend DEF Rolling!Additions
  <2> QED
    BY <2>1, <2>2, <2>3, InsertAdds DEF Rolling!Next
<1>2. CASE BufferAppend
  <2>1. PICK n \in 0..MaxAppend : \E s \in [1..n -> Elements] :
          Insert(IF n > cbSize THEN SubSeq(s, n - cbSize + 1, n) ELSE s)
    BY <1>2 DEF BufferAppend
  <2>0. PICK s \in [1..n -> Elements] :
          Insert(IF n > cbSize THEN SubSeq(s, n - cbSize + 1, n) ELSE s)
    BY <2>1
  <2> DEFINE a == IF n > cbSize THEN SubSeq(s, n - cbSize + 1, n) ELSE s
  <2>2. n \in Nat /\ cbSize \in Nat
    BY RollingAssumption DEF IInv, BufferTypeOK
  <2>3. s \in Seq(Elements) /\ Len(s) = n
    BY <2>2
  <2>4. a \in Seq(Elements) /\ Len(a) <= n /\ Len(a) \in Nat
    <3>1. CASE n > cbSize
      <4> DEFINE b == n - cbSize
      <4>1. b \in Nat /\ b <= n /\ n <= Len(s) /\ n - b = cbSize
        BY <2>2, <2>3, <3>1
      <4> HIDE DEF b
      <4>2. SubSeq(s, b + 1, n) \in Seq(Elements) /\ Len(SubSeq(s, b + 1, n)) = cbSize
        BY <2>2, <2>3, <4>1, Window
      <4> QED
        BY <2>2, <3>1, <4>2 DEF b
    <3>2. CASE ~(n > cbSize)
      BY <2>2, <2>3, <3>2
    <3> QED
      BY <3>1, <3>2
  <2>5. Insert(a)
    BY <2>0
  <2> HIDE DEF a
  <2>6. a \in [1..Len(a) -> Elements] /\ Len(a) \in 0..MaxAppend
    BY <2>2, <2>4, LenProperties, RollingAssumption
  <2>7. a \in Rolling!Additions
    BY <2>6 DEF Rolling!Additions
  <2> QED
    BY <2>4, <2>5, <2>7, InsertAdds DEF Rolling!Next
<1>3. CASE BufferResize
  BY <1>3, ResizeKeeps DEF Rolling!Next
<1>4. CASE BufferClear
  <2>1. <<>> \in Seq(Elements) /\ Len(<<>>) = 0
    BY EmptySeq
  <2>2. IInv'
    BY <1>4, <2>1 DEF BufferClear, IInv, BufferTypeOK, WindowFull
  <2>3. SubSeq(<<>>, 0 + 1, 0) = <<>>
    BY SubSeqEmpty
  <2>4. Contents' = <<>> /\ cbSize' = cbSize
    BY <1>4, <2>3 DEF BufferClear, Contents
  <2> QED
    BY <2>2, <2>4 DEF Rolling!Next, Rolling!Clear
<1>5. CASE UNCHANGED bufferVars
  BY <1>5 DEF bufferVars, IInv, BufferTypeOK, WindowFull, Contents
<1> QED
  BY <1>1, <1>2, <1>3, <1>4, <1>5 DEF BufferNext

\* m_data, pos_begin and pos_end always describe a window at the end of the vector
\* which holds at most m_cb_size elements and is full unless it starts at the front.
THEOREM WindowIsConsistent == BufferSpec => [](BufferTypeOK /\ WindowFull)
<1>1. IInv => BufferTypeOK /\ WindowFull
  BY DEF IInv
<1> QED
  BY <1>1, BufferInitInv, BufferStep, PTL DEF BufferSpec

\* The rolling buffer implements LastN: whatever mixture of push_back(), append(),
\* resize() and clear() is called, and for every size and reserve, it holds the last
\* m_cb_size elements in order; no memcpy() of ensure_space() overlaps.
THEOREM RollingRefinement == BufferSpec => RollingKeepsLast
<1>1. BufferSpec => Rolling!Init /\ [][Rolling!Next]_<<Contents, cbSize>>
  BY BufferInitInv, BufferStep, PTL DEF BufferSpec
<1> QED
  BY <1>1 DEF RollingKeepsLast, Rolling!Spec
==============================================================================
