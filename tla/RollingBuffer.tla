---------------------------- MODULE RollingBuffer ----------------------------
(***************************************************************************)
(* sg::rolling_contiguous_buffer: a vector with a window [posBegin, posEnd)   *)
(* at its end; when the vector would outgrow its allocation, the elements to  *)
(* keep are moved to the front.  (sg::channel_rolling forwards to it.)        *)
(***************************************************************************)
EXTENDS Naturals, Sequences

CONSTANTS Elements,
          Sizes,     \* sizes and reserves that are asked for
          MaxAppend, \* bound: elements appended at once
          Trivial    \* std::is_trivially_copyable_v<T>

ASSUME RollingAssumption == Sizes \subseteq Nat /\ MaxAppend \in Nat \ {0} /\ Trivial \in BOOLEAN

VARIABLES mData,    \* m_data
          cbSize,   \* m_cb_size
          maxSize,  \* m_max_size
          posBegin, posEnd

bufferVars == <<mData, cbSize, maxSize, posBegin, posEnd>>

\* data() and size(): what the user sees.
Contents == SubSeq(mData, posBegin + 1, posEnd)

BufferInit ==
    /\ cbSize \in Sizes
    /\ \E reserve \in Sizes : maxSize = cbSize + reserve
    /\ mData = <<>> /\ posBegin = 0 /\ posEnd = 0

\* The last `keep` elements at the front of a new vector, or copied there with
\* memcpy, whose result is undefined when the two regions overlap.
Moved(keep) ==
    IF Trivial /\ maxSize - cbSize >= cbSize /\ posEnd - keep < keep
    THEN [1..keep -> Elements]
    ELSE {SubSeq(mData, posEnd - keep + 1, posEnd)}

\* Mutant: one element too few is kept.
Keep_fewer(n) == cbSize - n - 1

\* noToKeep
Keep(n) == cbSize - n

\* ensure_space(): the vector, and posBegin, before n elements are added.
EnsureSpace(n) ==
    CASE posEnd + n <= maxSize -> {[data |-> mData, begin |-> posBegin]}
      [] posEnd + n > maxSize /\ n >= cbSize -> {[data |-> <<>>, begin |-> 0]}
      [] OTHER -> {[data |-> d, begin |-> 0] : d \in Moved(Keep(n))}

\* ensure_space(), insertion at the end, advance_pos().
Insert(s) ==
    \E v \in EnsureSpace(Len(s)) :
        LET end == Len(v.data) + Len(s) IN
        /\ mData' = v.data \o s
        /\ posEnd' = end
        /\ posBegin' = IF end - v.begin > cbSize THEN end - cbSize ELSE v.begin
        /\ UNCHANGED <<cbSize, maxSize>>

\* push_back() and emplace_back()
PushBack == \E x \in Elements : Insert(<<x>>)

\* append() trims what it is given to the size of the buffer.
BufferAppend ==
    \E n \in 0..MaxAppend : \E s \in [1..n -> Elements] :
        Insert(IF n > cbSize THEN SubSeq(s, n - cbSize + 1, n) ELSE s)

BufferResize ==
    \E size \in Sizes, reserve \in Sizes :
        LET toCopy == IF posEnd - posBegin < size THEN posEnd - posBegin ELSE size IN
        /\ mData' = SubSeq(mData, Len(mData) - toCopy + 1, Len(mData))
        /\ cbSize' = size /\ maxSize' = size + reserve
        /\ posBegin' = 0 /\ posEnd' = toCopy

BufferClear ==
    /\ mData' = <<>> /\ posBegin' = 0 /\ posEnd' = 0
    /\ UNCHANGED <<cbSize, maxSize>>

BufferNext == PushBack \/ BufferAppend \/ BufferResize \/ BufferClear

BufferSpec == BufferInit /\ [][BufferNext]_bufferVars

----------------------------------------------------------------------------
(* Properties *)

\* The type invariant: the window is the end of the vector and no longer than the
\* size asked for, which the intended allocation (m_max_size) is not below.
BufferTypeOK ==
    /\ mData \in Seq(Elements) /\ cbSize \in Nat /\ maxSize \in Nat /\ maxSize >= cbSize
    /\ posBegin \in Nat /\ posEnd \in Nat
    /\ posEnd = Len(mData) /\ posBegin <= posEnd /\ posEnd - posBegin <= cbSize

\* The window is never cut short: it is full as soon as the vector holds enough.
WindowFull == posBegin = 0 \/ posEnd - posBegin = cbSize

Rolling == INSTANCE LastN WITH items <- Contents, capacity <- cbSize

\* The buffer holds the last m_cb_size elements added, in order, whichever way
\* shifts, trims and resizes are mixed: it implements LastN.
RollingKeepsLast == Rolling!Spec
=============================================================================
