------------------------------- MODULE LastN -------------------------------
(***************************************************************************)
(* What sg::rolling_contiguous_buffer promises: it holds the last `capacity` *)
(* of the elements that were added to it.                                    *)
(***************************************************************************)
EXTENDS Naturals, Sequences

CONSTANTS Elements,
          Sizes,      \* the capacities that are asked for
          MaxAppend   \* bound: elements added at once

VARIABLES items, capacity

\* The last n elements of s.
Last(s, n) == IF Len(s) > n THEN SubSeq(s, Len(s) - n + 1, Len(s)) ELSE s

Additions == UNION {[1..n -> Elements] : n \in 0..MaxAppend}

Init == items = <<>> /\ capacity \in Sizes

Add(s) == items' = Last(items \o s, capacity) /\ UNCHANGED capacity
Resize(n) == capacity' = n /\ items' = Last(items, n)
Clear == items' = <<>> /\ UNCHANGED capacity

Next == (\E s \in Additions : Add(s)) \/ (\E n \in Sizes : Resize(n)) \/ Clear

Spec == Init /\ [][Next]_<<items, capacity>>
=============================================================================
