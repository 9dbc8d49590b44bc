---- MODULE Ordering ----
(* Ordered sequences of numbers, the yardstick of trees, heaps and sorts.   *)
EXTENDS Integers, Sequences, SequencesExt

Increasing(s) == \A i \in 1 .. Len(s) - 1 : s[i] < s[i + 1]

\* s lists the set in ascending order.
Lists(s, set) == Increasing(s) /\ ToSet(s) = set

SwapAt(s, i, j) == [s EXCEPT ![i] = s[j], ![j] = s[i]]

====
