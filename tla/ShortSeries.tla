---------------------------- MODULE ShortSeries ----------------------------
(* The key columns that the MC modules draw their series from.             *)
EXTENDS Integers, SequencesExt

\* In any order, with repeats.
AnySeries(keys, maxLen) == BoundedSeq(keys, maxLen)

\* With distinct keys in increasing order.
IncreasingSeries(keys, maxLen) ==
  {s \in AnySeries(keys, maxLen) : \A p \in 2..Len(s) : s[p - 1] < s[p]}
=============================================================================
