---------------------------- MODULE MCTimeSeries ----------------------------
(* TimeSeries with two variables and short columns.                        *)
EXTENDS TimeSeries, SequencesExt

CONSTANTS MaxKey, MaxBuilt  \* bound: rows of the columns given to the constructor

MCKey == 1..MaxKey

\* Variables and values are only copied and compared for equality.
Swaps == Permutations(Obj) \cup Permutations(Value)

MCColumns == BoundedSeq(MCKey, MaxBuilt) \X BoundedSeq(Value, MaxBuilt)
=============================================================================
