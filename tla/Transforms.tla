----------------------------- MODULE Transforms -----------------------------
(***************************************************************************)
(* The operations of time_series.hpp that make a series from one series:   *)
(* between, where, map, map_with_date, fold, shift, skip and skip_on_index *)
(* in any sequence, each applied to what the one before it returned.       *)
(*                                                                         *)
(* The series at the start is source, a column of keys.  A column of the   *)
(* series at hand has the position in source each key came from, and for   *)
(* each value the positions of the source values that went into it, in the *)
(* order in which the caller's functions were given them.                  *)
(*                                                                         *)
(* An operation whose precondition fails throws and leaves everything as   *)
(* it was.                                                                 *)
(***************************************************************************)
EXTENDS Lookup, FiniteSets

CONSTANTS Key,      \* the keys that occur, as tick counts
          Sources,  \* the key columns the series is drawn from
          Spans,    \* the spans idx_func of skip_on_index goes back, in ticks
          MaxOps    \* bound: operations applied

ASSUME KeyAssumption     == Key \subseteq Int
ASSUME SourcesAssumption == Sources \subseteq Seq(Key)
ASSUME SpansAssumption   == Spans \subseteq Nat
ASSUME MaxOpsAssumption  == MaxOps \in Nat

VARIABLES source,
          keys, values,  \* the columns of the series at hand
          ops,           \* history: operations applied
          ahead,         \* history: a shift with a positive index was applied
          net,           \* history: the sum of the indices of the shifts
          onlyShifts     \* history: only shifts, maps and folds were applied

vars == <<source, keys, values, ops, ahead, net, onlyShifts>>

Positions(s) == [p \in 1..Len(s) |-> p]

Init ==
  /\ source \in Sources
  /\ keys = Positions(source)
  /\ values = [p \in 1..Len(source) |-> <<p>>]
  /\ ops = 0
  /\ ahead = FALSE
  /\ net = 0
  /\ onlyShifts = TRUE

-----------------------------------------------------------------------------
(* The operations, on a pair of columns: <<keys, values>>.                 *)

\* The key column as ticks.
Dates(ks) == [i \in 1..Len(ks) |-> source[ks[i]]]

\* The n-th of some positions, which has n of them up to it.
Nth(chosen, n) == CHOOSE i \in chosen : Cardinality({h \in chosen : h <= i}) = n

\* The rows at the chosen positions, in order.
Rows(ks, vs, chosen) ==
  << [n \in 1..Cardinality(chosen) |-> ks[Nth(chosen, n)]],
     [n \in 1..Cardinality(chosen) |-> vs[Nth(chosen, n)]] >>

\* Mutant: the end of the range is left out.
BetweenOfExclusive(ks, vs, startdt, enddt) ==
  LET date == Dates(ks)
      stop == FirstKey(date, From(date, enddt))
  IN Rows(ks, vs, {i \in 1..(stop - 1) : startdt <= date[i]})

\* The scan ends at the first key after the range.
BetweenOf(ks, vs, startdt, enddt) ==
  LET date == Dates(ks)
      stop == FirstKey(date, After(date, enddt))
  IN Rows(ks, vs, {i \in 1..(stop - 1) : startdt <= date[i]})

\* kept: the rows the predicate holds of, by the position of their key.
WhereOf(ks, vs, kept) == Rows(ks, vs, {i \in DOMAIN ks : ks[i] \in kept})

\* The value of each row is made from the value that was there.
MapOf(ks, vs) == <<ks, [i \in 1..Len(vs) |-> vs[i]]>>

\* Mutant: func is given what it returned for the row before.
FoldOfAccumulated(ks, vs) ==
  LET eval[i \in 0..Len(vs)] == IF i = 0 THEN <<>> ELSE eval[i - 1] \o vs[i]
  IN <<ks, [i \in 1..Len(vs) |-> eval[i]]>>

\* eval stays initval, so no row depends on the rows before it.
FoldOf(ks, vs) == <<ks, [i \in 1..Len(vs) |-> vs[i]]>>

\* Mutant: in the other direction.
ShiftOfOpposite(ks, vs, n) ==
  IF n < 0 THEN <<SubSeq(ks, 1, Len(ks) + n), SubSeq(vs, 1 - n, Len(vs))>>
  ELSE <<SubSeq(ks, n + 1, Len(ks)), SubSeq(vs, 1, Len(vs) - n)>>

\* Mutant: off by one.
ShiftOfLong(ks, vs, n) ==
  IF n < 0 THEN <<SubSeq(ks, -n, Len(ks)), SubSeq(vs, 1, Len(vs) + n)>>
  ELSE <<SubSeq(ks, 1, Len(ks) - n), SubSeq(vs, n + 1, Len(vs))>>

\* A shift by a negative index lags the values.
ShiftOf(ks, vs, n) ==
  IF n < 0 THEN <<SubSeq(ks, 1 - n, Len(ks)), SubSeq(vs, 1, Len(vs) + n)>>
  ELSE <<SubSeq(ks, 1, Len(ks) - n), SubSeq(vs, n + 1, Len(vs))>>

\* it starts n rows after itprior; the keys are those of it.
SkipOf(ks, vs, n) ==
  << SubSeq(ks, n + 1, Len(ks)),
     [i \in 1..(Len(vs) - n) |-> vs[i + n] \o vs[i]] >>

\* try_at of idx_func of the key of row i.
Prior(ks, i, span) == Locate(Dates(ks), source[ks[i]] - span)

SkipOnIndexOf(ks, vs, span) ==
  LET found == [i \in 1..Len(ks) |-> Prior(ks, i, span)]
      pair  == [i \in 1..Len(ks) |->
                  IF found[i] = {} THEN <<>>
                  ELSE vs[i] \o vs[CHOOSE p \in found[i] : TRUE]]
  IN Rows(ks, pair, {i \in DOMAIN ks : found[i] # {}})

-----------------------------------------------------------------------------

\* The series at hand is replaced by what an operation returns.
Becomes(columns) ==
  /\ ops < MaxOps
  /\ ops' = ops + 1
  /\ keys' = columns[1]
  /\ values' = columns[2]
  /\ UNCHANGED source

KeepsHistory == onlyShifts' = FALSE /\ UNCHANGED <<ahead, net>>

Between(startdt, enddt) ==
  /\ enddt >= startdt
  /\ Becomes(BetweenOf(keys, values, startdt, enddt))
  /\ KeepsHistory

Where(kept) ==
  /\ Becomes(WhereOf(keys, values, kept))
  /\ KeepsHistory

Map ==
  /\ Becomes(MapOf(keys, values))
  /\ UNCHANGED <<ahead, net, onlyShifts>>

Fold ==
  /\ Becomes(FoldOf(keys, values))
  /\ UNCHANGED <<ahead, net, onlyShifts>>

Shift(n) ==
  /\ Len(keys) >= (IF n < 0 THEN -n ELSE n)
  /\ Becomes(ShiftOf(keys, values, n))
  /\ ahead' = (ahead \/ n > 0)
  /\ net' = net + n
  /\ UNCHANGED onlyShifts

Skip(n) ==
  /\ Len(keys) >= n
  /\ Becomes(SkipOf(keys, values, n))
  /\ KeepsHistory

SkipOnIndex(span) ==
  /\ Becomes(SkipOnIndexOf(keys, values, span))
  /\ KeepsHistory

Next ==
  \/ \E startdt, enddt \in Key : Between(startdt, enddt)
  \/ \E kept \in SUBSET (1..Len(source)) : Where(kept)
  \/ Map
  \/ Fold
  \/ \E n \in (-Len(keys))..Len(keys) : Shift(n)
  \/ \E n \in 0..Len(keys) : Skip(n)
  \/ \E span \in Spans : SkipOnIndex(span)

Spec == Init /\ [][Next]_vars

-----------------------------------------------------------------------------
(* Properties. *)

\* Every operation returns columns of one length.
TypeOK ==
  /\ source \in Sources
  /\ keys \in Seq(1..Len(source))
  /\ values \in Seq(Seq(1..Len(source)))
  /\ Len(keys) = Len(values)
  /\ ops \in 0..MaxOps
  /\ ahead \in BOOLEAN
  /\ net \in Int
  /\ onlyShifts \in BOOLEAN

Sorted(s) == \A p, q \in DOMAIN s : p <= q => s[p] <= s[q]

\* No operation reorders or repeats a row, so a sorted series stays fit for the lookups
\* and the joins; and there is no look-ahead: unless some shift was forward, a value
\* never depends on a row of the source after the one its key comes from, whatever was
\* applied in what order.
NoLookAhead ==
  /\ \A i, j \in DOMAIN keys : i < j => keys[i] < keys[j]
  /\ Sorted(source) => Sorted(Dates(keys))
  /\ ~ahead /\ Sorted(source) =>
       \A i \in DOMAIN keys : \A q \in DOMAIN values[i] : values[i][q] <= keys[i]

\* Shifts add up: after any number of them, with maps and folds between them, each
\* key has the value net rows away from it in the source and depends on no other;
\* what is left is one stretch of the source.
ShiftsAddUp ==
  onlyShifts =>
    /\ \A i \in DOMAIN keys : values[i] = <<keys[i] + net>>
    /\ \A i \in 1..(Len(keys) - 1) : keys[i + 1] = keys[i] + 1

\* On sorted keys between returns the rows in its range, and commutes with where.
\* (On others it stops at the first key after the range, so it may return less.)
BetweenIsFilter ==
  \A a, b \in Key :
    LET range   == {i \in DOMAIN keys : a <= source[keys[i]] /\ source[keys[i]] <= b}
        between == BetweenOf(keys, values, a, b)
    IN /\ \A n \in DOMAIN between[1] : \E i \in range : between[1][n] = keys[i]
       /\ Sorted(source) =>
            /\ between = Rows(keys, values, range)
            /\ \A kept \in SUBSET (1..Len(source)) :
                 WhereOf(between[1], between[2], kept)
                   = BetweenOf(WhereOf(keys, values, kept)[1],
                               WhereOf(keys, values, kept)[2], a, b)

Lowest(S)  == CHOOSE i \in S : \A j \in S : i <= j
Highest(S) == CHOOSE i \in S : \A j \in S : i >= j

\* Whatever was applied, the lookups stay inside the columns or throw (only the prior
\* in an empty series does neither), and on sorted keys they return the row they are
\* named for: of rows with one key at and following the first, prior the last.
LookupsAgree ==
  \A d \in Key :
    LET date      == Dates(keys)
        at        == {i \in DOMAIN keys : date[i] = d}
        prior     == {i \in DOMAIN keys : date[i] <= d}
        following == {i \in DOMAIN keys : date[i] >= d}
    IN /\ At(date, d) \in at \cup {Throw}
       /\ AtOrFirstFollowing(date, d) \in following \cup {Throw}
       /\ AtOrFirstPrior(date, d) \in DOMAIN values \cup {Throw} <=> keys # <<>>
       /\ Sorted(source) /\ keys # <<>> =>
            /\ At(date, d) = IF at = {} THEN Throw ELSE Lowest(at)
            /\ AtOrFirstPrior(date, d) = IF prior = {} THEN Throw ELSE Highest(prior)
            /\ AtOrFirstFollowing(date, d)
                 = IF following = {} THEN Throw ELSE Lowest(following)
=============================================================================
