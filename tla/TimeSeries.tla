----------------------------- MODULE TimeSeries -----------------------------
(***************************************************************************)
(* The container of time_series.hpp: the program's variables of one        *)
(* time_series type, each of them a column of keys and a column of values  *)
(* that every operation has to keep in step.                               *)
(*                                                                         *)
(* An allocation may fail between the two halves of an operation; an       *)
(* allocation that fails leaves the vector it was for as it was.           *)
(***************************************************************************)
EXTENDS Lookup

CONSTANTS Obj,      \* the variables that hold a series
          Key,      \* the keys that occur, as tick counts
          Value,    \* the values that occur
          Columns,  \* the pairs of columns the constructor is given
          MaxLen,   \* bound: rows of a series
          MayThrow  \* whether an allocation can fail

ASSUME KeyAssumption      == Key \subseteq Int
ASSUME ColumnsAssumption  == Columns \subseteq Seq(Key) \X Seq(Value)
ASSUME MaxLenAssumption   == MaxLen \in Nat
ASSUME MayThrowAssumption == MayThrow \in BOOLEAN

VARIABLES keys,    \* keys_ of each object
          values,  \* values_ of each object
          broken   \* history: objects a failed or mismatched operation left

vars == <<keys, values, broken>>

Init ==
  /\ keys = [o \in Obj |-> <<>>]
  /\ values = [o \in Obj |-> <<>>]
  /\ broken = {}

Room(o) == Len(keys[o]) < MaxLen /\ Len(values[o]) < MaxLen

\* keys_.insert, then values_.insert; only the first has happened if the second
\* one throws.
Insert(o, newKeys, newValues) ==
  /\ keys' = [keys EXCEPT ![o] = newKeys]
  /\ \/ values' = [values EXCEPT ![o] = newValues] /\ UNCHANGED broken
     \/ MayThrow /\ UNCHANGED values /\ broken' = broken \cup {o}

\* Mutants: data.first and data.second swapped; the value forgotten, or put at
\* the wrong end.
InsertEndSwapped(o, k, v) ==
  Room(o) /\ Insert(o, Append(keys[o], v), Append(values[o], k))

InsertStartKeyOnly(o, k, v) ==
  /\ Room(o)
  /\ keys' = [keys EXCEPT ![o] = <<k>> \o @]
  /\ UNCHANGED <<values, broken>>

InsertStartValueLast(o, k, v) ==
  Room(o) /\ Insert(o, <<k>> \o keys[o], Append(values[o], v))

InsertEnd(o, k, v) ==
  Room(o) /\ Insert(o, Append(keys[o], k), Append(values[o], v))

InsertStart(o, k, v) ==
  Room(o) /\ Insert(o, <<k>> \o keys[o], <<v>> \o values[o])

\* The objects that are broken once o has been given the columns of another
\* object, or columns that need not have one length.
BrokenAfterCopy(o, p) ==
  IF p \in broken THEN broken \cup {o} ELSE broken \ {o}

BrokenAfterBuild(o, ks, vs) ==
  IF Len(ks) = Len(vs) THEN broken \ {o} ELSE broken \cup {o}

\* time_series(keys, values): the lengths are not compared.
Construct(o, ks, vs) ==
  /\ keys' = [keys EXCEPT ![o] = ks]
  /\ values' = [values EXCEPT ![o] = vs]
  /\ broken' = BrokenAfterBuild(o, ks, vs)

CopyConstruct(o, p) ==
  /\ o # p
  /\ keys' = [keys EXCEPT ![o] = keys[p]]
  /\ values' = [values EXCEPT ![o] = values[p]]
  /\ broken' = BrokenAfterCopy(o, p)

\* values_ are assigned first.  Assigning keys_ allocates, and so may throw, only
\* if the column of the target is too short.
CopyAssign(o, p) ==
  /\ o # p
  /\ values' = [values EXCEPT ![o] = values[p]]
  /\ \/ keys' = [keys EXCEPT ![o] = keys[p]] /\ broken' = BrokenAfterCopy(o, p)
     \/ /\ MayThrow /\ Len(keys[o]) < Len(keys[p])
        /\ UNCHANGED keys
        /\ broken' = broken \cup {o}

\* Move construction and move assignment: the source is left empty.
Move(o, p) ==
  /\ o # p
  /\ keys' = [keys EXCEPT ![o] = keys[p], ![p] = <<>>]
  /\ values' = [values EXCEPT ![o] = values[p], ![p] = <<>>]
  /\ broken' = BrokenAfterCopy(o, p) \ {p}

\* s.at(d) = v, or a write through the reference that try_at returns.  In a broken
\* series the row can have no value to write to: then the program is lost.
AssignAt(o, d, v) ==
  /\ \E i \in Locate(keys[o], d) \cap DOMAIN values[o] :
       values' = [values EXCEPT ![o] = [@ EXCEPT ![i] = v]]
  /\ UNCHANGED <<keys, broken>>

\* Mutant: the second half of the pair is forgotten.
AssignKeyOnly(o, i, k, v) ==
  /\ i \in DOMAIN keys[o] /\ i \in DOMAIN values[o]
  /\ keys' = [keys EXCEPT ![o] = [@ EXCEPT ![i] = k]]
  /\ UNCHANGED <<values, broken>>

\* it = std::make_pair(k, v), of the iterator at position i.
AssignThroughIterator(o, i, k, v) ==
  /\ i \in DOMAIN keys[o] /\ i \in DOMAIN values[o]
  /\ keys' = [keys EXCEPT ![o] = [@ EXCEPT ![i] = k]]
  /\ values' = [values EXCEPT ![o] = [@ EXCEPT ![i] = v]]
  /\ UNCHANGED broken

Next ==
  \E o \in Obj :
    \/ \E k \in Key, v \in Value :
         \/ InsertEnd(o, k, v)
         \/ InsertStart(o, k, v)
         \/ AssignAt(o, k, v)
         \/ \E i \in DOMAIN keys[o] : AssignThroughIterator(o, i, k, v)
    \/ \E c \in Columns : Construct(o, c[1], c[2])
    \/ \E p \in Obj : CopyConstruct(o, p) \/ CopyAssign(o, p) \/ Move(o, p)

Spec == Init /\ [][Next]_vars
-----------------------------------------------------------------------------
(* Properties. *)

TypeOK ==
  /\ keys \in [Obj -> Seq(Key)]
  /\ values \in [Obj -> Seq(Value)]
  /\ broken \subseteq Obj

\* The two columns of an object have one length, unless an operation on it (or on
\* the object it was copied from) failed half-way or was given ragged columns.
\* Skew never spreads to an object that was not assigned from a skewed one.
Aligned == \A o \in Obj \ broken : Len(keys[o]) = Len(values[o])

\* The two columns implement one sequence of rows per object, failures included:
\* a pair of columns that only part of an operation reached belongs to a spoiled
\* object, and no other object changes.
Rows(ks, vs) == [i \in DOMAIN ks |-> <<ks[i], vs[i]>>]

Level == {c \in Columns : Len(c[1]) = Len(c[2])}

SeriesOf(o) == IF o \in broken THEN <<>> ELSE Rows(keys[o], values[o])

Abstract == INSTANCE AbstractSeries WITH
  Contents <- {Rows(c[1], c[2]) : c \in Level},
  rows <- [o \in Obj |-> SeriesOf(o)],
  spoiled <- broken

ImplementsSeries == Abstract!AbstractSpec
=============================================================================
