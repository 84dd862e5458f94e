-------------------------- MODULE TimeSeriesProofs --------------------------
(***************************************************************************)
(* Theorems about the container, for any variables, keys, values, columns  *)
(* and length, with allocations that fail at any time: the columns stay in *)
(* step, and together they implement one sequence of rows per object.      *)
(* Then about its memory, with any reservations: a half of an iterator     *)
(* shows its row or dangles, its halves dangle together, and rows that     *)
(* were reserved are safe.                                                 *)
(***************************************************************************)
EXTENDS References, SequenceTheorems, TLAPS

IInv == TypeOK /\ Aligned

\* What an operation on o leaves alone: every other object.
OnlyTouches(o) ==
  \A p \in Obj \ {o} :
    /\ keys'[p] = keys[p]
    /\ values'[p] = values[p]
    /\ p \in broken' <=> p \in broken

-----------------------------------------------------------------------------
(* The columns of an object after an operation that reaches both of them.  *)

\* Both columns grow by one at their end.
LEMMA AppendColumns ==
  ASSUME NEW ks \in Seq(Key), NEW vs \in Seq(Value), NEW k \in Key, NEW v \in Value
  PROVE  /\ Append(ks, k) \in Seq(Key) /\ Append(vs, v) \in Seq(Value)
         /\ Len(Append(ks, k)) = Len(ks) + 1 /\ Len(Append(vs, v)) = Len(vs) + 1
BY AppendProperties

\* An element put before a sequence moves the others up by one.
LEMMA PrependCells ==
  ASSUME NEW S, NEW s \in Seq(S), NEW e \in S
  PROVE  /\ <<e>> \o s \in Seq(S)
         /\ Len(<<e>> \o s) = Len(s) + 1
         /\ (<<e>> \o s)[1] = e
         /\ \A i \in 1..Len(s) : (<<e>> \o s)[i + 1] = s[i]
<1>1. <<e>> \in Seq(S) /\ Len(<<e>>) = 1 /\ <<e>>[1] = e /\ Len(s) \in Nat
  BY LenProperties
<1>2. /\ <<e>> \o s \in Seq(S)
      /\ Len(<<e>> \o s) = Len(<<e>>) + Len(s)
      /\ \A i \in 1..(Len(<<e>>) + Len(s)) :
           (<<e>> \o s)[i] = IF i <= Len(<<e>>) THEN <<e>>[i] ELSE s[i - Len(<<e>>)]
  BY <1>1, ConcatProperties
<1>3. \A i \in 1..Len(s) :
        (<<e>> \o s)[i + 1] = IF i + 1 <= 1 THEN <<e>>[i + 1] ELSE s[i + 1 - 1]
  BY <1>1, <1>2
<1>. QED
  BY <1>1, <1>2, <1>3

\* Both columns grow by one at their start.
LEMMA PrependColumns ==
  ASSUME NEW ks \in Seq(Key), NEW vs \in Seq(Value), NEW k \in Key, NEW v \in Value
  PROVE  /\ <<k>> \o ks \in Seq(Key) /\ <<v>> \o vs \in Seq(Value)
         /\ Len(<<k>> \o ks) = Len(ks) + 1 /\ Len(<<v>> \o vs) = Len(vs) + 1
BY PrependCells

\* A cell of a column is overwritten.
LEMMA ExceptColumn ==
  ASSUME NEW S, NEW s \in Seq(S), NEW i \in DOMAIN s, NEW e \in S
  PROVE  [s EXCEPT ![i] = e] \in Seq(S) /\ Len([s EXCEPT ![i] = e]) = Len(s)
<1>1. i \in 1..Len(s)
  BY LenProperties
<1>. QED
  BY <1>1, ExceptSeq

-----------------------------------------------------------------------------
(* The columns stay in step. *)

\* Default-constructed series have two empty columns.
LEMMA InitIInv == Init => IInv
BY EmptySeq DEF Init, IInv, TypeOK, Aligned

\* If o gets columns, and is broken unless they have one length, IInv holds on.
LEMMA TouchIInv ==
  ASSUME IInv, NEW o \in Obj, NEW ks \in Seq(Key), NEW vs \in Seq(Value),
         keys' = [keys EXCEPT ![o] = ks],
         values' = [values EXCEPT ![o] = vs],
         broken' \subseteq Obj,
         \A p \in Obj \ {o} : p \in broken' <=> p \in broken,
         o \notin broken' => Len(ks) = Len(vs)
  PROVE  IInv' /\ OnlyTouches(o)
<1>1. /\ keys \in [Obj -> Seq(Key)] /\ values \in [Obj -> Seq(Value)]
      /\ \A p \in Obj \ broken : Len(keys[p]) = Len(values[p])
  BY DEF IInv, TypeOK, Aligned
<1>2. TypeOK'
  BY <1>1 DEF TypeOK
<1>3. OnlyTouches(o)
  BY <1>1 DEF OnlyTouches
<1>4. Aligned'
  <2>. SUFFICES ASSUME NEW p \in Obj \ broken'
                PROVE  Len(keys'[p]) = Len(values'[p])
    BY DEF Aligned
  <2>1. CASE p = o
    BY <1>1, <2>1
  <2>2. CASE p # o
    BY <1>1, <1>3, <2>2 DEF OnlyTouches
  <2>. QED
    BY <2>1, <2>2
<1>. QED
  BY <1>2, <1>3, <1>4 DEF IInv

\* The two columns of one object.
LEMMA ColumnsTyped ==
  ASSUME IInv, NEW o \in Obj
  PROVE  /\ keys[o] \in Seq(Key) /\ values[o] \in Seq(Value)
         /\ broken \subseteq Obj
         /\ o \notin broken => Len(keys[o]) = Len(values[o])
BY DEF IInv, TypeOK, Aligned

\* insert_end and insert_start, whether the second half happens or throws.
LEMMA InsertIInv ==
  ASSUME IInv, NEW o \in Obj, NEW ks \in Seq(Key), NEW vs \in Seq(Value),
         Len(ks) = Len(keys[o]) + 1, Len(vs) = Len(values[o]) + 1,
         Insert(o, ks, vs)
  PROVE  IInv' /\ OnlyTouches(o)
<1>1. CASE values' = [values EXCEPT ![o] = vs] /\ UNCHANGED broken
  BY <1>1, ColumnsTyped, TouchIInv DEF Insert
<1>2. CASE UNCHANGED values /\ broken' = broken \cup {o}
  <2>1. values' = [values EXCEPT ![o] = values[o]]
    BY <1>2 DEF IInv, TypeOK
  <2>. QED
    BY <1>2, <2>1, ColumnsTyped, TouchIInv DEF Insert
<1>. QED
  BY <1>1, <1>2 DEF Insert

\* insert_end leaves the columns in step, or the object broken.
LEMMA InsertEndIInv ==
  ASSUME IInv, NEW o \in Obj, NEW k \in Key, NEW v \in Value, InsertEnd(o, k, v)
  PROVE  IInv' /\ OnlyTouches(o)
BY ColumnsTyped, AppendColumns, InsertIInv DEF InsertEnd

\* So does insert_start.
LEMMA InsertStartIInv ==
  ASSUME IInv, NEW o \in Obj, NEW k \in Key, NEW v \in Value, InsertStart(o, k, v)
  PROVE  IInv' /\ OnlyTouches(o)
BY ColumnsTyped, PrependColumns, InsertIInv DEF InsertStart

\* Construction from two columns breaks the object if their lengths differ.
LEMMA ConstructIInv ==
  ASSUME IInv, NEW o \in Obj, NEW c \in Columns, Construct(o, c[1], c[2])
  PROVE  IInv' /\ OnlyTouches(o)
<1>1. c[1] \in Seq(Key) /\ c[2] \in Seq(Value)
  BY ColumnsAssumption
<1>. QED
  BY <1>1, ColumnsTyped, TouchIInv DEF Construct, BrokenAfterBuild

\* A copy is in step if its source is.
LEMMA CopyConstructIInv ==
  ASSUME IInv, NEW o \in Obj, NEW p \in Obj, CopyConstruct(o, p)
  PROVE  IInv' /\ OnlyTouches(o)
BY ColumnsTyped, TouchIInv DEF CopyConstruct, BrokenAfterCopy

\* Copy assignment, whether the second half happens or throws.
LEMMA CopyAssignIInv ==
  ASSUME IInv, NEW o \in Obj, NEW p \in Obj, CopyAssign(o, p)
  PROVE  IInv' /\ OnlyTouches(o)
<1>1. CASE keys' = [keys EXCEPT ![o] = keys[p]] /\ broken' = BrokenAfterCopy(o, p)
  BY <1>1, ColumnsTyped, TouchIInv DEF CopyAssign, BrokenAfterCopy
<1>2. CASE UNCHANGED keys /\ broken' = broken \cup {o}
  <2>1. keys' = [keys EXCEPT ![o] = keys[o]]
    BY <1>2 DEF IInv, TypeOK
  <2>. QED
    BY <1>2, <2>1, ColumnsTyped, TouchIInv DEF CopyAssign
<1>. QED
  BY <1>1, <1>2 DEF CopyAssign

\* A move touches two objects: the source is left with two empty columns.
LEMMA MoveIInv ==
  ASSUME IInv, NEW o \in Obj, NEW p \in Obj, Move(o, p)
  PROVE  IInv'
<1>1. /\ keys \in [Obj -> Seq(Key)] /\ values \in [Obj -> Seq(Value)]
      /\ broken \subseteq Obj
  BY DEF IInv, TypeOK
<1>2. TypeOK'
  BY <1>1, EmptySeq DEF Move, TypeOK, BrokenAfterCopy
<1>3. Aligned'
  <2>. SUFFICES ASSUME NEW q \in Obj \ broken'
                PROVE  Len(keys'[q]) = Len(values'[q])
    BY DEF Aligned
  <2>1. CASE q = p
    BY <1>1, <2>1 DEF Move
  <2>2. CASE q = o
    <3>1. p \notin broken /\ o # p
      BY <2>2 DEF Move, BrokenAfterCopy
    <3>. QED
      BY <1>1, <2>2, <3>1 DEF Move, IInv, Aligned
  <2>3. CASE q # o /\ q # p
    BY <1>1, <2>3 DEF Move, BrokenAfterCopy, IInv, Aligned
  <2>. QED
    BY <2>1, <2>2, <2>3
<1>. QED
  BY <1>2, <1>3 DEF IInv

\* A write through at() changes no length.
LEMMA AssignAtIInv ==
  ASSUME IInv, NEW o \in Obj, NEW k \in Key, NEW v \in Value, AssignAt(o, k, v)
  PROVE  IInv' /\ OnlyTouches(o)
<1>1. PICK i \in DOMAIN values[o] :
        values' = [values EXCEPT ![o] = [@ EXCEPT ![i] = v]]
  BY DEF AssignAt
<1>. DEFINE vs == [values[o] EXCEPT ![i] = v]
<1>2. vs \in Seq(Value) /\ Len(vs) = Len(values[o])
  BY ColumnsTyped, ExceptColumn
<1>3. keys' = [keys EXCEPT ![o] = keys[o]] /\ values' = [values EXCEPT ![o] = vs]
  BY <1>1 DEF AssignAt, IInv, TypeOK
<1>. QED
  BY <1>2, <1>3, ColumnsTyped, TouchIInv DEF AssignAt

\* A write through an iterator changes one cell of each column, and no length.
LEMMA AssignThroughIteratorIInv ==
  ASSUME IInv, NEW o \in Obj, NEW i \in DOMAIN keys[o], NEW k \in Key, NEW v \in Value,
         AssignThroughIterator(o, i, k, v)
  PROVE  IInv' /\ OnlyTouches(o)
<1>. DEFINE ks == [keys[o] EXCEPT ![i] = k]
            vs == [values[o] EXCEPT ![i] = v]
<1>1. ks \in Seq(Key) /\ Len(ks) = Len(keys[o])
  BY ColumnsTyped, ExceptColumn
<1>2. vs \in Seq(Value) /\ Len(vs) = Len(values[o])
  BY ColumnsTyped, ExceptColumn DEF AssignThroughIterator
<1>3. keys' = [keys EXCEPT ![o] = ks] /\ values' = [values EXCEPT ![o] = vs]
  BY DEF AssignThroughIterator, IInv, TypeOK
<1>. HIDE DEF ks, vs
<1>. QED
  BY <1>1, <1>2, <1>3, ColumnsTyped, TouchIInv DEF AssignThroughIterator

\* Every operation preserves the invariant.
LEMMA NextIInv == IInv /\ [Next]_vars => IInv'
<1>. SUFFICES ASSUME IInv, [Next]_vars PROVE IInv'
  OBVIOUS
<1>1. CASE UNCHANGED vars
  BY <1>1 DEF vars, IInv, TypeOK, Aligned
<1>2. CASE Next
  <2>1. PICK o \in Obj :
          \/ \E k \in Key, v \in Value :
               \/ InsertEnd(o, k, v)
               \/ InsertStart(o, k, v)
               \/ AssignAt(o, k, v)
               \/ \E i \in DOMAIN keys[o] : AssignThroughIterator(o, i, k, v)
          \/ \E c \in Columns : Construct(o, c[1], c[2])
          \/ \E p \in Obj : CopyConstruct(o, p) \/ CopyAssign(o, p) \/ Move(o, p)
    BY <1>2 DEF Next
  <2>. QED
    BY <2>1, InsertEndIInv, InsertStartIInv, AssignAtIInv, AssignThroughIteratorIInv,
       ConstructIInv, CopyConstructIInv, CopyAssignIInv, MoveIInv
<1>. QED
  BY <1>1, <1>2

\* The invariant holds after any sequence of operations, failed ones included.
THEOREM Invariance == Spec => []IInv
BY InitIInv, NextIInv, PTL DEF Spec

\* The columns hold keys and values only.
THEOREM TypeCorrect == Spec => []TypeOK
<1>1. IInv => TypeOK
  BY DEF IInv
<1>. QED
  BY <1>1, Invariance, PTL

\* An object no operation has failed on keeps as many keys as values.
THEOREM ColumnsAligned == Spec => []Aligned
<1>1. IInv => Aligned
  BY DEF IInv
<1>. QED
  BY <1>1, Invariance, PTL
-----------------------------------------------------------------------------
(* Rows of the two columns, under the updates the operations make.         *)

Pair == Key \X Value

\* Columns of one length are a sequence of rows.
LEMMA RowsTyped ==
  ASSUME NEW ks \in Seq(Key), NEW vs \in Seq(Value), Len(ks) = Len(vs)
  PROVE  /\ Rows(ks, vs) \in Seq(Pair)
         /\ Len(Rows(ks, vs)) = Len(ks)
         /\ DOMAIN Rows(ks, vs) = 1..Len(ks)
         /\ \A i \in 1..Len(ks) : Rows(ks, vs)[i] = <<ks[i], vs[i]>>
<1>1. /\ Len(ks) \in Nat /\ DOMAIN ks = 1..Len(ks)
      /\ \A i \in 1..Len(ks) : ks[i] \in Key /\ vs[i] \in Value
  BY LenProperties
<1>2. Rows(ks, vs) \in [1..Len(ks) -> Pair]
  BY <1>1 DEF Rows, Pair
<1>3. Rows(ks, vs) \in Seq(Pair)
  BY <1>1, <1>2, SeqDef
<1>4. DOMAIN Rows(ks, vs) = 1..Len(ks)
  BY <1>2
<1>5. Len(Rows(ks, vs)) = Len(ks)
  BY <1>1, <1>3, <1>4, LenProperties
<1>. QED
  BY <1>1, <1>3, <1>4, <1>5 DEF Rows

\* The rows of two columns are known by their cells.
LEMMA RowsAre ==
  ASSUME NEW ks \in Seq(Key), NEW vs \in Seq(Value), Len(ks) = Len(vs),
         NEW rows \in Seq(Pair), Len(rows) = Len(ks),
         \A i \in 1..Len(ks) : rows[i] = <<ks[i], vs[i]>>
  PROVE  Rows(ks, vs) = rows
<1>. DEFINE these == Rows(ks, vs)
<1>1. /\ these \in Seq(Pair) /\ Len(these) = Len(ks)
      /\ \A i \in 1..Len(ks) : these[i] = <<ks[i], vs[i]>>
  BY RowsTyped
<1>. HIDE DEF these
<1>2. these = rows
  BY <1>1, SeqEqual
<1>. QED
  BY <1>2 DEF these

\* Appending to both columns appends a row.
LEMMA RowsAppend ==
  ASSUME NEW ks \in Seq(Key), NEW vs \in Seq(Value), Len(ks) = Len(vs),
         NEW k \in Key, NEW v \in Value
  PROVE  Rows(Append(ks, k), Append(vs, v)) = Append(Rows(ks, vs), <<k, v>>)
<1>. DEFINE old  == Rows(ks, vs)
            ks2  == Append(ks, k)
            vs2  == Append(vs, v)
            rows == Append(old, <<k, v>>)
<1>1. /\ Len(ks) \in Nat /\ old \in Seq(Pair) /\ Len(old) = Len(ks)
      /\ \A i \in 1..Len(ks) : old[i] = <<ks[i], vs[i]>>
      /\ <<k, v>> \in Pair
  BY RowsTyped, LenProperties DEF Pair
<1>. HIDE DEF old
<1>2. /\ ks2 \in Seq(Key) /\ Len(ks2) = Len(ks) + 1 /\ ks2[Len(ks) + 1] = k
      /\ \A i \in 1..Len(ks) : ks2[i] = ks[i]
  BY AppendProperties
<1>3. /\ vs2 \in Seq(Value) /\ Len(vs2) = Len(ks) + 1 /\ vs2[Len(ks) + 1] = v
      /\ \A i \in 1..Len(ks) : vs2[i] = vs[i]
  BY AppendProperties
<1>4. /\ rows \in Seq(Pair) /\ Len(rows) = Len(ks) + 1 /\ rows[Len(ks) + 1] = <<k, v>>
      /\ \A i \in 1..Len(ks) : rows[i] = old[i]
  BY <1>1, AppendProperties
<1>. HIDE DEF ks2, vs2, rows
<1>5. \A i \in 1..Len(ks2) : i \in 1..Len(ks) \/ i = Len(ks) + 1
  BY <1>1, <1>2
<1>6. \A i \in 1..Len(ks2) : rows[i] = <<ks2[i], vs2[i]>>
  BY <1>1, <1>2, <1>3, <1>4, <1>5
<1>7. Rows(ks2, vs2) = rows
  BY <1>2, <1>3, <1>4, <1>6, RowsAre
<1>. QED
  BY <1>7 DEF ks2, vs2, rows, old

\* Prepending to both columns prepends a row.
LEMMA RowsPrepend ==
  ASSUME NEW ks \in Seq(Key), NEW vs \in Seq(Value), Len(ks) = Len(vs),
         NEW k \in Key, NEW v \in Value
  PROVE  Rows(<<k>> \o ks, <<v>> \o vs) = <<<<k, v>>>> \o Rows(ks, vs)
<1>. DEFINE old  == Rows(ks, vs)
            ks2  == <<k>> \o ks
            vs2  == <<v>> \o vs
            rows == <<<<k, v>>>> \o old
<1>1. /\ Len(ks) \in Nat /\ old \in Seq(Pair) /\ Len(old) = Len(ks)
      /\ \A i \in 1..Len(ks) : old[i] = <<ks[i], vs[i]>>
      /\ <<k, v>> \in Pair
  BY RowsTyped, LenProperties DEF Pair
<1>. HIDE DEF old
<1>2. /\ ks2 \in Seq(Key) /\ Len(ks2) = Len(ks) + 1 /\ ks2[1] = k
      /\ \A i \in 1..Len(ks) : ks2[i + 1] = ks[i]
  BY PrependCells
<1>3. /\ vs2 \in Seq(Value) /\ Len(vs2) = Len(ks) + 1 /\ vs2[1] = v
      /\ \A i \in 1..Len(ks) : vs2[i + 1] = vs[i]
  BY PrependCells
<1>4. /\ rows \in Seq(Pair) /\ Len(rows) = Len(ks) + 1 /\ rows[1] = <<k, v>>
      /\ \A i \in 1..Len(ks) : rows[i + 1] = old[i]
  BY <1>1, PrependCells
<1>. HIDE DEF ks2, vs2, rows
<1>5. \A i \in 1..Len(ks2) : i = 1 \/ \E h \in 1..Len(ks) : i = h + 1
  <2>1. \A i \in 1..(Len(ks) + 1) : i = 1 \/ (i - 1 \in 1..Len(ks) /\ i = (i - 1) + 1)
    BY <1>1
  <2>. QED
    BY <1>2, <2>1
<1>6. ASSUME NEW i \in 1..Len(ks2) PROVE rows[i] = <<ks2[i], vs2[i]>>
  <2>1. CASE i = 1
    BY <2>1, <1>2, <1>3, <1>4
  <2>2. ASSUME NEW h \in 1..Len(ks), i = h + 1 PROVE rows[i] = <<ks2[i], vs2[i]>>
    <3>1. rows[h + 1] = old[h] /\ ks2[h + 1] = ks[h] /\ vs2[h + 1] = vs[h]
      BY <1>2, <1>3, <1>4
    <3>. QED
      BY <3>1, <2>2, <1>1
  <2>. QED
    BY <2>1, <2>2, <1>5
<1>7. Rows(ks2, vs2) = rows
  BY <1>2, <1>3, <1>4, <1>6, RowsAre
<1>. QED
  BY <1>7 DEF ks2, vs2, rows, old

-----------------------------------------------------------------------------
(* The refinement. *)

Mapped == [o \in Obj |-> SeriesOf(o)]

\* An operation on o changes the rows of no other object.
LEMMA OnlyOneChanges ==
  ASSUME NEW o \in Obj, OnlyTouches(o)
  PROVE  Mapped' = [Mapped EXCEPT ![o] = SeriesOf(o)']
<1>1. \A p \in Obj \ {o} : SeriesOf(p)' = SeriesOf(p)
  BY DEF OnlyTouches, SeriesOf
<1>. QED
  BY <1>1 DEF Mapped

\* A broken object is spoiled, and stays so until it is given new columns.
LEMMA BecomesSpoiled ==
  ASSUME NEW o \in Obj, OnlyTouches(o), broken' = broken \cup {o}
  PROVE  Abstract!Spoil(o)
<1>1. SeriesOf(o)' = <<>>
  BY DEF SeriesOf
<1>. QED
  BY <1>1, OnlyOneChanges DEF Abstract!Spoil, Mapped

\* Inserting into a broken object, or writing to it, does not mend it.
LEMMA StaysSpoiled ==
  ASSUME NEW o \in broken, o \in Obj, OnlyTouches(o), UNCHANGED broken
  PROVE  UNCHANGED Abstract!abstractVars
<1>1. SeriesOf(o)' = <<>> /\ SeriesOf(o) = <<>>
  BY DEF SeriesOf
<1>2. Mapped' = [Mapped EXCEPT ![o] = <<>>] /\ Mapped[o] = <<>>
  BY <1>1, OnlyOneChanges DEF Mapped
<1>3. Mapped' = Mapped
  BY <1>2 DEF Mapped
<1>. QED
  BY <1>3 DEF Mapped, Abstract!abstractVars

\* insert_end adds a last row, or spoils the object.
LEMMA InsertEndSimulates ==
  ASSUME IInv, NEW o \in Obj, NEW k \in Key, NEW v \in Value, InsertEnd(o, k, v)
  PROVE  [Abstract!AbstractNext]_(Abstract!abstractVars)
<1>1. OnlyTouches(o)
  BY InsertEndIInv
<1>2. CASE UNCHANGED broken /\ o \in broken
  BY <1>1, <1>2, StaysSpoiled
<1>3. CASE broken' = broken \cup {o}
  BY <1>1, <1>3, BecomesSpoiled DEF Abstract!AbstractNext
<1>4. CASE /\ UNCHANGED broken /\ o \notin broken
           /\ values' = [values EXCEPT ![o] = Append(values[o], v)]
  <2>1. keys'[o] = Append(keys[o], k) /\ values'[o] = Append(values[o], v)
    BY <1>4 DEF InsertEnd, Insert, IInv, TypeOK
  <2>2. SeriesOf(o)' = Append(SeriesOf(o), <<k, v>>)
    <3>1. /\ keys[o] \in Seq(Key) /\ values[o] \in Seq(Value)
          /\ Len(keys[o]) = Len(values[o])
      BY <1>4, ColumnsTyped
    <3>2. Rows(Append(keys[o], k), Append(values[o], v))
            = Append(Rows(keys[o], values[o]), <<k, v>>)
      BY <3>1, RowsAppend
    <3>3. /\ SeriesOf(o) = Rows(keys[o], values[o])
          /\ SeriesOf(o)' = Rows(Append(keys[o], k), Append(values[o], v))
      BY <1>4, <2>1 DEF SeriesOf
    <3>. QED
      BY <3>2, <3>3
  <2>3. Mapped' = [Mapped EXCEPT ![o] = Append(Mapped[o], <<k, v>>)]
    BY <1>1, <2>2, OnlyOneChanges DEF Mapped
  <2>4. Abstract!AddLast(o, k, v)
    BY <1>4, <2>3 DEF Abstract!AddLast, Mapped
  <2>. QED
    BY <2>4 DEF Abstract!AbstractNext
<1>. QED
  BY <1>2, <1>3, <1>4 DEF InsertEnd, Insert

\* insert_start adds a first row, or spoils the object.
LEMMA InsertStartSimulates ==
  ASSUME IInv, NEW o \in Obj, NEW k \in Key, NEW v \in Value, InsertStart(o, k, v)
  PROVE  [Abstract!AbstractNext]_(Abstract!abstractVars)
<1>1. OnlyTouches(o)
  BY InsertStartIInv
<1>2. CASE UNCHANGED broken /\ o \in broken
  BY <1>1, <1>2, StaysSpoiled
<1>3. CASE broken' = broken \cup {o}
  BY <1>1, <1>3, BecomesSpoiled DEF Abstract!AbstractNext
<1>4. CASE /\ UNCHANGED broken /\ o \notin broken
           /\ values' = [values EXCEPT ![o] = <<v>> \o values[o]]
  <2>1. keys'[o] = <<k>> \o keys[o] /\ values'[o] = <<v>> \o values[o]
    BY <1>4 DEF InsertStart, Insert, IInv, TypeOK
  <2>2. SeriesOf(o)' = <<<<k, v>>>> \o SeriesOf(o)
    <3>1. /\ keys[o] \in Seq(Key) /\ values[o] \in Seq(Value)
          /\ Len(keys[o]) = Len(values[o])
      BY <1>4, ColumnsTyped
    <3>2. Rows(<<k>> \o keys[o], <<v>> \o values[o])
            = <<<<k, v>>>> \o Rows(keys[o], values[o])
      BY <3>1, RowsPrepend
    <3>3. /\ SeriesOf(o) = Rows(keys[o], values[o])
          /\ SeriesOf(o)' = Rows(<<k>> \o keys[o], <<v>> \o values[o])
      BY <1>4, <2>1 DEF SeriesOf
    <3>. QED
      BY <3>2, <3>3
  <2>3. Mapped' = [Mapped EXCEPT ![o] = <<<<k, v>>>> \o Mapped[o]]
    BY <1>1, <2>2, OnlyOneChanges DEF Mapped
  <2>4. Abstract!AddFirst(o, k, v)
    BY <1>4, <2>3 DEF Abstract!AddFirst, Mapped
  <2>. QED
    BY <2>4 DEF Abstract!AbstractNext
<1>. QED
  BY <1>2, <1>3, <1>4 DEF InsertStart, Insert

\* The constructor builds the rows it is given, or a spoiled object.
LEMMA ConstructSimulates ==
  ASSUME IInv, NEW o \in Obj, NEW c \in Columns, Construct(o, c[1], c[2])
  PROVE  [Abstract!AbstractNext]_(Abstract!abstractVars)
<1>1. OnlyTouches(o)
  BY ConstructIInv
<1>2. CASE Len(c[1]) # Len(c[2])
  <2>1. Abstract!Spoil(o)
    BY <1>1, <1>2, BecomesSpoiled DEF Construct, BrokenAfterBuild
  <2>. QED
    BY <2>1 DEF Abstract!AbstractNext
<1>3. CASE Len(c[1]) = Len(c[2])
  <2>1. keys'[o] = c[1] /\ values'[o] = c[2] /\ broken' = broken \ {o}
    BY <1>3 DEF Construct, BrokenAfterBuild, IInv, TypeOK
  <2>2. SeriesOf(o)' = Rows(c[1], c[2])
    BY <2>1 DEF SeriesOf
  <2>3. Abstract!Build(o, Rows(c[1], c[2]))
    BY <1>1, <2>1, <2>2, OnlyOneChanges DEF Abstract!Build, Mapped
  <2>4. c \in Level
    BY <1>3 DEF Level
  <2>. QED
    BY <2>3, <2>4 DEF Abstract!AbstractNext
<1>. QED
  BY <1>2, <1>3

\* o has been given the columns of p.
LEMMA CopySimulates ==
  ASSUME IInv, NEW o \in Obj, NEW p \in Obj, o # p,
         keys' = [keys EXCEPT ![o] = keys[p]],
         values' = [values EXCEPT ![o] = values[p]],
         broken' = BrokenAfterCopy(o, p),
         OnlyTouches(o)
  PROVE  [Abstract!AbstractNext]_(Abstract!abstractVars)
<1>1. keys'[o] = keys[p] /\ values'[o] = values[p]
  BY DEF IInv, TypeOK
<1>2. CASE p \in broken
  <2>1. Abstract!Spoil(o)
    BY <1>2, BecomesSpoiled DEF BrokenAfterCopy
  <2>2. Abstract!Copy(o, p)
    BY <1>2, <2>1 DEF Abstract!Copy
  <2>. QED
    BY <2>2 DEF Abstract!AbstractNext
<1>3. CASE p \notin broken
  <2>1. broken' = broken \ {o}
    BY <1>3 DEF BrokenAfterCopy
  <2>2. SeriesOf(o)' = SeriesOf(p)
    BY <1>1, <1>3, <2>1 DEF SeriesOf
  <2>3. Abstract!Build(o, Mapped[p])
    BY <2>1, <2>2, OnlyOneChanges DEF Abstract!Build, Mapped
  <2>4. Abstract!Copy(o, p)
    BY <1>3, <2>3 DEF Abstract!Copy, Mapped
  <2>. QED
    BY <2>4 DEF Abstract!AbstractNext
<1>. QED
  BY <1>2, <1>3

\* Copy construction copies the rows.
LEMMA CopyConstructSimulates ==
  ASSUME IInv, NEW o \in Obj, NEW p \in Obj, CopyConstruct(o, p)
  PROVE  [Abstract!AbstractNext]_(Abstract!abstractVars)
BY CopyConstructIInv, CopySimulates DEF CopyConstruct

\* Copy assignment copies the rows, or spoils its target.
LEMMA CopyAssignSimulates ==
  ASSUME IInv, NEW o \in Obj, NEW p \in Obj, CopyAssign(o, p)
  PROVE  [Abstract!AbstractNext]_(Abstract!abstractVars)
<1>1. OnlyTouches(o)
  BY CopyAssignIInv
<1>2. CASE keys' = [keys EXCEPT ![o] = keys[p]] /\ broken' = BrokenAfterCopy(o, p)
  BY <1>1, <1>2, CopySimulates DEF CopyAssign
<1>3. CASE broken' = broken \cup {o}
  BY <1>1, <1>3, BecomesSpoiled DEF Abstract!AbstractNext
<1>. QED
  BY <1>2, <1>3 DEF CopyAssign

\* A move takes the rows and leaves none.
LEMMA MoveSimulates ==
  ASSUME IInv, NEW o \in Obj, NEW p \in Obj, Move(o, p)
  PROVE  [Abstract!AbstractNext]_(Abstract!abstractVars)
<1>1. /\ o # p
      /\ keys \in [Obj -> Seq(Key)] /\ values \in [Obj -> Seq(Value)]
      /\ keys' = [keys EXCEPT ![o] = keys[p], ![p] = <<>>]
      /\ values' = [values EXCEPT ![o] = values[p], ![p] = <<>>]
      /\ broken' = BrokenAfterCopy(o, p) \ {p}
  BY DEF Move, IInv, TypeOK
<1>2. SeriesOf(p)' = <<>>
  <2>1. keys'[p] = <<>> /\ p \notin broken'
    BY <1>1
  <2>. QED
    BY <2>1 DEF SeriesOf, Rows
<1>3. SeriesOf(o)' = SeriesOf(p)
  <2>1. keys'[o] = keys[p] /\ values'[o] = values[p] /\ (o \in broken' <=> p \in broken)
    BY <1>1 DEF BrokenAfterCopy
  <2>. QED
    BY <2>1 DEF SeriesOf
<1>4. ASSUME NEW q \in Obj, q # o, q # p PROVE SeriesOf(q)' = SeriesOf(q)
  <2>1. keys'[q] = keys[q] /\ values'[q] = values[q] /\ (q \in broken' <=> q \in broken)
    BY <1>1, <1>4 DEF BrokenAfterCopy
  <2>. QED
    BY <2>1 DEF SeriesOf
<1>5. Mapped' = [Mapped EXCEPT ![o] = Mapped[p], ![p] = <<>>]
  BY <1>1, <1>2, <1>3, <1>4 DEF Mapped
<1>6. Abstract!Take(o, p)
  BY <1>1, <1>5 DEF Abstract!Take, Mapped, BrokenAfterCopy
<1>. QED
  BY <1>6 DEF Abstract!AbstractNext

\* A write through at() replaces the value of one row.
LEMMA AssignAtSimulates ==
  ASSUME IInv, NEW o \in Obj, NEW k \in Key, NEW v \in Value, AssignAt(o, k, v)
  PROVE  [Abstract!AbstractNext]_(Abstract!abstractVars)
<1>1. OnlyTouches(o) /\ UNCHANGED broken /\ UNCHANGED keys
  BY AssignAtIInv DEF AssignAt
<1>2. CASE o \in broken
  BY <1>1, <1>2, StaysSpoiled
<1>3. CASE o \notin broken
  <2>1. PICK i \in Locate(keys[o], k) \cap DOMAIN values[o] :
          values' = [values EXCEPT ![o] = [@ EXCEPT ![i] = v]]
    BY DEF AssignAt
  <2>2. /\ i \in 1..Len(keys[o]) /\ i \in DOMAIN keys[o]
        /\ values'[o] = [values[o] EXCEPT ![i] = v]
    BY <2>1, ColumnsTyped, LenProperties DEF Locate, IInv, TypeOK
  <2>3. /\ keys[o] \in Seq(Key) /\ values[o] \in Seq(Value)
        /\ Len(keys[o]) = Len(values[o])
    BY <1>3, ColumnsTyped
  <2>4. /\ SeriesOf(o) = Rows(keys[o], values[o])
        /\ SeriesOf(o)' = Rows(keys[o], [values[o] EXCEPT ![i] = v])
    BY <1>1, <1>3, <2>2 DEF SeriesOf
  <2>5. keys[o][i] \in Key
    BY <2>2, <2>3
  <2>6. /\ SeriesOf(o)' = [SeriesOf(o) EXCEPT ![i] = <<keys[o][i], v>>]
        /\ SeriesOf(o)[i][1] = keys[o][i]
        /\ i \in DOMAIN SeriesOf(o)
    <3>1. Rows(keys[o], [values[o] EXCEPT ![i] = v])
            = [Rows(keys[o], values[o]) EXCEPT ![i] = <<keys[o][i], v>>]
      <4>1. /\ DOMAIN keys[o] = 1..Len(keys[o]) /\ DOMAIN values[o] = 1..Len(keys[o])
            /\ keys[o] = [keys[o] EXCEPT ![i] = keys[o][i]]
        BY <2>2, <2>3, LenProperties
      <4>. QED
        BY <2>2, <4>1 DEF Rows
    <3>2. /\ Rows(keys[o], values[o])[i] = <<keys[o][i], values[o][i]>>
          /\ DOMAIN Rows(keys[o], values[o]) = 1..Len(keys[o])
      BY <2>2, <2>3, RowsTyped
    <3>. QED
      BY <2>2, <2>4, <3>1, <3>2
  <2>7. /\ Mapped' = [Mapped EXCEPT ![o] = [Mapped[o] EXCEPT ![i] = <<Mapped[o][i][1], v>>]]
        /\ i \in DOMAIN Mapped[o]
    BY <1>1, <2>6, OnlyOneChanges DEF Mapped
  <2>8. Abstract!SetValue(o, i, v)
    BY <1>1, <1>3, <2>7 DEF Abstract!SetValue, Abstract!SetRow, Mapped
  <2>. QED
    BY <2>7, <2>8 DEF Abstract!AbstractNext, Mapped
<1>. QED
  BY <1>2, <1>3

\* A write through an iterator replaces one row.
LEMMA AssignThroughIteratorSimulates ==
  ASSUME IInv, NEW o \in Obj, NEW i \in DOMAIN keys[o], NEW k \in Key, NEW v \in Value,
         AssignThroughIterator(o, i, k, v)
  PROVE  [Abstract!AbstractNext]_(Abstract!abstractVars)
<1>1. OnlyTouches(o) /\ UNCHANGED broken
  BY AssignThroughIteratorIInv DEF AssignThroughIterator
<1>2. CASE o \in broken
  BY <1>1, <1>2, StaysSpoiled
<1>3. CASE o \notin broken
  <2>1. /\ keys[o] \in Seq(Key) /\ values[o] \in Seq(Value)
        /\ Len(keys[o]) = Len(values[o])
        /\ i \in 1..Len(keys[o])
    BY <1>3, ColumnsTyped, LenProperties
  <2>2. /\ keys'[o] = [keys[o] EXCEPT ![i] = k]
        /\ values'[o] = [values[o] EXCEPT ![i] = v]
    BY DEF AssignThroughIterator, IInv, TypeOK
  <2>3. /\ SeriesOf(o) = Rows(keys[o], values[o])
        /\ SeriesOf(o)' = Rows([keys[o] EXCEPT ![i] = k], [values[o] EXCEPT ![i] = v])
    BY <1>1, <1>3, <2>2 DEF SeriesOf
  <2>4. /\ SeriesOf(o)' = [SeriesOf(o) EXCEPT ![i] = <<k, v>>]
        /\ i \in DOMAIN SeriesOf(o)
    <3>1. Rows([keys[o] EXCEPT ![i] = k], [values[o] EXCEPT ![i] = v])
            = [Rows(keys[o], values[o]) EXCEPT ![i] = <<k, v>>]
      <4>1. DOMAIN keys[o] = 1..Len(keys[o]) /\ DOMAIN values[o] = 1..Len(keys[o])
        BY <2>1, LenProperties
      <4>. QED
        BY <2>1, <4>1 DEF Rows
    <3>2. DOMAIN Rows(keys[o], values[o]) = 1..Len(keys[o])
      BY <2>1, RowsTyped
    <3>. QED
      BY <2>1, <2>3, <3>1, <3>2
  <2>5. /\ Mapped' = [Mapped EXCEPT ![o] = [Mapped[o] EXCEPT ![i] = <<k, v>>]]
        /\ i \in DOMAIN Mapped[o]
    BY <1>1, <2>4, OnlyOneChanges DEF Mapped
  <2>6. Abstract!SetRow(o, i, k, v)
    BY <1>1, <1>3, <2>5 DEF Abstract!SetRow, Mapped
  <2>. QED
    BY <2>5, <2>6 DEF Abstract!AbstractNext, Mapped
<1>. QED
  BY <1>2, <1>3

\* Every step of the two columns is a step of the rows, or changes no row.
LEMMA StepSimulates ==
  IInv /\ [Next]_vars => [Abstract!AbstractNext]_(Abstract!abstractVars)
<1>. SUFFICES ASSUME IInv, [Next]_vars
              PROVE  [Abstract!AbstractNext]_(Abstract!abstractVars)
  OBVIOUS
<1>1. CASE UNCHANGED vars
  BY <1>1 DEF vars, Abstract!abstractVars, SeriesOf
<1>2. CASE Next
  <2>1. PICK o \in Obj :
          \/ \E k \in Key, v \in Value :
               \/ InsertEnd(o, k, v)
               \/ InsertStart(o, k, v)
               \/ AssignAt(o, k, v)
               \/ \E i \in DOMAIN keys[o] : AssignThroughIterator(o, i, k, v)
          \/ \E c \in Columns : Construct(o, c[1], c[2])
          \/ \E p \in Obj : CopyConstruct(o, p) \/ CopyAssign(o, p) \/ Move(o, p)
    BY <1>2 DEF Next
  <2>. QED
    BY <2>1, InsertEndSimulates, InsertStartSimulates, AssignAtSimulates,
       AssignThroughIteratorSimulates, ConstructSimulates, CopyConstructSimulates,
       CopyAssignSimulates, MoveSimulates
<1>. QED
  BY <1>1, <1>2

\* The container implements the abstract series: whatever fails, every object
\* either is a sequence of rows that only whole operations change, or is spoiled.
THEOREM Refinement == Spec => ImplementsSeries
<1>1. Init => Abstract!AbstractInit
  BY DEF Init, Abstract!AbstractInit, SeriesOf, Rows
<1>. QED
  BY <1>1, StepSimulates, Invariance, PTL DEF Spec, ImplementsSeries, Abstract!AbstractSpec
-----------------------------------------------------------------------------
(* The memory of the columns. *)

MemoryTyped ==
  /\ keyRoom \in [Obj -> Nat] /\ valueRoom \in [Obj -> Nat]
  /\ promised \in [Obj -> Nat]
  /\ keyHalf \in Obj \cup {Gone} /\ valueHalf \in Obj \cup {Gone}
  /\ at \in Nat \ {0}
  /\ regular \in BOOLEAN

\* The columns of o and the rows reserved for it fit into its memory.
FitsIn(o) ==
  /\ Len(keys[o]) <= keyRoom[o] /\ Len(values[o]) <= valueRoom[o]
  /\ promised[o] <= keyRoom[o] /\ promised[o] <= valueRoom[o]

\* The halves that point into o point to a cell of it.
PointsInto(o) ==
  /\ keyHalf = o => at <= Len(keys[o])
  /\ valueHalf = o => at <= Len(values[o])

\* The two vectors of every series have been treated alike.
InStep ==
  regular => broken = {} /\ keyRoom = valueRoom /\ keyHalf = valueHalf

MemoryInv ==
  /\ IInv
  /\ MemoryTyped
  /\ \A o \in Obj : FitsIn(o) /\ PointsInto(o)
  /\ InStep

\* What an operation on o leaves alone: the memory of every other object.
OnlyMemoryOf(o) ==
  \A p \in Obj \ {o} :
    /\ keyRoom'[p] = keyRoom[p]
    /\ valueRoom'[p] = valueRoom[p]
    /\ promised'[p] = promised[p]

\* No half of the iterator comes to point elsewhere, though it may be lost.
OnlyLost ==
  /\ keyHalf' \in {keyHalf, Gone}
  /\ valueHalf' \in {valueHalf, Gone}
  /\ at' = at

-----------------------------------------------------------------------------
\* The lengths of the two columns are numbers, and the same unless o is broken.
LEMMA Lengths ==
  ASSUME IInv, NEW o \in Obj
  PROVE  /\ Len(keys[o]) \in Nat /\ Len(values[o]) \in Nat
         /\ DOMAIN keys[o] = 1..Len(keys[o]) /\ DOMAIN values[o] = 1..Len(values[o])
         /\ o \notin broken => Len(keys[o]) = Len(values[o])
<1>1. keys[o] \in Seq(Key) /\ values[o] \in Seq(Value)
  BY ColumnsTyped
<1>. QED
  BY <1>1, ColumnsTyped, LenProperties

\* Series that have just been constructed have no memory.
LEMMA InitMemory == RefInit => MemoryInv
<1>. SUFFICES ASSUME RefInit PROVE MemoryInv
  OBVIOUS
<1>1. IInv
  BY InitIInv DEF RefInit
<1>2. MemoryTyped
  BY DEF RefInit, MemoryTyped
<1>3. \A o \in Obj : Len(keys[o]) = 0 /\ Len(values[o]) = 0
  BY EmptySeq DEF RefInit, Init
<1>4. \A o \in Obj : FitsIn(o)
  BY <1>3 DEF RefInit, FitsIn
<1>5. \A o \in Obj : PointsInto(o)
  BY GoneAssumption DEF RefInit, PointsInto
<1>6. InStep
  BY DEF RefInit, Init, InStep
<1>. QED
  BY <1>1, <1>2, <1>4, <1>5, <1>6 DEF MemoryInv

\* An operation on o keeps the invariant if o still fits, what still points into o
\* points to a cell, and the vectors of o were treated alike.
LEMMA OneObject ==
  ASSUME MemoryInv, NEW o \in Obj, IInv', OnlyTouches(o),
         MemoryTyped', OnlyMemoryOf(o), OnlyLost, FitsIn(o)', PointsInto(o)', InStep'
  PROVE  MemoryInv'
<1>1. ASSUME NEW p \in Obj \ {o} PROVE FitsIn(p)' /\ PointsInto(p)'
  <2>1. FitsIn(p) /\ PointsInto(p)
    BY DEF MemoryInv
  <2>2. keys'[p] = keys[p] /\ values'[p] = values[p]
    BY DEF OnlyTouches
  <2>3. FitsIn(p)'
    BY <2>1, <2>2 DEF FitsIn, OnlyMemoryOf
  <2>4. PointsInto(p)'
    BY <2>1, <2>2, GoneAssumption DEF PointsInto, OnlyLost
  <2>. QED
    BY <2>3, <2>4
<1>2. \A p \in Obj : FitsIn(p)' /\ PointsInto(p)'
  BY <1>1
<1>. QED
  BY <1>2 DEF MemoryInv

\* The values that the operators for capacities and halves take.
LEMMA Operators ==
  /\ \A m, n \in Nat : Greater(m, n) \in Nat /\ Greater(m, n) >= m /\ Greater(m, n) >= n
  /\ \A b \in BOOLEAN : \A h, o : /\ Unless(b, h, o) \in {h, Gone}
                                  /\ b => Unless(b, h, o) # o \/ o = Gone
                                  /\ ~b => Unless(b, h, o) = h
BY DEF Greater, Unless

-----------------------------------------------------------------------------
(* The operations, one by one. *)

\* What the invariant says of the memory of one object.
LEMMA Before ==
  ASSUME MemoryInv, NEW o \in Obj
  PROVE  /\ keyRoom[o] \in Nat /\ valueRoom[o] \in Nat /\ promised[o] \in Nat
         /\ at \in Nat \ {0}
         /\ FitsIn(o) /\ PointsInto(o)
BY DEF MemoryInv, MemoryTyped

\* An insertion that succeeds makes both columns longer by one, one that fails only
\* the keys.
LEMMA InsertLengths ==
  ASSUME MemoryInv, NEW o \in Obj, NEW ks \in Seq(Key), NEW vs \in Seq(Value),
         Len(ks) = Len(keys[o]) + 1, Len(vs) = Len(values[o]) + 1,
         Insert(o, ks, vs)
  PROVE  /\ Len(keys'[o]) = Len(keys[o]) + 1
         /\ values' = values => Len(values'[o]) = Len(values[o]) /\ broken' = broken \cup {o}
         /\ values' # values => Len(values'[o]) = Len(values[o]) + 1 /\ broken' = broken
<1>1. IInv /\ keys \in [Obj -> Seq(Key)] /\ values \in [Obj -> Seq(Value)]
  BY DEF MemoryInv, IInv, TypeOK
<1>2. keys'[o] = ks
  BY <1>1 DEF Insert
<1>3. Len(values[o]) \in Nat
  BY <1>1, Lengths
<1>4. CASE values' = [values EXCEPT ![o] = vs] /\ UNCHANGED broken
  <2>1. values'[o] = vs
    BY <1>1, <1>4
  <2>2. values' # values
    BY <1>3, <2>1
  <2>. QED
    BY <1>2, <1>4, <2>1, <2>2
<1>5. CASE UNCHANGED values /\ broken' = broken \cup {o}
  BY <1>2, <1>5
<1>. QED
  BY <1>4, <1>5 DEF Insert

\* An insertion keeps the columns in their memory.
LEMMA InsertMemoryInv ==
  ASSUME MemoryInv, IInv', NEW o \in Obj, NEW atBegin \in BOOLEAN, OnlyTouches(o),
         InsertMemory(o, atBegin),
         Len(keys'[o]) = Len(keys[o]) + 1,
         values' = values => Len(values'[o]) = Len(values[o]) /\ broken' = broken \cup {o},
         values' # values => Len(values'[o]) = Len(values[o]) + 1 /\ broken' = broken
  PROVE  MemoryInv'
<1>. DEFINE failed == values' = values
            kl     == Len(keys[o])
            vl     == Len(values[o])
<1>1. /\ keyRoom \in [Obj -> Nat] /\ valueRoom \in [Obj -> Nat]
      /\ promised \in [Obj -> Nat]
      /\ kl \in Nat /\ vl \in Nat
      /\ FitsIn(o) /\ PointsInto(o)
  BY Before, Lengths DEF MemoryInv, MemoryTyped
<1>2. /\ Grown(keyRoom[o], kl) \in Nat
      /\ Grown(keyRoom[o], kl) >= kl + 1 /\ Grown(keyRoom[o], kl) >= keyRoom[o]
      /\ Grown(valueRoom[o], vl) \in Nat
      /\ Grown(valueRoom[o], vl) >= vl + 1 /\ Grown(valueRoom[o], vl) >= valueRoom[o]
  <2>1. kl <= keyRoom[o] /\ vl <= valueRoom[o] /\ keyRoom[o] \in Nat /\ valueRoom[o] \in Nat
    BY <1>1 DEF FitsIn
  <2>. HIDE DEF kl, vl
  <2>2. kl \in Nat /\ vl \in Nat
    BY <1>1
  <2>3. Grown(keyRoom[o], kl) \in Nat /\ Grown(keyRoom[o], kl) > kl
        /\ Grown(keyRoom[o], kl) >= keyRoom[o]
    BY <2>1, <2>2 DEF Grown, Greater
  <2>4. Grown(valueRoom[o], vl) \in Nat /\ Grown(valueRoom[o], vl) > vl
        /\ Grown(valueRoom[o], vl) >= valueRoom[o]
    BY <2>1, <2>2 DEF Grown, Greater
  <2>. QED
    BY <2>2, <2>3, <2>4
<1>3. /\ keyRoom' = [keyRoom EXCEPT ![o] = Grown(@, kl)]
      /\ keyHalf' = Unless(atBegin \/ kl = keyRoom[o], keyHalf, o)
      /\ failed => UNCHANGED <<valueRoom, valueHalf>>
      /\ ~failed => /\ valueRoom' = [valueRoom EXCEPT ![o] = Grown(@, vl)]
                    /\ valueHalf' = Unless(atBegin \/ vl = valueRoom[o], valueHalf, o)
      /\ regular' = (regular /\ ~failed)
      /\ UNCHANGED <<at, promised>>
  BY DEF InsertMemory
<1>4. /\ keyRoom' \in [Obj -> Nat] /\ valueRoom' \in [Obj -> Nat]
      /\ keyRoom'[o] = Grown(keyRoom[o], kl)
      /\ valueRoom'[o] = IF failed THEN valueRoom[o] ELSE Grown(valueRoom[o], vl)
  BY <1>1, <1>2, <1>3
<1>5. OnlyMemoryOf(o)
  BY <1>1, <1>3 DEF OnlyMemoryOf
<1>6. OnlyLost
  BY <1>3, Operators DEF OnlyLost
<1>7. MemoryTyped'
  BY <1>3, <1>4, <1>6 DEF MemoryTyped, MemoryInv, OnlyLost
<1>8. FitsIn(o)'
  BY <1>1, <1>2, <1>3, <1>4 DEF FitsIn
<1>9. PointsInto(o)'
  <2>1. at \in Nat /\ (keyHalf = o => at <= kl) /\ (valueHalf = o => at <= vl)
    BY <1>1, Before DEF PointsInto
  <2>2. (keyHalf' = o => keyHalf = o) /\ (valueHalf' = o => valueHalf = o)
    BY <1>6, GoneAssumption DEF OnlyLost
  <2>3. Len(keys'[o]) = kl + 1 /\ Len(values'[o]) \in {vl, vl + 1}
    OBVIOUS
  <2>. QED
    BY <1>1, <1>3, <2>1, <2>2, <2>3 DEF PointsInto
<1>10. InStep'
  <2>. SUFFICES ASSUME regular'
                PROVE  broken' = {} /\ keyRoom' = valueRoom'
                       /\ keyHalf' = valueHalf'
    BY DEF InStep
  <2>1. regular /\ ~failed
    BY <1>3
  <2>2. broken = {} /\ keyRoom = valueRoom /\ keyHalf = valueHalf
    BY <2>1 DEF MemoryInv, InStep
  <2>3. kl = vl
    BY <2>2, Lengths DEF MemoryInv
  <2>. QED
    BY <1>3, <2>1, <2>2, <2>3
<1>. QED
  BY <1>5, <1>6, <1>7, <1>8, <1>9, <1>10, OneObject

\* insert_end.
LEMMA RefInsertEndInv ==
  ASSUME MemoryInv, NEW o \in Obj, NEW k \in Key, NEW v \in Value, RefInsertEnd(o, k, v)
  PROVE  MemoryInv'
<1>. DEFINE ks == Append(keys[o], k)
            vs == Append(values[o], v)
<1>1. IInv /\ InsertEnd(o, k, v) /\ InsertMemory(o, FALSE)
  BY DEF MemoryInv, RefInsertEnd
<1>2. /\ ks \in Seq(Key) /\ vs \in Seq(Value)
      /\ Len(ks) = Len(keys[o]) + 1 /\ Len(vs) = Len(values[o]) + 1
  BY <1>1, ColumnsTyped, AppendColumns
<1>3. Insert(o, ks, vs)
  BY <1>1 DEF InsertEnd
<1>. HIDE DEF ks, vs
<1>. QED
  BY <1>1, <1>2, <1>3, InsertEndIInv, InsertLengths, InsertMemoryInv

\* insert_start.
LEMMA RefInsertStartInv ==
  ASSUME MemoryInv, NEW o \in Obj, NEW k \in Key, NEW v \in Value, RefInsertStart(o, k, v)
  PROVE  MemoryInv'
<1>. DEFINE ks == <<k>> \o keys[o]
            vs == <<v>> \o values[o]
<1>1. IInv /\ InsertStart(o, k, v) /\ InsertMemory(o, TRUE)
  BY DEF MemoryInv, RefInsertStart
<1>2. /\ ks \in Seq(Key) /\ vs \in Seq(Value)
      /\ Len(ks) = Len(keys[o]) + 1 /\ Len(vs) = Len(values[o]) + 1
  BY <1>1, ColumnsTyped, PrependColumns
<1>3. Insert(o, ks, vs)
  BY <1>1 DEF InsertStart
<1>. HIDE DEF ks, vs
<1>. QED
  BY <1>1, <1>2, <1>3, InsertStartIInv, InsertLengths, InsertMemoryInv

\* The rooms after one of them has been made at least n.
LEMMA Roomier ==
  ASSUME NEW room \in [Obj -> Nat], NEW o \in Obj, NEW n \in Nat
  PROVE  /\ [room EXCEPT ![o] = Greater(@, n)] \in [Obj -> Nat]
         /\ [room EXCEPT ![o] = Greater(@, n)][o] >= n
         /\ [room EXCEPT ![o] = Greater(@, n)][o] >= room[o]
<1>1. room[o] \in Nat /\ Greater(room[o], n) \in Nat
  BY Operators
<1>2. Greater(room[o], n) >= n /\ Greater(room[o], n) >= room[o]
  BY <1>1, Operators
<1>3. [room EXCEPT ![o] = Greater(@, n)][o] = Greater(room[o], n)
  OBVIOUS
<1>. QED
  BY <1>1, <1>2, <1>3

\* reserve, whether or not the second vector could be given its memory.
LEMMA ReserveInv ==
  ASSUME MemoryInv, NEW o \in Obj, NEW n \in Reserved, Reserve(o, n)
  PROVE  MemoryInv'
<1>1. /\ keyRoom \in [Obj -> Nat] /\ valueRoom \in [Obj -> Nat]
      /\ promised \in [Obj -> Nat]
      /\ n \in Nat /\ n > promised[o]
      /\ FitsIn(o) /\ PointsInto(o)
  BY ReservedAssumption, Before DEF MemoryInv, MemoryTyped, Reserve
<1>2. UNCHANGED vars /\ at' = at
  BY DEF Reserve, vars
<1>3. IInv' /\ OnlyTouches(o)
  BY <1>2, NextIInv DEF MemoryInv, OnlyTouches, vars
<1>4. /\ keyRoom' = [keyRoom EXCEPT ![o] = Greater(@, n)]
      /\ keyHalf' = Unless(keyRoom[o] < n, keyHalf, o)
  BY DEF Reserve
<1>5. keyRoom' \in [Obj -> Nat] /\ keyRoom'[o] >= n /\ keyRoom'[o] >= keyRoom[o]
  BY <1>1, <1>4, Roomier
<1>6. Len(keys[o]) \in Nat /\ Len(values[o]) \in Nat
  BY Lengths DEF MemoryInv
<1>7. CASE /\ valueRoom' = [valueRoom EXCEPT ![o] = Greater(@, n)]
           /\ valueHalf' = Unless(valueRoom[o] < n, valueHalf, o)
           /\ promised' = [promised EXCEPT ![o] = n]
           /\ UNCHANGED regular
  <2>1. valueRoom' \in [Obj -> Nat] /\ valueRoom'[o] >= n /\ valueRoom'[o] >= valueRoom[o]
    BY <1>1, <1>7, Roomier
  <2>2. promised' \in [Obj -> Nat] /\ promised'[o] = n
    BY <1>1, <1>7
  <2>3. OnlyMemoryOf(o)
    BY <1>1, <1>4, <1>7 DEF OnlyMemoryOf
  <2>4. OnlyLost
    BY <1>2, <1>4, <1>7 DEF OnlyLost, Unless
  <2>5. MemoryTyped'
    BY <1>5, <1>7, <2>1, <2>2, <2>4 DEF MemoryTyped, MemoryInv, OnlyLost
  <2>6. FitsIn(o)'
    <3>1. keyRoom[o] \in Nat /\ valueRoom[o] \in Nat /\ keyRoom'[o] \in Nat
          /\ valueRoom'[o] \in Nat
      BY <1>1, <1>5, <2>1
    <3>. QED
      BY <1>1, <1>2, <1>5, <1>6, <2>1, <2>2, <3>1 DEF FitsIn, vars
  <2>7. PointsInto(o)'
    BY <1>1, <1>2, <2>4, GoneAssumption DEF PointsInto, OnlyLost, vars
  <2>8. InStep'
    BY <1>2, <1>4, <1>7 DEF InStep, MemoryInv, vars
  <2>. QED
    BY <1>3, <2>3, <2>4, <2>5, <2>6, <2>7, <2>8, OneObject
<1>8. CASE regular' = FALSE /\ UNCHANGED <<valueRoom, valueHalf, promised>>
  <2>1. OnlyMemoryOf(o)
    BY <1>1, <1>4, <1>8 DEF OnlyMemoryOf
  <2>2. OnlyLost
    BY <1>2, <1>4, <1>8 DEF OnlyLost, Unless
  <2>3. MemoryTyped'
    BY <1>5, <1>8, <2>2 DEF MemoryTyped, MemoryInv, OnlyLost
  <2>4. FitsIn(o)'
    <3>1. keyRoom[o] \in Nat /\ keyRoom'[o] \in Nat /\ promised[o] \in Nat
      BY <1>1, <1>5
    <3>. QED
      BY <1>1, <1>2, <1>5, <1>6, <1>8, <3>1 DEF FitsIn, vars
  <2>5. PointsInto(o)'
    BY <1>1, <1>2, <2>2, GoneAssumption DEF PointsInto, OnlyLost, vars
  <2>6. InStep'
    BY <1>8 DEF InStep
  <2>. QED
    BY <1>3, <2>1, <2>2, <2>3, <2>4, <2>5, <2>6, OneObject
<1>. QED
  BY <1>7, <1>8 DEF Reserve

\* Columns that have just been built lie in memory of their own, and no half of the
\* iterator points there.
LEMMA FreshMemoryInv ==
  ASSUME MemoryInv, IInv', NEW o \in Obj, OnlyTouches(o), FreshMemory(o),
         regular' \in BOOLEAN,
         regular' => regular /\ broken' = {}
  PROVE  MemoryInv'
<1>1. /\ keyRoom \in [Obj -> Nat] /\ valueRoom \in [Obj -> Nat]
      /\ promised \in [Obj -> Nat]
  BY DEF MemoryInv, MemoryTyped
<1>2. Len(keys'[o]) \in Nat /\ Len(values'[o]) \in Nat
  <2>1. keys'[o] \in Seq(Key) /\ values'[o] \in Seq(Value)
    BY DEF IInv, TypeOK
  <2>. QED
    BY <2>1, LenProperties
<1>3. /\ keyRoom' = [keyRoom EXCEPT ![o] = Len(keys'[o])]
      /\ valueRoom' = [valueRoom EXCEPT ![o] = Len(values'[o])]
      /\ keyHalf' = Unless(TRUE, keyHalf, o)
      /\ valueHalf' = Unless(TRUE, valueHalf, o)
      /\ promised' = [promised EXCEPT ![o] = 0]
      /\ UNCHANGED at
  BY DEF FreshMemory
<1>4. /\ keyRoom' \in [Obj -> Nat] /\ valueRoom' \in [Obj -> Nat]
      /\ promised' \in [Obj -> Nat]
      /\ keyRoom'[o] = Len(keys'[o]) /\ valueRoom'[o] = Len(values'[o])
      /\ promised'[o] = 0
  BY <1>1, <1>2, <1>3
<1>5. OnlyMemoryOf(o)
  BY <1>1, <1>3 DEF OnlyMemoryOf
<1>6. OnlyLost
  BY <1>3 DEF OnlyLost, Unless
<1>7. MemoryTyped'
  BY <1>3, <1>4, <1>6 DEF MemoryTyped, MemoryInv, OnlyLost
<1>8. FitsIn(o)'
  BY <1>2, <1>4 DEF FitsIn
<1>9. PointsInto(o)'
  BY <1>3, GoneAssumption DEF PointsInto, Unless
<1>10. InStep'
  <2>. SUFFICES ASSUME regular'
                PROVE  broken' = {} /\ keyRoom' = valueRoom' /\ keyHalf' = valueHalf'
    BY DEF InStep
  <2>1. broken' = {} /\ keyRoom = valueRoom /\ keyHalf = valueHalf
    BY DEF MemoryInv, InStep
  <2>2. Len(keys'[o]) = Len(values'[o])
    BY <2>1 DEF IInv, Aligned
  <2>. QED
    BY <1>3, <2>1, <2>2
<1>. QED
  BY <1>5, <1>6, <1>7, <1>8, <1>9, <1>10, OneObject

\* Construction from two columns.
LEMMA RefConstructInv ==
  ASSUME MemoryInv, NEW o \in Obj, NEW c \in Columns, RefConstruct(o, c[1], c[2])
  PROVE  MemoryInv'
<1>1. /\ IInv /\ Construct(o, c[1], c[2]) /\ FreshMemory(o)
      /\ regular' = (regular /\ Len(c[1]) = Len(c[2]))
      /\ regular => broken = {}
  BY DEF MemoryInv, InStep, RefConstruct
<1>2. regular' => regular /\ broken' = {}
  BY <1>1 DEF Construct, BrokenAfterBuild
<1>. QED
  BY <1>1, <1>2, ConstructIInv, FreshMemoryInv

\* Copy construction.
LEMMA RefCopyConstructInv ==
  ASSUME MemoryInv, NEW o \in Obj, NEW p \in Obj, RefCopyConstruct(o, p)
  PROVE  MemoryInv'
<1>1. /\ IInv /\ CopyConstruct(o, p) /\ FreshMemory(o) /\ regular' = regular
      /\ regular => broken = {}
      /\ regular \in BOOLEAN
  BY DEF MemoryInv, MemoryTyped, InStep, RefCopyConstruct
<1>2. regular' => regular /\ broken' = {}
  BY <1>1 DEF CopyConstruct, BrokenAfterCopy
<1>. QED
  BY <1>1, <1>2, CopyConstructIInv, FreshMemoryInv

\* Copy assignment, whether or not the keys could be assigned after the values.
LEMMA RefCopyAssignInv ==
  ASSUME MemoryInv, NEW o \in Obj, NEW p \in Obj, RefCopyAssign(o, p)
  PROVE  MemoryInv'
<1>. DEFINE failed == keys' = keys /\ keys[o] # keys[p]
            kl     == Len(keys[p])
            vl     == Len(values[p])
<1>1. /\ IInv /\ CopyAssign(o, p)
      /\ keys \in [Obj -> Seq(Key)] /\ values \in [Obj -> Seq(Value)]
      /\ keyRoom \in [Obj -> Nat] /\ valueRoom \in [Obj -> Nat]
      /\ promised \in [Obj -> Nat]
      /\ kl \in Nat /\ vl \in Nat
      /\ FitsIn(o) /\ PointsInto(o)
  BY Before, Lengths DEF MemoryInv, MemoryTyped, RefCopyAssign, IInv, TypeOK
<1>2. IInv' /\ OnlyTouches(o)
  BY <1>1, CopyAssignIInv
<1>3. /\ valueRoom' = [valueRoom EXCEPT ![o] = Greater(@, vl)]
      /\ valueHalf' = Unless(valueRoom[o] < vl \/ at > vl, valueHalf, o)
      /\ failed => UNCHANGED <<keyRoom, keyHalf>>
      /\ ~failed => /\ keyRoom' = [keyRoom EXCEPT ![o] = Greater(@, kl)]
                    /\ keyHalf' = Unless(keyRoom[o] < kl \/ at > kl, keyHalf, o)
      /\ regular' = (regular /\ ~failed)
      /\ UNCHANGED <<at, promised>>
  BY DEF RefCopyAssign
<1>4. /\ values'[o] = values[p]
      /\ failed => keys'[o] = keys[o]
      /\ ~failed => keys'[o] = keys[p] /\ broken' = BrokenAfterCopy(o, p)
  <2>1. values'[o] = values[p]
    BY <1>1 DEF CopyAssign
  <2>2. CASE keys' = [keys EXCEPT ![o] = keys[p]] /\ broken' = BrokenAfterCopy(o, p)
    BY <1>1, <2>1, <2>2
  <2>3. CASE Len(keys[o]) < Len(keys[p]) /\ UNCHANGED keys
    <3>1. keys[o] # keys[p]
      BY <1>1, <2>3, Lengths
    <3>. QED
      BY <2>1, <2>3, <3>1
  <2>. QED
    BY <1>1, <2>2, <2>3 DEF CopyAssign
<1>5. /\ valueRoom' \in [Obj -> Nat]
      /\ valueRoom'[o] >= vl /\ valueRoom'[o] >= valueRoom[o]
  BY <1>1, <1>3, Roomier
<1>6. /\ keyRoom' \in [Obj -> Nat] /\ keyRoom'[o] >= keyRoom[o]
      /\ ~failed => keyRoom'[o] >= kl
  <2>1. CASE failed
    <3>1. keyRoom[o] \in Nat /\ keyRoom' = keyRoom
      BY <1>1, <1>3, <2>1
    <3>. QED
      BY <1>1, <2>1, <3>1
  <2>2. CASE ~failed
    <3>1. keyRoom' = [keyRoom EXCEPT ![o] = Greater(@, kl)]
      BY <1>3, <2>2
    <3>. QED
      BY <1>1, <3>1, Roomier
  <2>. QED
    BY <2>1, <2>2
<1>7. OnlyMemoryOf(o)
  <2>1. CASE failed
    BY <1>1, <1>3, <2>1 DEF OnlyMemoryOf
  <2>2. CASE ~failed
    BY <1>1, <1>3, <2>2 DEF OnlyMemoryOf
  <2>. QED
    BY <2>1, <2>2
<1>8. OnlyLost
  BY <1>3 DEF OnlyLost, Unless
<1>9. MemoryTyped'
  BY <1>3, <1>5, <1>6, <1>8 DEF MemoryTyped, MemoryInv, OnlyLost
<1>10. FitsIn(o)'
  <2>1. /\ keyRoom[o] \in Nat /\ keyRoom'[o] \in Nat /\ promised[o] \in Nat
        /\ valueRoom[o] \in Nat /\ valueRoom'[o] \in Nat
    BY <1>1, <1>5, <1>6
  <2>2. promised'[o] = promised[o] /\ promised[o] <= keyRoom[o]
        /\ promised[o] <= valueRoom[o] /\ Len(keys[o]) <= keyRoom[o]
    BY <1>1, <1>3 DEF FitsIn
  <2>3. Len(keys[o]) \in Nat
    BY <1>1, Lengths
  <2>4. Len(keys'[o]) <= keyRoom'[o]
    <3>1. CASE failed
      BY <1>4, <1>6, <2>1, <2>2, <2>3, <3>1
    <3>2. CASE ~failed
      BY <1>4, <1>6, <3>2
    <3>. QED
      BY <3>1, <3>2
  <2>5. Len(values'[o]) <= valueRoom'[o]
    BY <1>4, <1>5
  <2>6. promised'[o] <= keyRoom'[o] /\ promised'[o] <= valueRoom'[o]
    BY <1>5, <1>6, <2>1, <2>2
  <2>. QED
    BY <2>4, <2>5, <2>6 DEF FitsIn
<1>11. PointsInto(o)'
  <2>1. at \in Nat /\ at' = at
    BY <1>3, Before
  <2>2. valueHalf' = o => at <= vl
    BY <1>1, <1>3, <2>1, GoneAssumption DEF Unless
  <2>3. keyHalf' = o => at <= Len(keys'[o])
    <3>1. CASE failed
      BY <1>1, <1>3, <1>4, <3>1 DEF PointsInto
    <3>2. CASE ~failed
      <4>1. keyHalf' = o => ~(at > kl)
        BY <1>3, <3>2, GoneAssumption DEF Unless
      <4>. QED
        BY <1>1, <1>4, <2>1, <3>2, <4>1
    <3>. QED
      BY <3>1, <3>2
  <2>. QED
    BY <1>4, <2>1, <2>2, <2>3 DEF PointsInto
<1>12. InStep'
  <2>. SUFFICES ASSUME regular'
                PROVE  broken' = {} /\ keyRoom' = valueRoom' /\ keyHalf' = valueHalf'
    BY DEF InStep
  <2>1. regular /\ ~failed
    BY <1>3
  <2>2. broken = {} /\ keyRoom = valueRoom /\ keyHalf = valueHalf
    BY <2>1 DEF MemoryInv, InStep
  <2>3. kl = vl /\ broken' = {}
    BY <1>1, <1>4, <2>1, <2>2, Lengths DEF BrokenAfterCopy
  <2>. QED
    BY <1>3, <2>1, <2>2, <2>3
<1>. QED
  BY <1>2, <1>7, <1>8, <1>9, <1>10, <1>11, <1>12, OneObject

\* A move takes the memory, and the halves that point into it, to the new owner.
LEMMA RefMoveInv ==
  ASSUME MemoryInv, NEW o \in Obj, NEW p \in Obj, RefMove(o, p)
  PROVE  MemoryInv'
<1>1. /\ IInv /\ Move(o, p) /\ o # p
      /\ keys \in [Obj -> Seq(Key)] /\ values \in [Obj -> Seq(Value)]
      /\ keyRoom \in [Obj -> Nat] /\ valueRoom \in [Obj -> Nat]
      /\ promised \in [Obj -> Nat]
      /\ \A q \in Obj : FitsIn(q) /\ PointsInto(q)
  BY DEF MemoryInv, MemoryTyped, RefMove, Move, IInv, TypeOK
<1>2. IInv'
  BY <1>1, MoveIInv
<1>3. /\ keyRoom' = [keyRoom EXCEPT ![o] = keyRoom[p], ![p] = 0]
      /\ valueRoom' = [valueRoom EXCEPT ![o] = valueRoom[p], ![p] = 0]
      /\ promised' = [promised EXCEPT ![o] = promised[p], ![p] = 0]
      /\ keyHalf' = Follow(keyHalf, o, p)
      /\ valueHalf' = Follow(valueHalf, o, p)
      /\ UNCHANGED <<at, regular>>
  BY DEF RefMove
<1>4. /\ keys' = [keys EXCEPT ![o] = keys[p], ![p] = <<>>]
      /\ values' = [values EXCEPT ![o] = values[p], ![p] = <<>>]
      /\ broken' = BrokenAfterCopy(o, p) \ {p}
  BY <1>1 DEF Move
<1>5. MemoryTyped'
  <2>1. keyRoom' \in [Obj -> Nat] /\ valueRoom' \in [Obj -> Nat] /\ promised' \in [Obj -> Nat]
    BY <1>1, <1>3
  <2>2. keyHalf' \in Obj \cup {Gone} /\ valueHalf' \in Obj \cup {Gone}
    BY <1>3 DEF MemoryInv, MemoryTyped, Follow, Unless
  <2>. QED
    BY <1>3, <2>1, <2>2 DEF MemoryInv, MemoryTyped
<1>6. ASSUME NEW q \in Obj PROVE FitsIn(q)' /\ PointsInto(q)'
  <2>1. CASE q = o
    <3>1. /\ keys'[q] = keys[p] /\ values'[q] = values[p]
          /\ keyRoom'[q] = keyRoom[p] /\ valueRoom'[q] = valueRoom[p]
          /\ promised'[q] = promised[p]
      BY <1>1, <1>3, <1>4, <2>1
    <3>2. (keyHalf' = q => keyHalf = p) /\ (valueHalf' = q => valueHalf = p)
      BY <1>3, <2>1, GoneAssumption DEF Follow, Unless
    <3>3. FitsIn(p) /\ PointsInto(p)
      BY <1>1
    <3>. QED
      BY <1>3, <3>1, <3>2, <3>3 DEF FitsIn, PointsInto
  <2>2. CASE q = p
    <3>1. /\ Len(keys'[q]) = 0 /\ Len(values'[q]) = 0
          /\ keyRoom'[q] = 0 /\ valueRoom'[q] = 0 /\ promised'[q] = 0
      BY <1>1, <1>3, <1>4, <2>2, EmptySeq
    <3>2. keyHalf' # q /\ valueHalf' # q
      BY <1>1, <1>3, <2>2, GoneAssumption DEF Follow, Unless
    <3>. QED
      BY <3>1, <3>2 DEF FitsIn, PointsInto
  <2>3. CASE q # o /\ q # p
    <3>1. /\ keys'[q] = keys[q] /\ values'[q] = values[q]
          /\ keyRoom'[q] = keyRoom[q] /\ valueRoom'[q] = valueRoom[q]
          /\ promised'[q] = promised[q]
      BY <1>1, <1>3, <1>4, <2>3
    <3>2. (keyHalf' = q => keyHalf = q) /\ (valueHalf' = q => valueHalf = q)
      BY <1>3, <2>3, GoneAssumption DEF Follow, Unless
    <3>3. FitsIn(q) /\ PointsInto(q)
      BY <1>1
    <3>. QED
      BY <1>3, <3>1, <3>2, <3>3 DEF FitsIn, PointsInto
  <2>. QED
    BY <2>1, <2>2, <2>3
<1>7. InStep'
  BY <1>3, <1>4 DEF MemoryInv, InStep, BrokenAfterCopy
<1>. QED
  BY <1>2, <1>5, <1>6, <1>7 DEF MemoryInv

\* The iterator is set to a row that is there, or moved to one; nothing else changes.
LEMMA IteratorInv ==
  ASSUME MemoryInv, NEW o \in Obj, NEW i \in DOMAIN keys[o] \cap DOMAIN values[o],
         keyHalf' = o, valueHalf' = o, at' = i,
         UNCHANGED <<vars, memory, promised, regular>>
  PROVE  MemoryInv'
<1>1. IInv' /\ UNCHANGED <<keys, values, broken>> /\ UNCHANGED <<keyRoom, valueRoom>>
  BY NextIInv DEF MemoryInv, vars, memory
<1>2. i \in Nat \ {0} /\ i <= Len(keys[o]) /\ i <= Len(values[o])
  BY Lengths DEF MemoryInv
<1>3. MemoryTyped'
  BY <1>1, <1>2 DEF MemoryInv, MemoryTyped
<1>4. ASSUME NEW p \in Obj PROVE FitsIn(p)' /\ PointsInto(p)'
  BY <1>1, <1>2 DEF MemoryInv, FitsIn, PointsInto
<1>5. InStep'
  BY <1>1 DEF MemoryInv, InStep
<1>. QED
  BY <1>1, <1>3, <1>4, <1>5 DEF MemoryInv

\* A write to a row changes no length.
LEMMA WriteInv ==
  ASSUME MemoryInv, NEW o \in Obj, NEW k \in Key, NEW v \in Value,
         RefAssignAt(o, k, v)
           \/ \E i \in DOMAIN keys[o] : RefAssignThroughIterator(o, i, k, v)
  PROVE  MemoryInv'
<1>0. /\ AssignAt(o, k, v) \/ \E i \in DOMAIN keys[o] : AssignThroughIterator(o, i, k, v)
      /\ UNCHANGED <<memory, iterator, promised, regular>>
  BY DEF RefAssignAt, RefAssignThroughIterator
<1>1. IInv' /\ OnlyTouches(o) /\ broken' = broken
  BY <1>0, AssignAtIInv, AssignThroughIteratorIInv
     DEF MemoryInv, AssignAt, AssignThroughIterator
<1>2. keys \in [Obj -> Seq(Key)] /\ values \in [Obj -> Seq(Value)]
      /\ keys[o] \in Seq(Key) /\ values[o] \in Seq(Value)
  BY DEF MemoryInv, IInv, TypeOK
<1>3. Len(keys'[o]) = Len(keys[o]) /\ Len(values'[o]) = Len(values[o])
  <2>1. CASE AssignAt(o, k, v)
    <3>1. PICK i \in DOMAIN values[o] :
            values' = [values EXCEPT ![o] = [@ EXCEPT ![i] = v]]
      BY <2>1 DEF AssignAt
    <3>2. Len([values[o] EXCEPT ![i] = v]) = Len(values[o])
      BY <1>2, ExceptColumn
    <3>. QED
      BY <1>2, <2>1, <3>1, <3>2 DEF AssignAt
  <2>2. CASE \E i \in DOMAIN keys[o] : AssignThroughIterator(o, i, k, v)
    <3>1. PICK i \in DOMAIN keys[o] : AssignThroughIterator(o, i, k, v)
      BY <2>2
    <3>2. i \in DOMAIN values[o]
      BY <3>1 DEF AssignThroughIterator
    <3>3. /\ Len([keys[o] EXCEPT ![i] = k]) = Len(keys[o])
          /\ Len([values[o] EXCEPT ![i] = v]) = Len(values[o])
      BY <1>2, <3>2, ExceptColumn
    <3>. QED
      BY <1>2, <3>1, <3>3 DEF AssignThroughIterator
  <2>. QED
    BY <1>0, <2>1, <2>2
<1>4. UNCHANGED <<keyRoom, valueRoom, keyHalf, valueHalf, at, promised, regular>>
  BY <1>0 DEF memory, iterator
<1>5. OnlyMemoryOf(o) /\ OnlyLost
  BY <1>4 DEF OnlyMemoryOf, OnlyLost
<1>6. MemoryTyped'
  BY <1>4 DEF MemoryInv, MemoryTyped
<1>7. FitsIn(o)' /\ PointsInto(o)'
  BY <1>3, <1>4 DEF MemoryInv, FitsIn, PointsInto
<1>8. InStep'
  BY <1>1, <1>4 DEF MemoryInv, InStep
<1>. QED
  BY <1>1, <1>5, <1>6, <1>7, <1>8, OneObject

\* Every operation preserves the invariant.
LEMMA NextMemory == MemoryInv /\ [RefNext]_allVars => MemoryInv'
<1>. SUFFICES ASSUME MemoryInv, [RefNext]_allVars PROVE MemoryInv'
  OBVIOUS
<1>1. CASE UNCHANGED allVars
  <2>1. /\ UNCHANGED vars
        /\ UNCHANGED <<keys, values, broken>>
        /\ UNCHANGED <<keyRoom, valueRoom, keyHalf, valueHalf, at, promised, regular>>
    BY <1>1 DEF allVars, vars, memory, iterator
  <2>2. IInv'
    BY <2>1, NextIInv DEF MemoryInv
  <2>. QED
    BY <2>1, <2>2 DEF MemoryInv, MemoryTyped, FitsIn, PointsInto, InStep
<1>2. ASSUME NEW n \in {-1, 1}, Step(n) PROVE MemoryInv'
  <2>1. keyHalf \in Obj /\ keyHalf' = keyHalf /\ valueHalf' = keyHalf
    BY <1>2 DEF Step, MemoryInv, MemoryTyped
  <2>. QED
    BY <1>2, <2>1, IteratorInv DEF Step
<1>3. ASSUME NEW o \in Obj, NEW i \in DOMAIN keys[o], Take(o, i) PROVE MemoryInv'
  BY <1>3, IteratorInv DEF Take
<1>4. ASSUME NEW o \in Obj, NEW k \in Key, NEW v \in Value,
             \/ RefInsertEnd(o, k, v)
             \/ RefInsertStart(o, k, v)
             \/ RefAssignAt(o, k, v)
             \/ \E i \in DOMAIN keys[o] : RefAssignThroughIterator(o, i, k, v)
      PROVE  MemoryInv'
  BY <1>4, RefInsertEndInv, RefInsertStartInv, WriteInv
<1>5. ASSUME NEW o \in Obj, NEW p \in Obj,
             RefCopyConstruct(o, p) \/ RefCopyAssign(o, p) \/ RefMove(o, p)
      PROVE  MemoryInv'
  BY <1>5, RefCopyConstructInv, RefCopyAssignInv, RefMoveInv
<1>6. CASE RefNext
  BY <1>2, <1>3, <1>4, <1>5, <1>6, ReserveInv, RefConstructInv DEF RefNext
<1>. QED
  BY <1>1, <1>6

\* The invariant holds after any sequence of operations, failed ones included.
THEOREM MemoryInvariance == RefSpec => []MemoryInv
BY InitMemory, NextMemory, PTL DEF RefSpec

-----------------------------------------------------------------------------
(* The row under the iterator. *)

\* A half that does not dangle shows what it is expected to; of one that does nothing
\* is expected.
HeldInv ==
  /\ held \in (Key \cup {Gone}) \X (Value \cup {Gone})
  /\ keyHalf = Gone => held[1] = Gone
  /\ valueHalf = Gone => held[2] = Gone
  /\ keyHalf # Gone => keys[keyHalf][at] = held[1]
  /\ valueHalf # Gone => values[valueHalf][at] = held[2]

\* The cells that the halves of the iterator point to.
LEMMA Cells ==
  ASSUME MemoryInv
  PROVE  /\ keyHalf # Gone => /\ keyHalf \in Obj /\ at \in 1..Len(keys[keyHalf])
                              /\ keys[keyHalf][at] \in Key
         /\ valueHalf # Gone => /\ valueHalf \in Obj /\ at \in 1..Len(values[valueHalf])
                                /\ values[valueHalf][at] \in Value
<1>1. at \in Nat \ {0} /\ keyHalf \in Obj \cup {Gone} /\ valueHalf \in Obj \cup {Gone}
  BY DEF MemoryInv, MemoryTyped
<1>2. ASSUME keyHalf # Gone
      PROVE  keyHalf \in Obj /\ at \in 1..Len(keys[keyHalf]) /\ keys[keyHalf][at] \in Key
  <2>1. keyHalf \in Obj /\ keys[keyHalf] \in Seq(Key) /\ Len(keys[keyHalf]) \in Nat
        /\ at <= Len(keys[keyHalf])
    BY <1>1, <1>2, ColumnsTyped, LenProperties DEF MemoryInv, PointsInto
  <2>2. at \in 1..Len(keys[keyHalf])
    BY <1>1, <2>1
  <2>. QED
    BY <2>1, <2>2, LenProperties
<1>3. ASSUME valueHalf # Gone
      PROVE  /\ valueHalf \in Obj /\ at \in 1..Len(values[valueHalf])
             /\ values[valueHalf][at] \in Value
  <2>1. valueHalf \in Obj /\ values[valueHalf] \in Seq(Value) /\ Len(values[valueHalf]) \in Nat
        /\ at <= Len(values[valueHalf])
    BY <1>1, <1>3, ColumnsTyped, LenProperties DEF MemoryInv, PointsInto
  <2>2. at \in 1..Len(values[valueHalf])
    BY <1>1, <2>1
  <2>. QED
    BY <2>1, <2>2, LenProperties
<1>. QED
  BY <1>2, <1>3

\* What is expected is there, if the cells are what is expected of them.
LEMMA Expected ==
  ASSUME MemoryInv', NEW k, NEW v, Expect(k, v),
         keyHalf' # Gone => keys'[keyHalf'][at'] = k,
         valueHalf' # Gone => values'[valueHalf'][at'] = v
  PROVE  HeldInv'
<1>1. /\ keyHalf' # Gone => k \in Key
      /\ valueHalf' # Gone => v \in Value
  <2>1. /\ keys' \in [Obj -> Seq(Key)] /\ values' \in [Obj -> Seq(Value)]
        /\ at' \in Nat \ {0} /\ keyHalf' \in Obj \cup {Gone} /\ valueHalf' \in Obj \cup {Gone}
        /\ \A o \in Obj : PointsInto(o)'
    BY DEF MemoryInv, MemoryTyped, IInv, TypeOK
  <2>2. ASSUME keyHalf' # Gone PROVE k \in Key
    <3>1. keyHalf' \in Obj /\ keys'[keyHalf'] \in Seq(Key)
      BY <2>1, <2>2
    <3>2. at' <= Len(keys'[keyHalf']) /\ Len(keys'[keyHalf']) \in Nat
      BY <2>1, <3>1, LenProperties DEF PointsInto
    <3>3. at' \in 1..Len(keys'[keyHalf'])
      BY <2>1, <3>2
    <3>4. keys'[keyHalf'][at'] \in Key
      BY <3>1, <3>3, ElementOfSeq
    <3>. QED
      BY <2>2, <3>4
  <2>3. ASSUME valueHalf' # Gone PROVE v \in Value
    <3>1. valueHalf' \in Obj /\ values'[valueHalf'] \in Seq(Value)
      BY <2>1, <2>3
    <3>2. at' <= Len(values'[valueHalf']) /\ Len(values'[valueHalf']) \in Nat
      BY <2>1, <3>1, LenProperties DEF PointsInto
    <3>3. at' \in 1..Len(values'[valueHalf'])
      BY <2>1, <3>2
    <3>4. values'[valueHalf'][at'] \in Value
      BY <3>1, <3>3, ElementOfSeq
    <3>. QED
      BY <2>3, <3>4
  <2>. QED
    BY <2>2, <2>3
<1>2. held' = <<IF keyHalf' = Gone THEN Gone ELSE k, IF valueHalf' = Gone THEN Gone ELSE v>>
  BY DEF Expect
<1>. QED
  BY <1>1, <1>2 DEF HeldInv

\* Nothing is shifted under an iterator by an operation on o that leaves the cells of o
\* alone to which halves still point.
LEMMA NothingShifts ==
  ASSUME MemoryInv, HeldInv, MemoryInv', NEW o \in Obj, OnlyTouches(o), OnlyLost,
         ExpectTheSame,
         keyHalf' = o => keys'[o][at] = keys[o][at],
         valueHalf' = o => values'[o][at] = values[o][at]
  PROVE  HeldInv'
<1>1. /\ keyHalf \in Obj \cup {Gone} /\ valueHalf \in Obj \cup {Gone}
      /\ keyHalf' \in {keyHalf, Gone} /\ valueHalf' \in {valueHalf, Gone} /\ at' = at
  BY DEF MemoryInv, MemoryTyped, OnlyLost
<1>2. keyHalf' # Gone => keys'[keyHalf'][at'] = held[1]
  BY <1>1 DEF HeldInv, OnlyTouches
<1>3. valueHalf' # Gone => values'[valueHalf'][at'] = held[2]
  BY <1>1 DEF HeldInv, OnlyTouches
<1>. QED
  BY <1>2, <1>3, Expected DEF ExpectTheSame

\* What an insertion does to the iterator.
LEMMA InsertLoses ==
  ASSUME NEW o \in Obj, NEW atBegin \in BOOLEAN, InsertMemory(o, atBegin)
  PROVE  /\ OnlyLost /\ ExpectTheSame
         /\ atBegin => /\ keyHalf' # o
                       /\ values' = values \/ valueHalf' # o
BY GoneAssumption DEF InsertMemory, OnlyLost, Unless

\* insert_end leaves every row at its place.
LEMMA InsertEndHeld ==
  ASSUME MemoryInv, HeldInv, MemoryInv', NEW o \in Obj, NEW k \in Key, NEW v \in Value,
         RefInsertEnd(o, k, v)
  PROVE  HeldInv'
<1>1. IInv /\ InsertEnd(o, k, v) /\ InsertMemory(o, FALSE)
  BY DEF MemoryInv, RefInsertEnd
<1>2. OnlyTouches(o) /\ OnlyLost /\ ExpectTheSame
  BY <1>1, InsertEndIInv, InsertLoses
<1>3. /\ keys \in [Obj -> Seq(Key)] /\ values \in [Obj -> Seq(Value)]
      /\ keys' = [keys EXCEPT ![o] = Append(keys[o], k)]
      /\ values' = [values EXCEPT ![o] = Append(values[o], v)] \/ values' = values
  BY <1>1 DEF InsertEnd, Insert, IInv, TypeOK
<1>4. keyHalf' \in {keyHalf, Gone} /\ valueHalf' \in {valueHalf, Gone}
  BY <1>2 DEF OnlyLost
<1>5. ASSUME keyHalf' = o PROVE keys'[o][at] = keys[o][at]
  <2>1. at \in 1..Len(keys[o])
    BY <1>4, <1>5, Cells, GoneAssumption
  <2>. QED
    BY <1>3, <2>1, AppendProperties
<1>6. ASSUME valueHalf' = o PROVE values'[o][at] = values[o][at]
  <2>1. at \in 1..Len(values[o])
    BY <1>4, <1>6, Cells, GoneAssumption
  <2>. QED
    BY <1>3, <2>1, AppendProperties
<1>. QED
  BY <1>2, <1>5, <1>6, NothingShifts

\* insert_start shifts the rows, but no half still points to one.
LEMMA InsertStartHeld ==
  ASSUME MemoryInv, HeldInv, MemoryInv', NEW o \in Obj, NEW k \in Key, NEW v \in Value,
         RefInsertStart(o, k, v)
  PROVE  HeldInv'
<1>1. IInv /\ InsertStart(o, k, v) /\ InsertMemory(o, TRUE)
  BY DEF MemoryInv, RefInsertStart
<1>2. OnlyTouches(o) /\ OnlyLost /\ ExpectTheSame /\ keyHalf' # o
      /\ (values' = values \/ valueHalf' # o)
  BY <1>1, InsertStartIInv, InsertLoses
<1>. QED
  BY <1>2, NothingShifts

\* A series that has been built lies in memory to which nothing points.
LEMMA FreshHeld ==
  ASSUME MemoryInv, HeldInv, MemoryInv', NEW o \in Obj, OnlyTouches(o), FreshMemory(o)
  PROVE  HeldInv'
<1>1. OnlyLost /\ ExpectTheSame /\ keyHalf' # o /\ valueHalf' # o
  BY GoneAssumption DEF FreshMemory, OnlyLost, Unless
<1>. QED
  BY <1>1, NothingShifts

\* Reserving memory changes no row.
LEMMA ReserveHeld ==
  ASSUME MemoryInv, HeldInv, MemoryInv', NEW o \in Obj, NEW n \in Reserved, Reserve(o, n)
  PROVE  HeldInv'
<1>1. UNCHANGED <<keys, values, broken>> /\ ExpectTheSame
  BY DEF Reserve, vars
<1>2. OnlyTouches(o)
  BY <1>1 DEF OnlyTouches
<1>3. OnlyLost
  BY DEF Reserve, OnlyLost, Unless
<1>. QED
  BY <1>1, <1>2, <1>3, NothingShifts

\* Copy assignment gives new rows to the halves that still point into the target.
LEMMA CopyAssignHeld ==
  ASSUME MemoryInv, HeldInv, MemoryInv', NEW o \in Obj, NEW p \in Obj, RefCopyAssign(o, p)
  PROVE  HeldInv'
<1>. DEFINE failed == keys' = keys /\ keys[o] # keys[p]
            k == IF keyHalf = o /\ ~failed THEN keys[p][at] ELSE held[1]
            v == IF valueHalf = o THEN values[p][at] ELSE held[2]
<1>1. /\ IInv /\ CopyAssign(o, p) /\ Expect(k, v) /\ at' = at
      /\ keys \in [Obj -> Seq(Key)] /\ values \in [Obj -> Seq(Value)]
  BY DEF MemoryInv, IInv, TypeOK, RefCopyAssign
<1>2. OnlyTouches(o)
  BY <1>1, CopyAssignIInv
<1>3. /\ values'[o] = values[p]
      /\ keys'[o] = IF failed THEN keys[o] ELSE keys[p]
  BY <1>1 DEF CopyAssign
<1>4. /\ keyHalf \in Obj \cup {Gone} /\ valueHalf \in Obj \cup {Gone}
      /\ keyHalf' \in {keyHalf, Gone} /\ valueHalf' \in {valueHalf, Gone}
  BY DEF MemoryInv, MemoryTyped, RefCopyAssign, Unless
<1>5. keyHalf' # Gone => keys'[keyHalf'][at'] = k
  <2>1. CASE keyHalf = o
    BY <1>1, <1>3, <1>4, <2>1 DEF HeldInv
  <2>2. CASE keyHalf # o
    BY <1>1, <1>2, <1>4, <2>2 DEF HeldInv, OnlyTouches
  <2>. QED
    BY <2>1, <2>2
<1>6. valueHalf' # Gone => values'[valueHalf'][at'] = v
  <2>1. CASE valueHalf = o
    BY <1>1, <1>3, <1>4, <2>1
  <2>2. CASE valueHalf # o
    BY <1>1, <1>2, <1>4, <2>2 DEF HeldInv, OnlyTouches
  <2>. QED
    BY <2>1, <2>2
<1>. HIDE DEF k, v
<1>. QED
  BY <1>1, <1>5, <1>6, Expected

\* A half that points into a series that is moved shows its row in the new owner.
LEMMA MoveHeld ==
  ASSUME MemoryInv, HeldInv, MemoryInv', NEW o \in Obj, NEW p \in Obj, RefMove(o, p)
  PROVE  HeldInv'
<1>1. /\ o # p /\ keys \in [Obj -> Seq(Key)] /\ values \in [Obj -> Seq(Value)]
      /\ keys' = [keys EXCEPT ![o] = keys[p], ![p] = <<>>]
      /\ values' = [values EXCEPT ![o] = values[p], ![p] = <<>>]
      /\ keyHalf' = Follow(keyHalf, o, p) /\ valueHalf' = Follow(valueHalf, o, p)
      /\ at' = at /\ Expect(held[1], held[2])
  BY DEF MemoryInv, IInv, TypeOK, RefMove, Move, ExpectTheSame
<1>2. keyHalf \in Obj \cup {Gone} /\ valueHalf \in Obj \cup {Gone}
  BY DEF MemoryInv, MemoryTyped
<1>3. keyHalf' # Gone => keys'[keyHalf'][at'] = held[1]
  BY <1>1, <1>2, GoneAssumption DEF HeldInv, Follow, Unless
<1>4. valueHalf' # Gone => values'[valueHalf'][at'] = held[2]
  BY <1>1, <1>2, GoneAssumption DEF HeldInv, Follow, Unless
<1>. QED
  BY <1>1, <1>3, <1>4, Expected

\* Taking an iterator, or moving it to another row.
LEMMA IteratorHeld ==
  ASSUME MemoryInv', NEW o \in Obj, NEW i, UNCHANGED vars,
         keyHalf' = o, valueHalf' = o, at' = i, Expect(keys[o][i], values[o][i])
  PROVE  HeldInv'
<1>1. keys' = keys /\ values' = values
  BY DEF vars
<1>. QED
  BY <1>1, Expected

\* An assignment by key changes one value, and no other row is expected to change.
LEMMA AssignAtHeld ==
  ASSUME MemoryInv, HeldInv, MemoryInv', NEW o \in Obj, NEW d \in Key, NEW v \in Value,
         RefAssignAt(o, d, v)
  PROVE  HeldInv'
<1>. DEFINE w == IF valueHalf = o /\ at \in Locate(keys[o], d) THEN v ELSE held[2]
<1>1. /\ AssignAt(o, d, v) /\ Expect(held[1], w)
      /\ UNCHANGED <<keyHalf, valueHalf, at>>
      /\ values \in [Obj -> Seq(Value)]
  BY DEF RefAssignAt, iterator, MemoryInv, IInv, TypeOK
<1>2. PICK i \in Locate(keys[o], d) \cap DOMAIN values[o] :
        values' = [values EXCEPT ![o] = [@ EXCEPT ![i] = v]]
  BY <1>1 DEF AssignAt
<1>3. \A j \in Locate(keys[o], d) : j = i
  BY <1>2 DEF Locate
<1>4. keyHalf' # Gone => keys'[keyHalf'][at'] = held[1]
  BY <1>1 DEF AssignAt, HeldInv
<1>5. valueHalf' # Gone => values'[valueHalf'][at'] = w
  <2>. SUFFICES ASSUME valueHalf # Gone PROVE values'[valueHalf][at] = w
    BY <1>1
  <2>1. valueHalf \in Obj /\ values[valueHalf][at] = held[2]
    BY Cells DEF HeldInv
  <2>2. CASE valueHalf = o /\ at = i
    BY <1>1, <1>2, <2>2
  <2>3. CASE valueHalf = o /\ at # i
    <3>1. at \notin Locate(keys[o], d)
      BY <1>3, <2>3
    <3>. QED
      BY <1>1, <1>2, <2>1, <2>3, <3>1
  <2>4. CASE valueHalf # o
    BY <1>1, <1>2, <2>1, <2>4
  <2>. QED
    BY <2>2, <2>3, <2>4
<1>. HIDE DEF w
<1>. QED
  BY <1>1, <1>4, <1>5, Expected

\* An assignment through another iterator changes one row.
LEMMA AssignThroughIteratorHeld ==
  ASSUME MemoryInv, HeldInv, MemoryInv', NEW o \in Obj, NEW i \in DOMAIN keys[o],
         NEW k \in Key, NEW v \in Value, RefAssignThroughIterator(o, i, k, v)
  PROVE  HeldInv'
<1>. DEFINE x == IF keyHalf = o /\ at = i THEN k ELSE held[1]
            y == IF valueHalf = o /\ at = i THEN v ELSE held[2]
<1>1. /\ Expect(x, y) /\ UNCHANGED <<keyHalf, valueHalf, at>>
      /\ keys \in [Obj -> Seq(Key)] /\ values \in [Obj -> Seq(Value)]
      /\ i \in DOMAIN keys[o] /\ i \in DOMAIN values[o]
      /\ keys' = [keys EXCEPT ![o] = [@ EXCEPT ![i] = k]]
      /\ values' = [values EXCEPT ![o] = [@ EXCEPT ![i] = v]]
  BY DEF RefAssignThroughIterator, AssignThroughIterator, iterator, MemoryInv, IInv, TypeOK
<1>2. keyHalf' # Gone => keys'[keyHalf'][at'] = x
  <2>. SUFFICES ASSUME keyHalf # Gone PROVE keys'[keyHalf][at] = x
    BY <1>1
  <2>1. keyHalf \in Obj /\ keys[keyHalf][at] = held[1]
    BY Cells DEF HeldInv
  <2>. QED
    BY <1>1, <2>1
<1>3. valueHalf' # Gone => values'[valueHalf'][at'] = y
  <2>. SUFFICES ASSUME valueHalf # Gone PROVE values'[valueHalf][at] = y
    BY <1>1
  <2>1. valueHalf \in Obj /\ values[valueHalf][at] = held[2]
    BY Cells DEF HeldInv
  <2>. QED
    BY <1>1, <2>1
<1>. HIDE DEF x, y
<1>. QED
  BY <1>1, <1>2, <1>3, Expected

\* Every operation leaves under the iterator what is expected there.
LEMMA NextHeld ==
  ASSUME MemoryInv, HeldInv, MemoryInv', [RefNext]_allVars
  PROVE  HeldInv'
<1>1. CASE UNCHANGED allVars
  BY <1>1 DEF allVars, vars, iterator, HeldInv
<1>2. ASSUME NEW n \in {-1, 1}, Step(n) PROVE HeldInv'
  <2>1. keyHalf \in Obj /\ keyHalf' = keyHalf /\ valueHalf' = keyHalf /\ valueHalf = keyHalf
        /\ UNCHANGED vars /\ Expect(keys[keyHalf][at'], values[keyHalf][at'])
    BY <1>2 DEF Step, MemoryInv, MemoryTyped
  <2>. QED
    BY <2>1, IteratorHeld
<1>3. ASSUME NEW o \in Obj, NEW i \in DOMAIN keys[o], Take(o, i) PROVE HeldInv'
  BY <1>3, IteratorHeld DEF Take
<1>4. ASSUME NEW o \in Obj, NEW k \in Key, NEW v \in Value,
             \/ RefInsertEnd(o, k, v)
             \/ RefInsertStart(o, k, v)
             \/ RefAssignAt(o, k, v)
             \/ \E i \in DOMAIN keys[o] : RefAssignThroughIterator(o, i, k, v)
      PROVE  HeldInv'
  BY <1>4, InsertEndHeld, InsertStartHeld, AssignAtHeld, AssignThroughIteratorHeld
<1>5. ASSUME NEW o \in Obj, NEW p \in Obj,
             RefCopyConstruct(o, p) \/ RefCopyAssign(o, p) \/ RefMove(o, p)
      PROVE  HeldInv'
  <2>1. CASE RefCopyConstruct(o, p)
    <3>1. OnlyTouches(o) /\ FreshMemory(o)
      BY <2>1, CopyConstructIInv DEF RefCopyConstruct, MemoryInv
    <3>. QED
      BY <3>1, FreshHeld
  <2>. QED
    BY <1>5, <2>1, CopyAssignHeld, MoveHeld
<1>6. ASSUME NEW o \in Obj, NEW c \in Columns, RefConstruct(o, c[1], c[2]) PROVE HeldInv'
  <2>1. OnlyTouches(o) /\ FreshMemory(o)
    BY <1>6, ConstructIInv DEF RefConstruct, MemoryInv
  <2>. QED
    BY <2>1, FreshHeld
<1>7. CASE RefNext
  BY <1>2, <1>3, <1>4, <1>5, <1>6, <1>7, ReserveHeld DEF RefNext
<1>. QED
  BY <1>1, <1>7

\* The iterator shows what is expected after any sequence of operations.
THEOREM HeldInvariance == RefSpec => []HeldInv
<1>1. RefInit => HeldInv
  BY DEF RefInit, HeldInv
<1>. QED
  BY <1>1, NextHeld, MemoryInvariance, PTL DEF RefSpec

\* An iterator or reference that does not dangle shows the row it was taken at, as it has
\* been assigned since, whatever was inserted, reserved and moved; and no column outgrows
\* its memory.
THEOREM RowsAreHeld == RefSpec => []HoldsItsRow
<1>1. MemoryInv /\ HeldInv => HoldsItsRow
  <2>. SUFFICES ASSUME MemoryInv, HeldInv PROVE HoldsItsRow
    OBVIOUS
  <2>1. TypeOK /\ MemoryTyped /\ \A o \in Obj : FitsIn(o) /\ PointsInto(o)
    BY DEF MemoryInv, IInv
  <2>2. /\ keyHalf # Gone => at \in DOMAIN keys[keyHalf]
        /\ valueHalf # Gone => at \in DOMAIN values[valueHalf]
    BY Cells, Lengths DEF MemoryInv
  <2>3. MemoryTypeOK
    BY <2>1 DEF MemoryTypeOK, MemoryTyped, FitsIn, HeldInv
  <2>. QED
    BY <2>2, <2>3 DEF HoldsItsRow, HeldInv
<1>. QED
  BY <1>1, MemoryInvariance, HeldInvariance, PTL

\* The two halves of an iterator dangle together, unless something failed or was ragged.
THEOREM HalvesDangleTogether == RefSpec => []HalvesTogether
<1>1. MemoryInv => HalvesTogether
  BY DEF MemoryInv, InStep, HalvesTogether
<1>. QED
  BY <1>1, MemoryInvariance, PTL

\* An insertion within the reserved rows cannot fail, and needs no new memory.
LEMMA ReservedInsert ==
  ASSUME MemoryInv, NEW o \in Obj, Within(o), NEW atBegin \in BOOLEAN,
         InsertMemory(o, atBegin), NEW ks, NEW vs, Insert(o, ks, vs)
  PROVE  /\ broken' = broken
         /\ atBegin => keyHalf' # o /\ valueHalf' # o
         /\ ~atBegin => UNCHANGED <<keyHalf, valueHalf, at>>
<1>1. /\ keyRoom[o] \in Nat /\ valueRoom[o] \in Nat /\ promised[o] \in Nat
      /\ promised[o] <= keyRoom[o] /\ promised[o] <= valueRoom[o]
  BY Before DEF FitsIn
<1>2. Len(keys[o]) \in Nat /\ Len(values[o]) = Len(keys[o]) /\ Len(keys[o]) < promised[o]
  BY Lengths DEF MemoryInv, Within
<1>3. Len(keys[o]) # keyRoom[o] /\ Len(values[o]) # valueRoom[o]
  BY <1>1, <1>2
<1>4. values' # values
  BY <1>3 DEF InsertMemory
<1>5. broken' = broken
  BY <1>4 DEF Insert
<1>6. /\ keyHalf' = Unless(atBegin, keyHalf, o)
      /\ valueHalf' = Unless(atBegin, valueHalf, o)
      /\ at' = at
  BY <1>3, <1>4 DEF InsertMemory
<1>. QED
  BY <1>5, <1>6, GoneAssumption DEF Unless

\* Inserting within the rows that were reserved never breaks a series, whatever happened
\* to it since; at the end it touches no iterator, at the start it costs those into it.
THEOREM ReservationsHold == RefSpec => ReserveProtects
<1>1. ASSUME MemoryInv, HeldInv, NEW o \in Obj, NEW k \in Key, NEW v \in Value, Within(o),
             RefInsertEnd(o, k, v)
      PROVE  UNCHANGED <<broken, iterator, held>>
  <2>1. /\ InsertMemory(o, FALSE)
        /\ Insert(o, Append(keys[o], k), Append(values[o], v))
    BY <1>1 DEF RefInsertEnd, InsertEnd
  <2>2. UNCHANGED <<broken, keyHalf, valueHalf, at>>
    BY <1>1, <2>1, ReservedInsert
  <2>3. Expect(held[1], held[2])
    BY <1>1, <2>1, InsertLoses DEF ExpectTheSame
  <2>4. held' = <<held[1], held[2]>>
    BY <1>1, <2>2, <2>3 DEF Expect, HeldInv
  <2>5. held' = held
    BY <1>1, <2>4 DEF HeldInv
  <2>. QED
    BY <2>2, <2>5 DEF iterator
<1>2. ASSUME MemoryInv, NEW o \in Obj, NEW k \in Key, NEW v \in Value, Within(o),
             RefInsertStart(o, k, v)
      PROVE  UNCHANGED broken /\ o \notin {keyHalf', valueHalf'}
  <2>1. InsertMemory(o, TRUE) /\ Insert(o, <<k>> \o keys[o], <<v>> \o values[o])
    BY <1>2 DEF RefInsertStart, InsertStart
  <2>. QED
    BY <1>2, <2>1, ReservedInsert
<1>3. MemoryInv /\ HeldInv /\ [RefNext]_allVars
        => [\A o \in Obj, k \in Key, v \in Value : Within(o) =>
              /\ RefInsertEnd(o, k, v) => UNCHANGED <<broken, iterator, held>>
              /\ RefInsertStart(o, k, v) =>
                   UNCHANGED broken /\ o \notin {keyHalf', valueHalf'}]_allVars
  BY <1>1, <1>2
<1>. QED
  BY <1>3, MemoryInvariance, HeldInvariance, PTL DEF RefSpec, ReserveProtects
=============================================================================
