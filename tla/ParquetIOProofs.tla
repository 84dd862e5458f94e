-------------------------- MODULE ParquetIOProofs --------------------------
(***************************************************************************)
(* Theorems about saving a series to a file and loading it, for any keys   *)
(* and values, series of any length, any unit and tolerance, any division  *)
(* of a table into chunks, and a program that may be killed at any step.   *)
(***************************************************************************)
EXTENDS ParquetIO, SequenceTheorems, TLAPS

-----------------------------------------------------------------------------
(* Counting in units. *)

\* Quotient and remainder by the unit.
LEMMA Division ==
  ASSUME NEW k \in Int
  PROVE  /\ k \div Unit \in Int /\ Unit * (k \div Unit) \in Int
         /\ Unit * (k \div Unit) <= k /\ k < Unit * (k \div Unit) + Unit
         /\ k >= 0 => k \div Unit >= 0
         /\ k % Unit \in 0..(Unit - 1) /\ k = Unit * (k \div Unit) + (k % Unit)
<1>. Unit \in Nat \ {0}
  BY UnitAssumption
<1>1. k \div Unit \in Int
  OBVIOUS
<1>2. Unit * (k \div Unit) <= k
  OBVIOUS
<1>3. k < Unit * (k \div Unit) + Unit
  OBVIOUS
<1>4. k >= 0 => k \div Unit >= 0
  OBVIOUS
<1>5. k % Unit \in 0..(Unit - 1)
  OBVIOUS
<1>6. k = Unit * (k \div Unit) + (k % Unit)
  OBVIOUS
<1>. QED
  BY <1>1, <1>2, <1>3, <1>4, <1>5, <1>6

\* Casting to the coarser unit moves a time toward the epoch, by less than a unit.
LEMMA CastTowardEpoch ==
  ASSUME NEW k \in Int
  PROVE  /\ InUnits(k) \in Int /\ Unit * InUnits(k) \in Int
         /\ k >= 0 => /\ 0 <= Unit * InUnits(k) /\ Unit * InUnits(k) <= k
                      /\ k - Unit * InUnits(k) < Unit
         /\ k < 0 => /\ k <= Unit * InUnits(k) /\ Unit * InUnits(k) <= 0
                     /\ Unit * InUnits(k) - k < Unit
<1>. Unit \in Nat \ {0}
  BY UnitAssumption
<1>1. CASE k >= 0
  <2>. DEFINE q == k \div Unit
  <2>1. InUnits(k) = q
    BY <1>1 DEF InUnits, Quotient
  <2>2. q \in Int /\ q >= 0 /\ Unit * q <= k /\ k < Unit * q + Unit
    BY <1>1, Division
  <2>. HIDE DEF q
  <2>3. Unit * q >= 0 /\ Unit * q \in Int
    BY <2>2
  <2>. QED
    BY <1>1, <2>1, <2>2, <2>3
<1>2. CASE k < 0
  <2>. DEFINE q == (-k) \div Unit
  <2>1. InUnits(k) = -q
    BY <1>2 DEF InUnits, Quotient
  <2>2. q \in Int /\ q >= 0 /\ Unit * q <= -k /\ -k < Unit * q + Unit
    BY <1>2, Division
  <2>. HIDE DEF q
  <2>3. Unit * q >= 0 /\ Unit * q \in Int /\ Unit * (-q) = -(Unit * q) /\ -q \in Int
    BY <2>2
  <2>. QED
    BY <1>2, <2>1, <2>2, <2>3
<1>. QED
  BY <1>1, <1>2

\* Of two multiples of the unit less than a unit apart from two ordered numbers.
LEMMA MultiplesOrdered ==
  ASSUME NEW x \in Int, NEW y \in Int, Unit * x < Unit * y + Unit
  PROVE  x <= y
<1>. Unit \in Nat \ {0}
  BY UnitAssumption
<1>1. Unit * y + Unit = Unit * (y + 1)
  OBVIOUS
<1>. SUFFICES ASSUME x >= y + 1 PROVE FALSE
  OBVIOUS
<1>2. Unit * (x - (y + 1)) >= 0
  OBVIOUS
<1>. QED
  BY <1>1, <1>2

\* Casting keeps the order of times.
LEMMA CastMonotone ==
  ASSUME NEW a \in Int, NEW b \in Int, a <= b
  PROVE  InUnits(a) <= InUnits(b)
<1>. DEFINE x == InUnits(a)
            y == InUnits(b)
<1>1. x \in Int /\ y \in Int /\ Unit * x \in Int /\ Unit * y \in Int /\ Unit \in Nat \ {0}
  BY CastTowardEpoch, UnitAssumption
<1>2. /\ a >= 0 => Unit * x <= a
      /\ a < 0 => a <= Unit * x /\ Unit * x <= 0 /\ Unit * x - a < Unit
      /\ b >= 0 => b - Unit * y < Unit /\ 0 <= Unit * y
      /\ b < 0 => b <= Unit * y
  BY CastTowardEpoch
<1>. HIDE DEF x, y
<1>3. Unit * x < Unit * y + Unit
  BY <1>1, <1>2
<1>4. x <= y
  BY <1>1, <1>3, MultiplesOrdered
<1>. QED
  BY <1>4 DEF x, y

\* A multiple of the unit is cast to the number of units, and that is the only case in
\* which nothing is lost.
LEMMA CastMultiple ==
  ASSUME NEW m \in Int
  PROVE  InUnits(Unit * m) = m
<1>. DEFINE y == InUnits(Unit * m)
<1>. Unit \in Nat \ {0}
  BY UnitAssumption
<1>1. Unit * m \in Int
  OBVIOUS
<1>2. /\ y \in Int /\ Unit * y \in Int
      /\ Unit * m >= 0 => Unit * y <= Unit * m /\ Unit * m - Unit * y < Unit
      /\ Unit * m < 0 => Unit * m <= Unit * y /\ Unit * y - Unit * m < Unit
  BY <1>1, CastTowardEpoch
<1>. HIDE DEF y
<1>3. Unit * y < Unit * m + Unit /\ Unit * m < Unit * y + Unit
  BY <1>1, <1>2
<1>4. y <= m /\ m <= y
  BY <1>2, <1>3, MultiplesOrdered
<1>5. y = m
  BY <1>2, <1>4
<1>. QED
  BY <1>5 DEF y

\* Nothing is lost of whole units, and only of them.
LEMMA CastExact ==
  ASSUME NEW k \in Int
  PROVE  Unit * InUnits(k) = k <=> k % Unit = 0
<1>. Unit \in Nat \ {0}
  BY UnitAssumption
<1>1. ASSUME Unit * InUnits(k) = k PROVE k % Unit = 0
  <2>1. InUnits(k) \in Int
    BY CastTowardEpoch
  <2>2. ASSUME NEW q \in Int, k = Unit * q PROVE k % Unit = 0
    BY <2>2
  <2>. QED
    BY <1>1, <2>1, <2>2
<1>2. ASSUME k % Unit = 0 PROVE Unit * InUnits(k) = k
  <2>1. k \div Unit \in Int /\ k = Unit * (k \div Unit)
    BY <1>2, Division
  <2>2. InUnits(k) = k \div Unit
    BY <2>1, CastMultiple
  <2>. QED
    BY <2>1, <2>2
<1>. QED
  BY <1>1, <1>2

-----------------------------------------------------------------------------
(* The invariant. *)

AnyRow == Int \X Value

\* The file holds the rows of the series before the iterator of the writer.
WrittenSoFar ==
  /\ file = "torn" /\ saved = ts /\ ~cut
  /\ Len(stored) = it - 1
  /\ it <= Len(ts) + 1
  /\ \A i \in 1..Len(stored) : stored[i] = Stored(ts[i])

\* A footer was written at the end of the loop, or before it by an exception; what was
\* written is still the series of the program, unless that has ended.
RequiredIsSaved ==
  file = "required" =>
    /\ IF cut THEN Len(stored) < Len(saved) ELSE Len(stored) = Len(saved)
    /\ \A i \in 1..Len(stored) : stored[i] = Stored(saved[i])
    /\ ts = saved \/ ts = <<>>

\* The series has been given a row for each that the reader has passed.
LoadedSoFar ==
  /\ file = "nullable"
  /\ it <= Len(stored) + 1
  /\ Len(ts) = Len(before) + (it - 1)
  /\ \A i \in 1..Len(before) : ts[i] = before[i]
  /\ wild => chunk < Len(stored)
  /\ ~wild => /\ it <= chunk + 1
              /\ \A m \in 1..(it - 1) : ts[Len(before) + m] \in Readings(stored[m])

\* Since the file was opened last, nothing has been loaded.
NotLoaded == ts = before /\ ~wild

\* What is known of the table a row came from is what the row says.
OriginsKept ==
  /\ Len(origin) = Len(ts)
  /\ \A i \in 1..Len(ts) :
       /\ origin[i][1] # Null => ts[i][1] = Unit * origin[i][1]
       /\ origin[i][2] # Null => ts[i][2] = origin[i][2]

IInv ==
  /\ TypeOK
  /\ RequiredIsSaved
  /\ OriginsKept
  /\ pc = "writing" => WrittenSoFar
  /\ pc = "reading" => LoadedSoFar /\ pass = "none"
  /\ file # "nullable" \/ pass = "invalid" => NotLoaded
  /\ LoadedSoFar \/ NotLoaded
  /\ pass = "ok" /\ file = "nullable" => LoadedSoFar /\ it = Len(stored) + 1
  /\ pass = "invalid" => file # "nullable"

-----------------------------------------------------------------------------
\* The types of what a step reads.
LEMMA Typed ==
  ASSUME TypeOK
  PROVE  /\ ts \in Seq(AnyRow) /\ saved \in Seq(AnyRow) /\ before \in Seq(AnyRow)
         /\ stored \in Seq(Cells) /\ origin \in Seq(Cells)
         /\ Len(ts) \in Nat /\ Len(saved) \in Nat /\ Len(before) \in Nat
         /\ Len(stored) \in Nat /\ Len(origin) \in Nat
         /\ DOMAIN ts = 1..Len(ts) /\ DOMAIN saved = 1..Len(saved)
         /\ DOMAIN before = 1..Len(before) /\ DOMAIN stored = 1..Len(stored)
         /\ DOMAIN origin = 1..Len(origin)
         /\ it \in Nat \ {0} /\ chunk \in Nat
<1>1. /\ ts \in Seq(AnyRow) /\ saved \in Seq(AnyRow) /\ before \in Seq(AnyRow)
      /\ stored \in Seq(Cells) /\ origin \in Seq(Cells)
  BY DEF TypeOK, AnyRow
<1>. QED
  BY <1>1, LenProperties DEF TypeOK

\* A row on its way to the file.
LEMMA StoredRow ==
  ASSUME NEW c \in AnyRow
  PROVE  /\ Stored(c) \in Cells /\ Stored(c)[1] = InUnits(c[1]) /\ Stored(c)[2] = c[2]
         /\ c[1] \in Int /\ c[2] \in Value
<1>1. c[1] \in Int /\ c[2] \in Value
  BY DEF AnyRow
<1>2. InUnits(c[1]) \in Int
  BY <1>1, CastTowardEpoch
<1>. QED
  BY <1>1, <1>2 DEF Stored, Cells

\* A row on its way from the file: of cells that are not null it has the contents.
LEMMA ReadRow ==
  ASSUME NEW c \in Cells, NEW row \in Readings(c)
  PROVE  /\ row \in AnyRow
         /\ c[1] # Null => row[1] = Unit * c[1]
         /\ c[2] # Null => row[2] = c[2]
<1>1. c[1] \in Int \cup {Null} /\ c[2] \in Value \cup {Null} /\ Unit \in Nat
  BY UnitAssumption DEF Cells
<1>2. /\ row[1] \in IF c[1] = Null THEN {g[1] : g \in Garbage} ELSE {Unit * c[1]}
      /\ row[2] \in IF c[2] = Null THEN {g[2] : g \in Garbage} ELSE {c[2]}
      /\ row = <<row[1], row[2]>>
  BY DEF Readings, TimePoint
<1>3. \A g \in Garbage : g[1] \in Int /\ g[2] \in Value
  BY GarbageAssumption, TickAssumption DEF Row
<1>4. row[1] \in Int
  <2>1. c[1] # Null => Unit * c[1] \in Int
    BY <1>1
  <2>. QED
    BY <1>2, <1>3, <2>1
<1>5. row[2] \in Value
  BY <1>1, <1>2, <1>3
<1>. QED
  BY <1>2, <1>4, <1>5 DEF AnyRow

\* A column with one more row.
LEMMA OneMoreRow ==
  ASSUME NEW S, NEW s \in Seq(S), NEW c \in S
  PROVE  /\ Append(s, c) \in Seq(S) /\ Len(Append(s, c)) = Len(s) + 1
         /\ Append(s, c)[Len(s) + 1] = c
         /\ \A i \in 1..Len(s) : Append(s, c)[i] = s[i]
         /\ Len(s) \in Nat
BY AppendProperties, LenProperties

\* The invariant holds when the program starts.
LEMMA InitIInv == Init => IInv
<1>. SUFFICES ASSUME Init PROVE IInv
  OBVIOUS
<1>1. Row \subseteq AnyRow
  BY TickAssumption DEF Row, AnyRow
<1>2. ts \in Seq(Row)
  BY SeriesAssumption DEF Init
<1>3. ts \in Seq(AnyRow) /\ Len(ts) \in Nat
  <2>1. /\ Len(ts) \in Nat /\ DOMAIN ts = 1..Len(ts)
        /\ \A i \in 1..Len(ts) : ts[i] \in AnyRow
    BY <1>1, <1>2, LenProperties
  <2>2. ts = [i \in 1..Len(ts) |-> ts[i]]
    BY <1>2, SeqDef
  <2>3. ts \in [1..Len(ts) -> AnyRow]
    BY <2>1, <2>2
  <2>. QED
    BY <2>1, <2>3, SeqDef
<1>4. Unknown \in Cells /\ Unknown[1] = Null /\ Unknown[2] = Null
  BY DEF Unknown, Cells
<1>5. origin \in Seq(Cells) /\ Len(origin) = Len(ts) /\ \A i \in 1..Len(ts) : origin[i] = Unknown
  <2>1. origin = [i \in 1..Len(ts) |-> Unknown]
    BY DEF Init
  <2>2. origin \in [1..Len(ts) -> Cells]
    BY <1>4, <2>1
  <2>3. origin \in Seq(Cells)
    BY <1>3, <2>2, SeqDef
  <2>4. DOMAIN origin = 1..Len(ts)
    BY <2>1
  <2>. QED
    BY <1>3, <2>1, <2>3, <2>4, LenProperties
<1>6. stored \in Seq(Cells)
  BY TablesAssumption, EmptySeq DEF Init
<1>7. TypeOK
  <2>1. saved \in Seq(AnyRow) /\ before \in Seq(AnyRow)
    BY <1>3, EmptySeq DEF Init
  <2>2. calls \in 0..MaxCalls /\ chunk \in Nat /\ it \in Nat \ {0}
    BY MaxCallsAssumption DEF Init
  <2>. QED
    BY <1>3, <1>5, <1>6, <2>1, <2>2 DEF Init, TypeOK, AnyRow
<1>8. OriginsKept
  BY <1>4, <1>5 DEF OriginsKept
<1>. QED
  BY <1>7, <1>8 DEF Init, IInv, RequiredIsSaved, NotLoaded

\* The status is never looked at.
LEMMA Returned ==
  ASSUME NEW status, Return(status)
  PROVE  pass' = status /\ pc' = "ready"
BY DEF Return, Accepts

\* Opening for writing truncates the file, or fails and changes nothing.
LEMMA OpenForWritingIInv ==
  ASSUME IInv, OpenForWriting
  PROVE  IInv'
<1>1. calls' \in 0..MaxCalls /\ UNCHANGED <<ts, chunk, pass, origin>>
  BY MaxCallsAssumption DEF OpenForWriting, Call, IInv, TypeOK
<1>2. CASE /\ file' = "torn" /\ stored' = <<>> /\ it' = 1 /\ pc' \in {"writing", "threw"}
           /\ saved' = ts /\ cut' = FALSE /\ before' = ts /\ wild' = FALSE
  <2>1. TypeOK'
    <3>1. {ts', saved', before'} \subseteq Seq(Int \X Value) /\ {stored', origin'} \subseteq Seq(Cells)
      BY <1>1, <1>2, EmptySeq DEF IInv, TypeOK
    <3>2. 1 \in Nat \ {0}
      OBVIOUS
    <3>3. it' \in Nat \ {0} /\ {cut', wild'} \subseteq BOOLEAN
      BY <1>2, <3>2 DEF IInv, TypeOK
    <3>. QED
      BY <1>1, <1>2, <3>1, <3>3 DEF IInv, TypeOK
  <2>2. WrittenSoFar'
    <3>1. Len(stored') = 0 /\ 1..0 = {} /\ Len(ts) \in Nat
      BY <1>2, Typed, EmptySeq DEF IInv
    <3>. QED
      BY <1>1, <1>2, <3>1 DEF WrittenSoFar
  <2>3. NotLoaded' /\ OriginsKept'
    BY <1>1, <1>2 DEF NotLoaded, OriginsKept, IInv
  <2>. QED
    BY <1>1, <1>2, <2>1, <2>2, <2>3 DEF IInv, RequiredIsSaved
<1>3. CASE pc' = "threw" /\ UNCHANGED <<file, stored, it, saved, cut, before, wild>>
  <2>1. TypeOK'
    BY <1>1, <1>3 DEF IInv, TypeOK
  <2>2. RequiredIsSaved' /\ OriginsKept'
    BY <1>1, <1>3 DEF IInv, RequiredIsSaved, OriginsKept, Stored
  <2>3. (LoadedSoFar' <=> LoadedSoFar) /\ (NotLoaded' <=> NotLoaded)
    BY <1>1, <1>3 DEF LoadedSoFar, NotLoaded, Readings, TimePoint
  <2>. QED
    BY <1>1, <1>3, <2>1, <2>2, <2>3 DEF IInv
<1>. QED
  BY <1>2, <1>3 DEF OpenForWriting

\* A row is written.
LEMMA WriteRowIInv ==
  ASSUME IInv, WriteRow
  PROVE  IInv'
<1>1. /\ pc = "writing" /\ it \in DOMAIN ts /\ it' = it + 1
      /\ stored' = Append(stored, Stored(ts[it]))
      /\ UNCHANGED <<ts, file, chunk, pc, pass, calls, saved, cut, before, origin, wild>>
  BY DEF WriteRow, history
<1>2. /\ ts \in Seq(AnyRow) /\ stored \in Seq(Cells) /\ it \in 1..Len(ts) /\ Len(ts) \in Nat
      /\ Len(stored) = it - 1 /\ file = "torn"
      /\ \A i \in 1..Len(stored) : stored[i] = Stored(ts[i])
  BY <1>1, Typed DEF IInv, WrittenSoFar
<1>3. Stored(ts[it]) \in Cells
  <2>1. ts[it] \in AnyRow
    BY <1>2, LenProperties
  <2>. QED
    BY <2>1, StoredRow
<1>4. /\ stored' \in Seq(Cells) /\ Len(stored') = Len(stored) + 1
      /\ stored'[Len(stored) + 1] = Stored(ts[it])
      /\ \A i \in 1..Len(stored) : stored'[i] = stored[i]
      /\ Len(stored) \in Nat
  BY <1>1, <1>2, <1>3, OneMoreRow
<1>5. TypeOK'
  BY <1>1, <1>2, <1>4 DEF IInv, TypeOK
<1>6. \A i \in 1..Len(stored') : stored'[i] = Stored(ts[i])
  <2>. SUFFICES ASSUME NEW i \in 1..(Len(stored) + 1) PROVE stored'[i] = Stored(ts[i])
    BY <1>4
  <2>1. CASE i \in 1..Len(stored)
    BY <1>2, <1>4, <2>1
  <2>2. CASE i = Len(stored) + 1
    <3>1. i = it
      BY <1>2, <2>2
    <3>. QED
      BY <1>4, <2>2, <3>1
  <2>. QED
    BY <1>4, <2>1, <2>2
<1>7. WrittenSoFar'
  <2>1. saved' = ts' /\ ~cut' /\ file' = "torn"
    BY <1>1 DEF IInv, WrittenSoFar
  <2>. QED
    BY <1>1, <1>2, <1>4, <1>6, <2>1 DEF WrittenSoFar, Stored
<1>8. NotLoaded' /\ OriginsKept'
  BY <1>1, <1>2 DEF IInv, NotLoaded, OriginsKept
<1>. QED
  BY <1>1, <1>2, <1>5, <1>7, <1>8 DEF IInv, RequiredIsSaved

\* The loop is left by an exception, with or without a footer.
LEMMA FailToWriteIInv ==
  ASSUME IInv, FailToWrite
  PROVE  IInv'
<1>1. /\ pc = "writing" /\ it \in DOMAIN ts /\ pc' = "threw"
      /\ UNCHANGED <<file, cut>> \/ (file' = "required" /\ cut' = TRUE)
      /\ UNCHANGED <<ts, stored, chunk, it, pass, calls, saved, before, origin, wild>>
  BY DEF FailToWrite
<1>2. WrittenSoFar /\ it \in 1..Len(ts) /\ Len(ts) \in Nat
  BY <1>1, Typed DEF IInv
<1>3. Len(stored) < Len(saved)
  BY <1>2 DEF WrittenSoFar
<1>4. TypeOK'
  BY <1>1 DEF IInv, TypeOK
<1>5. RequiredIsSaved'
  BY <1>1, <1>2, <1>3 DEF WrittenSoFar, RequiredIsSaved, Stored
<1>6. NotLoaded' /\ OriginsKept'
  BY <1>1, <1>2 DEF IInv, WrittenSoFar, NotLoaded, OriginsKept
<1>7. file' # "nullable"
  BY <1>1, <1>2 DEF WrittenSoFar
<1>. QED
  BY <1>1, <1>4, <1>5, <1>6, <1>7 DEF IInv

\* The writer is destroyed after the loop, with or without a footer.
LEMMA CloseFileIInv ==
  ASSUME IInv, CloseFile
  PROVE  IInv'
<1>1. /\ pc = "writing" /\ it \notin DOMAIN ts /\ file' \in {"torn", "required"}
      /\ pc' = "ready"
      /\ UNCHANGED <<ts, stored, chunk, it, pass, calls, saved, cut, before, origin, wild>>
  BY DEF CloseFile, history
<1>2. WrittenSoFar
  BY <1>1 DEF IInv
<1>3. Len(stored) = Len(saved)
  BY <1>1, <1>2, Typed DEF IInv, WrittenSoFar
<1>4. TypeOK'
  BY <1>1 DEF IInv, TypeOK
<1>5. RequiredIsSaved'
  BY <1>1, <1>2, <1>3 DEF WrittenSoFar, RequiredIsSaved, Stored
<1>6. NotLoaded' /\ OriginsKept'
  BY <1>1, <1>2 DEF IInv, WrittenSoFar, NotLoaded, OriginsKept
<1>. QED
  BY <1>1, <1>4, <1>5, <1>6 DEF IInv

\* A file is opened for reading, and is or is not a table of the expected schema.
LEMMA OpenForReadingIInv ==
  ASSUME IInv, OpenForReading
  PROVE  IInv'
<1>1. /\ before' = ts /\ it' = 1 /\ wild' = FALSE /\ calls' = calls + 1 /\ calls < MaxCalls
      /\ UNCHANGED <<ts, file, stored, saved, cut, origin>>
  BY DEF OpenForReading, Call
<1>2. calls' \in 0..MaxCalls
  BY <1>1, MaxCallsAssumption DEF IInv, TypeOK
<1>3. RequiredIsSaved' /\ OriginsKept' /\ NotLoaded'
  BY <1>1 DEF IInv, RequiredIsSaved, OriginsKept, NotLoaded, Stored
<1>7. /\ {ts', saved', before'} \subseteq Seq(Int \X Value)
      /\ {stored', origin'} \subseteq Seq(Cells)
      /\ file' \in {"absent", "torn", "foreign", "nullable", "required"} /\ it' \in Nat \ {0}
      /\ {cut', wild'} \subseteq BOOLEAN /\ chunk \in Nat
  <2>1. 1 \in Nat \ {0}
    OBVIOUS
  <2>2. it' \in Nat \ {0}
    BY <1>1, <2>1
  <2>. QED
    BY <1>1, <2>2 DEF IInv, TypeOK
<1>4. CASE file \in {"absent", "torn"} /\ pc' = "threw" /\ pass' = "none" /\ UNCHANGED chunk
  <2>1. TypeOK'
    BY <1>2, <1>4, <1>7 DEF TypeOK
  <2>. QED
    BY <1>1, <1>3, <1>4, <2>1 DEF IInv
<1>5. CASE file \in {"foreign", "required"} /\ Return("invalid") /\ UNCHANGED chunk
  <2>1. pass' = "invalid" /\ pc' = "ready"
    BY <1>5, Returned
  <2>2. TypeOK'
    BY <1>2, <1>5, <1>7, <2>1 DEF TypeOK
  <2>. QED
    BY <1>1, <1>3, <1>5, <2>1, <2>2 DEF IInv
<1>6. CASE /\ file = "nullable" /\ chunk' \in 0..Len(stored)
           /\ pc' = "reading" /\ pass' = "none"
  <2>1. Len(ts) \in Nat /\ Len(stored) \in Nat /\ chunk' \in Nat
    BY <1>6, Typed DEF IInv
  <2>2. TypeOK'
    BY <1>2, <1>6, <1>7, <2>1 DEF TypeOK
  <2>3. LoadedSoFar'
    <3>1. 1 <= Len(stored) + 1 /\ Len(ts) = Len(ts) + (1 - 1) /\ 1 <= chunk' + 1
      <4>. DEFINE n == chunk'
      <4>1. n \in Nat
        BY <2>1
      <4>. HIDE DEF n
      <4>2. 1 <= n + 1
        BY <4>1
      <4>3. 1 <= Len(stored) + 1 /\ Len(ts) = Len(ts) + (1 - 1)
        BY <2>1
      <4>. QED
        BY <4>2, <4>3 DEF n
    <3>2. \A m \in 1..(1 - 1) : FALSE
      OBVIOUS
    <3>. QED
      BY <1>1, <1>6, <3>1, <3>2 DEF LoadedSoFar
  <2>. QED
    BY <1>1, <1>3, <1>6, <2>2, <2>3 DEF IInv
<1>. QED
  BY <1>4, <1>5, <1>6 DEF OpenForReading

\* A row of the file, or whatever lies behind its first chunk, is appended.
LEMMA AppendRowIInv ==
  ASSUME IInv, AppendRow
  PROVE  IInv'
<1>1. /\ pc = "reading" /\ it \in DOMAIN stored /\ it' = it + 1
      /\ UNCHANGED <<file, stored, chunk, pc, pass, calls, saved, cut, before>>
  BY DEF AppendRow
<1>2. LoadedSoFar /\ OriginsKept /\ pass = "none" /\ file = "nullable"
  BY <1>1 DEF IInv, LoadedSoFar
<1>3. /\ ts \in Seq(AnyRow) /\ stored \in Seq(Cells) /\ origin \in Seq(Cells)
      /\ Len(before) \in Nat /\ Len(ts) \in Nat /\ Len(origin) = Len(ts)
      /\ it \in 1..Len(stored) /\ Len(stored) \in Nat /\ it \in Nat \ {0} /\ chunk \in Nat
  BY <1>1, <1>2, Typed DEF IInv, OriginsKept
<1>4. stored[it] \in Cells
  BY <1>3, LenProperties
<1>5. PICK row \in AnyRow, from \in Cells :
        /\ ts' = Append(ts, row) /\ origin' = Append(origin, from)
        /\ from[1] # Null => row[1] = Unit * from[1]
        /\ from[2] # Null => row[2] = from[2]
        /\ \/ it <= chunk /\ row \in Readings(stored[it]) /\ UNCHANGED wild
           \/ it > chunk /\ wild' = TRUE
  <2>1. CASE /\ it <= chunk /\ \E row \in Readings(stored[it]) : ts' = Append(ts, row)
             /\ origin' = Append(origin, stored[it]) /\ UNCHANGED wild
    <3>1. PICK row \in Readings(stored[it]) : ts' = Append(ts, row)
      BY <2>1
    <3>2. row \in AnyRow /\ (stored[it][1] # Null => row[1] = Unit * stored[it][1])
          /\ (stored[it][2] # Null => row[2] = stored[it][2])
      BY <1>4, ReadRow
    <3>. QED
      BY <1>4, <2>1, <3>1, <3>2
  <2>2. CASE /\ it > chunk /\ \E row \in Garbage : ts' = Append(ts, row)
             /\ origin' = Append(origin, Unknown) /\ wild' = TRUE
    <3>1. PICK row \in Garbage : ts' = Append(ts, row)
      BY <2>2
    <3>2. row \in AnyRow
      BY GarbageAssumption, TickAssumption DEF Row, AnyRow
    <3>3. Unknown \in Cells /\ Unknown[1] = Null /\ Unknown[2] = Null
      BY DEF Unknown, Cells
    <3>. QED
      BY <2>2, <3>1, <3>2, <3>3
  <2>. QED
    BY <2>1, <2>2 DEF AppendRow
<1>6. /\ ts' \in Seq(AnyRow) /\ Len(ts') = Len(ts) + 1 /\ ts'[Len(ts) + 1] = row
      /\ \A i \in 1..Len(ts) : ts'[i] = ts[i]
  BY <1>3, <1>5, OneMoreRow
<1>7. /\ origin' \in Seq(Cells) /\ Len(origin') = Len(ts) + 1 /\ origin'[Len(ts) + 1] = from
      /\ \A i \in 1..Len(ts) : origin'[i] = origin[i]
  BY <1>3, <1>5, OneMoreRow
<1>8. TypeOK'
  <2>1. wild' \in BOOLEAN
    <3>1. CASE UNCHANGED wild
      BY <3>1 DEF IInv, TypeOK
    <3>2. CASE wild' = TRUE
      BY <3>2
    <3>. QED
      BY <1>5, <3>1, <3>2
  <2>2. it' \in Nat \ {0}
    BY <1>1, <1>3
  <2>. QED
    BY <1>1, <1>6, <1>7, <2>1, <2>2 DEF IInv, TypeOK, AnyRow
<1>9. OriginsKept'
  <2>. SUFFICES ASSUME NEW i \in 1..(Len(ts) + 1)
                PROVE  /\ origin'[i][1] # Null => ts'[i][1] = Unit * origin'[i][1]
                       /\ origin'[i][2] # Null => ts'[i][2] = origin'[i][2]
    BY <1>6, <1>7 DEF OriginsKept
  <2>1. CASE i \in 1..Len(ts)
    BY <1>2, <1>6, <1>7, <2>1 DEF OriginsKept
  <2>2. CASE i = Len(ts) + 1
    BY <1>5, <1>6, <1>7, <2>2
  <2>. QED
    BY <1>3, <2>1, <2>2
<1>10. LoadedSoFar'
  <2>1. /\ it' <= Len(stored) + 1 /\ Len(ts) = Len(before) + (it - 1)
        /\ Len(ts') = Len(before) + (it' - 1)
    BY <1>1, <1>2, <1>3, <1>6 DEF LoadedSoFar
  <2>2. \A i \in 1..Len(before) : ts'[i] = before[i]
    <3>1. \A i \in 1..Len(before) : i \in 1..Len(ts)
      BY <1>3, <2>1
    <3>. QED
      BY <1>2, <1>6, <3>1 DEF LoadedSoFar
  <2>3. wild' => chunk < Len(stored)
    <3>1. it > chunk => chunk < Len(stored)
      BY <1>3
    <3>2. wild => chunk < Len(stored)
      BY <1>2 DEF LoadedSoFar
    <3>. QED
      BY <1>5, <3>1, <3>2
  <2>4. ASSUME ~wild' PROVE it' <= chunk + 1
    <3>1. it <= chunk
      BY <1>5, <2>4
    <3>. QED
      BY <1>1, <1>3, <3>1
  <2>5. ASSUME ~wild', NEW m \in 1..it PROVE ts'[Len(before) + m] \in Readings(stored[m])
    <3>1. it <= chunk /\ ~wild /\ row \in Readings(stored[it])
      BY <1>5, <2>5
    <3>2. CASE m \in 1..(it - 1)
      <4>1. Len(before) + m \in 1..Len(ts)
        BY <1>3, <2>1, <3>2
      <4>. QED
        BY <1>2, <1>6, <3>1, <3>2, <4>1 DEF LoadedSoFar
    <3>3. CASE m = it
      <4>1. Len(before) + m = Len(ts) + 1
        BY <1>3, <2>1, <3>3
      <4>. QED
        BY <1>6, <3>1, <3>3, <4>1
    <3>. QED
      BY <1>3, <3>2, <3>3
  <2>6. it' - 1 = it
    BY <1>1, <1>3
  <2>. QED
    BY <1>1, <1>2, <2>1, <2>2, <2>3, <2>4, <2>5, <2>6 DEF LoadedSoFar, Readings, TimePoint
<1>. QED
  BY <1>1, <1>2, <1>8, <1>9, <1>10 DEF IInv, RequiredIsSaved

\* Appending throws, or the read outside the chunk is fatal.
LEMMA FailToAppendIInv ==
  ASSUME IInv, FailToAppend
  PROVE  IInv'
<1>1. /\ pc = "reading" /\ it \in DOMAIN stored /\ pc' = "threw"
      /\ wild' = (wild \/ it > chunk)
      /\ UNCHANGED <<ts, file, stored, chunk, it, pass, calls, saved, cut, before, origin>>
  BY DEF FailToAppend
<1>2. LoadedSoFar /\ pass = "none" /\ file = "nullable"
  BY <1>1 DEF IInv, LoadedSoFar
<1>3. it \in 1..Len(stored) /\ Len(stored) \in Nat /\ it \in Nat /\ chunk \in Nat
  BY <1>1, Typed DEF IInv
<1>4. TypeOK' /\ OriginsKept'
  BY <1>1 DEF IInv, TypeOK, OriginsKept
<1>5. wild' => chunk < Len(stored)
  <2>1. it > chunk => chunk < Len(stored)
    BY <1>3
  <2>2. wild => chunk < Len(stored)
    BY <1>2 DEF LoadedSoFar
  <2>. QED
    BY <1>1, <2>1, <2>2
<1>6. ~wild' => ~wild
  BY <1>1
<1>7. LoadedSoFar'
  BY <1>1, <1>2, <1>5, <1>6 DEF LoadedSoFar, Readings, TimePoint
<1>. QED
  BY <1>1, <1>2, <1>4, <1>7 DEF IInv, RequiredIsSaved

\* All rows of the file have been read.
LEMMA ReturnOKIInv ==
  ASSUME IInv, ReturnOK
  PROVE  IInv'
<1>1. /\ pc = "reading" /\ it \notin DOMAIN stored
      /\ pass' = "ok" /\ pc' = "ready"
      /\ UNCHANGED <<ts, file, stored, chunk, it, calls, saved, cut, before, origin, wild>>
  BY Returned DEF ReturnOK, history
<1>2. LoadedSoFar
  BY <1>1 DEF IInv
<1>3. it = Len(stored) + 1
  <2>1. it <= Len(stored) + 1
    BY <1>2 DEF LoadedSoFar
  <2>2. it \notin 1..Len(stored) /\ it \in Nat \ {0} /\ Len(stored) \in Nat
    BY <1>1, Typed DEF IInv
  <2>. QED
    BY <2>1, <2>2
<1>4. TypeOK' /\ OriginsKept'
  BY <1>1 DEF IInv, TypeOK, OriginsKept
<1>5. LoadedSoFar' /\ file' = "nullable"
  BY <1>1, <1>2 DEF LoadedSoFar, Readings, TimePoint
<1>. QED
  BY <1>1, <1>3, <1>4, <1>5 DEF IInv, RequiredIsSaved

\* The program ends and another one is started.
LEMMA RestartIInv ==
  ASSUME IInv, Restart
  PROVE  IInv'
<1>1. /\ ts' = <<>> /\ pc' = "ready" /\ pass' = "none"
      /\ before' = <<>> /\ origin' = <<>> /\ wild' = FALSE
      /\ UNCHANGED <<file, stored, chunk, it, calls, saved, cut>>
  BY DEF Restart
<1>2. TypeOK'
  BY <1>1, EmptySeq DEF IInv, TypeOK
<1>3. OriginsKept'
  <2>1. Len(ts') = 0 /\ Len(origin') = 0 /\ 1..0 = {}
    BY <1>1, EmptySeq
  <2>. QED
    BY <2>1 DEF OriginsKept
<1>. QED
  BY <1>1, <1>2, <1>3 DEF IInv, RequiredIsSaved, NotLoaded, Stored

\* Every step preserves the invariant.
LEMMA NextIInv == IInv /\ [Next]_vars => IInv'
<1>. SUFFICES ASSUME IInv, [Next]_vars PROVE IInv'
  OBVIOUS
<1>1. CASE UNCHANGED vars
  <2>1. UNCHANGED <<ts, file, stored, chunk, it, pc, pass, calls,
                    saved, cut, before, origin, wild>>
    BY <1>1 DEF vars, history
  <2>2. (TypeOK' <=> TypeOK) /\ (RequiredIsSaved' <=> RequiredIsSaved)
        /\ (OriginsKept' <=> OriginsKept) /\ (NotLoaded' <=> NotLoaded)
    BY <2>1 DEF TypeOK, RequiredIsSaved, OriginsKept, NotLoaded
  <2>3. (WrittenSoFar' <=> WrittenSoFar) /\ (LoadedSoFar' <=> LoadedSoFar)
    BY <2>1 DEF WrittenSoFar, LoadedSoFar, Stored, Readings, TimePoint
  <2>. QED
    BY <2>1, <2>2, <2>3 DEF IInv
<1>. QED
  BY <1>1, OpenForWritingIInv, WriteRowIInv, FailToWriteIInv, CloseFileIInv,
     OpenForReadingIInv, AppendRowIInv, FailToAppendIInv, ReturnOKIInv, RestartIInv DEF Next

\* The invariant holds throughout.
THEOREM Invariance == Spec => []IInv
BY InitIInv, NextIInv, PTL DEF Spec

\* Everything keeps its type.
THEOREM TypeCorrect == Spec => []TypeOK
<1>1. IInv => TypeOK
  BY DEF IInv
<1>. QED
  BY <1>1, Invariance, PTL

\* The rows of a file that the writer has finished, or has had to leave.
LEMMA RequiredRows ==
  ASSUME IInv, file = "required"
  PROVE  /\ saved \in Seq(AnyRow) /\ Len(saved) \in Nat /\ Len(stored) \in Nat
         /\ DOMAIN saved = 1..Len(saved) /\ DOMAIN stored = 1..Len(stored)
         /\ Len(stored) <= Len(saved) /\ (cut <=> Len(stored) < Len(saved))
         /\ \A i \in DOMAIN stored :
              /\ saved[i] \in AnyRow /\ saved[i][1] \in Int /\ saved[i][2] \in Value
              /\ stored[i][1] = InUnits(saved[i][1]) /\ stored[i][2] = saved[i][2]
<1>1. /\ saved \in Seq(AnyRow) /\ Len(saved) \in Nat /\ Len(stored) \in Nat
      /\ DOMAIN saved = 1..Len(saved) /\ DOMAIN stored = 1..Len(stored)
      /\ IF cut THEN Len(stored) < Len(saved) ELSE Len(stored) = Len(saved)
      /\ \A i \in 1..Len(stored) : stored[i] = Stored(saved[i])
  BY Typed DEF IInv, RequiredIsSaved
<1>2. Len(stored) <= Len(saved) /\ (cut <=> Len(stored) < Len(saved))
  <2>1. CASE cut
    BY <1>1, <2>1
  <2>2. CASE ~cut
    <3>1. Len(stored) = Len(saved)
      BY <1>1, <2>2
    <3>2. ~(Len(stored) < Len(saved)) /\ Len(stored) <= Len(saved)
      BY <1>1, <3>1
    <3>. QED
      BY <2>2, <3>2
  <2>. QED
    BY <2>1, <2>2
<1>3. ASSUME NEW i \in DOMAIN stored PROVE saved[i] \in AnyRow
  <2>. DEFINE m == Len(stored)
              n == Len(saved)
  <2>1. m \in Nat /\ n \in Nat /\ m <= n /\ i \in 1..m
    BY <1>1, <1>2
  <2>. HIDE DEF m, n
  <2>2. i \in 1..n
    BY <2>1
  <2>3. i \in 1..Len(saved)
    BY <2>2 DEF n
  <2>. QED
    BY <1>1, <2>3, LenProperties
<1>4. ASSUME NEW i \in DOMAIN stored
      PROVE  /\ saved[i] \in AnyRow /\ saved[i][1] \in Int /\ saved[i][2] \in Value
             /\ stored[i][1] = InUnits(saved[i][1]) /\ stored[i][2] = saved[i][2]
  <2>1. stored[i] = Stored(saved[i])
    BY <1>1
  <2>. QED
    BY <1>3, <2>1, StoredRow
<1>. QED
  BY <1>1, <1>2, <1>4

\* Wherever the program is killed, a file of the writer that can be opened holds the rows
\* it was given, each key moved toward the epoch by less than a unit, in the same order;
\* all of them unless a row could not be written.
THEOREM WholeFilesComplete == Spec => []WholeFilesAreComplete
<1>1. IInv => WholeFilesAreComplete
  <2>. SUFFICES ASSUME IInv, file = "required" PROVE WholeFilesAreComplete
    BY DEF WholeFilesAreComplete
  <2>1. /\ Len(stored) <= Len(saved) /\ (cut <=> Len(stored) < Len(saved))
        /\ \A i \in DOMAIN stored :
             /\ saved[i][1] \in Int
             /\ stored[i][1] = InUnits(saved[i][1]) /\ stored[i][2] = saved[i][2]
    BY RequiredRows
  <2>4. ASSUME NEW i \in DOMAIN stored
        PROVE  LET k == saved[i][1]
                   s == Unit * stored[i][1]
               IN /\ stored[i][2] = saved[i][2]
                  /\ IF k >= 0 THEN 0 <= s /\ s <= k /\ k - s < Unit
                     ELSE k <= s /\ s <= 0 /\ s - k < Unit
    <3>. DEFINE k == saved[i][1]
    <3>1. k \in Int /\ stored[i][1] = InUnits(k) /\ stored[i][2] = saved[i][2]
      BY <2>1
    <3>. HIDE DEF k
    <3>2. IF k >= 0
          THEN /\ 0 <= Unit * InUnits(k) /\ Unit * InUnits(k) <= k
               /\ k - Unit * InUnits(k) < Unit
          ELSE /\ k <= Unit * InUnits(k) /\ Unit * InUnits(k) <= 0
               /\ Unit * InUnits(k) - k < Unit
      BY <3>1, CastTowardEpoch
    <3>. QED
      BY <3>1, <3>2 DEF k
  <2>5. ASSUME NEW i \in DOMAIN stored, NEW j \in DOMAIN stored, saved[i][1] <= saved[j][1]
        PROVE  stored[i][1] <= stored[j][1]
    BY <2>1, <2>5, CastMonotone
  <2>. QED
    BY <2>1, <2>4, <2>5 DEF WholeFilesAreComplete
<1>. QED
  BY <1>1, Invariance, PTL

\* The rows that were added.
LEMMA AddedRows ==
  ASSUME TypeOK, NEW n \in Nat, Len(ts) = Len(before) + n
  PROVE  /\ Added \in Seq(AnyRow) /\ Len(Added) = n /\ DOMAIN Added = 1..n
         /\ \A i \in 1..n : Added[i] = ts[Len(before) + i]
<1>1. /\ Len(before) \in Nat /\ Len(ts) - Len(before) = n
      /\ ts \in Seq(AnyRow) /\ DOMAIN ts = 1..Len(ts)
  BY Typed
<1>2. \A i \in 1..n : Len(before) + i \in 1..Len(ts)
  BY <1>1
<1>3. Added = [i \in 1..n |-> ts[Len(before) + i]]
  BY <1>1 DEF Added
<1>4. \A i \in 1..n : ts[Len(before) + i] \in AnyRow
  BY <1>1, <1>2, LenProperties
<1>5. Added \in [1..n -> AnyRow]
  BY <1>3, <1>4
<1>6. Added \in Seq(AnyRow)
  BY <1>5, SeqDef
<1>7. DOMAIN Added = 1..n
  BY <1>3
<1>8. Len(Added) = n
  BY <1>6, <1>7, LenProperties
<1>. QED
  BY <1>3, <1>6, <1>7, <1>8

\* Nothing was added by a load that did not get to the table.
LEMMA NothingAdded ==
  ASSUME TypeOK, NotLoaded
  PROVE  Added = <<>> /\ DOMAIN Added = {}
<1>1. Len(ts) \in Nat /\ Len(before) = Len(ts)
  BY Typed DEF NotLoaded
<1>2. Len(ts) = Len(before) + 0 /\ 0 \in Nat
  BY <1>1
<1>3. Added \in Seq(AnyRow) /\ Len(Added) = 0 /\ DOMAIN Added = 1..0
  BY <1>2, AddedRows
<1>. QED
  BY <1>3, EmptySeq

\* Loading appends the rows of a table of the expected schema to what the series held,
\* all of them if it returned OK, and nothing of any other file.
THEOREM ReadingAppends == Spec => []ReadsAppend
<1>1. IInv => ReadsAppend
  <2>. SUFFICES ASSUME IInv PROVE ReadsAppend
    OBVIOUS
  <2>1. /\ TypeOK /\ Len(before) \in Nat /\ DOMAIN before = 1..Len(before)
        /\ Len(ts) \in Nat /\ Len(stored) \in Nat /\ it \in Nat \ {0} /\ chunk \in Nat
    BY Typed DEF IInv
  <2>2. pass = "invalid" \/ file # "nullable" => Added = <<>>
    BY <2>1, NothingAdded DEF IInv
  <2>3. ASSUME pass = "ok", file = "nullable"
        PROVE  Len(Added) = Len(stored) /\ (chunk < Len(stored) => wild)
    <3>1. LoadedSoFar /\ it = Len(stored) + 1
      BY <2>3 DEF IInv
    <3>2. Len(ts) = Len(before) + Len(stored) /\ (~wild => Len(stored) + 1 <= chunk + 1)
      BY <2>1, <3>1 DEF LoadedSoFar
    <3>. QED
      BY <2>1, <3>2, AddedRows
  <2>4. CASE NotLoaded
    <3>1. DOMAIN Added = {} /\ Len(ts) = Len(before)
      BY <2>1, <2>4, NothingAdded DEF NotLoaded
    <3>. QED
      BY <2>1, <2>2, <2>3, <2>4, <3>1 DEF ReadsAppend, NotLoaded
  <2>5. CASE LoadedSoFar
    <3>. DEFINE n == it - 1
    <3>1. /\ n \in Nat /\ Len(ts) = Len(before) + n
          /\ \A i \in 1..Len(before) : ts[i] = before[i]
          /\ wild => chunk < Len(stored)
      BY <2>1, <2>5 DEF LoadedSoFar
    <3>2. /\ DOMAIN Added = 1..n
          /\ \A i \in 1..n : Added[i] = ts[Len(before) + i]
      BY <2>1, <3>1, AddedRows
    <3>4. Len(before) <= Len(ts)
      BY <2>1, <3>1
    <3>5. ASSUME ~wild PROVE \A i \in DOMAIN Added : Added[i] \in Readings(stored[i])
      BY <2>5, <3>2, <3>5 DEF LoadedSoFar
    <3>. QED
      BY <2>1, <2>2, <2>3, <3>1, <3>4, <3>5 DEF ReadsAppend
  <2>. QED
    BY <2>4, <2>5 DEF IInv
<1>. QED
  BY <1>1, Invariance, PTL

\* A value equals itself in the sense of flex_compare unless it is infinite.
LEMMA FlexReflexive ==
  ASSUME NEW x \in Value
  PROVE  FlexCompare(x, x) <=> x \notin {PosInf, NegInf}
<1>1. x \in Int => FlexCompare(x, x) /\ x \notin {PosInf, NegInf}
  BY EpsilonAssumption, FloatAssumption DEF FlexCompare, Near
<1>2. x = NaN => FlexCompare(x, x) /\ x \notin {PosInf, NegInf}
  BY FloatAssumption DEF FlexCompare
<1>3. x \in {PosInf, NegInf} => ~FlexCompare(x, x)
  BY FloatAssumption DEF FlexCompare
<1>4. x \in Int \/ x = NaN \/ x \in {PosInf, NegInf}
  BY ValueAssumption
<1>. QED
  BY <1>1, <1>2, <1>3, <1>4

\* A cell of a table that was loaded is written as it was.
LEMMA CopiedCell ==
  ASSUME OriginsKept, TypeOK, NEW i \in DOMAIN origin, stored[i] = Stored(ts[i])
  PROVE  /\ origin[i][1] # Null => stored[i][1] = origin[i][1]
         /\ origin[i][2] # Null => stored[i][2] = origin[i][2]
<1>1. i \in 1..Len(ts) /\ ts[i] \in AnyRow /\ origin[i] \in Cells
  BY Typed, LenProperties DEF OriginsKept
<1>2. stored[i][1] = InUnits(ts[i][1]) /\ stored[i][2] = ts[i][2]
  BY <1>1, StoredRow
<1>3. ASSUME origin[i][1] # Null PROVE stored[i][1] = origin[i][1]
  <2>1. origin[i][1] \in Int /\ ts[i][1] = Unit * origin[i][1]
    BY <1>1, <1>3 DEF OriginsKept, Cells
  <2>. QED
    BY <1>2, <2>1, CastMultiple
<1>. QED
  BY <1>1, <1>2, <1>3 DEF OriginsKept

\* Between loading and saving no cell changes that was read from a table, and any other
\* series is equal to what was saved of it exactly if its keys are whole units and its
\* values finite or NaN.
THEOREM RoundTripKeeps == Spec => []RoundTrip
<1>1. ASSUME IInv, pc = "writing" \/ file = "required",
             NEW i \in DOMAIN stored \cap DOMAIN origin, NEW c \in 1..2,
             origin[i][c] # Null
      PROVE  stored[i][c] = origin[i][c]
  <2>1. i \in 1..Len(stored) /\ i \in 1..Len(ts) /\ Len(ts) \in Nat /\ c \in {1, 2}
    BY <1>1, Typed DEF IInv, OriginsKept
  <2>2. ts # <<>>
    BY <2>1, EmptySeq
  <2>3. stored[i] = Stored(ts[i])
    BY <1>1, <2>1, <2>2 DEF IInv, WrittenSoFar, RequiredIsSaved
  <2>. QED
    BY <1>1, <2>1, <2>3, CopiedCell DEF IInv
<1>2. ASSUME IInv, file = "required", ~cut
      PROVE  /\ SameSeries(Contents, saved) <=> Exact(saved)
             /\ SameSeries(saved, Contents) <=> Exact(saved)
  <2>1. /\ Len(stored) = Len(saved) /\ Len(saved) \in Nat
        /\ DOMAIN saved = 1..Len(saved) /\ DOMAIN stored = 1..Len(saved)
    BY <1>2, RequiredRows DEF IInv, RequiredIsSaved
  <2>2. ASSUME NEW i \in 1..Len(saved)
        PROVE  /\ saved[i][1] \in Int /\ saved[i][2] \in Value
               /\ stored[i][1] = InUnits(saved[i][1]) /\ stored[i][2] = saved[i][2]
    BY <1>2, <2>1, RequiredRows
  <2>3. /\ Contents = [i \in 1..Len(saved) |-> <<Unit * stored[i][1], stored[i][2]>>]
        /\ DOMAIN Contents = 1..Len(saved)
    BY <2>1 DEF Contents
  <2>4. Len(Contents) = Len(saved)
    <3>1. \A i \in 1..Len(saved) : <<Unit * stored[i][1], stored[i][2]>> \in AnyRow
      BY <2>2, CastTowardEpoch DEF AnyRow
    <3>2. Contents \in [1..Len(saved) -> AnyRow]
      BY <2>3, <3>1
    <3>3. Contents \in Seq(AnyRow)
      BY <2>1, <3>2, SeqDef
    <3>4. Len(Contents) \in Nat /\ DOMAIN Contents = 1..Len(Contents)
      BY <3>3, LenProperties
    <3>. DEFINE m == Len(Contents)
                n == Len(saved)
    <3>5. m \in Nat /\ n \in Nat /\ 1..m = 1..n
      BY <2>1, <2>3, <3>4
    <3>. HIDE DEF m, n
    <3>6. m = n
      BY <3>5
    <3>. QED
      BY <3>6 DEF m, n
  <2>5. ASSUME NEW i \in 1..Len(saved)
        PROVE  /\ Contents[i][1] = saved[i][1] <=> saved[i][1] % Unit = 0
               /\ Contents[i][2] = saved[i][2]
               /\ FlexCompare(saved[i][2], saved[i][2]) <=> saved[i][2] \notin {PosInf, NegInf}
    <3>1. /\ Contents[i][1] = Unit * InUnits(saved[i][1])
          /\ Contents[i][2] = saved[i][2]
      BY <2>2, <2>3
    <3>. QED
      BY <2>2, <3>1, CastExact, FlexReflexive
  <2>6. SameSeries(Contents, saved) <=> Exact(saved)
    BY <2>1, <2>3, <2>4, <2>5 DEF SameSeries, Exact
  <2>7. SameSeries(saved, Contents) <=> Exact(saved)
    BY <2>1, <2>3, <2>4, <2>5 DEF SameSeries, Exact
  <2>. QED
    BY <2>6, <2>7
<1>3. IInv => RoundTrip
  BY <1>1, <1>2 DEF RoundTrip
<1>. QED
  BY <1>3, Invariance, PTL
=============================================================================
