------------------------------ MODULE ParquetIO ------------------------------
(***************************************************************************)
(* parquet_utils.cpp and the programs of parquet_tests.cpp around it: a    *)
(* program with one series loads a file into it and saves it to that file, *)
(* as often as it likes, until something throws or it is killed, and the   *)
(* next program starts.                                                    *)
(*                                                                         *)
(* Of Arrow: a file without its footer cannot be opened; the footer is     *)
(* written when the StreamWriter is destroyed, also by an exception, and   *)
(* the destructor keeps it to itself if that fails; the columns that the   *)
(* writer declares REQUIRED come back as fields that are not nullable; how *)
(* a table that was read is divided into chunks is up to Arrow.            *)
(***************************************************************************)
EXTENDS Chrono, Equality

CONSTANTS Tick,     \* the keys that occur, as tick counts
          Value,    \* the floating-point values that occur
          Null,     \* a cell of a nullable column that holds nothing
          Series,   \* the series the first program makes by itself
          Tables,   \* the tables that other programs have left in the file
          Garbage,  \* bound: the rows that null cells and what lies outside a chunk read as
          MaxCalls  \* bound: how often the file is opened

Row == Tick \X Value

\* A row of a table: <<milliseconds, value>>.
Cells == (Int \cup {Null}) \X (Value \cup {Null})

ASSUME TickAssumption     == Tick \subseteq Int
ASSUME ValueAssumption    == Value \subseteq Int \cup {NaN, PosInf, NegInf}
ASSUME NullAssumption     == Null \notin Int \cup Value
ASSUME SeriesAssumption   == Series \subseteq Seq(Row)
ASSUME TablesAssumption   == Tables \subseteq Seq(Cells)
ASSUME GarbageAssumption  == Garbage \subseteq Row
ASSUME MaxCallsAssumption == MaxCalls \in Nat

VARIABLES ts,      \* the series of the program
          file,    \* "absent", "torn" (no footer), "foreign" (of another schema), "nullable"
                   \* (of the schema that is expected), "required" (of the writer's schema)
          stored,  \* the rows written to the file
          chunk,   \* the rows in chunk(0) of the table being read
          it,      \* il of the writer, i + 1 of the reader
          pc,      \* "ready", "writing", "reading", "threw", "reported"
          pass,    \* the status that the last load of this program returned
          calls,   \* how often the file has been opened
          saved,   \* history: the series that was given to be written
          cut,     \* history: a footer was written although a row could not be
          before,  \* history: the series when the file was last opened
          origin,  \* history: the row of a table that each row of ts was loaded from
          wild     \* history: the last load read a row outside chunk(0)

history == <<saved, cut, before, origin, wild>>

vars == <<ts, file, stored, chunk, it, pc, pass, calls, history>>

\* The origin of a row that was not loaded from a table.
Unknown == <<Null, Null>>

Init ==
  /\ ts \in Series
  /\ \/ file \in {"absent", "foreign"} /\ stored = <<>>
     \/ file = "nullable" /\ stored \in Tables
  /\ chunk = 0 /\ it = 1 /\ pc = "ready" /\ pass = "none" /\ calls = 0
  /\ saved = <<>> /\ cut = FALSE /\ before = ts /\ wild = FALSE
  /\ origin = [i \in 1..Len(ts) |-> Unknown]

Call == pc = "ready" /\ calls < MaxCalls /\ calls' = calls + 1

\* FileOutputStream::Open truncates the file, or throws; then the writer is set up, or
\* that throws.
OpenForWriting ==
  /\ Call
  /\ \/ /\ file' = "torn" /\ stored' = <<>> /\ it' = 1 /\ pc' \in {"writing", "threw"}
        /\ saved' = ts /\ cut' = FALSE /\ before' = ts /\ wild' = FALSE
     \/ pc' = "threw" /\ UNCHANGED <<file, stored, it, saved, cut, before, wild>>
  /\ UNCHANGED <<ts, chunk, pass, origin>>

\* Mutants: rounded down instead of truncated; key and value swapped.
StoredFloor(row) == <<row[1] \div Unit, row[2]>>

StoredSwapped(row) == <<row[2], InUnits(row[1])>>

\* duration_cast to milliseconds.
Stored(row) == <<InUnits(row[1]), row[2]>>

\* os << dt << value << EndRow
WriteRow ==
  /\ pc = "writing" /\ it \in DOMAIN ts
  /\ stored' = Append(stored, Stored(ts[it])) /\ it' = it + 1
  /\ UNCHANGED <<ts, file, chunk, pc, pass, calls, history>>

\* A row cannot be written; the writer is destroyed on the way out.
FailToWrite ==
  /\ pc = "writing" /\ it \in DOMAIN ts
  /\ pc' = "threw"
  /\ \/ UNCHANGED <<file, cut>>
     \/ file' = "required" /\ cut' = TRUE
  /\ UNCHANGED <<ts, stored, chunk, it, pass, calls, saved, before, origin, wild>>

\* Whether or not the destructor of the writer got the footer out.
CloseFile ==
  /\ pc = "writing" /\ it \notin DOMAIN ts
  /\ file' \in {"torn", "required"} /\ pc' = "ready"
  /\ UNCHANGED <<ts, stored, chunk, it, pass, calls, history>>

\* pass.OK().ok(): OK is a static function, which makes a status that is ok whatever
\* the one in pass is.
Accepts(status) == TRUE

Return(status) ==
  /\ pass' = status
  /\ pc' = IF Accepts(status) THEN "ready" ELSE "reported"

\* A file that is not there or has no footer makes the readers of Arrow throw; a table
\* of another schema is returned as Status::Invalid, and the writer's is another one:
\* its columns are REQUIRED, the fields expected here are nullable.
OpenForReading ==
  /\ Call
  /\ before' = ts /\ it' = 1 /\ wild' = FALSE
  /\ \/ file \in {"absent", "torn"} /\ pc' = "threw" /\ pass' = "none" /\ UNCHANGED chunk
     \/ file \in {"foreign", "required"} /\ Return("invalid") /\ UNCHANGED chunk
     \/ file = "nullable" /\ chunk' \in 0..Len(stored) /\ pc' = "reading" /\ pass' = "none"
  /\ UNCHANGED <<ts, file, stored, saved, cut, origin>>

\* Mutant: the milliseconds are taken for ticks.
TimePointOfTicks(t_pre) == t_pre

\* time_point(milliseconds)
TimePoint(t_pre) == Unit * t_pre

\* What Value(i) can return for the two columns; whether the cell is null is not asked.
Readings(cell) ==
  (IF cell[1] = Null THEN {row[1] : row \in Garbage} ELSE {TimePoint(cell[1])})
    \X (IF cell[2] = Null THEN {row[2] : row \in Garbage} ELSE {cell[2]})

\* chunk(0) holds the first rows of the table only; what lies behind it is any row.
AppendRow ==
  /\ pc = "reading" /\ it \in DOMAIN stored
  /\ \/ /\ it <= chunk
        /\ \E row \in Readings(stored[it]) : ts' = Append(ts, row)
        /\ origin' = Append(origin, stored[it]) /\ UNCHANGED wild
     \/ /\ it > chunk
        /\ \E row \in Garbage : ts' = Append(ts, row)
        /\ origin' = Append(origin, Unknown) /\ wild' = TRUE
  /\ it' = it + 1
  /\ UNCHANGED <<file, stored, chunk, pc, pass, calls, saved, cut, before>>

\* insert_end finds no memory, or the read outside the chunk is fatal.
FailToAppend ==
  /\ pc = "reading" /\ it \in DOMAIN stored
  /\ pc' = "threw" /\ wild' = (wild \/ it > chunk)
  /\ UNCHANGED <<ts, file, stored, chunk, it, pass, calls, saved, cut, before, origin>>

\* Mutant: the loop ends with the chunk.
ReturnOKAtChunk ==
  /\ pc = "reading" /\ it > chunk
  /\ Return("ok")
  /\ UNCHANGED <<ts, file, stored, chunk, it, calls, history>>

ReturnOK ==
  /\ pc = "reading" /\ it \notin DOMAIN stored
  /\ Return("ok")
  /\ UNCHANGED <<ts, file, stored, chunk, it, calls, history>>

\* The program ends, on its own, by an exception or killed, and one that loads into an
\* empty series, as all of parquet_tests.cpp do, is started.
Restart ==
  /\ ts' = <<>> /\ pc' = "ready" /\ pass' = "none"
  /\ before' = <<>> /\ origin' = <<>> /\ wild' = FALSE
  /\ UNCHANGED <<file, stored, chunk, it, calls, saved, cut>>

Next ==
  \/ OpenForWriting \/ WriteRow \/ FailToWrite \/ CloseFile
  \/ OpenForReading \/ AppendRow \/ FailToAppend \/ ReturnOK
  \/ Restart

Spec == Init /\ [][Next]_vars
-----------------------------------------------------------------------------
(* Properties. *)

TypeOK ==
  /\ {ts, saved, before} \subseteq Seq(Int \X Value)
  /\ {stored, origin} \subseteq Seq(Cells)
  /\ file \in {"absent", "torn", "foreign", "nullable", "required"}
  /\ chunk \in Nat /\ it \in Nat \ {0} /\ calls \in 0..MaxCalls
  /\ pc \in {"ready", "writing", "reading", "threw", "reported"}
  /\ pass \in {"none", "ok", "invalid"}
  /\ {cut, wild} \subseteq BOOLEAN

\* A file of the writer that has a footer holds the rows of the series that
\* time_series_to_file was given, each key less than a unit nearer to the epoch, and
\* never swaps two keys.  Wherever the program was killed it holds all of them; only an
\* exception in the loop can make it a short one, and then it holds the first ones.
WholeFilesAreComplete ==
  file = "required" =>
    /\ Len(stored) <= Len(saved)
    /\ cut <=> Len(stored) < Len(saved)
    /\ \A i \in DOMAIN stored :
         LET k == saved[i][1]
             s == Unit * stored[i][1]
         IN /\ stored[i][2] = saved[i][2]
            /\ IF k >= 0 THEN 0 <= s /\ s <= k /\ k - s < Unit
               ELSE k <= s /\ s <= 0 /\ s - k < Unit
    /\ \A i, j \in DOMAIN stored :
         saved[i][1] <= saved[j][1] => stored[i][1] <= stored[j][1]

\* What time_series_from_file leaves in the series it was given: what was there, then
\* rows of the file; all of them if it returned OK, none if the schema was another one
\* or there is no table, and so nothing of what time_series_to_file has written.  It
\* reads outside chunk(0) exactly if the table has more rows, and gets each cell inside
\* that is not null.
Added == [i \in 1..(Len(ts) - Len(before)) |-> ts[Len(before) + i]]

ReadsAppend ==
  /\ Len(before) <= Len(ts)
  /\ \A i \in DOMAIN before : ts[i] = before[i]
  /\ pass = "invalid" \/ file # "nullable" => Added = <<>>
  /\ pass = "ok" /\ file = "nullable" =>
       Len(Added) = Len(stored) /\ (chunk < Len(stored) => wild)
  /\ wild => chunk < Len(stored)
  /\ ~wild => \A i \in DOMAIN Added : Added[i] \in Readings(stored[i])

\* Loading a table and saving the series gives a file with the cells of that table, as
\* far as they were not null and not outside the chunk: between the two no key loses
\* anything.  Of any other series the file holds an equal one, on either side of
\* operator==, exactly if its keys are whole units and no value is infinite.
Contents == [i \in 1..Len(stored) |-> <<Unit * stored[i][1], stored[i][2]>>]

Exact(s) == \A i \in DOMAIN s : s[i][1] % Unit = 0 /\ s[i][2] \notin {PosInf, NegInf}

RoundTrip ==
  /\ pc = "writing" \/ file = "required" =>
       \A i \in DOMAIN stored \cap DOMAIN origin : \A c \in 1..2 :
         origin[i][c] # Null => stored[i][c] = origin[i][c]
  /\ file = "required" /\ ~cut =>
       /\ SameSeries(Contents, saved) <=> Exact(saved)
       /\ SameSeries(saved, Contents) <=> Exact(saved)

\* parquet_tests.cpp:127-135: a program saves its series if it was loaded, and reports
\* "error encountered while reading source file" if not.
SavesOnlyWhatWasLoaded == pc = "writing" => pass # "invalid"
=============================================================================
