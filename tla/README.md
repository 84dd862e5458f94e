# TLA+ models of tspp

tspp is a header-only C++17 library of time series: a container of dated values and the operations
analysts apply to it (lookups, filters, lags, joins, as-of merges, resampling, rolling windows). This
directory holds TLA+ models of it, TLC configurations that check them, and TLAPS proofs. Paths below
are relative to the repository; `time_series.hpp` is `include/tspp/time_series.hpp`, the other headers
are in `include/tspp/common/`.

## 1. The system

Everything is sequential: there are no threads, no locks and no callbacks that outlive a call. The library
persists nothing; the example programs keep series in parquet files, which outlive them. What is hard:

- a series is **two vectors** (`keys_`, `values_`) that every operation must keep in step, although
  each operation changes them one after the other and either half can throw;
- the order of the keys is **assumed, never established**: `insert_end` and `insert_start` take any
  key, while `at` searches by bisection and all the two-series operations walk both series once;
- the two-series operations are **hand-written cursor loops** whose conditions decide whether they read
  inside the columns, whether they end and whether rows are lost or repeated, depending on how the keys
  of the two series interleave;
- times are nanoseconds but distances and rounding are computed in **truncated milliseconds**;
- the lookups and iterators hand out **references into memory** that insertions and assignments may give back;
- a **file** is complete only once its writer has been closed, which happens on the way out of an exception too, and is read by a reader that
  expects another schema than the writer writes, in chunks it does not choose.

| Component | Where | State | Operations | What makes it correct |
|---|---|---|---|---|
| container | `time_series.hpp` 38-122, 334-365 | `keys_`, `values_` and the capacities of the two | construct, copy, move, assign, `insert_end`, `insert_start`, `reserve`, writes through `at`, `try_at`, iterators | the columns have one length; an operation touches its object only; a failure is confined; rows that were reserved stay where they are |
| lookups | `time_series.hpp` 150-235 | none | `locate` (2), `at`, `try_at`, `at_or_first_prior`, `at_or_first_following` | never outside the values; on sorted keys the row the name promises, or a throw |
| inner join | `time_series.hpp` 466-488 | two cursors, result | `cross_apply_inner` | sound, complete on sorted keys, ends, reads rows only |
| left join | `time_series.hpp` 490-519 | two cursors, result | `cross_apply_left` | every left row, once, with its match |
| as-of merge | `time_series.hpp` 521-590, `chrono_extensions.hpp` 14-76 | two cursors, result, mode, comparer | `merge_apply_asof`, `merge_asof_prior`, `merge_asof_fwd` | one row per left row; the nearest right row in the window |
| interweave | `time_series.hpp` 592-625 | two cursors, result | `interweave` | ordered union of the keys; returns |
| transformations | `time_series.hpp` 237-268, 367-464 | none (series in, series out) | `between`, `where`, `map`, `map_with_date`, `fold`, `shift`, `skip`, `skip_on_index` | level columns, order kept, no look-ahead, shifts add up |
| resampling | `time_series.hpp` 627-652 | iterator, buffer, prior key, result | `resample_and_agg` | every row aggregated once, in its own group |
| time rounding | `chrono_extensions.hpp` 78-115 | none | round up, down, nearest | bars are intervals of the duration |
| rolling windows | `time_series.hpp` 654-680 | iterator, deque, result | `apply_rolling` | exactly the windows of consecutive rows |
| equality | `time_series.hpp` 123-148, `compare_extensions.hpp` | two cursors | `operator==`, `flex_compare` | equal series: close values are equal, NaN to NaN |
| iterators | `iterator_extensions.hpp`, `time_series.hpp` 270-332, 682-697 | a pair of iterators | dereference, move, compare, assign | both halves move, and dangle, together |
| errors | `time_series_errors.hpp` | none | `time_series_REQUIRE` | a failed precondition throws before any change |
| parquet example | `examples/parquet_utils.cpp`, `examples/parquet_tests.cpp` | the series, the file, the table being read | open, write a row, close, read a row, look at the status | what is loaded is what the file holds, or the program notices; no half-written file is taken for a whole one |
| demonstration programs | `examples/` | none | print | - |

The components interact by calls only. The joins, the merge, `interweave`, `resample_and_agg` and
`apply_rolling` build their result with `insert_end`; the transformations build two columns and hand them to
the constructor; `skip_on_index` calls `try_at`; a caller gives `resample_and_agg` a `time_rounder` function
to group by, and `merge_apply_asof` a `merge_helpers` function to compare by. The parquet reader builds its series with `insert_end`, and the
programs compare series with `operator==`.

The hazards these give rise to are listed, each at its line, in `PROJECT.json`.

## 2. The modules

Each definition that models code has its lines in `PROJECT.json` ("map"). Definitions under the comment
"Mutant" are deliberately wrong variants of the definition after them; nothing uses them, they are there
to show that each property notices a plausible mistake.

| Module | Models | State and actions |
|---|---|---|
| `CursorLoop` | what the two-series loops share | `left`, `right` (key columns of `*this` and `other`), `il`, `ir` (iterators, as positions), `result`, `pc`, and the history variable `wild` (something outside a column was read) |
| `InnerJoin` | `cross_apply_inner` | `SkipLeft`, `SkipRight`, `Match`: the branches of the loop; `Finish` |
| `EquiJoin` | the promise of an inner join | `Emit` the next pending pair, `Finish` when none is pending |
| `LeftJoin` | `cross_apply_left` | `LeftBefore`, `RightBefore` (with the test for the last right row), `Match`; `Crash`, `Finish` |
| `Chrono` | C++ division, `duration_cast` | operators |
| `MergeAsof` | `merge_apply_asof` and its comparers | `LessThan`, `GreaterThan`, `Equal`: the cases of the switch; `OutOfMemory`, `Crash`, `Finish` |
| `Interweave` | `interweave` | `InsertPastLeft`, `InsertPastRight`, `TakeRight`, `TakeLeft`, `TakeBoth`; `Crash`, `Finish` |
| `Lookup` | `locate` and the lookups by key | operators on a key column: `LowerBound` (bisection), `Locate`, `FirstKey`, `At`, `AtOrFirstPrior`, `AtOrFirstFollowing` |
| `TimeSeries` | the container | `keys`, `values` of each program variable; `InsertEnd`, `InsertStart`, `Construct`, `CopyConstruct`, `CopyAssign`, `Move`, `AssignAt`, `AssignThroughIterator`; `broken` records which objects a failed or ragged operation left |
| `References` | the container with its memory; extends `TimeSeries` | adds the capacities (`keyRoom`, `valueRoom`), one iterator the program holds (`keyHalf`, `valueHalf`, `at`) and, as history, the row it is expected to show (`held`) and what was `promised` by `reserve`; each action of `TimeSeries` with what it does to memory, `Reserve`, and `Take` and `Step` for the iterator |
| `AbstractSeries` | the promise of the container | one sequence of rows per object, a set of spoiled objects |
| `Transforms` | the one-series operations, chained | the columns at hand, known by where they come from in the source; one action per operation |
| `TimeRounder` | `time_rounder` | operators |
| `Resample` | `resample_and_agg` | `it`, `buffer`, `prior_key`, `result`; `Collect`, `NextGroup`, `Finish` |
| `Bars` | `resample_and_agg` grouping by a function of `time_rounder` | composes `Resample` with `TimeRounder` for bars of one `Duration`, and states what bars are |
| `Rolling` | `apply_rolling` | `it`, `buffer`, `result`; `Fill`, `Apply`, `ApplyUnderflow`, `Crash`, `Return` |
| `Equality` | `operator==`, `flex_compare` | operators |
| `ParquetIO` | the reader and the writer of the parquet example, and the programs that use them | the program's series `ts`, the kind of `file` there is (none, without a footer, of the writer, of another program with the expected or another schema) and what is `stored` in it, the `chunk` being read, `pc` and the status `pass` of the last load; `OpenForWriting`, `WriteRow`, `FailToWrite`, `CloseFile`, `OpenForReading`, `AppendRow`, `FailToAppend`, `ReturnOK`, `Restart`; as history what was given to be written (`saved`), whether an exception `cut` it short, the series `before` a load and the `origin` of each row |
| `SlidingWindow` | the promise of a rolling application | `Slide`, `Finish` |
| `MC*` | instances for TLC | series over a small range of keys, drawn with `ShortSeries`; `MCTransforms` also runs `Rolling`, which shares no state with `Transforms`, beside it |
| `InnerJoinProofs`, `LeftJoinProofs`, `MergeAsofProofs`, `InterweaveProofs`, `ResampleProofs`, `TimeSeriesProofs`, `TransformsProofs` (which also holds those about `Rolling`), `ParquetIOProofs` | theorems | see section 5 |

Abstractions. A key is a tick count. A value is known by the position of the row it was read from, so
the caller's functions (`func`, `selecfn`, `aggfn`) appear as the list of values they were given: the models
tell what such a function can depend on, and nothing about what it computes. It is taken to return. Position `p` of
a column is the iterator `begin() + (p - 1)`.

Undefined behaviour is not hidden. A read outside a column yields any key while it is within `Slack` cells of the
end, and may kill the program at any time (`Crash`); `wild` remembers it, so that properties can say either "never" or
"exactly when". `pop_front` of an empty deque either kills the program or, as in common implementations, is undone by
the `push_back` after it. A failed allocation leaves the vector it was for unchanged, so an insertion or a copy assignment that
throws half-way leaves its object with columns of two operations. In `References` a full vector doubles its capacity, a copy gets memory just large
enough, and a moved vector takes its memory along; this is what the common implementations do; the
properties need of it only that both vectors grow alike and that no insertion shrinks one. As the standard has it, an insertion invalidates the references at and behind
the new element, so `insert_start` invalidates all of them, whether or not there is room. In `ParquetIO` a row behind the first chunk, and a cell that is null, reads as anything in `Garbage`;
the former may be fatal instead.

Arrow is external to the repository; `ParquetIO` assumes of it what its documentation says and the code relies on:

- opening a file for writing truncates it or throws, and a file without its footer is refused with an exception;
- the footer is written when the `StreamWriter` is destroyed, at the end of the function or by an exception on its way out; a failure to do so stays in the destructor;
- columns written as REQUIRED (`parquet_utils.cpp` 36-37) come back as fields that are not nullable, which `Schema::Equals` tells from the nullable fields the reader
  expects (70-76); files of other programs may have nullable columns, or quite different ones;
- a table with the expected schema has a first chunk in each column, of any number of its rows, and keys that fit the nanoseconds they are converted to.

Every call of Arrow that can fail may fail at any time.

## 3. The runs

| Run | Bounds | What it shows |
|---|---|---|
| `InnerJoin` | any two series of at most 4 rows over keys 1..3, and increasing ones of at most 5 rows over keys 1..5, mixed freely | the join reads rows only, uses no row twice, pairs repeated keys off (the smaller multiplicity, not the product); on increasing keys it implements `EquiJoin` |
| `LeftJoin` | any two series of at most 3 rows over keys 1..3, increasing ones of at most 5 over 1..5; 2 readable cells past the end | every left row is kept, in order, even after an undefined read, and the loop stops; on increasing keys, *exactly* when the loop leaves the right series, how many rows each left row gets otherwise, and that the rows with a right value are the inner join |
| `MergeAsof` | any series of at most 2 rows over keys 1..3, increasing ones of at most 4 over 1..6; all modes and comparers; 2 ticks per unit, a window of 2 ticks | the clamps keep every read (the candidate's too) inside; one row per left row unless stuck; what the default comparer finds; how far outside its window a match can be because distances are truncated; the textbook as-of merge, and termination, on covered inputs |
| `Interweave` | any series of at most 2 rows over keys 1..3, increasing ones of at most 5 over 1..5 | ordered union, with the values of both sides, until a cursor leaves its column; the loop returns exactly when the series end with one key |
| `TimeSeries` | two variables, two values, two keys, at most 3 rows, allocations may fail | the columns stay level; they implement `AbstractSeries` |
| `Transforms` | any series of at most 3 rows over keys 1..3, sorted ones of at most 4 over 1..4; 3 operations. Rolling: at most 7 rows, windows 0..9 | level columns; order; no look-ahead without a forward shift; shifts add up through maps and folds; `between` is a filter on sorted keys and commutes with `where`; the lookups, after any chain. `apply_rolling` implements `SlidingWindow` for windows of at least one row; only a window of 0 is undefined |
| `Resample` | increasing series of at most 3 rows over keys -9..9, any of at most 3 over -3..3; 2 ticks per unit, bars of 3 units; rounding up, down and to the nearest | each row is aggregated once, chunks are the maximal runs of a group; which times a bar covers on both sides of the epoch; bars of whole units increase; rows that differ below a unit never share one |
| `References` | two variables, at most 2 rows, two keys and two values, reservations of 1 and 2 rows, one held iterator, allocations may fail | a half of an iterator that does not dangle shows the row it was taken at, as assigned since; both halves dangle together unless something failed or was ragged; what was reserved is safe |
| `ParquetIO` | keys -3, -2, 0 and 1 at 2 ticks per unit; values 0, NaN and infinity; at most 2 rows in the first series, or in a table of another program, whose cells may be null; 3 openings of the file; first chunks of any size | files of the writer that can be opened are complete, or were cut short by an exception; a load appends, all, nothing or (after a failure) a part; no file of the writer is ever loaded; it reads outside the chunk exactly if the table has more rows; loading and saving loses nothing, and which series equal what is saved of them |

Series are enumerated in full up to their length, so every way two series can interleave within the bounds is covered; the
branches of the loops compare two or three adjacent keys, and each loop is reached with both operands empty,
exhausted first, exhausted together, and ending with or without a match. A window of 2 ticks with keys up to 6 leaves room for a
candidate inside, at the edge of and beyond the window; with 2 ticks per unit every odd distance is truncated. Keys -9..9 hold three bars of 6
ticks, the one at the epoch included. `MaxRows` (the memory of a merge that does not stop) exceeds the longest left series, `Slack`
bounds how far an undefined read survives, and `MaxOps` how many transformations are chained. `TimeSeries` uses symmetry of
variables and of values, which the model only copies and compares; `References` uses the same symmetry, with two keys and
two values to tell a row from the one that was shifted into its place, and a column of 2 rows is one that has doubled and can shift. In `ParquetIO` the keys lie on, between and on both sides of whole units, so that truncation makes different keys equal;
3 openings leave room to load, save, be killed and load what was saved, and to load twice before saving. `Transforms` switches the deadlock check off, since a chain may stop at any
point; the other models stutter explicitly once they have stopped. `TimeSeries`, `References` and `ParquetIO`
(whose programs are restarted) never stop.

**Fairness.** `Spec` has none. The liveness properties (`Stops` of the left join and of `interweave`, `ReturnsWhenCovered`, `RollsForward`) use `FairSpec`, which adds
weak fairness of the whole loop: a loop of the library runs on its caller's thread and nothing in it waits, so an
iteration that can happen does. No fairness is put on one branch in particular, nor on `Crash`.

## 4. Where the code differs from what it says

Three runs end in a violation on purpose. Each states what a comment, a test or an error message says and shows a behaviour of the code
that differs:

| Run | Stated | What happens |
|---|---|---|
| `LeftJoin_onerow` | `tests/ts_joins.cpp` 46-50: one row per left row | a right row without partner makes the next left row appear twice (left 2, 3; right 1, 3) |
| `MergeAsof_roll` | comment at `time_series.hpp` 576 | a left row after the last right row is inserted forever |
| `ParquetIO_invalid` | `examples/parquet_tests.cpp` 127-135: a series that could not be loaded is reported, not saved | `pass.OK()` is a static function that makes a new status, which is ok; a load that was refused is followed by saving what there is |

Also established by the passing runs, and surprising enough to note:

- The left join reads past the right series if left rows follow a match on the last right row (`OverrunIsExact`), although the comment at
  `time_series.hpp` 510 speaks of that series being exhausted.
- `interweave` of two series that do not end with one key never returns: the exhausted cursor is advanced (`ReturnsIffEndTogether`, `Stops`).
- Nothing that `time_series_to_file` has written can be loaded again: its columns are REQUIRED, the reader expects nullable ones and returns `Invalid` (`ReadsAppend`).
- The reader looks at the first chunk of each column but counts the rows of the whole table, does not ask whether a cell is null, and appends to the series it is given (`ReadsAppend`).
- An exception while rows are written can leave a file that opens and lacks rows (`WholeFilesAreComplete`).
- Saving truncates keys toward the epoch, so rows on both sides of it can get one key (`WholeFilesAreComplete`); the file holds a series that equals the one saved only if all
  keys are whole units and no value is infinite, because `flex_compare` finds an infinity different from itself (`RoundTrip`).
- `insert_start` invalidates every iterator and reference into the series, reserved or not (`ReserveProtects`).
- `at_or_first_prior` of an empty series reads before the values instead of throwing (`LookupsAgree`).
- `merge_asof_prior` uses right rows up to a millisecond *after* the left row, and `merge_asof_fwd` keeps to its window only on covered inputs, because with the right cursor behind
  the left row its two distances have different signs (`StaysNearWindow`). The default as-of comparer stops matching after the first right row whose key no left row has
  (`DefaultMatches`).
- `fold` gives its function the initial value in every call (`FoldOf`).
- Rounding up moves a whole multiple to the next one, the bar at the epoch is of double width when times before it occur, and times that differ below a millisecond
  never share a bar (`BarsCover`).

## 5. What is proved

The theorems hold for series of any length over any set of integer keys, and any number of objects and values. They rest
on the `ASSUME`s of the modules only: keys are integers, the inputs are sequences of keys, bounds are naturals. The proofs are
checked by TLAPS with Z3, Zenon and LS4.

`InnerJoinProofs`, about `cross_apply_inner`:

- `TypeCorrect`: the cursors stay between `begin()` and `end()` and only rows are read.
- `JoinSound`: every result row pairs two rows of its key; positions increase, so no row is used twice.
- `JoinComplete`: of two series with increasing keys no match is missed.
- `Refinement`: `Spec => ImplementsEquiJoin`: whenever both series have increasing keys the loop starts and moves as `EquiJoin` does.
- `RepeatsPairedOff`: with repeated keys, the k-th row of a key meets the k-th row of that key on the other side, and no other.

`Sound` and `Complete` are not inductive. The invariant `IInv` adds what the passed rows have left behind: result rows use
passed rows only (`PassedRows`), result positions increase (`Increasing`), and, for increasing keys, a pair of equal keys is in the result as soon as
*one* of its rows has been passed (`NoneMissed`). The last one is what makes skipping safe: the row being skipped is smaller than everything
ahead in the other series. Refinement uses it to show that what `EquiJoin` calls pending is ahead of both cursors, so that a match is the least pending
pair and nothing is pending when one cursor is at its end.

`RepeatsPairedOff` needs an invariant of its own, `InStep`: the cursors pass two partners (rows of one key and one rank among its repeats) in the same
iteration. To keep it one has to know that a row at a cursor whose partner exists meets it now (`OnePartner`), which comes down to counting rows from the first one of a key.

`LeftJoinProofs`, about `cross_apply_left`:

- `TypeCorrect`, `LeftRowsKept`: of any two series every left row is kept, in order, even if the right cursor has run past its column.
- `OverrunExact`: of two series with increasing keys the loop reads past the right one exactly if there is no right row, or left rows follow the
  match of the last one.
- `NeverDiesInside`, `EachIterationAdvances`: in all other cases it does not crash; and every iteration, of any two series, moves a cursor, within bounds.
- `RowsCounted`: of two increasing series, and unless the loop leaves its columns, a left row gets one row more than right rows were skipped for it, and the
  rows with a right value are the inner join.

`LeftRowsKept` follows from `Kept`: an iteration inserts a row for the left row at the cursor, whatever it reads on the right. `OverrunIsExact`
speaks of the end of the loop and needs `PastRight`, which says what happens on the way there: the right cursor gets past the last right row only by
matching it, it has done so when the left row with that key is passed, and the iteration after that, if there is one, has read outside.
`RowsCounted` counts in the middle of a left row: `Counted` says that the row at the cursor has as many result rows as right rows passed for it so far. `Interleaved` (what
each cursor has passed is smaller than the key at the other, except for the last right row) makes the right row being passed one of those.

`MergeAsofProofs`, about `merge_apply_asof`, for every mode, comparer and window:

- `TypeCorrect`, `ReadsStayInside`: reads stay inside unless there is no right row.
- `OneRowEach`: one row per left row, in order; a merge that returns has exactly one for each.
- `FoundByKey`: on increasing series the default comparer finds equal keys up to and including the first right row whose key no left row has.
- `FoundNearWindow`: what is matched is less than a unit outside the window, for `merge_asof_prior` always, for `merge_asof_fwd` on covered series.
- `TextbookMerge`: on covered series with keys on whole units each of the three merges is the textbook one.
- `NeverFailsWhenCovered`, `AdvancesWhenCovered`: on covered series none of the three merges crashes or runs out of memory, and every iteration moves on to the next left row.

Of the comparers the first three use only that the same keys compare alike. The invariant `RowPerRow` says that a left row which has its row and
is still at the cursor is one the merge is `Stuck` at: the right cursor is at its last row and the comparison there is "greater", so the next
iteration does the same again. `FoundByKey` needs `KeyInv`: the right cursor leaves a row only with its match, so that a right row without one, which no
left row before the cursor can have matched, is the last row it gets to. On covered series (every right key is a left key, and no left row follows the last right one)
the right cursor is never behind the left (`NearInv`), and what it has passed is smaller than the left key (`TextInv`): it is at the first right row that is not
smaller, so that the row before it is the nearest earlier one. The lemmas about the cast say that it moves a distance less than a unit, and not at all on whole units.

`TimeSeriesProofs`, first part, about the container:

- `TypeCorrect`, `ColumnsAligned`: columns are typed; the columns of an object that is not broken are level.
- `Refinement`: `Spec => AbstractSeries!AbstractSpec` under the mapping that zips the columns of an unbroken object and forgets those of a broken one.

The invariant is the conjunction of the two; the work of the refinement is in the lemmas that say how zipping two columns commutes with
appending, prepending and replacing a cell, and that a step changes one object (two for a move).

`TimeSeriesProofs`, second part, about the memory of the container:

- `RowsAreHeld`: columns fit their capacity, and a half of an iterator that does not dangle shows the row it was taken at, as it was assigned since.
- `HalvesDangleTogether`: unless an allocation failed or ragged columns were constructed, both halves dangle or none does.
- `ReservationsHold`: an insertion within reserved rows never breaks the series; at the end it leaves the iterator alone, at the start it costs exactly one into this series.

`HalvesTogether` alone is not inductive: whether an insertion moves one column and not the other depends on their capacities. `InStep` says that, while nothing has failed, no
object is broken and the two columns of each have equal capacities; `FitsIn` that what was `promised` is within both capacities, for broken objects too, which is what
makes a reservation survive failures and moves. Which row the iterator shows (`HeldInv`) is kept on top of that, one half at a time, since either may be lost first: an action
has to leave the cell where it is, take the half along, or lose it.

`InterweaveProofs`, about `interweave`:

- `TypeCorrect`: cursors stay within `Slack` cells of their columns.
- `ResultIsUnion`: until a cursor leaves its column the result is the ordered union of what was passed.
- `LastKeysDecide`: the columns are left only if the series end with different keys, and the loop returns only if they end with one.
- `NeverDiesTogether`, `EachIterationAdvances`: series that end with one key are merged without a crash; and every iteration of any two series moves a cursor, within bounds.

The invariant adds that every key in the result is smaller than the keys at both cursors (`Ordered`, which is what keeps a key from being inserted twice), that both cursors are at
their ends together only if the last keys agree, and that once one cursor is past its end (`Beyond`) the keys were different.

`ResampleProofs`, about `resample_and_agg`, for any series and any group function:

- `TypeCorrect`; `ChunksAreRuns`: `aggfn` is called on the maximal runs of rows of one group, each row once.
- `BarsAreCovered`: grouped by a rounder, for any duration, unit and series, each bar lies at a multiple of the duration and holds rows of its own stretch only, before and after the
  epoch, and the bars of an increasing series come in increasing order.

The invariant says that each chunk is the interval of rows from where the one before it ended, and that `prior_key` is the group of the buffer. `BarsAreCovered` follows from it and
from what the rounders do to one time. `Truncates` states the C++ division once for both signs; `Rounded` shows that the clamp of `round_up` never bites; a whole unit is rounded to
`Bar` times an integer (`BarOf`), less than a bar away, or two before the epoch (`WithinBar`). For the order of the bars the rounders must be monotone across the epoch, where
quotients are truncated in different directions (`RoundingMonotone`), and chunks must start at increasing rows (`FirstIncreases`); two chunks in a row are of
different groups, so the order is strict.

`TransformsProofs`, first part, about the transformations and the lookups, for series of any length and chains of any length:

- `LowerBoundSplits`: on sorted keys the bisection ends at the first key that is not smaller.
- `LookupsFind`: the lookups stay inside the columns and find the row they are named for on sorted keys.
- `TypeCorrect`, `NothingLooksAhead`: columns stay level and in order, and without a forward shift no value depends on a later row.
- `ShiftsAdd`: after any shifts each key has the value as many rows away as they add up to.
- `BetweenFilters`: on sorted keys `between` returns the rows in its range and commutes with `where`.

`LowerBound` is a recursive function on the number of cells left. That there is such a function at all is proved by assembling it from the functions on fewer cells (`SearchExists`), and what it returns
by taking the least number of cells for which it would be wrong (`Splits`). The rows an operation keeps are those at the n-th chosen position, `Nth`; that the n-th position exists and
positions come in order is shown by counting (`CountSteps`, `NthIncreases`). `NoLookAhead` speaks of dates and is kept by the stronger statements about positions in
`IInv`: keys increase as positions of the source, and values are not ahead of their key (`Behind`). For `skip_on_index` this needs that the prior row was found by date, which on a sorted
source is not a later one. `ShiftsAddUp` needs `Stretch`: any two keys, not only neighbours, are as far apart as their cells, which is what cutting a column at either end keeps.

`TransformsProofs`, second part, about `apply_rolling`, for series and windows of any size:

- `RollingTypeCorrect`: the iterator stays in the series, the buffer within a window; only a window of 0 is a fault.
- `RollingRefinement`: `RollingSpec => ImplementsSlidingWindow`.

The invariant `Held` says that the buffer is the last rows before the iterator, a whole window of them once there are that many, and counts the windows that have ended by
then. That dropping the oldest row and appending the one at the iterator gives exactly the next window is `FullWindow`.

`ParquetIOProofs`, about a program, its file and any number of crashes:

- `TypeCorrect`; `WholeFilesComplete`: a file of the writer that opens has all the rows it was given, or the first ones if a row could not be written.
- `ReadingAppends`: what a load leaves in the series, from each kind of file.
- `RoundTripKeeps`: between loading and saving no cell changes; and which series equal what is saved of them.

The lemmas about `InUnits` say what truncated division does to a key: it moves less than a unit toward the epoch, never swaps two keys, and is exact on whole units only. The
invariant ties the rows stored so far to the series being written (`WrittenSoFar`, and `RequiredIsSaved` once there is a footer), what was appended so far to what is
stored (`LoadedSoFar`), and each row of the series to the cells it came from, across all files since the program started (`OriginsKept`).

Only model-checked: the liveness properties `Stops` (of the left join and of `interweave`) and `ReturnsWhenCovered`, since the prover does not do fairness. What they
rest on apart from fairness is proved: each iteration advances by at least one in a bounded measure (`EachIterationAdvances`, `AdvancesWhenCovered`), and the crash that could stop a loop
before its end cannot happen (`NeverDiesTogether`, `NeverFailsWhenCovered`). All other properties of the passing
runs are stated by a theorem. Induction is out of the provers' reach as a rule (the library states it for an operator); where it is needed the proofs take the least
counterexample in a set of naturals instead (`Least`).

Some properties say less than their names may suggest. `Stops` of `interweave` covers a crash; that the loop returns needs `ReturnsIffEndTogether` as well. `Aligned` says nothing of
objects that a failure or a ragged constructor has left, only that they stay the only ones. In the runs `TextbookWhenCovered` meets three keys on whole units; the theorem has no such bound.

## 6. What is not modelled

- `first_date`, `last_date`, the iterator-range constructor and the const `get_value`: they do not compile when instantiated, so they have no
  behaviour. The const lookups therefore share the model of the others.
- The reverse iterators, which only wrap those of the vectors; comparison of iterators by `<`; more than one iterator held at a time, since iterators do not influence each
  other.
- Printing, error messages, `tspp_examples.cpp`, `utilities.hpp` and `bencher.hpp`: straight-line programs that print and time calls of the library.
- The Arrow library, beyond what is assumed of it in section 2. In `ParquetIO` a series is one sequence of rows: an `insert_end` that fails half-way ends the program.
- The narrowing of positions to `int` in `get_value` (`time_series.hpp` 163), which needs more than 2^31 rows; index functions of `skip_on_index` that look forward.
- A write to a row whose value is missing, in a ragged series: the program is lost, and the model leaves the step out.
- Durations below a millisecond in `time_rounder` (a division by zero).

## 7. Plan

Done, in this order: cursor loops (`InnerJoin`, `LeftJoin`, `MergeAsof`, `Interweave`), the container and its lookups, the transformations,
resampling with time rounding, rolling windows, equality, memory and references, parquet files; proofs of the inner join, the left join, the
as-of merge, the container, its memory, `interweave`, resampling, rolling windows, the parquet files, the transformations, the lookups and the bars.

The order was chosen by what a mistake would cost a caller: first the joins, where one undefined read or one repeated row spoils every later
result, then the container they all rest on, then the operations that are used in chains, then what outlives a call or a program.

Left: pipelines, the operations composed as callers do (resample, then merge; lag, then join), with sortedness as the contract between them.

## 8. Running

    tlc -config LeftJoin.cfg MCLeftJoin.tla
    tlapm InnerJoinProofs.tla

`X.cfg` and `X_y.cfg` belong to `MCX.tla`.
