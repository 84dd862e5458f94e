------------------------------ MODULE Resample ------------------------------
(***************************************************************************)
(* time_series::resample_and_agg: consecutive rows with one group key are  *)
(* collected in a buffer, and aggfn is called on the buffer when the group *)
(* key changes and once more at the end.                                   *)
(*                                                                         *)
(* A value is known by the position of its row; a row of the result is its *)
(* key and the buffer aggfn was called on.                                 *)
(***************************************************************************)
EXTENDS Integers, Sequences

CONSTANTS Key,       \* the keys that occur, as tick counts
          Inputs,    \* the key columns the series is drawn from
          Groupings  \* the functions grpfn can be

ASSUME KeyAssumption       == Key \subseteq Int
ASSUME InputsAssumption    == Inputs \subseteq Seq(Key)
ASSUME GroupingsAssumption == Groupings \subseteq [Key -> Int]

VARIABLES series,     \* keys_
          grpfn,
          it,         \* the iterator, as a position
          buffer,
          prior_key,  \* {} for nullopt, else the set of the one key
          result,
          pc          \* "loop" or "done"

vars == <<series, grpfn, it, buffer, prior_key, result, pc>>

AtEnd == it = Len(series) + 1

keycand == grpfn[series[it]]

Init ==
  /\ series \in Inputs
  /\ grpfn \in Groupings
  /\ it = 1
  /\ buffer = <<>>
  /\ prior_key = {}
  /\ result = <<>>
  /\ pc = "loop"

\* aggfn is called on the buffer and its value is inserted at prior_key.
Flush == \E k \in prior_key : result' = Append(result, [key |-> k, rows |-> buffer])

\* The row belongs to the group in the buffer, or is the first row.
Collect ==
  /\ ~AtEnd
  /\ prior_key \subseteq {keycand}
  /\ buffer' = Append(buffer, it)
  /\ prior_key' = {keycand}
  /\ it' = it + 1
  /\ UNCHANGED result

\* Mutants: the iterator moves twice; the row that starts a group is not kept.
NextGroupSkipsRow ==
  /\ ~AtEnd
  /\ ~(prior_key \subseteq {keycand})
  /\ Flush
  /\ buffer' = <<it>>
  /\ prior_key' = {keycand}
  /\ it' = it + 2

NextGroupDropsRow ==
  /\ ~AtEnd
  /\ ~(prior_key \subseteq {keycand})
  /\ Flush
  /\ buffer' = <<>>
  /\ prior_key' = {keycand}
  /\ it' = it + 1

\* The row starts another group.
NextGroup ==
  /\ ~AtEnd
  /\ ~(prior_key \subseteq {keycand})
  /\ Flush
  /\ buffer' = <<it>>
  /\ prior_key' = {keycand}
  /\ it' = it + 1

Iterate ==
  /\ pc = "loop"
  /\ Collect \/ NextGroup
  /\ UNCHANGED <<series, grpfn, pc>>

\* The last chunk, if there was a row at all.
Finish ==
  /\ pc = "loop"
  /\ AtEnd
  /\ Flush \/ (prior_key = {} /\ UNCHANGED result)
  /\ pc' = "done"
  /\ UNCHANGED <<series, grpfn, it, buffer, prior_key>>

Next == Iterate \/ Finish \/ (pc = "done" /\ UNCHANGED vars)

Spec == Init /\ [][Next]_vars

-----------------------------------------------------------------------------
(* Properties. *)

Chunk == [key : Int, rows : Seq(Nat)]

TypeOK ==
  /\ series \in Inputs
  /\ grpfn \in Groupings
  /\ it \in 1..(Len(series) + 1)
  /\ buffer \in Seq(Nat)
  /\ prior_key \subseteq Int
  /\ \A a, b \in prior_key : a = b
  /\ result \in Seq(Chunk)
  /\ pc \in {"loop", "done"}

GroupOf(p) == grpfn[series[p]]

\* The chunks given to aggfn so far, and the one being collected.
Chunks == IF pc = "done" \/ buffer = <<>> THEN Len(result) ELSE Len(result) + 1

RowsOf(n) == IF n \in DOMAIN result THEN result[n].rows ELSE buffer

\* The row that chunk n starts with.
First(n) == IF n = 1 THEN 1 ELSE RowsOf(n - 1)[1] + Len(RowsOf(n - 1))

\* Every row read so far is in one chunk: no row is lost between two chunks or at the
\* end, none gets into two, and their order is kept.  A chunk is never empty and never
\* mixes two groups, its value is inserted at the key of its group, and chunks that
\* follow each other are of different groups.
RowsGrouped ==
  /\ \A n \in 1..Chunks :
       /\ RowsOf(n) # <<>>
       /\ \A q \in DOMAIN RowsOf(n) :
            /\ RowsOf(n)[q] = First(n) + q - 1
            /\ GroupOf(First(n) + q - 1) = GroupOf(First(n))
       /\ n > 1 => GroupOf(First(n)) # GroupOf(First(n) - 1)
  /\ First(Chunks + 1) = it
  /\ pc = "done" => AtEnd
  /\ \A n \in DOMAIN result : result[n].key = GroupOf(First(n))
=============================================================================
