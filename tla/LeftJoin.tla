------------------------------ MODULE LeftJoin ------------------------------
(***************************************************************************)
(* time_series::cross_apply_left, one action per branch of its loop.       *)
(***************************************************************************)
EXTENDS CursorLoop, FiniteSets

\* Mutant: the condition of interweave.
ContinueOnEither == il # End(left) \/ ir # End(right)

\* while (il != ile)
Continue == il # End(left)

LeftBefore(lk, rk) ==
  /\ lk < rk
  /\ Put(Row(lk, il, Default))
  /\ il' = il + 1
  /\ UNCHANGED ir

\* Mutants: the last right row is skipped as well; a skip inserts nothing; at the
\* last right row the left row is dropped; or nothing moves there.
RightBeforeNoClamp(lk, rk) ==
  /\ rk < lk
  /\ Put(Row(lk, il, Default))
  /\ ir' = ir + 1
  /\ UNCHANGED il

RightBeforeSkipsSilently(lk, rk) ==
  /\ rk < lk
  /\ \/ ir # Len(right) /\ ir' = ir + 1 /\ UNCHANGED <<il, result>>
     \/ ir = Len(right) /\ il' = il + 1 /\ UNCHANGED ir /\ Put(Row(lk, il, Default))

RightBeforeDropsRow(lk, rk) ==
  /\ rk < lk
  /\ UNCHANGED result
  /\ \/ ir # Len(right) /\ ir' = ir + 1 /\ UNCHANGED il
     \/ ir = Len(right) /\ il' = il + 1 /\ UNCHANGED ir

RightBeforeStuck(lk, rk) ==
  /\ rk < lk
  /\ ir' = IF ir # Len(right) THEN ir + 1 ELSE ir
  /\ UNCHANGED <<il, result>>

\* A right row that comes too early is skipped, but not without inserting a row
\* for the left cursor; the last right row is never skipped.
RightBefore(lk, rk) ==
  /\ rk < lk
  /\ Put(Row(lk, il, Default))
  /\ \/ ir # Len(right) /\ ir' = ir + 1 /\ UNCHANGED il
     \/ ir = Len(right) /\ il' = il + 1 /\ UNCHANGED ir

Match(lk, rk) ==
  /\ ~(lk < rk) /\ ~(rk < lk)
  /\ Put(Row(lk, il, ir))
  /\ il' = il + 1
  /\ ir' = ir + 1

Body(lk, rk) == LeftBefore(lk, rk) \/ RightBefore(lk, rk) \/ Match(lk, rk)

Iterate ==
  /\ pc = "loop"
  /\ Continue
  /\ \E lk \in KeyAt(left, il), rk \in KeyAt(right, ir) : Body(lk, rk)
  /\ ReadBoth
  /\ UNCHANGED <<left, right, pc>>

Crash == pc = "loop" /\ Continue /\ Die

Finish == ~Continue /\ Return

Next == Iterate \/ Crash \/ Finish \/ Stopped

Spec == Init /\ [][Next]_vars

\* The loop runs on the caller's thread, which nothing in it can block.
FairSpec == Spec /\ WF_vars(Iterate \/ Crash \/ Finish)

-----------------------------------------------------------------------------
(* Properties. *)

\* The left cursor stays between begin() and end(); nothing bounds the right
\* one but the memory behind its column.
TypeOK ==
  /\ LoopTypeOK
  /\ il \in 1..End(left)
  /\ ir \in 1..(End(right) + Slack)

\* A left join keeps every left row: the rows of the result follow the left
\* series in order, and each row the left cursor has passed is among them, even
\* if the right cursor has run past its column by then.
EveryLeftRowKept ==
  /\ \A n \in DOMAIN result :
       InRange(left, result[n].l) /\ result[n].key = left[result[n].l]
  /\ \A m, n \in DOMAIN result : m < n => result[m].l <= result[n].l
  /\ \A i \in 1..(il - 1) : \E n \in DOMAIN result : result[n].l = i

\* Where the loop leaves the right column: exactly when there is no right row to
\* start with, or when the last right row is matched and left rows follow it.
RunsPastRight ==
  \/ right = <<>> /\ left # <<>>
  \/ /\ right # <<>>
     /\ \E i, h \in DOMAIN left :
          left[h] = right[Len(right)] /\ left[h] < left[i]

OverrunIsExact ==
  StrictlySorted(left) /\ StrictlySorted(right) =>
    /\ wild => RunsPastRight
    /\ pc = "done" /\ RunsPastRight => wild

\* The right rows that are skipped while the cursor is at left row i.
SkippedAt(i) ==
  {j \in 1..(Len(right) - 1) :
     /\ right[j] < left[i]
     /\ \A h \in 1..(i - 1) : left[h] < right[j]}

\* Of two sorted series, if the loop stays inside the columns, each left row
\* contributes one row more than the right rows skipped for it, and the rows that
\* carry a right value are those of the inner join.
MatchedRows ==
  {<<result[n].l, result[n].r>> : n \in {m \in DOMAIN result : result[m].r # Default}}

RowsPerLeftRow ==
  pc = "done" /\ ~wild /\ StrictlySorted(left) /\ StrictlySorted(right) =>
    /\ \A i \in DOMAIN left :
         Cardinality({n \in DOMAIN result : result[n].l = i})
           = 1 + Cardinality(SkippedAt(i))
    /\ MatchedRows = {pair \in (DOMAIN left) \X (DOMAIN right) :
                        left[pair[1]] = right[pair[2]]}

\* The loop ends, one way or the other.
Stops == <>(pc # "loop")

\* ts_joins.cpp:46-50 expects one row per left row.
OneRowPerLeftRow ==
  pc = "done" /\ ~wild => Len(result) = Len(left)
=============================================================================
