----------------------------- MODULE MergeAsof -----------------------------
(***************************************************************************)
(* time_series::merge_apply_asof, one action per case of its switch, with  *)
(* the comparers a caller can give it: none (the default one, by key),     *)
(* merge_helpers::merge_asof_prior and merge_helpers::merge_asof_fwd of    *)
(* chrono_extensions.hpp.                                                  *)
(*                                                                         *)
(* The comparers measure distances in a coarser unit than the keys (in     *)
(* milliseconds, of nanosecond keys), and the conversion truncates.        *)
(***************************************************************************)
EXTENDS CursorLoop, Chrono

CONSTANTS Duration,  \* look_back or look_fwd, in ticks
          MaxRows    \* rows the result can hold before memory is out

ASSUME DurationAssumption == Duration \in Nat
ASSUME MaxRowsAssumption  == MaxRows \in Nat

VARIABLES mode,    \* merge_mode
          compare  \* which comparer compare_func is

asofVars == <<vars, mode, compare>>

Modes == {"no_roll", "roll_following", "roll_prior"}

Comparers == {"default", "prior", "fwd"}

\* Mutant: the first right row has a prior.
CandidateNoClamp ==
  CASE mode = "no_roll"        -> ir
    [] mode = "roll_following" -> IF ir = Len(right) THEN ir ELSE ir + 1
    [] mode = "roll_prior"     -> ir - 1

\* cand_idx_func of the right cursor.
Candidate ==
  CASE mode = "no_roll"        -> ir
    [] mode = "roll_following" -> IF ir = Len(right) THEN ir ELSE ir + 1
    [] mode = "roll_prior"     -> IF ir = 1 THEN ir ELSE ir - 1

\* Mutant: the end of the window is left out.
TooFarInclusive(units) == units * Unit >= Duration

TooFar(units) == units * Unit > Duration

Lesser(a, b)  == IF a < b THEN a ELSE b
Greater(a, b) == IF a < b THEN b ELSE a

\* The comparers: the order found, and the right row to use if it is "equal".
\* ck is the key at the candidate.
DefaultCompare(lk, rk, ck) ==
  CASE lk < rk -> <<"less", ir>>
    [] lk > rk -> <<"greater", ir>>
    [] lk = rk -> <<"equal", ir>>

\* Mutant: without the test for a candidate after the left row.
PriorCompareEitherSide(lk, rk, ck) ==
  CASE lk = rk                                     -> <<"equal", ir>>
    [] lk # rk /\ TooFar(InUnits(lk - ck))         -> <<"greater", ir>>
    [] OTHER                                       -> <<"equal", Candidate>>

PriorCompare(lk, rk, ck) ==
  LET diff == InUnits(lk - ck)
  IN CASE lk = rk                    -> <<"equal", ir>>
       [] lk # rk /\ diff < 0        -> <<"less", ir>>
       [] lk # rk /\ TooFar(diff)    -> <<"greater", ir>>
       [] OTHER                      -> <<"equal", Candidate>>

FwdCompare(lk, rk, ck) ==
  LET ahead  == InUnits(rk - lk)
      diff   == Lesser(InUnits(ck - lk), Greater(ahead, 0))
      chosen == IF diff = ahead THEN ir ELSE Candidate
  IN CASE lk = rk                    -> <<"equal", ir>>
       [] lk # rk /\ diff < 0        -> <<"greater", ir>>
       [] lk # rk /\ TooFar(diff)    -> <<"less", ir>>
       [] OTHER                      -> <<"equal", chosen>>

CompareFunc(lk, rk, ck) ==
  CASE compare = "default" -> DefaultCompare(lk, rk, ck)
    [] compare = "prior"   -> PriorCompare(lk, rk, ck)
    [] compare = "fwd"     -> FwdCompare(lk, rk, ck)

\* The default comparer does not read the candidate.
KeyAtCandidate ==
  IF compare = "default" THEN {Default} ELSE KeyAt(right, Candidate)

\* One iteration reads both cursors, and the candidate unless it compares by key.
ReadAll ==
  wild' = ( \/ wild
            \/ ~InRange(left, il)
            \/ ~InRange(right, ir)
            \/ compare # "default" /\ ~InRange(right, Candidate) )

-----------------------------------------------------------------------------

\* Mutants: the row is not inserted; both cursors move.
LessThanDrops(lk, comp) ==
  /\ comp[1] = "less"
  /\ il' = il + 1
  /\ UNCHANGED <<ir, result>>

LessThanMovesBoth(lk, comp) ==
  /\ comp[1] = "less"
  /\ Put(Row(lk, il, Default))
  /\ il' = il + 1
  /\ ir' = IF ir # Len(right) THEN ir + 1 ELSE ir

LessThan(lk, comp) ==
  /\ comp[1] = "less"
  /\ Put(Row(lk, il, Default))
  /\ il' = il + 1
  /\ UNCHANGED ir

\* Neither cursor moves when the right one is at its last row.
GreaterThan(lk, comp) ==
  /\ comp[1] = "greater"
  /\ Put(Row(lk, il, Default))
  /\ il' = IF ir # Len(right) THEN il + 1 ELSE il
  /\ UNCHANGED ir

\* Mutant: the left cursor stays when the right one moves.
EqualMovesOne(lk, rk, comp) ==
  /\ comp[1] = "equal"
  /\ Put(Row(lk, il, comp[2]))
  /\ IF lk = rk /\ ir # Len(right)
     THEN ir' = ir + 1 /\ UNCHANGED il
     ELSE il' = il + 1 /\ UNCHANGED ir

\* Only an exact match moves the right cursor on.
Equal(lk, rk, comp) ==
  /\ comp[1] = "equal"
  /\ Put(Row(lk, il, comp[2]))
  /\ il' = il + 1
  /\ ir' = IF lk = rk /\ ir # Len(right) THEN ir + 1 ELSE ir

\* Mutant: off by one.
ContinuePast == il # End(left) + 1

Continue == il # End(left)

Iterate ==
  /\ pc = "loop"
  /\ Continue
  /\ Len(result) < MaxRows
  /\ \E lk \in KeyAt(left, il), rk \in KeyAt(right, ir), ck \in KeyAtCandidate :
       LET comp == CompareFunc(lk, rk, ck)
       IN LessThan(lk, comp) \/ GreaterThan(lk, comp) \/ Equal(lk, rk, comp)
  /\ ReadAll
  /\ UNCHANGED <<left, right, pc, mode, compare>>

\* insert_end throws when there is no memory for one more row.
OutOfMemory ==
  /\ pc = "loop"
  /\ Continue
  /\ Len(result) = MaxRows
  /\ pc' = "fault"
  /\ ReadAll
  /\ UNCHANGED <<left, right, il, ir, result, mode, compare>>

Crash ==
  /\ pc = "loop"
  /\ Continue
  /\ Die
  /\ UNCHANGED <<mode, compare>>

Finish == ~Continue /\ Return /\ UNCHANGED <<mode, compare>>

AsofInit == Init /\ mode \in Modes /\ compare \in Comparers

Next ==
  Iterate \/ OutOfMemory \/ Crash \/ Finish \/ (pc # "loop" /\ UNCHANGED asofVars)

Spec == AsofInit /\ [][Next]_asofVars

\* The loop runs on the caller's thread, which nothing in it can block.
FairSpec == Spec /\ WF_asofVars(Iterate \/ OutOfMemory \/ Crash \/ Finish)
-----------------------------------------------------------------------------
(* Properties. *)

TypeOK ==
  /\ LoopTypeOK
  /\ il \in 1..End(left)
  /\ ir \in 1..(End(right) + Slack)
  /\ Len(result) <= MaxRows
  /\ mode \in Modes
  /\ compare \in Comparers

\* The clamps of cand_idx_func and the (ire - 1) tests keep every read inside the
\* columns, in any mode with any comparer, unless there is no right row at all.
ReadsInside == wild => right = <<>>

\* One result row per left row, in order; rows beyond that are all for the left
\* row the cursor is stuck at, and have no right value.
OneRowPerLeftRow ==
  right # <<>> =>
    /\ \A n \in DOMAIN result :
         /\ result[n].l = Lesser(n, il)
         /\ n >= il => result[n].r = Default
    /\ pc = "done" => Len(result) = Len(left)

Ordered == StrictlySorted(left) /\ StrictlySorted(right)

\* What the default comparer really finds: equal keys, up to and including the
\* first right row whose key no left row has; after it nothing is matched.
Findable(j) == \A h \in 1..(j - 1) : right[h] \in KeysOf(left)

DefaultMatches ==
  pc = "done" /\ compare = "default" /\ right # <<>> /\ Ordered =>
    \A i \in DOMAIN left :
      IF \E j \in DOMAIN right : right[j] = left[i] /\ Findable(j)
      THEN result[i].r # Default /\ right[result[i].r] = left[i]
      ELSE result[i].r = Default

\* Every right key is a left key, no left row follows the last right row, and
\* going back to the last right row but one is never too far.
Covered ==
  /\ Ordered /\ right # <<>>
  /\ KeysOf(right) \subseteq KeysOf(left)
  /\ \A i \in DOMAIN left : left[i] <= right[Len(right)]
  /\ compare = "prior" /\ Len(right) > 1 =>
       \A i \in DOMAIN left :
         left[i] = right[Len(right)]
           \/ left[i] - right[Len(right) - 1] <= Duration

\* A right row is never used a whole unit on the wrong side of the left row, nor
\* a whole unit beyond the window (the truncation costs up to a unit): for
\* merge_asof_prior always, for merge_asof_fwd on covered inputs.
Near(d) == -Unit < d /\ d < Duration + Unit

StaysNearWindow ==
  right # <<>> =>
    \A n \in DOMAIN result :
      result[n].r # Default =>
        LET diff == result[n].key - right[result[n].r]
        IN /\ compare = "prior" /\ mode = "roll_prior" => Near(diff)
           /\ compare = "fwd" /\ mode = "roll_following" /\ Covered => Near(-diff)

\* The right rows a textbook as-of merge may use for left row i.
InWindow(i) ==
  {j \in DOMAIN right :
     CASE compare = "default" -> right[j] = left[i]
       [] compare = "prior"   -> left[i] - right[j] \in 0..Duration
       [] compare = "fwd"     -> right[j] - left[i] \in 0..Duration}

Nearer(i, j, h) ==
  IF compare = "prior" THEN right[h] <= right[j] ELSE right[j] <= right[h]

\* The mode each comparer is written for.
Paired == <<compare, mode>> \in
  {<<"default", "no_roll">>, <<"prior", "roll_prior">>, <<"fwd", "roll_following">>}

\* On covered inputs with keys on whole units each of the three merges is the
\* textbook one: the nearest right row in the window, or the default.
TextbookWhenCovered ==
  pc = "done" /\ Paired /\ Covered
  /\ (\A k \in KeysOf(left) : k % Unit = 0) =>
    \A i \in DOMAIN left :
      IF InWindow(i) = {} THEN result[i].r = Default
      ELSE /\ result[i].r \in InWindow(i)
           /\ \A h \in InWindow(i) : Nearer(i, result[i].r, h)

\* On covered inputs the merge returns.
ReturnsWhenCovered ==
  Paired /\ Covered /\ MaxRows > Len(left) => <>(pc = "done")

\* time_series.hpp:576: at the end of the right series the merge rolls the left
\* cursor forward.
RollsForward ==
  [][Iterate /\ ir = Len(right) /\ left[il] > right[ir] => il' = il + 1]_asofVars
=============================================================================
