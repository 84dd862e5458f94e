----------------------------- MODULE InnerJoin -----------------------------
(***************************************************************************)
(* time_series::cross_apply_inner, one action per branch of its loop.      *)
(***************************************************************************)
EXTENDS CursorLoop

\* Mutant: the condition of interweave.
ContinueOnEither == il # End(left) \/ ir # End(right)

\* while (il != ile && ir != ire)
Continue == il # End(left) /\ ir # End(right)

\* Mutants: a left row is skipped with its right row, or although its key matches.
SkipBoth(lk, rk) ==
  /\ lk < rk
  /\ il' = il + 1
  /\ ir' = ir + 1
  /\ UNCHANGED result

SkipLeftOnTie(lk, rk) ==
  /\ lk <= rk
  /\ il' = il + 1
  /\ UNCHANGED <<ir, result>>

SkipLeft(lk, rk) ==
  /\ lk < rk
  /\ il' = il + 1
  /\ UNCHANGED <<ir, result>>

SkipRight(lk, rk) ==
  /\ rk < lk
  /\ ir' = ir + 1
  /\ UNCHANGED <<il, result>>

\* Mutant: the right row stays available.
MatchKeepsRight(lk, rk) ==
  /\ ~(lk < rk) /\ ~(rk < lk)
  /\ Put(Row(lk, il, ir))
  /\ il' = il + 1
  /\ UNCHANGED ir

Match(lk, rk) ==
  /\ ~(lk < rk) /\ ~(rk < lk)
  /\ Put(Row(lk, il, ir))
  /\ il' = il + 1
  /\ ir' = ir + 1

Body(lk, rk) == SkipLeft(lk, rk) \/ SkipRight(lk, rk) \/ Match(lk, rk)

Iterate ==
  /\ pc = "loop"
  /\ Continue
  /\ \E lk \in KeyAt(left, il), rk \in KeyAt(right, ir) : Body(lk, rk)
  /\ ReadBoth
  /\ UNCHANGED <<left, right, pc>>

Finish == ~Continue /\ Return

Next == Iterate \/ Finish \/ Stopped

Spec == Init /\ [][Next]_vars

-----------------------------------------------------------------------------
(* Properties. *)

\* The cursors stay between begin() and end(), cross_apply_inner dereferences rows
\* only, and nothing but returning stops it, whatever the two series hold.
TypeOK ==
  /\ LoopTypeOK
  /\ il \in 1..End(left)
  /\ ir \in 1..End(right)
  /\ ~wild
  /\ pc \in {"loop", "done"}

\* Every result row pairs two rows that have its key, and no row of either
\* operand is used twice: true of series in any order, repeated keys included.
Sound ==
  /\ \A n \in DOMAIN result :
       /\ InRange(left, result[n].l)
       /\ InRange(right, result[n].r)
       /\ result[n].key = left[result[n].l]
       /\ result[n].key = right[result[n].r]
  /\ \A m, n \in DOMAIN result :
       m < n => result[m].l < result[n].l /\ result[m].r < result[n].r

\* The first row with a key, and how many rows with its key come before row i of a
\* sorted series.
FirstOf(s, k) ==
  CHOOSE p \in DOMAIN s : s[p] = k /\ \A q \in DOMAIN s : s[q] = k => p <= q

Rank(s, i) == i - FirstOf(s, s[i])

\* With repeated keys in sorted series the join pairs the first with the first,
\* the second with the second...: the result has the smaller of the two
\* multiplicities of a key, not their product.
Partners(i, j) == left[i] = right[j] /\ Rank(left, i) = Rank(right, j)

PairsOffRepeats ==
  pc = "done" /\ Sorted(left) /\ Sorted(right) =>
    \A i \in DOMAIN left, j \in DOMAIN right :
      (\E n \in DOMAIN result : result[n].l = i /\ result[n].r = j) <=> Partners(i, j)

Ordered == StrictlySorted(left) /\ StrictlySorted(right)

\* For series with distinct increasing keys the loop implements the abstract join: no
\* match is missed, none is found out of order, and it returns after the last one.
Abstract == INSTANCE EquiJoin

ImplementsEquiJoin ==
  /\ Ordered => Abstract!JoinInit
  /\ [][Ordered => Abstract!JoinNext]_Abstract!joinVars
=============================================================================
