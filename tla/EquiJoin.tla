------------------------------ MODULE EquiJoin ------------------------------
(***************************************************************************)
(* What an inner join of two series with distinct, increasing keys         *)
(* promises, without saying how the matches are found: the result receives *)
(* one row per pair of rows with the same key, in key order, and the join  *)
(* returns once no such pair is left.                                      *)
(***************************************************************************)
EXTENDS Integers, Sequences

VARIABLES left, right, result, pc

joinVars == <<left, right, result, pc>>

\* The pairs of rows with one key that are not in the result yet.
Pending ==
  {pair \in (DOMAIN left) \X (DOMAIN right) :
     /\ left[pair[1]] = right[pair[2]]
     /\ \A n \in DOMAIN result : result[n].l < pair[1]}

Emit ==
  /\ pc = "loop"
  /\ \E pair \in Pending :
       /\ \A other \in Pending : pair[1] <= other[1]
       /\ result' = Append(result, [key |-> left[pair[1]],
                                    l |-> pair[1], r |-> pair[2]])
  /\ UNCHANGED <<left, right, pc>>

Finish ==
  /\ pc = "loop"
  /\ Pending = {}
  /\ pc' = "done"
  /\ UNCHANGED <<left, right, result>>

JoinInit == result = <<>> /\ pc = "loop"

JoinNext == Emit \/ Finish

JoinSpec == JoinInit /\ [][JoinNext]_joinVars
=============================================================================
