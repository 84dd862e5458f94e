----------------------------- MODULE CursorLoop -----------------------------
(***************************************************************************)
(* What the two-series operations of time_series.hpp (cross_apply_inner,   *)
(* cross_apply_left, merge_apply_asof, interweave) have in common: one     *)
(* iterator_pair per operand, a result that grows at its end, and a while  *)
(* loop.                                                                   *)
(*                                                                         *)
(* An operand is the column of its keys.  A value is known by the position *)
(* of the row it was read from, so a result row records its key and the    *)
(* two positions whose values went into it: that is all the caller's func  *)
(* (applied to the two values) can depend on.                              *)
(*                                                                         *)
(* Position p of a column s is the iterator begin() + (p - 1): positions   *)
(* 1..Len(s) are rows and Len(s) + 1 is end().  Reading any other position *)
(* is undefined; the read then yields some key, or the program dies.       *)
(***************************************************************************)
EXTENDS Integers, Sequences

CONSTANTS Key,     \* the keys that occur, as tick counts
          Inputs,  \* the key columns the two operands are drawn from
          Slack    \* how many cells past end() can be read without dying

ASSUME KeyAssumption    == Key \subseteq Int
ASSUME InputsAssumption == Inputs \subseteq Seq(Key)
ASSUME SlackAssumption  == Slack \in Nat

VARIABLES left, right,   \* the operands: *this and other
          il, ir,        \* the iterators into them, as positions
          result,        \* the rows inserted so far
          pc,            \* "loop", "done" (returned) or "fault" (died)
          wild           \* history: a row was read outside its column

vars == <<left, right, il, ir, result, pc, wild>>

End(s) == Len(s) + 1

InRange(s, p) == p \in 1..Len(s)

\* The keys that dereferencing position p of column s can yield.
KeyAt(s, p) ==
  IF InRange(s, p) THEN {s[p]}
  ELSE IF p <= Len(s) + Slack THEN Key ELSE {}

\* A result row; Default stands for the value of a row with no partner.
Default == 0

Row(k, i, j) == [key |-> k, l |-> i, r |-> j]

\* insert_end on the result.
Put(row) == result' = Append(result, row)

\* One iteration reads both cursors.
ReadBoth == wild' = (wild \/ ~InRange(left, il) \/ ~InRange(right, ir))

Init ==
  /\ left \in Inputs
  /\ right \in Inputs
  /\ il = 1
  /\ ir = 1
  /\ result = <<>>
  /\ pc = "loop"
  /\ wild = FALSE

Return ==
  /\ pc = "loop"
  /\ pc' = "done"
  /\ UNCHANGED <<left, right, il, ir, result, wild>>

\* An undefined read may also kill the program.
Die ==
  /\ ~InRange(left, il) \/ ~InRange(right, ir)
  /\ pc' = "fault"
  /\ wild' = TRUE
  /\ UNCHANGED <<left, right, il, ir, result>>

Stopped == pc # "loop" /\ UNCHANGED vars

-----------------------------------------------------------------------------
(* Vocabulary of the properties. *)

Sorted(s) == \A p, q \in DOMAIN s : p <= q => s[p] <= s[q]

StrictlySorted(s) == \A p, q \in DOMAIN s : p < q => s[p] < s[q]

\* The keys that occur in a column.
KeysOf(s) == {s[p] : p \in DOMAIN s}

\* All that is known of a cursor loop whatever it computes.
LoopTypeOK ==
  /\ left \in Inputs
  /\ right \in Inputs
  /\ il \in Nat
  /\ ir \in Nat
  /\ result \in Seq([key : Key, l : Nat, r : Nat])
  /\ pc \in {"loop", "done", "fault"}
  /\ wild \in BOOLEAN
=============================================================================
