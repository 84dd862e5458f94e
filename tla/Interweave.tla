----------------------------- MODULE Interweave -----------------------------
(***************************************************************************)
(* time_series::interweave, one action per branch of its loop.             *)
(***************************************************************************)
EXTENDS CursorLoop

\* Mutant: the condition of cross_apply_inner.
ContinueOnBoth == il # End(left) /\ ir # End(right)

\* while (il != ile || ir != ire)
Continue == il # End(left) \/ ir # End(right)

\* Mutant: *(il++) and then ++il.
InsertPastLeftTwice ==
  /\ il = End(left)
  /\ \E lk \in KeyAt(left, il) : Put(Row(lk, il, Default))
  /\ wild' = TRUE
  /\ il' = il + 2
  /\ UNCHANGED ir

\* if (il == ile): there is no row at il, yet it is inserted.
InsertPastLeft ==
  /\ il = End(left)
  /\ \E lk \in KeyAt(left, il) : Put(Row(lk, il, Default))
  /\ wild' = TRUE
  /\ il' = il + 1
  /\ UNCHANGED ir

\* else if (ir == ire): likewise on the other side.
InsertPastRight ==
  /\ il # End(left)
  /\ ir = End(right)
  /\ \E rk \in KeyAt(right, ir) : Put(Row(rk, Default, ir))
  /\ wild' = TRUE
  /\ ir' = ir + 1
  /\ UNCHANGED il

\* Mutant: nothing is done.
TakeRightStuck(lk, rk) ==
  /\ lk > rk
  /\ UNCHANGED <<il, ir, result>>

TakeRight(lk, rk) ==
  /\ lk > rk
  /\ Put(Row(rk, Default, ir))
  /\ ir' = ir + 1
  /\ UNCHANGED il

\* Mutant: on equal keys too.
TakeLeftOnTie(lk, rk) ==
  /\ lk <= rk
  /\ Put(Row(lk, il, Default))
  /\ il' = il + 1
  /\ UNCHANGED ir

TakeLeft(lk, rk) ==
  /\ lk < rk
  /\ Put(Row(lk, il, Default))
  /\ il' = il + 1
  /\ UNCHANGED ir

\* selecfn is given both rows.
TakeBoth(lk, rk) ==
  /\ ~(lk > rk) /\ ~(lk < rk)
  /\ Put(Row(lk, il, ir))
  /\ il' = il + 1
  /\ ir' = ir + 1

Merge ==
  /\ il # End(left)
  /\ ir # End(right)
  /\ \E lk \in KeyAt(left, il), rk \in KeyAt(right, ir) :
       TakeRight(lk, rk) \/ TakeLeft(lk, rk) \/ TakeBoth(lk, rk)
  /\ ReadBoth

Iterate ==
  /\ pc = "loop"
  /\ Continue
  /\ InsertPastLeft \/ InsertPastRight \/ Merge
  /\ UNCHANGED <<left, right, pc>>

Crash == pc = "loop" /\ Continue /\ Die

Finish == ~Continue /\ Return

Next == Iterate \/ Crash \/ Finish \/ Stopped

Spec == Init /\ [][Next]_vars

\* The loop runs on the caller's thread, which nothing in it can block.
FairSpec == Spec /\ WF_vars(Iterate \/ Crash \/ Finish)

-----------------------------------------------------------------------------
(* Properties. *)

TypeOK ==
  /\ LoopTypeOK
  /\ il \in 1..(End(left) + Slack)
  /\ ir \in 1..(End(right) + Slack)

\* The keys of the first n rows of a column.
FirstKeys(s, n) == {s[p] : p \in {q \in DOMAIN s : q <= n}}

\* Until a cursor leaves its column, the result is the ordered union of what the
\* two cursors have passed: no key twice, none missing, none too early; and a row
\* gives selecfn a value exactly of the sides that have its key.
MergedSoFar ==
  ~wild /\ StrictlySorted(left) /\ StrictlySorted(right) =>
    /\ \A m, n \in DOMAIN result : m < n => result[m].key < result[n].key
    /\ {result[n].key : n \in DOMAIN result}
         = FirstKeys(left, il - 1) \cup FirstKeys(right, ir - 1)
    /\ \A n \in DOMAIN result :
         /\ result[n].l # Default <=> result[n].key \in KeysOf(left)
         /\ result[n].r # Default <=> result[n].key \in KeysOf(right)
         /\ result[n].l # Default => left[result[n].l] = result[n].key
         /\ result[n].r # Default => right[result[n].r] = result[n].key

\* The two series end in the same row of the result.
EndTogether ==
  IF left = <<>> \/ right = <<>> THEN left = right
  ELSE left[Len(left)] = right[Len(right)]

\* Whether the loop stays inside the columns, and whether it returns at all,
\* depends on the last keys only.
ReturnsIffEndTogether ==
  StrictlySorted(left) /\ StrictlySorted(right) =>
    /\ wild => ~EndTogether
    /\ pc = "done" => EndTogether

\* If the series end together, the loop returns; else it runs into a fault.
Stops ==
  <>(IF EndTogether \/ ~(StrictlySorted(left) /\ StrictlySorted(right))
     THEN pc # "loop" ELSE pc = "fault")
=============================================================================
