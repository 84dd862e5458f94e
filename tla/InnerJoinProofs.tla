-------------------------- MODULE InnerJoinProofs --------------------------
(***************************************************************************)
(* Theorems about cross_apply_inner, for series of any length and any      *)
(* keys.                                                                   *)
(*                                                                         *)
(* The inductive invariant says what the rows the two cursors have passed  *)
(* have left behind: result rows pair passed rows only, and no pair of     *)
(* equal keys is missing once one of its rows has been passed.  With       *)
(* repeated keys the cursors pass two partners in the same iteration.      *)
(***************************************************************************)
EXTENDS InnerJoin, SequenceTheorems, WellFoundedInduction, TLAPS

\* What is known of the result at any time, whatever the order of the keys.
PassedRows ==
  \A n \in DOMAIN result :
    /\ result[n].l \in 1..(il - 1)
    /\ result[n].r \in 1..(ir - 1)
    /\ result[n].key = left[result[n].l]
    /\ result[n].key = right[result[n].r]

Increasing ==
  \A m, n \in DOMAIN result :
    m < n => result[m].l < result[n].l /\ result[m].r < result[n].r

Joined(i, j) == \E n \in DOMAIN result : result[n] = Row(left[i], i, j)

NoneMissed ==
  StrictlySorted(left) /\ StrictlySorted(right) =>
    \A i \in DOMAIN left, j \in DOMAIN right :
      left[i] = right[j] /\ (i < il \/ j < ir) => Joined(i, j)

IInv ==
  /\ TypeOK
  /\ pc = "done" => ~Continue
  /\ PassedRows
  /\ Increasing
  /\ NoneMissed

-----------------------------------------------------------------------------

\* The invariant holds when the loop is entered.
LEMMA InitIInv == Init => IInv
<1>. SUFFICES ASSUME Init PROVE IInv
  OBVIOUS
<1>. USE DEF Init
<1>1. left \in Seq(Key) /\ right \in Seq(Key)
  BY InputsAssumption
<1>2. TypeOK
  <2>1. Len(left) \in Nat /\ Len(right) \in Nat
    BY <1>1
  <2>2. 1 \in 1..End(left) /\ 1 \in 1..End(right)
    BY <2>1 DEF End
  <2>3. result \in Seq([key : Key, l : Nat, r : Nat])
    BY EmptySeq
  <2>. QED
    BY <2>2, <2>3 DEF TypeOK, LoopTypeOK
<1>3. PassedRows /\ Increasing
  BY DEF PassedRows, Increasing
<1>4. NoneMissed
  BY <1>1 DEF NoneMissed
<1>. QED
  BY <1>2, <1>3, <1>4 DEF IInv

\* Inside the loop both cursors are at rows: the reads yield their keys.
LEMMA ReadsRows ==
  ASSUME IInv, Continue
  PROVE  /\ InRange(left, il) /\ InRange(right, ir)
         /\ KeyAt(left, il) = {left[il]}
         /\ KeyAt(right, ir) = {right[ir]}
         /\ left \in Seq(Key) /\ right \in Seq(Key)
         /\ left[il] \in Key /\ right[ir] \in Key
         /\ left[il] \in Int /\ right[ir] \in Int
<1>1. left \in Seq(Key) /\ right \in Seq(Key)
  BY InputsAssumption DEF IInv, TypeOK, LoopTypeOK
<1>2. InRange(left, il) /\ InRange(right, ir)
  BY <1>1 DEF IInv, TypeOK, Continue, End, InRange
<1>3. left[il] \in Key /\ right[ir] \in Key
  BY <1>1, <1>2 DEF InRange
<1>4. KeyAt(left, il) = {left[il]} /\ KeyAt(right, ir) = {right[ir]}
  BY <1>2 DEF KeyAt
<1>. QED
  BY <1>1, <1>2, <1>3, <1>4, KeyAssumption

\* A left row that is skipped has no partner.
LEMMA SkipLeftIInv ==
  ASSUME IInv, Iterate, SkipLeft(left[il], right[ir])
  PROVE  IInv'
<1>1. /\ InRange(left, il) /\ InRange(right, ir)
      /\ left \in Seq(Key) /\ right \in Seq(Key)
  BY ReadsRows DEF Iterate
<1>2. /\ il' = il + 1 /\ ir' = ir /\ result' = result /\ left[il] < right[ir]
      /\ left' = left /\ right' = right /\ pc' = "loop" /\ pc = "loop" /\ wild' = wild
  BY <1>1 DEF SkipLeft, Iterate, ReadBoth, IInv, TypeOK, LoopTypeOK
<1>3. TypeOK'
  BY <1>1, <1>2 DEF IInv, TypeOK, LoopTypeOK, InRange, End
<1>4. PassedRows' /\ Increasing'
  <2>1. il \in Nat /\ ir \in Nat
    BY DEF IInv, TypeOK, LoopTypeOK
  <2>2. /\ 1..(il - 1) \subseteq 1..(il' - 1)
        /\ 1..(ir - 1) \subseteq 1..(ir' - 1)
    BY <2>1, <1>2
  <2>3. PassedRows'
    BY <1>2, <2>2 DEF IInv, PassedRows
  <2>. QED
    BY <1>2, <2>3 DEF IInv, Increasing
<1>5. NoneMissed'
  <2>1. SUFFICES ASSUME StrictlySorted(left), StrictlySorted(right),
                        NEW i \in DOMAIN left, NEW j \in DOMAIN right,
                        left[i] = right[j], i < il + 1 \/ j < ir
                 PROVE  Joined(i, j)
    BY <1>2 DEF NoneMissed, Joined
  <2>2. /\ left[il] \in Int /\ right[ir] \in Int
        /\ DOMAIN left = 1..Len(left) /\ DOMAIN right = 1..Len(right)
        /\ il \in DOMAIN left /\ ir \in DOMAIN right
    BY <1>1, ReadsRows DEF Iterate, InRange
  <2>3. i # il \/ j < ir
    BY <1>2, <2>1, <2>2 DEF StrictlySorted
  <2>. QED
    BY <2>1, <2>2, <2>3 DEF IInv, NoneMissed
<1>. QED
  BY <1>2, <1>3, <1>4, <1>5 DEF IInv

\* Nor has a right row that is skipped.
LEMMA SkipRightIInv ==
  ASSUME IInv, Iterate, SkipRight(left[il], right[ir])
  PROVE  IInv'
<1>1. /\ InRange(left, il) /\ InRange(right, ir)
      /\ left \in Seq(Key) /\ right \in Seq(Key)
  BY ReadsRows DEF Iterate
<1>2. /\ il' = il /\ ir' = ir + 1 /\ result' = result /\ right[ir] < left[il]
      /\ left' = left /\ right' = right /\ pc' = "loop" /\ pc = "loop" /\ wild' = wild
  BY <1>1 DEF SkipRight, Iterate, ReadBoth, IInv, TypeOK, LoopTypeOK
<1>3. TypeOK'
  BY <1>1, <1>2 DEF IInv, TypeOK, LoopTypeOK, InRange, End
<1>4. PassedRows' /\ Increasing'
  <2>1. il \in Nat /\ ir \in Nat
    BY DEF IInv, TypeOK, LoopTypeOK
  <2>2. /\ 1..(il - 1) \subseteq 1..(il' - 1)
        /\ 1..(ir - 1) \subseteq 1..(ir' - 1)
    BY <2>1, <1>2
  <2>3. PassedRows'
    BY <1>2, <2>2 DEF IInv, PassedRows
  <2>. QED
    BY <1>2, <2>3 DEF IInv, Increasing
<1>5. NoneMissed'
  <2>1. SUFFICES ASSUME StrictlySorted(left), StrictlySorted(right),
                        NEW i \in DOMAIN left, NEW j \in DOMAIN right,
                        left[i] = right[j], i < il \/ j < ir + 1
                 PROVE  Joined(i, j)
    BY <1>2 DEF NoneMissed, Joined
  <2>2. /\ left[il] \in Int /\ right[ir] \in Int
        /\ DOMAIN left = 1..Len(left) /\ DOMAIN right = 1..Len(right)
        /\ il \in DOMAIN left /\ ir \in DOMAIN right
    BY <1>1, ReadsRows DEF Iterate, InRange
  <2>3. j # ir \/ i < il
    BY <1>2, <2>1, <2>2 DEF StrictlySorted
  <2>. QED
    BY <2>1, <2>2, <2>3 DEF IInv, NoneMissed
<1>. QED
  BY <1>2, <1>3, <1>4, <1>5 DEF IInv

\* Two rows with one key are joined as they are passed.
LEMMA MatchIInv ==
  ASSUME IInv, Iterate, Match(left[il], right[ir])
  PROVE  IInv'
<1>. DEFINE row == Row(left[il], il, ir)
<1>1. /\ InRange(left, il) /\ InRange(right, ir)
      /\ left \in Seq(Key) /\ right \in Seq(Key)
      /\ left[il] \in Key
      /\ left[il] \in Int /\ right[ir] \in Int
  BY ReadsRows DEF Iterate
<1>2. /\ il' = il + 1 /\ ir' = ir + 1 /\ result' = Append(result, row)
      /\ left[il] = right[ir]
      /\ left' = left /\ right' = right /\ pc' = "loop" /\ pc = "loop" /\ wild' = wild
  BY <1>1 DEF Match, Put, Iterate, ReadBoth, IInv, TypeOK, LoopTypeOK
<1>3. /\ result \in Seq([key : Key, l : Nat, r : Nat])
      /\ row \in [key : Key, l : Nat, r : Nat]
      /\ il \in 1..Len(left) /\ ir \in 1..Len(right)
  BY <1>1 DEF IInv, TypeOK, LoopTypeOK, Row, InRange
<1>4. /\ DOMAIN result' = 1..(Len(result) + 1)
      /\ DOMAIN result = 1..Len(result)
      /\ \A n \in DOMAIN result : result'[n] = result[n]
      /\ result'[Len(result) + 1] = row
      /\ Len(result) \in Nat
      /\ result' \in Seq([key : Key, l : Nat, r : Nat])
  <2>. DEFINE Rows == [key : Key, l : Nat, r : Nat]
  <2>1. result \in Seq(Rows) /\ row \in Rows /\ result' = Append(result, row)
    BY <1>2, <1>3
  <2>. HIDE DEF row, Rows
  <2>2. /\ Append(result, row) \in Seq(Rows)
        /\ Len(Append(result, row)) = Len(result) + 1
        /\ \A n \in 1..Len(result) : Append(result, row)[n] = result[n]
        /\ Append(result, row)[Len(result) + 1] = row
    BY <2>1, AppendProperties
  <2>3. DOMAIN result = 1..Len(result) /\ Len(result) \in Nat
    BY <2>1, LenProperties
  <2>4. DOMAIN result' = 1..Len(result')
    BY <2>1, <2>2, LenProperties
  <2>. QED
    BY <2>1, <2>2, <2>3, <2>4 DEF Rows
<1>5. TypeOK'
  BY <1>1, <1>2, <1>3, <1>4 DEF IInv, TypeOK, LoopTypeOK, InRange, End
<1>6. PassedRows'
  <2>1. SUFFICES ASSUME NEW n \in DOMAIN result'
                 PROVE  /\ result'[n].l \in 1..il
                        /\ result'[n].r \in 1..ir
                        /\ result'[n].key = left[result'[n].l]
                        /\ result'[n].key = right[result'[n].r]
    BY <1>2, <1>3 DEF PassedRows
  <2>2. CASE n \in DOMAIN result
    <3>1. /\ result[n].l \in 1..(il - 1) /\ result[n].r \in 1..(ir - 1)
          /\ result[n].key = left[result[n].l]
          /\ result[n].key = right[result[n].r]
      BY <2>2 DEF IInv, PassedRows
    <3>2. result'[n] = result[n]
      BY <1>4, <2>2
    <3>3. result[n].l \in 1..il /\ result[n].r \in 1..ir
      <4>1. il \in Nat /\ ir \in Nat
        BY DEF IInv, TypeOK, LoopTypeOK
      <4>. QED
        BY <3>1, <4>1
    <3>. QED
      BY <3>1, <3>2, <3>3
  <2>3. CASE n = Len(result) + 1
    BY <2>3, <1>2, <1>3, <1>4 DEF Row
  <2>. QED
    BY <1>4, <2>1, <2>2, <2>3
<1>7. Increasing'
  <2>1. SUFFICES ASSUME NEW m \in DOMAIN result', NEW n \in DOMAIN result', m < n
                 PROVE  result'[m].l < result'[n].l /\ result'[m].r < result'[n].r
    BY DEF Increasing
  <2>2. m \in DOMAIN result
    BY <1>4, <2>1
  <2>3. CASE n \in DOMAIN result
    BY <1>4, <2>1, <2>2, <2>3 DEF IInv, Increasing
  <2>4. CASE n = Len(result) + 1
    <3>1. result[m].l \in 1..(il - 1) /\ result[m].r \in 1..(ir - 1)
      BY <2>2 DEF IInv, PassedRows
    <3>2. result'[m] = result[m] /\ result'[n].l = il /\ result'[n].r = ir
      BY <1>4, <2>2, <2>4 DEF Row
    <3>3. il \in Nat /\ ir \in Nat
      BY DEF IInv, TypeOK, LoopTypeOK
    <3>. QED
      BY <3>1, <3>2, <3>3
  <2>. QED
    BY <1>4, <2>1, <2>3, <2>4
<1>8. NoneMissed'
  <2>1. SUFFICES ASSUME StrictlySorted(left), StrictlySorted(right),
                        NEW i \in DOMAIN left, NEW j \in DOMAIN right,
                        left[i] = right[j], i < il + 1 \/ j < ir + 1
                 PROVE  \E n \in DOMAIN result' : result'[n] = Row(left[i], i, j)
    BY <1>2 DEF NoneMissed, Joined
  <2>2. CASE i < il \/ j < ir
    BY <2>1, <2>2, <1>4 DEF IInv, NoneMissed, Joined
  <2>3. CASE i = il /\ j = ir
    BY <2>3, <1>4
  <2>4. /\ i \in 1..Len(left) /\ j \in 1..Len(right)
        /\ DOMAIN left = 1..Len(left) /\ DOMAIN right = 1..Len(right)
        /\ Len(left) \in Nat /\ Len(right) \in Nat
    BY <1>1, <2>1
  <2>5. CASE i = il /\ ~(j < ir)
    <3>1. ~(ir < j)
      <4>1. ir < j => right[ir] < right[j]
        BY <2>1, <2>4, <1>3 DEF StrictlySorted
      <4>2. right[ir] = right[j] /\ right[ir] \in Int
        BY <2>1, <2>5, <1>1, <1>2
      <4>. QED
        BY <4>1, <4>2
    <3>. QED
      BY <2>3, <2>4, <2>5, <3>1, <1>3
  <2>6. CASE j = ir /\ ~(i < il)
    <3>1. ~(il < i)
      <4>1. il < i => left[il] < left[i]
        BY <2>1, <2>4, <1>3 DEF StrictlySorted
      <4>2. left[il] = left[i] /\ left[il] \in Int
        BY <2>1, <2>6, <1>1, <1>2
      <4>. QED
        BY <4>1, <4>2
    <3>. QED
      BY <2>3, <2>4, <2>6, <3>1, <1>3
  <2>. QED
    BY <1>3, <2>1, <2>2, <2>4, <2>5, <2>6
<1>. QED
  BY <1>2, <1>5, <1>6, <1>7, <1>8 DEF IInv

\* Returning changes pc only.
LEMMA ReturnIInv == IInv /\ Finish => IInv'
<1>. SUFFICES ASSUME IInv, Finish PROVE IInv'
  OBVIOUS
<1>1. /\ ~Continue /\ pc' = "done"
      /\ left' = left /\ right' = right /\ il' = il /\ ir' = ir
      /\ result' = result /\ wild' = wild
  BY DEF Finish, Return
<1>. QED
  BY <1>1 DEF IInv, TypeOK, LoopTypeOK, PassedRows, Increasing, NoneMissed,
              Joined, Continue, End, InRange, StrictlySorted

\* Nothing changes once the loop has returned.
LEMMA StutterIInv == IInv /\ UNCHANGED vars => IInv'
BY DEF vars, IInv, TypeOK, LoopTypeOK, PassedRows, Increasing, NoneMissed,
       Joined, Continue, End, InRange, StrictlySorted

\* Inside the loop the branch is taken on the keys at the cursors.
LEMMA IterateBranches ==
  ASSUME IInv, Iterate
  PROVE  Body(left[il], right[ir])
BY ReadsRows DEF Iterate

\* Every step of the loop preserves the invariant.
LEMMA NextIInv == IInv /\ [Next]_vars => IInv'
<1>. SUFFICES ASSUME IInv, [Next]_vars PROVE IInv'
  OBVIOUS
<1>1. CASE Iterate
  BY <1>1, IterateBranches, SkipLeftIInv, SkipRightIInv, MatchIInv DEF Body
<1>2. CASE Finish
  BY <1>2, ReturnIInv
<1>3. CASE Stopped \/ UNCHANGED vars
  BY <1>3, StutterIInv DEF Stopped
<1>. QED
  BY <1>1, <1>2, <1>3 DEF Next

\* The invariant holds throughout the loop.
THEOREM Invariance == Spec => []IInv
BY InitIInv, NextIInv, PTL DEF Spec

-----------------------------------------------------------------------------

\* The cursors of cross_apply_inner never leave their columns and it reads rows
\* only, whatever the two series hold.
THEOREM TypeCorrect == Spec => []TypeOK
<1>1. IInv => TypeOK
  BY DEF IInv
<1>. QED
  BY <1>1, Invariance, PTL

\* Result rows pair rows with their key, and no row is used twice.
THEOREM JoinSound == Spec => []Sound
<1>1. IInv => Sound
  <2>. SUFFICES ASSUME IInv PROVE Sound
    OBVIOUS
  <2>1. left \in Seq(Key) /\ right \in Seq(Key)
    BY InputsAssumption DEF IInv, TypeOK, LoopTypeOK
  <2>2. /\ Len(left) \in Nat /\ Len(right) \in Nat /\ il \in Nat /\ ir \in Nat
        /\ il - 1 <= Len(left) /\ ir - 1 <= Len(right)
    BY <2>1 DEF IInv, TypeOK, LoopTypeOK, End
  <2>3. (\A p \in 1..(il - 1) : InRange(left, p)) /\ (\A p \in 1..(ir - 1) : InRange(right, p))
    BY <2>2 DEF InRange
  <2>4. PassedRows /\ Increasing
    BY DEF IInv
  <2>. QED
    BY <2>3, <2>4 DEF PassedRows, Increasing, Sound
<1>. QED
  BY <1>1, Invariance, PTL

\* For series with distinct increasing keys: every pair of rows with one key is in
\* the result that cross_apply_inner returns.
Complete ==
  pc = "done" /\ Ordered =>
    \A i \in DOMAIN left, j \in DOMAIN right :
      left[i] = right[j] => \E n \in DOMAIN result : result[n] = Row(left[i], i, j)

\* The join of two series with distinct increasing keys misses no match.
THEOREM JoinComplete == Spec => []Complete
<1>1. IInv => Complete
  <2>. SUFFICES ASSUME IInv, pc = "done", StrictlySorted(left), StrictlySorted(right),
                       NEW i \in DOMAIN left, NEW j \in DOMAIN right,
                       left[i] = right[j]
                PROVE  Joined(i, j)
    BY DEF Complete, Ordered, Joined
  <2>1. left \in Seq(Key) /\ right \in Seq(Key)
    BY InputsAssumption DEF IInv, TypeOK, LoopTypeOK
  <2>2. i < il \/ j < ir
    BY <2>1 DEF IInv, Continue, End
  <2>. QED
    BY <2>2 DEF IInv, NoneMissed
<1>. QED
  BY <1>1, Invariance, PTL

-----------------------------------------------------------------------------

\* A pair of equal keys that is still pending has both its rows ahead.
LEMMA PendingAhead ==
  ASSUME IInv, StrictlySorted(left), StrictlySorted(right),
         NEW pair \in Abstract!Pending
  PROVE  /\ pair[1] \in DOMAIN left /\ pair[2] \in DOMAIN right
         /\ ~(pair[1] < il) /\ ~(pair[2] < ir)
<1>1. /\ pair[1] \in DOMAIN left /\ pair[2] \in DOMAIN right
      /\ left[pair[1]] = right[pair[2]]
      /\ \A n \in DOMAIN result : result[n].l < pair[1]
  BY DEF Abstract!Pending
<1>2. ~Joined(pair[1], pair[2])
  <2>1. SUFFICES ASSUME NEW n \in DOMAIN result,
                        result[n] = Row(left[pair[1]], pair[1], pair[2])
                 PROVE  FALSE
    BY DEF Joined
  <2>2. left \in Seq(Key)
    BY InputsAssumption DEF IInv, TypeOK, LoopTypeOK
  <2>3. result[n].l = pair[1] /\ pair[1] \in Nat
    BY <1>1, <2>1, <2>2 DEF Row
  <2>. QED
    BY <1>1, <2>3
<1>. QED
  BY <1>1, <1>2 DEF IInv, NoneMissed

\* The pair that is joined is the first one pending.
LEMMA MatchEmits ==
  ASSUME IInv, Iterate, Match(left[il], right[ir]),
         StrictlySorted(left), StrictlySorted(right)
  PROVE  Abstract!Emit
<1>1. /\ InRange(left, il) /\ InRange(right, ir)
      /\ left \in Seq(Key) /\ right \in Seq(Key)
      /\ left[il] \in Int /\ right[ir] \in Int
  BY ReadsRows DEF Iterate
<1>2. /\ result' = Append(result, Row(left[il], il, ir))
      /\ left[il] = right[ir]
      /\ left' = left /\ right' = right /\ pc' = pc /\ pc = "loop"
  BY <1>1 DEF Match, Put, Iterate
<1>. DEFINE this == <<il, ir>>
<1>3. this \in Abstract!Pending
  <2>1. \A n \in DOMAIN result : result[n].l < il
    BY <1>1 DEF IInv, PassedRows, InRange
  <2>. QED
    BY <1>1, <1>2, <2>1 DEF Abstract!Pending, InRange
<1>4. \A other \in Abstract!Pending : this[1] <= other[1]
  BY <1>1, PendingAhead DEF InRange
<1>. QED
  BY <1>2, <1>3, <1>4 DEF Abstract!Emit, Row

\* A step of the loop is a step of the abstract join, or changes nothing of it.
LEMMA StepSimulates ==
  ASSUME IInv, [Next]_vars, StrictlySorted(left), StrictlySorted(right)
  PROVE  [Abstract!JoinNext]_(Abstract!joinVars)
<1>1. CASE Iterate
  <2>1. CASE SkipLeft(left[il], right[ir]) \/ SkipRight(left[il], right[ir])
    BY <1>1, <2>1 DEF SkipLeft, SkipRight, Iterate, Abstract!joinVars
  <2>2. CASE Match(left[il], right[ir])
    BY <1>1, <2>2, MatchEmits DEF Abstract!JoinNext
  <2>. QED
    BY <1>1, <2>1, <2>2, IterateBranches DEF Body
<1>2. CASE Finish
  <2>1. Abstract!Pending = {}
    <3>1. SUFFICES ASSUME NEW pair \in Abstract!Pending PROVE FALSE
      OBVIOUS
    <3>2. left \in Seq(Key) /\ right \in Seq(Key)
      BY InputsAssumption DEF IInv, TypeOK, LoopTypeOK
    <3>3. /\ pair[1] \in DOMAIN left /\ pair[2] \in DOMAIN right
          /\ ~(pair[1] < il) /\ ~(pair[2] < ir)
      BY <3>1, PendingAhead
    <3>. QED
      BY <1>2, <3>2, <3>3 DEF Finish, Continue, End
  <2>. QED
    BY <1>2, <2>1 DEF Finish, Return, Abstract!Finish, Abstract!JoinNext
<1>3. CASE Stopped \/ UNCHANGED vars
  BY <1>3 DEF Stopped, vars, Abstract!joinVars
<1>. QED
  BY <1>1, <1>2, <1>3 DEF Next

\* cross_apply_inner implements the abstract join whenever the keys of both
\* series are distinct and increasing.
THEOREM Refinement == Spec => ImplementsEquiJoin
<1>1. Init => (Ordered => Abstract!JoinInit)
  BY DEF Init, Abstract!JoinInit
<1>2. IInv /\ [Next]_vars => [Ordered => Abstract!JoinNext]_(Abstract!joinVars)
  BY StepSimulates DEF Ordered
<1>. QED
  BY <1>1, <1>2, Invariance, PTL DEF Spec, ImplementsEquiJoin
-----------------------------------------------------------------------------
(* Repeated keys. *)

\* The two cursors pass the rows of a pair of partners in the same iteration, and it is
\* in the result from then on.
InStep ==
  Sorted(left) /\ Sorted(right) =>
    /\ \A n \in DOMAIN result : Partners(result[n].l, result[n].r)
    /\ \A i \in DOMAIN left, j \in DOMAIN right :
         Partners(i, j) => /\ i < il <=> j < ir
                           /\ i < il => \E n \in DOMAIN result : /\ result[n].l = i
                                                                 /\ result[n].r = j

\* A set of positions has a least one.
LEMMA Least ==
  ASSUME NEW S \in SUBSET Nat, S # {}
  PROVE  \E x \in S : \A y \in S : x <= y
<1>. DEFINE R == OpToRel(<, Nat)
<1>1. IsWellFoundedOn(R, Nat)
  BY NatLessThanWellFounded
<1>2. \A x, y \in Nat : x < y => <<x, y>> \in R
  BY DEF OpToRel
<1>. HIDE DEF R
<1>3. PICK x \in S : \A y \in S : ~(<<y, x>> \in R)
  BY <1>1, WFMin
<1>4. ASSUME NEW y \in S PROVE x <= y
  <2>1. x \in Nat /\ y \in Nat
    OBVIOUS
  <2>2. ~(y < x)
    BY <1>2, <1>3, <2>1
  <2>. QED
    BY <2>1, <2>2
<1>. QED
  BY <1>4

\* The first row with the key of row i.
LEMMA FirstOfKey ==
  ASSUME NEW s \in Seq(Key), NEW i \in DOMAIN s
  PROVE  /\ FirstOf(s, s[i]) \in DOMAIN s
         /\ s[FirstOf(s, s[i])] = s[i]
         /\ FirstOf(s, s[i]) <= i
<1>. DEFINE S == {p \in DOMAIN s : s[p] = s[i]}
<1>1. S \in SUBSET Nat /\ i \in S
  BY LenProperties
<1>2. PICK x \in S : \A y \in S : x <= y
  BY <1>1, Least
<1>3. \E p \in DOMAIN s : s[p] = s[i] /\ \A q \in DOMAIN s : s[q] = s[i] => p <= q
  BY <1>2
<1>. QED
  BY <1>3 DEF FirstOf

\* Rows of one key are numbered by their ranks.
LEMMA Ranks ==
  ASSUME NEW s \in Seq(Key), NEW i \in DOMAIN s, NEW h \in DOMAIN s, s[h] = s[i]
  PROVE  /\ i \in Nat /\ h \in Nat /\ Rank(s, i) \in Nat /\ Rank(s, h) \in Nat
         /\ Rank(s, h) - Rank(s, i) = h - i
<1>1. i \in Nat /\ h \in Nat
  BY LenProperties
<1>2. FirstOf(s, s[i]) \in Nat /\ FirstOf(s, s[i]) <= i
  BY FirstOfKey, LenProperties
<1>3. FirstOf(s, s[h]) = FirstOf(s, s[i]) /\ FirstOf(s, s[h]) <= h
  BY FirstOfKey
<1>. QED
  BY <1>1, <1>2, <1>3 DEF Rank

\* In a sorted series every rank below that of row i is taken by a row before it.
LEMMA RowOfRank ==
  ASSUME NEW s \in Seq(Key), Sorted(s), NEW i \in DOMAIN s, NEW y \in Nat, y < Rank(s, i)
  PROVE  \E h \in DOMAIN s : h < i /\ s[h] = s[i] /\ Rank(s, h) = y
<1>. DEFINE f == FirstOf(s, s[i])
            h == f + y
<1>1. f \in DOMAIN s /\ s[f] = s[i] /\ f <= i
  BY FirstOfKey
<1>2. DOMAIN s = 1..Len(s) /\ Len(s) \in Nat /\ i \in Nat /\ f \in Nat
  BY <1>1, LenProperties
<1>3. y < i - f
  BY DEF Rank
<1>. HIDE DEF f
<1>4. h \in DOMAIN s /\ f <= h /\ h < i
  BY <1>1, <1>2, <1>3
<1>5. s[h] = s[i]
  <2>1. s[f] <= s[h] /\ s[h] <= s[i]
    BY <1>1, <1>2, <1>4 DEF Sorted
  <2>2. s[h] \in Int /\ s[i] \in Int
    BY <1>2, <1>4, LenProperties, KeyAssumption
  <2>. QED
    BY <1>1, <2>1, <2>2
<1>6. Rank(s, h) = y
  BY <1>2, <1>5 DEF Rank, f
<1>. QED
  BY <1>4, <1>5, <1>6

\* The rows of two cursors that are in step are partners if they have one key.
LEMMA MatchPartners ==
  ASSUME IInv, InStep, Continue, Sorted(left), Sorted(right), left[il] = right[ir]
  PROVE  Partners(il, ir)
<1>1. /\ left \in Seq(Key) /\ right \in Seq(Key)
      /\ il \in DOMAIN left /\ ir \in DOMAIN right
  BY ReadsRows, LenProperties DEF InRange
<1>2. /\ il \in Nat /\ ir \in Nat
      /\ Rank(left, il) \in Nat /\ Rank(right, ir) \in Nat
  BY <1>1, Ranks
<1>3. ~(Rank(left, il) < Rank(right, ir))
  <2>. SUFFICES ASSUME Rank(left, il) < Rank(right, ir) PROVE FALSE
    OBVIOUS
  <2>1. PICK h \in DOMAIN right :
          h < ir /\ right[h] = right[ir] /\ Rank(right, h) = Rank(left, il)
    BY <1>1, <1>2, RowOfRank
  <2>2. Partners(il, h)
    BY <2>1 DEF Partners
  <2>. QED
    BY <1>1, <1>2, <2>1, <2>2 DEF InStep
<1>4. ~(Rank(right, ir) < Rank(left, il))
  <2>. SUFFICES ASSUME Rank(right, ir) < Rank(left, il) PROVE FALSE
    OBVIOUS
  <2>1. PICK h \in DOMAIN left :
          h < il /\ left[h] = left[il] /\ Rank(left, h) = Rank(right, ir)
    BY <1>1, <1>2, RowOfRank
  <2>2. Partners(h, ir)
    BY <2>1 DEF Partners
  <2>. QED
    BY <1>1, <1>2, <2>1, <2>2 DEF InStep
<1>. QED
  BY <1>2, <1>3, <1>4 DEF Partners

\* A row has one partner at most.
LEMMA OnePartner ==
  ASSUME IInv, NEW i \in DOMAIN left, NEW j \in DOMAIN right,
         NEW h \in DOMAIN left, NEW k \in DOMAIN right,
         Partners(i, j), Partners(h, k)
  PROVE  i = h <=> j = k
<1>1. left \in Seq(Key) /\ right \in Seq(Key)
  BY InputsAssumption DEF IInv, TypeOK, LoopTypeOK
<1>2. ASSUME i = h PROVE j = k
  <2>1. right[j] = right[k] /\ Rank(right, j) = Rank(right, k)
    BY <1>2 DEF Partners
  <2>. QED
    BY <1>1, <2>1, Ranks
<1>3. ASSUME j = k PROVE i = h
  <2>1. left[i] = left[h] /\ Rank(left, i) = Rank(left, h)
    BY <1>3 DEF Partners
  <2>. QED
    BY <1>1, <2>1, Ranks
<1>. QED
  BY <1>2, <1>3

\* An iteration keeps the cursors in step: a row that is skipped has no partner, and
\* the rows of a match are partners.
LEMMA IterateInStep ==
  ASSUME IInv, InStep, Iterate
  PROVE  InStep'
<1>. SUFFICES ASSUME Sorted(left), Sorted(right) PROVE InStep'
  BY DEF InStep, Sorted, Iterate
<1>1. /\ left \in Seq(Key) /\ right \in Seq(Key)
      /\ DOMAIN left = 1..Len(left) /\ DOMAIN right = 1..Len(right)
      /\ il \in DOMAIN left /\ ir \in DOMAIN right
      /\ left[il] \in Int /\ right[ir] \in Int
  BY ReadsRows, LenProperties DEF InRange, Iterate
<1>2. \A p \in DOMAIN left : left[p] \in Int
  BY <1>1, LenProperties, KeyAssumption
<1>3. \A p \in DOMAIN right : right[p] \in Int
  BY <1>1, LenProperties, KeyAssumption
<1>4. left' = left /\ right' = right
  BY DEF Iterate
<1>5. \A i, j : Partners(i, j)' <=> Partners(i, j)
  BY <1>4 DEF Partners, Rank, FirstOf
<1>6. /\ \A n \in DOMAIN result : Partners(result[n].l, result[n].r)
      /\ \A i \in DOMAIN left, j \in DOMAIN right :
           Partners(i, j) => /\ i < il <=> j < ir
                             /\ i < il => \E n \in DOMAIN result : /\ result[n].l = i
                                                                   /\ result[n].r = j
  BY DEF InStep
<1>7. CASE SkipLeft(left[il], right[ir])
  <2>1. il' = il + 1 /\ ir' = ir /\ result' = result /\ left[il] < right[ir]
    BY <1>7 DEF SkipLeft
  <2>2. ASSUME NEW j \in DOMAIN right, Partners(il, j) PROVE FALSE
    <3>1. ~(j < ir)
      BY <1>1, <1>6, <2>2
    <3>2. right[ir] <= right[j]
      BY <1>1, <3>1 DEF Sorted
    <3>. QED
      BY <1>1, <1>3, <2>1, <2>2, <3>2 DEF Partners
  <2>3. ASSUME NEW i \in DOMAIN left, NEW j \in DOMAIN right, Partners(i, j)
        PROVE  i < il + 1 <=> i < il
    BY <1>1, <2>2, <2>3
  <2>. QED
    BY <1>4, <1>5, <1>6, <2>1, <2>3 DEF InStep
<1>8. CASE SkipRight(left[il], right[ir])
  <2>1. il' = il /\ ir' = ir + 1 /\ result' = result /\ right[ir] < left[il]
    BY <1>8 DEF SkipRight
  <2>2. ASSUME NEW i \in DOMAIN left, Partners(i, ir) PROVE FALSE
    <3>1. ~(i < il)
      BY <1>1, <1>6, <2>2
    <3>2. left[il] <= left[i]
      BY <1>1, <3>1 DEF Sorted
    <3>. QED
      BY <1>1, <1>2, <2>1, <2>2, <3>2 DEF Partners
  <2>3. ASSUME NEW i \in DOMAIN left, NEW j \in DOMAIN right, Partners(i, j)
        PROVE  j < ir + 1 <=> j < ir
    BY <1>1, <2>2, <2>3
  <2>. QED
    BY <1>4, <1>5, <1>6, <2>1, <2>3 DEF InStep
<1>9. CASE Match(left[il], right[ir])
  <2>1. /\ il' = il + 1 /\ ir' = ir + 1
        /\ result' = Append(result, Row(left[il], il, ir))
        /\ left[il] = right[ir]
    BY <1>1, <1>9 DEF Match, Put
  <2>2. Partners(il, ir)
    BY <2>1, MatchPartners DEF Iterate
  <2>3. /\ DOMAIN result' = 1..(Len(result) + 1)
        /\ DOMAIN result = 1..Len(result) /\ Len(result) \in Nat
        /\ \A n \in DOMAIN result : result'[n] = result[n]
        /\ result'[Len(result) + 1] = Row(left[il], il, ir)
    <3>. DEFINE Rows == [key : Key, l : Nat, r : Nat]
                row  == Row(left[il], il, ir)
    <3>1. result \in Seq(Rows) /\ row \in Rows /\ result' = Append(result, row)
      <4>1. left[il] \in Key
        BY ReadsRows DEF Iterate
      <4>. QED
        BY <2>1, <4>1 DEF IInv, TypeOK, LoopTypeOK, Row
    <3>. HIDE DEF row, Rows
    <3>2. /\ Append(result, row) \in Seq(Rows)
          /\ Len(Append(result, row)) = Len(result) + 1
          /\ \A n \in 1..Len(result) : Append(result, row)[n] = result[n]
          /\ Append(result, row)[Len(result) + 1] = row
      BY <3>1, AppendProperties
    <3>3. DOMAIN result = 1..Len(result) /\ Len(result) \in Nat
      BY <3>1, LenProperties
    <3>4. DOMAIN result' = 1..Len(result')
      BY <3>1, <3>2, LenProperties
    <3>. QED
      BY <3>1, <3>2, <3>3, <3>4 DEF row
  <2>4. ASSUME NEW n \in DOMAIN result'
        PROVE  Partners(result'[n].l, result'[n].r)
    <3>1. CASE n \in DOMAIN result
      BY <1>6, <2>3, <3>1
    <3>2. CASE n = Len(result) + 1
      BY <2>2, <2>3, <3>2 DEF Row
    <3>. QED
      BY <2>3, <3>1, <3>2
  <2>5. ASSUME NEW i \in DOMAIN left, NEW j \in DOMAIN right, Partners(i, j)
        PROVE  /\ i < il + 1 <=> j < ir + 1
               /\ i < il + 1 => \E n \in DOMAIN result' : /\ result'[n].l = i
                                                          /\ result'[n].r = j
    <3>1. i = il <=> j = ir
      BY <1>1, <2>2, <2>5, OnePartner
    <3>2. i < il <=> j < ir
      BY <1>6, <2>5
    <3>3. i \in Nat /\ j \in Nat /\ il \in Nat /\ ir \in Nat
      BY <1>1
    <3>4. i < il + 1 <=> j < ir + 1
      BY <3>1, <3>2, <3>3
    <3>5. ASSUME i < il PROVE \E n \in DOMAIN result' : result'[n].l = i /\ result'[n].r = j
      <4>1. PICK n \in DOMAIN result : result[n].l = i /\ result[n].r = j
        BY <1>6, <2>5, <3>5
      <4>. QED
        BY <2>3, <4>1
    <3>6. ASSUME i = il PROVE \E n \in DOMAIN result' : result'[n].l = i /\ result'[n].r = j
      BY <2>3, <3>1, <3>6 DEF Row
    <3>. QED
      BY <3>3, <3>4, <3>5, <3>6
  <2>. QED
    BY <1>4, <1>5, <2>1, <2>4, <2>5 DEF InStep
<1>. QED
  BY <1>7, <1>8, <1>9, IterateBranches DEF Body

\* The cursors are in step throughout the loop.
LEMMA PairInvariance == Spec => [](IInv /\ InStep)
<1>1. Init => InStep
  <2>. SUFFICES ASSUME Init, Sorted(left), Sorted(right) PROVE InStep
    BY DEF InStep
  <2>1. left \in Seq(Key) /\ right \in Seq(Key)
    BY InputsAssumption DEF Init
  <2>2. /\ \A i \in DOMAIN left : ~(i < 1)
        /\ \A j \in DOMAIN right : ~(j < 1)
    BY <2>1, LenProperties
  <2>. QED
    BY <2>2 DEF InStep, Init
<1>2. IInv /\ InStep /\ [Next]_vars => InStep'
  <2>. SUFFICES ASSUME IInv, InStep, [Next]_vars PROVE InStep'
    OBVIOUS
  <2>1. CASE Iterate
    BY <2>1, IterateInStep
  <2>2. CASE Finish \/ Stopped \/ UNCHANGED vars
    <3>1. /\ left' = left /\ right' = right /\ il' = il /\ ir' = ir
          /\ result' = result
      BY <2>2 DEF Finish, Return, Stopped, vars
    <3>2. \A i, j : Partners(i, j)' <=> Partners(i, j)
      BY <3>1 DEF Partners, Rank, FirstOf
    <3>3. Sorted(left)' <=> Sorted(left)
      BY <3>1 DEF Sorted
    <3>4. Sorted(right)' <=> Sorted(right)
      BY <3>1 DEF Sorted
    <3>. QED
      BY <3>1, <3>2, <3>3, <3>4 DEF InStep
  <2>. QED
    BY <2>1, <2>2 DEF Next
<1>. QED
  BY <1>1, <1>2, InitIInv, NextIInv, PTL DEF Spec

\* Of repeated keys cross_apply_inner pairs the first with the first, the second with
\* the second, and leaves the rest.
THEOREM RepeatsPairedOff == Spec => []PairsOffRepeats
<1>1. IInv /\ InStep => PairsOffRepeats
  <2>. SUFFICES ASSUME IInv, InStep, pc = "done", Sorted(left), Sorted(right),
                       NEW i \in DOMAIN left, NEW j \in DOMAIN right
                PROVE  (\E n \in DOMAIN result : result[n].l = i /\ result[n].r = j)
                         <=> Partners(i, j)
    BY DEF PairsOffRepeats
  <2>1. (\E n \in DOMAIN result : result[n].l = i /\ result[n].r = j) => Partners(i, j)
    BY DEF InStep
  <2>2. ASSUME Partners(i, j)
        PROVE  \E n \in DOMAIN result : result[n].l = i /\ result[n].r = j
    <3>1. /\ left \in Seq(Key) /\ right \in Seq(Key)
          /\ il = End(left) \/ ir = End(right)
      BY InputsAssumption DEF IInv, TypeOK, LoopTypeOK, Continue
    <3>2. i < End(left) /\ j < End(right)
      BY <3>1, LenProperties DEF End
    <3>3. i < il <=> j < ir
      BY <2>2 DEF InStep
    <3>4. i < il
      BY <3>1, <3>2, <3>3
    <3>. QED
      BY <2>2, <3>4 DEF InStep
  <2>. QED
    BY <2>1, <2>2
<1>. QED
  BY <1>1, PairInvariance, PTL
=============================================================================
