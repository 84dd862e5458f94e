-------------------------- MODULE MergeAsofProofs --------------------------
(***************************************************************************)
(* Theorems about merge_apply_asof, for series of any length in any order, *)
(* any mode, any of the comparers and any window.                          *)
(*                                                                         *)
(* Of the comparers the first theorems use only that a comparison of the   *)
(* same keys gives the same answer: a merge that has inserted a row for a  *)
(* left row and not moved on will find the same order again.  The sections *)
(* after them are about what each comparer finds.                          *)
(***************************************************************************)
EXTENDS MergeAsof, SequenceTheorems, TLAPS

Rows == [key : Key, l : Nat, r : Nat]

\* With a right row the right cursor never leaves the rows, and nothing else is read.
Inside == right # <<>> => ir \in 1..Len(right) /\ ~wild

\* What the comparer says at the cursors.
Here ==
  CompareFunc(left[il], right[ir],
              IF compare = "default" THEN Default ELSE right[Candidate])[1]

\* A left row that has a result row and is still at the cursor is the one the merge
\* is stuck at.
Stuck == ir = Len(right) /\ il <= Len(left) /\ Here = "greater"

RowPerRow ==
  right # <<>> =>
    /\ \A n \in DOMAIN result :
         /\ result[n].l = Lesser(n, il)
         /\ n >= il => result[n].r = Default
    /\ Len(result) >= il - 1
    /\ Len(result) >= il => Stuck

IInv ==
  /\ TypeOK
  /\ Inside
  /\ RowPerRow
  /\ pc = "done" => ~Continue

-----------------------------------------------------------------------------

\* The columns are sequences of integer keys.
LEMMA ColumnsTyped ==
  ASSUME TypeOK
  PROVE  /\ left \in Seq(Key) /\ right \in Seq(Key)
         /\ Len(left) \in Nat /\ Len(right) \in Nat
         /\ DOMAIN left = 1..Len(left) /\ DOMAIN right = 1..Len(right)
         /\ il \in Nat /\ ir \in Nat /\ ir >= 1 /\ il \in 1..(Len(left) + 1)
         /\ result \in Seq(Rows) /\ Len(result) \in Nat
<1>1. left \in Seq(Key) /\ right \in Seq(Key)
  BY InputsAssumption DEF TypeOK, LoopTypeOK
<1>2. Len(left) \in Nat /\ Len(right) \in Nat
  BY <1>1
<1>3. result \in Seq(Rows)
  BY DEF TypeOK, LoopTypeOK, Rows
<1>. QED
  BY <1>1, <1>2, <1>3, SlackAssumption DEF TypeOK, LoopTypeOK, End

\* A comparer returns one of three orders and a position.
LEMMA CompareShape ==
  ASSUME TypeOK, NEW lk \in Int, NEW rk \in Int, NEW ck \in Int
  PROVE  /\ CompareFunc(lk, rk, ck)[1] \in {"less", "greater", "equal"}
         /\ CompareFunc(lk, rk, ck)[2] \in Nat
<1>1. ir \in Nat /\ ir >= 1
  BY ColumnsTyped
<1>2. Candidate \in Nat
  BY <1>1 DEF Candidate, TypeOK, Modes
<1>3. CASE compare = "default"
  BY <1>1, <1>3 DEF CompareFunc, DefaultCompare
<1>4. CASE compare = "prior"
  BY <1>1, <1>2, <1>4 DEF CompareFunc, PriorCompare
<1>5. CASE compare = "fwd"
  BY <1>1, <1>2, <1>5 DEF CompareFunc, FwdCompare
<1>. QED
  BY <1>3, <1>4, <1>5 DEF TypeOK, Comparers

\* With a right row an iteration reads the keys at the cursors and at the candidate.
LEMMA ReadsRows ==
  ASSUME IInv, Continue, right # <<>>
  PROVE  /\ InRange(left, il) /\ InRange(right, ir) /\ InRange(right, Candidate)
         /\ KeyAt(left, il) = {left[il]} /\ KeyAt(right, ir) = {right[ir]}
         /\ KeyAtCandidate =
              {IF compare = "default" THEN Default ELSE right[Candidate]}
<1>1. InRange(left, il)
  BY ColumnsTyped DEF IInv, Continue, End, InRange
<1>2. ir \in 1..Len(right)
  BY DEF IInv, Inside
<1>3. Candidate \in 1..Len(right)
  BY <1>2, ColumnsTyped DEF Candidate, IInv, TypeOK, Modes
<1>. QED
  BY <1>1, <1>2, <1>3 DEF InRange, KeyAt, KeyAtCandidate

\* The same keys at the same cursors compare as before.
LEMMA CompareAgain ==
  ASSUME left' = left, right' = right, il' = il, ir' = ir,
         mode' = mode, compare' = compare
  PROVE  Here' = Here
<1>1. Candidate' = Candidate
  BY DEF Candidate
<1>. QED
  BY <1>1 DEF Here, CompareFunc, DefaultCompare, PriorCompare, FwdCompare

-----------------------------------------------------------------------------

\* The invariant holds when the loop is entered.
LEMMA InitIInv == AsofInit => IInv
<1>. SUFFICES ASSUME AsofInit PROVE IInv
  OBVIOUS
<1>. USE DEF AsofInit, Init
<1>1. left \in Seq(Key) /\ right \in Seq(Key)
  BY InputsAssumption
<1>2. Len(left) \in Nat /\ Len(right) \in Nat
  BY <1>1
<1>3. TypeOK
  <2>1. result \in Seq([key : Key, l : Nat, r : Nat]) /\ Len(result) = 0
    BY EmptySeq
  <2>2. 1 \in 1..End(left) /\ 1 \in 1..(End(right) + Slack)
    BY <1>2, SlackAssumption DEF End
  <2>3. LoopTypeOK
    BY <2>1 DEF LoopTypeOK
  <2>4. il \in 1..End(left) /\ ir \in 1..(End(right) + Slack)
    BY <2>2
  <2>5. Len(result) <= MaxRows
    BY <2>1, MaxRowsAssumption
  <2>. QED
    BY <2>3, <2>4, <2>5 DEF TypeOK
<1>4. Inside
  <2>1. right # <<>> => Len(right) >= 1
    BY <1>1, <1>2, EmptySeq
  <2>. QED
    BY <1>2, <2>1 DEF Inside
<1>5. RowPerRow
  BY DEF RowPerRow
<1>. QED
  BY <1>3, <1>4, <1>5 DEF IInv

\* What an iteration reads, finds and does.
LEMMA IterateReads ==
  ASSUME IInv, Iterate
  PROVE  \E lk \in Key, rk \in Key, ck \in Int :
           LET comp == CompareFunc(lk, rk, ck)
           IN /\ LessThan(lk, comp) \/ GreaterThan(lk, comp) \/ Equal(lk, rk, comp)
              /\ il \in 1..Len(left)
              /\ ir <= Len(right) + Slack
              /\ lk = left[il]
              /\ right # <<>> =>
                   /\ rk = right[ir]
                   /\ ck = IF compare = "default" THEN Default ELSE right[Candidate]
<1>1. PICK lk \in KeyAt(left, il), rk \in KeyAt(right, ir), ck \in KeyAtCandidate :
        LET comp == CompareFunc(lk, rk, ck)
        IN LessThan(lk, comp) \/ GreaterThan(lk, comp) \/ Equal(lk, rk, comp)
  BY DEF Iterate
<1>2. il \in 1..Len(left)
  BY ColumnsTyped DEF IInv, Iterate, Continue, End
<1>3. lk = left[il] /\ lk \in Key
  BY <1>2, ColumnsTyped DEF IInv, KeyAt, InRange
<1>4. rk \in Key /\ ir <= Len(right) + Slack
  <2>1. CASE InRange(right, ir)
    BY <2>1, ColumnsTyped, SlackAssumption DEF IInv, KeyAt, InRange
  <2>2. CASE ~InRange(right, ir)
    BY <2>2 DEF KeyAt
  <2>. QED
    BY <2>1, <2>2
<1>5. ck \in Int
  <2>1. CASE compare = "default"
    BY <2>1 DEF KeyAtCandidate, Default
  <2>2. CASE compare # "default"
    <3>1. ck \in KeyAt(right, Candidate)
      BY <2>2 DEF KeyAtCandidate
    <3>2. ck \in Key
      <4>1. CASE InRange(right, Candidate)
        BY <3>1, <4>1, ColumnsTyped DEF IInv, KeyAt, InRange
      <4>2. CASE ~InRange(right, Candidate)
        BY <3>1, <4>2 DEF KeyAt
      <4>. QED
        BY <4>1, <4>2
    <3>. QED
      BY <3>2, KeyAssumption
  <2>. QED
    BY <2>1, <2>2
<1>6. right # <<>> =>
        /\ rk = right[ir]
        /\ ck = IF compare = "default" THEN Default ELSE right[Candidate]
  BY ReadsRows DEF Iterate
<1>. QED
  BY <1>1, <1>2, <1>3, <1>4, <1>5, <1>6

\* What inserting a row does to the result.
LEMMA PutRow ==
  ASSUME TypeOK, NEW k \in Key, NEW i \in Nat, NEW j \in Nat,
         result' = Append(result, Row(k, i, j))
  PROVE  /\ result' \in Seq([key : Key, l : Nat, r : Nat])
         /\ Len(result') = Len(result) + 1
         /\ DOMAIN result' = 1..(Len(result) + 1)
         /\ DOMAIN result = 1..Len(result)
         /\ \A n \in DOMAIN result : result'[n] = result[n]
         /\ result'[Len(result) + 1].key = k
         /\ result'[Len(result) + 1].l = i
         /\ result'[Len(result) + 1].r = j
<1>. DEFINE row == Row(k, i, j)
<1>1. row \in Rows /\ row.key = k /\ row.l = i /\ row.r = j
  BY DEF Row, Rows
<1>2. result \in Seq(Rows)
  BY ColumnsTyped
<1>. HIDE DEF row
<1>3. /\ Append(result, row) \in Seq(Rows)
      /\ Len(Append(result, row)) = Len(result) + 1
      /\ \A n \in 1..Len(result) : Append(result, row)[n] = result[n]
      /\ Append(result, row)[Len(result) + 1] = row
  BY <1>1, <1>2, AppendProperties
<1>4. result' = Append(result, row)
  BY DEF row
<1>5. /\ DOMAIN result = 1..Len(result)
      /\ DOMAIN result' = 1..Len(result')
  BY <1>2, <1>3, <1>4, LenProperties
<1>. QED
  BY <1>1, <1>3, <1>4, <1>5 DEF Rows

\* An iteration keeps the types, whatever it reads.
LEMMA IterateTypes ==
  ASSUME IInv, Iterate
  PROVE  TypeOK'
<1>1. PICK lk \in Key, rk \in Key, ck \in Int :
        LET comp == CompareFunc(lk, rk, ck)
        IN /\ LessThan(lk, comp) \/ GreaterThan(lk, comp) \/ Equal(lk, rk, comp)
           /\ il \in 1..Len(left)
           /\ ir <= Len(right) + Slack
  BY IterateReads
<1>. DEFINE comp == CompareFunc(lk, rk, ck)
<1>2. TypeOK /\ comp[2] \in Nat
  BY CompareShape, KeyAssumption DEF IInv
<1>. HIDE DEF comp
<1>3. il' \in {il, il + 1} /\ ir' \in {ir, ir + 1}
  BY <1>1 DEF LessThan, GreaterThan, Equal, comp
<1>4. /\ result' \in Seq([key : Key, l : Nat, r : Nat])
      /\ Len(result') = Len(result) + 1
  <2>1. \E j \in Nat : result' = Append(result, Row(lk, il, j))
    BY <1>1, <1>2 DEF LessThan, GreaterThan, Equal, Put, Default, comp
  <2>2. il \in Nat
    BY <1>2, ColumnsTyped
  <2>. QED
    BY <1>2, <2>1, <2>2, PutRow
<1>5. Len(result') <= MaxRows
  BY <1>2, <1>4, ColumnsTyped, MaxRowsAssumption DEF Iterate
<1>6. /\ il' \in Nat /\ il' \in 1..End(left)
      /\ ir' \in Nat /\ ir' \in 1..(End(right) + Slack)
  BY <1>1, <1>2, <1>3, ColumnsTyped, SlackAssumption DEF End
<1>7. wild' \in BOOLEAN
  BY DEF Iterate, ReadAll
<1>. QED
  BY <1>2, <1>4, <1>5, <1>6, <1>7 DEF Iterate, TypeOK, LoopTypeOK, End

\* With a right row the tests for its end keep the right cursor at a row.
LEMMA IterateInside ==
  ASSUME IInv, Iterate
  PROVE  Inside'
<1>. SUFFICES ASSUME right # <<>> PROVE ir' \in 1..Len(right) /\ ~wild'
  BY DEF Inside, Iterate
<1>1. ir \in 1..Len(right) /\ ~wild
  BY DEF IInv, Inside
<1>2. /\ InRange(left, il) /\ InRange(right, ir) /\ InRange(right, Candidate)
  BY ReadsRows DEF Iterate
<1>3. ~wild'
  BY <1>1, <1>2 DEF Iterate, ReadAll
<1>4. ir' \in {ir} \/ (ir # Len(right) /\ ir' = ir + 1)
  BY DEF Iterate, LessThan, GreaterThan, Equal
<1>5. Len(right) \in Nat
  BY ColumnsTyped DEF IInv
<1>. QED
  BY <1>1, <1>3, <1>4, <1>5

\* One row per left row, until the merge is stuck; then more rows for one left row.
LEMMA IterateRows ==
  ASSUME IInv, Iterate
  PROVE  RowPerRow'
<1>. SUFFICES ASSUME right # <<>> PROVE RowPerRow'
  BY DEF RowPerRow, Iterate
<1>1. PICK lk \in Key, rk \in Key, ck \in Int :
        LET comp == CompareFunc(lk, rk, ck)
        IN /\ LessThan(lk, comp) \/ GreaterThan(lk, comp) \/ Equal(lk, rk, comp)
           /\ il \in 1..Len(left)
           /\ lk = left[il]
           /\ rk = right[ir]
           /\ ck = IF compare = "default" THEN Default ELSE right[Candidate]
  BY IterateReads
<1>. DEFINE comp == CompareFunc(lk, rk, ck)
<1>2. /\ TypeOK /\ RowPerRow
      /\ il \in Nat /\ Len(left) \in Nat /\ Len(result) \in Nat
      /\ comp[1] = Here
  BY <1>1, ColumnsTyped DEF IInv, Here
<1>3. /\ \A n \in DOMAIN result :
           result[n].l = Lesser(n, il) /\ (n >= il => result[n].r = Default)
      /\ Len(result) >= il - 1
      /\ Len(result) >= il => Stuck
  BY <1>2 DEF RowPerRow
<1>4. right' = right /\ left' = left /\ compare' = compare /\ mode' = mode
  BY DEF Iterate
<1>. DEFINE put(j) == result' = Append(result, Row(lk, il, j))
            size == Len(result)
<1>5. ASSUME NEW j \in Nat, put(j)
      PROVE  /\ Len(result') = size + 1
             /\ DOMAIN result' = 1..(size + 1) /\ DOMAIN result = 1..size
             /\ \A n \in DOMAIN result : result'[n] = result[n]
             /\ result'[size + 1].l = il /\ result'[size + 1].r = j
  BY <1>2, <1>5, PutRow
<1>6. CASE comp[1] = "greater"
  <2>1. put(Default) /\ ir' = ir /\ il' = IF ir # Len(right) THEN il + 1 ELSE il
    BY <1>1, <1>6 DEF LessThan, GreaterThan, Equal, Put
  <2>2. Default \in Nat
    BY DEF Default
  <2>3. CASE ir # Len(right)
    <3>1. size = il - 1 /\ il' = il + 1
      BY <1>2, <1>3, <2>1, <2>3 DEF Stuck
    <3>. QED
      BY <1>2, <1>3, <1>4, <1>5, <2>1, <2>2, <3>1 DEF RowPerRow, Lesser
  <2>4. CASE ir = Len(right)
    <3>1. il' = il
      BY <2>1, <2>4
    <3>2. Stuck'
      BY <1>1, <1>2, <1>4, <1>6, <2>1, <2>4, <3>1, CompareAgain DEF Stuck
    <3>3. \A n \in DOMAIN result' :
            result'[n].l = Lesser(n, il) /\ (n >= il => result'[n].r = Default)
      BY <1>2, <1>3, <1>5, <2>1, <2>2 DEF Lesser
    <3>. QED
      BY <1>2, <1>3, <1>5, <2>1, <2>2, <3>1, <3>2, <3>3 DEF RowPerRow
  <2>. QED
    BY <2>3, <2>4
<1>7. CASE comp[1] # "greater"
  <2>1. PICK j \in Nat : put(j)
    <3>1. comp[2] \in Nat
      BY <1>2, CompareShape, KeyAssumption
    <3>. QED
      BY <1>1, <1>7, <3>1 DEF LessThan, GreaterThan, Equal, Put, Default
  <2>2. il' = il + 1
    BY <1>1, <1>7 DEF LessThan, GreaterThan, Equal
  <2>3. size = il - 1
    BY <1>2, <1>3, <1>7 DEF Stuck
  <2>. QED
    BY <1>2, <1>3, <1>4, <1>5, <2>1, <2>2, <2>3 DEF RowPerRow, Lesser
<1>. QED
  BY <1>6, <1>7

\* A crash and running out of memory leave the rows as they are; with a right row
\* neither of them reads outside.
LEMMA FaultIInv ==
  ASSUME IInv, OutOfMemory \/ Crash
  PROVE  IInv'
<1>1. /\ left' = left /\ right' = right /\ il' = il /\ ir' = ir /\ result' = result
      /\ mode' = mode /\ compare' = compare
      /\ pc' = "fault" /\ wild' \in BOOLEAN /\ Continue
  BY DEF OutOfMemory, Crash, Die, ReadAll, IInv, TypeOK, LoopTypeOK
<1>2. right # <<>> => ~wild'
  <2>. SUFFICES ASSUME right # <<>> PROVE ~wild'
    OBVIOUS
  <2>1. /\ InRange(left, il) /\ InRange(right, ir) /\ InRange(right, Candidate)
        /\ ~wild
    BY <1>1, ReadsRows DEF IInv, Inside
  <2>. QED
    BY <2>1 DEF OutOfMemory, Crash, Die, ReadAll
<1>3. TypeOK'
  BY <1>1 DEF IInv, TypeOK, LoopTypeOK, End
<1>4. Inside'
  BY <1>1, <1>2 DEF IInv, Inside
<1>5. RowPerRow'
  BY <1>1, CompareAgain DEF IInv, RowPerRow, Stuck
<1>. QED
  BY <1>1, <1>3, <1>4, <1>5 DEF IInv

\* Returning changes pc only, and then nothing changes.
LEMMA ReturnIInv ==
  ASSUME IInv, Finish \/ UNCHANGED asofVars
  PROVE  IInv'
<1>1. /\ left' = left /\ right' = right /\ il' = il /\ ir' = ir /\ result' = result
      /\ mode' = mode /\ compare' = compare /\ wild' = wild
      /\ pc' = pc \/ (pc' = "done" /\ ~Continue)
  BY DEF Finish, Return, asofVars, vars
<1>2. TypeOK'
  BY <1>1 DEF IInv, TypeOK, LoopTypeOK, End
<1>3. Inside'
  BY <1>1 DEF IInv, Inside
<1>4. RowPerRow'
  BY <1>1, CompareAgain DEF IInv, RowPerRow, Stuck
<1>. QED
  BY <1>1, <1>2, <1>3, <1>4 DEF IInv, Continue, End

\* Every step of the merge preserves the invariant.
LEMMA NextIInv == IInv /\ [Next]_asofVars => IInv'
<1>. SUFFICES ASSUME IInv, [Next]_asofVars PROVE IInv'
  OBVIOUS
<1>1. CASE Iterate
  <2>1. pc' # "done"
    BY <1>1 DEF Iterate
  <2>. QED
    BY <1>1, <2>1, IterateTypes, IterateInside, IterateRows DEF IInv
<1>2. CASE OutOfMemory \/ Crash
  BY <1>2, FaultIInv
<1>3. CASE Finish \/ UNCHANGED asofVars
  BY <1>3, ReturnIInv
<1>. QED
  BY <1>1, <1>2, <1>3 DEF Next

\* The invariant holds throughout the merge.
THEOREM Invariance == Spec => []IInv
BY InitIInv, NextIInv, PTL DEF Spec

-----------------------------------------------------------------------------

\* The left cursor of merge_apply_asof never leaves its column, and the result stays
\* a sequence of rows within the memory there is.
THEOREM TypeCorrect == Spec => []TypeOK
<1>1. IInv => TypeOK
  BY DEF IInv
<1>. QED
  BY <1>1, Invariance, PTL

\* merge_apply_asof reads outside a column only if there is no right row at all.
THEOREM ReadsStayInside == Spec => []ReadsInside
<1>1. IInv => ReadsInside
  BY DEF IInv, Inside, ReadsInside
<1>. QED
  BY <1>1, Invariance, PTL

\* One result row per left row, in order; rows beyond that are all for the left row
\* the cursor is stuck at.  A merge that returns has exactly one for each.
THEOREM OneRowEach == Spec => []OneRowPerLeftRow
<1>1. IInv => OneRowPerLeftRow
  <2>. SUFFICES ASSUME IInv, right # <<>>
                PROVE  /\ \A n \in DOMAIN result :
                            /\ result[n].l = Lesser(n, il)
                            /\ n >= il => result[n].r = Default
                       /\ pc = "done" => Len(result) = Len(left)
    BY DEF OneRowPerLeftRow
  <2>1. pc = "done" => Len(result) = Len(left)
    <3>1. pc = "done" => il = Len(left) + 1
      BY ColumnsTyped DEF IInv, Continue, End
    <3>2. Len(result) >= il - 1 /\ (Len(result) >= il => Stuck)
      BY DEF IInv, RowPerRow
    <3>. QED
      BY <3>1, <3>2, ColumnsTyped DEF IInv, Stuck
  <2>. QED
    BY <2>1 DEF IInv, RowPerRow
<1>. QED
  BY <1>1, Invariance, PTL
-----------------------------------------------------------------------------
(* What is matched. *)

\* The keys the comparer is given, and its answer.
CandidateKey == IF compare = "default" THEN Default ELSE right[Candidate]

Comparison == CompareFunc(left[il], right[ir], CandidateKey)

\* With a right row: what an iteration reads and does, and where in the result.
LEMMA RightIteration ==
  ASSUME IInv, Iterate, right # <<>>
  PROVE  /\ left' = left /\ right' = right /\ mode' = mode /\ compare' = compare
         /\ il \in DOMAIN left /\ ir \in DOMAIN right /\ Candidate \in DOMAIN right
         /\ Len(result) \in Nat /\ Len(result) >= il - 1
         /\ DOMAIN result = 1..Len(result)
         /\ DOMAIN result' = DOMAIN result \cup {Len(result) + 1}
         /\ \A n \in DOMAIN result : result'[n] = result[n]
         /\ result'[Len(result) + 1].key = left[il]
         /\ Comparison[1] \in {"less", "greater", "equal"}
         /\ Comparison[1] = "less" =>
              /\ result'[Len(result) + 1].r = Default
              /\ il' = il + 1 /\ ir' = ir /\ Len(result) = il - 1
         /\ Comparison[1] = "greater" =>
              /\ result'[Len(result) + 1].r = Default
              /\ ir' = ir
              /\ il' = IF ir # Len(right) THEN il + 1 ELSE il
              /\ ir # Len(right) => Len(result) = il - 1
         /\ Comparison[1] = "equal" =>
              /\ result'[Len(result) + 1].r = Comparison[2]
              /\ il' = il + 1 /\ Len(result) = il - 1
              /\ ir' = IF left[il] = right[ir] /\ ir # Len(right) THEN ir + 1 ELSE ir
<1>1. PICK lk \in Key, rk \in Key, ck \in Int :
        LET comp == CompareFunc(lk, rk, ck)
        IN /\ LessThan(lk, comp) \/ GreaterThan(lk, comp) \/ Equal(lk, rk, comp)
           /\ il \in 1..Len(left)
           /\ lk = left[il]
           /\ rk = right[ir]
           /\ ck = CandidateKey
  BY IterateReads DEF CandidateKey
<1>2. /\ TypeOK /\ RowPerRow
      /\ il \in Nat /\ Len(left) \in Nat /\ Len(result) \in Nat /\ Len(right) \in Nat
      /\ DOMAIN left = 1..Len(left) /\ DOMAIN right = 1..Len(right)
  BY ColumnsTyped DEF IInv
<1>3. /\ Comparison = CompareFunc(lk, rk, ck)
      /\ Comparison[1] \in {"less", "greater", "equal"} /\ Comparison[2] \in Nat
      /\ Comparison[1] = Here
  BY <1>1, <1>2, CompareShape, KeyAssumption DEF Comparison, CandidateKey, Here
<1>4. /\ ir \in DOMAIN right /\ Candidate \in DOMAIN right
  BY <1>2, ReadsRows DEF Iterate, InRange
<1>5. /\ LessThan(left[il], Comparison) \/ GreaterThan(left[il], Comparison)
         \/ Equal(left[il], right[ir], Comparison)
      /\ left[il] \in Key
  BY <1>1, <1>3
<1>6. Len(result) >= il - 1 /\ (Len(result) >= il => Stuck)
  BY <1>2 DEF RowPerRow
<1>7. Len(result) >= il => ir = Len(right) /\ Comparison[1] = "greater"
  BY <1>3, <1>6 DEF Stuck
<1>8. Comparison[1] # "greater" \/ ir # Len(right) => Len(result) = il - 1
  BY <1>2, <1>6, <1>7
<1>. DEFINE used == IF Comparison[1] = "equal" THEN Comparison[2] ELSE Default
<1>9. used \in Nat /\ result' = Append(result, Row(left[il], il, used))
  BY <1>3, <1>5 DEF LessThan, GreaterThan, Equal, Put, Default
<1>. HIDE DEF used
<1>10. /\ DOMAIN result' = 1..(Len(result) + 1) /\ DOMAIN result = 1..Len(result)
       /\ \A n \in DOMAIN result : result'[n] = result[n]
       /\ result'[Len(result) + 1].key = left[il]
       /\ result'[Len(result) + 1].r = used
  BY <1>2, <1>5, <1>9, PutRow
<1>11. 1..(Len(result) + 1) = 1..Len(result) \cup {Len(result) + 1}
  BY <1>2
<1>12. /\ Comparison[1] = "less" => il' = il + 1 /\ ir' = ir
       /\ Comparison[1] = "greater" =>
            ir' = ir /\ il' = IF ir # Len(right) THEN il + 1 ELSE il
       /\ Comparison[1] = "equal" =>
            /\ il' = il + 1
            /\ ir' = IF left[il] = right[ir] /\ ir # Len(right) THEN ir + 1 ELSE ir
  BY <1>5 DEF LessThan, GreaterThan, Equal
<1>13. /\ left' = left /\ right' = right /\ mode' = mode /\ compare' = compare
       /\ il \in DOMAIN left
  BY <1>1, <1>2 DEF Iterate
<1>14. /\ Comparison[1] = "equal" => used = Comparison[2]
       /\ Comparison[1] # "equal" => used = Default
  BY DEF used
<1>. QED
  BY <1>2, <1>3, <1>4, <1>6, <1>8, <1>10, <1>11, <1>12, <1>13, <1>14

\* The default comparer compares keys.
LEMMA DefaultOrder ==
  ASSUME IInv, Continue, right # <<>>, compare = "default"
  PROVE  /\ Comparison[1] = "less" => left[il] < right[ir]
         /\ Comparison[1] = "greater" => left[il] > right[ir]
         /\ Comparison[1] = "equal" => left[il] = right[ir] /\ Comparison[2] = ir
<1>1. left[il] \in Int /\ right[ir] \in Int
  <2>1. il \in 1..Len(left) /\ ir \in 1..Len(right)
    BY ReadsRows DEF InRange
  <2>2. left \in Seq(Key) /\ right \in Seq(Key)
    BY ColumnsTyped DEF IInv
  <2>3. left[il] \in Key /\ right[ir] \in Key
    BY <2>1, <2>2
  <2>. QED
    BY <2>3, KeyAssumption
<1>. QED
  BY <1>1 DEF Comparison, CompareFunc, DefaultCompare

\* What the default comparer has found for a left row.
MatchedByKey(i) ==
  IF \E j \in DOMAIN right : right[j] = left[i] /\ Findable(j)
  THEN result[i].r # Default /\ right[result[i].r] = left[i]
  ELSE result[i].r = Default

ByKey == compare = "default" /\ right # <<>> /\ Ordered

\* The right cursor leaves a row only with a match, so that a row it cannot match is
\* the last it gets to.
KeyInv ==
  ByKey =>
    /\ \A i \in DOMAIN left : i < il => MatchedByKey(i)
    /\ Findable(ir)
    /\ il \in DOMAIN left => \A h \in DOMAIN right : h < ir => right[h] < left[il]
    /\ ir < Len(right) => \A h \in DOMAIN left : h < il => left[h] # right[ir]

LEMMA IterateKeyInv ==
  ASSUME IInv, KeyInv, Iterate
  PROVE  KeyInv'
<1>. SUFFICES ASSUME ByKey PROVE KeyInv'
  BY DEF KeyInv, ByKey, Ordered, StrictlySorted, Iterate
<1>1. right # <<>> /\ compare = "default" /\ StrictlySorted(left) /\ StrictlySorted(right)
  BY DEF ByKey, Ordered
<1>. DEFINE new == Len(result) + 1
<1>2. /\ left' = left /\ right' = right /\ compare' = compare
      /\ il \in DOMAIN left /\ ir \in DOMAIN right
      /\ Len(result) \in Nat /\ Len(result) >= il - 1
      /\ DOMAIN result = 1..Len(result)
      /\ \A n \in DOMAIN result : result'[n] = result[n]
  BY <1>1, RightIteration
<1>3. /\ Comparison[1] \in {"less", "greater", "equal"}
      /\ Comparison[1] = "less" =>
           /\ result'[new].r = Default
           /\ il' = il + 1 /\ ir' = ir /\ Len(result) = il - 1
      /\ Comparison[1] = "greater" =>
           /\ result'[new].r = Default
           /\ ir' = ir
           /\ il' = IF ir # Len(right) THEN il + 1 ELSE il
           /\ ir # Len(right) => Len(result) = il - 1
      /\ Comparison[1] = "equal" =>
           /\ result'[new].r = Comparison[2]
           /\ il' = il + 1 /\ Len(result) = il - 1
           /\ ir' = IF left[il] = right[ir] /\ ir # Len(right) THEN ir + 1 ELSE ir
  BY <1>1, RightIteration
<1>4. /\ Comparison[1] = "less" => left[il] < right[ir]
      /\ Comparison[1] = "greater" => left[il] > right[ir]
      /\ Comparison[1] = "equal" => left[il] = right[ir] /\ Comparison[2] = ir
  BY <1>1, DefaultOrder DEF Iterate
<1>. HIDE DEF new
<1>5. /\ \A i \in DOMAIN left : i < il => MatchedByKey(i)
      /\ Findable(ir)
      /\ \A h \in DOMAIN right : h < ir => right[h] < left[il]
      /\ ir < Len(right) => \A h \in DOMAIN left : h < il => left[h] # right[ir]
  BY <1>2 DEF KeyInv
<1>6. /\ DOMAIN left = 1..Len(left) /\ DOMAIN right = 1..Len(right)
      /\ Len(left) \in Nat /\ Len(right) \in Nat /\ il \in Nat /\ ir \in Nat
  BY ColumnsTyped DEF IInv
<1>nat. Len(left) \in Nat /\ Len(right) \in Nat /\ il \in Nat /\ ir \in Nat
  BY <1>6
<1>7. /\ \A i \in DOMAIN left : left[i] \in Int
      /\ \A j \in DOMAIN right : right[j] \in Int
  <2>1. left \in Seq(Key) /\ right \in Seq(Key)
    BY ColumnsTyped DEF IInv
  <2>2. /\ \A i \in DOMAIN left : left[i] \in Key
        /\ \A j \in DOMAIN right : right[j] \in Key
    BY <2>1
  <2>. QED
    BY <2>2, KeyAssumption
<1>8. ASSUME NEW i \in DOMAIN left, i < il
      PROVE  result'[i] = result[i]
  BY <1>2, <1>6, <1>8
<1>9. ASSUME NEW i \in DOMAIN left, i < il
      PROVE  IF \E j \in DOMAIN right : right[j] = left[i] /\ Findable(j)
             THEN result'[i].r # Default /\ right[result'[i].r] = left[i]
             ELSE result'[i].r = Default
  BY <1>5, <1>8, <1>9 DEF MatchedByKey
<1>10. ASSUME NEW j \in DOMAIN right, right[j] = left[il], Findable(j)
       PROVE  Comparison[1] = "equal"
  <2>1. ~(j < ir)
    BY <1>2, <1>5, <1>7, <1>10
  <2>2. ir < j => right[ir] < right[j]
    BY <1>1, <1>2 DEF StrictlySorted
  <2>3. right[ir] <= left[il]
    BY <1>2, <1>6, <1>7, <1>10, <2>1, <2>2
  <2>4. Comparison[1] # "less"
    BY <1>2, <1>4, <1>7, <2>3
  <2>5. ASSUME Comparison[1] = "greater" PROVE FALSE
    <3>1. right[ir] < left[il] /\ j # ir
      BY <1>2, <1>4, <1>7, <1>10, <2>5
    <3>2. j \in Nat /\ j <= Len(right)
      BY <1>6
    <3>3. ir < j
      BY <1>6, <2>1, <3>1, <3>2
    <3>4. ir < Len(right) /\ ir \in 1..(j - 1)
      BY <1>2, <1>6, <3>2, <3>3
    <3>5. right[ir] \in KeysOf(left)
      BY <1>10, <3>4 DEF Findable
    <3>6. PICK h \in DOMAIN left : left[h] = right[ir]
      BY <3>5 DEF KeysOf
    <3>7. ~(h < il)
      BY <1>5, <3>4, <3>6
    <3>8. il < h => left[il] < left[h]
      BY <1>1, <1>2 DEF StrictlySorted
    <3>. QED
      BY <1>2, <1>6, <1>7, <3>1, <3>6, <3>7, <3>8
  <2>. QED
    BY <1>3, <2>4, <2>5
<1>11. ASSUME il' = il + 1
       PROVE  IF \E j \in DOMAIN right : right[j] = left[il] /\ Findable(j)
              THEN result'[il].r # Default /\ right[result'[il].r] = left[il]
              ELSE result'[il].r = Default
  <2>1. new = il
    <3>1. il' # il
      BY <1>11, <1>nat
    <3>2. Comparison[1] = "greater" => ir # Len(right)
      BY <1>3, <3>1
    <3>3. Len(result) = il - 1
      BY <1>3, <3>2
    <3>. QED
      BY <1>nat, <3>3 DEF new
  <2>2. CASE Comparison[1] = "equal"
    <3>1. result'[il].r = ir /\ right[ir] = left[il]
      BY <1>3, <1>4, <2>1, <2>2
    <3>2. ir # Default
      BY <1>2, <1>6 DEF Default
    <3>. QED
      BY <1>2, <1>5, <3>1, <3>2
  <2>3. CASE Comparison[1] # "equal"
    <3>1. result'[il].r = Default
      BY <1>3, <2>1, <2>3
    <3>. QED
      BY <1>10, <2>3, <3>1
  <2>. QED
    BY <2>2, <2>3
<1>12. il' = il \/ il' = il + 1
  BY <1>3
<1>13. ASSUME NEW i \in DOMAIN left, i < il'
       PROVE  IF \E j \in DOMAIN right : right[j] = left[i] /\ Findable(j)
              THEN result'[i].r # Default /\ right[result'[i].r] = left[i]
              ELSE result'[i].r = Default
  <2>1. CASE i < il
    BY <1>9, <2>1
  <2>2. CASE ~(i < il)
    <3>1. i = il /\ il' = il + 1
      BY <1>6, <1>12, <1>13, <2>2
    <3>. QED
      BY <1>11, <3>1
  <2>. QED
    BY <2>1, <2>2
<1>14. \/ ir' = ir
       \/ ir' = ir + 1 /\ left[il] = right[ir] /\ ir # Len(right) /\ il' = il + 1
  BY <1>3
<1>15. \A h \in 1..(ir' - 1) : right[h] \in KeysOf(left)
  <2>1. ASSUME NEW h \in 1..(ir' - 1) PROVE right[h] \in KeysOf(left)
    <3>1. CASE h \in 1..(ir - 1)
      BY <1>5, <3>1 DEF Findable
    <3>2. CASE h \notin 1..(ir - 1)
      <4>0. h \in Nat /\ h < ir' /\ ~(h < ir) /\ ir' # ir
        <5>1. CASE ir' = ir
          BY <3>2, <5>1
        <5>2. CASE ir' = ir + 1
          BY <1>nat, <3>2, <5>2
        <5>. QED
          BY <1>14, <5>1, <5>2
      <4>1. h = ir /\ left[il] = right[ir]
        BY <1>14, <1>nat, <4>0
      <4>. QED
        BY <1>2, <4>1 DEF KeysOf
    <3>. QED
      BY <3>1, <3>2
  <2>. QED
    BY <2>1
<1>16. ASSUME il' \in DOMAIN left, NEW h \in DOMAIN right, h < ir'
       PROVE  right[h] < left[il']
  <2>0. h \in Nat
    BY <1>6
  <2>1. right[h] <= left[il]
    <3>1. CASE h < ir
      BY <1>2, <1>5, <1>7, <3>1
    <3>2. CASE ~(h < ir)
      <4>1. ir' # ir
        BY <1>16, <3>2
      <4>2. ir' = ir + 1 /\ left[il] = right[ir]
        BY <1>14, <4>1
      <4>3. h = ir
        BY <1>16, <1>nat, <2>0, <3>2, <4>2
      <4>. QED
        BY <1>2, <1>7, <4>2, <4>3
    <3>. QED
      BY <3>1, <3>2
  <2>2. CASE il' = il
    <3>0. il' # il + 1
      BY <1>nat, <2>2
    <3>1. ir' = ir
      BY <1>14, <3>0
    <3>. QED
      BY <1>5, <1>16, <2>2, <3>1
  <2>3. CASE il' = il + 1
    <3>1. left[il] < left[il']
      BY <1>1, <1>2, <1>6, <1>16, <2>3 DEF StrictlySorted
    <3>. QED
      BY <1>2, <1>7, <1>16, <2>1, <3>1
  <2>. QED
    BY <1>12, <2>2, <2>3
<1>17. ASSUME ir' < Len(right), NEW h \in DOMAIN left, h < il'
       PROVE  left[h] # right[ir']
  <2>1. CASE ir' = ir
    <3>1. CASE h < il
      BY <1>5, <1>17, <2>1, <3>1
    <3>2. CASE ~(h < il)
      <4>1. h = il /\ il' = il + 1
        BY <1>6, <1>12, <1>17, <3>2
      <4>2. Comparison[1] # "equal"
        <5>0. ir < Len(right)
          BY <1>17, <2>1
        <5>1. ir # Len(right) /\ ir # ir + 1
          BY <1>nat, <5>0
        <5>. QED
          BY <1>3, <1>4, <2>1, <5>1
      <4>. QED
        BY <1>2, <1>3, <1>4, <1>7, <2>1, <4>1, <4>2
    <3>. QED
      BY <3>1, <3>2
  <2>2. CASE ir' # ir
    <3>1. ir' = ir + 1 /\ left[il] = right[ir] /\ il' = il + 1
      BY <1>14, <2>2
    <3>2. ir' \in DOMAIN right
      BY <1>2, <1>6, <1>17, <3>1
    <3>3. right[ir] < right[ir']
      BY <1>1, <1>2, <1>6, <3>1, <3>2 DEF StrictlySorted
    <3>4. h < il => left[h] < left[il]
      BY <1>1, <1>2 DEF StrictlySorted
    <3>5. h < il \/ h = il
      BY <1>6, <1>17, <3>1
    <3>. QED
      BY <1>2, <1>7, <3>1, <3>2, <3>3, <3>4, <3>5
  <2>. QED
    BY <2>1, <2>2
<1>18. /\ \A j : Findable(j)' <=> Findable(j)
       /\ \A i : MatchedByKey(i)' <=>
            IF \E j \in DOMAIN right : right[j] = left[i] /\ Findable(j)
            THEN result'[i].r # Default /\ right[result'[i].r] = left[i]
            ELSE result'[i].r = Default
  <2>1. \A j : Findable(j)' <=> Findable(j)
    BY <1>2 DEF Findable, KeysOf
  <2>. QED
    BY <1>2, <2>1 DEF MatchedByKey
<1>19. Findable(ir)'
  BY <1>2, <1>15 DEF Findable, KeysOf
<1>. QED
  BY <1>2, <1>13, <1>16, <1>17, <1>18, <1>19 DEF KeyInv

\* Whatever else happens leaves the rows and the cursors alone.
LEMMA OtherSteps ==
  ASSUME [Next]_asofVars, ~Iterate
  PROVE  /\ left' = left /\ right' = right /\ il' = il /\ ir' = ir /\ result' = result
         /\ mode' = mode /\ compare' = compare
<1>1. CASE OutOfMemory
  BY <1>1 DEF OutOfMemory
<1>2. CASE Crash
  BY <1>2 DEF Crash, Die
<1>3. CASE Finish
  BY <1>3 DEF Finish, Return
<1>4. CASE UNCHANGED asofVars
  BY <1>4 DEF asofVars, vars
<1>. QED
  BY <1>1, <1>2, <1>3, <1>4 DEF Next

LEMMA KeyInvariance == Spec => [](IInv /\ KeyInv)
<1>1. AsofInit => KeyInv
  <2>. SUFFICES ASSUME AsofInit PROVE KeyInv
    OBVIOUS
  <2>1. left \in Seq(Key) /\ right \in Seq(Key) /\ il = 1 /\ ir = 1
    BY InputsAssumption DEF AsofInit, Init
  <2>2. /\ \A i \in DOMAIN left : ~(i < il)
        /\ \A j \in DOMAIN right : ~(j < ir)
    BY <2>1, LenProperties
  <2>3. Findable(ir)
    BY <2>1 DEF Findable
  <2>. QED
    BY <2>2, <2>3 DEF KeyInv
<1>2. IInv /\ KeyInv /\ [Next]_asofVars => KeyInv'
  <2>. SUFFICES ASSUME IInv, KeyInv, [Next]_asofVars PROVE KeyInv'
    OBVIOUS
  <2>1. CASE Iterate
    BY <2>1, IterateKeyInv
  <2>2. CASE ~Iterate
    <3>1. /\ left' = left /\ right' = right /\ il' = il /\ ir' = ir /\ result' = result
          /\ compare' = compare
      BY <2>2, OtherSteps
    <3>2. \A j : Findable(j)' <=> Findable(j)
      BY <3>1 DEF Findable, KeysOf
    <3>3. \A i : MatchedByKey(i)' <=> MatchedByKey(i)
      BY <3>1, <3>2 DEF MatchedByKey
    <3>4. ByKey' <=> ByKey
      BY <3>1 DEF ByKey, Ordered, StrictlySorted
    <3>5. Findable(ir)' <=> Findable(ir)
      BY <3>1 DEF Findable, KeysOf
    <3>. QED
      BY <3>1, <3>3, <3>4, <3>5 DEF KeyInv
  <2>. QED
    BY <2>1, <2>2
<1>. QED
  BY <1>1, <1>2, InitIInv, NextIInv, PTL DEF Spec

\* The default comparer finds the equal keys up to and including the first right row
\* whose key no left row has, and nothing after it.
THEOREM FoundByKey == Spec => []DefaultMatches
<1>1. IInv /\ KeyInv => DefaultMatches
  <2>. SUFFICES ASSUME IInv, KeyInv, pc = "done", ByKey, NEW i \in DOMAIN left
                PROVE  MatchedByKey(i)
    BY DEF DefaultMatches, MatchedByKey, ByKey
  <2>1. i < il
    BY ColumnsTyped DEF IInv, Continue, End
  <2>. QED
    BY <2>1 DEF KeyInv
<1>. QED
  BY <1>1, KeyInvariance, PTL
-----------------------------------------------------------------------------
(* How far away the right row of a result row is. *)

\* A difference that is cast to a number of units inside the window is less than a unit
\* outside it.
LEMMA CastNear ==
  ASSUME NEW d \in Int
  PROVE  /\ InUnits(d) \in Int
         /\ d >= 0 => InUnits(d) >= 0
         /\ InUnits(d) >= 0 /\ ~TooFar(InUnits(d)) => Near(d)
<1>. Unit \in Nat /\ Unit > 0 /\ Duration \in Nat
  BY UnitAssumption, DurationAssumption
<1>1. CASE d >= 0
  <2>. DEFINE q == d \div Unit
  <2>1. InUnits(d) = q
    BY <1>1 DEF InUnits, Quotient
  <2>2. q \in Int /\ q >= 0 /\ d < q * Unit + Unit /\ q * Unit \in Int
    BY <1>1
  <2>. HIDE DEF q
  <2>3. ~TooFar(q) => d < Duration + Unit
    BY <2>2 DEF TooFar
  <2>. QED
    BY <1>1, <2>1, <2>2, <2>3 DEF Near
<1>2. CASE d < 0
  <2>. DEFINE q == (-d) \div Unit
  <2>1. InUnits(d) = -q
    BY <1>2 DEF InUnits, Quotient
  <2>2. q \in Int /\ q >= 0 /\ -d < q * Unit + Unit
    BY <1>2
  <2>. HIDE DEF q
  <2>3. -q >= 0 => q = 0
    BY <2>2
  <2>4. q = 0 => -Unit < d
    BY <2>2
  <2>. QED
    BY <1>2, <2>1, <2>2, <2>3, <2>4 DEF Near
<1>. QED
  BY <1>1, <1>2

\* The right row that is used is near the left row.
UsedNear(key, j) ==
  /\ compare = "prior" => Near(key - right[j])
  /\ compare = "fwd" /\ Covered => Near(right[j] - key)

\* On covered inputs the right cursor is never behind the left one.
NearInv ==
  right # <<>> =>
    /\ \A n \in DOMAIN result :
         result[n].r # Default =>
           /\ result[n].key \in Int /\ right[result[n].r] \in Int
           /\ UsedNear(result[n].key, result[n].r)
    /\ Covered /\ il \in DOMAIN left => left[il] <= right[ir]

\* An iteration uses the row at the cursor for an exact match, and the row whose distance
\* it has cast and compared otherwise.
LEMMA EqualIsNear ==
  ASSUME IInv, NearInv, Iterate, right # <<>>, Comparison[1] = "equal"
  PROVE  /\ left[il] \in Int /\ right[Comparison[2]] \in Int
         /\ UsedNear(left[il], Comparison[2])
<1>. DEFINE lk == left[il]
            rk == right[ir]
            ck == right[Candidate]
<1>1. il \in DOMAIN left /\ ir \in DOMAIN right /\ Candidate \in DOMAIN right
  BY RightIteration
<1>2. lk \in Int /\ rk \in Int /\ ck \in Int
  <2>1. left \in Seq(Key) /\ right \in Seq(Key)
    BY ColumnsTyped DEF IInv
  <2>2. lk \in Key /\ rk \in Key /\ ck \in Key
    BY <1>1, <2>1
  <2>. QED
    BY <2>2, KeyAssumption
<1>3. compare # "default" => CandidateKey = ck
  BY DEF CandidateKey
<1>4. Covered => lk <= rk
  BY <1>1 DEF NearInv
<1>5. Near(0)
  BY UnitAssumption, DurationAssumption DEF Near
<1>. HIDE DEF lk, rk, ck
<1>6. CASE compare = "prior"
  <2>. DEFINE diff == InUnits(lk - ck)
  <2>1. Comparison = PriorCompare(lk, rk, ck)
    BY <1>3, <1>6 DEF Comparison, CompareFunc, lk, rk
  <2>2. diff \in Int /\ (diff >= 0 /\ ~TooFar(diff) => Near(lk - ck))
    BY <1>2, CastNear
  <2>. HIDE DEF diff
  <2>3. CASE lk = rk
    <3>1. Comparison[2] = ir
      BY <2>1, <2>3 DEF PriorCompare
    <3>2. lk - rk = 0
      BY <1>2, <2>3
    <3>. QED
      BY <1>2, <1>5, <1>6, <3>1, <3>2 DEF UsedNear, lk, rk
  <2>4. CASE lk # rk
    <3>1. /\ ~(diff < 0) /\ ~TooFar(diff)
          /\ Comparison[2] = Candidate
      BY <2>1, <2>4 DEF PriorCompare, diff
    <3>2. Near(lk - ck)
      BY <2>2, <3>1
    <3>. QED
      BY <1>2, <1>6, <3>1, <3>2 DEF UsedNear, lk, ck
  <2>. QED
    BY <2>3, <2>4
<1>7. CASE compare = "fwd"
  <2>. DEFINE ahead == InUnits(rk - lk)
              there == InUnits(ck - lk)
              diff  == Lesser(there, Greater(ahead, 0))
  <2>1. Comparison = FwdCompare(lk, rk, ck)
    BY <1>3, <1>7 DEF Comparison, CompareFunc, lk, rk
  <2>2. /\ ahead \in Int /\ there \in Int
        /\ lk <= rk => ahead >= 0
        /\ ahead >= 0 /\ ~TooFar(ahead) => Near(rk - lk)
        /\ there >= 0 /\ ~TooFar(there) => Near(ck - lk)
    BY <1>2, CastNear
  <2>3. CASE lk = rk
    <3>1. Comparison[2] = ir
      BY <2>1, <2>3 DEF FwdCompare
    <3>2. rk - lk = 0
      BY <1>2, <2>3
    <3>. QED
      BY <1>2, <1>5, <1>7, <3>1, <3>2 DEF UsedNear, lk, rk
  <2>4. CASE lk # rk
    <3>1. /\ ~(diff < 0) /\ ~TooFar(diff)
          /\ Comparison[2] = IF diff = ahead THEN ir ELSE Candidate
      BY <2>1, <2>4 DEF FwdCompare
    <3>. HIDE DEF ahead, there
    <3>2. lk <= rk => diff = ahead \/ diff = there
      BY <2>2 DEF Lesser, Greater
    <3>3. diff \in Int
      BY <2>2 DEF Lesser, Greater
    <3>. HIDE DEF diff
    <3>4. right[Comparison[2]] \in Int
      BY <1>2, <3>1 DEF rk, ck
    <3>5. ASSUME Covered PROVE Near(right[Comparison[2]] - lk)
      <4>1. lk <= rk
        BY <1>4, <1>7, <3>5
      <4>2. CASE diff = ahead
        <5>1. Near(rk - lk)
          BY <2>2, <3>1, <3>3, <4>2
        <5>. QED
          BY <3>1, <4>2, <5>1 DEF rk
      <4>3. CASE diff # ahead
        <5>1. Near(ck - lk)
          BY <2>2, <3>1, <3>2, <3>3, <4>1, <4>3
        <5>. QED
          BY <3>1, <4>3, <5>1 DEF ck
      <4>. QED
        BY <4>2, <4>3
    <3>. QED
      BY <1>2, <1>7, <3>4, <3>5 DEF UsedNear, lk
  <2>. QED
    BY <2>3, <2>4
<1>8. CASE compare = "default"
  <2>1. Comparison[2] = ir
    BY <1>2, <1>8 DEF Comparison, CompareFunc, DefaultCompare, lk, rk
  <2>. QED
    BY <1>2, <1>8, <2>1 DEF UsedNear, lk, rk
<1>. QED
  BY <1>6, <1>7, <1>8 DEF IInv, TypeOK, Comparers

\* Every comparer calls equal keys equal.
LEMMA EqualKeys ==
  ASSUME IInv, left[il] = right[ir], left[il] \in Int
  PROVE  Comparison[1] = "equal"
<1>1. CASE compare = "default"
  BY <1>1 DEF Comparison, CompareFunc, DefaultCompare
<1>2. CASE compare = "prior"
  BY <1>2 DEF Comparison, CompareFunc, PriorCompare
<1>3. CASE compare = "fwd"
  BY <1>3 DEF Comparison, CompareFunc, FwdCompare
<1>. QED
  BY <1>1, <1>2, <1>3 DEF IInv, TypeOK, Comparers

\* On covered inputs each right row has its left row, so the next left key is not beyond
\* the right row the cursor stays at or moves to.
LEMMA NeverBehind ==
  ASSUME IInv, NearInv, Iterate, right # <<>>, Covered, il' \in DOMAIN left
  PROVE  left[il'] <= right[ir']
<1>1. /\ il \in DOMAIN left /\ ir \in DOMAIN right
      /\ il' = il \/ il' = il + 1
      /\ \/ ir' = ir
         \/ ir' = ir + 1 /\ left[il] = right[ir] /\ ir # Len(right)
  BY RightIteration
<1>2. /\ left \in Seq(Key) /\ right \in Seq(Key)
      /\ DOMAIN left = 1..Len(left) /\ DOMAIN right = 1..Len(right)
      /\ Len(left) \in Nat /\ Len(right) \in Nat /\ il \in Nat /\ ir \in Nat
  BY ColumnsTyped DEF IInv
<1>3. /\ \A i \in DOMAIN left : left[i] \in Int
      /\ \A j \in DOMAIN right : right[j] \in Int
  <2>1. /\ \A i \in DOMAIN left : left[i] \in Key
        /\ \A j \in DOMAIN right : right[j] \in Key
    BY <1>2
  <2>. QED
    BY <2>1, KeyAssumption
<1>4. left[il] <= right[ir]
  BY <1>1 DEF NearInv
<1>5. ir' \in DOMAIN right /\ ir' \in Nat
  BY <1>1, <1>2
<1>6. StrictlySorted(left) /\ StrictlySorted(right) /\ KeysOf(right) \subseteq KeysOf(left)
  BY DEF Covered, Ordered
<1>7. PICK h \in DOMAIN left : left[h] = right[ir']
  <2>1. right[ir'] \in KeysOf(left)
    BY <1>5, <1>6 DEF KeysOf
  <2>. QED
    BY <2>1 DEF KeysOf
<1>8. left[il] <= right[ir']
  <2>1. CASE ir' = ir
    BY <1>4, <2>1
  <2>2. CASE ir' # ir
    <3>1. ir' = ir + 1
      BY <1>1, <2>2
    <3>2. ir < ir'
      BY <1>2, <3>1
    <3>3. right[ir] < right[ir']
      BY <1>1, <1>5, <1>6, <3>2 DEF StrictlySorted
    <3>. QED
      BY <1>1, <1>3, <1>4, <1>5, <3>3
  <2>. QED
    BY <2>1, <2>2
<1>9. CASE il' = il
  BY <1>8, <1>9
<1>10. CASE il' = il + 1
  <2>1. CASE left[il] < right[ir']
    <3>1. ~(h < il) /\ h # il
      BY <1>1, <1>3, <1>6, <1>7, <2>1 DEF StrictlySorted
    <3>2. h \in Nat
      BY <1>2
    <3>3. h = il' \/ il' < h
      BY <1>2, <1>10, <3>1, <3>2
    <3>4. il' < h => left[il'] < left[h]
      BY <1>6 DEF StrictlySorted
    <3>. QED
      BY <1>3, <1>7, <3>3, <3>4
  <2>2. CASE ~(left[il] < right[ir'])
    <3>1. left[il] = right[ir']
      BY <1>1, <1>3, <1>5, <1>8, <2>2
    <3>2. ir' = ir
      <4>1. ASSUME ir' # ir PROVE FALSE
        <5>1. ir' = ir + 1 /\ left[il] = right[ir]
          BY <1>1, <4>1
        <5>2. ir < ir'
          BY <1>2, <5>1
        <5>3. right[ir] < right[ir']
          BY <1>1, <1>5, <1>6, <5>2 DEF StrictlySorted
        <5>. QED
          BY <1>1, <1>3, <3>1, <5>1, <5>3
      <4>. QED
        BY <4>1
    <3>3. ir = Len(right)
      <4>1. Comparison[1] = "equal"
        <5>1. left[il] = right[ir]
          BY <3>1, <3>2
        <5>. QED
          BY <1>1, <1>3, <5>1, EqualKeys
      <4>2. ir' # ir + 1
        BY <1>2, <3>2
      <4>. QED
        BY <3>1, <3>2, <4>1, <4>2, RightIteration
    <3>. QED
      BY <3>2, <3>3 DEF Covered
  <2>. QED
    BY <2>1, <2>2
<1>. QED
  BY <1>1, <1>9, <1>10

LEMMA NearInvariance == Spec => [](IInv /\ NearInv)
<1>1. AsofInit => NearInv
  <2>. SUFFICES ASSUME AsofInit, right # <<>> PROVE NearInv
    BY DEF NearInv
  <2>1. /\ left \in Seq(Key) /\ right \in Seq(Key) /\ il = 1 /\ ir = 1 /\ result = <<>>
    BY InputsAssumption DEF AsofInit, Init
  <2>2. \A n \in DOMAIN result : FALSE
    BY <2>1
  <2>3. ASSUME Covered, il \in DOMAIN left PROVE left[il] <= right[ir]
    <3>1. DOMAIN left = 1..Len(left) /\ DOMAIN right = 1..Len(right) /\ Len(right) \in Nat
      BY <2>1
    <3>2. 1 \in DOMAIN right /\ 1 \in DOMAIN left
      BY <2>1, <2>3, EmptySeq
    <3>3. right[1] \in KeysOf(left)
      BY <2>3, <3>2 DEF Covered, KeysOf
    <3>4. PICK h \in DOMAIN left : left[h] = right[1]
      BY <3>3 DEF KeysOf
    <3>5. h = 1 \/ 1 < h
      BY <2>1, <3>1, LenProperties
    <3>6. 1 < h => left[1] < left[h]
      BY <2>3, <3>2 DEF Covered, Ordered, StrictlySorted
    <3>7. left[1] \in Int /\ left[h] \in Int
      <4>1. left[1] \in Key /\ left[h] \in Key
        BY <2>1, <3>2
      <4>. QED
        BY <4>1, KeyAssumption
    <3>. QED
      BY <2>1, <3>4, <3>5, <3>6, <3>7
  <2>. QED
    BY <2>2, <2>3 DEF NearInv
<1>2. IInv /\ NearInv /\ [Next]_asofVars => NearInv'
  <2>. SUFFICES ASSUME IInv, NearInv, [Next]_asofVars PROVE NearInv'
    OBVIOUS
  <2>1. CASE Iterate
    <3>. SUFFICES ASSUME right # <<>> PROVE NearInv'
      BY <2>1 DEF NearInv, Iterate
    <3>. DEFINE new == Len(result) + 1
    <3>1. /\ left' = left /\ right' = right /\ compare' = compare
          /\ DOMAIN result' = DOMAIN result \cup {new}
          /\ \A n \in DOMAIN result : result'[n] = result[n]
          /\ result'[new].key = left[il]
          /\ Comparison[1] \in {"less", "greater", "equal"}
          /\ Comparison[1] # "equal" => result'[new].r = Default
          /\ Comparison[1] = "equal" => result'[new].r = Comparison[2]
      BY <2>1, RightIteration
    <3>. HIDE DEF new
    <3>2. Covered' <=> Covered
      BY <3>1 DEF Covered, Ordered, StrictlySorted, KeysOf
    <3>3. \A k, j : UsedNear(k, j)' <=> UsedNear(k, j)
      BY <3>1, <3>2 DEF UsedNear
    <3>4. ASSUME NEW n \in DOMAIN result', result'[n].r # Default
          PROVE  /\ result'[n].key \in Int /\ right[result'[n].r] \in Int
                 /\ UsedNear(result'[n].key, result'[n].r)
      <4>1. CASE n \in DOMAIN result
        BY <3>1, <3>4, <4>1 DEF NearInv
      <4>2. CASE n = new
        <5>1. Comparison[1] = "equal" /\ result'[n].r = Comparison[2]
          BY <3>1, <3>4, <4>2
        <5>2. /\ left[il] \in Int /\ right[Comparison[2]] \in Int
              /\ UsedNear(left[il], Comparison[2])
          BY <2>1, <5>1, EqualIsNear
        <5>. QED
          BY <3>1, <4>2, <5>1, <5>2
      <4>. QED
        BY <3>1, <4>1, <4>2
    <3>5. Covered /\ il' \in DOMAIN left => left[il'] <= right[ir']
      BY <2>1, NeverBehind
    <3>. QED
      BY <3>1, <3>2, <3>3, <3>4, <3>5 DEF NearInv
  <2>2. CASE ~Iterate
    <3>1. /\ left' = left /\ right' = right /\ il' = il /\ ir' = ir /\ result' = result
          /\ compare' = compare
      BY <2>2, OtherSteps
    <3>2. Covered' <=> Covered
      BY <3>1 DEF Covered, Ordered, StrictlySorted, KeysOf
    <3>3. \A k, j : UsedNear(k, j)' <=> UsedNear(k, j)
      BY <3>1, <3>2 DEF UsedNear
    <3>. QED
      BY <3>1, <3>2, <3>3 DEF NearInv
  <2>. QED
    BY <2>1, <2>2
<1>. QED
  BY <1>1, <1>2, InitIInv, NextIInv, PTL DEF Spec

\* Whatever the comparer finds is less than a unit outside the window: for
\* merge_asof_prior on any series, for merge_asof_fwd on covered ones.
THEOREM FoundNearWindow == Spec => []StaysNearWindow
<1>1. IInv /\ NearInv => StaysNearWindow
  <2>. SUFFICES ASSUME NearInv, right # <<>>, NEW n \in DOMAIN result,
                       result[n].r # Default
                PROVE  LET diff == result[n].key - right[result[n].r]
                       IN /\ compare = "prior" => Near(diff)
                          /\ compare = "fwd" /\ Covered => Near(-diff)
    BY DEF StaysNearWindow
  <2>1. result[n].key \in Int /\ right[result[n].r] \in Int
        /\ UsedNear(result[n].key, result[n].r)
    BY DEF NearInv
  <2>2. -(result[n].key - right[result[n].r]) = right[result[n].r] - result[n].key
    BY <2>1
  <2>. QED
    BY <2>1, <2>2 DEF UsedNear
<1>. QED
  BY <1>1, NearInvariance, PTL
-----------------------------------------------------------------------------
(* The textbook merge. *)

\* Differences of whole units are cast exactly.
LEMMA ExactCast ==
  ASSUME NEW a \in Int, NEW b \in Int, a % Unit = 0, b % Unit = 0
  PROVE  InUnits(a - b) \in Int /\ InUnits(a - b) * Unit = a - b
<1>. Unit \in Nat \ {0}
  BY UnitAssumption
<1>1. PICK m \in Int : a - b = m * Unit
  <2>1. a = (a \div Unit) * Unit /\ b = (b \div Unit) * Unit
    OBVIOUS
  <2>2. a \div Unit \in Int /\ b \div Unit \in Int
    OBVIOUS
  <2>3. ASSUME NEW p \in Int, NEW q \in Int, a = p * Unit, b = q * Unit
        PROVE  a - b = (p - q) * Unit
    BY <2>3
  <2>4. /\ a - b = (a \div Unit - b \div Unit) * Unit
        /\ a \div Unit - b \div Unit \in Int
    <3>. DEFINE p == a \div Unit
                q == b \div Unit
    <3>1. p \in Int /\ q \in Int /\ a = p * Unit /\ b = q * Unit
      BY <2>1, <2>2
    <3>. HIDE DEF p, q
    <3>2. a - b = (p - q) * Unit /\ p - q \in Int
      BY <2>3, <3>1
    <3>. QED
      BY <3>2 DEF p, q
  <2>. QED
    BY <2>4
<1>2. ASSUME NEW n \in Int, n >= 0 PROVE (n * Unit) \div Unit = n /\ n * Unit >= 0
  BY <1>2
<1>3. CASE m >= 0
  BY <1>1, <1>2, <1>3 DEF InUnits, Quotient
<1>4. CASE m < 0
  <2>1. -(a - b) = (-m) * Unit /\ -m >= 0 /\ -m \in Int /\ a - b < 0
    BY <1>1, <1>4
  <2>2. (-(a - b)) \div Unit = -m
    BY <1>2, <2>1
  <2>3. InUnits(a - b) = -(-m)
    BY <2>1, <2>2 DEF InUnits, Quotient
  <2>. QED
    BY <1>1, <2>3
<1>. QED
  BY <1>3, <1>4

\* Units are ordered as the ticks they stand for.
LEMMA UnitsOrdered ==
  ASSUME NEW x \in Int, NEW y \in Int
  PROVE  x <= y <=> x * Unit <= y * Unit
<1>. Unit \in Nat \ {0}
  BY UnitAssumption
<1>1. ASSUME x <= y PROVE x * Unit <= y * Unit
  <2>1. (y - x) * Unit >= 0
    BY <1>1
  <2>. QED
    BY <2>1
<1>2. ASSUME x > y PROVE x * Unit > y * Unit
  <2>1. (x - y) * Unit > 0
    BY <1>2
  <2>. QED
    BY <2>1
<1>. QED
  BY <1>1, <1>2

\* So the tests of the comparers are those of the distances.
LEMMA ExactTests ==
  ASSUME NEW a \in Int, NEW b \in Int, a % Unit = 0, b % Unit = 0
  PROVE  /\ InUnits(a - b) \in Int
         /\ InUnits(a - b) < 0 <=> a < b
         /\ TooFar(InUnits(a - b)) <=> a - b > Duration
<1>1. InUnits(a - b) \in Int /\ InUnits(a - b) * Unit = a - b
  BY ExactCast
<1>2. 0 <= InUnits(a - b) <=> 0 * Unit <= InUnits(a - b) * Unit
  BY <1>1, UnitsOrdered
<1>3. 0 * Unit = 0
  BY UnitAssumption
<1>. QED
  BY <1>1, <1>2, <1>3 DEF TooFar

WholeUnits == \A k \in KeysOf(left) : k % Unit = 0

\* Right row r, or the default, is what a textbook merge has for left row i.
Textbook(i, r) ==
  IF InWindow(i) = {} THEN r = Default
  ELSE r \in InWindow(i) /\ \A h \in InWindow(i) : Nearer(i, r, h)

\* On covered inputs the row at the right cursor is the first that is not smaller than
\* the left key.
TextInv ==
  Paired /\ Covered /\ WholeUnits =>
    /\ \A i \in DOMAIN left : i < il => Textbook(i, result[i].r)
    /\ il \in DOMAIN left => \A h \in DOMAIN right : h < ir => right[h] < left[il]

\* The answer at the cursors is the one of the textbook, and never leaves the merge stuck.
LEMMA TextbookAnswer ==
  ASSUME IInv, NearInv, TextInv, Continue, Paired, Covered, WholeUnits
  PROVE  /\ Comparison[1] = "greater" => ir # Len(right)
         /\ Textbook(il, IF Comparison[1] = "equal" THEN Comparison[2] ELSE Default)
<1>. DEFINE lk == left[il]
            rk == right[ir]
            ck == right[Candidate]
<1>1. /\ right # <<>> /\ StrictlySorted(right)
      /\ KeysOf(right) \subseteq KeysOf(left)
  BY DEF Covered, Ordered
<1>2. /\ il \in DOMAIN left /\ ir \in DOMAIN right /\ Candidate \in DOMAIN right
      /\ DOMAIN right = 1..Len(right) /\ ir \in Nat /\ Len(right) \in Nat
  BY <1>1, ReadsRows, ColumnsTyped DEF IInv, InRange
<1>3. /\ lk \in Int /\ rk \in Int /\ ck \in Int
      /\ \A j \in DOMAIN right : right[j] \in Int
  <2>1. left \in Seq(Key) /\ right \in Seq(Key)
    BY ColumnsTyped DEF IInv
  <2>2. lk \in Key /\ \A j \in DOMAIN right : right[j] \in Key
    BY <1>2, <2>1
  <2>. QED
    BY <1>2, <2>2, KeyAssumption
<1>4. lk % Unit = 0 /\ rk % Unit = 0 /\ ck % Unit = 0
  <2>1. lk \in KeysOf(left) /\ rk \in KeysOf(right) /\ ck \in KeysOf(right)
    BY <1>2 DEF KeysOf
  <2>. QED
    BY <1>1, <2>1 DEF WholeUnits
<1>5. lk <= rk /\ \A h \in DOMAIN right : h < ir => right[h] < lk
  BY <1>1, <1>2 DEF NearInv, TextInv
<1>6. \A j, h \in DOMAIN right : j <= h => right[j] <= right[h]
  <2>1. ASSUME NEW j \in DOMAIN right, NEW h \in DOMAIN right, j <= h
        PROVE  right[j] <= right[h]
    <3>1. j = h \/ j < h
      BY <1>2, <2>1
    <3>. QED
      BY <1>1, <1>3, <3>1 DEF StrictlySorted
  <2>. QED
    BY <2>1
<1>7. \A h \in DOMAIN right : ~(h < ir) => rk <= right[h]
  <2>1. \A h \in DOMAIN right : h < ir \/ ir <= h
    BY <1>2
  <2>. QED
    BY <1>2, <1>6, <2>1
<1>8. Duration \in Nat /\ \A h \in DOMAIN right : h # Default
  BY <1>2, DurationAssumption DEF Default
<1>9. compare # "default" => Comparison = CompareFunc(lk, rk, ck)
  BY DEF Comparison, CandidateKey
<1>. HIDE DEF lk, rk, ck
<1>10. CASE compare = "default"
  <2>1. \A h \in DOMAIN right : h \in InWindow(il) <=> right[h] = lk
    BY <1>10 DEF InWindow, lk
  <2>2. CASE lk = rk
    <3>1. Comparison = <<"equal", ir>>
      BY <1>3, <1>10, <2>2 DEF Comparison, CompareFunc, DefaultCompare, lk, rk
    <3>2. ir \in InWindow(il) /\ \A h \in InWindow(il) : right[h] = rk
      BY <1>2, <2>1, <2>2 DEF InWindow, rk
    <3>. QED
      BY <1>3, <1>10, <3>1, <3>2 DEF Textbook, Nearer, rk
  <2>3. CASE lk < rk
    <3>1. Comparison = <<"less", ir>>
      BY <1>3, <1>10, <2>3 DEF Comparison, CompareFunc, DefaultCompare, lk, rk
    <3>2. \A h \in DOMAIN right : right[h] # lk
      BY <1>3, <1>5, <1>7, <2>3
    <3>3. InWindow(il) = {}
      BY <2>1, <3>2 DEF InWindow
    <3>. QED
      BY <3>1, <3>3 DEF Textbook
  <2>. QED
    BY <1>3, <1>5, <2>2, <2>3
<1>11. CASE compare = "prior"
  <2>. DEFINE diff == InUnits(lk - ck)
  <2>1. Comparison = PriorCompare(lk, rk, ck) /\ mode = "roll_prior"
    BY <1>9, <1>11 DEF CompareFunc, Paired
  <2>2. /\ diff \in Int /\ (diff < 0 <=> lk < ck)
        /\ TooFar(diff) <=> lk - ck > Duration
    BY <1>3, <1>4, ExactTests
  <2>3. \A h \in DOMAIN right :
          h \in InWindow(il) <=> right[h] <= lk /\ lk - right[h] <= Duration
    BY <1>3, <1>8, <1>11 DEF InWindow, lk
  <2>4. InWindow(il) \subseteq DOMAIN right
    BY DEF InWindow
  <2>5. CASE lk = rk
    <3>1. Comparison = <<"equal", ir>>
      BY <2>1, <2>5 DEF PriorCompare
    <3>2. ir \in InWindow(il)
      BY <1>2, <1>3, <1>8, <2>3, <2>5 DEF rk
    <3>3. \A h \in InWindow(il) : Nearer(il, ir, h)
      BY <1>11, <2>3, <2>4, <2>5 DEF Nearer, rk
    <3>. QED
      BY <3>1, <3>2, <3>3 DEF Textbook
  <2>6. CASE lk < rk /\ ir = 1
    <3>1. ck = rk
      <4>1. Candidate = ir
        BY <2>1, <2>6 DEF Candidate
      <4>. QED
        BY <4>1 DEF ck, rk
    <3>2. diff < 0
      <4>1. lk < ck
        BY <2>6, <3>1
      <4>. QED
        BY <2>2, <4>1
    <3>3. Comparison = <<"less", ir>>
      <4>1. lk # rk
        BY <1>3, <2>6
      <4>2. ~TooFar(diff)
        BY <1>3, <1>8, <2>2, <3>1, <2>6
      <4>. QED
        BY <2>1, <3>2, <4>1, <4>2 DEF PriorCompare
    <3>4. \A h \in DOMAIN right : ~(right[h] <= lk)
      BY <1>2, <1>3, <1>7, <2>6
    <3>5. InWindow(il) = {}
      BY <2>3, <2>4, <3>4
    <3>. QED
      BY <3>3, <3>5 DEF Textbook
  <2>7. CASE lk < rk /\ ir # 1
    <3>1. Candidate = ir - 1 /\ Candidate < ir
      BY <1>2, <2>1, <2>7 DEF Candidate
    <3>2. ck < lk
      BY <1>2, <1>5, <3>1 DEF ck
    <3>3. \A h \in DOMAIN right : right[h] <= lk => right[h] <= ck
      <4>1. ASSUME NEW h \in DOMAIN right, right[h] <= lk PROVE right[h] <= ck
        <5>1. h < ir
          BY <1>3, <1>7, <2>7, <4>1
        <5>2. h <= Candidate
          BY <1>2, <3>1, <5>1
        <5>. QED
          BY <1>2, <1>6, <5>2 DEF ck
      <4>. QED
        BY <4>1
    <3>4. lk # rk /\ ~(diff < 0)
      BY <1>3, <2>2, <2>7, <3>2
    <3>5. CASE lk - ck > Duration
      <4>1. TooFar(diff)
        BY <2>2, <3>5
      <4>2. Comparison = <<"greater", ir>>
        BY <2>1, <3>4, <4>1 DEF PriorCompare
      <4>3. \A h \in DOMAIN right : right[h] <= lk => lk - right[h] > Duration
        BY <1>3, <1>8, <3>3, <3>5
      <4>4. InWindow(il) = {}
        BY <1>3, <1>8, <2>3, <2>4, <4>3
      <4>5. ASSUME ir = Len(right) PROVE FALSE
        <5>1. Len(right) > 1 /\ ck = right[Len(right) - 1] /\ rk = right[Len(right)]
          BY <1>2, <2>7, <3>1, <4>5 DEF ck, rk
        <5>2. lk = rk \/ lk - ck <= Duration
          BY <1>2, <1>11, <5>1 DEF Covered, lk
        <5>. QED
          BY <1>3, <1>8, <3>4, <3>5, <5>2
      <4>. QED
        BY <4>2, <4>4, <4>5 DEF Textbook
    <3>6. CASE ~(lk - ck > Duration)
      <4>1. ~TooFar(diff)
        BY <2>2, <3>6
      <4>2. Comparison = <<"equal", Candidate>>
        BY <2>1, <3>4, <4>1 DEF PriorCompare
      <4>3. Candidate \in InWindow(il)
        BY <1>2, <1>3, <1>8, <2>3, <3>2, <3>6 DEF ck
      <4>4. \A h \in InWindow(il) : Nearer(il, Candidate, h)
        BY <1>11, <2>3, <2>4, <3>3 DEF Nearer, ck
      <4>. QED
        BY <4>2, <4>3, <4>4 DEF Textbook
    <3>. QED
      BY <3>5, <3>6
  <2>. QED
    BY <1>3, <1>5, <2>5, <2>6, <2>7
<1>12. CASE compare = "fwd"
  <2>. DEFINE ahead == InUnits(rk - lk)
              there == InUnits(ck - lk)
  <2>1. Comparison = FwdCompare(lk, rk, ck) /\ mode = "roll_following"
    BY <1>9, <1>12 DEF CompareFunc, Paired
  <2>2. /\ ahead \in Int /\ (ahead < 0 <=> rk < lk)
        /\ TooFar(ahead) <=> rk - lk > Duration
    BY <1>3, <1>4, ExactTests
  <2>3. rk <= ck
    <3>1. ~(Candidate < ir)
      BY <1>2, <2>1 DEF Candidate
    <3>. QED
      BY <1>2, <1>7, <3>1 DEF ck
  <2>4. there \in Int /\ ahead <= there
    <3>1. /\ there \in Int /\ there * Unit = ck - lk
          /\ ahead * Unit = rk - lk
      BY <1>3, <1>4, ExactCast
    <3>2. ahead * Unit <= there * Unit
      BY <1>3, <2>3, <3>1
    <3>. QED
      BY <2>2, <3>1, <3>2, UnitsOrdered
  <2>5. ~(ahead < 0)
    BY <1>3, <1>5, <2>2
  <2>6. Lesser(there, Greater(ahead, 0)) = ahead
    <3>. HIDE DEF ahead, there
    <3>. QED
      BY <2>2, <2>4, <2>5 DEF Lesser, Greater
  <2>7. \A h \in DOMAIN right :
          h \in InWindow(il) <=> lk <= right[h] /\ right[h] - lk <= Duration
    BY <1>3, <1>8, <1>12 DEF InWindow, lk
  <2>8. InWindow(il) \subseteq DOMAIN right
    BY DEF InWindow
  <2>9. \A h \in DOMAIN right : lk <= right[h] => rk <= right[h]
    BY <1>3, <1>5, <1>7
  <2>10. \A h \in InWindow(il) : Nearer(il, ir, h)
    BY <1>12, <2>7, <2>8, <2>9 DEF Nearer, rk
  <2>11. CASE lk = rk
    <3>1. Comparison = <<"equal", ir>>
      BY <2>1, <2>11 DEF FwdCompare
    <3>2. ir \in InWindow(il)
      BY <1>2, <1>3, <1>8, <2>7, <2>11 DEF rk
    <3>. QED
      BY <2>10, <3>1, <3>2 DEF Textbook
  <2>12. CASE lk # rk /\ TooFar(ahead)
    <3>1. Comparison = <<"less", ir>>
      BY <2>1, <2>5, <2>6, <2>12 DEF FwdCompare
    <3>2. rk - lk > Duration
      BY <2>2, <2>12
    <3>3. \A h \in DOMAIN right : lk <= right[h] => right[h] - lk > Duration
      BY <1>3, <1>8, <2>9, <3>2
    <3>4. InWindow(il) = {}
      BY <1>3, <1>8, <2>7, <2>8, <3>3
    <3>. QED
      BY <3>1, <3>4 DEF Textbook
  <2>13. CASE lk # rk /\ ~TooFar(ahead)
    <3>1. Comparison = <<"equal", ir>>
      BY <2>1, <2>5, <2>6, <2>13 DEF FwdCompare
    <3>2. rk - lk <= Duration
      BY <1>3, <1>8, <2>2, <2>13
    <3>3. ir \in InWindow(il)
      BY <1>2, <1>5, <2>7, <3>2 DEF rk
    <3>. QED
      BY <2>10, <3>1, <3>3 DEF Textbook
  <2>. QED
    BY <2>11, <2>12, <2>13
<1>. QED
  BY <1>10, <1>11, <1>12 DEF Paired

LEMMA IterateTextInv ==
  ASSUME IInv, NearInv, TextInv, Iterate
  PROVE  TextInv'
<1>1. /\ left' = left /\ right' = right /\ mode' = mode /\ compare' = compare
  BY DEF Iterate
<1>2. /\ Paired' <=> Paired
      /\ Covered' <=> Covered
      /\ WholeUnits' <=> WholeUnits
      /\ \A i, r : Textbook(i, r)' <=> Textbook(i, r)
  BY <1>1 DEF Paired, Covered, Ordered, StrictlySorted, WholeUnits, KeysOf, Textbook,
              InWindow, Nearer
<1>. SUFFICES ASSUME Paired, Covered, WholeUnits PROVE TextInv'
  BY <1>2 DEF TextInv
<1>3. right # <<>> /\ StrictlySorted(left) /\ StrictlySorted(right)
  BY DEF Covered, Ordered
<1>. DEFINE new == Len(result) + 1
            answer == IF Comparison[1] = "equal" THEN Comparison[2] ELSE Default
<1>4. /\ Comparison[1] = "greater" => ir # Len(right)
      /\ Textbook(il, answer)
  BY TextbookAnswer DEF Iterate
<1>5. /\ il \in DOMAIN left /\ ir \in DOMAIN right
      /\ Len(result) \in Nat
      /\ DOMAIN result = 1..Len(result)
      /\ \A n \in DOMAIN result : result'[n] = result[n]
      /\ result'[new].r = answer
      /\ il' = il + 1 /\ Len(result) = il - 1
      /\ \/ ir' = ir
         \/ ir' = ir + 1 /\ left[il] = right[ir]
  BY <1>3, <1>4, RightIteration
<1>. HIDE DEF answer
<1>6. /\ DOMAIN left = 1..Len(left) /\ DOMAIN right = 1..Len(right)
      /\ il \in Nat /\ ir \in Nat
      /\ \A i \in DOMAIN left : i \in Nat
      /\ \A j \in DOMAIN right : j \in Nat
  BY ColumnsTyped DEF IInv
<1>7. /\ \A i \in DOMAIN left : left[i] \in Int
      /\ \A j \in DOMAIN right : right[j] \in Int
  <2>1. left \in Seq(Key) /\ right \in Seq(Key)
    BY ColumnsTyped DEF IInv
  <2>2. /\ \A i \in DOMAIN left : left[i] \in Key
        /\ \A j \in DOMAIN right : right[j] \in Key
    BY <2>1
  <2>. QED
    BY <2>2, KeyAssumption
<1>8. new = il
  BY <1>5, <1>6
<1>. HIDE DEF new
<1>9. ASSUME NEW i \in DOMAIN left, i < il' PROVE Textbook(i, result'[i].r)
  <2>1. CASE i < il
    <3>1. i \in DOMAIN result
      BY <1>5, <1>6, <2>1
    <3>. QED
      BY <1>5, <2>1, <3>1 DEF TextInv
  <2>2. CASE ~(i < il)
    <3>1. i = il
      BY <1>5, <1>6, <1>9, <2>2
    <3>. QED
      BY <1>4, <1>5, <1>8, <3>1
  <2>. QED
    BY <2>1, <2>2
<1>10. ASSUME il' \in DOMAIN left, NEW h \in DOMAIN right, h < ir'
       PROVE  right[h] < left[il']
  <2>1. left[il] < left[il']
    <3>1. il < il'
      BY <1>5, <1>6
    <3>. QED
      BY <1>3, <1>5, <1>10, <3>1 DEF StrictlySorted
  <2>2. CASE h < ir
    <3>1. right[h] < left[il]
      BY <1>5, <2>2 DEF TextInv
    <3>. QED
      BY <1>5, <1>7, <1>10, <2>1, <3>1
  <2>3. CASE ~(h < ir)
    <3>1. ir' # ir
      BY <1>10, <2>3
    <3>2. ir' = ir + 1 /\ left[il] = right[ir]
      BY <1>5, <3>1
    <3>3. h = ir
      BY <1>6, <1>10, <2>3, <3>2
    <3>. QED
      BY <2>1, <3>2, <3>3
  <2>. QED
    BY <2>2, <2>3
<1>. QED
  BY <1>1, <1>2, <1>9, <1>10 DEF TextInv

\* On covered inputs on whole units each of the three merges is the textbook one: the
\* nearest right row inside the window, or the default.
THEOREM TextbookMerge == Spec => []TextbookWhenCovered
<1>1. AsofInit => TextInv
  <2>. SUFFICES ASSUME AsofInit PROVE TextInv
    OBVIOUS
  <2>1. left \in Seq(Key) /\ right \in Seq(Key) /\ il = 1 /\ ir = 1
    BY InputsAssumption DEF AsofInit, Init
  <2>2. /\ \A i \in DOMAIN left : ~(i < il)
        /\ \A j \in DOMAIN right : ~(j < ir)
    BY <2>1, LenProperties
  <2>. QED
    BY <2>2 DEF TextInv
<1>2. IInv /\ NearInv /\ TextInv /\ [Next]_asofVars => TextInv'
  <2>. SUFFICES ASSUME IInv, NearInv, TextInv, [Next]_asofVars PROVE TextInv'
    OBVIOUS
  <2>1. CASE Iterate
    BY <2>1, IterateTextInv
  <2>2. CASE ~Iterate
    <3>1. /\ left' = left /\ right' = right /\ il' = il /\ ir' = ir /\ result' = result
          /\ mode' = mode /\ compare' = compare
      BY <2>2, OtherSteps
    <3>2. /\ Paired' <=> Paired
          /\ Covered' <=> Covered
          /\ WholeUnits' <=> WholeUnits
          /\ \A i, r : Textbook(i, r)' <=> Textbook(i, r)
      BY <3>1 DEF Paired, Covered, Ordered, StrictlySorted, WholeUnits, KeysOf,
                  Textbook, InWindow, Nearer
    <3>. QED
      BY <3>1, <3>2 DEF TextInv
  <2>. QED
    BY <2>1, <2>2
<1>3. IInv /\ TextInv => TextbookWhenCovered
  <2>. SUFFICES ASSUME IInv, TextInv, pc = "done", Paired, Covered, WholeUnits,
                       NEW i \in DOMAIN left
                PROVE  Textbook(i, result[i].r)
    BY DEF TextbookWhenCovered, WholeUnits, Textbook
  <2>1. i < il
    BY ColumnsTyped DEF IInv, Continue, End
  <2>. QED
    BY <2>1 DEF TextInv
<1>. QED
  BY <1>1, <1>2, <1>3, NearInvariance, PTL DEF Spec
-----------------------------------------------------------------------------
(* Progress: that a fair loop returns is left to TLC, that nothing stops it from *)
(* advancing and nothing kills it is proved here.                                *)

\* A difference within the window is cast to a number of units within the window.
LEMMA CastWithin ==
  ASSUME NEW d \in Int, d <= Duration
  PROVE  InUnits(d) \in Int /\ ~TooFar(InUnits(d))
<1>. Unit \in Nat /\ Unit > 0 /\ Duration \in Nat
  BY UnitAssumption, DurationAssumption
<1>1. CASE d >= 0
  <2>. DEFINE q == d \div Unit
  <2>1. InUnits(d) = q
    BY <1>1 DEF InUnits, Quotient
  <2>2. q \in Int /\ q * Unit <= d
    BY <1>1
  <2>. HIDE DEF q
  <2>3. q * Unit \in Int
    BY <2>2
  <2>. QED
    BY <2>1, <2>2, <2>3 DEF TooFar
<1>2. CASE d < 0
  <2>. DEFINE q == (-d) \div Unit
  <2>1. InUnits(d) = -q
    BY <1>2 DEF InUnits, Quotient
  <2>2. q \in Int /\ q >= 0
    BY <1>2
  <2>. HIDE DEF q
  <2>3. (-q) * Unit <= 0 /\ (-q) * Unit \in Int
    BY <2>2
  <2>. QED
    BY <2>1, <2>2, <2>3 DEF TooFar
<1>. QED
  BY <1>1, <1>2

\* Each comparer in its own mode, on covered inputs: at the last right row the left row is
\* never found to be after the right one.
LEMMA NotGreaterAtEnd ==
  ASSUME IInv, NearInv, Continue, Paired, Covered, ir = Len(right)
  PROVE  Comparison[1] # "greater"
<1>. DEFINE lk == left[il]
            rk == right[ir]
            ck == right[Candidate]
<1>0. right # <<>>
  BY DEF Covered
<1>1. il \in DOMAIN left /\ ir \in DOMAIN right /\ Candidate \in DOMAIN right
  BY <1>0, ReadsRows, ColumnsTyped DEF IInv, InRange
<1>2. lk \in Int /\ rk \in Int /\ ck \in Int
  <2>1. left \in Seq(Key) /\ right \in Seq(Key)
    BY ColumnsTyped DEF IInv
  <2>2. lk \in Key /\ rk \in Key /\ ck \in Key
    BY <1>1, <2>1
  <2>. QED
    BY <2>2, KeyAssumption
<1>3. lk <= rk
  BY <1>0, <1>1 DEF NearInv
<1>4. CASE compare = "default"
  BY <1>0, <1>2, <1>3, <1>4, DefaultOrder
<1>5. CASE compare = "prior" /\ mode = "roll_prior"
  <2>1. Comparison = PriorCompare(lk, rk, ck)
    BY <1>5 DEF Comparison, CandidateKey, CompareFunc
  <2>2. Len(right) \in Nat /\ Len(right) >= 1 /\ Duration \in Nat
    BY <1>1, ColumnsTyped, DurationAssumption DEF IInv
  <2>3. lk # rk => lk - ck <= Duration
    <3>1. CASE Len(right) = 1
      <4>1. ck = rk
        BY <1>5, <3>1 DEF Candidate
      <4>. QED
        BY <1>2, <1>3, <2>2, <4>1
    <3>2. CASE Len(right) > 1
      <4>1. ck = right[Len(right) - 1]
        BY <1>5, <2>2, <3>2 DEF Candidate
      <4>. QED
        BY <1>1, <1>5, <3>2, <4>1 DEF Covered
    <3>. QED
      BY <2>2, <3>1, <3>2
  <2>. DEFINE diff == InUnits(lk - ck)
  <2>4. lk # rk => ~TooFar(diff)
    BY <1>2, <2>3, CastWithin
  <2>5. PriorCompare(lk, rk, ck)
          = CASE lk = rk                    -> <<"equal", ir>>
              [] lk # rk /\ diff < 0        -> <<"less", ir>>
              [] lk # rk /\ TooFar(diff)    -> <<"greater", ir>>
              [] OTHER                      -> <<"equal", Candidate>>
    BY DEF PriorCompare
  <2>. HIDE DEF lk, rk, ck, diff
  <2>. QED
    BY <2>1, <2>4, <2>5
<1>6. CASE compare = "fwd" /\ mode = "roll_following"
  <2>1. Comparison = FwdCompare(lk, rk, ck)
    BY <1>6 DEF Comparison, CandidateKey, CompareFunc
  <2>2. ck = rk
    BY <1>6 DEF Candidate
  <2>. DEFINE ahead == InUnits(rk - lk)
              diff  == Lesser(InUnits(ck - lk), Greater(ahead, 0))
  <2>3. ahead \in Int /\ ahead >= 0
    <3>1. rk - lk \in Int /\ rk - lk >= 0
      BY <1>2, <1>3
    <3>. HIDE DEF lk, rk
    <3>. QED
      BY <3>1, CastNear
  <2>4. ~(diff < 0)
    <3>1. InUnits(ck - lk) = ahead
      BY <2>2
    <3>. HIDE DEF ahead
    <3>. QED
      BY <2>3, <3>1 DEF Lesser, Greater
  <2>5. \E chosen : FwdCompare(lk, rk, ck)
          = CASE lk = rk                    -> <<"equal", ir>>
              [] lk # rk /\ diff < 0        -> <<"greater", ir>>
              [] lk # rk /\ TooFar(diff)    -> <<"less", ir>>
              [] OTHER                      -> <<"equal", chosen>>
    BY DEF FwdCompare
  <2>. HIDE DEF lk, rk, ck, diff
  <2>. QED
    BY <2>1, <2>4, <2>5
<1>. QED
  BY <1>4, <1>5, <1>6 DEF Paired

\* What a caller has to see to for the merge to return.
Returning == Paired /\ Covered /\ MaxRows > Len(left)

\* On covered inputs the merge never runs out of memory and never crashes.
THEOREM NeverFailsWhenCovered == Spec => [](Returning => pc # "fault")
<1>. DEFINE Fine == Returning => pc # "fault"
<1>1. AsofInit => Fine
  BY DEF AsofInit, Init
<1>2. ASSUME IInv, NearInv, Fine, [Next]_asofVars PROVE Fine'
  <2>. SUFFICES ASSUME Returning' PROVE pc' # "fault"
    OBVIOUS
  <2>1. left' = left /\ right' = right /\ mode' = mode /\ compare' = compare
    BY <1>2 DEF Next, Iterate, OutOfMemory, Crash, Die, Finish, Return, asofVars, vars
  <2>2. Returning
    BY <2>1 DEF Returning, Paired, Covered, Ordered, StrictlySorted, KeysOf
  <2>3. right # <<>> /\ pc # "fault"
    BY <1>2, <2>2 DEF Returning, Covered
  <2>4. ~OutOfMemory
    <3>. SUFFICES ASSUME OutOfMemory PROVE FALSE
      OBVIOUS
    <3>1. Continue /\ Len(result) = MaxRows
      BY DEF OutOfMemory
    <3>2. /\ Len(result) \in Nat /\ Len(left) \in Nat /\ MaxRows \in Nat
          /\ il \in 1..(Len(left) + 1)
      BY <1>2, ColumnsTyped, MaxRowsAssumption DEF IInv
    <3>3. Len(result) >= il
      BY <2>2, <3>1, <3>2 DEF Returning
    <3>4. Stuck
      BY <1>2, <2>3, <3>3 DEF IInv, RowPerRow
    <3>5. Comparison[1] = "greater" /\ ir = Len(right)
      BY <3>4 DEF Stuck, Here, Comparison, CandidateKey
    <3>. QED
      BY <1>2, <2>2, <3>1, <3>5, NotGreaterAtEnd DEF Returning
  <2>5. ~Crash
    BY <1>2, <2>3, ReadsRows DEF Crash, Die
  <2>. QED
    BY <1>2, <2>3, <2>4, <2>5 DEF Next, Iterate, Finish, Return, asofVars, vars
<1>. QED
  BY <1>1, <1>2, NearInvariance, PTL DEF Spec

\* On covered inputs every iteration of the merge moves on to the next left row.
THEOREM AdvancesWhenCovered ==
  Spec => [][Paired /\ Covered /\ Iterate => il' = il + 1]_asofVars
<1>1. ASSUME IInv, NearInv, Paired, Covered, Iterate PROVE il' = il + 1
  <2>1. right # <<>> /\ Continue
    BY <1>1 DEF Covered, Iterate
  <2>2. /\ Comparison[1] \in {"less", "greater", "equal"}
        /\ Comparison[1] = "less" => il' = il + 1
        /\ Comparison[1] = "greater" => il' = IF ir # Len(right) THEN il + 1 ELSE il
        /\ Comparison[1] = "equal" => il' = il + 1
    BY <1>1, <2>1, RightIteration
  <2>3. ir = Len(right) => Comparison[1] # "greater"
    BY <1>1, <2>1, NotGreaterAtEnd
  <2>. QED
    BY <2>2, <2>3
<1>. QED
  BY <1>1, NearInvariance, PTL DEF Spec
=============================================================================
