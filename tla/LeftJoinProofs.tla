--------------------------- MODULE LeftJoinProofs ---------------------------
(***************************************************************************)
(* Theorems about cross_apply_left, for series of any length and any keys. *)
(*                                                                         *)
(* Three invariants.  Kept, of any two series, follows only the left one.  *)
(* PastRight, of two increasing series, says how the right cursor gets to  *)
(* the end of its column: by a match with the last right row, so that the  *)
(* next iteration, if there is one, reads past it.  RowsInv counts result  *)
(* rows.                                                                   *)
(***************************************************************************)
EXTENDS LeftJoin, SequenceTheorems, FiniteSetTheorems, TLAPS

Rows == [key : Key, l : Nat, r : Nat]

Kept ==
  /\ \A n \in DOMAIN result :
       /\ InRange(left, result[n].l)
       /\ result[n].key = left[result[n].l]
       /\ result[n].l <= il
  /\ \A m, n \in DOMAIN result : m < n => result[m].l <= result[n].l
  /\ \A i \in 1..(il - 1) : \E n \in DOMAIN result : result[n].l = i

Ordered == StrictlySorted(left) /\ StrictlySorted(right)

\* Left row h has the key of the last right row.
MeetsLast(h) == right # <<>> /\ left[h] = right[Len(right)]

PastRight ==
  Ordered =>
    /\ \/ ir <= Len(right)
       \/ right = <<>>
       \/ \E h \in DOMAIN left : h < il /\ MeetsLast(h)
    /\ wild => RunsPastRight
    /\ right = <<>> /\ il > 1 => wild
    /\ \A h \in DOMAIN left : MeetsLast(h) /\ h < il => wild \/ ir = End(right)
    /\ \A h \in DOMAIN left : MeetsLast(h) /\ h + 1 < il => wild

IInv ==
  /\ TypeOK
  /\ Kept
  /\ PastRight
  /\ pc = "done" => ~Continue

-----------------------------------------------------------------------------

\* The columns are sequences of integer keys.
LEMMA ColumnsTyped ==
  ASSUME TypeOK
  PROVE  /\ left \in Seq(Key) /\ right \in Seq(Key)
         /\ Len(left) \in Nat /\ Len(right) \in Nat
         /\ DOMAIN left = 1..Len(left) /\ DOMAIN right = 1..Len(right)
         /\ \A i \in DOMAIN left : left[i] \in Int
         /\ \A j \in DOMAIN right : right[j] \in Int
         /\ right # <<>> => Len(right) \in DOMAIN right
         /\ right = <<>> => Len(right) = 0
         /\ il \in Nat /\ ir \in Nat /\ ir >= 1 /\ il \in 1..(Len(left) + 1)
         /\ result \in Seq(Rows) /\ Len(result) \in Nat
<1>1. left \in Seq(Key) /\ right \in Seq(Key)
  BY InputsAssumption DEF TypeOK, LoopTypeOK
<1>2. /\ Len(left) \in Nat /\ Len(right) \in Nat
      /\ DOMAIN left = 1..Len(left) /\ DOMAIN right = 1..Len(right)
  BY <1>1
<1>3. /\ \A i \in DOMAIN left : left[i] \in Int
      /\ \A j \in DOMAIN right : right[j] \in Int
  <2>1. \A i \in DOMAIN left : left[i] \in Key
    BY <1>1
  <2>2. \A j \in DOMAIN right : right[j] \in Key
    BY <1>1
  <2>. QED
    BY <2>1, <2>2, KeyAssumption
<1>4. (right # <<>> => Len(right) >= 1) /\ (right = <<>> => Len(right) = 0)
  BY <1>1, <1>2, EmptySeq
<1>5. result \in Seq(Rows)
  BY DEF TypeOK, LoopTypeOK, Rows
<1>. QED
  BY <1>1, <1>2, <1>3, <1>4, <1>5, SlackAssumption DEF TypeOK, LoopTypeOK, End

\* Reading past the right column means that the loop has to run past it.
LEMMA OutsideRunsPast ==
  ASSUME IInv, Ordered, Continue, ~InRange(right, ir)
  PROVE  RunsPastRight
<1>1. il \in DOMAIN left
  BY ColumnsTyped DEF IInv, Continue, End
<1>2. CASE right = <<>>
  <2>1. left # <<>>
    BY <1>1
  <2>. QED
    BY <1>2, <2>1 DEF RunsPastRight
<1>3. CASE right # <<>>
  <2>1. PICK h \in DOMAIN left : h < il /\ MeetsLast(h)
    BY <1>3, ColumnsTyped DEF IInv, PastRight, InRange
  <2>2. left[h] = right[Len(right)] /\ left[h] < left[il]
    BY <1>1, <2>1 DEF MeetsLast, Ordered, StrictlySorted
  <2>. QED
    BY <1>1, <1>3, <2>1, <2>2 DEF RunsPastRight
<1>. QED
  BY <1>2, <1>3

-----------------------------------------------------------------------------

\* The invariant holds when the loop is entered.
LEMMA InitIInv == Init => IInv
<1>. SUFFICES ASSUME Init PROVE IInv
  OBVIOUS
<1>. USE DEF Init
<1>1. left \in Seq(Key) /\ right \in Seq(Key)
  BY InputsAssumption
<1>2. Len(left) \in Nat /\ Len(right) \in Nat /\ (right # <<>> => Len(right) >= 1)
  BY <1>1, EmptySeq
<1>3. LoopTypeOK
  <2>1. result \in Seq([key : Key, l : Nat, r : Nat])
    BY EmptySeq
  <2>. QED
    BY <2>1 DEF LoopTypeOK
<1>4. il \in 1..End(left) /\ ir \in 1..(End(right) + Slack)
  BY <1>2, SlackAssumption DEF End
<1>5. Kept
  BY DEF Kept
<1>6. PastRight
  <2>1. DOMAIN left = 1..Len(left)
    BY <1>1
  <2>. QED
    BY <1>2, <2>1 DEF PastRight
<1>. QED
  BY <1>3, <1>4, <1>5, <1>6 DEF IInv, TypeOK

\* What inserting a row does to the result.
LEMMA PutRow ==
  ASSUME TypeOK, NEW k \in Key, NEW i \in Nat, NEW j \in Nat,
         result' = Append(result, Row(k, i, j))
  PROVE  /\ result' \in Seq([key : Key, l : Nat, r : Nat])
         /\ DOMAIN result' = 1..(Len(result) + 1)
         /\ DOMAIN result = 1..Len(result)
         /\ \A n \in DOMAIN result : result'[n] = result[n]
         /\ result'[Len(result) + 1].key = k
         /\ result'[Len(result) + 1].l = i
<1>. DEFINE row == Row(k, i, j)
<1>1. row \in Rows /\ row.key = k /\ row.l = i
  BY DEF Row, Rows
<1>2. result \in Seq(Rows)
  BY ColumnsTyped
<1>. HIDE DEF row
<1>3. /\ Append(result, row) \in Seq(Rows)
      /\ Len(Append(result, row)) = Len(result) + 1
      /\ \A n \in 1..Len(result) : Append(result, row)[n] = result[n]
      /\ Append(result, row)[Len(result) + 1] = row
  BY <1>1, <1>2, AppendProperties
<1>4. result' = Append(result, row)
  BY DEF row
<1>5. /\ DOMAIN result = 1..Len(result)
      /\ DOMAIN result' = 1..Len(result')
  BY <1>2, <1>3, <1>4, LenProperties
<1>. QED
  BY <1>1, <1>3, <1>4, <1>5 DEF Rows

\* What an iteration reads and does: it inserts a row for the left row.
LEMMA IterateReads ==
  ASSUME IInv, Iterate
  PROVE  \E rk \in Key, j \in Nat :
           /\ Body(left[il], rk)
           /\ result' = Append(result, Row(left[il], il, j))
           /\ il \in 1..Len(left) /\ left[il] \in Key
           /\ ir <= Len(right) + Slack
           /\ InRange(right, ir) => rk = right[ir]
           /\ wild' <=> (wild \/ ~InRange(right, ir))
<1>1. PICK lk \in KeyAt(left, il), rk \in KeyAt(right, ir) : Body(lk, rk)
  BY DEF Iterate
<1>2. il \in 1..Len(left)
  BY ColumnsTyped DEF IInv, Iterate, Continue, End
<1>3. lk = left[il] /\ lk \in Key
  BY <1>2, ColumnsTyped DEF IInv, KeyAt, InRange
<1>4. /\ rk \in Key /\ ir <= Len(right) + Slack
      /\ InRange(right, ir) => rk = right[ir]
  <2>1. CASE InRange(right, ir)
    BY <2>1, ColumnsTyped, SlackAssumption DEF IInv, KeyAt, InRange
  <2>2. CASE ~InRange(right, ir)
    BY <2>2 DEF KeyAt
  <2>. QED
    BY <2>1, <2>2
<1>5. \E j \in Nat : result' = Append(result, Row(lk, il, j))
  <2>1. ir \in Nat /\ Default \in Nat
    BY ColumnsTyped DEF IInv, Default
  <2>. QED
    BY <1>1, <2>1 DEF Body, LeftBefore, RightBefore, Match, Put
<1>6. wild' <=> (wild \/ ~InRange(right, ir))
  BY <1>2 DEF Iterate, ReadBoth, InRange
<1>. QED
  BY <1>1, <1>2, <1>3, <1>4, <1>5, <1>6

\* An iteration keeps the types, whatever it reads.
LEMMA IterateTypes ==
  ASSUME IInv, Iterate
  PROVE  TypeOK'
<1>1. PICK rk \in Key, j \in Nat :
        /\ Body(left[il], rk)
        /\ result' = Append(result, Row(left[il], il, j))
        /\ il \in 1..Len(left) /\ left[il] \in Key
        /\ ir <= Len(right) + Slack
        /\ wild' <=> (wild \/ ~InRange(right, ir))
  BY IterateReads
<1>2. TypeOK
  BY DEF IInv
<1>3. result' \in Seq([key : Key, l : Nat, r : Nat])
  BY <1>1, <1>2, PutRow, ColumnsTyped
<1>4. il' \in {il, il + 1} /\ ir' \in {ir, ir + 1}
  BY <1>1 DEF Body, LeftBefore, RightBefore, Match
<1>5. /\ il' \in Nat /\ il' \in 1..End(left)
      /\ ir' \in Nat /\ ir' \in 1..(End(right) + Slack)
  BY <1>1, <1>2, <1>4, ColumnsTyped, SlackAssumption DEF End
<1>6. wild' \in BOOLEAN
  BY DEF Iterate, ReadBoth
<1>. QED
  BY <1>2, <1>3, <1>5, <1>6 DEF Iterate, TypeOK, LoopTypeOK, End

\* The row an iteration inserts is the one at the left cursor.
LEMMA IterateKept ==
  ASSUME IInv, Iterate
  PROVE  Kept'
<1>1. PICK rk \in Key, j \in Nat :
        /\ Body(left[il], rk)
        /\ result' = Append(result, Row(left[il], il, j))
        /\ il \in 1..Len(left) /\ left[il] \in Key
  BY IterateReads
<1>2. TypeOK /\ Kept /\ il \in Nat /\ Len(result) \in Nat
  BY ColumnsTyped DEF IInv
<1>. DEFINE size == Len(result)
<1>3. /\ DOMAIN result' = 1..(size + 1) /\ DOMAIN result = 1..size
      /\ \A n \in DOMAIN result : result'[n] = result[n]
      /\ result'[size + 1].key = left[il]
      /\ result'[size + 1].l = il
  BY <1>1, <1>2, PutRow
<1>4. il' \in {il, il + 1} /\ left' = left
  BY <1>1 DEF Body, LeftBefore, RightBefore, Match, Iterate
<1>5. ASSUME NEW n \in DOMAIN result'
      PROVE  /\ InRange(left, result'[n].l)
             /\ result'[n].key = left[result'[n].l]
             /\ result'[n].l <= il
  <2>1. CASE n \in DOMAIN result
    BY <1>2, <1>3, <2>1 DEF Kept
  <2>2. CASE n = size + 1
    BY <1>1, <1>2, <1>3, <2>2 DEF InRange
  <2>. QED
    BY <1>2, <1>3, <2>1, <2>2
<1>6. ASSUME NEW m \in DOMAIN result', NEW n \in DOMAIN result', m < n
      PROVE  result'[m].l <= result'[n].l
  <2>1. m \in DOMAIN result
    BY <1>2, <1>3, <1>6
  <2>2. CASE n \in DOMAIN result
    BY <1>2, <1>3, <1>6, <2>1, <2>2 DEF Kept
  <2>3. CASE n = size + 1
    BY <1>3, <1>5, <2>3
  <2>. QED
    BY <1>2, <1>3, <2>2, <2>3
<1>7. ASSUME NEW i \in 1..(il' - 1)
      PROVE  \E n \in DOMAIN result' : result'[n].l = i
  <2>1. CASE i \in 1..(il - 1)
    <3>1. PICK n \in DOMAIN result : result[n].l = i
      BY <1>2, <2>1 DEF Kept
    <3>. QED
      BY <1>2, <1>3, <3>1
  <2>2. CASE i = il
    BY <1>2, <1>3, <2>2
  <2>. QED
    BY <1>2, <1>4, <2>1, <2>2
<1>8. \A n \in DOMAIN result' : result'[n].l <= il'
  <2>. SUFFICES ASSUME NEW n \in DOMAIN result' PROVE result'[n].l <= il'
    OBVIOUS
  <2>1. result'[n].l \in Int
    BY <1>2, <1>5, ColumnsTyped DEF InRange
  <2>. QED
    BY <1>2, <1>4, <1>5, <2>1
<1>. QED
  BY <1>4, <1>5, <1>6, <1>7, <1>8 DEF Kept, InRange

\* The right cursor gets past the last right row by matching it.
LEMMA IteratePastRight ==
  ASSUME IInv, Iterate
  PROVE  PastRight'
<1>. SUFFICES ASSUME Ordered PROVE PastRight'
  BY DEF PastRight, Ordered, Iterate
<1>1. PICK rk \in Key :
        /\ Body(left[il], rk)
        /\ il \in 1..Len(left)
        /\ InRange(right, ir) => rk = right[ir]
        /\ wild' <=> (wild \/ ~InRange(right, ir))
  BY IterateReads
<1>2. /\ Len(left) \in Nat /\ Len(right) \in Nat
      /\ il \in Nat /\ ir \in Nat /\ ir >= 1
      /\ right = <<>> => Len(right) = 0
      /\ right # <<>> => Len(right) >= 1
  BY ColumnsTyped DEF IInv
<1>12. /\ DOMAIN left = 1..Len(left) /\ DOMAIN right = 1..Len(right)
       /\ \A i \in DOMAIN left : left[i] \in Int
       /\ \A j \in DOMAIN right : right[j] \in Int
  BY ColumnsTyped DEF IInv
<1>3. /\ \/ ir <= Len(right)
         \/ right = <<>>
         \/ \E h \in DOMAIN left : h < il /\ MeetsLast(h)
      /\ wild => RunsPastRight
      /\ right = <<>> /\ il > 1 => wild
      /\ \A h \in DOMAIN left : MeetsLast(h) /\ h < il => wild \/ ir = End(right)
      /\ \A h \in DOMAIN left : MeetsLast(h) /\ h + 1 < il => wild
  BY DEF IInv, PastRight
<1>4. left' = left /\ right' = right
  BY DEF Iterate
<1>5. /\ il' \in Nat /\ ir' \in Nat
      /\ il' = il \/ il' = il + 1
      /\ ir' = ir \/ ir' = ir + 1
  BY <1>1, <1>2 DEF Body, LeftBefore, RightBefore, Match
<1>6. \/ ir' <= Len(right)
      \/ right = <<>>
      \/ \E h \in DOMAIN left : h < il' /\ MeetsLast(h)
  <2>1. CASE \E h \in DOMAIN left : h < il /\ MeetsLast(h)
    <3>1. PICK h \in DOMAIN left : h < il /\ MeetsLast(h)
      BY <2>1
    <3>2. h \in Nat
      BY <1>2, <1>12
    <3>3. h < il'
      BY <1>2, <1>5, <3>1, <3>2
    <3>. QED
      BY <3>1, <3>3
  <2>2. CASE ir < Len(right)
    <3>1. ir' <= Len(right)
      BY <1>2, <1>5, <2>2
    <3>. QED
      BY <3>1
  <2>3. CASE ir = Len(right) /\ right # <<>>
    <3>1. CASE ir' = ir
      BY <1>2, <2>3, <3>1
    <3>2. CASE ir' # ir
      <4>1. Match(left[il], rk)
        BY <1>1, <2>3, <3>2 DEF Body, LeftBefore, RightBefore
      <4>2. rk = right[ir] /\ il' = il + 1 /\ ~(left[il] < rk) /\ ~(rk < left[il])
        BY <1>1, <1>2, <2>3, <4>1 DEF Match, InRange
      <4>3. rk \in Int /\ left[il] \in Int
        BY <1>1, <1>12, KeyAssumption
      <4>4. MeetsLast(il)
        BY <2>3, <4>2, <4>3 DEF MeetsLast
      <4>5. il \in DOMAIN left /\ il < il'
        BY <1>1, <1>2, <1>12, <4>2
      <4>. QED
        BY <4>4, <4>5
    <3>. QED
      BY <3>1, <3>2
  <2>4. ir <= Len(right) => ir < Len(right) \/ ir = Len(right)
    BY <1>2
  <2>. QED
    BY <1>3, <2>1, <2>2, <2>3, <2>4
<1>7. wild' => RunsPastRight
  BY <1>1, <1>3, OutsideRunsPast DEF Iterate
<1>8. right = <<>> => wild'
  BY <1>1, <1>2 DEF InRange
<1>9. ASSUME NEW h \in DOMAIN left, MeetsLast(h), h < il
      PROVE  wild'
  BY <1>1, <1>2, <1>3, <1>9 DEF End, InRange
<1>10. ASSUME NEW h \in DOMAIN left, MeetsLast(h), h < il'
       PROVE  wild' \/ ir' = End(right)
  <2>1. CASE h < il
    BY <1>9, <1>10, <2>1
  <2>2. CASE h = il
    <3>. SUFFICES ASSUME ~wild' PROVE ir' = End(right)
      OBVIOUS
    <3>1. /\ ir \in DOMAIN right /\ rk = right[ir] /\ il' = il + 1
          /\ right # <<>> /\ Len(right) \in DOMAIN right
          /\ left[il] = right[Len(right)]
      BY <1>1, <1>2, <1>12, <1>5, <1>10, <2>2 DEF InRange, MeetsLast
    <3>2. ir < Len(right) => rk < left[il]
      BY <1>12, <3>1 DEF Ordered, StrictlySorted
    <3>3. ir = Len(right)
      <4>. ir \in 1..Len(right)
        BY <1>12, <3>1
      <4>1. SUFFICES ASSUME ir < Len(right) PROVE FALSE
        BY <1>2
      <4>2. rk < left[il] /\ rk \in Int /\ left[il] \in Int
        BY <1>12, <2>2, <3>1, <3>2, <4>1
      <4>3. RightBefore(left[il], rk)
        BY <1>1, <4>2 DEF Body, LeftBefore, Match
      <4>. QED
        BY <1>2, <3>1, <4>1, <4>3 DEF RightBefore
    <3>4. Match(left[il], rk)
      <4>1. rk = left[il] /\ rk \in Int
        BY <1>12, <3>1, <3>3
      <4>. QED
        BY <1>1, <4>1 DEF Body, LeftBefore, RightBefore
    <3>. QED
      BY <3>3, <3>4 DEF Match, End
  <2>. QED
    BY <1>2, <1>5, <1>10, <2>1, <2>2
<1>11. ASSUME NEW h \in DOMAIN left, MeetsLast(h), h + 1 < il'
       PROVE  wild'
  BY <1>2, <1>5, <1>9, <1>11
<1>. QED
  BY <1>4, <1>6, <1>7, <1>8, <1>10, <1>11
     DEF PastRight, MeetsLast, RunsPastRight, Ordered, End

\* A crash is a read past the right column.
LEMMA CrashIInv ==
  ASSUME IInv, Crash
  PROVE  IInv'
<1>1. /\ left' = left /\ right' = right /\ il' = il /\ ir' = ir /\ result' = result
      /\ pc' = "fault" /\ wild' = TRUE
      /\ Continue /\ (~InRange(left, il) \/ ~InRange(right, ir))
  BY DEF Crash, Die
<1>2. Ordered => RunsPastRight
  <2>1. InRange(left, il)
    BY <1>1, ColumnsTyped DEF IInv, Continue, End, InRange
  <2>. QED
    BY <1>1, <2>1, OutsideRunsPast
<1>3. TypeOK'
  BY <1>1 DEF IInv, TypeOK, LoopTypeOK, End
<1>4. Kept'
  BY <1>1 DEF IInv, Kept, InRange
<1>5. PastRight'
  BY <1>1, <1>2 DEF IInv, PastRight, MeetsLast, RunsPastRight, Ordered, StrictlySorted, End
<1>. QED
  BY <1>1, <1>3, <1>4, <1>5 DEF IInv

\* Returning changes pc only, and then nothing changes.
LEMMA ReturnIInv ==
  ASSUME IInv, Finish \/ UNCHANGED vars
  PROVE  IInv'
<1>1. /\ left' = left /\ right' = right /\ il' = il /\ ir' = ir /\ result' = result
      /\ wild' = wild
      /\ pc' = pc \/ (pc' = "done" /\ ~Continue)
  BY DEF Finish, Return, vars
<1>2. TypeOK'
  BY <1>1 DEF IInv, TypeOK, LoopTypeOK, End
<1>3. Kept'
  BY <1>1 DEF IInv, Kept, InRange
<1>4. PastRight'
  BY <1>1 DEF IInv, PastRight, MeetsLast, RunsPastRight, Ordered, StrictlySorted, End
<1>. QED
  BY <1>1, <1>2, <1>3, <1>4 DEF IInv, Continue, End

\* Every step of the loop preserves the invariant.
LEMMA NextIInv == IInv /\ [Next]_vars => IInv'
<1>. SUFFICES ASSUME IInv, [Next]_vars PROVE IInv'
  OBVIOUS
<1>1. CASE Iterate
  <2>1. pc' # "done"
    BY <1>1 DEF Iterate
  <2>. QED
    BY <1>1, <2>1, IterateTypes, IterateKept, IteratePastRight DEF IInv
<1>2. CASE Crash
  BY <1>2, CrashIInv
<1>3. CASE Finish \/ Stopped \/ UNCHANGED vars
  BY <1>3, ReturnIInv DEF Stopped
<1>. QED
  BY <1>1, <1>2, <1>3 DEF Next

\* The invariant holds throughout the loop.
THEOREM Invariance == Spec => []IInv
BY InitIInv, NextIInv, PTL DEF Spec

-----------------------------------------------------------------------------

\* The left cursor of cross_apply_left never leaves its column; the right one only as
\* far as the memory behind its column can be read.
THEOREM TypeCorrect == Spec => []TypeOK
<1>1. IInv => TypeOK
  BY DEF IInv
<1>. QED
  BY <1>1, Invariance, PTL

\* cross_apply_left keeps every left row, in order, whatever is read on the right.
THEOREM LeftRowsKept == Spec => []EveryLeftRowKept
<1>1. IInv => EveryLeftRowKept
  BY DEF IInv, Kept, EveryLeftRowKept
<1>. QED
  BY <1>1, Invariance, PTL

\* Of two series with increasing keys: cross_apply_left reads past the right one if
\* there is no right row, or if left rows follow the match of the last right row,
\* and at no other time.
THEOREM OverrunExact == Spec => []OverrunIsExact
<1>1. IInv => OverrunIsExact
  <2>. SUFFICES ASSUME IInv, Ordered
                PROVE  /\ wild => RunsPastRight
                       /\ pc = "done" /\ RunsPastRight => wild
    BY DEF OverrunIsExact, Ordered
  <2>1. wild => RunsPastRight
    BY DEF IInv, PastRight
  <2>2. ASSUME pc = "done", RunsPastRight
        PROVE  wild
    <3>1. il = Len(left) + 1 /\ Len(left) \in Nat /\ DOMAIN left = 1..Len(left)
      BY <2>2, ColumnsTyped DEF IInv, Continue, End
    <3>2. CASE right = <<>> /\ left # <<>>
      <4>1. left \in Seq(Key)
        BY ColumnsTyped DEF IInv
      <4>2. Len(left) # 0
        BY <3>2, <4>1, EmptySeq
      <4>. QED
        BY <3>1, <3>2, <4>2 DEF IInv, PastRight
    <3>3. CASE right # <<>>
      <4>1. PICK i \in DOMAIN left, h \in DOMAIN left :
              left[h] = right[Len(right)] /\ left[h] < left[i]
        BY <2>2, <3>3 DEF RunsPastRight
      <4>2. h < i
        <5>1. i < h => left[i] < left[h]
          BY DEF Ordered, StrictlySorted
        <5>2. left[i] \in Int /\ left[h] \in Int
          BY ColumnsTyped DEF IInv
        <5>. QED
          BY <3>1, <4>1, <5>1, <5>2
      <4>3. MeetsLast(h) /\ h + 1 < il
        BY <3>1, <3>3, <4>1, <4>2 DEF MeetsLast
      <4>. QED
        BY <4>3 DEF IInv, PastRight
    <3>. QED
      BY <2>2, <3>2, <3>3 DEF RunsPastRight
  <2>. QED
    BY <2>1, <2>2
<1>. QED
  BY <1>1, Invariance, PTL
-----------------------------------------------------------------------------
(* How many rows a left row gets, as long as the loop stays inside the columns. *)

InsertedFor(i) == {n \in DOMAIN result : result[n].l = i}

\* The right rows that have been skipped for left row i so far.
PassedAt(i) == {j \in SkippedAt(i) : j < ir}

Counted ==
  /\ \A i \in DOMAIN left :
       i < il => Cardinality(InsertedFor(i)) = Cardinality(SkippedAt(i)) + 1
  /\ il \in DOMAIN left =>
       Cardinality(InsertedFor(il)) = Cardinality(PassedAt(il))

\* What the right cursor has passed is smaller than the left key; and what the left
\* cursor has passed is smaller than the right key, unless that is the last one.
Interleaved ==
  /\ il \in DOMAIN left => \A j \in DOMAIN right : j < ir => right[j] < left[il]
  /\ ir < Len(right) => \A h \in DOMAIN left : h < il => left[h] < right[ir]

\* A row carries a right value exactly if a right row has its key.
Matched(i, j) == \E n \in DOMAIN result : result[n].l = i /\ result[n].r = j

MatchesFound ==
  /\ \A n \in DOMAIN result :
       result[n].r # Default =>
         result[n].r \in DOMAIN right /\ left[result[n].l] = right[result[n].r]
  /\ \A i \in DOMAIN left, j \in DOMAIN right :
       left[i] = right[j] /\ i < il => Matched(i, j)

RowsInv == Ordered /\ ~wild => Counted /\ Interleaved /\ MatchesFound

\* The sets that are counted are finite.
LEMMA Finite ==
  ASSUME TypeOK, NEW i
  PROVE  /\ IsFiniteSet(InsertedFor(i)) /\ IsFiniteSet(SkippedAt(i))
         /\ IsFiniteSet(PassedAt(i))
<1>1. InsertedFor(i) \subseteq 1..Len(result) /\ IsFiniteSet(1..Len(result))
  <2>1. result \in Seq(Rows) /\ Len(result) \in Nat
    BY ColumnsTyped
  <2>2. DOMAIN result = 1..Len(result)
    BY <2>1, LenProperties
  <2>. QED
    BY <2>1, <2>2, FS_Interval DEF InsertedFor
<1>2. /\ SkippedAt(i) \subseteq 1..(Len(right) - 1) /\ IsFiniteSet(1..(Len(right) - 1))
      /\ PassedAt(i) \subseteq 1..(Len(right) - 1)
  <2>1. Len(right) \in Nat
    BY ColumnsTyped
  <2>2. Len(right) - 1 \in Int
    BY <2>1
  <2>. QED
    BY <2>2, FS_Interval DEF SkippedAt, PassedAt
<1>. QED
  BY <1>1, <1>2, FS_Subset

\* What an iteration inside the columns inserts.
LEMMA InsideIteration ==
  ASSUME IInv, RowsInv, Iterate, Ordered, ~wild'
  PROVE  /\ ~wild /\ il \in DOMAIN left /\ ir \in DOMAIN right
         /\ Body(left[il], right[ir])
         /\ Len(result) \in Nat /\ DOMAIN result = 1..Len(result)
         /\ DOMAIN result' = DOMAIN result \cup {Len(result) + 1}
         /\ \A n \in DOMAIN result : result'[n] = result[n]
         /\ result'[Len(result) + 1].l = il
         /\ IF Match(left[il], right[ir]) THEN result'[Len(result) + 1].r = ir
            ELSE result'[Len(result) + 1].r = Default
<1>1. PICK rk \in Key, j \in Nat :
        /\ Body(left[il], rk)
        /\ result' = Append(result, Row(left[il], il, j))
        /\ il \in 1..Len(left) /\ left[il] \in Key
        /\ InRange(right, ir) => rk = right[ir]
        /\ wild' <=> (wild \/ ~InRange(right, ir))
  BY IterateReads
<1>2. /\ DOMAIN left = 1..Len(left) /\ DOMAIN right = 1..Len(right)
      /\ result \in Seq(Rows) /\ Len(result) \in Nat /\ ir \in Nat
  BY ColumnsTyped DEF IInv
<1>3. ~wild /\ ir \in DOMAIN right /\ rk = right[ir]
  BY <1>1, <1>2 DEF InRange
<1>4. PICK p \in Nat :
        /\ result' = Append(result, Row(left[il], il, p))
        /\ p = IF Match(left[il], rk) THEN ir ELSE Default
  <2>1. CASE Match(left[il], rk)
    BY <1>2, <2>1 DEF Match, Put
  <2>2. CASE ~Match(left[il], rk)
    <3>1. Default \in Nat
      BY DEF Default
    <3>. QED
      BY <1>1, <2>2, <3>1 DEF Body, LeftBefore, RightBefore, Put
  <2>. QED
    BY <2>1, <2>2
<1>. DEFINE row == Row(left[il], il, p)
<1>5. row \in Rows /\ row.l = il /\ row.r = p
  BY <1>1, <1>2 DEF Row, Rows
<1>. HIDE DEF row
<1>6. result' = Append(result, row)
  BY <1>4 DEF row
<1>7. /\ Len(result') = Len(result) + 1 /\ result' \in Seq(Rows)
      /\ \A n \in 1..Len(result) : result'[n] = result[n]
      /\ result'[Len(result) + 1] = row
  BY <1>2, <1>5, <1>6, AppendProperties
<1>8. DOMAIN result' = 1..(Len(result) + 1) /\ DOMAIN result = 1..Len(result)
  BY <1>2, <1>7, LenProperties
<1>9. 1..(Len(result) + 1) = 1..Len(result) \cup {Len(result) + 1}
  BY <1>2
<1>. QED
  BY <1>1, <1>2, <1>3, <1>4, <1>5, <1>7, <1>8, <1>9

\* The left row at the cursor gets one more row, the others none.
LEMMA OneMore ==
  ASSUME IInv, RowsInv, Iterate, Ordered, ~wild'
  PROVE  /\ Cardinality(InsertedFor(il)) \in Nat
         /\ \A i : i = il =>
              Cardinality({n \in DOMAIN result' : result'[n].l = i})
                = Cardinality(InsertedFor(il)) + 1
         /\ \A i : i # il => {n \in DOMAIN result' : result'[n].l = i} = InsertedFor(i)
<1>. DEFINE new == Len(result) + 1
<1>1. /\ Len(result) \in Nat /\ DOMAIN result = 1..Len(result)
      /\ DOMAIN result' = DOMAIN result \cup {new}
      /\ \A n \in DOMAIN result : result'[n] = result[n]
      /\ result'[new].l = il
  BY InsideIteration
<1>2. new \notin DOMAIN result
  BY <1>1
<1>. HIDE DEF new
<1>3. {n \in DOMAIN result' : result'[n].l = il} = InsertedFor(il) \cup {new}
  BY <1>1 DEF InsertedFor
<1>4. new \notin InsertedFor(il) /\ IsFiniteSet(InsertedFor(il))
  BY <1>2, Finite DEF InsertedFor, IInv
<1>5. Cardinality(InsertedFor(il) \cup {new}) = Cardinality(InsertedFor(il)) + 1
  BY <1>4, FS_AddElement
<1>6. ASSUME NEW i, i # il
      PROVE  {n \in DOMAIN result' : result'[n].l = i} = InsertedFor(i)
  BY <1>1, <1>6 DEF InsertedFor
<1>. QED
  BY <1>3, <1>4, <1>5, <1>6, FS_CardinalityType

\* The left cursor moves on when every right row that can be skipped for its row has been.
LEMMA AllPassed ==
  ASSUME IInv, RowsInv, Iterate, Ordered, ~wild', il' = il + 1
  PROVE  SkippedAt(il) = PassedAt(il)
<1>1. /\ il \in DOMAIN left /\ ir \in DOMAIN right /\ Body(left[il], right[ir])
  BY InsideIteration
<1>2. /\ DOMAIN left = 1..Len(left) /\ DOMAIN right = 1..Len(right)
      /\ Len(right) \in Nat /\ il \in Nat /\ ir \in Nat
      /\ \A i \in DOMAIN left : left[i] \in Int
      /\ \A j \in DOMAIN right : right[j] \in Int
  BY ColumnsTyped DEF IInv
<1>3. ir = Len(right) \/ ~(right[ir] < left[il])
  BY <1>1, <1>2 DEF Body, LeftBefore, RightBefore, Match
<1>4. ASSUME NEW j \in SkippedAt(il) PROVE j < ir
  <2>1. j \in 1..(Len(right) - 1) /\ right[j] < left[il]
    BY DEF SkippedAt
  <2>2. j \in DOMAIN right /\ j < Len(right) /\ j \in Nat
    BY <1>2, <2>1
  <2>3. ir < j => right[ir] < right[j]
    BY <1>1, <2>2 DEF Ordered, StrictlySorted
  <2>4. right[ir] \in Int /\ right[j] \in Int /\ left[il] \in Int
    BY <1>1, <1>2, <2>2
  <2>5. CASE ir = Len(right)
    BY <2>2, <2>5
  <2>6. CASE ~(right[ir] < left[il])
    <3>1. j # ir
      BY <2>1, <2>6
    <3>2. ~(ir < j)
      BY <2>1, <2>3, <2>4, <2>6
    <3>. QED
      BY <1>2, <2>2, <3>1, <3>2
  <2>. QED
    BY <1>3, <2>5, <2>6
<1>. QED
  BY <1>4 DEF PassedAt

\* A skip adds the right row to those passed at the left row.
LEMMA SkipPasses ==
  ASSUME IInv, RowsInv, Iterate, Ordered, ~wild', il' = il
  PROVE  /\ ir' = ir + 1 /\ right[ir] < left[il] /\ ir < Len(right)
         /\ Cardinality({j \in SkippedAt(il) : j < ir'}) = Cardinality(PassedAt(il)) + 1
<1>1. /\ il \in DOMAIN left /\ ir \in DOMAIN right /\ Body(left[il], right[ir]) /\ ~wild
  BY InsideIteration
<1>2. /\ DOMAIN left = 1..Len(left) /\ DOMAIN right = 1..Len(right)
      /\ Len(right) \in Nat /\ Len(left) \in Nat /\ il \in Nat /\ ir \in Nat
  BY ColumnsTyped DEF IInv
<1>3. ir' = ir + 1 /\ right[ir] < left[il] /\ ir # Len(right)
  BY <1>1, <1>2 DEF Body, LeftBefore, RightBefore, Match
<1>4. ir < Len(right) /\ ir \in 1..(Len(right) - 1)
  BY <1>1, <1>2, <1>3
<1>5. ir \in SkippedAt(il)
  <2>1. \A h \in 1..(il - 1) : h \in DOMAIN left /\ h < il
    BY <1>1, <1>2
  <2>2. \A h \in DOMAIN left : h < il => left[h] < right[ir]
    BY <1>1, <1>4 DEF RowsInv, Interleaved
  <2>. QED
    BY <1>3, <1>4, <2>1, <2>2 DEF SkippedAt
<1>6. ir \in Int /\ ir' = ir + 1
  <2>1. ir \in Int
    BY <1>2
  <2>. QED
    BY <1>3, <2>1
<1>7. {j \in SkippedAt(il) : j < ir'} = PassedAt(il) \cup {ir}
  <2>1. ASSUME NEW j \in SkippedAt(il)
        PROVE  j < ir' <=> j < ir \/ j = ir
    <3>1. j \in Int
      BY DEF SkippedAt
    <3>. QED
      BY <1>6, <3>1
  <2>2. {j \in SkippedAt(il) : j < ir'} = {j \in SkippedAt(il) : j < ir \/ j = ir}
    BY <2>1
  <2>. QED
    BY <1>5, <2>2 DEF PassedAt
<1>8. ir \notin PassedAt(il)
  BY <1>2 DEF PassedAt
<1>9. IsFiniteSet(PassedAt(il))
  BY Finite DEF IInv
<1>. QED
  BY <1>3, <1>4, <1>7, <1>8, <1>9, FS_AddElement

\* For the row the left cursor moves to, nothing has been inserted or skipped.
LEMMA NothingForNext ==
  ASSUME IInv, RowsInv, Iterate, Ordered, ~wild', il' = il + 1, il' \in DOMAIN left
  PROVE  /\ {n \in DOMAIN result' : result'[n].l = il'} = {}
         /\ {j \in SkippedAt(il') : j < ir'} = {}
         /\ \A j \in DOMAIN right : j < ir' => right[j] < left[il']
<1>1. /\ il \in DOMAIN left /\ ir \in DOMAIN right /\ Body(left[il], right[ir]) /\ ~wild
  BY InsideIteration
<1>2. /\ DOMAIN left = 1..Len(left) /\ DOMAIN right = 1..Len(right)
      /\ Len(right) \in Nat /\ Len(left) \in Nat /\ il \in Nat /\ ir \in Nat
      /\ \A i \in DOMAIN left : left[i] \in Int
      /\ \A j \in DOMAIN right : right[j] \in Int
  BY ColumnsTyped DEF IInv
<1>3. InsertedFor(il') = {}
  <2>1. \A n \in DOMAIN result : result[n].l <= il /\ result[n].l \in Int
    BY DEF IInv, Kept, InRange
  <2>2. \A n \in DOMAIN result : result[n].l # il'
    BY <1>2, <2>1
  <2>. QED
    BY <2>2 DEF InsertedFor
<1>4. {n \in DOMAIN result' : result'[n].l = il'} = {}
  <2>1. il' # il
    BY <1>2
  <2>. QED
    BY <1>3, <2>1, OneMore
<1>5. ASSUME NEW j \in DOMAIN right, j < ir'
      PROVE  right[j] <= left[il]
  <2>1. CASE j < ir
    BY <1>1, <1>2, <2>1 DEF RowsInv, Interleaved
  <2>2. CASE ~(j < ir)
    <3>1. ir' = ir + 1 /\ j = ir
      BY <1>1, <1>2, <1>5, <2>2 DEF Body, LeftBefore, RightBefore, Match
    <3>2. ~(left[il] < right[ir])
      BY <1>1, <1>2, <3>1 DEF Body, LeftBefore, RightBefore, Match
    <3>. QED
      BY <1>1, <1>2, <3>1, <3>2
  <2>. QED
    BY <2>1, <2>2
<1>6. left[il] < left[il']
  BY <1>1, <1>2 DEF Ordered, StrictlySorted
<1>7. ASSUME NEW j \in SkippedAt(il'), j < ir'
      PROVE  FALSE
  <2>1. j \in 1..(Len(right) - 1) /\ \A h \in 1..(il' - 1) : left[h] < right[j]
    BY <1>7 DEF SkippedAt
  <2>2. j \in DOMAIN right /\ il \in 1..(il' - 1)
    BY <1>1, <1>2, <2>1
  <2>. QED
    BY <1>1, <1>2, <1>5, <1>7, <2>1, <2>2
<1>8. ASSUME NEW j \in DOMAIN right, j < ir'
      PROVE  right[j] < left[il']
  BY <1>1, <1>2, <1>5, <1>6, <1>8
<1>. QED
  BY <1>4, <1>7, <1>8

\* An iteration counts on.
LEMMA IterateCounted ==
  ASSUME IInv, RowsInv, Iterate, Ordered, ~wild'
  PROVE  Counted'
<1>1. /\ il \in DOMAIN left /\ ~wild /\ left' = left /\ right' = right
      /\ il' = il \/ il' = il + 1
  BY InsideIteration DEF Iterate, Body, LeftBefore, RightBefore, Match
<1>2. \A i : SkippedAt(i)' = SkippedAt(i)
  BY <1>1 DEF SkippedAt
<1>3. \A i : InsertedFor(i)' = {n \in DOMAIN result' : result'[n].l = i}
  BY DEF InsertedFor
<1>4. PassedAt(il)' = {j \in SkippedAt(il') : j < ir'}
  BY <1>1 DEF PassedAt, SkippedAt
<1>5. Counted
  BY <1>1 DEF RowsInv
<1>6. il \in Nat /\ DOMAIN left = 1..Len(left)
  BY ColumnsTyped DEF IInv
<1>7. ASSUME NEW i \in DOMAIN left, i < il'
      PROVE  Cardinality({n \in DOMAIN result' : result'[n].l = i}) = Cardinality(SkippedAt(i)) + 1
  <2>1. CASE i < il
    <3>1. i # il
      BY <1>6, <2>1
    <3>. QED
      BY <1>5, <2>1, <3>1, OneMore DEF Counted
  <2>2. CASE i = il
    <3>1. il' = il + 1
      BY <1>1, <1>6, <1>7, <2>2
    <3>2. Cardinality(InsertedFor(il)) = Cardinality(SkippedAt(il))
      BY <1>1, <1>5, <3>1, AllPassed DEF Counted
    <3>. QED
      BY <2>2, <3>2, OneMore
  <2>. QED
    BY <1>1, <1>6, <1>7, <2>1, <2>2
<1>8. ASSUME il' \in DOMAIN left
      PROVE  Cardinality({n \in DOMAIN result' : result'[n].l = il'})
               = Cardinality({j \in SkippedAt(il') : j < ir'})
  <2>1. CASE il' = il
    <3>1. Cardinality({n \in DOMAIN result' : result'[n].l = il'})
            = Cardinality(InsertedFor(il)) + 1
      BY <2>1, OneMore
    <3>2. Cardinality(InsertedFor(il)) = Cardinality(PassedAt(il))
      BY <1>1, <1>5 DEF Counted
    <3>3. Cardinality({j \in SkippedAt(il') : j < ir'}) = Cardinality(PassedAt(il)) + 1
      BY <2>1, SkipPasses
    <3>. QED
      BY <3>1, <3>2, <3>3
  <2>2. CASE il' = il + 1
    BY <1>8, <2>2, NothingForNext
  <2>. QED
    BY <1>1, <2>1, <2>2
<1>. QED
  BY <1>1, <1>2, <1>3, <1>4, <1>7, <1>8 DEF Counted, InsertedFor, PassedAt

\* An iteration keeps the two series interleaved.
LEMMA IterateInterleaved ==
  ASSUME IInv, RowsInv, Iterate, Ordered, ~wild'
  PROVE  Interleaved'
<1>1. /\ il \in DOMAIN left /\ ir \in DOMAIN right /\ ~wild
      /\ Body(left[il], right[ir]) /\ left' = left /\ right' = right
      /\ il' = il \/ il' = il + 1
      /\ ir' = ir \/ ir' = ir + 1
  BY InsideIteration DEF Iterate, Body, LeftBefore, RightBefore, Match
<1>2. /\ DOMAIN left = 1..Len(left) /\ DOMAIN right = 1..Len(right)
      /\ Len(right) \in Nat /\ Len(left) \in Nat /\ il \in Nat /\ ir \in Nat
      /\ \A i \in DOMAIN left : left[i] \in Int
      /\ \A j \in DOMAIN right : right[j] \in Int
  BY ColumnsTyped DEF IInv
<1>3. /\ \A j \in DOMAIN right : j < ir => right[j] < left[il]
      /\ ir < Len(right) => \A h \in DOMAIN left : h < il => left[h] < right[ir]
  BY <1>1 DEF RowsInv, Interleaved
<1>4. ASSUME il' \in DOMAIN left, NEW j \in DOMAIN right, j < ir'
      PROVE  right[j] < left[il']
  <2>1. CASE il' = il
    <3>1. ir' = ir + 1 /\ right[ir] < left[il]
      BY <2>1, SkipPasses
    <3>2. j < ir \/ j = ir
      BY <1>2, <1>4, <3>1
    <3>. QED
      BY <1>3, <2>1, <3>1, <3>2
  <2>2. CASE il' = il + 1
    BY <1>4, <2>2, NothingForNext
  <2>. QED
    BY <1>1, <2>1, <2>2
<1>5. ASSUME ir' < Len(right), NEW h \in DOMAIN left, h < il'
      PROVE  left[h] < right[ir']
  <2>1. ir < Len(right) /\ ir' \in DOMAIN right
    BY <1>1, <1>2, <1>5
  <2>2. left[h] <= right[ir]
    <3>1. CASE h < il
      BY <1>1, <1>2, <1>3, <2>1, <3>1
    <3>2. CASE ~(h < il)
      <4>1. il' = il + 1 /\ h = il
        BY <1>1, <1>2, <1>5, <3>2
      <4>2. ~(right[ir] < left[il])
        BY <1>1, <1>2, <2>1, <4>1 DEF Body, LeftBefore, RightBefore, Match
      <4>. QED
        BY <1>1, <1>2, <4>1, <4>2
    <3>. QED
      BY <3>1, <3>2
  <2>3. CASE ir' = ir + 1
    <3>1. right[ir] < right[ir']
      BY <1>1, <1>2, <2>1, <2>3 DEF Ordered, StrictlySorted
    <3>. QED
      BY <1>1, <1>2, <2>1, <2>2, <3>1
  <2>4. CASE ir' = ir
    <3>1. il' = il + 1 /\ left[il] < right[ir]
      BY <1>1, <1>2, <2>1, <2>4 DEF Body, LeftBefore, RightBefore, Match
    <3>2. h < il \/ h = il
      BY <1>2, <1>5, <3>1
    <3>. QED
      BY <1>3, <2>1, <2>4, <3>1, <3>2
  <2>. QED
    BY <1>1, <2>3, <2>4
<1>. QED
  BY <1>1, <1>4, <1>5 DEF Interleaved

\* An iteration finds a match when the left row is passed.
LEMMA IterateMatches ==
  ASSUME IInv, RowsInv, Iterate, Ordered, ~wild'
  PROVE  MatchesFound'
<1>. DEFINE new == Len(result) + 1
<1>1. /\ il \in DOMAIN left /\ ir \in DOMAIN right /\ ~wild
      /\ Body(left[il], right[ir]) /\ left' = left /\ right' = right
      /\ il' = il \/ il' = il + 1
      /\ DOMAIN result' = DOMAIN result \cup {new}
      /\ \A n \in DOMAIN result : result'[n] = result[n]
      /\ result'[new].l = il
      /\ Match(left[il], right[ir]) => result'[new].r = ir
      /\ ~Match(left[il], right[ir]) => result'[new].r = Default
  BY InsideIteration DEF Iterate, Body, LeftBefore, RightBefore, Match
<1>. HIDE DEF new
<1>2. /\ DOMAIN left = 1..Len(left) /\ DOMAIN right = 1..Len(right)
      /\ Len(right) \in Nat /\ Len(left) \in Nat /\ il \in Nat /\ ir \in Nat
      /\ \A i \in DOMAIN left : left[i] \in Int
      /\ \A j \in DOMAIN right : right[j] \in Int
  BY ColumnsTyped DEF IInv
<1>3. MatchesFound /\ Interleaved
  BY <1>1 DEF RowsInv
<1>4. ASSUME NEW n \in DOMAIN result', result'[n].r # Default
      PROVE  result'[n].r \in DOMAIN right /\ left[result'[n].l] = right[result'[n].r]
  <2>1. CASE n \in DOMAIN result
    BY <1>1, <1>3, <1>4, <2>1 DEF MatchesFound
  <2>2. CASE n = new
    <3>1. Match(left[il], right[ir]) /\ result'[new].r = ir
      BY <1>1, <1>4, <2>2
    <3>2. left[il] = right[ir]
      BY <1>1, <1>2, <3>1 DEF Match
    <3>. QED
      BY <1>1, <2>2, <3>1, <3>2
  <2>. QED
    BY <1>1, <2>1, <2>2
<1>5. ASSUME NEW i \in DOMAIN left, NEW j \in DOMAIN right, left[i] = right[j], i < il'
      PROVE  \E n \in DOMAIN result' : result'[n].l = i /\ result'[n].r = j
  <2>1. CASE i < il
    <3>1. PICK n \in DOMAIN result : result[n].l = i /\ result[n].r = j
      BY <1>3, <1>5, <2>1 DEF MatchesFound, Matched
    <3>. QED
      BY <1>1, <3>1
  <2>2. CASE ~(i < il)
    <3>1. il' = il + 1 /\ i = il
      BY <1>1, <1>2, <1>5, <2>2
    <3>2. ~(j < ir)
      BY <1>1, <1>2, <1>3, <1>5, <3>1 DEF Interleaved
    <3>3. ~(ir < j)
      <4>. SUFFICES ASSUME ir < j PROVE FALSE
        OBVIOUS
      <4>1. right[ir] < left[il]
        BY <1>1, <1>5, <3>1 DEF Ordered, StrictlySorted
      <4>2. ir # Len(right)
        <5>1. j \in Nat /\ j <= Len(right) /\ ir \in Nat /\ Len(right) \in Nat
          BY <1>2
        <5>. QED
          BY <5>1
      <4>. QED
        BY <1>1, <1>2, <3>1, <4>1, <4>2 DEF Body, LeftBefore, RightBefore, Match
    <3>4. j = ir
      BY <1>2, <3>2, <3>3
    <3>5. Match(left[il], right[ir])
      BY <1>1, <1>2, <1>5, <3>1, <3>4 DEF Body, LeftBefore, RightBefore
    <3>. QED
      BY <1>1, <3>1, <3>4, <3>5
  <2>. QED
    BY <2>1, <2>2
<1>. QED
  BY <1>1, <1>4, <1>5 DEF MatchesFound, Matched

\* Inside the columns the counts are right throughout the loop.
LEMMA RowsInvariance == Spec => [](IInv /\ RowsInv)
<1>1. Init => RowsInv
  <2>. SUFFICES ASSUME Init PROVE Counted /\ Interleaved /\ MatchesFound
    BY DEF RowsInv
  <2>1. /\ left \in Seq(Key) /\ right \in Seq(Key) /\ DOMAIN result = {}
    BY InputsAssumption, EmptySeq DEF Init
  <2>2. /\ \A i \in DOMAIN left : ~(i < 1)
        /\ \A j \in DOMAIN right : ~(j < 1)
    BY <2>1, LenProperties
  <2>3. InsertedFor(1) = {} /\ PassedAt(1) = {}
    <3>1. \A j \in SkippedAt(1) : ~(j < 1)
      BY DEF SkippedAt
    <3>. QED
      BY <2>1, <3>1 DEF InsertedFor, PassedAt, Init
  <2>. QED
    BY <2>1, <2>2, <2>3 DEF Counted, Interleaved, MatchesFound, Init
<1>2. IInv /\ RowsInv /\ [Next]_vars => RowsInv'
  <2>. SUFFICES ASSUME IInv, RowsInv, [Next]_vars PROVE RowsInv'
    OBVIOUS
  <2>1. CASE Iterate
    <3>. SUFFICES ASSUME Ordered, ~wild' PROVE Counted' /\ Interleaved' /\ MatchesFound'
      BY <2>1 DEF RowsInv, Ordered, StrictlySorted, Iterate
    <3>. QED
      BY <2>1, IterateCounted, IterateInterleaved, IterateMatches
  <2>2. CASE Crash
    BY <2>2 DEF Crash, Die, RowsInv
  <2>3. CASE Finish \/ Stopped \/ UNCHANGED vars
    <3>1. /\ left' = left /\ right' = right /\ il' = il /\ ir' = ir
          /\ result' = result /\ (wild' <=> wild)
      BY <2>3 DEF Finish, Return, Stopped, vars
    <3>2. Counted' <=> Counted
      BY <3>1 DEF Counted, InsertedFor, PassedAt, SkippedAt
    <3>3. Interleaved' <=> Interleaved
      BY <3>1 DEF Interleaved
    <3>4. MatchesFound' <=> MatchesFound
      BY <3>1 DEF MatchesFound, Matched
    <3>5. Ordered' <=> Ordered
      BY <3>1 DEF Ordered, StrictlySorted
    <3>. QED
      BY <3>1, <3>2, <3>3, <3>4, <3>5 DEF RowsInv
  <2>. QED
    BY <2>1, <2>2, <2>3 DEF Next
<1>. QED
  BY <1>1, <1>2, InitIInv, NextIInv, PTL DEF Spec

\* How many rows cross_apply_left inserts for each left row of increasing series, if it
\* stays inside the columns, and that those with a right value are the inner join.
THEOREM RowsCounted == Spec => []RowsPerLeftRow
<1>1. IInv /\ RowsInv => RowsPerLeftRow
  <2>. SUFFICES ASSUME IInv, RowsInv, pc = "done", ~wild, Ordered
                PROVE  /\ \A i \in DOMAIN left :
                            Cardinality({n \in DOMAIN result : result[n].l = i})
                              = 1 + Cardinality(SkippedAt(i))
                       /\ MatchedRows = {pair \in (DOMAIN left) \X (DOMAIN right) :
                                           left[pair[1]] = right[pair[2]]}
    BY DEF RowsPerLeftRow, Ordered
  <2>1. /\ DOMAIN left = 1..Len(left) /\ Len(left) \in Nat /\ il = Len(left) + 1
        /\ DOMAIN right = 1..Len(right)
    BY ColumnsTyped DEF IInv, Continue, End
  <2>2. \A i \in DOMAIN left : i < il
    BY <2>1
  <2>3. ASSUME NEW i \in DOMAIN left
        PROVE  Cardinality({n \in DOMAIN result : result[n].l = i})
                 = 1 + Cardinality(SkippedAt(i))
    <3>1. Cardinality(InsertedFor(i)) = Cardinality(SkippedAt(i)) + 1
      BY <2>2 DEF RowsInv, Counted
    <3>2. Cardinality(SkippedAt(i)) \in Nat
      BY Finite, FS_CardinalityType DEF IInv
    <3>3. Cardinality(SkippedAt(i)) + 1 = 1 + Cardinality(SkippedAt(i))
      BY <3>2
    <3>. QED
      BY <3>1, <3>3 DEF InsertedFor
  <2>4. ASSUME NEW pair \in MatchedRows
        PROVE  /\ pair \in (DOMAIN left) \X (DOMAIN right)
               /\ left[pair[1]] = right[pair[2]]
    <3>1. PICK n \in DOMAIN result :
            result[n].r # Default /\ pair = <<result[n].l, result[n].r>>
      BY DEF MatchedRows
    <3>2. result[n].l \in DOMAIN left
      BY <2>1 DEF IInv, Kept, InRange
    <3>3. result[n].r \in DOMAIN right /\ left[result[n].l] = right[result[n].r]
      BY <3>1 DEF RowsInv, MatchesFound
    <3>. QED
      BY <3>1, <3>2, <3>3
  <2>5. ASSUME NEW i \in DOMAIN left, NEW j \in DOMAIN right, left[i] = right[j]
        PROVE  <<i, j>> \in MatchedRows
    <3>1. PICK n \in DOMAIN result : result[n].l = i /\ result[n].r = j
      BY <2>2, <2>5 DEF RowsInv, MatchesFound, Matched
    <3>2. j # Default
      BY <2>1 DEF Default
    <3>. QED
      BY <3>1, <3>2 DEF MatchedRows
  <2>. QED
    BY <2>3, <2>4, <2>5
<1>. QED
  BY <1>1, RowsInvariance, PTL
-----------------------------------------------------------------------------
(* Progress: that a fair loop ends is left to TLC; that every iteration brings the end *)
(* nearer, and where a crash cannot come from, is proved here.                         *)

\* A program that died had read outside a column.
LEMMA FaultsAreWild == Spec => []((pc = "fault" => wild) /\ IInv)
<1>. DEFINE Fault == pc = "fault" => wild
<1>1. Init => Fault
  BY DEF Init
<1>2. ASSUME Fault, [Next]_vars PROVE Fault'
  <2>1. CASE Iterate
    BY <1>2, <2>1 DEF Iterate, ReadBoth
  <2>2. CASE Crash
    BY <2>2 DEF Crash, Die
  <2>3. CASE Finish
    BY <2>3 DEF Finish, Return
  <2>4. CASE UNCHANGED vars
    BY <1>2, <2>4 DEF vars
  <2>. QED
    BY <1>2, <2>1, <2>2, <2>3, <2>4 DEF Next, Stopped
<1>. QED
  BY <1>1, <1>2, Invariance, PTL DEF Spec

\* A left join of increasing series does not crash unless left rows follow the match of
\* the last right row, or there is no right row.
THEOREM NeverDiesInside == Spec => [](Ordered /\ ~RunsPastRight => pc # "fault")
<1>1. IInv /\ (pc = "fault" => wild) => (Ordered /\ ~RunsPastRight => pc # "fault")
  BY DEF IInv, PastRight
<1>. QED
  BY <1>1, FaultsAreWild, PTL

\* Of any two series, every iteration moves a cursor, and none moves beyond the memory
\* that can be read: the loop of cross_apply_left cannot go on forever.
THEOREM EachIterationAdvances ==
  Spec => [][Iterate => /\ il + ir < il' + ir'
                        /\ il' <= End(left) /\ ir' <= End(right) + Slack]_vars
<1>1. ASSUME IInv, IInv', Iterate
      PROVE  il + ir < il' + ir' /\ il' <= End(left) /\ ir' <= End(right) + Slack
  <2>1. il \in Nat /\ ir \in Nat
    BY <1>1, ColumnsTyped DEF IInv
  <2>2. \/ il' = il + 1 /\ ir' = ir
        \/ il' = il /\ ir' = ir + 1
        \/ il' = il + 1 /\ ir' = ir + 1
    BY <1>1 DEF Iterate, Body, LeftBefore, RightBefore, Match
  <2>3. left' = left /\ right' = right
    BY <1>1 DEF Iterate
  <2>4. Len(left) \in Nat /\ Len(right) \in Nat /\ Slack \in Nat
    BY <1>1, ColumnsTyped, SlackAssumption DEF IInv
  <2>5. il' \in 1..End(left) /\ ir' \in 1..(End(right) + Slack)
    BY <1>1, <2>3 DEF IInv, TypeOK, End
  <2>6. il + ir < il' + ir'
    BY <2>1, <2>2
  <2>7. End(left) \in Int /\ End(right) + Slack \in Int
    BY <2>4 DEF End
  <2>. QED
    BY <2>5, <2>6, <2>7
<1>. QED
  BY <1>1, Invariance, PTL
=============================================================================
