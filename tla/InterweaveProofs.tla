-------------------------- MODULE InterweaveProofs --------------------------
(***************************************************************************)
(* Theorems about interweave, for series of any length and any keys: what  *)
(* it merges, and when it returns.                                         *)
(***************************************************************************)
EXTENDS Interweave, SequenceTheorems, TLAPS

BothSorted == StrictlySorted(left) /\ StrictlySorted(right)

Inside == il <= End(left) /\ ir <= End(right)

\* What the one cursor has passed comes before what the other has not.
Ordered ==
  \A p \in DOMAIN left, q \in DOMAIN right :
    /\ p < il /\ ir <= q => left[p] < right[q]
    /\ q < ir /\ il <= p => right[q] < left[p]

BothAtEnd == il = End(left) /\ ir = End(right)

Beyond == il > End(left) \/ ir > End(right)

IInv ==
  /\ TypeOK
  /\ MergedSoFar
  /\ ~wild => Inside
  /\ ~wild /\ BothSorted => Ordered /\ (BothAtEnd => EndTogether)
  /\ wild /\ BothSorted => ~EndTogether
  /\ wild => Beyond \/ pc = "fault"
  /\ pc = "done" => ~Continue

-----------------------------------------------------------------------------
\* The types of what a step reads.
LEMMA Typed ==
  ASSUME TypeOK
  PROVE  /\ left \in Seq(Key) /\ right \in Seq(Key)
         /\ Len(left) \in Nat /\ Len(right) \in Nat
         /\ DOMAIN left = 1..Len(left) /\ DOMAIN right = 1..Len(right)
         /\ il \in Nat \ {0} /\ ir \in Nat \ {0}
         /\ End(left) = Len(left) + 1 /\ End(right) = Len(right) + 1
         /\ \A p \in DOMAIN left : left[p] \in Key /\ left[p] \in Int
         /\ \A p \in DOMAIN right : right[p] \in Key /\ right[p] \in Int
         /\ result \in Seq([key : Key, l : Nat, r : Nat])
<1>1. left \in Seq(Key) /\ right \in Seq(Key)
  BY InputsAssumption DEF TypeOK, LoopTypeOK
<1>2. /\ Len(left) \in Nat /\ Len(right) \in Nat
      /\ DOMAIN left = 1..Len(left) /\ DOMAIN right = 1..Len(right)
  BY <1>1, LenProperties
<1>3. /\ \A p \in DOMAIN left : left[p] \in Key /\ left[p] \in Int
      /\ \A p \in DOMAIN right : right[p] \in Key /\ right[p] \in Int
  <2>1. \A p \in 1..Len(left) : left[p] \in Key
    BY <1>1, LenProperties
  <2>2. \A p \in 1..Len(right) : right[p] \in Key
    BY <1>1, LenProperties
  <2>. QED
    BY <1>2, <2>1, <2>2, KeyAssumption
<1>4. il \in Nat \ {0} /\ ir \in Nat \ {0}
  BY DEF TypeOK, LoopTypeOK
<1>. QED
  BY <1>1, <1>2, <1>3, <1>4 DEF End, TypeOK, LoopTypeOK

\* The invariant holds when the loop is entered.
LEMMA InitIInv == Init => IInv
<1>. SUFFICES ASSUME Init PROVE IInv
  OBVIOUS
<1>1. left \in Seq(Key) /\ right \in Seq(Key)
  BY InputsAssumption DEF Init
<1>2. Len(left) \in Nat /\ Len(right) \in Nat
  BY <1>1, LenProperties
<1>3. TypeOK
  <2>1. 1 \in 1..(End(left) + Slack) /\ 1 \in 1..(End(right) + Slack)
    BY <1>2, SlackAssumption DEF End
  <2>2. result \in Seq([key : Key, l : Nat, r : Nat])
    BY EmptySeq DEF Init
  <2>. QED
    BY <2>1, <2>2 DEF Init, TypeOK, LoopTypeOK
<1>4. MergedSoFar
  <2>1. DOMAIN result = {}
    BY EmptySeq DEF Init
  <2>2. FirstKeys(left, il - 1) = {} /\ FirstKeys(right, ir - 1) = {}
    <3>1. \A p \in 1..Len(left) : ~(p <= 1 - 1)
      BY <1>2
    <3>2. \A p \in 1..Len(right) : ~(p <= 1 - 1)
      BY <1>2
    <3>. QED
      BY <1>1, <3>1, <3>2, LenProperties DEF FirstKeys, Init
  <2>. QED
    BY <2>1, <2>2 DEF MergedSoFar
<1>5. Inside /\ Ordered
  <2>1. \A p \in 1..Len(left) : ~(p < 1)
    BY <1>2
  <2>2. \A p \in 1..Len(right) : ~(p < 1)
    BY <1>2
  <2>3. Ordered
    BY <1>1, <2>1, <2>2, LenProperties DEF Ordered, Init
  <2>. QED
    BY <1>2, <2>3 DEF Inside, End, Init
<1>6. BothAtEnd => EndTogether
  <2>1. BothAtEnd => Len(left) = 0 /\ Len(right) = 0
    BY <1>2 DEF BothAtEnd, End, Init
  <2>. QED
    BY <1>1, <2>1, EmptySeq DEF EndTogether
<1>. QED
  BY <1>3, <1>4, <1>5, <1>6 DEF IInv, Init

\* If one cursor is at the end of its series and the other is not, the rows left are
\* beyond the last key of the ended series.
LEMMA OneEndsFirst ==
  ASSUME IInv, Continue, ~wild, BothSorted, ~InRange(left, il) \/ ~InRange(right, ir)
  PROVE  ~EndTogether
<1>1. /\ Len(left) \in Nat /\ Len(right) \in Nat
      /\ DOMAIN left = 1..Len(left) /\ DOMAIN right = 1..Len(right)
      /\ il \in Nat \ {0} /\ ir \in Nat \ {0}
      /\ End(left) = Len(left) + 1 /\ End(right) = Len(right) + 1
      /\ \A p \in DOMAIN left : left[p] \in Int
      /\ \A p \in DOMAIN right : right[p] \in Int
      /\ left \in Seq(Key) /\ right \in Seq(Key)
  BY Typed DEF IInv
<1>2. Inside /\ Ordered
  BY DEF IInv
<1>3. il <= Len(left) + 1 /\ ir <= Len(right) + 1
  BY <1>1, <1>2 DEF Inside
<1>4. CASE il = Len(left) + 1
  <2>1. ir <= Len(right) /\ Len(right) \in DOMAIN right
    <3>1. ir # Len(right) + 1
      BY <1>1, <1>4 DEF Continue
    <3>. QED
      BY <1>1, <1>3, <3>1
  <2>2. right # <<>>
    BY <1>1, <2>1, EmptySeq
  <2>3. CASE left = <<>>
    BY <2>2, <2>3 DEF EndTogether
  <2>4. CASE left # <<>>
    <3>1. Len(left) \in DOMAIN left /\ Len(left) < il
      BY <1>1, <1>4, <2>4, EmptySeq
    <3>2. left[Len(left)] < right[Len(right)]
      BY <1>2, <2>1, <3>1 DEF Ordered
    <3>3. left[Len(left)] \in Int /\ right[Len(right)] \in Int
      BY <1>1, <2>1, <3>1
    <3>. QED
      BY <2>2, <2>4, <3>2, <3>3 DEF EndTogether
  <2>. QED
    BY <2>3, <2>4
<1>5. CASE il # Len(left) + 1
  <2>1. il <= Len(left) /\ Len(left) \in DOMAIN left /\ ir = Len(right) + 1
    <3>1. InRange(left, il) /\ ir \notin 1..Len(right)
      BY <1>1, <1>3, <1>5 DEF InRange
    <3>. QED
      BY <1>1, <1>3, <1>5, <3>1
  <2>2. left # <<>>
    BY <1>1, <2>1, EmptySeq
  <2>3. CASE right = <<>>
    BY <2>2, <2>3 DEF EndTogether
  <2>4. CASE right # <<>>
    <3>1. Len(right) \in DOMAIN right /\ Len(right) < ir
      BY <1>1, <2>1, <2>4, EmptySeq
    <3>2. right[Len(right)] < left[Len(left)]
      BY <1>2, <2>1, <3>1 DEF Ordered
    <3>3. left[Len(left)] \in Int /\ right[Len(right)] \in Int
      BY <1>1, <2>1, <3>1
    <3>. QED
      BY <2>2, <2>4, <3>2, <3>3 DEF EndTogether
  <2>. QED
    BY <2>3, <2>4
<1>. QED
  BY <1>4, <1>5

\* Once a row that is not there has been read, only the types and the cursors matter.
LEMMA WildIInv ==
  ASSUME IInv, Continue, TypeOK', UNCHANGED <<left, right>>, wild' = TRUE,
         wild \/ ~InRange(left, il) \/ ~InRange(right, ir),
         Beyond' \/ pc' = "fault", pc' # "done"
  PROVE  IInv'
<1>1. BothSorted => ~EndTogether
  BY OneEndsFirst DEF IInv
<1>2. BothSorted' => ~EndTogether'
  BY <1>1 DEF BothSorted, EndTogether, StrictlySorted
<1>3. MergedSoFar'
  BY DEF MergedSoFar
<1>. QED
  BY <1>2, <1>3 DEF IInv

\* A key that a cursor yields, and how far the cursor can have come.
LEMMA Yields ==
  ASSUME NEW s \in Seq(Key), NEW p \in Nat \ {0}, NEW k \in KeyAt(s, p)
  PROVE  k \in Key /\ p <= Len(s) + Slack
<1>1. Len(s) \in Nat /\ \A q \in 1..Len(s) : s[q] \in Key
  BY LenProperties
<1>. QED
  BY <1>1, SlackAssumption DEF KeyAt, InRange

\* A row is inserted and no cursor moves by more than one.
LEMMA PutTyped ==
  ASSUME TypeOK, NEW k \in Key, NEW i \in Nat, NEW j \in Nat, Put(Row(k, i, j)),
         il' = il \/ (il' = il + 1 /\ il <= Len(left) + Slack),
         ir' = ir \/ (ir' = ir + 1 /\ ir <= Len(right) + Slack),
         wild' \in BOOLEAN, UNCHANGED <<left, right, pc>>
  PROVE  TypeOK'
<1>. DEFINE new == Row(k, i, j)
<1>1. new \in [key : Key, l : Nat, r : Nat]
  BY DEF Row
<1>. HIDE DEF new
<1>2. result' \in Seq([key : Key, l : Nat, r : Nat])
  BY <1>1, Typed, AppendProperties DEF Put, new
<1>3. il' \in 1..(End(left) + Slack) /\ il' \in Nat
  BY Typed, SlackAssumption DEF TypeOK, End
<1>4. ir' \in 1..(End(right) + Slack) /\ ir' \in Nat
  BY Typed, SlackAssumption DEF TypeOK, End
<1>. QED
  BY <1>2, <1>3, <1>4 DEF TypeOK, LoopTypeOK, End

\* A row from behind the end of the left series.
LEMMA PastLeftIInv ==
  ASSUME IInv, pc = "loop", Continue, InsertPastLeft, UNCHANGED <<left, right, pc>>
  PROVE  IInv'
<1>1. PICK k \in KeyAt(left, il) : Put(Row(k, il, Default))
  BY DEF InsertPastLeft
<1>2. /\ il = End(left) /\ il' = il + 1 /\ ir' = ir /\ wild' = TRUE
  BY DEF InsertPastLeft
<1>3. /\ left \in Seq(Key) /\ il \in Nat \ {0} /\ Len(left) \in Nat
      /\ End(left) = Len(left) + 1
  BY Typed DEF IInv
<1>4. k \in Key /\ il <= Len(left) + Slack
  BY <1>3, Yields
<1>5. TypeOK'
  BY <1>1, <1>2, <1>3, <1>4, PutTyped DEF IInv, Default
<1>6. ~InRange(left, il) /\ Beyond'
  BY <1>2, <1>3 DEF InRange, Beyond, End
<1>. QED
  BY <1>2, <1>5, <1>6, WildIInv

\* A row from behind the end of the right series.
LEMMA PastRightIInv ==
  ASSUME IInv, pc = "loop", Continue, InsertPastRight, UNCHANGED <<left, right, pc>>
  PROVE  IInv'
<1>1. PICK k \in KeyAt(right, ir) : Put(Row(k, Default, ir))
  BY DEF InsertPastRight
<1>2. /\ ir = End(right) /\ ir' = ir + 1 /\ il' = il /\ wild' = TRUE
  BY DEF InsertPastRight
<1>3. /\ right \in Seq(Key) /\ ir \in Nat \ {0} /\ Len(right) \in Nat
      /\ End(right) = Len(right) + 1
  BY Typed DEF IInv
<1>4. k \in Key /\ ir <= Len(right) + Slack
  BY <1>3, Yields
<1>5. TypeOK'
  BY <1>1, <1>2, <1>3, <1>4, PutTyped DEF IInv, Default
<1>6. ~InRange(right, ir) /\ Beyond'
  BY <1>2, <1>3 DEF InRange, Beyond, End
<1>. QED
  BY <1>2, <1>5, <1>6, WildIInv

\* What a merging step does to the cursors.
LEMMA MergeMoves ==
  ASSUME IInv, pc = "loop", Merge, UNCHANGED <<left, right, pc>>
  PROVE  /\ TypeOK'
         /\ il' >= il /\ ir' >= ir
<1>1. PICK lk \in KeyAt(left, il), rk \in KeyAt(right, ir) :
        TakeRight(lk, rk) \/ TakeLeft(lk, rk) \/ TakeBoth(lk, rk)
  BY DEF Merge
<1>2. /\ TypeOK /\ left \in Seq(Key) /\ right \in Seq(Key)
      /\ il \in Nat \ {0} /\ ir \in Nat \ {0}
  BY Typed DEF IInv
<1>3. lk \in Key /\ il <= Len(left) + Slack /\ rk \in Key /\ ir <= Len(right) + Slack
  BY <1>2, Yields
<1>4. wild' \in BOOLEAN
  BY DEF Merge, ReadBoth
<1>5. CASE TakeRight(lk, rk)
  BY <1>2, <1>3, <1>4, <1>5, PutTyped DEF TakeRight, Default
<1>6. CASE TakeLeft(lk, rk)
  BY <1>2, <1>3, <1>4, <1>6, PutTyped DEF TakeLeft, Default
<1>7. CASE TakeBoth(lk, rk)
  BY <1>2, <1>3, <1>4, <1>7, PutTyped DEF TakeBoth
<1>. QED
  BY <1>1, <1>5, <1>6, <1>7

\* Merging goes on after a row that is not there has been read.
LEMMA MergeWildIInv ==
  ASSUME IInv, pc = "loop", wild, Merge, UNCHANGED <<left, right, pc>>
  PROVE  IInv'
<1>1. TypeOK' /\ il' >= il /\ ir' >= ir
  BY MergeMoves
<1>2. Continue /\ wild' = TRUE
  BY DEF Merge, Continue, ReadBoth
<1>3. Beyond'
  <2>1. Beyond
    BY DEF IInv
  <2>2. il \in Nat /\ ir \in Nat /\ il' \in Nat /\ ir' \in Nat
        /\ End(left) \in Nat /\ End(right) \in Nat
    BY <1>1, Typed DEF IInv, TypeOK, LoopTypeOK
  <2>. QED
    BY <1>1, <2>1, <2>2 DEF Beyond, End
<1>. QED
  BY <1>1, <1>2, <1>3, WildIInv

Passed == FirstKeys(left, il - 1) \cup FirstKeys(right, ir - 1)

\* A row whose key comes after all that was passed is inserted, and its key passed.
LEMMA PutMerged ==
  ASSUME IInv, ~wild, BothSorted, UNCHANGED <<left, right>>,
         NEW k \in Key, NEW i \in Nat, NEW j \in Nat, Put(Row(k, i, j)),
         \A x \in Passed : x < k,
         Passed' = Passed \cup {k},
         i # Default <=> k \in KeysOf(left),
         j # Default <=> k \in KeysOf(right),
         i # Default => left[i] = k,
         j # Default => right[j] = k
  PROVE  MergedSoFar'
<1>. DEFINE new == Row(k, i, j)
<1>1. /\ new \in [key : Key, l : Nat, r : Nat]
      /\ new.key = k /\ new.l = i /\ new.r = j
  BY DEF Row
<1>. HIDE DEF new
<1>2. result \in Seq([key : Key, l : Nat, r : Nat]) /\ Len(result) \in Nat
      /\ DOMAIN result = 1..Len(result)
  BY Typed, LenProperties DEF IInv
<1>3. result' = Append(result, new)
  BY DEF Put, new
<1>4. /\ DOMAIN result' = 1..(Len(result) + 1)
      /\ result'[Len(result) + 1] = new
      /\ \A n \in 1..Len(result) : result'[n] = result[n]
  BY <1>1, <1>2, <1>3, AppendProperties, LenProperties
<1>5. /\ \A m, n \in DOMAIN result : m < n => result[m].key < result[n].key
      /\ {result[n].key : n \in DOMAIN result} = Passed
      /\ \A n \in DOMAIN result :
           /\ result[n].l # Default <=> result[n].key \in KeysOf(left)
           /\ result[n].r # Default <=> result[n].key \in KeysOf(right)
           /\ result[n].l # Default => left[result[n].l] = result[n].key
           /\ result[n].r # Default => right[result[n].r] = result[n].key
  BY DEF IInv, MergedSoFar, BothSorted, Passed
<1>6. ASSUME NEW m \in DOMAIN result', NEW n \in DOMAIN result', m < n
      PROVE  result'[m].key < result'[n].key
  <2>1. m \in 1..Len(result)
    BY <1>2, <1>4, <1>6
  <2>2. CASE n \in 1..Len(result)
    BY <1>2, <1>4, <1>5, <1>6, <2>1, <2>2
  <2>3. CASE n = Len(result) + 1
    <3>1. result[m].key \in Passed
      BY <1>2, <1>5, <2>1
    <3>2. result'[m] = result[m] /\ result'[n] = new
      BY <1>4, <2>1, <2>3
    <3>. QED
      BY <1>1, <3>1, <3>2
  <2>. QED
    BY <1>2, <1>4, <2>2, <2>3
<1>7. {result'[n].key : n \in DOMAIN result'} = Passed'
  <2>1. DOMAIN result' = DOMAIN result \cup {Len(result) + 1}
    BY <1>2, <1>4
  <2>2. \A n \in DOMAIN result : result'[n] = result[n]
    BY <1>2, <1>4
  <2>3. {result'[n].key : n \in DOMAIN result'}
          = {result[n].key : n \in DOMAIN result} \cup {k}
    BY <1>1, <1>4, <2>1, <2>2
  <2>. QED
    BY <1>5, <2>3
<1>8. ASSUME NEW n \in DOMAIN result'
      PROVE  /\ result'[n].l # Default <=> result'[n].key \in KeysOf(left)
             /\ result'[n].r # Default <=> result'[n].key \in KeysOf(right)
             /\ result'[n].l # Default => left[result'[n].l] = result'[n].key
             /\ result'[n].r # Default => right[result'[n].r] = result'[n].key
  <2>1. CASE n \in 1..Len(result)
    BY <1>2, <1>4, <1>5, <2>1
  <2>2. CASE n = Len(result) + 1
    BY <1>1, <1>4, <2>2
  <2>. QED
    BY <1>2, <1>4, <2>1, <2>2
<1>9. /\ KeysOf(left)' = KeysOf(left) /\ KeysOf(right)' = KeysOf(right)
      /\ left' = left /\ right' = right
  BY DEF KeysOf
<1>10. {result'[n].key : n \in DOMAIN result'}
         = FirstKeys(left, il - 1)' \cup FirstKeys(right, ir - 1)'
  BY <1>7 DEF Passed
<1>. QED
  BY <1>6, <1>8, <1>9, <1>10 DEF MergedSoFar

\* The state in which a merging step reads two rows.
LEMMA MergeReads ==
  ASSUME IInv, ~wild, Merge
  PROVE  /\ InRange(left, il) /\ InRange(right, ir)
         /\ il \in DOMAIN left /\ ir \in DOMAIN right
         /\ wild' = wild
         /\ TakeRight(left[il], right[ir]) \/ TakeLeft(left[il], right[ir])
            \/ TakeBoth(left[il], right[ir])
<1>1. /\ il \in Nat \ {0} /\ ir \in Nat \ {0}
      /\ Len(left) \in Nat /\ Len(right) \in Nat
      /\ End(left) = Len(left) + 1 /\ End(right) = Len(right) + 1
      /\ DOMAIN left = 1..Len(left) /\ DOMAIN right = 1..Len(right)
      /\ wild \in BOOLEAN
  BY Typed DEF IInv, TypeOK, LoopTypeOK
<1>2. InRange(left, il) /\ InRange(right, ir)
  BY <1>1 DEF IInv, Inside, Merge, InRange
<1>3. KeyAt(left, il) = {left[il]} /\ KeyAt(right, ir) = {right[ir]}
  BY <1>2 DEF KeyAt
<1>4. wild' = FALSE
  BY <1>2 DEF Merge, ReadBoth
<1>. QED
  BY <1>1, <1>2, <1>3, <1>4 DEF Merge, InRange

\* The keys that have been passed after a cursor was moved past one more row.
LEMMA OneMoreKey ==
  ASSUME NEW s, NEW n \in Nat \ {0}, n \in DOMAIN s, DOMAIN s \subseteq Nat
  PROVE  FirstKeys(s, (n + 1) - 1) = FirstKeys(s, n - 1) \cup {s[n]}
<1>1. \A q \in DOMAIN s : q <= (n + 1) - 1 <=> (q <= n - 1 \/ q = n)
  OBVIOUS
<1>2. {q \in DOMAIN s : q <= (n + 1) - 1} = {q \in DOMAIN s : q <= n - 1} \cup {n}
  BY <1>1
<1>. QED
  BY <1>2 DEF FirstKeys

\* Where two rows stand that the cursors are at: after all that was passed, and each
\* before its own successors.
LEMMA RowsAtCursors ==
  ASSUME IInv, ~wild, BothSorted, il \in DOMAIN left, ir \in DOMAIN right
  PROVE  /\ left[il] \in Int /\ right[ir] \in Int
         /\ \A p \in DOMAIN left : /\ p < il => left[p] < left[il] /\ left[p] < right[ir]
                                   /\ p > il => left[p] > left[il]
                                   /\ left[p] \in Int
         /\ \A q \in DOMAIN right : /\ q < ir => right[q] < left[il] /\ right[q] < right[ir]
                                    /\ q > ir => right[q] > right[ir]
                                    /\ right[q] \in Int
         /\ \A x \in Passed : x < left[il] /\ x < right[ir]
<1>1. /\ DOMAIN left \subseteq Nat /\ DOMAIN right \subseteq Nat
      /\ il \in Nat /\ ir \in Nat
      /\ \A p \in DOMAIN left : left[p] \in Int
      /\ \A q \in DOMAIN right : right[q] \in Int
  BY Typed DEF IInv
<1>2. Ordered
  BY DEF IInv
<1>3. \A p \in DOMAIN left : /\ p < il => left[p] < left[il] /\ left[p] < right[ir]
                             /\ p > il => left[p] > left[il]
  BY <1>1, <1>2 DEF Ordered, BothSorted, StrictlySorted
<1>4. \A q \in DOMAIN right : /\ q < ir => right[q] < left[il] /\ right[q] < right[ir]
                              /\ q > ir => right[q] > right[ir]
  BY <1>1, <1>2 DEF Ordered, BothSorted, StrictlySorted
<1>5. ASSUME NEW x \in FirstKeys(left, il - 1) PROVE x < left[il] /\ x < right[ir]
  <2>1. PICK p \in DOMAIN left : p <= il - 1 /\ x = left[p]
    BY DEF FirstKeys
  <2>2. p < il
    BY <1>1, <2>1
  <2>. QED
    BY <1>3, <2>1, <2>2
<1>6. ASSUME NEW x \in FirstKeys(right, ir - 1) PROVE x < left[il] /\ x < right[ir]
  <2>1. PICK q \in DOMAIN right : q <= ir - 1 /\ x = right[q]
    BY DEF FirstKeys
  <2>2. q < ir
    BY <1>1, <2>1
  <2>. QED
    BY <1>4, <2>1, <2>2
<1>. QED
  BY <1>1, <1>3, <1>4, <1>5, <1>6 DEF Passed

\* The smaller of the two keys is the right one.
LEMMA TakeRightIInv ==
  ASSUME IInv, ~wild, BothSorted, il \in DOMAIN left, ir \in DOMAIN right,
         TakeRight(left[il], right[ir]), UNCHANGED <<left, right>>
  PROVE  MergedSoFar' /\ Ordered' /\ (BothAtEnd' => EndTogether')
<1>1. /\ left[il] \in Int /\ right[ir] \in Int
      /\ \A p \in DOMAIN left : /\ p < il => left[p] < left[il] /\ left[p] < right[ir]
                                /\ p > il => left[p] > left[il]
                                /\ left[p] \in Int
      /\ \A q \in DOMAIN right : /\ q < ir => right[q] < left[il] /\ right[q] < right[ir]
                                 /\ q > ir => right[q] > right[ir]
                                 /\ right[q] \in Int
      /\ \A x \in Passed : x < left[il] /\ x < right[ir]
  BY RowsAtCursors
<1>2. /\ il \in Nat \ {0} /\ ir \in Nat \ {0}
      /\ DOMAIN left \subseteq Nat /\ DOMAIN right \subseteq Nat
      /\ right[ir] \in Key
      /\ DOMAIN left = 1..Len(left) /\ Len(left) \in Nat
  BY Typed DEF IInv
<1>3. /\ left[il] > right[ir] /\ il' = il /\ ir' = ir + 1
      /\ Put(Row(right[ir], Default, ir))
  BY DEF TakeRight
<1>4. Passed' = Passed \cup {right[ir]}
  <2>1. FirstKeys(right, (ir + 1) - 1) = FirstKeys(right, ir - 1) \cup {right[ir]}
    BY <1>2, OneMoreKey
  <2>. QED
    BY <1>3, <2>1 DEF Passed, FirstKeys
<1>5. right[ir] \in KeysOf(right)
  BY DEF KeysOf
<1>6. right[ir] \notin KeysOf(left)
  <2>1. ASSUME NEW p \in DOMAIN left PROVE left[p] # right[ir]
    <3>1. p < il \/ p = il \/ p > il
      BY <1>2
    <3>. QED
      BY <1>1, <1>3, <3>1
  <2>. QED
    BY <2>1 DEF KeysOf
<1>7. MergedSoFar'
  <2>1. 0 \in Nat /\ ir # 0 /\ ir \in Nat
    BY <1>2
  <2>. QED
    BY <1>1, <1>2, <1>3, <1>4, <1>5, <1>6, <2>1, PutMerged DEF Default
<1>8. Ordered'
  <2>1. ASSUME NEW p \in DOMAIN left, NEW q \in DOMAIN right
        PROVE  /\ p < il /\ ir + 1 <= q => left[p] < right[q]
               /\ q < ir + 1 /\ il <= p => right[q] < left[p]
    <3>1. p < il /\ ir + 1 <= q => left[p] < right[q]
      BY <1>2 DEF IInv, Ordered
    <3>2. q < ir /\ il <= p => right[q] < left[p]
      BY <1>2 DEF IInv, Ordered
    <3>3. ASSUME q = ir, il <= p PROVE right[q] < left[p]
      <4>1. p = il \/ p > il
        BY <1>2, <3>3
      <4>. QED
        BY <1>1, <1>3, <3>3, <4>1
    <3>4. q < ir + 1 <=> (q < ir \/ q = ir)
      BY <1>2
    <3>. QED
      BY <3>1, <3>2, <3>3, <3>4
  <2>. QED
    BY <1>3, <2>1 DEF Ordered
<1>9. ~BothAtEnd'
  BY <1>2, <1>3 DEF BothAtEnd, End
<1>. QED
  BY <1>7, <1>8, <1>9

\* It is the left one.
LEMMA TakeLeftIInv ==
  ASSUME IInv, ~wild, BothSorted, il \in DOMAIN left, ir \in DOMAIN right,
         TakeLeft(left[il], right[ir]), UNCHANGED <<left, right>>
  PROVE  MergedSoFar' /\ Ordered' /\ (BothAtEnd' => EndTogether')
<1>1. /\ left[il] \in Int /\ right[ir] \in Int
      /\ \A p \in DOMAIN left : /\ p < il => left[p] < left[il] /\ left[p] < right[ir]
                                /\ p > il => left[p] > left[il]
                                /\ left[p] \in Int
      /\ \A q \in DOMAIN right : /\ q < ir => right[q] < left[il] /\ right[q] < right[ir]
                                 /\ q > ir => right[q] > right[ir]
                                 /\ right[q] \in Int
      /\ \A x \in Passed : x < left[il] /\ x < right[ir]
  BY RowsAtCursors
<1>2. /\ il \in Nat \ {0} /\ ir \in Nat \ {0}
      /\ DOMAIN left \subseteq Nat /\ DOMAIN right \subseteq Nat
      /\ left[il] \in Key
      /\ DOMAIN right = 1..Len(right) /\ Len(right) \in Nat
  BY Typed DEF IInv
<1>3. /\ left[il] < right[ir] /\ il' = il + 1 /\ ir' = ir
      /\ Put(Row(left[il], il, Default))
  BY DEF TakeLeft
<1>4. Passed' = Passed \cup {left[il]}
  <2>1. FirstKeys(left, (il + 1) - 1) = FirstKeys(left, il - 1) \cup {left[il]}
    BY <1>2, OneMoreKey
  <2>. QED
    BY <1>3, <2>1 DEF Passed, FirstKeys
<1>5. left[il] \in KeysOf(left)
  BY DEF KeysOf
<1>6. left[il] \notin KeysOf(right)
  <2>1. ASSUME NEW q \in DOMAIN right PROVE right[q] # left[il]
    <3>1. q < ir \/ q = ir \/ q > ir
      BY <1>2
    <3>. QED
      BY <1>1, <1>3, <3>1
  <2>. QED
    BY <2>1 DEF KeysOf
<1>7. MergedSoFar'
  <2>1. 0 \in Nat /\ il # 0 /\ il \in Nat
    BY <1>2
  <2>. QED
    BY <1>1, <1>2, <1>3, <1>4, <1>5, <1>6, <2>1, PutMerged DEF Default
<1>8. Ordered'
  <2>1. ASSUME NEW p \in DOMAIN left, NEW q \in DOMAIN right
        PROVE  /\ p < il + 1 /\ ir <= q => left[p] < right[q]
               /\ q < ir /\ il + 1 <= p => right[q] < left[p]
    <3>1. q < ir /\ il + 1 <= p => right[q] < left[p]
      BY <1>2 DEF IInv, Ordered
    <3>2. p < il /\ ir <= q => left[p] < right[q]
      BY <1>2 DEF IInv, Ordered
    <3>3. ASSUME p = il, ir <= q PROVE left[p] < right[q]
      <4>1. q = ir \/ q > ir
        BY <1>2, <3>3
      <4>. QED
        BY <1>1, <1>3, <3>3, <4>1
    <3>4. p < il + 1 <=> (p < il \/ p = il)
      BY <1>2
    <3>. QED
      BY <3>1, <3>2, <3>3, <3>4
  <2>. QED
    BY <1>3, <2>1 DEF Ordered
<1>9. ~BothAtEnd'
  BY <1>2, <1>3 DEF BothAtEnd, End
<1>. QED
  BY <1>7, <1>8, <1>9

\* The two keys are equal.
LEMMA TakeBothIInv ==
  ASSUME IInv, ~wild, BothSorted, il \in DOMAIN left, ir \in DOMAIN right,
         TakeBoth(left[il], right[ir]), UNCHANGED <<left, right>>
  PROVE  MergedSoFar' /\ Ordered' /\ (BothAtEnd' => EndTogether')
<1>1. /\ left[il] \in Int /\ right[ir] \in Int
      /\ \A p \in DOMAIN left : /\ p < il => left[p] < left[il] /\ left[p] < right[ir]
                                /\ p > il => left[p] > left[il]
                                /\ left[p] \in Int
      /\ \A q \in DOMAIN right : /\ q < ir => right[q] < left[il] /\ right[q] < right[ir]
                                 /\ q > ir => right[q] > right[ir]
                                 /\ right[q] \in Int
      /\ \A x \in Passed : x < left[il] /\ x < right[ir]
  BY RowsAtCursors
<1>2. /\ il \in Nat \ {0} /\ ir \in Nat \ {0}
      /\ DOMAIN left \subseteq Nat /\ DOMAIN right \subseteq Nat
      /\ left[il] \in Key
      /\ DOMAIN left = 1..Len(left) /\ Len(left) \in Nat
      /\ DOMAIN right = 1..Len(right) /\ Len(right) \in Nat
      /\ left \in Seq(Key) /\ right \in Seq(Key)
  BY Typed DEF IInv
<1>3. /\ left[il] = right[ir] /\ il' = il + 1 /\ ir' = ir + 1
      /\ Put(Row(left[il], il, ir))
  BY <1>1 DEF TakeBoth
<1>4. Passed' = Passed \cup {left[il]}
  <2>1. FirstKeys(left, (il + 1) - 1) = FirstKeys(left, il - 1) \cup {left[il]}
    BY <1>2, OneMoreKey
  <2>2. FirstKeys(right, (ir + 1) - 1) = FirstKeys(right, ir - 1) \cup {left[il]}
    BY <1>2, <1>3, OneMoreKey
  <2>3. Passed' = FirstKeys(left, (il + 1) - 1) \cup FirstKeys(right, (ir + 1) - 1)
    BY <1>3 DEF Passed, FirstKeys
  <2>. QED
    BY <2>1, <2>2, <2>3 DEF Passed
<1>5. left[il] \in KeysOf(left) /\ left[il] \in KeysOf(right)
  BY <1>3 DEF KeysOf
<1>6. MergedSoFar'
  <2>1. il # 0 /\ il \in Nat /\ ir # 0 /\ ir \in Nat
    BY <1>2
  <2>. QED
    BY <1>1, <1>2, <1>3, <1>4, <1>5, <2>1, PutMerged DEF Default
<1>7. Ordered'
  <2>1. ASSUME NEW p \in DOMAIN left, NEW q \in DOMAIN right
        PROVE  /\ p < il + 1 /\ ir + 1 <= q => left[p] < right[q]
               /\ q < ir + 1 /\ il + 1 <= p => right[q] < left[p]
    <3>1. ASSUME p < il + 1, ir + 1 <= q PROVE left[p] < right[q]
      <4>1. q > ir /\ (p < il \/ p = il)
        BY <1>2, <3>1
      <4>2. right[q] > right[ir] /\ (left[p] < right[ir] \/ left[p] = right[ir])
        BY <1>1, <1>3, <4>1
      <4>. QED
        BY <1>1, <4>2
    <3>2. ASSUME q < ir + 1, il + 1 <= p PROVE right[q] < left[p]
      <4>1. p > il /\ (q < ir \/ q = ir)
        BY <1>2, <3>2
      <4>2. left[p] > left[il] /\ (right[q] < left[il] \/ right[q] = left[il])
        BY <1>1, <1>3, <4>1
      <4>. QED
        BY <1>1, <4>2
    <3>. QED
      BY <3>1, <3>2
  <2>. QED
    BY <1>3, <2>1 DEF Ordered
<1>8. ASSUME BothAtEnd' PROVE EndTogether'
  <2>1. il = Len(left) /\ ir = Len(right)
    BY <1>2, <1>3, <1>8 DEF BothAtEnd, End
  <2>2. left # <<>> /\ right # <<>>
    BY <1>2, <2>1, EmptySeq
  <2>. QED
    BY <1>3, <2>1, <2>2 DEF EndTogether
<1>. QED
  BY <1>6, <1>7, <1>8

\* A step of the loop that reads two rows.
LEMMA MergeInsideIInv ==
  ASSUME IInv, pc = "loop", ~wild, Merge, UNCHANGED <<left, right, pc>>
  PROVE  IInv'
<1>1. /\ il \in DOMAIN left /\ ir \in DOMAIN right /\ wild' = wild
      /\ TakeRight(left[il], right[ir]) \/ TakeLeft(left[il], right[ir])
         \/ TakeBoth(left[il], right[ir])
  BY MergeReads
<1>2. TypeOK'
  BY MergeMoves
<1>3. Inside'
  <2>1. /\ il \in 1..Len(left) /\ ir \in 1..Len(right)
        /\ Len(left) \in Nat /\ Len(right) \in Nat
    BY <1>1, Typed DEF IInv
  <2>2. (il' = il \/ il' = il + 1) /\ (ir' = ir \/ ir' = ir + 1)
    BY <1>1 DEF TakeRight, TakeLeft, TakeBoth
  <2>. QED
    BY <2>1, <2>2 DEF Inside, End
<1>4. BothSorted => MergedSoFar' /\ Ordered' /\ (BothAtEnd' => EndTogether')
  BY <1>1, TakeRightIInv, TakeLeftIInv, TakeBothIInv
<1>5. BothSorted' => BothSorted
  BY DEF BothSorted, StrictlySorted
<1>6. ~BothSorted => MergedSoFar'
  BY DEF MergedSoFar, BothSorted, StrictlySorted
<1>. QED
  BY <1>1, <1>2, <1>3, <1>4, <1>5, <1>6 DEF IInv

\* The program dies of a read outside the columns.
LEMMA CrashIInv ==
  ASSUME IInv, Crash
  PROVE  IInv'
<1>1. /\ Continue
      /\ ~InRange(left, il) \/ ~InRange(right, ir)
      /\ pc' = "fault" /\ wild' = TRUE /\ UNCHANGED <<left, right, il, ir, result>>
  BY DEF Crash, Die
<1>2. TypeOK'
  BY <1>1 DEF IInv, TypeOK, LoopTypeOK, End
<1>. QED
  BY <1>1, <1>2, WildIInv

\* The loop returns.
LEMMA FinishIInv ==
  ASSUME IInv, Finish
  PROVE  IInv'
<1>1. /\ ~Continue /\ pc = "loop" /\ pc' = "done"
      /\ UNCHANGED <<left, right, il, ir, result, wild>>
  BY DEF Finish, Return
<1>2. ~wild
  <2>1. il = End(left) /\ ir = End(right) /\ End(left) \in Nat /\ End(right) \in Nat
    BY <1>1, Typed DEF Continue, IInv
  <2>. QED
    BY <1>1, <2>1 DEF IInv, Beyond
<1>3. TypeOK' /\ MergedSoFar' /\ Inside'
  <2>1. TypeOK'
    BY <1>1 DEF IInv, TypeOK, LoopTypeOK, End
  <2>2. Inside'
    BY <1>1, <1>2 DEF IInv, Inside, End
  <2>3. MergedSoFar'
    BY <1>1 DEF IInv, MergedSoFar, StrictlySorted, FirstKeys, KeysOf
  <2>. QED
    BY <2>1, <2>2, <2>3
<1>4. BothSorted' => Ordered' /\ (BothAtEnd' => EndTogether')
  BY <1>1, <1>2 DEF IInv, BothSorted, StrictlySorted, Ordered, BothAtEnd, EndTogether, End
<1>5. ~Continue' /\ ~wild'
  BY <1>1, <1>2 DEF Continue, End
<1>. QED
  BY <1>3, <1>4, <1>5 DEF IInv

\* Every step preserves the invariant.
LEMMA NextIInv == IInv /\ [Next]_vars => IInv'
<1>. SUFFICES ASSUME IInv, [Next]_vars PROVE IInv'
  OBVIOUS
<1>1. CASE UNCHANGED vars
  <2>1. UNCHANGED <<left, right, il, ir, result, pc, wild>>
    BY <1>1 DEF vars
  <2>2. TypeOK' <=> TypeOK
    BY <2>1 DEF TypeOK, LoopTypeOK, End
  <2>3. MergedSoFar' <=> MergedSoFar
    BY <2>1 DEF MergedSoFar, StrictlySorted, FirstKeys, KeysOf
  <2>4. (Inside' <=> Inside) /\ (BothAtEnd' <=> BothAtEnd) /\ (Beyond' <=> Beyond)
        /\ (Continue' <=> Continue)
    BY <2>1 DEF Inside, BothAtEnd, Beyond, Continue, End
  <2>5. (BothSorted' <=> BothSorted) /\ (Ordered' <=> Ordered)
    BY <2>1 DEF BothSorted, StrictlySorted, Ordered
  <2>6. EndTogether' <=> EndTogether
    BY <2>1 DEF EndTogether
  <2>. QED
    BY <2>1, <2>2, <2>3, <2>4, <2>5, <2>6 DEF IInv
<1>2. CASE Iterate
  BY <1>2, PastLeftIInv, PastRightIInv, MergeWildIInv, MergeInsideIInv DEF Iterate
<1>3. CASE Stopped
  BY <1>1, <1>3 DEF Stopped
<1>. QED
  BY <1>1, <1>2, <1>3, CrashIInv, FinishIInv DEF Next

\* The invariant holds throughout.
THEOREM Invariance == Spec => []IInv
BY InitIInv, NextIInv, PTL DEF Spec

\* The cursors stay within Slack of their columns.
THEOREM TypeCorrect == Spec => []TypeOK
<1>1. IInv => TypeOK
  BY DEF IInv
<1>. QED
  BY <1>1, Invariance, PTL

\* Until a cursor leaves its column, the result is the ordered union of what was passed.
THEOREM ResultIsUnion == Spec => []MergedSoFar
<1>1. IInv => MergedSoFar
  BY DEF IInv
<1>. QED
  BY <1>1, Invariance, PTL

\* The loop leaves the columns if, and returns only if, the last keys differ or agree.
THEOREM LastKeysDecide == Spec => []ReturnsIffEndTogether
<1>1. IInv => ReturnsIffEndTogether
  <2>. SUFFICES ASSUME IInv, BothSorted
                PROVE  (wild => ~EndTogether) /\ (pc = "done" => EndTogether)
    BY DEF ReturnsIffEndTogether, BothSorted
  <2>1. ASSUME pc = "done" PROVE EndTogether
    <3>1. BothAtEnd /\ End(left) \in Nat /\ End(right) \in Nat
      BY <2>1, Typed DEF IInv, Continue, BothAtEnd
    <3>2. ~wild
      BY <2>1, <3>1 DEF IInv, Beyond, BothAtEnd
    <3>. QED
      BY <3>1, <3>2 DEF IInv
  <2>. QED
    BY <2>1 DEF IInv
<1>. QED
  BY <1>1, Invariance, PTL
-----------------------------------------------------------------------------
(* Progress: that a fair loop ends is left to TLC; that every iteration brings the end *)
(* nearer, and where a crash cannot come from, is proved here.                         *)

\* A program that died had read outside a column.
LEMMA FaultsAreWild == Spec => []((pc = "fault" => wild) /\ IInv)
<1>. DEFINE Fault == pc = "fault" => wild
<1>1. Init => Fault
  BY DEF Init
<1>2. ASSUME Fault, [Next]_vars PROVE Fault'
  <2>1. CASE Iterate
    BY <1>2, <2>1 DEF Iterate, InsertPastLeft, InsertPastRight, Merge, ReadBoth
  <2>2. CASE Crash
    BY <2>2 DEF Crash, Die
  <2>3. CASE Finish
    BY <2>3 DEF Finish, Return
  <2>4. CASE UNCHANGED vars
    BY <1>2, <2>4 DEF vars
  <2>. QED
    BY <1>2, <2>1, <2>2, <2>3, <2>4 DEF Next, Stopped
<1>. QED
  BY <1>1, <1>2, Invariance, PTL DEF Spec

\* Interweave of increasing series that end with one key does not crash.
THEOREM NeverDiesTogether == Spec => [](BothSorted /\ EndTogether => pc # "fault")
<1>1. IInv /\ (pc = "fault" => wild) => (BothSorted /\ EndTogether => pc # "fault")
  BY DEF IInv
<1>. QED
  BY <1>1, FaultsAreWild, PTL

\* Of any two series, every iteration moves a cursor, and none moves beyond the memory
\* that can be read: the loop of interweave returns or dies.
THEOREM EachIterationAdvances ==
  Spec => [][Iterate => /\ il + ir < il' + ir'
                        /\ il' <= End(left) + Slack /\ ir' <= End(right) + Slack]_vars
<1>1. ASSUME IInv, IInv', Iterate
      PROVE  il + ir < il' + ir' /\ il' <= End(left) + Slack /\ ir' <= End(right) + Slack
  <2>1. il \in Nat /\ ir \in Nat
    BY <1>1, Typed DEF IInv
  <2>2. \/ il' = il + 1 /\ ir' = ir
        \/ il' = il /\ ir' = ir + 1
        \/ il' = il + 1 /\ ir' = ir + 1
    BY <1>1 DEF Iterate, InsertPastLeft, InsertPastRight, Merge, TakeLeft, TakeRight, TakeBoth
  <2>3. left' = left /\ right' = right
    BY <1>1 DEF Iterate
  <2>4. Len(left) \in Nat /\ Len(right) \in Nat /\ Slack \in Nat
    BY <1>1, Typed, SlackAssumption DEF IInv
  <2>5. il' \in 1..(End(left) + Slack) /\ ir' \in 1..(End(right) + Slack)
    BY <1>1, <2>3 DEF IInv, TypeOK, End
  <2>6. il + ir < il' + ir'
    BY <2>1, <2>2
  <2>7. End(left) + Slack \in Int /\ End(right) + Slack \in Int
    BY <2>4 DEF End
  <2>. QED
    BY <2>5, <2>6, <2>7
<1>. QED
  BY <1>1, Invariance, PTL
=============================================================================
