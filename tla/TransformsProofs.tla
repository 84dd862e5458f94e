-------------------------- MODULE TransformsProofs --------------------------
(***************************************************************************)
(* Theorems about the transformations and the lookups, for series of any   *)
(* length and chains of transformations of any length, and about           *)
(* apply_rolling, for series and windows of any size.                      *)
(*                                                                         *)
(* The columns of a transformation are known by where their cells come     *)
(* from.  The inductive invariant adds to the properties what the next     *)
(* transformation of a chain relies on: the keys still increase, and after *)
(* shifts alone every two cells are as far apart as where they come from.  *)
(***************************************************************************)
EXTENDS Transforms, Rolling, SequenceTheorems, FunctionTheorems, FiniteSetTheorems,
        WellFoundedInduction, TLAPS

-----------------------------------------------------------------------------
(* The search of std::lower_bound, on a column of any length. *)

\* A set of naturals has a least one.
LEMMA Least ==
  ASSUME NEW S \in SUBSET Nat, S # {}
  PROVE  \E x \in S : \A y \in S : x <= y
<1>. DEFINE R == OpToRel(<, Nat)
<1>1. PICK x \in S : \A y \in S : ~ (<<y, x>> \in R)
  <2>1. IsWellFoundedOn(R, Nat)
    BY NatLessThanWellFounded
  <2>. HIDE DEF R
  <2>. QED
    BY <2>1, WFMin
<1>2. ASSUME NEW y \in S PROVE x <= y
  <2>1. x \in Nat /\ y \in Nat
    OBVIOUS
  <2>2. ~ (y < x)
    BY <1>1, <2>1 DEF OpToRel
  <2>. QED
    BY <2>1, <2>2
<1>. QED
  BY <1>2

\* The search among len cells, given that g is the search among fewer.
Halve(s, d, g, len) ==
  [first \in Nat |->
     IF len = 0 THEN first
     ELSE IF s[first + len \div 2] < d
          THEN g[len - len \div 2 - 1][first + len \div 2 + 1]
     ELSE g[len \div 2][first]]

IsSearch(s, d, g) == g = [len \in Nat |-> Halve(s, d, g, len)]

\* The halves are shorter.
LEMMA HalveUses ==
  ASSUME NEW s, NEW d, NEW g, NEW h, NEW len \in Nat,
         \A m \in 0..(len - 1) : g[m] = h[m]
  PROVE  Halve(s, d, g, len) = Halve(s, d, h, len)
<1>1. CASE len = 0
  BY <1>1 DEF Halve
<1>2. CASE len # 0
  <2>1. len \div 2 \in 0..(len - 1) /\ len - len \div 2 - 1 \in 0..(len - 1)
    BY <1>2
  <2>2. g[len \div 2] = h[len \div 2] /\ g[len - len \div 2 - 1] = h[len - len \div 2 - 1]
    BY <2>1
  <2>. QED
    BY <2>2 DEF Halve
<1>. QED
  BY <1>1, <1>2

\* The recursion in LowerBound defines a search.
LEMMA SearchExists ==
  ASSUME NEW s, NEW d
  PROVE  \E g : IsSearch(s, d, g)
<1>. DEFINE Approx(n, g) == g = [len \in 0..n |-> Halve(s, d, g, len)]
<1>1. ASSUME NEW n \in Nat, NEW g, Approx(n, g), NEW k \in 0..n
      PROVE  g[k] = Halve(s, d, g, k)
  BY <1>1
<1>2. ASSUME NEW n \in Nat, NEW g,
             g = [len \in 0..n |-> g[len]], \A k \in 0..n : g[k] = Halve(s, d, g, k)
      PROVE  Approx(n, g)
  BY <1>2
<1>. HIDE DEF Approx
<1>3. ASSUME NEW n \in Nat, n # 0, NEW g, Approx(n - 1, g)
      PROVE  \E h : Approx(n, h)
  <2>. DEFINE h == [len \in 0..n |-> Halve(s, d, g, len)]
  <2>0. n - 1 \in Nat
    BY <1>3
  <2>1. ASSUME NEW k \in 0..(n - 1) PROVE h[k] = g[k]
    <3>1. g[k] = Halve(s, d, g, k)
      BY <1>1, <1>3, <2>0
    <3>. QED
      BY <3>1, <2>0
  <2>2. ASSUME NEW k \in 0..n PROVE h[k] = Halve(s, d, h, k)
    <3>1. \A m \in 0..(k - 1) : g[m] = h[m]
      BY <2>1
    <3>2. Halve(s, d, g, k) = Halve(s, d, h, k)
      <4>. HIDE DEF h
      <4>. QED
        BY <3>1, HalveUses
    <3>. QED
      BY <3>2
  <2>3. h = [len \in 0..n |-> h[len]]
    OBVIOUS
  <2>. HIDE DEF h
  <2>4. Approx(n, h)
    BY <1>2, <2>2, <2>3
  <2>. QED
    BY <2>4
<1>4. \E g : Approx(0, g)
  <2>. DEFINE h == [len \in 0..0 |-> Halve(s, d, s, len)]
  <2>1. ASSUME NEW k \in 0..0 PROVE h[k] = Halve(s, d, h, k)
    <3>1. k = 0 /\ \A m \in 0..(k - 1) : s[m] = h[m]
      OBVIOUS
    <3>2. Halve(s, d, s, k) = Halve(s, d, h, k)
      <4>. HIDE DEF h
      <4>. QED
        BY <3>1, HalveUses
    <3>. QED
      BY <3>2
  <2>2. h = [len \in 0..0 |-> h[len]]
    OBVIOUS
  <2>. HIDE DEF h
  <2>. QED
    BY <1>2, <2>1, <2>2
<1>5. ASSUME NEW n \in Nat PROVE \E g : Approx(n, g)
  <2>. DEFINE Bad == {k \in Nat : ~ \E g : Approx(k, g)}
  <2>1. SUFFICES ASSUME Bad # {} PROVE FALSE
    OBVIOUS
  <2>2. PICK k \in Bad : \A m \in Bad : k <= m
    BY <2>1, Least
  <2>3. k \in Nat /\ k # 0
    BY <1>4
  <2>4. k - 1 \in Nat /\ ~ (k <= k - 1)
    BY <2>3
  <2>5. \E g : Approx(k - 1, g)
    BY <2>2, <2>4
  <2>. QED
    BY <1>3, <2>3, <2>5
<1>6. ASSUME NEW n \in Nat, NEW g, Approx(n, g), NEW m \in Nat, NEW h, Approx(m, h), n <= m
      PROVE  \A k \in 0..n : g[k] = h[k]
  <2>. DEFINE Bad == {k \in 0..n : g[k] # h[k]}
  <2>1. SUFFICES ASSUME Bad # {} PROVE FALSE
    OBVIOUS
  <2>0. Bad \in SUBSET Nat
    OBVIOUS
  <2>2. PICK k \in Bad : \A j \in Bad : k <= j
    <3>. HIDE DEF Bad
    <3>. QED
      BY <2>0, <2>1, Least
  <2>3. k \in 0..n /\ k \in 0..m /\ k \in Nat
    BY <1>6
  <2>4. ASSUME NEW j \in 0..(k - 1) PROVE g[j] = h[j]
    <3>1. j \in 0..n /\ ~ (k <= j)
      BY <2>3
    <3>. QED
      BY <2>2, <3>1
  <2>5. g[k] = Halve(s, d, g, k) /\ h[k] = Halve(s, d, h, k)
    BY <1>1, <1>6, <2>3
  <2>6. Halve(s, d, g, k) = Halve(s, d, h, k)
    BY <2>3, <2>4, HalveUses
  <2>. QED
    BY <2>5, <2>6
<1>. DEFINE Search(n) == CHOOSE g : Approx(n, g)
            f         == [n \in Nat |-> Search(n)[n]]
<1>7. ASSUME NEW n \in Nat PROVE Approx(n, Search(n))
  BY <1>5
<1>. HIDE DEF Search
<1>8. ASSUME NEW n \in Nat PROVE f[n] = Halve(s, d, f, n)
  <2>1. ASSUME NEW m \in 0..n PROVE f[m] = Search(n)[m]
    <3>1. m \in Nat /\ m <= n /\ m \in 0..m
      OBVIOUS
    <3>2. Search(m)[m] = Search(n)[m]
      BY <1>6, <1>7, <3>1
    <3>. QED
      BY <3>1, <3>2
  <2>2. Search(n)[n] = Halve(s, d, Search(n), n)
    BY <1>1, <1>7
  <2>3. \A m \in 0..(n - 1) : Search(n)[m] = f[m]
    BY <2>1
  <2>4. Halve(s, d, Search(n), n) = Halve(s, d, f, n)
    <3>. HIDE DEF f
    <3>. QED
      BY <2>3, HalveUses
  <2>. QED
    BY <2>2, <2>4
<1>9. f = [n \in Nat |-> f[n]]
  OBVIOUS
<1>. HIDE DEF f
<1>10. IsSearch(s, d, f)
  BY <1>8, <1>9 DEF IsSearch
<1>. QED
  BY <1>10

\* The recursive function of LowerBound exists.
LEMMA LowerBoundSearches ==
  ASSUME NEW s, NEW d
  PROVE  \E g : IsSearch(s, d, g) /\ LowerBound(s, d) = g[Len(s)][1]
<1>. DEFINE search == CHOOSE g : IsSearch(s, d, g)
<1>1. IsSearch(s, d, search)
  BY SearchExists
<1>2. LowerBound(s, d) = search[Len(s)][1]
  BY DEF LowerBound, Halve, IsSearch
<1>. QED
  BY <1>1, <1>2

\* p is where the keys stop being smaller than d.
Splits(s, d, p) ==
  /\ p \in 1..(Len(s) + 1)
  /\ \A i \in DOMAIN s : IF i < p THEN s[i] < d ELSE s[i] >= d

\* A search that starts with the split among its cells finds it.
LEMMA SearchFinds ==
  ASSUME NEW s \in Seq(Int), Sorted(s), NEW d \in Int, NEW g, IsSearch(s, d, g)
  PROVE  \A len, first \in Nat :
           /\ first >= 1 /\ first + len <= Len(s) + 1
           /\ \A i \in DOMAIN s : i < first => s[i] < d
           /\ \A i \in DOMAIN s : i >= first + len => s[i] >= d
           => Splits(s, d, g[len][first])
<1>. DEFINE Among(len, first) ==
              /\ first >= 1 /\ first + len <= Len(s) + 1
              /\ \A i \in DOMAIN s : i < first => s[i] < d
              /\ \A i \in DOMAIN s : i >= first + len => s[i] >= d
            Finds(len) ==
              \A first \in Nat : Among(len, first) => Splits(s, d, g[len][first])
            Bad == {len \in Nat : ~ Finds(len)}
<1>0. /\ Len(s) \in Nat /\ DOMAIN s = 1..Len(s)
      /\ \A i \in DOMAIN s : s[i] \in Int
  OBVIOUS
<1>1. ASSUME NEW len \in Nat, NEW first \in Nat
      PROVE  g[len][first] = IF len = 0 THEN first
                             ELSE IF s[first + len \div 2] < d
                                  THEN g[len - len \div 2 - 1][first + len \div 2 + 1]
                             ELSE g[len \div 2][first]
  BY DEF IsSearch, Halve
<1>2. ASSUME NEW len \in Nat, \A m \in 0..(len - 1) : Finds(m)
      PROVE  Finds(len)
  <2>. SUFFICES ASSUME NEW first \in Nat, Among(len, first)
                PROVE  Splits(s, d, g[len][first])
    OBVIOUS
  <2>1. CASE len = 0
    <3>1. g[len][first] = first
      BY <1>1, <2>1
    <3>2. \A i \in DOMAIN s : i < first \/ i >= first + len
      BY <1>0, <2>1
    <3>. QED
      BY <1>0, <2>1, <3>1, <3>2 DEF Splits
  <2>2. CASE len # 0
    <3>. DEFINE half == len \div 2
    <3>1. half \in Nat /\ half < len
      BY <2>2
    <3>. HIDE DEF half
    <3>2. first + half \in DOMAIN s
      BY <1>0, <3>1
    <3>3. CASE s[first + half] < d
      <4>1. g[len][first] = g[len - half - 1][first + half + 1]
        BY <1>1, <2>2, <3>3 DEF half
      <4>2. len - half - 1 \in 0..(len - 1) /\ first + half + 1 \in Nat
        BY <3>1
      <4>3. ASSUME NEW i \in DOMAIN s, i < first + half + 1 PROVE s[i] < d
        <5>1. i <= first + half
          BY <1>0, <3>1, <4>3
        <5>2. s[i] <= s[first + half]
          BY <3>2, <5>1 DEF Sorted
        <5>. QED
          BY <1>0, <3>2, <3>3, <5>2
      <4>4. Among(len - half - 1, first + half + 1)
        <5>1. (first + half + 1) + (len - half - 1) = first + len
          BY <3>1
        <5>2. first + half + 1 >= 1
          BY <3>1
        <5>. QED
          BY <4>3, <5>1, <5>2
      <4>. HIDE DEF Among
      <4>. QED
        BY <1>2, <4>1, <4>2, <4>4
    <3>4. CASE ~ (s[first + half] < d)
      <4>1. g[len][first] = g[half][first]
        BY <1>1, <2>2, <3>4 DEF half
      <4>2. half \in 0..(len - 1)
        BY <3>1
      <4>3. ASSUME NEW i \in DOMAIN s, i >= first + half PROVE s[i] >= d
        <5>1. s[first + half] <= s[i]
          BY <3>2, <4>3 DEF Sorted
        <5>. QED
          BY <1>0, <3>2, <3>4, <5>1
      <4>4. Among(half, first)
        <5>1. first + half <= Len(s) + 1
          BY <1>0, <3>1
        <5>. QED
          BY <4>3, <5>1
      <4>. HIDE DEF Among
      <4>. QED
        BY <1>2, <4>1, <4>2, <4>4
    <3>. QED
      BY <3>3, <3>4
  <2>. QED
    BY <2>1, <2>2
<1>. HIDE DEF Finds
<1>3. Bad = {}
  <2>1. SUFFICES ASSUME Bad # {} PROVE FALSE
    OBVIOUS
  <2>2. PICK len \in Bad : \A m \in Bad : len <= m
    BY <2>1, Least
  <2>3. ASSUME NEW m \in 0..(len - 1) PROVE Finds(m)
    <3>1. m \in Nat /\ ~ (len <= m)
      OBVIOUS
    <3>. QED
      BY <2>2, <3>1
  <2>. QED
    BY <1>2, <2>3
<1>4. \A len \in Nat : Finds(len)
  BY <1>3
<1>. QED
  BY <1>4 DEF Finds

\* On sorted keys LowerBound is the first key that is not smaller.
THEOREM LowerBoundSplits ==
  ASSUME NEW s \in Seq(Int), Sorted(s), NEW d \in Int
  PROVE  Splits(s, d, LowerBound(s, d))
<1>1. PICK g : IsSearch(s, d, g) /\ LowerBound(s, d) = g[Len(s)][1]
  BY LowerBoundSearches
<1>2. /\ Len(s) \in Nat
      /\ \A i \in DOMAIN s : ~ (i < 1) /\ ~ (i >= 1 + Len(s))
  OBVIOUS
<1>. QED
  BY <1>1, <1>2, SearchFinds

-----------------------------------------------------------------------------
(* The first hit of locate. *)

\* It is the first of the hits, or end() if there is none.
LEMMA FirstHit ==
  ASSUME NEW s \in Seq(Int), NEW hits \in SUBSET (DOMAIN s)
  PROVE  /\ FirstKey(s, hits) \in 1..(Len(s) + 1)
         /\ FirstKey(s, hits) \in DOMAIN s <=> hits # {}
         /\ hits # {} => FirstKey(s, hits) \in hits
         /\ \A i \in hits : FirstKey(s, hits) <= i
<1>1. Len(s) \in Nat /\ DOMAIN s = 1..Len(s)
  OBVIOUS
<1>2. CASE hits = {}
  BY <1>1, <1>2 DEF FirstKey
<1>3. CASE hits # {}
  <2>. DEFINE First(i) == i \in hits /\ \A h \in hits : i <= h
  <2>1. hits \in SUBSET Nat
    BY <1>1
  <2>2. \E i : First(i)
    BY <1>3, <2>1, Least
  <2>3. FirstKey(s, hits) = CHOOSE i : First(i)
    BY <1>3 DEF FirstKey
  <2>4. First(FirstKey(s, hits))
    <3>. HIDE DEF First
    <3>. QED
      BY <2>2, <2>3
  <2>. QED
    BY <1>1, <1>3, <2>4
<1>. QED
  BY <1>2, <1>3

\* The hits are the keys from p on.
IsFrom(s, hits, p) == p \in 1..(Len(s) + 1) /\ hits = {i \in DOMAIN s : i >= p}

\* The least position of a tail of the column is where the tail starts.
LEMMA FirstOfRest ==
  ASSUME NEW s \in Seq(Int), NEW hits, NEW p, IsFrom(s, hits, p)
  PROVE  FirstKey(s, hits) = p
<1>1. Len(s) \in Nat /\ DOMAIN s = 1..Len(s) /\ p \in 1..(Len(s) + 1)
  BY DEF IsFrom
<1>2. hits \in SUBSET (DOMAIN s) /\ \A i \in DOMAIN s : i \in hits <=> i >= p
  BY DEF IsFrom
<1>3. /\ FirstKey(s, hits) \in 1..(Len(s) + 1)
      /\ FirstKey(s, hits) \in DOMAIN s <=> hits # {}
      /\ hits # {} => FirstKey(s, hits) \in hits
      /\ \A i \in hits : FirstKey(s, hits) <= i
  BY <1>2, FirstHit
<1>4. CASE p \in DOMAIN s
  <2>1. p \in hits
    BY <1>1, <1>2, <1>4
  <2>. QED
    BY <1>1, <1>2, <1>3, <2>1
<1>5. CASE p \notin DOMAIN s
  <2>1. p = Len(s) + 1
    BY <1>1, <1>5
  <2>2. hits = {}
    BY <1>1, <1>2, <2>1
  <2>. QED
    BY <2>1, <2>2 DEF FirstKey
<1>. QED
  BY <1>4, <1>5

-----------------------------------------------------------------------------
(* Positions, in order. *)

UpTo(S, i) == {h \in S : h <= i}

Count(S, i) == Cardinality(UpTo(S, i))

\* S is a set of positions in a column of N rows.
PositionsIn(S, N) == N \in Nat /\ S \subseteq 1..N

\* Positions in N rows are finitely many numbers from 1 to N.
LEMMA PositionsAreInts ==
  ASSUME NEW N, NEW S, PositionsIn(S, N)
  PROVE  /\ N \in Nat
         /\ \A h \in S : h \in Nat /\ h \in Int /\ 1 <= h /\ h <= N
         /\ IsFiniteSet(S) /\ Cardinality(S) \in Nat
<1>1. N \in Nat /\ N \in Int /\ 1 \in Int /\ S \subseteq 1..N
  BY DEF PositionsIn
<1>2. \A h \in 1..N : h \in Nat /\ h \in Int /\ 1 <= h /\ h <= N
  BY <1>1
<1>3. IsFiniteSet(1..N)
  BY <1>1, FS_Interval
<1>. QED
  BY <1>1, <1>2, <1>3, FS_Subset, FS_CardinalityType

\* The positions up to i are finitely many.
LEMMA CountType ==
  ASSUME NEW N, NEW S, PositionsIn(S, N), NEW i
  PROVE  IsFiniteSet(UpTo(S, i)) /\ Count(S, i) \in Nat
<1>1. UpTo(S, i) \subseteq S
  BY DEF UpTo
<1>. QED
  BY <1>1, PositionsAreInts, FS_Subset, FS_CardinalityType DEF Count

\* None of the positions is before the first row, all are up to the last.
LEMMA CountEnds ==
  ASSUME NEW N, NEW S, PositionsIn(S, N)
  PROVE  Count(S, 0) = 0 /\ Count(S, N) = Cardinality(S)
<1>1. \A h \in S : ~ (h <= 0) /\ h <= N
  BY PositionsAreInts
<1>2. UpTo(S, 0) = {}
  BY <1>1, Zenon DEF UpTo
<1>3. UpTo(S, N) = S
  BY <1>1, Zenon DEF UpTo
<1>. QED
  BY <1>2, <1>3, FS_EmptySet DEF Count

\* Counting further finds no fewer positions.
LEMMA CountMonotone ==
  ASSUME NEW N, NEW S, PositionsIn(S, N), NEW i \in Int, NEW j \in Int, i <= j
  PROVE  Count(S, i) <= Count(S, j)
<1>1. \A h \in S : h <= i => h <= j
  BY PositionsAreInts
<1>2. UpTo(S, i) \subseteq UpTo(S, j)
  BY <1>1, Zenon DEF UpTo
<1>3. IsFiniteSet(UpTo(S, j))
  BY CountType
<1>. QED
  BY <1>2, <1>3, FS_Subset DEF Count

\* Counting one row further finds one more position if that row is one of them.
LEMMA CountSteps ==
  ASSUME NEW N, NEW S, PositionsIn(S, N), NEW i \in Int
  PROVE  Count(S, i) = IF i \in S THEN Count(S, i - 1) + 1 ELSE Count(S, i - 1)
<1>1. IsFiniteSet(UpTo(S, i - 1))
  BY CountType
<1>2. /\ i <= i /\ ~ (i <= i - 1)
      /\ \A h \in S : h <= i <=> h <= i - 1 \/ h = i
  BY PositionsAreInts
<1>3. CASE i \in S
  <2>1. UpTo(S, i) = UpTo(S, i - 1) \cup {i} /\ i \notin UpTo(S, i - 1)
    BY <1>2, <1>3, Zenon DEF UpTo
  <2>2. Cardinality(UpTo(S, i - 1) \cup {i}) = Cardinality(UpTo(S, i - 1)) + 1
    BY <1>1, <2>1, FS_AddElement
  <2>. QED
    BY <1>3, <2>1, <2>2 DEF Count
<1>4. CASE i \notin S
  <2>1. \A h \in S : h <= i <=> h <= i - 1
    BY <1>2, <1>4
  <2>2. UpTo(S, i) = UpTo(S, i - 1)
    BY <2>1, Zenon DEF UpTo
  <2>. QED
    BY <1>4, <2>2 DEF Count
<1>. QED
  BY <1>3, <1>4

\* Between two positions of the set the count grows.
LEMMA CountGrows ==
  ASSUME NEW N, NEW S, PositionsIn(S, N), NEW i \in Int, NEW j \in S, i < j
  PROVE  Count(S, i) < Count(S, j)
<1>1. j \in Int /\ j - 1 \in Int /\ i <= j - 1
  <2>1. j \in Int
    BY PositionsAreInts
  <2>. QED
    BY <2>1
<1>2. Count(S, i) <= Count(S, j - 1)
  BY <1>1, CountMonotone
<1>3. Count(S, j) = Count(S, j - 1) + 1
  BY <1>1, CountSteps
<1>4. Count(S, i) \in Nat /\ Count(S, j - 1) \in Nat
  BY CountType
<1>. QED
  BY <1>2, <1>3, <1>4

\* Every number up to the size of the set is reached at a position of it.
LEMMA NthCounts ==
  ASSUME NEW N, NEW S, PositionsIn(S, N), NEW n \in 1..Cardinality(S)
  PROVE  Nth(S, n) \in S /\ Count(S, Nth(S, n)) = n
<1>. DEFINE Reached == {i \in Nat : Count(S, i) >= n}
            IsNth(i) == i \in S /\ Count(S, i) = n
<1>0. /\ N \in Nat /\ Cardinality(S) \in Nat /\ n \in Nat /\ n > 0
      /\ Count(S, 0) = 0 /\ Count(S, N) = Cardinality(S)
  BY PositionsAreInts, CountEnds
<1>1. N \in Reached
  BY <1>0
<1>2. PICK i \in Reached : \A j \in Reached : i <= j
  <2>1. Reached \in SUBSET Nat /\ Reached # {}
    BY <1>1
  <2>. HIDE DEF Reached
  <2>. QED
    BY <2>1, Least
<1>3. i \in Nat /\ i # 0 /\ Count(S, i) >= n
  BY <1>0
<1>4. i - 1 \in Nat /\ ~ (i <= i - 1) /\ i \in Int
  BY <1>3
<1>5. ~ (Count(S, i - 1) >= n)
  BY <1>2, <1>4
<1>6. Count(S, i - 1) \in Nat
  BY CountType
<1>7. Count(S, i) = IF i \in S THEN Count(S, i - 1) + 1 ELSE Count(S, i - 1)
  BY <1>4, CountSteps
<1>8. IsNth(i)
  BY <1>0, <1>3, <1>5, <1>6, <1>7
<1>9. Nth(S, n) = CHOOSE j : IsNth(j)
  BY DEF Nth, Count, UpTo
<1>10. IsNth(Nth(S, n))
  <2>. HIDE DEF IsNth
  <2>. QED
    BY <1>8, <1>9
<1>. QED
  BY <1>10

\* The positions come in order.
LEMMA NthIncreases ==
  ASSUME NEW N, NEW S, PositionsIn(S, N),
         NEW m \in 1..Cardinality(S), NEW n \in 1..Cardinality(S), m < n
  PROVE  Nth(S, m) < Nth(S, n)
<1>1. /\ Nth(S, m) \in S /\ Count(S, Nth(S, m)) = m
      /\ Nth(S, n) \in S /\ Count(S, Nth(S, n)) = n
  BY NthCounts
<1>2. Nth(S, n) \in Int /\ Nth(S, m) \in Int
  BY <1>1, PositionsAreInts
<1>3. Nth(S, n) <= Nth(S, m) => n <= m
  BY <1>1, <1>2, CountMonotone
<1>4. m \in Int /\ n \in Int
  BY PositionsAreInts
<1>. QED
  BY <1>2, <1>3, <1>4

\* Each position of the set is the Nth for its count.
LEMMA NthReaches ==
  ASSUME NEW N, NEW S, PositionsIn(S, N), NEW i \in S
  PROVE  Count(S, i) \in 1..Cardinality(S) /\ Nth(S, Count(S, i)) = i
<1>1. /\ i \in Int /\ 0 < i /\ i <= N /\ N \in Int /\ 0 \in Int
      /\ Cardinality(S) \in Nat
  BY PositionsAreInts
<1>2. /\ Count(S, i) \in Nat /\ Count(S, 0) < Count(S, i) /\ Count(S, 0) = 0
      /\ Count(S, i) <= Count(S, N) /\ Count(S, N) = Cardinality(S)
  BY <1>1, CountType, CountGrows, CountEnds, CountMonotone
<1>3. Count(S, i) \in 1..Cardinality(S)
  BY <1>1, <1>2
<1>4. /\ Nth(S, Count(S, i)) \in S
      /\ Count(S, Nth(S, Count(S, i))) = Count(S, i)
  BY <1>3, NthCounts
<1>5. ASSUME NEW j \in S, Count(S, j) = Count(S, i) PROVE j = i
  <2>1. j \in Int
    BY PositionsAreInts
  <2>2. ~ (Count(S, i) < Count(S, i))
    BY <1>2
  <2>3. ~ (j < i)
    BY <1>5, <2>1, <2>2, CountGrows
  <2>4. ~ (i < j)
    BY <1>1, <1>5, <2>2, CountGrows
  <2>. QED
    BY <1>1, <2>1, <2>3, <2>4
<1>. QED
  BY <1>3, <1>4, <1>5

\* The first m of f are the positions of the set in order.
Lists(f, m, S) ==
  /\ m \in Nat
  /\ \A a \in 1..m : f[a] \in S
  /\ \A a, b \in 1..m : a < b => f[a] < f[b]
  /\ \A i \in S : \E a \in 1..m : f[a] = i

\* An increasing list has as many positions as entries.
LEMMA ListCounts ==
  ASSUME NEW N, NEW S, PositionsIn(S, N), NEW m, NEW f, Lists(f, m, S)
  PROVE  Cardinality(S) = m
<1>. DEFINE g == [a \in 1..m |-> f[a]]
<1>1. \A a, b \in 1..m : g[a] = g[b] => a = b
  <2>1. ASSUME NEW a \in 1..m, NEW b \in 1..m, a < b PROVE f[a] # f[b]
    <3>1. f[a] < f[b] /\ f[a] \in Int /\ f[b] \in Int
      BY <2>1, PositionsAreInts DEF Lists
    <3>. QED
      BY <3>1
  <2>2. \A a, b \in 1..m : a < b \/ b < a \/ a = b
    OBVIOUS
  <2>. QED
    BY <2>1, <2>2
<1>2. g \in [1..m -> S] /\ \A i \in S : \E a \in 1..m : g[a] = i
  BY DEF Lists
<1>. HIDE DEF g
<1>3. g \in Bijection(1..m, S)
  BY <1>1, <1>2, Fun_IsBij
<1>4. ExistsBijection(1..m, S)
  BY <1>3 DEF ExistsBijection
<1>5. IsFiniteSet(1..m) /\ Cardinality(1..m) = m
  BY FS_Interval DEF Lists
<1>. QED
  BY <1>4, <1>5, FS_Bijection

\* There is only one way to list a set of positions in order.
LEMMA NthUnique ==
  ASSUME NEW N, NEW S, PositionsIn(S, N), NEW m, NEW f, Lists(f, m, S)
  PROVE  Cardinality(S) = m /\ \A n \in 1..m : Nth(S, n) = f[n]
<1>1. Cardinality(S) = m
  BY ListCounts
<1>2. ASSUME NEW n \in 1..m PROVE Nth(S, n) = f[n]
  <2>. DEFINE T == UpTo(S, f[n])
  <2>0. /\ f[n] \in S /\ f[n] \in Int /\ n \in Nat /\ n <= m
        /\ \A a \in 1..n : a \in 1..m /\ (a = n \/ a < n)
    <3>1. f[n] \in S /\ m \in Nat
      BY DEF Lists
    <3>2. f[n] \in Int
      BY <3>1, PositionsAreInts
    <3>. QED
      BY <3>1, <3>2
  <2>1. PositionsIn(T, N)
    BY DEF UpTo, PositionsIn
  <2>2. \A a \in 1..n : f[a] \in T
    <3>1. ASSUME NEW a \in 1..n PROVE f[a] \in S /\ f[a] <= f[n]
      <4>1. f[a] \in S
        BY <2>0 DEF Lists
      <4>2. f[a] \in Int /\ (f[a] = f[n] \/ f[a] < f[n])
        BY <2>0, <4>1, PositionsAreInts DEF Lists
      <4>. QED
        BY <2>0, <4>1, <4>2
    <3>. QED
      BY <3>1 DEF UpTo
  <2>3. \A a, b \in 1..n : a < b => f[a] < f[b]
    BY <2>0 DEF Lists
  <2>4. \A i \in T : \E a \in 1..n : f[a] = i
    <3>1. SUFFICES ASSUME NEW i \in S, i <= f[n] PROVE \E a \in 1..n : f[a] = i
      BY DEF UpTo
    <3>2. PICK a \in 1..m : f[a] = i
      BY DEF Lists
    <3>3. ~ (n < a)
      <4>1. n < a => f[n] < f[a]
        BY DEF Lists
      <4>2. f[a] \in Int
        BY <3>1, <3>2, PositionsAreInts
      <4>. QED
        BY <2>0, <3>1, <3>2, <4>1, <4>2
    <3>4. a \in 1..n
      BY <2>0, <3>3
    <3>. QED
      BY <3>2, <3>4
  <2>. HIDE DEF T
  <2>5. Lists(f, n, T)
    BY <2>0, <2>2, <2>3, <2>4 DEF Lists
  <2>6. Cardinality(T) = n
    BY <2>1, <2>5, ListCounts
  <2>7. Count(S, f[n]) = n
    BY <2>6 DEF Count, T
  <2>. QED
    BY <2>0, <2>7, NthReaches
<1>. QED
  BY <1>1, <1>2

-----------------------------------------------------------------------------
(* The rows at chosen positions. *)

\* A pair of columns of a series of N rows at the start.
ColumnsOf(N, ks, vs) ==
  /\ ks \in Seq(1..N)
  /\ vs \in Seq(Seq(1..N))
  /\ Len(ks) = Len(vs)

Increasing(ks) == \A i, j \in DOMAIN ks : i < j => ks[i] < ks[j]

\* Types of two level columns.
LEMMA ColumnFacts ==
  ASSUME NEW N, NEW ks, NEW vs, ColumnsOf(N, ks, vs)
  PROVE  /\ Len(ks) \in Nat /\ Len(vs) = Len(ks)
         /\ DOMAIN ks = 1..Len(ks) /\ DOMAIN vs = 1..Len(ks)
         /\ \A i \in 1..Len(ks) : ks[i] \in 1..N /\ vs[i] \in Seq(1..N)
         /\ ks = [i \in 1..Len(ks) |-> ks[i]] /\ vs = [i \in 1..Len(ks) |-> vs[i]]
BY LenProperties, ElementOfSeq DEF ColumnsOf

\* The chosen rows are cells of the columns they are chosen from, in level columns.
LEMMA RowsPick ==
  ASSUME NEW N, NEW ks, NEW vs, ColumnsOf(N, ks, vs),
         NEW chosen, PositionsIn(chosen, Len(ks))
  PROVE  LET rows == Rows(ks, vs, chosen)
         IN /\ ColumnsOf(N, rows[1], rows[2])
            /\ Len(rows[1]) = Cardinality(chosen)
            /\ \A n \in 1..Cardinality(chosen) :
                 /\ Nth(chosen, n) \in chosen /\ Nth(chosen, n) \in 1..Len(ks)
                 /\ rows[1][n] = ks[Nth(chosen, n)]
                 /\ rows[2][n] = vs[Nth(chosen, n)]
<1>. DEFINE m  == Cardinality(chosen)
            k2 == [n \in 1..m |-> ks[Nth(chosen, n)]]
            v2 == [n \in 1..m |-> vs[Nth(chosen, n)]]
<1>1. m \in Nat
  BY PositionsAreInts
<1>2. ASSUME NEW n \in 1..m
      PROVE  Nth(chosen, n) \in chosen /\ Nth(chosen, n) \in 1..Len(ks)
  BY NthCounts DEF PositionsIn
<1>. HIDE DEF m
<1>3. ASSUME NEW n \in 1..m PROVE k2[n] \in 1..N /\ v2[n] \in Seq(1..N)
  BY <1>2, ColumnFacts
<1>4. k2 \in Seq(1..N) /\ v2 \in Seq(Seq(1..N)) /\ Len(k2) = m /\ Len(v2) = m
  BY <1>1, <1>3
<1>5. Rows(ks, vs, chosen) = <<k2, v2>>
  BY DEF Rows, m
<1>6. \A n \in 1..m : k2[n] = ks[Nth(chosen, n)] /\ v2[n] = vs[Nth(chosen, n)]
  OBVIOUS
<1>. HIDE DEF k2, v2
<1>7. Rows(ks, vs, chosen)[1] = k2 /\ Rows(ks, vs, chosen)[2] = v2
  BY <1>5
<1>8. ColumnsOf(N, k2, v2)
  BY <1>4 DEF ColumnsOf
<1>. QED
  BY <1>2, <1>4, <1>6, <1>7, <1>8 DEF m

\* Choosing rows keeps the keys in order.
LEMMA RowsIncrease ==
  ASSUME NEW N, NEW ks, NEW vs, ColumnsOf(N, ks, vs), Increasing(ks),
         NEW chosen, PositionsIn(chosen, Len(ks))
  PROVE  Increasing(Rows(ks, vs, chosen)[1])
<1>. DEFINE k2 == Rows(ks, vs, chosen)[1]
<1>1. /\ DOMAIN k2 = 1..Cardinality(chosen)
      /\ \A n \in 1..Cardinality(chosen) :
           Nth(chosen, n) \in 1..Len(ks) /\ k2[n] = ks[Nth(chosen, n)]
  BY RowsPick, ColumnFacts
<1>2. DOMAIN ks = 1..Len(ks)
  BY ColumnFacts
<1>3. ASSUME NEW i \in DOMAIN k2, NEW j \in DOMAIN k2, i < j PROVE k2[i] < k2[j]
  <2>1. Nth(chosen, i) < Nth(chosen, j)
    BY <1>1, <1>3, NthIncreases
  <2>. QED
    BY <1>1, <1>2, <2>1 DEF Increasing
<1>. QED
  BY <1>3 DEF Increasing

\* Which of the rows at A are at positions in P.
Those(A, P) == {n \in 1..Cardinality(A) : Nth(A, n) \in P}

\* Choosing among chosen rows is choosing once.
LEMMA RowsOfRows ==
  ASSUME NEW N, NEW ks, NEW vs, ColumnsOf(N, ks, vs),
         NEW A, PositionsIn(A, Len(ks)), NEW P
  PROVE  Rows(Rows(ks, vs, A)[1], Rows(ks, vs, A)[2], Those(A, P)) = Rows(ks, vs, A \cap P)
<1>. DEFINE B    == Those(A, P)
            rows == Rows(ks, vs, A)
            f    == [n \in 1..Cardinality(B) |-> Nth(A, Nth(B, n))]
<1>0. \A n : n \in B <=> n \in 1..Cardinality(A) /\ Nth(A, n) \in P
  BY DEF Those
<1>. HIDE DEF B
<1>1. Cardinality(A) \in Nat /\ PositionsIn(B, Cardinality(A))
  BY <1>0, PositionsAreInts DEF PositionsIn
<1>2. Cardinality(B) \in Nat
  BY <1>1, PositionsAreInts
<1>3. ASSUME NEW n \in 1..Cardinality(B)
      PROVE  Nth(B, n) \in 1..Cardinality(A) /\ Nth(A, Nth(B, n)) \in A \cap P
  <2>1. Nth(B, n) \in B
    BY <1>1, NthCounts
  <2>. QED
    BY <1>0, <2>1, NthCounts
<1>4. \A n \in 1..Cardinality(B) : f[n] \in A \cap P
  BY <1>3
<1>5. \A a, b \in 1..Cardinality(B) : a < b => f[a] < f[b]
  <2>1. ASSUME NEW a \in 1..Cardinality(B), NEW b \in 1..Cardinality(B), a < b
        PROVE  f[a] < f[b]
    <3>1. Nth(B, a) < Nth(B, b)
      BY <1>1, <2>1, NthIncreases
    <3>. QED
      BY <1>3, <3>1, NthIncreases
  <2>. QED
    BY <2>1
<1>6. ASSUME NEW i \in A \cap P PROVE \E n \in 1..Cardinality(B) : f[n] = i
  <2>1. Count(A, i) \in 1..Cardinality(A) /\ Nth(A, Count(A, i)) = i
    BY NthReaches
  <2>2. Count(A, i) \in B
    BY <1>0, <2>1
  <2>3. /\ Count(B, Count(A, i)) \in 1..Cardinality(B)
        /\ Nth(B, Count(B, Count(A, i))) = Count(A, i)
    BY <1>1, <2>2, NthReaches
  <2>. QED
    BY <2>1, <2>3
<1>7. PositionsIn(A \cap P, Len(ks))
  BY DEF PositionsIn
<1>. HIDE DEF f
<1>8. Lists(f, Cardinality(B), A \cap P)
  BY <1>2, <1>4, <1>5, <1>6 DEF Lists
<1>9. /\ Cardinality(A \cap P) = Cardinality(B)
      /\ \A n \in 1..Cardinality(B) : Nth(A \cap P, n) = f[n]
  BY <1>7, <1>8, NthUnique
<1>10. ASSUME NEW n \in 1..Cardinality(B)
      PROVE  /\ rows[1][Nth(B, n)] = ks[Nth(A \cap P, n)]
             /\ rows[2][Nth(B, n)] = vs[Nth(A \cap P, n)]
  <2>1. Nth(A \cap P, n) = Nth(A, Nth(B, n))
    BY <1>9 DEF f
  <2>. QED
    BY <1>3, <2>1, RowsPick
<1>. HIDE DEF rows
<1>11. /\ Rows(rows[1], rows[2], B)[1] = Rows(ks, vs, A \cap P)[1]
       /\ Rows(rows[1], rows[2], B)[2] = Rows(ks, vs, A \cap P)[2]
  BY <1>9, <1>10 DEF Rows
<1>. QED
  BY <1>11 DEF Rows, rows, B

\* The cells after the first from of them, up to the cell to.
LEMMA Cells ==
  ASSUME NEW S, NEW s \in Seq(S), NEW from \in Nat, NEW to \in Nat,
         from <= to, to <= Len(s)
  PROVE  /\ SubSeq(s, from + 1, to) \in Seq(S)
         /\ Len(SubSeq(s, from + 1, to)) = to - from
         /\ \A i \in 1..(to - from) :
              from + i \in 1..Len(s) /\ SubSeq(s, from + 1, to)[i] = s[from + i]
<1>1. Len(s) \in Nat /\ \A i \in 1..Len(s) : s[i] \in S
  BY LenProperties, ElementOfSeq
<1>2. from + 1 \in Int /\ to \in Int /\ to - (from + 1) + 1 = to - from
  OBVIOUS
<1>3. \A i \in (from + 1)..to : s[i] \in S
  BY <1>1
<1>4. \A i \in 1..(to - from) : from + i \in 1..Len(s) /\ (from + 1) + i - 1 = from + i
  BY <1>1
<1>. DEFINE t == SubSeq(s, from + 1, to)
<1>5. /\ t \in Seq(S)
      /\ Len(t) = IF from + 1 <= to THEN to - (from + 1) + 1 ELSE 0
      /\ \A i \in 1..(to - (from + 1) + 1) : t[i] = s[(from + 1) + i - 1]
  BY <1>2, <1>3, SubSeqProperties
<1>. HIDE DEF t
<1>6. Len(t) = to - from
  BY <1>2, <1>5
<1>7. \A i \in 1..(to - from) : t[i] = s[from + i]
  BY <1>2, <1>4, <1>5
<1>. QED
  BY <1>4, <1>5, <1>6, <1>7 DEF t
-----------------------------------------------------------------------------
(* The operations.  Each returns columns again, with the keys in order. *)

\* No value has gone into a row from after the row.
Behind(ks, vs) ==
  \A i \in DOMAIN ks : \A q \in DOMAIN vs[i] : vs[i][q] <= ks[i]

\* Positions in a row, each with the value n rows away.
Stretch(ks, vs, n) ==
  /\ \A i \in DOMAIN ks : vs[i] = <<ks[i] + n>>
  /\ \A i, j \in DOMAIN ks : ks[j] = ks[i] + (j - i)

\* The dates of increasing positions of a sorted source are sorted.
LEMMA DatesSorted ==
  ASSUME source \in Seq(Int), NEW ks, NEW vs,
         ColumnsOf(Len(source), ks, vs), Increasing(ks)
  PROVE  /\ Dates(ks) \in Seq(Int) /\ Len(Dates(ks)) = Len(ks)
         /\ DOMAIN Dates(ks) = 1..Len(ks)
         /\ \A i \in 1..Len(ks) :
              /\ ks[i] \in DOMAIN source
              /\ Dates(ks)[i] = source[ks[i]] /\ source[ks[i]] \in Int
         /\ Sorted(source) => Sorted(Dates(ks))
<1>1. /\ Len(ks) \in Nat /\ DOMAIN ks = 1..Len(ks)
      /\ \A i \in 1..Len(ks) : ks[i] \in 1..Len(source)
  BY ColumnFacts
<1>2. /\ DOMAIN source = 1..Len(source) /\ Len(source) \in Nat
      /\ \A p \in 1..Len(source) : source[p] \in Int
  BY LenProperties, ElementOfSeq
<1>3. /\ Dates(ks) \in Seq(Int) /\ Len(Dates(ks)) = Len(ks)
      /\ DOMAIN Dates(ks) = 1..Len(ks)
      /\ \A i \in 1..Len(ks) : Dates(ks)[i] = source[ks[i]]
  BY <1>1, <1>2 DEF Dates
<1>4. ASSUME Sorted(source), NEW i \in 1..Len(ks), NEW j \in 1..Len(ks), i <= j
      PROVE  Dates(ks)[i] <= Dates(ks)[j]
  <2>1. ks[i] <= ks[j]
    <3>1. i = j \/ i < j
      BY <1>1, <1>4
    <3>2. i < j => ks[i] < ks[j]
      BY <1>1 DEF Increasing
    <3>. QED
      BY <1>1, <3>1, <3>2
  <2>. QED
    BY <1>1, <1>2, <1>3, <1>4, <2>1 DEF Sorted
<1>5. Sorted(source) => Sorted(Dates(ks))
  BY <1>3, <1>4 DEF Sorted
<1>. QED
  BY <1>1, <1>2, <1>3, <1>5

\* Choosing rows does not let a value look ahead.
LEMMA RowsBehind ==
  ASSUME NEW N \in Nat, NEW ks, NEW vs, ColumnsOf(N, ks, vs), Behind(ks, vs),
         NEW chosen, PositionsIn(chosen, Len(ks))
  PROVE  Behind(Rows(ks, vs, chosen)[1], Rows(ks, vs, chosen)[2])
<1>. DEFINE k2 == Rows(ks, vs, chosen)[1]
            v2 == Rows(ks, vs, chosen)[2]
<1>1. /\ DOMAIN k2 = 1..Cardinality(chosen)
      /\ \A n \in 1..Cardinality(chosen) :
           /\ Nth(chosen, n) \in 1..Len(ks)
           /\ k2[n] = ks[Nth(chosen, n)] /\ v2[n] = vs[Nth(chosen, n)]
  BY RowsPick, ColumnFacts
<1>2. DOMAIN ks = 1..Len(ks)
  BY ColumnFacts
<1>. HIDE DEF k2, v2
<1>3. Behind(k2, v2)
  BY <1>1, <1>2 DEF Behind
<1>. QED
  BY <1>3 DEF k2, v2

\* The rows with keys from a to b.
InRange(ks, a, b) == {i \in DOMAIN ks : a <= source[ks[i]] /\ source[ks[i]] <= b}

\* The scan of between goes over the rows up to the last one.
LEMMA BetweenChooses ==
  ASSUME source \in Seq(Int), NEW ks, NEW vs,
         ColumnsOf(Len(source), ks, vs), Increasing(ks),
         NEW a \in Int, NEW b \in Int
  PROVE  \E chosen :
           /\ BetweenOf(ks, vs, a, b) = Rows(ks, vs, chosen)
           /\ PositionsIn(chosen, Len(ks))
           /\ chosen \subseteq InRange(ks, a, b)
           /\ Sorted(source) => chosen = InRange(ks, a, b)
<1>. DEFINE range  == InRange(ks, a, b)
            date   == Dates(ks)
            stop   == FirstKey(date, After(date, b))
            chosen == {i \in 1..(stop - 1) : a <= date[i]}
<1>1. /\ date \in Seq(Int) /\ Len(date) = Len(ks) /\ DOMAIN date = 1..Len(ks)
      /\ DOMAIN ks = 1..Len(ks) /\ Len(ks) \in Nat
      /\ \A i \in 1..Len(ks) : date[i] = source[ks[i]] /\ source[ks[i]] \in Int
      /\ Sorted(source) => Sorted(date)
  BY DatesSorted, ColumnFacts
<1>2. BetweenOf(ks, vs, a, b) = Rows(ks, vs, chosen)
  BY DEF BetweenOf
<1>. HIDE DEF date
<1>3. After(date, b) \in SUBSET (DOMAIN date)
  BY DEF After
<1>4. /\ stop \in 1..(Len(ks) + 1)
      /\ stop \in 1..Len(ks) => stop \in After(date, b)
      /\ \A i \in After(date, b) : stop <= i
  BY <1>1, <1>3, FirstHit
<1>. HIDE DEF stop
<1>5. ASSUME NEW i \in 1..Len(ks)
      PROVE  /\ i \in 1..(stop - 1) => source[ks[i]] <= b
             /\ Sorted(source) /\ source[ks[i]] <= b => i \in 1..(stop - 1)
  <2>1. ASSUME i \in 1..(stop - 1) PROVE source[ks[i]] <= b
    <3>1. i \notin After(date, b)
      BY <1>4, <2>1
    <3>. QED
      BY <1>1, <3>1 DEF After
  <2>2. ASSUME Sorted(source), i \notin 1..(stop - 1) PROVE ~ (source[ks[i]] <= b)
    <3>1. stop <= i /\ stop \in 1..Len(ks)
      BY <1>4, <2>2
    <3>2. date[stop] > b
      BY <1>4, <3>1 DEF After
    <3>3. date[stop] <= date[i]
      BY <1>1, <2>2, <3>1 DEF Sorted
    <3>. QED
      BY <1>1, <3>1, <3>2, <3>3
  <2>. QED
    BY <2>1, <2>2
<1>6. \A i \in 1..(stop - 1) : i \in 1..Len(ks)
  BY <1>1, <1>4
<1>7. PositionsIn(chosen, Len(ks))
  BY <1>1, <1>6 DEF PositionsIn
<1>8. chosen \subseteq range
  BY <1>1, <1>5, <1>6 DEF InRange
<1>9. Sorted(source) => range \subseteq chosen
  BY <1>1, <1>5 DEF InRange
<1>. QED
  BY <1>2, <1>7, <1>8, <1>9

\* On sorted keys that is the whole range.
LEMMA BetweenOnSorted ==
  ASSUME source \in Seq(Int), NEW ks, NEW vs,
         ColumnsOf(Len(source), ks, vs), Increasing(ks),
         NEW a \in Int, NEW b \in Int, Sorted(source)
  PROVE  BetweenOf(ks, vs, a, b) = Rows(ks, vs, InRange(ks, a, b))
BY BetweenChooses

\* A shift returns level columns in order, and does not look ahead unless it goes forward.
LEMMA ShiftReturns ==
  ASSUME NEW N \in Nat, NEW ks, NEW vs, ColumnsOf(N, ks, vs), Increasing(ks),
         NEW n \in Int, Len(ks) >= (IF n < 0 THEN -n ELSE n), NEW m \in Int
  PROVE  LET shifted == ShiftOf(ks, vs, n)
         IN /\ ColumnsOf(N, shifted[1], shifted[2])
            /\ Increasing(shifted[1])
            /\ n <= 0 /\ Behind(ks, vs) => Behind(shifted[1], shifted[2])
            /\ Stretch(ks, vs, m) => Stretch(shifted[1], shifted[2], m + n)
<1>. DEFINE lag  == IF n < 0 THEN -n ELSE 0
            lead == IF n < 0 THEN 0 ELSE n
            len  == Len(ks) - lag - lead
            k2   == SubSeq(ks, lag + 1, lag + len)
            v2   == SubSeq(vs, lead + 1, lead + len)
<1>1. /\ Len(ks) \in Nat /\ Len(vs) = Len(ks)
      /\ DOMAIN ks = 1..Len(ks) /\ DOMAIN vs = 1..Len(ks)
      /\ \A i \in 1..Len(ks) : ks[i] \in 1..N /\ vs[i] \in Seq(1..N)
      /\ ks \in Seq(1..N) /\ vs \in Seq(Seq(1..N))
  BY ColumnFacts DEF ColumnsOf
<1>2. /\ lag \in Nat /\ lead \in Nat /\ len \in Nat
      /\ lag + len <= Len(ks) /\ lead + len <= Len(ks)
      /\ lead - lag = n /\ lag + len - lag = len /\ lead + len - lead = len
      /\ lag + len \in Nat /\ lead + len \in Nat
  BY <1>1
<1>3. ShiftOf(ks, vs, n)[1] = k2 /\ ShiftOf(ks, vs, n)[2] = v2
  <2>1. CASE n < 0
    <3>1. lag + 1 = 1 - n /\ lead + 1 = 1 /\ lag + len = Len(ks) /\ lead + len = Len(vs) + n
      <4>1. lag = -n /\ lead = 0 /\ -n \in Int
        BY <2>1
      <4>2. len = Len(ks) - lag - lead
        OBVIOUS
      <4>3. Len(ks) \in Int /\ Len(vs) = Len(ks)
        BY <1>1
      <4>. HIDE DEF lag, lead, len
      <4>. QED
        BY <4>1, <4>2, <4>3
    <3>. HIDE DEF lag, lead, len
    <3>. QED
      BY <2>1, <3>1 DEF ShiftOf
  <2>2. CASE ~ (n < 0)
    <3>1. lag + 1 = 1 /\ lead + 1 = n + 1 /\ lag + len = Len(ks) - n /\ lead + len = Len(vs)
      BY <1>1, <2>2
    <3>. HIDE DEF lag, lead, len
    <3>. QED
      BY <2>2, <3>1 DEF ShiftOf
  <2>. QED
    BY <2>1, <2>2
<1>4. n <= 0 => lead = 0
  OBVIOUS
<1>. HIDE DEF lag, lead, len
<1>5. /\ k2 \in Seq(1..N) /\ Len(k2) = len
      /\ \A i \in 1..len : lag + i \in 1..Len(ks) /\ k2[i] = ks[lag + i]
  BY <1>1, <1>2, Cells
<1>6. /\ v2 \in Seq(Seq(1..N)) /\ Len(v2) = len
      /\ \A i \in 1..len : lead + i \in 1..Len(ks) /\ v2[i] = vs[lead + i]
  BY <1>1, <1>2, Cells
<1>. HIDE DEF k2, v2
<1>7. DOMAIN k2 = 1..len /\ ColumnsOf(N, k2, v2)
  BY <1>5, <1>6, LenProperties DEF ColumnsOf
<1>8. ASSUME NEW i \in 1..len, NEW j \in 1..len, i < j PROVE k2[i] < k2[j]
  <2>1. lag + i < lag + j
    BY <1>2, <1>8
  <2>. QED
    BY <1>1, <1>5, <2>1 DEF Increasing
<1>9. ASSUME n <= 0, Behind(ks, vs), NEW i \in 1..len, NEW q \in DOMAIN v2[i]
      PROVE  v2[i][q] <= k2[i]
  <2>1. v2[i] = vs[i] /\ k2[i] = ks[lag + i] /\ i \in 1..Len(ks) /\ lag + i \in 1..Len(ks)
    <3>1. lead = 0 /\ lead + i = i
      BY <1>4, <1>9
    <3>. QED
      BY <1>5, <1>6, <3>1
  <2>2. vs[i][q] <= ks[i]
    BY <1>1, <1>9, <2>1 DEF Behind
  <2>3. ks[i] <= ks[lag + i] /\ ks[i] \in Int /\ ks[lag + i] \in Int
    <3>1. lag + i = i \/ i < lag + i
      BY <1>2
    <3>2. i < lag + i => ks[i] < ks[lag + i]
      BY <1>1, <2>1 DEF Increasing
    <3>3. ks[i] \in Int /\ ks[lag + i] \in Int
      BY <1>1, <2>1
    <3>. QED
      BY <3>1, <3>2, <3>3
  <2>4. vs[i][q] \in Int
    <3>1. vs[i] \in Seq(1..N) /\ q \in DOMAIN vs[i]
      BY <1>1, <1>9, <2>1
    <3>2. vs[i][q] \in 1..N
      BY <3>1, LenProperties, ElementOfSeq
    <3>. QED
      BY <3>2
  <2>. QED
    BY <2>1, <2>2, <2>3, <2>4
<1>10. ASSUME Stretch(ks, vs, m) PROVE Stretch(k2, v2, m + n)
  <2>1. ASSUME NEW i \in 1..len PROVE v2[i] = <<k2[i] + (m + n)>>
    <3>1. /\ lead + i \in 1..Len(ks) /\ lag + i \in 1..Len(ks)
          /\ v2[i] = vs[lead + i] /\ k2[i] = ks[lag + i]
      BY <1>5, <1>6
    <3>2. vs[lead + i] = <<ks[lead + i] + m>>
      BY <1>1, <1>10, <3>1 DEF Stretch
    <3>3. ks[lead + i] = ks[lag + i] + ((lead + i) - (lag + i))
      BY <1>1, <1>10, <3>1 DEF Stretch
    <3>4. ks[lead + i] + m = ks[lag + i] + (m + n)
      <4>1. ks[lag + i] \in Int /\ (lead + i) - (lag + i) = n
        BY <1>1, <1>2, <3>1
      <4>. QED
        BY <3>3, <4>1
    <3>. QED
      BY <3>1, <3>2, <3>4
  <2>2. ASSUME NEW i \in 1..len, NEW j \in 1..len PROVE k2[j] = k2[i] + (j - i)
    <3>1. /\ lag + i \in 1..Len(ks) /\ lag + j \in 1..Len(ks)
          /\ k2[i] = ks[lag + i] /\ k2[j] = ks[lag + j]
      BY <1>5
    <3>2. ks[lag + j] = ks[lag + i] + ((lag + j) - (lag + i))
      BY <1>1, <1>10, <3>1 DEF Stretch
    <3>3. (lag + j) - (lag + i) = j - i
      BY <1>2
    <3>. QED
      BY <3>1, <3>2, <3>3
  <2>. QED
    BY <1>7, <2>1, <2>2 DEF Stretch
<1>11. Increasing(k2)
  BY <1>7, <1>8 DEF Increasing
<1>12. n <= 0 /\ Behind(ks, vs) => Behind(k2, v2)
  BY <1>7, <1>9 DEF Behind
<1>. QED
  BY <1>3, <1>7, <1>10, <1>11, <1>12

\* The values of two rows, one after the other.
LEMMA ConcatBehind ==
  ASSUME NEW N \in Nat, NEW s \in Seq(1..N), NEW t \in Seq(1..N), NEW p \in Int,
         \A q \in DOMAIN s : s[q] <= p, \A q \in DOMAIN t : t[q] <= p
  PROVE  /\ s \o t \in Seq(1..N)
         /\ \A q \in DOMAIN (s \o t) : (s \o t)[q] <= p
<1>1. /\ Len(s) \in Nat /\ Len(t) \in Nat
      /\ DOMAIN s = 1..Len(s) /\ DOMAIN t = 1..Len(t)
  BY LenProperties
<1>. DEFINE u == s \o t
<1>2. /\ u \in Seq(1..N) /\ Len(u) = Len(s) + Len(t)
      /\ \A q \in 1..(Len(s) + Len(t)) :
           u[q] = IF q <= Len(s) THEN s[q] ELSE t[q - Len(s)]
  BY ConcatProperties
<1>. HIDE DEF u
<1>3. DOMAIN u = 1..(Len(s) + Len(t))
  BY <1>2, LenProperties
<1>4. ASSUME NEW q \in 1..(Len(s) + Len(t)) PROVE u[q] <= p
  <2>1. CASE q <= Len(s)
    <3>1. q \in DOMAIN s
      BY <1>1, <2>1
    <3>. QED
      BY <1>2, <2>1, <3>1
  <2>2. CASE ~ (q <= Len(s))
    <3>1. q - Len(s) \in DOMAIN t
      BY <1>1, <2>2
    <3>. QED
      BY <1>2, <2>2, <3>1
  <2>. QED
    BY <2>1, <2>2
<1>. QED
  BY <1>2, <1>3, <1>4 DEF u

\* skip returns level columns in order, and pairs each value with an earlier one.
LEMMA SkipReturns ==
  ASSUME NEW N \in Nat, NEW ks, NEW vs, ColumnsOf(N, ks, vs), Increasing(ks),
         NEW n \in Nat, Len(ks) >= n
  PROVE  LET skipped == SkipOf(ks, vs, n)
         IN /\ ColumnsOf(N, skipped[1], skipped[2])
            /\ Increasing(skipped[1])
            /\ Behind(ks, vs) => Behind(skipped[1], skipped[2])
<1>. DEFINE len == Len(ks) - n
            k2  == SubSeq(ks, n + 1, Len(ks))
            v2  == [i \in 1..(Len(vs) - n) |-> vs[i + n] \o vs[i]]
<1>1. /\ Len(ks) \in Nat /\ Len(vs) = Len(ks)
      /\ DOMAIN ks = 1..Len(ks) /\ DOMAIN vs = 1..Len(ks)
      /\ \A i \in 1..Len(ks) : ks[i] \in 1..N /\ vs[i] \in Seq(1..N)
      /\ ks \in Seq(1..N)
  BY ColumnFacts DEF ColumnsOf
<1>2. SkipOf(ks, vs, n)[1] = k2 /\ SkipOf(ks, vs, n)[2] = v2
  BY DEF SkipOf
<1>3. len \in Nat /\ Len(vs) - n = len /\ n + len = Len(ks) /\ n <= Len(ks)
  BY <1>1
<1>30. v2 = [i \in 1..len |-> vs[i + n] \o vs[i]]
  BY <1>3
<1>31. Len(ks) - n = len
  OBVIOUS
<1>. HIDE DEF len, v2
<1>4. /\ k2 \in Seq(1..N) /\ Len(k2) = len
      /\ \A i \in 1..len : n + i \in 1..Len(ks) /\ k2[i] = ks[n + i]
  <2>. DEFINE to == Len(ks)
              t  == SubSeq(ks, n + 1, to)
  <2>1. to \in Nat /\ to <= Len(ks) /\ n <= to
    BY <1>1
  <2>. HIDE DEF to
  <2>2. ks \in Seq(1..N) /\ n \in Nat /\ n <= to /\ to <= Len(ks)
    BY <1>1, <2>1
  <2>3. /\ SubSeq(ks, n + 1, to) \in Seq(1..N)
        /\ Len(SubSeq(ks, n + 1, to)) = to - n
        /\ \A i \in 1..(to - n) :
             n + i \in 1..Len(ks) /\ SubSeq(ks, n + 1, to)[i] = ks[n + i]
    BY <2>1, <2>2, Cells
  <2>4. /\ t \in Seq(1..N) /\ Len(t) = to - n
        /\ \A i \in 1..(to - n) : n + i \in 1..Len(ks) /\ t[i] = ks[n + i]
    BY <2>3
  <2>5. t = k2 /\ to - n = len
    BY <1>31 DEF to
  <2>. HIDE DEF k2, t
  <2>. QED
    BY <2>4, <2>5
<1>5. \A i \in 1..len : v2[i] = vs[n + i] \o vs[i] /\ i \in 1..Len(ks)
  <2>1. \A i \in 1..len : v2[i] = vs[i + n] \o vs[i]
    BY <1>30
  <2>2. \A i \in 1..len : i + n = n + i /\ i \in 1..Len(ks)
    BY <1>1, <1>3
  <2>. QED
    BY <2>1, <2>2
<1>6. \A i \in 1..len : v2[i] \in Seq(1..N)
  <2>1. \A i \in 1..len : vs[n + i] \in Seq(1..N) /\ vs[i] \in Seq(1..N)
    BY <1>1, <1>4, <1>5
  <2>2. \A i \in 1..len : vs[n + i] \o vs[i] \in Seq(1..N)
    BY <2>1, ConcatProperties
  <2>. QED
    BY <1>5, <2>2
<1>7. v2 \in Seq(Seq(1..N)) /\ Len(v2) = len
  <2>1. v2 = [i \in 1..len |-> v2[i]]
    BY <1>30
  <2>. QED
    BY <1>3, <1>6, <2>1
<1>. HIDE DEF k2
<1>8. DOMAIN k2 = 1..len /\ ColumnsOf(N, k2, v2)
  BY <1>4, <1>7, LenProperties DEF ColumnsOf
<1>9. ASSUME NEW i \in 1..len, NEW j \in 1..len, i < j PROVE k2[i] < k2[j]
  <2>1. n + i < n + j
    BY <1>9
  <2>. QED
    BY <1>1, <1>4, <2>1 DEF Increasing
<1>10. ASSUME Behind(ks, vs), NEW i \in 1..len
       PROVE  \A q \in DOMAIN v2[i] : v2[i][q] <= k2[i]
  <2>1. ks[i] <= ks[n + i] /\ ks[i] \in Int /\ ks[n + i] \in Int
    <3>1. n + i = i \/ i < n + i
      OBVIOUS
    <3>2. i < n + i => ks[i] < ks[n + i]
      BY <1>1, <1>4, <1>5 DEF Increasing
    <3>3. ks[i] \in Int /\ ks[n + i] \in Int
      BY <1>1, <1>4, <1>5
    <3>. QED
      BY <3>1, <3>2, <3>3
  <2>2. \A q \in DOMAIN vs[n + i] : vs[n + i][q] <= ks[n + i]
    BY <1>1, <1>4, <1>10 DEF Behind
  <2>3. \A q \in DOMAIN vs[i] : vs[i][q] <= ks[n + i]
    <3>1. ASSUME NEW q \in DOMAIN vs[i] PROVE vs[i][q] <= ks[n + i]
      <4>1. vs[i][q] <= ks[i]
        BY <1>1, <1>5, <1>10 DEF Behind
      <4>2. vs[i][q] \in 1..N
        BY <1>1, <1>5, LenProperties, ElementOfSeq
      <4>. QED
        BY <2>1, <4>1, <4>2
    <3>. QED
      BY <3>1
  <2>4. vs[n + i] \in Seq(1..N) /\ vs[i] \in Seq(1..N)
    BY <1>1, <1>4, <1>5
  <2>. QED
    BY <1>4, <1>5, <2>1, <2>2, <2>3, <2>4, ConcatBehind
<1>11. Increasing(k2)
  BY <1>8, <1>9 DEF Increasing
<1>12. Behind(ks, vs) => Behind(k2, v2)
  BY <1>8, <1>10 DEF Behind
<1>. QED
  BY <1>2, <1>8, <1>11, <1>12

\* The row skip_on_index pairs a row with is not after it.
LEMMA PriorIsBefore ==
  ASSUME source \in Seq(Int), NEW ks, NEW vs,
         ColumnsOf(Len(source), ks, vs), Increasing(ks), Sorted(source),
         NEW i \in 1..Len(ks), NEW span \in Nat, NEW p \in Prior(ks, i, span)
  PROVE  p <= i
<1>. DEFINE date == Dates(ks)
            d    == source[ks[i]] - span
<1>1. /\ date \in Seq(Int) /\ DOMAIN date = 1..Len(ks) /\ Len(ks) \in Nat
      /\ Sorted(date) /\ date[i] = source[ks[i]] /\ source[ks[i]] \in Int
  BY DatesSorted, ColumnFacts
<1>2. d \in Int /\ d <= date[i]
  BY <1>1
<1>3. p = LowerBound(date, d) /\ p \in 1..Len(ks)
  BY <1>1 DEF Prior, Locate
<1>. HIDE DEF date, d
<1>4. Splits(date, d, p)
  BY <1>1, <1>2, <1>3, LowerBoundSplits
<1>5. i < p => date[i] < d
  BY <1>1, <1>4 DEF Splits
<1>6. date[i] \in Int
  BY <1>1
<1>. QED
  BY <1>2, <1>3, <1>5, <1>6

\* skip_on_index returns level columns in order, and pairs each value with an earlier one.
LEMMA SkipOnIndexReturns ==
  ASSUME source \in Seq(Int), NEW ks, NEW vs,
         ColumnsOf(Len(source), ks, vs), Increasing(ks), NEW span \in Nat
  PROVE  LET skipped == SkipOnIndexOf(ks, vs, span)
         IN /\ ColumnsOf(Len(source), skipped[1], skipped[2])
            /\ Increasing(skipped[1])
            /\ Sorted(source) /\ Behind(ks, vs) => Behind(skipped[1], skipped[2])
<1>. DEFINE N      == Len(source)
            found  == [i \in 1..Len(ks) |-> Prior(ks, i, span)]
            row(i) == CHOOSE p \in found[i] : TRUE
            pair   == [i \in 1..Len(ks) |->
                         IF found[i] = {} THEN <<>> ELSE vs[i] \o vs[row(i)]]
            chosen == {i \in DOMAIN ks : found[i] # {}}
<1>1. /\ Len(ks) \in Nat /\ Len(vs) = Len(ks) /\ N \in Nat
      /\ DOMAIN ks = 1..Len(ks) /\ DOMAIN vs = 1..Len(ks)
      /\ \A i \in 1..Len(ks) : ks[i] \in 1..N /\ vs[i] \in Seq(1..N)
      /\ ks \in Seq(1..N)
  BY ColumnFacts, LenProperties DEF ColumnsOf
<1>2. SkipOnIndexOf(ks, vs, span) = Rows(ks, pair, chosen)
  BY DEF SkipOnIndexOf
<1>3. ASSUME NEW i \in 1..Len(ks), found[i] # {}
      PROVE  row(i) \in Prior(ks, i, span) /\ row(i) \in 1..Len(ks)
  <2>1. row(i) \in Prior(ks, i, span)
    BY <1>3
  <2>2. DOMAIN Dates(ks) = 1..Len(ks)
    BY DatesSorted
  <2>. QED
    BY <2>1, <2>2 DEF Prior, Locate
<1>4. \A i \in 1..Len(ks) :
        pair[i] = IF found[i] = {} THEN <<>> ELSE vs[i] \o vs[row(i)]
  OBVIOUS
<1>5. pair = [i \in 1..Len(ks) |-> pair[i]]
  OBVIOUS
<1>6. PositionsIn(chosen, Len(ks))
  BY <1>1 DEF PositionsIn
<1>. HIDE DEF N, found, row, pair, chosen
<1>7. ASSUME NEW i \in 1..Len(ks) PROVE pair[i] \in Seq(1..N)
  <2>1. CASE found[i] = {}
    BY <1>4, <2>1, EmptySeq
  <2>2. CASE found[i] # {}
    BY <1>1, <1>3, <1>4, <2>2, ConcatProperties
  <2>. QED
    BY <2>1, <2>2
<1>8. pair \in Seq(Seq(1..N)) /\ Len(pair) = Len(ks)
  BY <1>1, <1>5, <1>7
<1>9. ColumnsOf(N, ks, pair)
  BY <1>1, <1>8 DEF ColumnsOf
<1>10. ASSUME Sorted(source), Behind(ks, vs) PROVE Behind(ks, pair)
  <2>1. ASSUME NEW i \in 1..Len(ks) PROVE \A q \in DOMAIN pair[i] : pair[i][q] <= ks[i]
    <3>1. CASE found[i] = {}
      <4>1. DOMAIN pair[i] = {}
        BY <1>4, <3>1
      <4>. QED
        BY <4>1
    <3>2. CASE found[i] # {}
      <4>. DEFINE p == row(i)
      <4>1. p \in Prior(ks, i, span) /\ p \in 1..Len(ks)
        BY <1>3, <3>2
      <4>. HIDE DEF p
      <4>2. p <= i
        BY <1>10, <4>1, PriorIsBefore DEF N
      <4>3. ks[p] <= ks[i] /\ ks[p] \in Int /\ ks[i] \in Int
        <5>1. p = i \/ p < i
          BY <1>1, <4>1, <4>2
        <5>2. p < i => ks[p] < ks[i]
          BY <1>1, <4>1 DEF Increasing
        <5>3. ks[p] \in Int /\ ks[i] \in Int
          BY <1>1, <4>1
        <5>. QED
          BY <5>1, <5>2, <5>3
      <4>4. \A q \in DOMAIN vs[i] : vs[i][q] <= ks[i]
        BY <1>1, <1>10 DEF Behind
      <4>5. \A q \in DOMAIN vs[p] : vs[p][q] <= ks[i]
        <5>1. ASSUME NEW q \in DOMAIN vs[p] PROVE vs[p][q] <= ks[i]
          <6>1. vs[p][q] <= ks[p]
            BY <1>1, <1>10, <4>1 DEF Behind
          <6>2. vs[p][q] \in 1..N
            BY <1>1, <4>1, LenProperties, ElementOfSeq
          <6>3. vs[p][q] \in Int
            BY <6>2
          <6>. QED
            BY <4>3, <6>1, <6>3
        <5>. QED
          BY <5>1
      <4>6. vs[i] \in Seq(1..N) /\ vs[p] \in Seq(1..N)
        BY <1>1, <4>1
      <4>7. pair[i] = vs[i] \o vs[p]
        BY <1>4, <3>2 DEF p
      <4>. QED
        BY <1>1, <4>3, <4>4, <4>5, <4>6, <4>7, ConcatBehind
    <3>. QED
      BY <3>1, <3>2
  <2>. QED
    BY <1>1, <2>1 DEF Behind
<1>11. ColumnsOf(N, Rows(ks, pair, chosen)[1], Rows(ks, pair, chosen)[2])
  BY <1>6, <1>9, RowsPick
<1>12. Increasing(Rows(ks, pair, chosen)[1])
  BY <1>6, <1>9, RowsIncrease
<1>13. Sorted(source) /\ Behind(ks, vs)
         => Behind(Rows(ks, pair, chosen)[1], Rows(ks, pair, chosen)[2])
  BY <1>1, <1>6, <1>9, <1>10, RowsBehind
<1>. QED
  BY <1>2, <1>11, <1>12, <1>13 DEF N
-----------------------------------------------------------------------------
(* The invariant.  Sums of indices are only about stretches of the source, *)
(* so it says of any two rows how far apart they are.                      *)

IInv ==
  /\ TypeOK
  /\ Increasing(keys)
  /\ ~ahead /\ Sorted(source) => Behind(keys, values)
  /\ onlyShifts => Stretch(keys, values, net)

\* The source is a sequence of numbers.
LEMMA SourceType ==
  ASSUME source \in Sources
  PROVE  source \in Seq(Int) /\ Len(source) \in Nat
<1>1. source \in Seq(Key) /\ Key \subseteq Int
  BY KeyAssumption, SourcesAssumption
<1>2. /\ Len(source) \in Nat /\ source = [p \in 1..Len(source) |-> source[p]]
      /\ \A p \in 1..Len(source) : source[p] \in Int
  BY <1>1, LenProperties, ElementOfSeq
<1>. QED
  BY <1>2

\* A source as it is.
LEMMA InitIInv == Init => IInv
<1>. SUFFICES ASSUME Init PROVE IInv
  OBVIOUS
<1>. DEFINE N == Len(source)
<1>1. source \in Sources /\ N \in Nat /\ MaxOps \in Nat
  BY SourceType, MaxOpsAssumption DEF Init
<1>. HIDE DEF N
<1>2. keys = [p \in 1..N |-> p] /\ values = [p \in 1..N |-> <<p>>]
  BY DEF Init, Positions, N
<1>3. \A p \in 1..N : <<p>> \in Seq(1..N)
  OBVIOUS
<1>4. /\ keys \in Seq(1..N) /\ values \in Seq(Seq(1..N))
      /\ Len(keys) = N /\ Len(values) = N /\ DOMAIN keys = 1..N
  BY <1>1, <1>2, <1>3
<1>5. \A p \in 1..N : keys[p] = p /\ values[p] = <<p>> /\ p \in Int
  BY <1>2
<1>6. ops = 0 /\ ahead = FALSE /\ net = 0 /\ onlyShifts = TRUE
  BY DEF Init
<1>7. TypeOK
  <2>1. ops \in 0..MaxOps /\ net \in Int /\ ahead \in BOOLEAN /\ onlyShifts \in BOOLEAN
    <3>1. ops \in 0..MaxOps /\ net \in Int
      BY <1>1, <1>6
    <3>2. ahead \in BOOLEAN /\ onlyShifts \in BOOLEAN
      BY <1>6
    <3>. QED
      BY <3>1, <3>2
  <2>2. keys \in Seq(1..Len(source)) /\ values \in Seq(Seq(1..Len(source)))
    BY <1>4 DEF N
  <2>. QED
    BY <1>1, <1>4, <2>1, <2>2 DEF TypeOK
<1>8. Increasing(keys)
  BY <1>4, <1>5 DEF Increasing
<1>9. Behind(keys, values)
  <2>1. ASSUME NEW p \in 1..N PROVE \A q \in DOMAIN values[p] : values[p][q] <= keys[p]
    <3>1. DOMAIN <<p>> = {1} /\ <<p>>[1] = p /\ p <= p
      OBVIOUS
    <3>. QED
      BY <1>5, <3>1
  <2>. QED
    BY <1>4, <2>1 DEF Behind
<1>10. Stretch(keys, values, net)
  <2>1. \A p \in 1..N : values[p] = <<keys[p] + net>>
    <3>1. \A p \in 1..N : p + 0 = p
      OBVIOUS
    <3>. QED
      BY <1>5, <1>6, <3>1
  <2>2. \A p, q \in 1..N : keys[q] = keys[p] + (q - p)
    BY <1>5
  <2>. QED
    BY <1>4, <2>1, <2>2 DEF Stretch
<1>. QED
  BY <1>7, <1>8, <1>9, <1>10 DEF IInv

\* What is left to show of an operation: that its columns are columns again.
LEMMA BecomesIInv ==
  ASSUME IInv, NEW columns, Becomes(columns),
         ColumnsOf(Len(source), columns[1], columns[2]),
         Increasing(columns[1]),
         ahead' \in BOOLEAN, net' \in Int, onlyShifts' \in BOOLEAN,
         ~ahead' /\ Sorted(source) => Behind(columns[1], columns[2]),
         onlyShifts' => Stretch(columns[1], columns[2], net')
  PROVE  IInv'
<1>1. source' = source /\ keys' = columns[1] /\ values' = columns[2]
  BY DEF Becomes
<1>2. ops' \in 0..MaxOps
  <2>1. ops \in 0..MaxOps /\ ops < MaxOps /\ ops' = ops + 1
    BY DEF Becomes, IInv, TypeOK
  <2>. QED
    BY <2>1, MaxOpsAssumption
<1>3. source \in Sources
  BY DEF IInv, TypeOK
<1>4. TypeOK'
  BY <1>1, <1>2, <1>3 DEF TypeOK, ColumnsOf
<1>5. (~ahead /\ Sorted(source) => Behind(keys, values))'
  BY <1>1 DEF Sorted, Behind
<1>6. Increasing(keys)'
  BY <1>1 DEF Increasing
<1>7. (onlyShifts => Stretch(keys, values, net))'
  BY <1>1 DEF Stretch
<1>. QED
  BY <1>4, <1>5, <1>6, <1>7 DEF IInv

\* Every transformation preserves the invariant.
LEMMA NextIInv == IInv /\ [Next]_vars => IInv'
<1>. SUFFICES ASSUME IInv, [Next]_vars PROVE IInv'
  OBVIOUS
<1>. DEFINE N == Len(source)
<1>1. /\ source \in Seq(Int) /\ N \in Nat
      /\ ColumnsOf(N, keys, values) /\ Increasing(keys)
      /\ ahead \in BOOLEAN /\ net \in Int /\ onlyShifts \in BOOLEAN
  BY SourceType DEF IInv, TypeOK, ColumnsOf
<1>2. /\ Len(keys) \in Nat /\ DOMAIN keys = 1..Len(keys) /\ Len(values) = Len(keys)
      /\ values = [i \in 1..Len(values) |-> values[i]]
  BY <1>1, ColumnFacts
<1>3. /\ ~ahead /\ Sorted(source) => Behind(keys, values)
      /\ onlyShifts => Stretch(keys, values, net)
  BY DEF IInv
<1>4. ASSUME NEW startdt \in Key, NEW enddt \in Key, Between(startdt, enddt) PROVE IInv'
  <2>. DEFINE columns == BetweenOf(keys, values, startdt, enddt)
  <2>1. startdt \in Int /\ enddt \in Int
    BY KeyAssumption
  <2>2. PICK chosen : columns = Rows(keys, values, chosen) /\ PositionsIn(chosen, Len(keys))
    BY <1>1, <2>1, BetweenChooses
  <2>3. Becomes(columns) /\ ahead' = ahead /\ net' = net /\ onlyShifts' = FALSE
    BY <1>4 DEF Between, KeepsHistory
  <2>. HIDE DEF columns
  <2>4. /\ ColumnsOf(N, columns[1], columns[2]) /\ Increasing(columns[1])
        /\ Behind(keys, values) => Behind(columns[1], columns[2])
    BY <1>1, <2>2, RowsPick, RowsIncrease, RowsBehind
  <2>. QED
    BY <1>1, <1>3, <2>3, <2>4, BecomesIInv
<1>5. ASSUME NEW kept \in SUBSET (1..Len(source)), Where(kept) PROVE IInv'
  <2>. DEFINE columns == WhereOf(keys, values, kept)
              chosen  == {i \in DOMAIN keys : keys[i] \in kept}
  <2>1. PositionsIn(chosen, Len(keys))
    BY <1>2 DEF PositionsIn
  <2>2. columns = Rows(keys, values, chosen)
    BY DEF WhereOf
  <2>3. Becomes(columns) /\ ahead' = ahead /\ net' = net /\ onlyShifts' = FALSE
    BY <1>5 DEF Where, KeepsHistory
  <2>. HIDE DEF columns, chosen
  <2>4. /\ ColumnsOf(N, columns[1], columns[2]) /\ Increasing(columns[1])
        /\ Behind(keys, values) => Behind(columns[1], columns[2])
    BY <1>1, <2>1, <2>2, RowsPick, RowsIncrease, RowsBehind
  <2>. QED
    BY <1>1, <1>3, <2>3, <2>4, BecomesIInv
<1>6. ASSUME Map PROVE IInv'
  <2>. DEFINE columns == MapOf(keys, values)
  <2>1. columns = <<keys, values>>
    BY <1>2 DEF MapOf
  <2>2. Becomes(columns) /\ ahead' = ahead /\ net' = net /\ onlyShifts' = onlyShifts
    BY <1>6 DEF Map
  <2>. HIDE DEF columns
  <2>3. columns[1] = keys /\ columns[2] = values
    BY <2>1
  <2>. QED
    BY <1>1, <1>3, <2>2, <2>3, BecomesIInv
<1>7. ASSUME Fold PROVE IInv'
  <2>. DEFINE columns == FoldOf(keys, values)
  <2>1. columns = <<keys, values>>
    BY <1>2 DEF FoldOf
  <2>2. Becomes(columns) /\ ahead' = ahead /\ net' = net /\ onlyShifts' = onlyShifts
    BY <1>7 DEF Fold
  <2>. HIDE DEF columns
  <2>3. columns[1] = keys /\ columns[2] = values
    BY <2>1
  <2>. QED
    BY <1>1, <1>3, <2>2, <2>3, BecomesIInv
<1>8. ASSUME NEW n \in (-Len(keys))..Len(keys), Shift(n) PROVE IInv'
  <2>. DEFINE columns == ShiftOf(keys, values, n)
  <2>1. n \in Int
    BY <1>2
  <2>2. /\ Becomes(columns) /\ Len(keys) >= (IF n < 0 THEN -n ELSE n)
        /\ ahead' = (ahead \/ n > 0) /\ net' = net + n /\ onlyShifts' = onlyShifts
    BY <1>8 DEF Shift
  <2>3. /\ ColumnsOf(N, columns[1], columns[2]) /\ Increasing(columns[1])
        /\ n <= 0 /\ Behind(keys, values) => Behind(columns[1], columns[2])
        /\ Stretch(keys, values, net) => Stretch(columns[1], columns[2], net + n)
    BY <1>1, <2>1, <2>2, ShiftReturns
  <2>. HIDE DEF columns
  <2>4. ~ahead' => ~ahead /\ n <= 0
    <3>1. n > 0 \/ n <= 0
      BY <2>1
    <3>. QED
      BY <2>2, <3>1
  <2>5. ahead' \in BOOLEAN /\ net' \in Int
    BY <1>1, <2>1, <2>2
  <2>. QED
    BY <1>1, <1>3, <2>2, <2>3, <2>4, <2>5, BecomesIInv
<1>9. ASSUME NEW n \in 0..Len(keys), Skip(n) PROVE IInv'
  <2>. DEFINE columns == SkipOf(keys, values, n)
  <2>1. n \in Nat
    BY <1>2
  <2>2. /\ Becomes(columns) /\ Len(keys) >= n
        /\ ahead' = ahead /\ net' = net /\ onlyShifts' = FALSE
    BY <1>9 DEF Skip, KeepsHistory
  <2>3. /\ ColumnsOf(N, columns[1], columns[2]) /\ Increasing(columns[1])
        /\ Behind(keys, values) => Behind(columns[1], columns[2])
    BY <1>1, <2>1, <2>2, SkipReturns
  <2>. HIDE DEF columns
  <2>. QED
    BY <1>1, <1>3, <2>2, <2>3, BecomesIInv
<1>10. ASSUME NEW span \in Spans, SkipOnIndex(span) PROVE IInv'
  <2>. DEFINE columns == SkipOnIndexOf(keys, values, span)
  <2>1. span \in Nat
    BY SpansAssumption
  <2>2. Becomes(columns) /\ ahead' = ahead /\ net' = net /\ onlyShifts' = FALSE
    BY <1>10 DEF SkipOnIndex, KeepsHistory
  <2>3. /\ ColumnsOf(N, columns[1], columns[2]) /\ Increasing(columns[1])
        /\ Sorted(source) /\ Behind(keys, values) => Behind(columns[1], columns[2])
    BY <1>1, <2>1, SkipOnIndexReturns
  <2>. HIDE DEF columns
  <2>. QED
    BY <1>1, <1>3, <2>2, <2>3, BecomesIInv
<1>11. CASE UNCHANGED vars
  <2>1. /\ source' = source /\ keys' = keys /\ values' = values /\ ops' = ops
        /\ ahead' = ahead /\ net' = net /\ onlyShifts' = onlyShifts
    BY <1>11 DEF vars
  <2>. QED
    BY <2>1 DEF IInv, TypeOK, Sorted, Increasing, Behind, Stretch
<1>. QED
  BY <1>4, <1>5, <1>6, <1>7, <1>8, <1>9, <1>10, <1>11 DEF Next

\* The invariant holds throughout.
LEMMA Invariance == Spec => []IInv
BY InitIInv, NextIInv, PTL DEF Spec

\* Whatever is applied in whatever order, the columns stay of one length and hold
\* positions of the source.
THEOREM TypeCorrect == Spec => []TypeOK
<1>1. IInv => TypeOK
  BY DEF IInv
<1>. QED
  BY <1>1, Invariance, PTL

\* No operation reorders or repeats a row, and without a forward shift no value
\* depends on a row after its own, for series of any length.
THEOREM NothingLooksAhead == Spec => []NoLookAhead
<1>1. IInv => NoLookAhead
  <2>. SUFFICES ASSUME IInv PROVE NoLookAhead
    OBVIOUS
  <2>1. /\ source \in Seq(Int) /\ ColumnsOf(Len(source), keys, values)
        /\ Increasing(keys)
    BY SourceType DEF IInv, TypeOK, ColumnsOf
  <2>2. Sorted(source) => Sorted(Dates(keys))
    BY <2>1, DatesSorted
  <2>. QED
    BY <2>2 DEF IInv, NoLookAhead, Increasing, Behind
<1>. QED
  BY <1>1, Invariance, PTL

\* Any number of shifts is one shift by the sum of their indices.
THEOREM ShiftsAdd == Spec => []ShiftsAddUp
<1>1. IInv => ShiftsAddUp
  <2>. SUFFICES ASSUME IInv, onlyShifts PROVE ShiftsAddUp
    BY DEF ShiftsAddUp
  <2>1. Stretch(keys, values, net) /\ ColumnsOf(Len(source), keys, values)
    BY DEF IInv, TypeOK, ColumnsOf
  <2>2. Len(keys) \in Nat /\ DOMAIN keys = 1..Len(keys)
    BY <2>1, ColumnFacts
  <2>3. ASSUME NEW i \in 1..(Len(keys) - 1) PROVE keys[i + 1] = keys[i] + 1
    <3>1. i \in DOMAIN keys /\ i + 1 \in DOMAIN keys /\ (i + 1) - i = 1
      BY <2>2
    <3>. QED
      BY <2>1, <3>1 DEF Stretch
  <2>. QED
    BY <2>1, <2>3 DEF ShiftsAddUp, Stretch
<1>. QED
  BY <1>1, Invariance, PTL
-----------------------------------------------------------------------------
(* between as a filter. *)

\* What is left after where, in the range of between, is what is left of it after where.
LEMMA WhereOfRows ==
  ASSUME source \in Seq(Int), NEW ks, NEW vs,
         ColumnsOf(Len(source), ks, vs), Increasing(ks), Sorted(source),
         NEW a \in Int, NEW b \in Int, NEW kept
  PROVE  WhereOf(BetweenOf(ks, vs, a, b)[1], BetweenOf(ks, vs, a, b)[2], kept)
           = BetweenOf(WhereOf(ks, vs, kept)[1], WhereOf(ks, vs, kept)[2], a, b)
<1>. DEFINE N     == Len(source)
            range == InRange(ks, a, b)
            match == {i \in DOMAIN ks : ks[i] \in kept}
            ranged  == Rows(ks, vs, range)
            matched == Rows(ks, vs, match)
            first  == {n \in DOMAIN ranged[1] : ranged[1][n] \in kept}
            second == InRange(matched[1], a, b)
<1>1. DOMAIN ks = 1..Len(ks) /\ Len(ks) \in Nat
  BY ColumnFacts
<1>2. PositionsIn(range, Len(ks)) /\ PositionsIn(match, Len(ks))
  BY <1>1 DEF PositionsIn, InRange
<1>3. BetweenOf(ks, vs, a, b) = ranged /\ WhereOf(ks, vs, kept) = matched
  BY BetweenOnSorted DEF WhereOf
<1>4. \A i : i \in range <=> i \in DOMAIN ks /\ a <= source[ks[i]] /\ source[ks[i]] <= b
  BY DEF InRange
<1>5. \A i : i \in match <=> i \in DOMAIN ks /\ ks[i] \in kept
  OBVIOUS
<1>. HIDE DEF range, match
<1>6. /\ ColumnsOf(N, ranged[1], ranged[2]) /\ DOMAIN ranged[1] = 1..Cardinality(range)
      /\ \A n \in 1..Cardinality(range) :
           Nth(range, n) \in range /\ ranged[1][n] = ks[Nth(range, n)]
  BY <1>2, RowsPick, ColumnFacts
<1>7. /\ ColumnsOf(N, matched[1], matched[2]) /\ DOMAIN matched[1] = 1..Cardinality(match)
      /\ \A n \in 1..Cardinality(match) :
           Nth(match, n) \in match /\ matched[1][n] = ks[Nth(match, n)]
  BY <1>2, RowsPick, ColumnFacts
<1>8. Increasing(matched[1])
  BY <1>2, RowsIncrease
<1>9. WhereOf(ranged[1], ranged[2], kept) = Rows(ranged[1], ranged[2], first)
  BY DEF WhereOf
<1>. HIDE DEF N
<1>10. first = Those(range, match)
  <2>. HIDE DEF ranged
  <2>. QED
    BY <1>4, <1>5, <1>6 DEF Those
<1>11. second = Those(match, range)
  <2>. HIDE DEF matched
  <2>. QED
    BY <1>4, <1>5, <1>7 DEF InRange, Those
<1>. HIDE DEF first, second
<1>12. Rows(ranged[1], ranged[2], first) = Rows(ks, vs, range \cap match)
  BY <1>2, <1>10, RowsOfRows
<1>13. Rows(matched[1], matched[2], second) = Rows(ks, vs, match \cap range)
  BY <1>2, <1>11, RowsOfRows
<1>14. BetweenOf(matched[1], matched[2], a, b) = Rows(matched[1], matched[2], second)
  <2>. HIDE DEF matched
  <2>. QED
    BY <1>7, <1>8, BetweenOnSorted DEF N, second
<1>15. range \cap match = match \cap range
  OBVIOUS
<1>. HIDE DEF ranged, matched
<1>. QED
  BY <1>3, <1>9, <1>12, <1>13, <1>14, <1>15

\* On sorted keys of any number between returns what is in its range, and it does not
\* matter whether where comes before it or after it.
THEOREM BetweenFilters == Spec => []BetweenIsFilter
<1>1. IInv => BetweenIsFilter
  <2>. SUFFICES ASSUME IInv, NEW a \in Key, NEW b \in Key
                PROVE  LET range   == InRange(keys, a, b)
                           between == BetweenOf(keys, values, a, b)
                       IN /\ \A n \in DOMAIN between[1] :
                               \E i \in range : between[1][n] = keys[i]
                          /\ Sorted(source) =>
                               /\ between = Rows(keys, values, range)
                               /\ \A kept \in SUBSET (1..Len(source)) :
                                    WhereOf(between[1], between[2], kept)
                                      = BetweenOf(WhereOf(keys, values, kept)[1],
                                                  WhereOf(keys, values, kept)[2], a, b)
    BY DEF BetweenIsFilter, InRange
  <2>1. /\ source \in Seq(Int) /\ ColumnsOf(Len(source), keys, values)
        /\ Increasing(keys) /\ a \in Int /\ b \in Int
    BY SourceType, KeyAssumption DEF IInv, TypeOK, ColumnsOf
  <2>2. PICK chosen : /\ BetweenOf(keys, values, a, b) = Rows(keys, values, chosen)
                      /\ PositionsIn(chosen, Len(keys))
                      /\ chosen \subseteq InRange(keys, a, b)
    BY <2>1, BetweenChooses
  <2>3. ASSUME NEW n \in DOMAIN BetweenOf(keys, values, a, b)[1]
        PROVE  \E i \in InRange(keys, a, b) : BetweenOf(keys, values, a, b)[1][n] = keys[i]
    <3>1. /\ n \in 1..Cardinality(chosen)
          /\ BetweenOf(keys, values, a, b)[1][n] = keys[Nth(chosen, n)]
          /\ Nth(chosen, n) \in chosen
      BY <2>1, <2>2, <2>3, RowsPick, ColumnFacts
    <3>. QED
      BY <2>2, <3>1
  <2>4. ASSUME Sorted(source)
        PROVE  BetweenOf(keys, values, a, b) = Rows(keys, values, InRange(keys, a, b))
    BY <2>1, <2>4, BetweenOnSorted
  <2>. QED
    BY <2>1, <2>3, <2>4, WhereOfRows
<1>. QED
  BY <1>1, Invariance, PTL

-----------------------------------------------------------------------------
(* The lookups. *)

\* The least element is unique.
LEMMA LowestIs ==
  ASSUME NEW S \in SUBSET Int, NEW i \in S, \A j \in S : i <= j
  PROVE  Lowest(S) = i
<1>. DEFINE IsLowest(l) == l \in S /\ \A j \in S : l <= j
<1>1. IsLowest(i)
  OBVIOUS
<1>2. Lowest(S) = CHOOSE l : IsLowest(l)
  BY DEF Lowest
<1>. HIDE DEF IsLowest
<1>3. IsLowest(Lowest(S))
  BY <1>1, <1>2
<1>4. Lowest(S) \in S /\ \A j \in S : Lowest(S) <= j
  BY <1>3 DEF IsLowest
<1>5. Lowest(S) \in Int /\ i \in Int
  BY <1>4
<1>. QED
  BY <1>4, <1>5

\* The greatest element is unique.
LEMMA HighestIs ==
  ASSUME NEW S \in SUBSET Int, NEW i \in S, \A j \in S : i >= j
  PROVE  Highest(S) = i
<1>. DEFINE IsHighest(l) == l \in S /\ \A j \in S : l >= j
<1>1. IsHighest(i)
  OBVIOUS
<1>2. Highest(S) = CHOOSE l : IsHighest(l)
  BY DEF Highest
<1>. HIDE DEF IsHighest
<1>3. IsHighest(Highest(S))
  BY <1>1, <1>2
<1>4. Highest(S) \in S /\ \A j \in S : Highest(S) >= j
  BY <1>3 DEF IsHighest
<1>5. Highest(S) \in Int /\ i \in Int
  BY <1>4
<1>. QED
  BY <1>4, <1>5

\* at finds a row of the key or throws; on sorted keys it throws only if there is none.
LEMMA AtIs ==
  ASSUME NEW s \in Seq(Int), NEW d \in Int,
         NEW hits, hits = {i \in DOMAIN s : s[i] = d}
  PROVE  /\ At(s, d) \in hits \cup {Throw}
         /\ Sorted(s) => At(s, d) = IF hits = {} THEN Throw ELSE Lowest(hits)
<1>. DEFINE p == LowerBound(s, d)
<1>1. /\ Len(s) \in Nat /\ DOMAIN s = 1..Len(s)
      /\ \A i \in DOMAIN s : s[i] \in Int
  BY LenProperties, ElementOfSeq
<1>2. CASE p \in DOMAIN s /\ s[p] = d
  <2>1. Locate(s, d) = {p}
    BY <1>2 DEF Locate
  <2>2. At(s, d) = p
    BY <2>1 DEF At
  <2>3. p \in hits
    BY <1>2
  <2>4. ASSUME Sorted(s), NEW i \in hits PROVE p <= i
    <3>1. Splits(s, d, p)
      BY <2>4, LowerBoundSplits
    <3>2. i \in DOMAIN s /\ s[i] = d
      OBVIOUS
    <3>3. ~ (i < p)
      BY <1>1, <3>1, <3>2 DEF Splits
    <3>. QED
      BY <1>1, <1>2, <3>2, <3>3
  <2>5. hits \in SUBSET Int
    BY <1>1
  <2>6. Sorted(s) => Lowest(hits) = p
    BY <2>3, <2>4, <2>5, LowestIs
  <2>. QED
    BY <2>2, <2>3, <2>6
<1>3. CASE ~ (p \in DOMAIN s /\ s[p] = d)
  <2>1. Locate(s, d) = {}
    BY <1>3 DEF Locate
  <2>2. At(s, d) = Throw
    BY <2>1 DEF At
  <2>3. ASSUME Sorted(s), NEW i \in hits PROVE FALSE
    <3>1. Splits(s, d, p)
      BY <2>3, LowerBoundSplits
    <3>2. i \in DOMAIN s /\ s[i] = d
      OBVIOUS
    <3>3. ~ (i < p) /\ p \in 1..(Len(s) + 1)
      BY <1>1, <3>1, <3>2 DEF Splits
    <3>4. p \in DOMAIN s /\ p <= i
      BY <1>1, <3>2, <3>3
    <3>5. s[p] <= d /\ s[p] >= d
      <4>1. s[p] <= s[i]
        BY <2>3, <3>2, <3>4 DEF Sorted
      <4>2. s[p] >= d
        <5>1. ~ (p < p)
          BY <1>1, <3>4
        <5>. QED
          BY <3>1, <3>4, <5>1 DEF Splits
      <4>. QED
        BY <3>2, <4>1, <4>2
    <3>. QED
      BY <1>1, <1>3, <3>4, <3>5
  <2>. QED
    BY <2>2, <2>3
<1>. QED
  BY <1>2, <1>3

\* at_or_first_following finds the first row that is not before the time.
LEMMA FollowingIs ==
  ASSUME NEW s \in Seq(Int), NEW d \in Int
  PROVE  /\ AtOrFirstFollowing(s, d) \in From(s, d) \cup {Throw}
         /\ AtOrFirstFollowing(s, d)
              = IF From(s, d) = {} THEN Throw ELSE Lowest(From(s, d))
<1>. DEFINE i == FirstKey(s, From(s, d))
<1>1. /\ From(s, d) \in SUBSET (DOMAIN s) /\ From(s, d) \in SUBSET Int
  BY LenProperties DEF From
<1>2. /\ i \in DOMAIN s <=> From(s, d) # {}
      /\ From(s, d) # {} => i \in From(s, d)
      /\ \A h \in From(s, d) : i <= h
  BY <1>1, FirstHit
<1>3. AtOrFirstFollowing(s, d) = IF i \in DOMAIN s THEN i ELSE Throw
  BY DEF AtOrFirstFollowing
<1>. HIDE DEF i
<1>4. From(s, d) # {} => Lowest(From(s, d)) = i
  BY <1>1, <1>2, LowestIs
<1>. QED
  BY <1>2, <1>3, <1>4

\* at_or_first_prior stays in the columns unless they are empty, and on sorted keys finds
\* the last row that is not after the time.
LEMMA PriorIs ==
  ASSUME NEW s \in Seq(Int), NEW d \in Int,
         NEW hits, hits = {i \in DOMAIN s : s[i] <= d}
  PROVE  /\ AtOrFirstPrior(s, d) \in DOMAIN s \cup {Throw} <=> s # <<>>
         /\ Sorted(s) /\ s # <<>> =>
              AtOrFirstPrior(s, d) = IF hits = {} THEN Throw ELSE Highest(hits)
<1>. DEFINE i == FirstKey(s, After(s, d))
<1>1. /\ Len(s) \in Nat /\ DOMAIN s = 1..Len(s)
      /\ \A j \in DOMAIN s : s[j] \in Int
      /\ s = <<>> <=> Len(s) = 0
  BY LenProperties, ElementOfSeq, EmptySeq
<1>2. After(s, d) \in SUBSET (DOMAIN s)
  BY DEF After
<1>3. /\ i \in 1..(Len(s) + 1)
      /\ i \in DOMAIN s => i \in After(s, d)
      /\ \A h \in After(s, d) : i <= h
  BY <1>2, FirstHit
<1>4. AtOrFirstPrior(s, d) = IF i \in DOMAIN s /\ i = 1 THEN Throw ELSE i - 1
  BY DEF AtOrFirstPrior
<1>. HIDE DEF i
<1>5. \A j \in DOMAIN s : j \in hits <=> j \notin After(s, d)
  BY <1>1 DEF After
<1>6. hits \in SUBSET Int
  BY <1>1
<1>7. CASE s = <<>>
  <2>1. i - 1 = 0 /\ DOMAIN s = {} /\ Throw # 0
    BY <1>1, <1>3, <1>7 DEF Throw
  <2>. QED
    BY <1>4, <1>7, <2>1
<1>8. CASE s # <<>> /\ i = 1
  <2>1. i \in DOMAIN s
    BY <1>1, <1>8
  <2>2. AtOrFirstPrior(s, d) = Throw
    BY <1>4, <1>8, <2>1
  <2>3. ASSUME Sorted(s), NEW j \in hits PROVE FALSE
    <3>1. j \in DOMAIN s /\ s[j] <= d /\ 1 <= j
      BY <1>1
    <3>2. s[1] > d
      BY <1>3, <1>8, <2>1 DEF After
    <3>3. s[1] <= s[j]
      BY <1>8, <2>1, <2>3, <3>1 DEF Sorted
    <3>. QED
      BY <1>1, <1>8, <2>1, <3>1, <3>2, <3>3
  <2>. QED
    BY <1>8, <2>2, <2>3
<1>9. CASE s # <<>> /\ i # 1
  <2>. DEFINE p == i - 1
  <2>1. p \in DOMAIN s /\ p < i /\ p \in Int
    BY <1>1, <1>3, <1>9
  <2>2. AtOrFirstPrior(s, d) = p
    BY <1>4, <1>9
  <2>3. p \in hits
    <3>1. ~ (i <= p)
      BY <1>3, <2>1
    <3>. QED
      BY <1>3, <1>5, <2>1, <3>1
  <2>4. ASSUME Sorted(s), NEW j \in hits PROVE p >= j
    <3>1. j \in DOMAIN s /\ s[j] <= d
      OBVIOUS
    <3>2. ~ (i <= j)
      <4>1. SUFFICES ASSUME i <= j PROVE FALSE
        OBVIOUS
      <4>2. i \in DOMAIN s
        BY <1>1, <1>3, <3>1, <4>1
      <4>3. s[i] > d /\ s[i] <= s[j]
        BY <1>3, <2>4, <3>1, <4>1, <4>2 DEF After, Sorted
      <4>. QED
        BY <1>1, <3>1, <4>2, <4>3
    <3>. QED
      BY <1>1, <1>3, <3>1, <3>2
  <2>. HIDE DEF p
  <2>5. Sorted(s) => Highest(hits) = p
    BY <1>6, <2>3, <2>4, HighestIs
  <2>. QED
    BY <1>9, <2>1, <2>2, <2>3, <2>5
<1>. QED
  BY <1>7, <1>8, <1>9

\* The lookups never leave the columns, and on sorted keys of any number they find the
\* row they are named for.
THEOREM LookupsFind == Spec => []LookupsAgree
<1>1. IInv => LookupsAgree
  <2>. SUFFICES ASSUME IInv, NEW d \in Key
                PROVE  LET date      == Dates(keys)
                           at        == {i \in DOMAIN keys : date[i] = d}
                           prior     == {i \in DOMAIN keys : date[i] <= d}
                           following == {i \in DOMAIN keys : date[i] >= d}
                       IN /\ At(date, d) \in at \cup {Throw}
                          /\ AtOrFirstFollowing(date, d) \in following \cup {Throw}
                          /\ AtOrFirstPrior(date, d) \in DOMAIN values \cup {Throw}
                               <=> keys # <<>>
                          /\ Sorted(source) /\ keys # <<>> =>
                               /\ At(date, d) = IF at = {} THEN Throw ELSE Lowest(at)
                               /\ AtOrFirstPrior(date, d)
                                    = IF prior = {} THEN Throw ELSE Highest(prior)
                               /\ AtOrFirstFollowing(date, d)
                                    = IF following = {} THEN Throw ELSE Lowest(following)
    BY DEF LookupsAgree
  <2>. DEFINE date      == Dates(keys)
              at        == {i \in DOMAIN keys : date[i] = d}
              prior     == {i \in DOMAIN keys : date[i] <= d}
              following == {i \in DOMAIN keys : date[i] >= d}
  <2>1. /\ source \in Seq(Int) /\ ColumnsOf(Len(source), keys, values)
        /\ Increasing(keys) /\ d \in Int
    BY SourceType, KeyAssumption DEF IInv, TypeOK, ColumnsOf
  <2>2. /\ date \in Seq(Int) /\ DOMAIN date = DOMAIN keys /\ DOMAIN values = DOMAIN keys
        /\ Len(date) = Len(keys) /\ Sorted(source) => Sorted(date)
    BY <2>1, DatesSorted, ColumnFacts
  <2>3. keys = <<>> <=> date = <<>>
    <3>1. keys \in Seq(1..Len(source)) /\ Len(keys) = Len(date)
      BY <2>1, <2>2 DEF ColumnsOf
    <3>2. keys = <<>> <=> Len(keys) = 0
      BY <3>1, EmptySeq
    <3>3. date = <<>> <=> Len(date) = 0
      <4>. HIDE DEF date
      <4>. QED
        BY <2>2, EmptySeq
    <3>. QED
      BY <3>1, <3>2, <3>3
  <2>. HIDE DEF date
  <2>4. /\ at = {i \in DOMAIN date : date[i] = d}
        /\ prior = {i \in DOMAIN date : date[i] <= d}
        /\ following = From(date, d)
    BY <2>2 DEF From
  <2>. HIDE DEF at, prior, following
  <2>5. /\ At(date, d) \in at \cup {Throw}
        /\ Sorted(date) => At(date, d) = IF at = {} THEN Throw ELSE Lowest(at)
    BY <2>1, <2>2, <2>4, AtIs
  <2>6. /\ AtOrFirstPrior(date, d) \in DOMAIN date \cup {Throw} <=> date # <<>>
        /\ Sorted(date) /\ date # <<>> =>
             AtOrFirstPrior(date, d) = IF prior = {} THEN Throw ELSE Highest(prior)
    BY <2>1, <2>2, <2>4, PriorIs
  <2>7. /\ AtOrFirstFollowing(date, d) \in following \cup {Throw}
        /\ AtOrFirstFollowing(date, d)
             = IF following = {} THEN Throw ELSE Lowest(following)
    BY <2>1, <2>2, <2>4, FollowingIs
  <2>. QED
    BY <2>2, <2>3, <2>5, <2>6, <2>7 DEF date, at, prior, following
<1>. QED
  BY <1>1, Invariance, PTL
-----------------------------------------------------------------------------
(* apply_rolling: the invariant says what the buffer holds, the rows just  *)
(* before the iterator, a window of them if there are so many.             *)

Windowed == [at : 1..size, rows : Seq(1..size)]

\* A sequence is the last rows before position p.
EndsBefore(s, p) == \A q \in 1..Len(s) : s[q] = p - 1 - Len(s) + q

Held ==
  window_size # 0 =>
    /\ EndsBefore(buffer, it)
    /\ Len(buffer) = IF it <= window_size THEN it - 1 ELSE window_size
    /\ Len(result) = IF it <= window_size THEN 0 ELSE it - window_size

RollingIInv == RollingTypeOK /\ Held

-----------------------------------------------------------------------------

\* Types of what the loop counts.
LEMMA RollingNumbers ==
  ASSUME RollingTypeOK
  PROVE  /\ size \in Nat /\ window_size \in Nat /\ it \in Nat
         /\ it >= 1 /\ it <= size + 1
         /\ Len(buffer) \in Nat /\ Len(buffer) <= window_size /\ Len(result) \in Nat
         /\ buffer \in Seq(1..size) /\ result \in Seq(Windowed)
<1>1. size \in Nat /\ window_size \in Nat
  BY SizesAssumption, WindowsAssumption DEF RollingTypeOK
<1>2. buffer \in Seq(1..size) /\ result \in Seq(Windowed)
  BY DEF RollingTypeOK, Windowed
<1>. QED
  BY <1>1, <1>2, LenProperties DEF RollingTypeOK

\* Appending the row at the iterator.
LEMMA PushRow ==
  ASSUME NEW n \in Nat, NEW s \in Seq(1..n), NEW p \in 1..n, EndsBefore(s, p)
  PROVE  /\ Append(s, p) \in Seq(1..n)
         /\ Len(Append(s, p)) = Len(s) + 1
         /\ EndsBefore(Append(s, p), p + 1)
<1>. DEFINE t == Append(s, p)
<1>1. /\ t \in Seq(1..n) /\ Len(t) = Len(s) + 1 /\ Len(s) \in Nat
      /\ \A q \in 1..Len(s) : t[q] = s[q]
      /\ t[Len(s) + 1] = p
  BY AppendProperties, LenProperties
<1>. HIDE DEF t
<1>2. ASSUME NEW q \in 1..Len(t) PROVE t[q] = (p + 1) - 1 - Len(t) + q
  <2>1. CASE q \in 1..Len(s)
    <3>1. t[q] = p - 1 - Len(s) + q
      BY <1>1, <2>1 DEF EndsBefore
    <3>. QED
      BY <1>1, <3>1
  <2>2. CASE q \notin 1..Len(s)
    <3>1. q = Len(s) + 1
      BY <1>1, <2>2
    <3>. QED
      BY <1>1, <3>1
  <2>. QED
    BY <2>1, <2>2
<1>. QED
  BY <1>1, <1>2 DEF EndsBefore, t

\* Dropping the oldest row of the buffer.
LEMMA PopRow ==
  ASSUME NEW n \in Nat, NEW s \in Seq(1..n), NEW p \in Int, EndsBefore(s, p), s # <<>>
  PROVE  /\ Tail(s) \in Seq(1..n)
         /\ Len(Tail(s)) = Len(s) - 1
         /\ EndsBefore(Tail(s), p)
<1>. DEFINE t == Tail(s)
<1>1. /\ t \in Seq(1..n) /\ Len(t) = Len(s) - 1 /\ Len(s) \in Nat
      /\ \A q \in 1..Len(t) : t[q] = s[q + 1]
  BY HeadTailProperties, LenProperties
<1>. HIDE DEF t
<1>2. ASSUME NEW q \in 1..Len(t) PROVE t[q] = p - 1 - Len(t) + q
  <2>1. q + 1 \in 1..Len(s)
    BY <1>1
  <2>2. s[q + 1] = p - 1 - Len(s) + (q + 1)
    BY <2>1 DEF EndsBefore
  <2>. QED
    BY <1>1, <2>2
<1>. QED
  BY <1>1, <1>2 DEF EndsBefore, t

\* What Apply calls func on.
LEMMA FullWindow ==
  ASSUME RollingIInv, ~AtEnd, ~Fills, window_size # 0
  PROVE  LET filled == Append(DropOldest, it)
         IN /\ filled \in Seq(1..size)
            /\ Len(filled) = window_size
            /\ EndsBefore(filled, it + 1)
            /\ filled = Sliding!WindowAt(it)
            /\ window_size <= it
<1>. DEFINE filled == Append(DropOldest, it)
<1>1. /\ size \in Nat /\ window_size \in Nat /\ it \in 1..size /\ it \in Nat
      /\ Len(buffer) \in Nat /\ Len(buffer) <= window_size
      /\ buffer \in Seq(1..size)
  BY RollingNumbers DEF RollingIInv, AtEnd
<1>2. /\ EndsBefore(buffer, it)
      /\ Len(buffer) = IF it <= window_size THEN it - 1 ELSE window_size
  BY DEF RollingIInv, Held
<1>3. Len(buffer) = window_size \/ Len(buffer) = window_size - 1
  BY <1>1 DEF Fills
<1>4. /\ DropOldest \in Seq(1..size)
      /\ Len(DropOldest) = window_size - 1
      /\ EndsBefore(DropOldest, it)
  <2>1. CASE Len(buffer) = window_size
    <3>1. buffer # <<>>
      BY <1>1, <2>1, EmptySeq
    <3>. QED
      <4>1. DropOldest = Tail(buffer)
        BY <2>1 DEF DropOldest
      <4>2. /\ Tail(buffer) \in Seq(1..size)
            /\ Len(Tail(buffer)) = Len(buffer) - 1
            /\ EndsBefore(Tail(buffer), it)
        BY <1>1, <1>2, <3>1, PopRow
      <4>. QED
        BY <2>1, <4>1, <4>2
  <2>2. CASE Len(buffer) # window_size
    BY <1>1, <1>2, <1>3, <2>2 DEF DropOldest
  <2>. QED
    BY <2>1, <2>2
<1>5. /\ filled \in Seq(1..size)
      /\ Len(filled) = window_size
      /\ EndsBefore(filled, it + 1)
  <2>1. /\ filled \in Seq(1..size) /\ Len(filled) = Len(DropOldest) + 1
        /\ EndsBefore(filled, it + 1)
    BY <1>1, <1>4, PushRow
  <2>. QED
    BY <1>1, <1>4, <2>1
<1>. HIDE DEF filled
<1>6. filled = Sliding!WindowAt(it)
  <2>1. filled = [q \in 1..window_size |-> filled[q]]
    BY <1>5
  <2>2. ASSUME NEW q \in 1..window_size PROVE filled[q] = it - window_size + q
    <3>1. filled[q] = (it + 1) - 1 - window_size + q
      BY <1>5, <2>2 DEF EndsBefore
    <3>. QED
      BY <1>1, <3>1
  <2>. QED
    BY <2>1, <2>2 DEF Sliding!WindowAt
<1>7. window_size <= it
  BY <1>1, <1>2, <1>3
<1>. QED
  BY <1>5, <1>6, <1>7 DEF filled

-----------------------------------------------------------------------------

\* Before the first row nothing is held.
LEMMA InitRollingIInv == RollingInit => RollingIInv
<1>. SUFFICES ASSUME RollingInit PROVE RollingIInv
  OBVIOUS
<1>1. /\ size \in Nat /\ window_size \in Nat /\ it = 1
      /\ buffer = <<>> /\ result = <<>>
  BY SizesAssumption, WindowsAssumption DEF RollingInit
<1>2. /\ buffer \in Seq(1..size) /\ result \in Seq(Windowed)
      /\ Len(buffer) = 0 /\ Len(result) = 0
  BY <1>1, EmptySeq
<1>3. RollingTypeOK
  BY <1>1, <1>2 DEF RollingInit, RollingTypeOK, Windowed
<1>4. Held
  BY <1>1, <1>2 DEF Held, EndsBefore
<1>. QED
  BY <1>3, <1>4 DEF RollingIInv

\* A row of the result.
LEMMA InsertedRow ==
  ASSUME RollingTypeOK, NEW p \in 1..size, NEW s \in Seq(1..size),
         result' = Append(result, [at |-> p, rows |-> s])
  PROVE  result' \in Seq(Windowed) /\ Len(result') = Len(result) + 1
<1>1. [at |-> p, rows |-> s] \in Windowed
  BY DEF Windowed
<1>2. result \in Seq(Windowed)
  BY RollingNumbers
<1>. QED
  BY <1>1, <1>2, AppendProperties

\* Every step of the loop preserves the invariant.
LEMMA NextRollingIInv == RollingIInv /\ [RollingNext]_rollingVars => RollingIInv'
<1>. SUFFICES ASSUME RollingIInv, [RollingNext]_rollingVars PROVE RollingIInv'
  OBVIOUS
<1>1. /\ size \in Nat /\ window_size \in Nat /\ it \in Nat
      /\ it >= 1 /\ it <= size + 1
      /\ Len(buffer) \in Nat /\ Len(buffer) <= window_size /\ Len(result) \in Nat
      /\ buffer \in Seq(1..size) /\ result \in Seq(Windowed)
  BY RollingNumbers DEF RollingIInv
<1>2. CASE Iterate
  <2>1. /\ size' = size /\ window_size' = window_size /\ pc' = pc /\ it' = it + 1
        /\ ~TooShort /\ ~AtEnd /\ pc = "loop"
    BY <1>2 DEF Iterate
  <2>2. it \in 1..size /\ it' \in 1..(size + 1) /\ window_size <= size
    BY <1>1, <2>1 DEF AtEnd, TooShort
  <2>3. Windowed' = Windowed
    BY <2>1 DEF Windowed
  <2>4. CASE Fill
    <3>1. Fills /\ buffer' = Append(buffer, it) /\ result' = result
      BY <2>4 DEF Fill
    <3>2. /\ EndsBefore(buffer, it)
          /\ Len(buffer) = IF it <= window_size THEN it - 1 ELSE window_size
          /\ Len(result) = IF it <= window_size THEN 0 ELSE it - window_size
      BY <1>1, <3>1 DEF RollingIInv, Held, Fills
    <3>3. Len(buffer) < window_size - 1
      BY <3>1 DEF Fills
    <3>4. it < window_size /\ Len(buffer) = it - 1 /\ Len(result) = 0
      BY <1>1, <3>2, <3>3
    <3>5. /\ buffer' \in Seq(1..size) /\ Len(buffer') = Len(buffer) + 1
          /\ EndsBefore(buffer', it + 1)
      BY <1>1, <2>2, <3>1, <3>2, PushRow
    <3>6. RollingTypeOK'
      BY <1>1, <2>1, <2>2, <3>1, <3>3, <3>5 DEF RollingIInv, RollingTypeOK
    <3>7. Held'
      <4>1. Len(buffer') = it' - 1 /\ it' <= window_size
        BY <1>1, <2>1, <3>4, <3>5
      <4>2. EndsBefore(buffer, it)'
        BY <2>1, <3>5 DEF EndsBefore
      <4>. QED
        BY <2>1, <3>1, <3>4, <4>1, <4>2 DEF Held
    <3>. QED
      BY <3>6, <3>7 DEF RollingIInv
  <2>5. CASE Apply
    <3>1. /\ ~Fills /\ window_size # 0
          /\ buffer' = Append(DropOldest, it)
          /\ result' = Append(result, [at |-> it, rows |-> buffer'])
      BY <2>5 DEF Apply
    <3>2. /\ buffer' \in Seq(1..size) /\ Len(buffer') = window_size
          /\ EndsBefore(buffer', it + 1) /\ window_size <= it
      BY <2>1, <3>1, FullWindow
    <3>3. result' \in Seq(Windowed) /\ Len(result') = Len(result) + 1
      BY <2>2, <3>1, <3>2, InsertedRow DEF RollingIInv
    <3>4. Len(result) = it - window_size
      <4>1. Len(result) = IF it <= window_size THEN 0 ELSE it - window_size
        BY <3>1 DEF RollingIInv, Held
      <4>. QED
        BY <1>1, <3>2, <4>1
    <3>5. RollingTypeOK'
      BY <1>1, <2>1, <2>2, <2>3, <3>2, <3>3 DEF RollingIInv, RollingTypeOK, Windowed
    <3>6. Held'
      <4>1. Len(result') = it' - window_size /\ ~(it' <= window_size)
        BY <1>1, <2>1, <3>2, <3>3, <3>4
      <4>2. EndsBefore(buffer, it)'
        BY <2>1, <3>2 DEF EndsBefore
      <4>. QED
        BY <2>1, <3>2, <4>1, <4>2 DEF Held
    <3>. QED
      BY <3>5, <3>6 DEF RollingIInv
  <2>6. CASE ApplyUnderflow
    <3>1. /\ window_size = 0 /\ buffer' = buffer
          /\ result' = Append(result, [at |-> it, rows |-> buffer])
      BY <2>6 DEF ApplyUnderflow
    <3>2. result' \in Seq(Windowed)
      BY <1>1, <2>2, <3>1, InsertedRow DEF RollingIInv
    <3>3. RollingTypeOK'
      BY <2>1, <2>2, <2>3, <3>1, <3>2 DEF RollingIInv, RollingTypeOK, Windowed
    <3>. QED
      BY <2>1, <3>1, <3>3 DEF RollingIInv, Held
  <2>. QED
    BY <1>2, <2>4, <2>5, <2>6 DEF Iterate
<1>3. CASE Crash
  BY <1>3 DEF Crash, RollingIInv, RollingTypeOK, Held, EndsBefore
<1>4. CASE Return
  BY <1>4 DEF Return, RollingIInv, RollingTypeOK, Held, EndsBefore
<1>5. CASE UNCHANGED rollingVars
  BY <1>5 DEF rollingVars, RollingIInv, RollingTypeOK, Held, EndsBefore
<1>. QED
  BY <1>2, <1>3, <1>4, <1>5 DEF RollingNext

\* The invariant of the loop holds throughout.
LEMMA RollingInvariance == RollingSpec => []RollingIInv
BY InitRollingIInv, NextRollingIInv, PTL DEF RollingSpec

\* apply_rolling keeps its iterator in the series and its buffer within a window, and only
\* a window of 0 is a fault.
THEOREM RollingTypeCorrect == RollingSpec => []RollingTypeOK
<1>1. RollingIInv => RollingTypeOK
  BY DEF RollingIInv
<1>. QED
  BY <1>1, RollingInvariance, PTL

\* For windows of at least one row, func is called on each window of consecutive rows
\* once, in order.
THEOREM RollingRefinement == RollingSpec => ImplementsSlidingWindow
<1>1. RollingInit => (window_size # 0 => Sliding!WindowInit)
  BY DEF RollingInit, Sliding!WindowInit
<1>2. RollingIInv /\ [RollingNext]_rollingVars =>
        [window_size # 0 => Sliding!WindowNext]_Sliding!windowVars
  <2>. SUFFICES ASSUME RollingIInv, [RollingNext]_rollingVars, window_size # 0
                PROVE  [Sliding!WindowNext]_Sliding!windowVars
    OBVIOUS
  <2>1. /\ size \in Nat /\ window_size \in Nat /\ it \in Nat
        /\ it >= 1 /\ it <= size + 1 /\ Len(result) \in Nat
    BY RollingNumbers DEF RollingIInv
  <2>2. Len(result) = IF it <= window_size THEN 0 ELSE it - window_size
    BY DEF RollingIInv, Held
  <2>3. CASE Iterate
    <3>1. CASE Fill
      BY <2>3, <3>1 DEF Iterate, Fill, Sliding!windowVars
    <3>2. CASE Apply
      <4>1. /\ result' = Append(result, [at |-> it, rows |-> Append(DropOldest, it)])
            /\ ~Fills /\ ~AtEnd /\ pc = "loop"
            /\ UNCHANGED <<size, window_size, pc>>
        BY <2>3, <3>2 DEF Iterate, Apply
      <4>2. Append(DropOldest, it) = Sliding!WindowAt(it) /\ window_size <= it
        BY <4>1, FullWindow
      <4>3. Len(result) + window_size = it
        BY <2>1, <2>2, <4>2
      <4>4. Len(result) < Sliding!WindowCount
        BY <2>1, <4>1, <4>3 DEF Sliding!WindowCount, AtEnd
      <4>5. Sliding!Slide
        BY <4>1, <4>2, <4>3, <4>4 DEF Sliding!Slide
      <4>. QED
        BY <4>5 DEF Sliding!WindowNext
    <3>3. CASE ApplyUnderflow
      BY <3>3 DEF ApplyUnderflow
    <3>. QED
      BY <2>3, <3>1, <3>2, <3>3 DEF Iterate
  <2>4. CASE Crash
    BY <2>4 DEF Crash
  <2>5. CASE Return
    <3>1. Len(result) >= Sliding!WindowCount
      BY <2>1, <2>2, <2>5 DEF Return, TooShort, AtEnd, Sliding!WindowCount
    <3>. QED
      BY <2>5, <3>1 DEF Return, Sliding!Finish, Sliding!WindowNext
  <2>6. CASE UNCHANGED rollingVars
    BY <2>6 DEF rollingVars, Sliding!windowVars
  <2>. QED
    BY <2>3, <2>4, <2>5, <2>6 DEF RollingNext
<1>. QED
  BY <1>1, <1>2, RollingInvariance, PTL DEF RollingSpec, ImplementsSlidingWindow
=============================================================================
