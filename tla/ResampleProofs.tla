--------------------------- MODULE ResampleProofs ---------------------------
(***************************************************************************)
(* Theorems about resample_and_agg, for any keys, series and grouping      *)
(* function: the chunks given to aggfn are the groups of consecutive rows. *)
(* Then, with the functions of time_rounder and any duration and unit: the *)
(* bars cover the times they are meant to and come in order.               *)
(***************************************************************************)
EXTENDS Bars, SequenceTheorems, WellFoundedInduction, TLAPS

\* Before the first row nothing has been collected.
NothingYet == buffer = <<>> /\ prior_key = {} /\ result = <<>> /\ it = 1

\* Later the buffer holds the start of a chunk of the group in prior_key.
Collecting == buffer # <<>> /\ prior_key = {GroupOf(buffer[1])}

IInv ==
  /\ TypeOK
  /\ RowsGrouped
  /\ pc = "loop" => NothingYet \/ Collecting

-----------------------------------------------------------------------------
\* A row that is read has a group.
LEMMA GroupsAreNumbers ==
  ASSUME TypeOK, NEW p \in DOMAIN series
  PROVE  GroupOf(p) \in Int
<1>1. series \in Seq(Key) /\ grpfn \in [Key -> Int]
  BY InputsAssumption, GroupingsAssumption DEF TypeOK
<1>2. series[p] \in Key
  BY <1>1, LenProperties
<1>. QED
  BY <1>1, <1>2 DEF GroupOf

\* At the start there are no chunks.
LEMMA InitIInv == Init => IInv
<1>. SUFFICES ASSUME Init PROVE IInv
  OBVIOUS
<1>1. series \in Seq(Key)
  BY InputsAssumption DEF Init
<1>2. TypeOK
  BY <1>1, EmptySeq, LenProperties DEF Init, TypeOK
<1>3. Chunks = 0 /\ DOMAIN result = {} /\ First(1) = 1
  BY EmptySeq DEF Init, Chunks, First
<1>4. RowsGrouped
  BY <1>3 DEF RowsGrouped, Init
<1>. QED
  BY <1>2, <1>4 DEF IInv, NothingYet, Init

\* The chunk in the buffer, while there is one.
LEMMA CurrentChunk ==
  ASSUME IInv, pc = "loop", Collecting, NEW n, n = Len(result) + 1
  PROVE  /\ n \in Nat \ {0} /\ n - 1 = Len(result) /\ DOMAIN result = 1..Len(result)
         /\ Len(buffer) \in Nat \ {0}
         /\ buffer \in Seq(Nat) /\ result \in Seq(Chunk)
         /\ RowsOf(n) = buffer /\ Chunks = n
         /\ First(n) \in Nat /\ buffer[1] = First(n) /\ it = First(n) + Len(buffer)
         /\ \A q \in 1..Len(buffer) : /\ buffer[q] = First(n) + q - 1
                                      /\ GroupOf(First(n) + q - 1) = GroupOf(First(n))
         /\ n > 1 => GroupOf(First(n)) # GroupOf(First(n) - 1)
         /\ prior_key = {GroupOf(First(n))}
<1>1. /\ buffer \in Seq(Nat) /\ buffer # <<>> /\ result \in Seq(Chunk)
      /\ Len(result) \in Nat /\ DOMAIN result = 1..Len(result)
      /\ DOMAIN buffer = 1..Len(buffer)
  BY LenProperties DEF IInv, TypeOK, Collecting
<1>2. Len(buffer) \in Nat \ {0} /\ buffer[1] \in Nat
  BY <1>1, EmptySeq, LenProperties
<1>3. n \notin DOMAIN result
  BY <1>1
<1>4. RowsOf(n) = buffer /\ Chunks = n
  BY <1>1, <1>3 DEF RowsOf, Chunks
<1>5. /\ \A q \in 1..Len(buffer) : /\ buffer[q] = First(n) + q - 1
                                   /\ GroupOf(First(n) + q - 1) = GroupOf(First(n))
      /\ n > 1 => GroupOf(First(n)) # GroupOf(First(n) - 1)
      /\ First(n + 1) = it
  <2>1. n \in 1..Chunks
    BY <1>1, <1>4
  <2>. QED
    BY <1>1, <1>4, <2>1 DEF IInv, RowsGrouped
<1>6. First(n) \in Nat
  <2>1. CASE n = 1
    BY <2>1 DEF First
  <2>2. CASE n # 1
    <3>1. n - 1 = Len(result) /\ Len(result) \in DOMAIN result
      BY <1>1, <2>2
    <3>2. result[Len(result)] \in Chunk /\ RowsOf(n - 1) = result[Len(result)].rows
      BY <1>1, <3>1, LenProperties DEF RowsOf
    <3>3. RowsOf(n - 1) # <<>> /\ RowsOf(n - 1) \in Seq(Nat)
      <4>1. n - 1 \in 1..Chunks
        BY <1>1, <1>4, <3>1
      <4>. QED
        BY <3>2, <4>1 DEF IInv, RowsGrouped, Chunk
    <3>4. RowsOf(n - 1)[1] \in Nat /\ Len(RowsOf(n - 1)) \in Nat
      BY <3>3, EmptySeq, LenProperties
    <3>. QED
      BY <2>2, <3>4 DEF First
  <2>. QED
    BY <2>1, <2>2
<1>7. buffer[1] = First(n)
  BY <1>2, <1>5, <1>6
<1>8. it = First(n) + Len(buffer)
  <2>1. n + 1 # 1 /\ (n + 1) - 1 = n
    BY <1>1
  <2>2. First(n + 1) = buffer[1] + Len(buffer)
    BY <1>4, <2>1 DEF First
  <2>. QED
    BY <1>5, <1>7, <2>2
<1>9. prior_key = {GroupOf(First(n))}
  BY <1>7 DEF Collecting
<1>. QED
  BY <1>1, <1>2, <1>4, <1>5, <1>6, <1>7, <1>8, <1>9

-----------------------------------------------------------------------------
(* The branches of the loop. *)

\* The first row starts the first chunk.
LEMMA FirstRowIInv ==
  ASSUME IInv, pc = "loop", NothingYet, Collect, UNCHANGED <<series, grpfn, pc>>
  PROVE  IInv'
<1>1. /\ ~AtEnd /\ it = 1 /\ it' = 2 /\ buffer' = <<1>> /\ result' = <<>>
      /\ prior_key' = {GroupOf(1)}
  <2>1. buffer' = <<1>>
    BY AppendProperties, EmptySeq DEF Collect, NothingYet
  <2>. QED
    BY <2>1 DEF Collect, NothingYet, keycand, GroupOf
<1>2. series \in Seq(Key) /\ Len(series) \in Nat /\ DOMAIN series = 1..Len(series)
  BY InputsAssumption, LenProperties DEF IInv, TypeOK
<1>3. 1 \in DOMAIN series /\ 2 \in 1..(Len(series) + 1)
  BY <1>1, <1>2 DEF AtEnd, IInv, TypeOK
<1>4. Len(buffer') = 1 /\ buffer'[1] = 1 /\ buffer' # <<>> /\ buffer' \in Seq(Nat)
      /\ DOMAIN buffer' = 1..1
  BY <1>1
<1>5. GroupOf(1) \in Int
  BY <1>3, GroupsAreNumbers DEF IInv
<1>6. TypeOK'
  BY <1>1, <1>3, <1>4, <1>5, EmptySeq DEF IInv, TypeOK
<1>7. /\ Chunks' = 1 /\ DOMAIN result' = {} /\ RowsOf(1)' = buffer'
      /\ First(1)' = 1 /\ First(2)' = 2
  <2>1. Len(result') = 0 /\ DOMAIN result' = {}
    BY <1>1, EmptySeq
  <2>2. Chunks' = 1
    BY <1>4, <2>1 DEF Chunks
  <2>3. RowsOf(1)' = buffer'
    BY <2>1 DEF RowsOf
  <2>4. First(1)' = 1
    BY DEF First
  <2>5. First(2)' = 2
    <3>1. 2 # 1 /\ 2 - 1 = 1
      OBVIOUS
    <3>2. First(2)' = buffer'[1] + Len(buffer')
      BY <2>3, <3>1 DEF First
    <3>. QED
      BY <1>4, <3>2
  <2>. QED
    BY <2>1, <2>2, <2>3, <2>4, <2>5
<1>8. RowsGrouped'
  <2>1. \A n \in 1..1 : n = 1
    OBVIOUS
  <2>2. ASSUME NEW q \in 1..1
        PROVE  buffer'[q] = 1 + q - 1 /\ GroupOf(1 + q - 1)' = GroupOf(1)'
    BY <1>4, <2>1
  <2>3. 1 + 1 = 2
    OBVIOUS
  <2>. QED
    BY <1>1, <1>4, <1>7, <2>1, <2>2, <2>3 DEF RowsGrouped
<1>9. Collecting'
  BY <1>1, <1>4 DEF Collecting, GroupOf
<1>. QED
  BY <1>6, <1>8, <1>9 DEF IInv

\* A row of the same group joins the chunk in the buffer.
LEMMA SameGroupIInv ==
  ASSUME IInv, pc = "loop", Collecting, Collect, UNCHANGED <<series, grpfn, pc>>
  PROVE  IInv'
<1>0. PICK n \in Nat \ {0} : n = Len(result) + 1 /\ n - 1 = Len(result)
  BY CurrentChunk
<1>1. /\ n \in Nat \ {0} /\ DOMAIN result = 1..Len(result)
      /\ Len(buffer) \in Nat \ {0}
      /\ buffer \in Seq(Nat) /\ result \in Seq(Chunk)
      /\ RowsOf(n) = buffer /\ Chunks = n
      /\ First(n) \in Nat /\ buffer[1] = First(n) /\ it = First(n) + Len(buffer)
      /\ \A q \in 1..Len(buffer) : /\ buffer[q] = First(n) + q - 1
                                   /\ GroupOf(First(n) + q - 1) = GroupOf(First(n))
      /\ prior_key = {GroupOf(First(n))}
  BY <1>0, CurrentChunk
<1>2. /\ buffer' = Append(buffer, it) /\ it' = it + 1 /\ result' = result
      /\ it \in 1..Len(series) /\ prior_key' = {GroupOf(it)}
      /\ GroupOf(it) = GroupOf(First(n))
  <2>1. it \in 1..(Len(series) + 1) /\ it # Len(series) + 1 /\ Len(series) \in Nat
    BY InputsAssumption, LenProperties DEF IInv, TypeOK, Collect, AtEnd
  <2>2. prior_key \subseteq {GroupOf(it)} /\ prior_key' = {GroupOf(it)}
    BY DEF Collect, keycand, GroupOf
  <2>3. GroupOf(it) = GroupOf(First(n))
    BY <1>1, <2>2
  <2>4. it \in 1..Len(series)
    BY <2>1
  <2>5. buffer' = Append(buffer, it) /\ it' = it + 1 /\ result' = result
    BY DEF Collect
  <2>. QED
    BY <2>2, <2>3, <2>4, <2>5
<1>3. /\ buffer' \in Seq(Nat) /\ Len(buffer') = Len(buffer) + 1
      /\ DOMAIN buffer' = 1..(Len(buffer) + 1)
      /\ buffer'[Len(buffer) + 1] = it
      /\ \A q \in 1..Len(buffer) : buffer'[q] = buffer[q]
      /\ buffer' # <<>>
  <2>1. it \in Nat
    BY <1>1
  <2>2. /\ buffer' \in Seq(Nat) /\ Len(buffer') = Len(buffer) + 1
        /\ buffer'[Len(buffer) + 1] = it
        /\ \A q \in 1..Len(buffer) : buffer'[q] = buffer[q]
    BY <1>1, <1>2, <2>1, AppendProperties
  <2>3. buffer' # <<>>
    BY <1>1, <2>2, EmptySeq
  <2>. QED
    BY <2>2, <2>3, LenProperties
<1>4. TypeOK'
  <2>1. GroupOf(it) \in Int
    <3>1. it \in DOMAIN series
      BY <1>2, InputsAssumption, LenProperties DEF IInv, TypeOK
    <3>. QED
      BY <3>1, GroupsAreNumbers DEF IInv
  <2>2. it' \in 1..(Len(series) + 1)
    BY <1>2
  <2>. QED
    BY <1>2, <1>3, <2>1, <2>2 DEF IInv, TypeOK
<1>5. /\ Chunks' = n /\ RowsOf(n)' = buffer'
      /\ \A m \in 1..Len(result) : RowsOf(m)' = RowsOf(m)
      /\ \A m \in 1..n : First(m)' = First(m)
  <2>1. n \notin DOMAIN result
    BY <1>0, <1>1
  <2>2. Chunks' = n /\ RowsOf(n)' = buffer'
    BY <1>0, <1>2, <1>3, <2>1 DEF Chunks, RowsOf
  <2>3. \A m \in 1..Len(result) : RowsOf(m)' = RowsOf(m)
    BY <1>1, <1>2 DEF RowsOf
  <2>4. ASSUME NEW m \in 1..n PROVE First(m)' = First(m)
    <3>1. m = 1 \/ m - 1 \in 1..Len(result)
      BY <1>0, <1>1
    <3>. QED
      BY <2>3, <3>1 DEF First
  <2>. QED
    BY <2>2, <2>3, <2>4
<1>6. buffer'[1] = First(n)
  <2>1. 1 \in 1..Len(buffer)
    BY <1>1
  <2>. QED
    BY <1>1, <1>3, <2>1
<1>7. First(n + 1)' = it'
  <2>1. n + 1 # 1 /\ (n + 1) - 1 = n
    BY <1>1
  <2>2. First(n + 1)' = buffer'[1] + Len(buffer')
    BY <1>5, <2>1 DEF First
  <2>3. it' = First(n) + Len(buffer) + 1 /\ Len(buffer') = Len(buffer) + 1
    BY <1>1, <1>2, <1>3
  <2>4. First(n) \in Nat /\ Len(buffer) \in Nat
    BY <1>1
  <2>. QED
    BY <1>6, <2>2, <2>3, <2>4
<1>8. \A p : GroupOf(p)' = GroupOf(p)
  BY DEF GroupOf
<1>9. \A q \in DOMAIN buffer' : /\ buffer'[q] = First(n) + q - 1
                                /\ GroupOf(First(n) + q - 1) = GroupOf(First(n))
  <2>. SUFFICES ASSUME NEW q \in 1..(Len(buffer) + 1)
                PROVE  /\ buffer'[q] = First(n) + q - 1
                       /\ GroupOf(First(n) + q - 1) = GroupOf(First(n))
    BY <1>3
  <2>1. CASE q \in 1..Len(buffer)
    BY <1>1, <1>3, <2>1
  <2>2. CASE q = Len(buffer) + 1
    <3>1. First(n) + q - 1 = it
      BY <1>1, <2>2
    <3>. QED
      BY <1>2, <1>3, <2>2, <3>1
  <2>. QED
    BY <1>1, <2>1, <2>2
<1>10. RowsGrouped'
  <2>1. ASSUME NEW m \in 1..n
        PROVE  /\ RowsOf(m)' # <<>>
               /\ \A q \in DOMAIN RowsOf(m)' :
                    /\ RowsOf(m)'[q] = First(m)' + q - 1
                    /\ GroupOf(First(m) + q - 1)' = GroupOf(First(m))'
               /\ m > 1 => GroupOf(First(m))' # GroupOf(First(m) - 1)'
    <3>1. m > 1 => GroupOf(First(m)) # GroupOf(First(m) - 1)
      BY <1>1 DEF IInv, RowsGrouped
    <3>2. First(m)' = First(m)
      BY <1>5
    <3>3. CASE m = n
      <4>1. RowsOf(m)' = buffer' /\ First(m) = First(n)
        BY <1>5, <3>3
      <4>2. \A q \in DOMAIN buffer' : /\ buffer'[q] = First(m) + q - 1
                                      /\ GroupOf(First(m) + q - 1) = GroupOf(First(m))
        BY <1>9, <4>1
      <4>. QED
        BY <1>3, <3>1, <3>2, <4>1, <4>2 DEF GroupOf
    <3>4. CASE m # n
      <4>1. m \in 1..Len(result)
        BY <1>0, <1>1, <3>4
      <4>2. RowsOf(m)' = RowsOf(m)
        BY <1>5, <4>1
      <4>3. /\ RowsOf(m) # <<>>
            /\ \A q \in DOMAIN RowsOf(m) :
                 /\ RowsOf(m)[q] = First(m) + q - 1
                 /\ GroupOf(First(m) + q - 1) = GroupOf(First(m))
        BY <1>1 DEF IInv, RowsGrouped
      <4>. QED
        BY <3>1, <3>2, <4>2, <4>3 DEF GroupOf
    <3>. QED
      BY <3>3, <3>4
  <2>2. \A m \in DOMAIN result' : result'[m].key = GroupOf(First(m))'
    <3>1. \A m \in DOMAIN result : result[m].key = GroupOf(First(m))
      BY DEF IInv, RowsGrouped
    <3>2. \A m \in DOMAIN result : First(m)' = First(m)
      BY <1>0, <1>1, <1>5
    <3>3. \A m \in DOMAIN result : GroupOf(First(m))' = GroupOf(First(m))
      BY <3>2 DEF GroupOf
    <3>. QED
      BY <1>2, <3>1, <3>3
  <2>3. Chunks' = n /\ First(n + 1)' = it'
    BY <1>5, <1>7
  <2>4. First(Chunks + 1)' = it'
    BY <2>3 DEF First, RowsOf
  <2>. QED
    BY <1>2, <2>1, <2>2, <2>3, <2>4 DEF RowsGrouped
<1>11. Collecting'
  BY <1>2, <1>3, <1>6, <1>8 DEF Collecting
<1>. QED
  BY <1>4, <1>10, <1>11 DEF IInv

\* The chunk in the buffer, once it has been given to aggfn, is the last of the result.
LEMMA FlushedChunk ==
  ASSUME IInv, pc = "loop", Collecting, Flush, UNCHANGED <<series, grpfn>>,
         NEW n \in Nat \ {0}, n = Len(result) + 1
  PROVE  /\ result' \in Seq(Chunk) /\ Len(result') = n /\ DOMAIN result' = 1..n
         /\ \A m \in 1..n : RowsOf(m)' = RowsOf(m)
         /\ \A m \in 1..(n + 1) : First(m)' = First(m)
         /\ \A m \in 1..n : result'[m].key = GroupOf(First(m))
<1>1. /\ n - 1 = Len(result) /\ DOMAIN result = 1..Len(result)
      /\ buffer \in Seq(Nat) /\ result \in Seq(Chunk)
      /\ RowsOf(n) = buffer
      /\ prior_key = {GroupOf(First(n))}
  BY CurrentChunk
<1>. DEFINE chunk == [key |-> GroupOf(First(n)), rows |-> buffer]
<1>2. result' = Append(result, chunk)
  BY <1>1 DEF Flush
<1>3. chunk \in Chunk
  <2>1. GroupOf(First(n)) \in Int
    BY <1>1 DEF IInv, TypeOK
  <2>. QED
    BY <1>1, <2>1 DEF Chunk
<1>4. chunk.key = GroupOf(First(n)) /\ chunk.rows = buffer
  OBVIOUS
<1>. HIDE DEF chunk
<1>5. /\ result' \in Seq(Chunk) /\ Len(result') = n /\ result'[n] = chunk
      /\ \A m \in 1..Len(result) : result'[m] = result[m]
  BY <1>1, <1>2, <1>3, AppendProperties
<1>6. DOMAIN result' = 1..n
  BY <1>5, LenProperties
<1>7. ASSUME NEW m \in 1..n PROVE RowsOf(m)' = RowsOf(m)
  <2>1. RowsOf(m)' = result'[m].rows
    BY <1>6 DEF RowsOf
  <2>2. CASE m = n
    BY <1>1, <1>4, <1>5, <2>1, <2>2
  <2>3. CASE m # n
    <3>1. m \in 1..Len(result)
      BY <1>1, <2>3
    <3>. QED
      BY <1>1, <1>5, <2>1, <3>1 DEF RowsOf
  <2>. QED
    BY <2>2, <2>3
<1>8. ASSUME NEW m \in 1..(n + 1) PROVE First(m)' = First(m)
  <2>1. m = 1 \/ m - 1 \in 1..n
    OBVIOUS
  <2>. QED
    BY <1>7, <2>1 DEF First
<1>9. ASSUME NEW m \in 1..n PROVE result'[m].key = GroupOf(First(m))
  <2>1. CASE m = n
    BY <1>4, <1>5, <2>1
  <2>2. CASE m # n
    <3>1. m \in 1..Len(result)
      BY <1>1, <2>2
    <3>2. result[m].key = GroupOf(First(m))
      BY <1>1, <3>1 DEF IInv, RowsGrouped
    <3>. QED
      BY <1>5, <3>1, <3>2
  <2>. QED
    BY <2>1, <2>2
<1>. QED
  BY <1>5, <1>6, <1>7, <1>8, <1>9

\* What RowsGrouped says of one chunk stays true of a chunk that does not change.
LEMMA ChunkStays ==
  ASSUME IInv, UNCHANGED <<series, grpfn>>, NEW m \in 1..Chunks,
         RowsOf(m)' = RowsOf(m), First(m)' = First(m)
  PROVE  /\ RowsOf(m)' # <<>>
         /\ \A q \in DOMAIN RowsOf(m)' :
              /\ RowsOf(m)'[q] = First(m)' + q - 1
              /\ GroupOf(First(m) + q - 1)' = GroupOf(First(m))'
         /\ m > 1 => GroupOf(First(m))' # GroupOf(First(m) - 1)'
<1>1. /\ RowsOf(m) # <<>>
      /\ \A q \in DOMAIN RowsOf(m) :
           /\ RowsOf(m)[q] = First(m) + q - 1
           /\ GroupOf(First(m) + q - 1) = GroupOf(First(m))
      /\ m > 1 => GroupOf(First(m)) # GroupOf(First(m) - 1)
  BY DEF IInv, RowsGrouped
<1>. QED
  BY <1>1 DEF GroupOf

\* A row of another group starts a chunk of its own.
LEMMA NextGroupIInv ==
  ASSUME IInv, pc = "loop", Collecting, NextGroup, UNCHANGED <<series, grpfn, pc>>
  PROVE  IInv'
<1>0. PICK n \in Nat \ {0} : n = Len(result) + 1
  BY CurrentChunk
<1>1. /\ Chunks = n /\ First(n) \in Nat /\ it = First(n) + Len(buffer)
      /\ Len(buffer) \in Nat \ {0}
      /\ \A q \in 1..Len(buffer) : GroupOf(First(n) + q - 1) = GroupOf(First(n))
      /\ prior_key = {GroupOf(First(n))}
  BY <1>0, CurrentChunk
<1>2. /\ result' \in Seq(Chunk) /\ Len(result') = n /\ DOMAIN result' = 1..n
      /\ \A m \in 1..n : RowsOf(m)' = RowsOf(m)
      /\ \A m \in 1..(n + 1) : First(m)' = First(m)
      /\ \A m \in 1..n : result'[m].key = GroupOf(First(m))
  BY <1>0, FlushedChunk DEF NextGroup
<1>3. /\ buffer' = <<it>> /\ it' = it + 1 /\ prior_key' = {GroupOf(it)}
      /\ GroupOf(it) # GroupOf(First(n))
      /\ it \in 1..Len(series)
  <2>1. it \in 1..(Len(series) + 1) /\ it # Len(series) + 1 /\ Len(series) \in Nat
    BY InputsAssumption, LenProperties DEF IInv, TypeOK, NextGroup, AtEnd
  <2>2. it \in 1..Len(series)
    BY <2>1
  <2>3. buffer' = <<it>> /\ it' = it + 1 /\ prior_key' = {GroupOf(it)}
        /\ ~(prior_key \subseteq {GroupOf(it)})
    BY DEF NextGroup, keycand, GroupOf
  <2>4. GroupOf(it) # GroupOf(First(n))
    BY <1>1, <2>3
  <2>. QED
    BY <2>2, <2>3, <2>4
<1>4. /\ buffer' \in Seq(Nat) /\ Len(buffer') = 1 /\ buffer'[1] = it /\ buffer' # <<>>
      /\ DOMAIN buffer' = 1..1
  BY <1>3
<1>5. TypeOK'
  <2>1. GroupOf(it) \in Int
    <3>1. it \in DOMAIN series
      BY <1>3, InputsAssumption, LenProperties DEF IInv, TypeOK
    <3>. QED
      BY <3>1, GroupsAreNumbers DEF IInv
  <2>2. it' \in 1..(Len(series) + 1)
    BY <1>3
  <2>. QED
    BY <1>2, <1>3, <1>4, <2>1, <2>2 DEF IInv, TypeOK
<1>6. First(n + 1) = it
  BY <1>1 DEF IInv, RowsGrouped
<1>7. /\ Chunks' = n + 1 /\ RowsOf(n + 1)' = buffer' /\ First(n + 1)' = it
      /\ First(n + 2)' = it'
  <2>1. Chunks' = n + 1
    BY <1>2, <1>4 DEF Chunks, IInv
  <2>2. n + 1 \notin DOMAIN result'
    BY <1>2
  <2>3. RowsOf(n + 1)' = buffer'
    BY <2>2 DEF RowsOf
  <2>4. First(n + 1)' = it
    BY <1>2, <1>6
  <2>5. n + 2 # 1 /\ (n + 2) - 1 = n + 1
    OBVIOUS
  <2>6. First(n + 2)' = buffer'[1] + Len(buffer')
    BY <2>3, <2>5 DEF First
  <2>. QED
    BY <1>3, <1>4, <2>1, <2>3, <2>4, <2>6
<1>8. RowsGrouped'
  <2>1. ASSUME NEW m \in 1..(n + 1)
        PROVE  /\ RowsOf(m)' # <<>>
               /\ \A q \in DOMAIN RowsOf(m)' :
                    /\ RowsOf(m)'[q] = First(m)' + q - 1
                    /\ GroupOf(First(m) + q - 1)' = GroupOf(First(m))'
               /\ m > 1 => GroupOf(First(m))' # GroupOf(First(m) - 1)'
    <3>1. CASE m \in 1..n
      BY <1>1, <1>2, <3>1, ChunkStays
    <3>2. CASE m = n + 1
      <4>1. RowsOf(m)' = buffer' /\ First(m)' = it
        BY <1>7, <3>2
      <4>2. \A q \in 1..1 : q = 1
        OBVIOUS
      <4>3. \A q \in DOMAIN buffer' : buffer'[q] = it + q - 1 /\ it + q - 1 = it
        BY <1>1, <1>4, <4>2
      <4>4. GroupOf(it - 1) = GroupOf(First(n))
        <5>1. Len(buffer) \in 1..Len(buffer) /\ First(n) + Len(buffer) - 1 = it - 1
          BY <1>1
        <5>. QED
          BY <1>1, <5>1
      <4>5. GroupOf(it) # GroupOf(it - 1)
        BY <1>3, <4>4
      <4>6. /\ GroupOf(First(m))' = GroupOf(it)
            /\ GroupOf(First(m) - 1)' = GroupOf(it - 1)
            /\ \A q : GroupOf(First(m) + q - 1)' = GroupOf(it + q - 1)
        BY <4>1 DEF GroupOf
      <4>7. \A q \in DOMAIN buffer' :
              /\ buffer'[q] = First(m)' + q - 1
              /\ GroupOf(First(m) + q - 1)' = GroupOf(First(m))'
        BY <4>1, <4>3 DEF GroupOf
      <4>. QED
        BY <1>4, <4>1, <4>5, <4>6, <4>7
    <3>. QED
      BY <3>1, <3>2
  <2>2. \A m \in DOMAIN result' : result'[m].key = GroupOf(First(m))'
    BY <1>2 DEF GroupOf
  <2>3. First(Chunks + 1)' = it'
    <3>1. Chunks' = n + 1 /\ (n + 1) + 1 = n + 2
      BY <1>7
    <3>. QED
      BY <1>7, <3>1 DEF First, RowsOf
  <2>. QED
    BY <1>7, <2>1, <2>2, <2>3 DEF RowsGrouped, IInv
<1>9. Collecting'
  BY <1>3, <1>4 DEF Collecting, GroupOf
<1>. QED
  BY <1>5, <1>8, <1>9 DEF IInv

\* At the end the last chunk is given to aggfn, if there is one.
LEMMA FinishIInv ==
  ASSUME IInv, Finish
  PROVE  IInv'
<1>1. /\ pc = "loop" /\ pc' = "done" /\ AtEnd
      /\ UNCHANGED <<series, grpfn, it, buffer, prior_key>>
  BY DEF Finish
<1>2. CASE Collecting
  <2>1. prior_key # {}
    BY <1>2 DEF Collecting
  <2>2. Flush
    BY <2>1 DEF Finish
  <2>3. PICK n \in Nat \ {0} : n = Len(result) + 1
    BY <1>1, <1>2, CurrentChunk
  <2>4. Chunks = n
    BY <1>1, <1>2, <2>3, CurrentChunk
  <2>5. /\ result' \in Seq(Chunk) /\ Len(result') = n /\ DOMAIN result' = 1..n
        /\ \A m \in 1..n : RowsOf(m)' = RowsOf(m)
        /\ \A m \in 1..(n + 1) : First(m)' = First(m)
        /\ \A m \in 1..n : result'[m].key = GroupOf(First(m))
    BY <1>1, <1>2, <2>2, <2>3, FlushedChunk
  <2>6. Chunks' = n
    BY <1>1, <2>5 DEF Chunks
  <2>7. First(n + 1) = it
    BY <2>4 DEF IInv, RowsGrouped
  <2>8. First(n + 1)' = it'
    BY <1>1, <2>5, <2>7
  <2>9. First(Chunks + 1)' = it'
    BY <2>6, <2>8 DEF First, RowsOf
  <2>10. \A m \in DOMAIN result' : result'[m].key = GroupOf(First(m))'
    BY <1>1, <2>5 DEF GroupOf
  <2>11. ASSUME NEW m \in 1..n
         PROVE  /\ RowsOf(m)' # <<>>
                /\ \A q \in DOMAIN RowsOf(m)' :
                     /\ RowsOf(m)'[q] = First(m)' + q - 1
                     /\ GroupOf(First(m) + q - 1)' = GroupOf(First(m))'
                /\ m > 1 => GroupOf(First(m))' # GroupOf(First(m) - 1)'
    BY <1>1, <2>4, <2>5, ChunkStays
  <2>12. AtEnd'
    BY <1>1 DEF AtEnd
  <2>13. RowsGrouped'
    BY <2>6, <2>9, <2>10, <2>11, <2>12 DEF RowsGrouped
  <2>14. TypeOK'
    BY <1>1, <2>5 DEF IInv, TypeOK
  <2>. QED
    BY <1>1, <2>13, <2>14 DEF IInv
<1>3. CASE NothingYet
  <2>1. UNCHANGED result
    BY <1>3 DEF Finish, Flush, NothingYet
  <2>2. Chunks = 0 /\ Chunks' = 0
    BY <1>1, <1>3, <2>1, EmptySeq DEF Chunks, NothingYet
  <2>3. DOMAIN result' = {} /\ 1..0 = {}
    BY <1>3, <2>1, EmptySeq DEF NothingYet
  <2>4. First(Chunks + 1)' = it' /\ AtEnd'
    BY <1>1, <1>3, <2>2 DEF First, NothingYet, AtEnd
  <2>5. RowsGrouped'
    BY <2>2, <2>3, <2>4 DEF RowsGrouped
  <2>6. TypeOK'
    BY <1>1, <2>1 DEF IInv, TypeOK
  <2>. QED
    BY <1>1, <2>5, <2>6 DEF IInv
<1>. QED
  BY <1>1, <1>2, <1>3 DEF IInv

\* Every step preserves the invariant.
LEMMA NextIInv == IInv /\ [Next]_vars => IInv'
<1>. SUFFICES ASSUME IInv, [Next]_vars PROVE IInv'
  OBVIOUS
<1>1. CASE UNCHANGED vars
  <2>1. UNCHANGED <<series, grpfn, it, buffer, prior_key, result, pc>>
    BY <1>1 DEF vars
  <2>. QED
    BY <2>1 DEF IInv, TypeOK, RowsGrouped, NothingYet, Collecting, Chunks, RowsOf, First,
       GroupOf, AtEnd
<1>2. CASE Iterate
  <2>1. /\ pc = "loop" /\ UNCHANGED <<series, grpfn, pc>>
        /\ Collect \/ NextGroup
        /\ NothingYet \/ Collecting
    BY <1>2 DEF Iterate, IInv
  <2>2. CASE NothingYet
    <3>1. ~NextGroup
      BY <2>2 DEF NextGroup, NothingYet
    <3>. QED
      BY <2>1, <2>2, <3>1, FirstRowIInv
  <2>3. CASE Collecting
    BY <2>1, <2>3, SameGroupIInv, NextGroupIInv
  <2>. QED
    BY <2>1, <2>2, <2>3
<1>. QED
  BY <1>1, <1>2, FinishIInv DEF Next

\* The invariant holds throughout.
THEOREM Invariance == Spec => []IInv
BY InitIInv, NextIInv, PTL DEF Spec

\* The iterator never runs past the end, and there is one prior key at most.
THEOREM TypeCorrect == Spec => []TypeOK
<1>1. IInv => TypeOK
  BY DEF IInv
<1>. QED
  BY <1>1, Invariance, PTL

\* Every row is in exactly one chunk, every chunk holds a maximal run of rows of one
\* group, and its value is inserted at the key of that group.
THEOREM ChunksAreRuns == Spec => []RowsGrouped
<1>1. IInv => RowsGrouped
  BY DEF IInv
<1>. QED
  BY <1>1, Invariance, PTL
-----------------------------------------------------------------------------
(* Division and remainder of C++. *)

\* The quotient is truncated toward zero; the remainder has the sign of the dividend.
LEMMA Truncates ==
  ASSUME NEW a \in Int, NEW n \in Nat \ {0}
  PROVE  /\ Quotient(a, n) \in Int /\ Remainder(a, n) \in Int
         /\ a = n * Quotient(a, n) + Remainder(a, n)
         /\ a >= 0 => 0 <= Remainder(a, n) /\ Remainder(a, n) < n /\ 0 <= Quotient(a, n)
         /\ a < 0 => -n < Remainder(a, n) /\ Remainder(a, n) <= 0 /\ Quotient(a, n) <= 0
<1>1. ASSUME NEW b \in Int, b >= 0
      PROVE  /\ b \div n \in Int /\ b \div n >= 0
             /\ n * (b \div n) <= b /\ b < n * (b \div n) + n
  <2>1. b \div n \in Int
    OBVIOUS
  <2>2. b \div n >= 0
    BY <1>1
  <2>3. n * (b \div n) <= b
    OBVIOUS
  <2>4. b < n * (b \div n) + n
    OBVIOUS
  <2>. QED
    BY <2>1, <2>2, <2>3, <2>4
<1>2. CASE a >= 0
  <2>. DEFINE q == a \div n
  <2>1. Quotient(a, n) = q
    BY <1>2 DEF Quotient
  <2>2. q \in Int /\ q >= 0 /\ n * q <= a /\ a < n * q + n
    BY <1>1, <1>2
  <2>. HIDE DEF q
  <2>. QED
    BY <1>2, <2>1, <2>2 DEF Remainder
<1>3. CASE a < 0
  <2>. DEFINE q == (-a) \div n
  <2>1. Quotient(a, n) = -q
    BY <1>3 DEF Quotient
  <2>2. q \in Int /\ q >= 0 /\ n * q <= -a /\ -a < n * q + n
    BY <1>1, <1>3
  <2>. HIDE DEF q
  <2>3. n * (-q) = -(n * q) /\ n * q \in Int
    BY <2>2
  <2>. QED
    BY <1>3, <2>1, <2>2, <2>3 DEF Remainder
<1>. QED
  BY <1>2, <1>3

\* Multiplying by a positive number keeps an order.
LEMMA Scales ==
  ASSUME NEW x \in Int, NEW y \in Int, NEW n \in Nat \ {0}
  PROVE  /\ n * x \in Int /\ n * y \in Int
         /\ x <= y <=> n * x <= n * y
         /\ x < y <=> n * x < n * y
<1>1. n * x \in Int /\ n * y \in Int
  OBVIOUS
<1>2. ASSUME x <= y PROVE n * x <= n * y
  <2>1. n * (y - x) >= 0
    BY <1>2
  <2>. QED
    BY <2>1
<1>3. ASSUME x < y PROVE n * x < n * y
  <2>1. n * (y - x) > 0
    BY <1>3
  <2>. QED
    BY <2>1
<1>4. ASSUME y < x PROVE n * y < n * x
  <2>1. n * (x - y) > 0
    BY <1>4
  <2>. QED
    BY <2>1
<1>5. ASSUME y <= x PROVE n * y <= n * x
  <2>1. n * (x - y) >= 0
    BY <1>5
  <2>. QED
    BY <2>1
<1>. QED
  BY <1>1, <1>2, <1>3, <1>4, <1>5

\* A multiple leaves no remainder.
LEMMA Divides ==
  ASSUME NEW n \in Nat \ {0}, NEW q \in Int, NEW a, a = n * q
  PROVE  a % n = 0
OBVIOUS

\* Truncated division is monotone, across zero too.
LEMMA QuotientMonotone ==
  ASSUME NEW a \in Int, NEW b \in Int, NEW n \in Nat \ {0}, a <= b
  PROVE  Quotient(a, n) <= Quotient(b, n)
<1>. DEFINE p == Quotient(a, n)
            q == Quotient(b, n)
            r == Remainder(a, n)
            t == Remainder(b, n)
<1>1. /\ p \in Int /\ r \in Int /\ a = n * p + r
      /\ a >= 0 => 0 <= r /\ r < n /\ 0 <= p
      /\ a < 0 => -n < r /\ r <= 0 /\ p <= 0
  BY Truncates
<1>2. /\ q \in Int /\ t \in Int /\ b = n * q + t
      /\ b >= 0 => 0 <= t /\ t < n /\ 0 <= q
      /\ b < 0 => -n < t /\ t <= 0 /\ q <= 0
  BY Truncates
<1>. HIDE DEF p, q, r, t
<1>3. ASSUME q + 1 <= p PROVE FALSE
  <2>1. n * (q + 1) <= n * p
    <3>1. q + 1 \in Int
      BY <1>2
    <3>. QED
      BY <1>1, <1>3, <3>1, Scales
  <2>2. n * (q + 1) = n * q + n /\ n * q \in Int /\ n * p \in Int
    BY <1>1, <1>2
  <2>. QED
    BY <1>1, <1>2, <1>3, <2>1, <2>2
<1>. QED
  BY <1>1, <1>2, <1>3 DEF p, q

-----------------------------------------------------------------------------
(* The bar of a time. *)

\* Bars on whole units are counted from the epoch.
UpTo(u) == Quotient(u, Duration) + 1

DownTo(u) == Quotient(u, Duration)

NearestTo(u) ==
  IF Remainder(u, Duration) > Quotient(Duration, 2) THEN Quotient(u, Duration) + 1
  ELSE Quotient(u, Duration)

\* The clamp of round_up never bites: a remainder is smaller than the duration.
LEMMA Rounded ==
  ASSUME NEW k \in Int
  PROVE  /\ ModTicks(k, Duration) \in Int
         /\ RoundUp(k, Duration) = k + (Duration - ModTicks(k, Duration)) * Unit
         /\ RoundDown(k, Duration) = k - ModTicks(k, Duration) * Unit
         /\ RoundNearest(k, Duration)
              = k + ((IF ModTicks(k, Duration) > Quotient(Duration, 2)
                      THEN Duration ELSE 0) - ModTicks(k, Duration)) * Unit
<1>. DEFINE u == InUnits(k)
            r == Remainder(u, Duration)
<1>1. Unit \in Nat \ {0} /\ Duration \in Nat \ {0}
  BY UnitAssumption, DurationAssumption
<1>2. u \in Int
  BY <1>1, Truncates DEF InUnits
<1>. HIDE DEF u
<1>3. r \in Int /\ r < Duration
  <2>1. /\ r \in Int
        /\ u >= 0 => r < Duration
        /\ u < 0 => r <= 0
    BY <1>1, <1>2, Truncates
  <2>2. CASE u >= 0
    BY <2>1, <2>2
  <2>3. CASE u < 0
    BY <1>1, <2>1, <2>3
  <2>. QED
    BY <1>2, <2>2, <2>3
<1>4. ModTicks(k, Duration) = r
  BY DEF ModTicks, u
<1>. HIDE DEF r
<1>5. AtLeastZero(Duration - r) = Duration - r
  <2>1. Duration - r \in Int /\ ~(Duration - r < 0)
    BY <1>1, <1>3
  <2>. QED
    BY <2>1 DEF AtLeastZero
<1>6. RoundUp(k, Duration) = k + (Duration - r) * Unit
  BY <1>4, <1>5 DEF RoundUp
<1>7. RoundDown(k, Duration) = k - r * Unit
  BY <1>4 DEF RoundDown
<1>8. RoundNearest(k, Duration)
        = k + ((IF r > Quotient(Duration, 2) THEN Duration ELSE 0) - r) * Unit
  BY <1>4 DEF RoundNearest
<1>. QED
  BY <1>3, <1>4, <1>6, <1>7, <1>8

\* A time and its bar differ by whole units.
LEMMA KeepsBelowUnit ==
  ASSUME NEW k \in Int
  PROVE  /\ RoundUp(k, Duration) \in Int /\ (k - RoundUp(k, Duration)) % Unit = 0
         /\ RoundDown(k, Duration) \in Int /\ (k - RoundDown(k, Duration)) % Unit = 0
         /\ RoundNearest(k, Duration) \in Int /\ (k - RoundNearest(k, Duration)) % Unit = 0
<1>. DEFINE r   == ModTicks(k, Duration)
            off == IF r > Quotient(Duration, 2) THEN Duration ELSE 0
<1>1. Unit \in Nat \ {0} /\ Duration \in Nat \ {0} /\ r \in Int
  BY UnitAssumption, DurationAssumption, Rounded
<1>2. off \in Int
  BY <1>1
<1>3. /\ RoundUp(k, Duration) = k + (Duration - r) * Unit
      /\ RoundDown(k, Duration) = k - r * Unit
      /\ RoundNearest(k, Duration) = k + (off - r) * Unit
  BY Rounded
<1>. HIDE DEF r, off
<1>4. ASSUME NEW m \in Int
      PROVE  k + m * Unit \in Int /\ (k - (k + m * Unit)) % Unit = 0
  <2>1. k - (k + m * Unit) = Unit * (-m) /\ -m \in Int /\ k + m * Unit \in Int
    BY <1>1
  <2>. QED
    BY <1>1, <2>1, Divides
<1>5. /\ Duration - r \in Int /\ off - r \in Int /\ -r \in Int
      /\ k - r * Unit = k + (-r) * Unit
  BY <1>1, <1>2
<1>. QED
  BY <1>3, <1>4, <1>5

\* Units, durations and bars are positive.
LEMMA BarType == Unit \in Nat \ {0} /\ Duration \in Nat \ {0} /\ Bar \in Nat \ {0}
<1>1. Unit \in Nat \ {0} /\ Duration \in Nat \ {0}
  BY UnitAssumption, DurationAssumption
<1>2. Duration * Unit \in Nat /\ Duration * Unit > 0
  BY <1>1
<1>. QED
  BY <1>1, <1>2 DEF Bar

\* Counting in units loses nothing of a whole unit.
LEMMA WholeUnit ==
  ASSUME NEW k \in Int, k % Unit = 0
  PROVE  InUnits(k) \in Int /\ k = Unit * InUnits(k)
<1>. Unit \in Nat \ {0}
  BY UnitAssumption
<1>. DEFINE q == InUnits(k)
            r == Remainder(k, Unit)
            d == k \div Unit
<1>1. q \in Int /\ r \in Int /\ k = Unit * q + r /\ -Unit < r /\ r < Unit
  BY Truncates DEF InUnits
<1>2. d \in Int /\ k = Unit * d
  <2>1. k = Unit * (k \div Unit) + (k % Unit)
    OBVIOUS
  <2>. QED
    BY <2>1
<1>. HIDE DEF q, r, d
<1>3. q = d
  <2>1. ASSUME q < d PROVE FALSE
    <3>1. Unit * (q + 1) <= Unit * d /\ Unit * (q + 1) = Unit * q + Unit
      BY <1>1, <1>2, <2>1, Scales
    <3>. QED
      BY <1>1, <1>2, <3>1
  <2>2. ASSUME d < q PROVE FALSE
    <3>1. Unit * (d + 1) <= Unit * q /\ Unit * (d + 1) = Unit * d + Unit
      BY <1>1, <1>2, <2>2, Scales
    <3>. QED
      BY <1>1, <1>2, <3>1
  <2>. QED
    BY <1>1, <1>2, <2>1, <2>2
<1>. QED
  BY <1>1, <1>2, <1>3 DEF q

\* A time on whole units is rounded to a multiple of the bar.
LEMMA BarOf ==
  ASSUME NEW k \in Int, k % Unit = 0
  PROVE  LET u == InUnits(k)
         IN /\ RoundUp(k, Duration) = Bar * UpTo(u)
            /\ RoundDown(k, Duration) = Bar * DownTo(u)
            /\ RoundNearest(k, Duration) = Bar * NearestTo(u)
            /\ UpTo(u) \in Int /\ DownTo(u) \in Int /\ NearestTo(u) \in Int
<1>. DEFINE u    == InUnits(k)
            q    == Quotient(u, Duration)
            r    == Remainder(u, Duration)
            half == Quotient(Duration, 2)
<1>1. u \in Int /\ k = Unit * u
  BY WholeUnit
<1>2. Unit \in Nat \ {0} /\ Duration \in Nat \ {0}
  BY BarType
<1>3. /\ RoundUp(k, Duration) = k + (Duration - r) * Unit
      /\ RoundDown(k, Duration) = k - r * Unit
      /\ RoundNearest(k, Duration) = k + ((IF r > half THEN Duration ELSE 0) - r) * Unit
  BY Rounded DEF ModTicks
<1>4. /\ UpTo(u) = q + 1 /\ DownTo(u) = q
      /\ NearestTo(u) = IF r > half THEN q + 1 ELSE q
  BY DEF UpTo, DownTo, NearestTo
<1>. HIDE DEF u
<1>5. q \in Int /\ r \in Int /\ u = Duration * q + r
  BY <1>1, <1>2, Truncates
<1>. HIDE DEF q, r, half
<1>6. k - r * Unit = (Duration * Unit) * q
  <2>1. k = Unit * (Duration * q + r)
    BY <1>1, <1>5
  <2>2. Unit * (Duration * q + r) = (Duration * Unit) * q + r * Unit
    BY <1>2, <1>5
  <2>3. r * Unit \in Int /\ (Duration * Unit) * q \in Int
    BY <1>2, <1>5
  <2>. QED
    BY <2>1, <2>2, <2>3
<1>7. k + (Duration - r) * Unit = (Duration * Unit) * (q + 1)
  <2>1. (Duration - r) * Unit = Duration * Unit - r * Unit
    BY <1>2, <1>5
  <2>2. (Duration * Unit) * (q + 1) = (Duration * Unit) * q + Duration * Unit
    BY <1>2, <1>5
  <2>3. r * Unit \in Int /\ (Duration * Unit) * q \in Int /\ Duration * Unit \in Int
    BY <1>2, <1>5
  <2>. QED
    BY <1>6, <2>1, <2>2, <2>3
<1>8. k + (0 - r) * Unit = k - r * Unit
  BY <1>5, <1>2
<1>. QED
  BY <1>3, <1>4, <1>5, <1>6, <1>7, <1>8 DEF Bar, u

\* The rounders are monotone.
LEMMA RoundingMonotone ==
  ASSUME NEW k \in Int, k % Unit = 0, NEW l \in Int, l % Unit = 0, k <= l
  PROVE  /\ RoundUp(k, Duration) <= RoundUp(l, Duration)
         /\ RoundDown(k, Duration) <= RoundDown(l, Duration)
         /\ RoundNearest(k, Duration) <= RoundNearest(l, Duration)
<1>. DEFINE u    == InUnits(k)
            v    == InUnits(l)
            p    == Quotient(u, Duration)
            q    == Quotient(v, Duration)
            r    == Remainder(u, Duration)
            t    == Remainder(v, Duration)
            half == Quotient(Duration, 2)
<1>1. Unit \in Nat \ {0} /\ Duration \in Nat \ {0} /\ Bar \in Nat \ {0}
  BY BarType
<1>2. u \in Int /\ v \in Int
  BY WholeUnit
<1>3. u <= v
  BY <1>1, QuotientMonotone DEF InUnits
<1>4. /\ RoundUp(k, Duration) = Bar * UpTo(u)
      /\ RoundDown(k, Duration) = Bar * DownTo(u)
      /\ RoundNearest(k, Duration) = Bar * NearestTo(u)
      /\ UpTo(u) \in Int /\ DownTo(u) \in Int /\ NearestTo(u) \in Int
  BY BarOf
<1>5. /\ RoundUp(l, Duration) = Bar * UpTo(v)
      /\ RoundDown(l, Duration) = Bar * DownTo(v)
      /\ RoundNearest(l, Duration) = Bar * NearestTo(v)
      /\ UpTo(v) \in Int /\ DownTo(v) \in Int /\ NearestTo(v) \in Int
  BY BarOf
<1>. HIDE DEF u, v
<1>6. p <= q
  BY <1>1, <1>2, <1>3, QuotientMonotone
<1>7. /\ p \in Int /\ r \in Int /\ u = Duration * p + r
      /\ q \in Int /\ t \in Int /\ v = Duration * q + t
  BY <1>1, <1>2, Truncates
<1>8. /\ UpTo(u) = p + 1 /\ DownTo(u) = p
      /\ NearestTo(u) = IF r > half THEN p + 1 ELSE p
      /\ UpTo(v) = q + 1 /\ DownTo(v) = q
      /\ NearestTo(v) = IF t > half THEN q + 1 ELSE q
  BY DEF UpTo, DownTo, NearestTo
<1>9. half \in Int
  BY <1>1, Truncates
<1>. HIDE DEF p, q, r, t, half
<1>10. NearestTo(u) <= NearestTo(v)
  <2>1. CASE p < q
    BY <1>7, <1>8, <2>1
  <2>2. CASE p = q
    <3>1. r <= t
      <4>1. Duration * p \in Int
        BY <1>1, <1>7
      <4>. QED
        BY <1>2, <1>3, <1>7, <2>2, <4>1
    <3>. QED
      BY <1>7, <1>8, <1>9, <2>2, <3>1
  <2>. QED
    BY <1>6, <1>7, <2>1, <2>2
<1>11. UpTo(u) <= UpTo(v) /\ DownTo(u) <= DownTo(v)
  BY <1>6, <1>7, <1>8
<1>. QED
  BY <1>1, <1>4, <1>5, <1>10, <1>11, Scales

\* How far from its bar a time lies.
LEMMA WithinBar ==
  ASSUME NEW k \in Int, k % Unit = 0
  PROVE  LET up      == k - RoundUp(k, Duration)
             down    == k - RoundDown(k, Duration)
             nearest == k - RoundNearest(k, Duration)
         IN /\ up \in Int /\ down \in Int /\ nearest \in Int
            /\ k >= 0 => /\ -Bar <= up /\ up < 0
                         /\ 0 <= down /\ down < Bar
                         /\ -Bar < 2 * nearest /\ 2 * nearest <= Bar
            /\ k < 0 => /\ -2 * Bar < up /\ up <= -Bar
                        /\ -Bar < down /\ down <= 0
                        /\ -Bar < nearest /\ nearest <= 0
<1>. DEFINE u    == InUnits(k)
            r    == Remainder(u, Duration)
            half == Quotient(Duration, 2)
            off  == IF r > half THEN Duration ELSE 0
<1>1. Unit \in Nat \ {0} /\ Duration \in Nat \ {0} /\ Bar \in Nat \ {0}
  BY BarType
<1>2. u \in Int /\ k = Unit * u
  BY WholeUnit
<1>3. /\ RoundUp(k, Duration) = k + (Duration - r) * Unit
      /\ RoundDown(k, Duration) = k - r * Unit
      /\ RoundNearest(k, Duration) = k + (off - r) * Unit
  BY Rounded DEF ModTicks
<1>. HIDE DEF u
<1>4. k >= 0 <=> u >= 0
  <2>1. Unit * 0 = 0
    BY <1>1
  <2>2. 0 <= u <=> Unit * 0 <= Unit * u
    BY <1>1, <1>2, Scales
  <2>. QED
    BY <1>2, <2>1, <2>2
<1>5. /\ r \in Int
      /\ u >= 0 => 0 <= r /\ r < Duration
      /\ u < 0 => -Duration < r /\ r <= 0
  BY <1>1, <1>2, Truncates
<1>6. half \in Int /\ 0 <= half /\ 2 * half <= Duration /\ Duration <= 2 * half + 1
  <2>. DEFINE e == Remainder(Duration, 2)
  <2>1. /\ half \in Int /\ e \in Int /\ Duration = 2 * half + e
        /\ 0 <= e /\ e < 2 /\ 0 <= half
    BY <1>1, Truncates
  <2>. HIDE DEF e, half
  <2>. QED
    BY <1>1, <2>1
<1>. HIDE DEF r, half
<1>7. off \in Int
  BY <1>1
<1>8. /\ u >= 0 => -Duration < 2 * (r - off) /\ 2 * (r - off) <= Duration
      /\ u < 0 => -Duration < r - off /\ r - off <= 0
  BY <1>1, <1>2, <1>5, <1>6
<1>. HIDE DEF off
<1>9. /\ k - RoundUp(k, Duration) = Unit * (r - Duration)
      /\ k - RoundDown(k, Duration) = Unit * r
      /\ k - RoundNearest(k, Duration) = Unit * (r - off)
  <2>1. /\ k - (k + (Duration - r) * Unit) = Unit * (r - Duration)
        /\ k - (k - r * Unit) = Unit * r
        /\ k - (k + (off - r) * Unit) = Unit * (r - off)
    BY <1>1, <1>5, <1>7
  <2>. QED
    BY <1>3, <2>1
<1>10. /\ Unit * Duration = Bar /\ Unit * (-Duration) = -Bar /\ Unit * 0 = 0
       /\ Unit * (-2 * Duration) = -2 * Bar
       /\ Unit * (2 * (r - off)) = 2 * (Unit * (r - off))
  BY <1>1, <1>5, <1>7 DEF Bar
<1>11. /\ r - Duration \in Int /\ r - off \in Int /\ 2 * (r - off) \in Int
       /\ -Duration \in Int /\ -2 * Duration \in Int
  BY <1>1, <1>5, <1>7
<1>12. /\ Unit * (r - Duration) \in Int /\ Unit * r \in Int /\ Unit * (r - off) \in Int
  BY <1>1, <1>5, <1>11
<1>13. ASSUME u >= 0
       PROVE  /\ -Bar <= Unit * (r - Duration) /\ Unit * (r - Duration) < 0
              /\ 0 <= Unit * r /\ Unit * r < Bar
              /\ -Bar < 2 * (Unit * (r - off)) /\ 2 * (Unit * (r - off)) <= Bar
  <2>1. -Duration <= r - Duration /\ r - Duration < 0
    BY <1>1, <1>5, <1>13
  <2>2. -Bar <= Unit * (r - Duration) /\ Unit * (r - Duration) < 0
    BY <1>1, <1>10, <1>11, <2>1, Scales
  <2>3. 0 <= Unit * r /\ Unit * r < Bar
    BY <1>1, <1>5, <1>10, <1>13, Scales
  <2>4. -Bar < 2 * (Unit * (r - off)) /\ 2 * (Unit * (r - off)) <= Bar
    BY <1>1, <1>8, <1>10, <1>11, <1>13, Scales
  <2>. QED
    BY <2>2, <2>3, <2>4
<1>14. ASSUME u < 0
       PROVE  /\ -2 * Bar < Unit * (r - Duration) /\ Unit * (r - Duration) <= -Bar
              /\ -Bar < Unit * r /\ Unit * r <= 0
              /\ -Bar < Unit * (r - off) /\ Unit * (r - off) <= 0
  <2>1. -2 * Duration < r - Duration /\ r - Duration <= -Duration
    BY <1>1, <1>5, <1>14
  <2>2. -2 * Bar < Unit * (r - Duration) /\ Unit * (r - Duration) <= -Bar
    BY <1>1, <1>10, <1>11, <2>1, Scales
  <2>3. -Bar < Unit * r /\ Unit * r <= 0
    BY <1>1, <1>5, <1>10, <1>11, <1>14, Scales
  <2>4. -Bar < Unit * (r - off) /\ Unit * (r - off) <= 0
    BY <1>1, <1>8, <1>10, <1>11, <1>14, Scales
  <2>. QED
    BY <2>2, <2>3, <2>4
<1>15. (k >= 0 => u >= 0) /\ (k < 0 => u < 0)
  BY <1>2, <1>4
<1>. QED
  BY <1>9, <1>12, <1>13, <1>14, <1>15

-----------------------------------------------------------------------------
(* The chunks in order. *)

\* A set of naturals has a least one.
LEMMA Least ==
  ASSUME NEW S \in SUBSET Nat, S # {}
  PROVE  \E x \in S : \A y \in S : x <= y
<1>. DEFINE R == OpToRel(<, Nat)
<1>1. PICK x \in S : \A y \in S : ~ (<<y, x>> \in R)
  <2>1. IsWellFoundedOn(R, Nat)
    BY NatLessThanWellFounded
  <2>. HIDE DEF R
  <2>. QED
    BY <2>1, WFMin
<1>2. ASSUME NEW y \in S PROVE x <= y
  <2>1. x \in Nat /\ y \in Nat
    OBVIOUS
  <2>2. ~ (y < x)
    BY <1>1, <2>1 DEF OpToRel
  <2>. QED
    BY <2>1, <2>2
<1>. QED
  BY <1>2

\* A chunk ends where the next one starts.
LEMMA NextFirst ==
  ASSUME IInv, NEW n \in 1..Chunks
  PROVE  /\ Len(RowsOf(n)) \in Nat \ {0} /\ DOMAIN RowsOf(n) = 1..Len(RowsOf(n))
         /\ First(n) \in Nat
         /\ First(n + 1) = First(n) + Len(RowsOf(n))
<1>1. /\ buffer \in Seq(Nat) /\ result \in Seq(Chunk) /\ RowsOf(n) # <<>>
      /\ \A q \in DOMAIN RowsOf(n) : RowsOf(n)[q] = First(n) + q - 1
  BY DEF IInv, TypeOK, RowsGrouped
<1>2. Chunks \in Nat
  BY <1>1, LenProperties DEF Chunks
<1>3. ASSUME NEW m \in 1..Chunks PROVE RowsOf(m) \in Seq(Nat) /\ RowsOf(m) # <<>>
  <2>1. CASE m \in DOMAIN result
    <3>1. result[m] \in Chunk
      BY <1>1, <2>1, LenProperties
    <3>. QED
      BY <2>1, <3>1 DEF RowsOf, Chunk, IInv, RowsGrouped
  <2>2. CASE m \notin DOMAIN result
    BY <1>1, <2>2 DEF RowsOf, IInv, RowsGrouped
  <2>. QED
    BY <2>1, <2>2
<1>4. ASSUME NEW m \in 1..Chunks
      PROVE  /\ Len(RowsOf(m)) \in Nat \ {0} /\ DOMAIN RowsOf(m) = 1..Len(RowsOf(m))
             /\ RowsOf(m)[1] \in Nat
  BY <1>3, EmptySeq, LenProperties
<1>5. First(n) \in Nat
  <2>1. CASE n = 1
    BY <2>1 DEF First
  <2>2. CASE n # 1
    <3>1. n - 1 \in 1..Chunks
      BY <1>2, <2>2
    <3>2. RowsOf(n - 1)[1] \in Nat /\ Len(RowsOf(n - 1)) \in Nat
      BY <1>4, <3>1
    <3>. QED
      BY <2>2, <3>2 DEF First
  <2>. QED
    BY <2>1, <2>2
<1>6. RowsOf(n)[1] = First(n)
  <2>1. 1 \in DOMAIN RowsOf(n)
    BY <1>4
  <2>. QED
    BY <1>1, <1>5, <2>1
<1>7. First(n + 1) = RowsOf(n)[1] + Len(RowsOf(n))
  <2>1. n + 1 # 1 /\ (n + 1) - 1 = n
    BY <1>2
  <2>. QED
    BY <2>1 DEF First
<1>. QED
  BY <1>4, <1>5, <1>6, <1>7

\* A later chunk starts at a later row.
LEMMA FirstIncreases ==
  ASSUME IInv, NEW n \in 1..(Chunks + 1), NEW m \in 1..(Chunks + 1), m < n
  PROVE  First(m) \in Nat /\ First(n) \in Nat /\ First(m) < First(n)
<1>. DEFINE Later == {i \in 1..(Chunks + 1) : i > m /\ ~ (First(m) < First(i))}
<1>1. Chunks \in Nat
  BY LenProperties DEF IInv, TypeOK, Chunks
<1>2. m \in 1..Chunks
  BY <1>1
<1>3. First(m) \in Nat
  BY <1>2, NextFirst
<1>4. ASSUME Later # {} PROVE FALSE
  <2>1. Later \in SUBSET Nat
    BY <1>1
  <2>. HIDE DEF Later
  <2>2. PICK i \in Later : \A j \in Later : i <= j
    BY <1>4, <2>1, Least
  <2>. USE DEF Later
  <2>3. i \in 1..(Chunks + 1) /\ i > m /\ ~ (First(m) < First(i))
    BY <2>2
  <2>4. i - 1 \in 1..Chunks /\ i - 1 >= m /\ (i - 1) + 1 = i /\ i - 1 \in 1..(Chunks + 1)
    BY <1>1, <2>3
  <2>5. /\ Len(RowsOf(i - 1)) \in Nat \ {0} /\ First(i - 1) \in Nat
        /\ First(i) = First(i - 1) + Len(RowsOf(i - 1))
    BY <2>4, NextFirst
  <2>6. First(m) <= First(i - 1)
    <3>1. CASE i - 1 = m
      BY <1>3, <3>1
    <3>2. CASE i - 1 > m
      <4>1. ~ (i <= i - 1)
        BY <2>3
      <4>2. i - 1 \notin Later
        BY <2>2, <4>1
      <4>. QED
        BY <1>3, <2>4, <2>5, <3>2, <4>2
    <3>. QED
      BY <1>1, <2>3, <2>4, <3>1, <3>2
  <2>. QED
    BY <1>3, <2>3, <2>5, <2>6
<1>5. First(m) < First(n)
  BY <1>4
<1>6. First(n) \in Nat
  <2>1. n - 1 \in 1..Chunks /\ (n - 1) + 1 = n
    BY <1>1, <1>2
  <2>2. First(n) = First(n - 1) + Len(RowsOf(n - 1)) /\ First(n - 1) \in Nat
        /\ Len(RowsOf(n - 1)) \in Nat
    BY <2>1, NextFirst
  <2>. QED
    BY <2>2
<1>. QED
  BY <1>3, <1>5, <1>6

\* The rows of a chunk of the result are rows of the series, at the key of their group.
LEMMA ResultRows ==
  ASSUME IInv, NEW n \in DOMAIN result
  PROVE  /\ n \in 1..Chunks /\ First(n) \in DOMAIN series
         /\ result[n].key = GroupOf(First(n))
         /\ n > 1 => /\ First(n) - 1 \in DOMAIN series
                     /\ GroupOf(First(n)) # GroupOf(First(n) - 1)
         /\ \A q \in DOMAIN result[n].rows :
              /\ result[n].rows[q] \in DOMAIN series
              /\ GroupOf(result[n].rows[q]) = result[n].key
<1>1. /\ series \in Seq(Key) /\ result \in Seq(Chunk)
      /\ it \in 1..(Len(series) + 1)
  BY InputsAssumption DEF IInv, TypeOK
<1>2. /\ DOMAIN series = 1..Len(series) /\ Len(series) \in Nat
      /\ DOMAIN result = 1..Len(result) /\ Len(result) \in Nat
  BY <1>1, LenProperties
<1>3. Chunks \in Nat /\ n \in 1..Chunks /\ n \in Nat
  BY <1>2 DEF Chunks
<1>4. RowsOf(n) = result[n].rows
  BY DEF RowsOf
<1>5. /\ result[n].key = GroupOf(First(n))
      /\ n > 1 => GroupOf(First(n)) # GroupOf(First(n) - 1)
      /\ \A q \in DOMAIN RowsOf(n) :
           /\ RowsOf(n)[q] = First(n) + q - 1
           /\ GroupOf(First(n) + q - 1) = GroupOf(First(n))
      /\ First(Chunks + 1) = it
  BY <1>3 DEF IInv, RowsGrouped
<1>6. /\ Len(RowsOf(n)) \in Nat \ {0} /\ DOMAIN RowsOf(n) = 1..Len(RowsOf(n))
      /\ First(n) \in Nat /\ First(n + 1) = First(n) + Len(RowsOf(n))
  BY <1>3, NextFirst
<1>7. 1 <= First(n) /\ (n > 1 => 2 <= First(n))
  <2>1. First(1) = 1
    BY DEF First
  <2>2. CASE n = 1
    BY <2>1, <2>2
  <2>3. CASE n > 1
    <3>1. 1 \in 1..(Chunks + 1) /\ n \in 1..(Chunks + 1) /\ 1 < n
      BY <1>3, <2>3
    <3>2. First(1) < First(n)
      BY <3>1, FirstIncreases
    <3>. QED
      BY <1>6, <2>1, <3>2
  <2>. QED
    BY <1>3, <2>2, <2>3
<1>8. First(n + 1) <= Len(series) + 1
  <2>1. CASE n = Chunks
    BY <1>1, <1>2, <1>5, <2>1
  <2>2. CASE n < Chunks
    <3>1. n + 1 \in 1..(Chunks + 1) /\ Chunks + 1 \in 1..(Chunks + 1) /\ n + 1 < Chunks + 1
      BY <1>3, <2>2
    <3>2. First(n + 1) \in Nat /\ First(n + 1) < First(Chunks + 1)
      BY <3>1, FirstIncreases
    <3>. QED
      BY <1>1, <1>2, <1>5, <3>2
  <2>. QED
    BY <1>3, <2>1, <2>2
<1>9. First(n) \in DOMAIN series /\ (n > 1 => First(n) - 1 \in DOMAIN series)
  BY <1>2, <1>6, <1>7, <1>8
<1>10. ASSUME NEW q \in DOMAIN result[n].rows
       PROVE  /\ result[n].rows[q] \in DOMAIN series
              /\ GroupOf(result[n].rows[q]) = result[n].key
  <2>1. q \in 1..Len(RowsOf(n)) /\ result[n].rows[q] = First(n) + q - 1
    BY <1>4, <1>5, <1>6
  <2>2. First(n) + q - 1 \in 1..Len(series)
    BY <1>2, <1>6, <1>7, <1>8, <2>1
  <2>. QED
    BY <1>2, <1>4, <1>5, <1>10, <2>1, <2>2
<1>. QED
  BY <1>3, <1>5, <1>9, <1>10

-----------------------------------------------------------------------------
(* Resampling with a rounder. *)

Rounders == {Up, Down, Nearest}

\* The group of a row is its key rounded.
LEMMA RoundedGroup ==
  ASSUME TypeOK, NEW p \in DOMAIN series
  PROVE  /\ series[p] \in Int
         /\ grpfn = Up => GroupOf(p) = RoundUp(series[p], Duration)
         /\ grpfn = Down => GroupOf(p) = RoundDown(series[p], Duration)
         /\ grpfn = Nearest => GroupOf(p) = RoundNearest(series[p], Duration)
<1>1. series \in Seq(Key)
  BY InputsAssumption DEF TypeOK
<1>2. series[p] \in Key /\ series[p] \in Int
  BY <1>1, LenProperties, KeyAssumption
<1>. QED
  BY <1>2 DEF GroupOf, Up, Down, Nearest

\* A row and its bar.
LEMMA RowInBar ==
  ASSUME TypeOK, grpfn \in Rounders, NEW p \in DOMAIN series
  PROVE  /\ GroupOf(p) \in Int /\ (series[p] - GroupOf(p)) % Unit = 0
         /\ series[p] % Unit = 0 => /\ GroupOf(p) % Bar = 0
                                    /\ Covers(series[p] - GroupOf(p), series[p])
<1>. DEFINE k == series[p]
<1>1. k \in Int /\ GroupOf(p) \in Int
  BY RoundedGroup, GroupsAreNumbers
<1>2. /\ grpfn = Up => GroupOf(p) = RoundUp(k, Duration)
      /\ grpfn = Down => GroupOf(p) = RoundDown(k, Duration)
      /\ grpfn = Nearest => GroupOf(p) = RoundNearest(k, Duration)
  BY RoundedGroup
<1>3. grpfn = Up \/ grpfn = Down \/ grpfn = Nearest
  BY DEF Rounders
<1>. HIDE DEF k
<1>4. (k - GroupOf(p)) % Unit = 0
  BY <1>1, <1>2, <1>3, KeepsBelowUnit
<1>5. ASSUME k % Unit = 0 PROVE GroupOf(p) % Bar = 0
  <2>1. \E q \in Int : GroupOf(p) = Bar * q
    BY <1>1, <1>2, <1>3, <1>5, BarOf
  <2>. QED
    BY <2>1, BarType, Divides
<1>6. ASSUME k % Unit = 0 PROVE Covers(k - GroupOf(p), k)
  <2>1. k \in Int /\ (k >= 0 \/ k < 0) /\ ~ (k >= 0 /\ k < 0)
    BY <1>1
  <2>2. CASE k >= 0
    <3>1. /\ grpfn = Up => -Bar <= k - GroupOf(p) /\ k - GroupOf(p) < 0
          /\ grpfn = Down => 0 <= k - GroupOf(p) /\ k - GroupOf(p) < Bar
          /\ grpfn = Nearest => /\ -Bar < 2 * (k - GroupOf(p))
                                /\ 2 * (k - GroupOf(p)) <= Bar
      BY <1>1, <1>2, <1>6, <2>2, WithinBar
    <3>. QED
      BY <2>2, <3>1 DEF Covers
  <2>3. CASE k < 0
    <3>1. /\ grpfn = Up => -2 * Bar < k - GroupOf(p) /\ k - GroupOf(p) <= -Bar
          /\ grpfn = Down => -Bar < k - GroupOf(p) /\ k - GroupOf(p) <= 0
          /\ grpfn = Nearest => -Bar < k - GroupOf(p) /\ k - GroupOf(p) <= 0
      BY <1>1, <1>2, <1>6, <2>3, WithinBar
    <3>. QED
      BY <2>1, <2>3, <3>1 DEF Covers
  <2>. QED
    BY <2>1, <2>2, <2>3
<1>. QED
  BY <1>1, <1>4, <1>5, <1>6 DEF k

\* A later row is not in an earlier bar.
LEMMA BarsOrdered ==
  ASSUME TypeOK, grpfn \in Rounders,
         NEW p \in DOMAIN series, NEW q \in DOMAIN series,
         series[p] % Unit = 0, series[q] % Unit = 0, series[p] <= series[q]
  PROVE  GroupOf(p) <= GroupOf(q)
<1>1. series[p] \in Int /\ series[q] \in Int
  BY RoundedGroup
<1>2. /\ RoundUp(series[p], Duration) <= RoundUp(series[q], Duration)
      /\ RoundDown(series[p], Duration) <= RoundDown(series[q], Duration)
      /\ RoundNearest(series[p], Duration) <= RoundNearest(series[q], Duration)
  BY <1>1, RoundingMonotone
<1>3. grpfn = Up \/ grpfn = Down \/ grpfn = Nearest
  BY DEF Rounders
<1>. QED
  BY <1>2, <1>3, RoundedGroup

\* Bars of whole units come in the order of their times.
LEMMA KeysIncrease ==
  ASSUME IInv, grpfn \in Rounders, WholeUnits,
         \A p, q \in DOMAIN series : p < q => series[p] < series[q],
         NEW m \in DOMAIN result, NEW n \in DOMAIN result, m < n
  PROVE  result[m].key < result[n].key
<1>. DEFINE a == First(m)
            b == First(n)
<1>1. /\ m \in 1..Chunks /\ a \in DOMAIN series /\ result[m].key = GroupOf(a)
  BY ResultRows
<1>2. /\ n \in 1..Chunks /\ b \in DOMAIN series /\ result[n].key = GroupOf(b)
      /\ n > 1 => b - 1 \in DOMAIN series /\ GroupOf(b) # GroupOf(b - 1)
  BY ResultRows
<1>3. Chunks \in Nat
  BY LenProperties DEF IInv, TypeOK, Chunks
<1>4. n > 1 /\ m \in 1..(Chunks + 1) /\ n \in 1..(Chunks + 1)
  BY <1>1, <1>2, <1>3
<1>5. a \in Nat /\ b \in Nat /\ a < b
  BY <1>4, FirstIncreases
<1>. HIDE DEF a, b
<1>6. TypeOK
  BY DEF IInv
<1>7. ASSUME NEW p \in DOMAIN series
      PROVE  series[p] \in Int /\ series[p] % Unit = 0 /\ GroupOf(p) \in Int
  BY <1>6, RoundedGroup, GroupsAreNumbers DEF WholeUnits
<1>8. ASSUME NEW p \in DOMAIN series, NEW q \in DOMAIN series, p < q
      PROVE  series[p] <= series[q]
  <2>1. series[p] < series[q]
    BY <1>8
  <2>. QED
    BY <1>7, <2>1
<1>9. GroupOf(a) <= GroupOf(b - 1)
  <2>1. CASE a = b - 1
    <3>1. GroupOf(a) \in Int
      BY <1>1, <1>7
    <3>. QED
      BY <2>1, <3>1
  <2>2. CASE a < b - 1
    BY <1>1, <1>2, <1>4, <1>6, <1>7, <1>8, <2>2, BarsOrdered
  <2>. QED
    BY <1>5, <2>1, <2>2
<1>10. GroupOf(b - 1) <= GroupOf(b)
  <2>1. b - 1 < b
    BY <1>5
  <2>. QED
    BY <1>2, <1>4, <1>6, <1>7, <1>8, <2>1, BarsOrdered
<1>11. GroupOf(a) \in Int /\ GroupOf(b - 1) \in Int /\ GroupOf(b) \in Int
  BY <1>1, <1>2, <1>4, <1>7
<1>. QED
  BY <1>1, <1>2, <1>4, <1>9, <1>10, <1>11

\* Rows aggregated with a rounder of time_rounder: the bars of an increasing series lie
\* at multiples of the duration, hold the rows of the stretch they cover and no others,
\* and none comes twice, for every duration, unit and series, before and after the epoch.
THEOREM BarsAreCovered == Spec => []BarsCover
<1>1. ASSUME IInv PROVE BarsCover
  <2>. SUFFICES ASSUME grpfn \in Rounders
       PROVE /\ \A n \in DOMAIN result : \A q \in DOMAIN result[n].rows :
                  (series[result[n].rows[q]] - result[n].key) % Unit = 0
             /\ WholeUnits =>
               /\ \A n \in DOMAIN result :
                    /\ result[n].key % Bar = 0
                    /\ \A q \in DOMAIN result[n].rows :
                         Covers(series[result[n].rows[q]] - result[n].key,
                                series[result[n].rows[q]])
               /\ (\A p, q \in DOMAIN series : p < q => series[p] < series[q]) =>
                    \A m, n \in DOMAIN result : m < n => result[m].key < result[n].key
    BY DEF BarsCover, Rounders
  <2>1. TypeOK
    BY <1>1 DEF IInv
  <2>2. ASSUME NEW n \in DOMAIN result
        PROVE  /\ First(n) \in DOMAIN series /\ result[n].key = GroupOf(First(n))
               /\ \A q \in DOMAIN result[n].rows :
                    /\ result[n].rows[q] \in DOMAIN series
                    /\ GroupOf(result[n].rows[q]) = result[n].key
    BY <1>1, ResultRows
  <2>3. ASSUME NEW n \in DOMAIN result, NEW q \in DOMAIN result[n].rows
        PROVE  (series[result[n].rows[q]] - result[n].key) % Unit = 0
    BY <2>1, <2>2, RowInBar
  <2>4. ASSUME WholeUnits, NEW n \in DOMAIN result PROVE result[n].key % Bar = 0
    BY <2>1, <2>2, <2>4, RowInBar DEF WholeUnits
  <2>5. ASSUME WholeUnits, NEW n \in DOMAIN result, NEW q \in DOMAIN result[n].rows
        PROVE  Covers(series[result[n].rows[q]] - result[n].key,
                      series[result[n].rows[q]])
    <3>. DEFINE p == result[n].rows[q]
    <3>1. p \in DOMAIN series /\ GroupOf(p) = result[n].key
      BY <2>2
    <3>. HIDE DEF p
    <3>2. Covers(series[p] - GroupOf(p), series[p])
      BY <2>1, <2>5, <3>1, RowInBar DEF WholeUnits
    <3>. QED
      BY <3>1, <3>2 DEF p
  <2>6. ASSUME WholeUnits, \A p, q \in DOMAIN series : p < q => series[p] < series[q],
               NEW m \in DOMAIN result, NEW n \in DOMAIN result, m < n
        PROVE  result[m].key < result[n].key
    BY <1>1, <2>6, KeysIncrease
  <2>. QED
    BY <2>3, <2>4, <2>5, <2>6
<1>. QED
  BY <1>1, Invariance, PTL
=============================================================================
