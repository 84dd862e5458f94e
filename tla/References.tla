----------------------------- MODULE References -----------------------------
(***************************************************************************)
(* The container with the memory of its columns: capacities, reserve, and  *)
(* one iterator that the program keeps while it goes on using the series.  *)
(* The references that at and try_at return are the value half of such an  *)
(* iterator.                                                               *)
(*                                                                         *)
(* Each action is one of TimeSeries, with what it does to the memory of    *)
(* the vectors.  A vector that is full doubles its capacity, a reference   *)
(* into memory that has been given back dangles, and moving a vector takes *)
(* its memory along.                                                       *)
(***************************************************************************)
EXTENDS TimeSeries

CONSTANTS Gone,     \* where a dangling half of an iterator points
          Reserved  \* the numbers of rows that reserve is called with

ASSUME GoneAssumption     == Gone \notin Obj
ASSUME ReservedAssumption == Reserved \subseteq Nat

VARIABLES keyRoom, valueRoom,  \* the capacity of keys_ and of values_
          keyHalf, valueHalf,  \* whose columns the halves of the iterator point into
          at,                  \* the position they point to
          held,                \* history: the row the program takes it to point to
          promised,            \* history: the rows the program has reserved
          regular              \* history: nothing has failed, nothing was ragged

memory == <<keyRoom, valueRoom>>
iterator == <<keyHalf, valueHalf, at>>
allVars == <<vars, memory, iterator, held, promised, regular>>

RefInit ==
  /\ Init
  /\ keyRoom = [o \in Obj |-> 0]
  /\ valueRoom = [o \in Obj |-> 0]
  /\ keyHalf = Gone
  /\ valueHalf = Gone
  /\ at = 1
  /\ held = <<Gone, Gone>>
  /\ promised = [o \in Obj |-> 0]
  /\ regular = TRUE

Greater(m, n) == IF m < n THEN n ELSE m

\* The capacity of a vector of n elements after one more has been inserted.
Grown(room, n) == IF n < room THEN room ELSE Greater(2 * n, 1)

\* Where a half that points to half points after references into o were invalidated.
Unless(invalidated, half, o) == IF invalidated /\ half = o THEN Gone ELSE half

\* What the iterator is expected to show from now on; a half that is lost, nothing.
Expect(k, v) ==
  held' = <<IF keyHalf' = Gone THEN Gone ELSE k, IF valueHalf' = Gone THEN Gone ELSE v>>

ExpectTheSame == Expect(held[1], held[2])

\* it = begin() + (i - 1), &at(d), &*try_at(d)
Take(o, i) ==
  /\ i \in DOMAIN keys[o] \cap DOMAIN values[o]
  /\ keyHalf' = o /\ valueHalf' = o /\ at' = i
  /\ Expect(keys[o][i], values[o][i])
  /\ UNCHANGED <<vars, memory, promised, regular>>

\* ++, --, + n, - n: both halves move alike.  The iterator is kept at a row.
Step(n) ==
  /\ keyHalf # Gone /\ keyHalf = valueHalf
  /\ at + n \in DOMAIN keys[keyHalf] \cap DOMAIN values[keyHalf]
  /\ at' = at + n
  /\ UNCHANGED <<vars, memory, keyHalf, valueHalf, promised, regular>>
  /\ Expect(keys[keyHalf][at'], values[valueHalf][at'])

\* What an insertion does to the memory.  Its second half throws only if values_ is
\* full.  It invalidates the references to everything at or behind the place of the new
\* row, and all of them if the vector grows.
InsertMemory(o, atBegin) ==
  LET failed == values' = values
  IN /\ failed => Len(values[o]) = valueRoom[o]
     /\ keyRoom' = [keyRoom EXCEPT ![o] = Grown(@, Len(keys[o]))]
     /\ keyHalf' = Unless(atBegin \/ Len(keys[o]) = keyRoom[o], keyHalf, o)
     /\ IF failed THEN UNCHANGED <<valueRoom, valueHalf>>
        ELSE /\ valueRoom' = [valueRoom EXCEPT ![o] = Grown(@, Len(values[o]))]
             /\ valueHalf' = Unless(atBegin \/ Len(values[o]) = valueRoom[o], valueHalf, o)
     /\ ExpectTheSame
     /\ regular' = (regular /\ ~failed)
     /\ UNCHANGED <<at, promised>>

RefInsertEnd(o, k, v)   == InsertEnd(o, k, v) /\ InsertMemory(o, FALSE)
RefInsertStart(o, k, v) == InsertStart(o, k, v) /\ InsertMemory(o, TRUE)

RefAssignAt(o, d, v) ==
  /\ AssignAt(o, d, v)
  /\ UNCHANGED <<memory, iterator, promised, regular>>
  /\ Expect(held[1], IF valueHalf = o /\ at \in Locate(keys[o], d) THEN v ELSE held[2])

RefAssignThroughIterator(o, i, k, v) ==
  /\ AssignThroughIterator(o, i, k, v)
  /\ UNCHANGED <<memory, iterator, promised, regular>>
  /\ Expect(IF keyHalf = o /\ at = i THEN k ELSE held[1],
            IF valueHalf = o /\ at = i THEN v ELSE held[2])

\* Mutant: of the keys only.
ReserveKeys(o, n) ==
  /\ n > promised[o]
  /\ keyRoom' = [keyRoom EXCEPT ![o] = Greater(@, n)]
  /\ keyHalf' = Unless(keyRoom[o] < n, keyHalf, o)
  /\ promised' = [promised EXCEPT ![o] = n]
  /\ UNCHANGED <<vars, valueRoom, valueHalf, at, regular>>
  /\ ExpectTheSame

\* keys_.reserve, then values_.reserve, which may throw if it has to allocate.
Reserve(o, n) ==
  /\ n > promised[o]
  /\ keyRoom' = [keyRoom EXCEPT ![o] = Greater(@, n)]
  /\ keyHalf' = Unless(keyRoom[o] < n, keyHalf, o)
  /\ \/ /\ valueRoom' = [valueRoom EXCEPT ![o] = Greater(@, n)]
        /\ valueHalf' = Unless(valueRoom[o] < n, valueHalf, o)
        /\ promised' = [promised EXCEPT ![o] = n]
        /\ UNCHANGED regular
     \/ /\ MayThrow /\ valueRoom[o] < n
        /\ regular' = FALSE
        /\ UNCHANGED <<valueRoom, valueHalf, promised>>
  /\ ExpectTheSame
  /\ UNCHANGED <<vars, at>>

\* o is given new memory, just large enough for its columns.
FreshMemory(o) ==
  /\ keyRoom' = [keyRoom EXCEPT ![o] = Len(keys'[o])]
  /\ valueRoom' = [valueRoom EXCEPT ![o] = Len(values'[o])]
  /\ keyHalf' = Unless(TRUE, keyHalf, o)
  /\ valueHalf' = Unless(TRUE, valueHalf, o)
  /\ promised' = [promised EXCEPT ![o] = 0]
  /\ ExpectTheSame
  /\ UNCHANGED at

RefConstruct(o, ks, vs) ==
  /\ Construct(o, ks, vs)
  /\ FreshMemory(o)
  /\ regular' = (regular /\ Len(ks) = Len(vs))

RefCopyConstruct(o, p) == CopyConstruct(o, p) /\ FreshMemory(o) /\ UNCHANGED regular

\* Each column keeps its memory if the new content fits into it; a reference behind
\* the new content is lost all the same.
RefCopyAssign(o, p) ==
  LET failed == keys' = keys /\ keys[o] # keys[p]
  IN /\ CopyAssign(o, p)
     /\ failed => keyRoom[o] < Len(keys[p])
     /\ valueRoom' = [valueRoom EXCEPT ![o] = Greater(@, Len(values[p]))]
     /\ valueHalf' = Unless(valueRoom[o] < Len(values[p]) \/ at > Len(values[p]), valueHalf, o)
     /\ IF failed THEN UNCHANGED <<keyRoom, keyHalf>>
        ELSE /\ keyRoom' = [keyRoom EXCEPT ![o] = Greater(@, Len(keys[p]))]
             /\ keyHalf' = Unless(keyRoom[o] < Len(keys[p]) \/ at > Len(keys[p]), keyHalf, o)
     /\ Expect(IF keyHalf = o /\ ~failed THEN keys[p][at] ELSE held[1],
               IF valueHalf = o THEN values[p][at] ELSE held[2])
     /\ regular' = (regular /\ ~failed)
     /\ UNCHANGED <<at, promised>>

\* A half that points to half points to its new owner once p has been moved to o.
Follow(half, o, p) == IF half = p THEN o ELSE Unless(TRUE, half, o)

\* Mutant: the values are copied, so that references to them stay behind.
MoveKeysOnly(o, p) ==
  /\ Move(o, p)
  /\ keyRoom' = [keyRoom EXCEPT ![o] = keyRoom[p], ![p] = 0]
  /\ valueRoom' = [valueRoom EXCEPT ![o] = Len(values[p]), ![p] = 0]
  /\ keyHalf' = Follow(keyHalf, o, p)
  /\ valueHalf' = Unless(TRUE, Unless(TRUE, valueHalf, o), p)
  /\ promised' = [promised EXCEPT ![o] = promised[p], ![p] = 0]
  /\ ExpectTheSame
  /\ UNCHANGED <<at, regular>>

RefMove(o, p) ==
  /\ Move(o, p)
  /\ keyRoom' = [keyRoom EXCEPT ![o] = keyRoom[p], ![p] = 0]
  /\ valueRoom' = [valueRoom EXCEPT ![o] = valueRoom[p], ![p] = 0]
  /\ keyHalf' = Follow(keyHalf, o, p)
  /\ valueHalf' = Follow(valueHalf, o, p)
  /\ promised' = [promised EXCEPT ![o] = promised[p], ![p] = 0]
  /\ ExpectTheSame
  /\ UNCHANGED <<at, regular>>

RefNext ==
  \/ \E n \in {-1, 1} : Step(n)
  \/ \E o \in Obj :
    \/ \E k \in Key, v \in Value :
         \/ RefInsertEnd(o, k, v)
         \/ RefInsertStart(o, k, v)
         \/ RefAssignAt(o, k, v)
         \/ \E i \in DOMAIN keys[o] : RefAssignThroughIterator(o, i, k, v)
    \/ \E i \in DOMAIN keys[o] : Take(o, i)
    \/ \E n \in Reserved : Reserve(o, n)
    \/ \E c \in Columns : RefConstruct(o, c[1], c[2])
    \/ \E p \in Obj : RefCopyConstruct(o, p) \/ RefCopyAssign(o, p) \/ RefMove(o, p)

RefSpec == RefInit /\ [][RefNext]_allVars
-----------------------------------------------------------------------------
(* Properties. *)

MemoryTypeOK ==
  /\ TypeOK
  /\ keyRoom \in [Obj -> Nat] /\ valueRoom \in [Obj -> Nat]
  /\ {keyHalf, valueHalf} \subseteq Obj \cup {Gone}
  /\ at \in Nat \ {0}
  /\ held \in (Key \cup {Gone}) \X (Value \cup {Gone})
  /\ promised \in [Obj -> Nat]
  /\ regular \in BOOLEAN
  /\ \A o \in Obj : Len(keys[o]) <= keyRoom[o] /\ Len(values[o]) <= valueRoom[o]

\* A half of an iterator, and so a reference that at returned, that does not dangle shows
\* what it showed when it was taken or what was assigned to its row since: no insertion,
\* reservation or move shifts another row under it, though other objects are moved to
\* where it was and its series to where others were.
HoldsItsRow ==
  /\ MemoryTypeOK
  /\ keyHalf # Gone => at \in DOMAIN keys[keyHalf] /\ keys[keyHalf][at] = held[1]
  /\ valueHalf # Gone => at \in DOMAIN values[valueHalf] /\ values[valueHalf][at] = held[2]

\* Both halves of an iterator dangle, or neither does and they point into one series:
\* as long as no allocation failed and no ragged columns were given to a constructor,
\* the two vectors grow, are moved and are assigned in step.
HalvesTogether == regular => keyHalf = valueHalf

\* What reserve is for: an insertion within the rows that were reserved does not break
\* the series, whatever was done to it since, moves to other variables and failed
\* operations included.  At the end it leaves every iterator alone; at the start it
\* costs those into the series all the same.
Within(o) == o \notin broken /\ Len(keys[o]) < promised[o]

ReserveProtects ==
  [][\A o \in Obj, k \in Key, v \in Value : Within(o) =>
       /\ RefInsertEnd(o, k, v) => UNCHANGED <<broken, iterator, held>>
       /\ RefInsertStart(o, k, v) => UNCHANGED broken /\ o \notin {keyHalf', valueHalf'}]_allVars
=============================================================================
