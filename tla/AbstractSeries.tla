--------------------------- MODULE AbstractSeries ---------------------------
(***************************************************************************)
(* What a time_series promises: each object holds a sequence of rows, and  *)
(* a row is one key with one value.  An operation that fails half-way      *)
(* spoils the object it was called on, until that object is given a whole  *)
(* new content; it never touches another object.                           *)
(***************************************************************************)
EXTENDS Integers, Sequences

CONSTANTS Obj, Key, Value,
          Contents  \* the sequences of rows an object can be made from

VARIABLES rows,    \* the rows of each object; none are promised of a spoiled one
          spoiled  \* the objects whose content is unspecified

abstractVars == <<rows, spoiled>>

AbstractInit ==
  /\ rows = [o \in Obj |-> <<>>]
  /\ spoiled = {}

AddLast(o, k, v) ==
  /\ o \notin spoiled
  /\ rows' = [rows EXCEPT ![o] = Append(@, <<k, v>>)]
  /\ UNCHANGED spoiled

AddFirst(o, k, v) ==
  /\ o \notin spoiled
  /\ rows' = [rows EXCEPT ![o] = <<<<k, v>>>> \o @]
  /\ UNCHANGED spoiled

\* Row i is replaced.
SetRow(o, i, k, v) ==
  /\ o \notin spoiled
  /\ i \in DOMAIN rows[o]
  /\ rows' = [rows EXCEPT ![o] = [@ EXCEPT ![i] = <<k, v>>]]
  /\ UNCHANGED spoiled

\* Only the value of row i is replaced.
SetValue(o, i, v) ==
  /\ i \in DOMAIN rows[o]
  /\ SetRow(o, i, rows[o][i][1], v)

\* The object is given these rows, whatever it held.
Build(o, content) ==
  /\ rows' = [rows EXCEPT ![o] = content]
  /\ spoiled' = spoiled \ {o}

Spoil(o) ==
  /\ rows' = [rows EXCEPT ![o] = <<>>]
  /\ spoiled' = spoiled \cup {o}

Copy(o, p) ==
  IF p \in spoiled THEN Spoil(o) ELSE Build(o, rows[p])

\* o takes over what p held, and p is left empty.
Take(o, p) ==
  /\ o # p
  /\ rows' = [rows EXCEPT ![o] = rows[p], ![p] = <<>>]
  /\ spoiled' = (IF p \in spoiled THEN spoiled \cup {o} ELSE spoiled \ {o}) \ {p}

AbstractNext ==
  \E o \in Obj :
    \/ \E k \in Key, v \in Value :
         \/ AddLast(o, k, v)
         \/ AddFirst(o, k, v)
         \/ \E i \in DOMAIN rows[o] : SetRow(o, i, k, v) \/ SetValue(o, i, v)
    \/ \E content \in Contents : Build(o, content)
    \/ Spoil(o)
    \/ \E p \in Obj : Copy(o, p) \/ Take(o, p)

AbstractSpec == AbstractInit /\ [][AbstractNext]_abstractVars
=============================================================================
