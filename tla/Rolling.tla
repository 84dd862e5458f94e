------------------------------ MODULE Rolling ------------------------------
(***************************************************************************)
(* time_series::apply_rolling.  The rows are only walked over: a key or a  *)
(* value is known by its position, and a row of the result is the position *)
(* whose key it has with the buffer func was called on.                    *)
(***************************************************************************)
EXTENDS Integers, Sequences

CONSTANTS Sizes,    \* the sizes the series can have
          Windows   \* the window sizes asked for

ASSUME SizesAssumption   == Sizes \subseteq Nat
ASSUME WindowsAssumption == Windows \subseteq Nat

VARIABLES size,         \* of the series
          window_size,
          it,           \* the iterator, as a position
          buffer,
          result,
          pc            \* "loop", "done" or "fault"

rollingVars == <<size, window_size, it, buffer, result, pc>>

RollingInit ==
  /\ size \in Sizes
  /\ window_size \in Windows
  /\ it = 1
  /\ buffer = <<>>
  /\ result = <<>>
  /\ pc = "loop"

\* if (window_size > size())
TooShort == window_size > size

AtEnd == it = size + 1

\* Mutant: off by one.
FillsToWindow == window_size > 1 /\ Len(buffer) < window_size

\* window_size - 1 is unsigned: for 0 it is huge, and the second half decides.
Fills == window_size > 1 /\ Len(buffer) < window_size - 1

Fill ==
  /\ Fills
  /\ buffer' = Append(buffer, it)
  /\ UNCHANGED result

\* Mutant: nothing leaves the buffer.
DropOldestNever == buffer

\* pop_front of a full buffer.
DropOldest == IF Len(buffer) = window_size THEN Tail(buffer) ELSE buffer

Apply ==
  /\ ~Fills
  /\ window_size # 0
  /\ buffer' = Append(DropOldest, it)
  /\ result' = Append(result, [at |-> it, rows |-> buffer'])

\* With a window of 0 the empty buffer counts as full and pop_front is undefined.
\* If the program lives, the push_back that follows only makes up for it.
ApplyUnderflow ==
  /\ ~Fills
  /\ window_size = 0
  /\ UNCHANGED buffer
  /\ result' = Append(result, [at |-> it, rows |-> buffer'])

Iterate ==
  /\ pc = "loop"
  /\ ~TooShort /\ ~AtEnd
  /\ Fill \/ Apply \/ ApplyUnderflow
  /\ it' = it + 1
  /\ UNCHANGED <<size, window_size, pc>>

Crash ==
  /\ pc = "loop"
  /\ ~TooShort /\ ~AtEnd /\ window_size = 0
  /\ pc' = "fault"
  /\ UNCHANGED <<size, window_size, it, buffer, result>>

Return ==
  /\ pc = "loop"
  /\ TooShort \/ AtEnd
  /\ pc' = "done"
  /\ UNCHANGED <<size, window_size, it, buffer, result>>

RollingNext == Iterate \/ Crash \/ Return \/ (pc # "loop" /\ UNCHANGED rollingVars)

RollingSpec == RollingInit /\ [][RollingNext]_rollingVars

-----------------------------------------------------------------------------
(* Properties. *)

\* The buffer never holds more than a window; only a window of 0 is a fault.
RollingTypeOK ==
  /\ size \in Sizes
  /\ window_size \in Windows
  /\ it \in 1..(size + 1)
  /\ buffer \in Seq(1..size)
  /\ Len(buffer) <= window_size
  /\ result \in Seq([at : 1..size, rows : Seq(1..size)])
  /\ pc \in {"loop", "done", "fault"}
  /\ pc = "fault" => window_size = 0

\* func is called exactly on the windows of the series, in order, each inserted at
\* the key of its last row; on none if the window is longer than the series.  Only
\* asked for windows of at least one row.
Sliding == INSTANCE SlidingWindow

ImplementsSlidingWindow ==
  /\ window_size # 0 => Sliding!WindowInit
  /\ [][window_size # 0 => Sliding!WindowNext]_Sliding!windowVars
=============================================================================
