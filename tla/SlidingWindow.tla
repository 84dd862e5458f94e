--------------------------- MODULE SlidingWindow ---------------------------
(***************************************************************************)
(* What a rolling application promises, without a buffer: of a series of   *)
(* size rows, func is called once on the rows of each window of consecutive*)
(* rows, from the first window to the last.                                *)
(***************************************************************************)
EXTENDS Integers, Sequences

VARIABLES size, window_size, result, pc

windowVars == <<size, window_size, result, pc>>

\* The rows p - window_size + 1 to p.
WindowAt(p) == [q \in 1..window_size |-> p - window_size + q]

WindowCount == size - window_size + 1

Slide ==
  /\ pc = "loop"
  /\ Len(result) < WindowCount
  /\ LET p == Len(result) + window_size
     IN result' = Append(result, [at |-> p, rows |-> WindowAt(p)])
  /\ UNCHANGED <<size, window_size, pc>>

Finish ==
  /\ pc = "loop"
  /\ Len(result) >= WindowCount
  /\ pc' = "done"
  /\ UNCHANGED <<size, window_size, result>>

WindowInit == result = <<>> /\ pc = "loop"

WindowNext == Slide \/ Finish

WindowSpec == WindowInit /\ [][WindowNext]_windowVars
=============================================================================
