---------------------------- MODULE MCTransforms ----------------------------
(***************************************************************************)
(* Transforms of every short series, and of longer ones with sorted keys;  *)
(* and Rolling, the operation whose result no other is applied to here.    *)
(* The two have no variable in common: what has begun as a chain of        *)
(* transformations or as a rolling application stays one.                  *)
(***************************************************************************)
EXTENDS Transforms, Rolling, ShortSeries

CONSTANTS MaxKey, MaxLen,   \* bounds of the sorted series
          AnyKey, AnyLen    \* bounds of the others

MCKey == 1..MaxKey

MCSources ==
  {s \in AnySeries(MCKey, MaxLen) : Sorted(s)} \cup AnySeries(1..AnyKey, AnyLen)

\* Every series without a window to roll over it, every window without a series to
\* transform.
MCInit == Init /\ RollingInit /\ (source = <<>> \/ (size = 0 /\ window_size = 1))

MCNext ==
  \/ pc = "loop" /\ it = 1 /\ Next /\ UNCHANGED rollingVars
  \/ ops = 0 /\ RollingNext /\ UNCHANGED vars

MCSpec == MCInit /\ [][MCNext]_<<vars, rollingVars>>
=============================================================================
