----------------------------- MODULE MCResample -----------------------------
(***************************************************************************)
(* Bars of every series with few distinct keys and of increasing series of *)
(* keys on both sides of the epoch.                                        *)
(***************************************************************************)
EXTENDS Bars, ShortSeries

CONSTANTS MaxKey, MaxLen,     \* bounds of the increasing series
          AnyKey, AnyLen      \* bounds of the others

MCKey == (-MaxKey)..MaxKey

MCInputs == IncreasingSeries(MCKey, MaxLen) \cup AnySeries((-AnyKey)..AnyKey, AnyLen)

MCGroupings == {Up, Down, Nearest}
=============================================================================
