---------------------------- MODULE MCInnerJoin -----------------------------
(* InnerJoin on every pair of short key columns, and of longer ones with   *)
(* increasing keys.                                                        *)
EXTENDS InnerJoin, ShortSeries

CONSTANTS MaxKey, MaxLen,   \* bounds of the increasing series
          AnyKey, AnyLen    \* bounds of the others

MCKey == 1..MaxKey

MCInputs == IncreasingSeries(MCKey, MaxLen) \cup AnySeries(1..AnyKey, AnyLen)
=============================================================================
