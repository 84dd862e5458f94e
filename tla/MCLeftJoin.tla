----------------------------- MODULE MCLeftJoin -----------------------------
(* LeftJoin on every pair of short key columns, and of longer ones with    *)
(* increasing keys.                                                        *)
EXTENDS LeftJoin, ShortSeries

CONSTANTS MaxKey, MaxLen,   \* bounds of the increasing series
          AnyKey, AnyLen    \* bounds of the others

MCKey == 1..MaxKey

MCInputs == IncreasingSeries(MCKey, MaxLen) \cup AnySeries(1..AnyKey, AnyLen)
=============================================================================
