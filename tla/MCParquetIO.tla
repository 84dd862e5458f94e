---------------------------- MODULE MCParquetIO ----------------------------
(***************************************************************************)
(* ParquetIO with keys on both sides of the epoch and one value of each    *)
(* kind, and tables with and without nulls.                                *)
(***************************************************************************)
EXTENDS ParquetIO, SequencesExt

CONSTANT MaxRows  \* bound: rows of the first program's series and of a table

MCTick    == {-3, -2, 0, 1}
MCValue   == {0, NaN, PosInf}
MCSeries  == BoundedSeq(MCTick \X MCValue, MaxRows)
MCTables  == BoundedSeq({-2, 1, Null} \X {0, Null}, MaxRows)
MCGarbage == {<<1, 0>>}
=============================================================================
