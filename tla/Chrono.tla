------------------------------- MODULE Chrono -------------------------------
(***************************************************************************)
(* The arithmetic of std::chrono that chrono_extensions.hpp is built on.   *)
(* Keys are counted in ticks (nanoseconds); the helpers work in a coarser  *)
(* unit, time_arty_type (milliseconds).  Division and remainder are those  *)
(* of C++: the quotient is truncated toward zero, the remainder has the    *)
(* sign of the dividend.                                                   *)
(***************************************************************************)
EXTENDS Integers

CONSTANT Unit  \* ticks per time_arty_type

ASSUME UnitAssumption == Unit \in Nat \ {0}

Quotient(a, b) == IF a >= 0 THEN a \div b ELSE -((-a) \div b)

Remainder(a, b) == a - b * Quotient(a, b)

\* duration_cast to the coarser unit.
InUnits(d) == Quotient(d, Unit)
=============================================================================
