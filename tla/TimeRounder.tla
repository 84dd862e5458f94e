---------------------------- MODULE TimeRounder ----------------------------
(***************************************************************************)
(* time_rounder of chrono_extensions.hpp: a point in time t and a duration *)
(* of d units give another point in time.  What lies below one unit in t   *)
(* is neither used nor removed.                                            *)
(***************************************************************************)
EXTENDS Chrono

\* mod_ticks
ModTicks(t, d) == Remainder(InUnits(t), d)

AtLeastZero(n) == IF n < 0 THEN 0 ELSE n

\* Mutant: a whole multiple is rounded up to itself.
RoundUpToSelf(t, d) ==
  t + (IF ModTicks(t, d) = 0 THEN 0 ELSE AtLeastZero(d - ModTicks(t, d)) * Unit)

RoundUp(t, d) == t + AtLeastZero(d - ModTicks(t, d)) * Unit

RoundDown(t, d) == t - ModTicks(t, d) * Unit

RoundNearest(t, d) ==
  LET offset == IF ModTicks(t, d) > Quotient(d, 2) THEN d ELSE 0
  IN t + (offset - ModTicks(t, d)) * Unit
=============================================================================
