-------------------------------- MODULE Bars --------------------------------
(***************************************************************************)
(* Resample with the functions of time_rounder as group functions: rows    *)
(* are aggregated in bars of one duration.                                 *)
(***************************************************************************)
EXTENDS Resample, TimeRounder

CONSTANT Duration  \* of a bar, in units

ASSUME DurationAssumption == Duration \in Nat \ {0}

Up      == [k \in Key |-> RoundUp(k, Duration)]
Down    == [k \in Key |-> RoundDown(k, Duration)]
Nearest == [k \in Key |-> RoundNearest(k, Duration)]

-----------------------------------------------------------------------------
(* Properties. *)

WholeUnits == \A p \in DOMAIN series : series[p] % Unit = 0

Bar == Duration * Unit

\* How far from the time of its bar a row may lie.  Before the epoch the rounders
\* round toward it, so that the bar at (or, rounding up, after) the epoch is wider.
Covers(d, k) ==
  /\ grpfn = Up      => IF k >= 0 THEN -Bar <= d /\ d < 0 ELSE -2 * Bar < d /\ d <= -Bar
  /\ grpfn = Down    => IF k >= 0 THEN 0 <= d /\ d < Bar ELSE -Bar < d /\ d <= 0
  /\ grpfn = Nearest => IF k >= 0 THEN -Bar < 2 * d /\ 2 * d <= Bar
                        ELSE -Bar < d /\ d <= 0

\* Bars of an increasing series on whole units: each bar's time is a multiple of the
\* duration, its rows lie in the stretch the bar covers, and no bar comes twice, even
\* across the epoch.  What lies below a unit is kept by the rounders, so rows that
\* differ in it never share a bar.
BarsCover ==
  grpfn \in {Up, Down, Nearest} =>
    /\ \A n \in DOMAIN result : \A q \in DOMAIN result[n].rows :
         (series[result[n].rows[q]] - result[n].key) % Unit = 0
    /\ WholeUnits =>
      /\ \A n \in DOMAIN result :
           /\ result[n].key % Bar = 0
           /\ \A q \in DOMAIN result[n].rows :
                LET k == series[result[n].rows[q]] IN Covers(k - result[n].key, k)
      /\ (\A p, q \in DOMAIN series : p < q => series[p] < series[q]) =>
           \A m, n \in DOMAIN result : m < n => result[m].key < result[n].key
=============================================================================
