------------------------------ MODULE Equality ------------------------------
(***************************************************************************)
(* time_series::operator== and the comparison of values it is built on,    *)
(* flex_compare of compare_extensions.hpp.                                 *)
(*                                                                         *)
(* A floating-point value is a count of steps much smaller than the        *)
(* tolerance, an infinity, or NaN.                                         *)
(***************************************************************************)
EXTENDS Integers, Sequences

CONSTANTS Epsilon,         \* the tolerance, 0.0000001, in steps
          NaN, PosInf, NegInf

ASSUME EpsilonAssumption == Epsilon \in Nat \ {0}
ASSUME FloatAssumption   == {NaN, PosInf, NegInf} \cap Int = {}
                            /\ NaN # PosInf /\ NaN # NegInf /\ PosInf # NegInf

Near(x, y, distance) == -distance < x - y /\ x - y < distance

\* Mutant: values are compared with ==, of which NaN is not equal to itself.
FlexCompareExact(x, y) == x = y /\ x # NaN

\* std::abs(lhs - rhs) < epsilon, or both are NaN.  The difference of two
\* infinities is infinite or NaN, so it is not below epsilon.
FlexCompare(x, y) ==
  \/ {x, y} \subseteq Int /\ Near(x, y, Epsilon)
  \/ x = NaN /\ y = NaN

\* A row is <<key, value>>.  The lengths are compared first; the loop stops at the
\* first row that differs, in its key or in its value.
SameSeries(l, r) ==
  /\ Len(l) = Len(r)
  /\ \A i \in DOMAIN l : l[i][1] = r[i][1] /\ FlexCompare(l[i][2], r[i][2])
=============================================================================
