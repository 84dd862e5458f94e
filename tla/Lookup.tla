------------------------------- MODULE Lookup -------------------------------
(***************************************************************************)
(* The two overloads of time_series::locate and the lookups by key, on a   *)
(* column of keys.  A lookup results in the position of the row whose      *)
(* value is returned, or in Throw.                                         *)
(***************************************************************************)
EXTENDS Integers, Sequences

Throw == -1

\* std::lower_bound: halving the len cells from first on.
LowerBound(s, d) ==
  LET search[len \in Nat] ==
        LET half == len \div 2
        IN [first \in Nat |->
              IF len = 0 THEN first
              ELSE IF s[first + half] < d
                   THEN search[len - half - 1][first + half + 1]
              ELSE search[half][first]]
  IN search[Len(s)][1]

\* locate(d): where the key was found, if it was.
Locate(s, d) == {i \in DOMAIN s : i = LowerBound(s, d) /\ s[i] = d}

\* locate(predicate): the first of the keys that satisfy it, or end().
FirstKey(s, hits) ==
  IF hits = {} THEN Len(s) + 1 ELSE CHOOSE i \in hits : \A h \in hits : i <= h

From(s, d)  == {i \in DOMAIN s : s[i] >= d}
After(s, d) == {i \in DOMAIN s : s[i] > d}

At(s, d) ==
  IF Locate(s, d) = {} THEN Throw ELSE CHOOSE i \in Locate(s, d) : TRUE

\* Mutant: the key itself is not a prior.
PriorStrict(s, d) ==
  LET i == FirstKey(s, From(s, d))
  IN IF i \in DOMAIN s /\ i = 1 THEN Throw ELSE i - 1

\* There is no prior if a key after d was found and it is the first one.
AtOrFirstPrior(s, d) ==
  LET i == FirstKey(s, After(s, d))
  IN IF i \in DOMAIN s /\ i = 1 THEN Throw ELSE i - 1

AtOrFirstFollowing(s, d) ==
  LET i == FirstKey(s, From(s, d))
  IN IF i \in DOMAIN s THEN i ELSE Throw
=============================================================================
