---------------------------- MODULE MCReferences ----------------------------
(* References with two variables, and two keys and two values to tell rows apart. *)
EXTENDS References, TLC

CONSTANTS u, v

MCKey     == {1, 2}
MCColumns == {<<<<>>, <<>>>>, <<<<1>>, <<v>>>>, <<<<1>>, <<>>>>}
Swaps     == Permutations(Obj) \cup Permutations(Value)
=============================================================================
