------------------------------ MODULE MCSession -------------------------------
EXTENDS Session, TLC
Symmetry == Permutations(Accounts)
(* Two calls under way are looked at on a back stack of three.             *)
Deep == BagCardinality(calls) > 1 => Len(stack) <= 3
=============================================================================
