----------------------------- MODULE MCJsonApi -----------------------------
(***************************************************************************)
(* Instances of JsonApi for TLC: two readers, so that one card can hide    *)
(* that the other is missing, and the API levels on both sides of the only *)
(* boundary that changes what a state or a card event leads to.            *)
(***************************************************************************)
EXTENDS JsonApi, TLC

CONSTANTS r1, r2

TwoReaders == {r1, r2}
TwoLevels  == {2, 3}
Symmetry   == Permutations(TwoReaders)
=============================================================================
