------------------------------- MODULE MCFloor -------------------------------
(* Floor on a small instance for TLC.                                       *)
EXTENDS Floor, TLC

(* Tables, waiters and requests are only compared for equality.             *)
Symmetry == Permutations(Table) \union Permutations(Staff) \union Permutations(Request)
=============================================================================
