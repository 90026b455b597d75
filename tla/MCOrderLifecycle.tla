--------------------------- MODULE MCOrderLifecycle ---------------------------
(* OrderLifecycle on a small instance for TLC.                              *)
EXTENDS OrderLifecycle, TLC

(* Items and requests are only compared for equality.                       *)
Symmetry == Permutations(Item) \union Permutations(Request)
=============================================================================
