--------------------------- MODULE MCWarehouse ---------------------------
(* Receipts and issues of one book, small enough to be drafted, edited,    *)
(* confirmed and cancelled in every order around a stocktake.              *)
EXTENDS Warehouse, TLC

Symmetry == Permutations(Receipts) \union Permutations(Issues) \union Permutations(Clerks)
============================================================================
