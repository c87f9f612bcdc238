--------------------------- MODULE MCAfterSales ---------------------------
(***************************************************************************)
(* Two copies of one book.  The discount does not divide evenly over them  *)
(* and the fee is more than nothing, so that a full refund differs from    *)
(* the sum of its parts.                                                   *)
(***************************************************************************)
EXTENDS AfterSales, TLC

CONSTANT b1

TwoCopies == b1 :> 2
UnitPrice == b1 :> 8
OneCopy == b1 :> 1
Symmetry == Permutations(Tickets) \union Permutations(Requests) \union Permutations(Agents)
============================================================================
