------------------------------ MODULE Tally ------------------------------
(***************************************************************************)
(* Sums of natural numbers over a finite set of orders, written as the     *)
(* size of a set of units so that the library's facts about cardinality    *)
(* apply to them: Total(S, f) is the sum of f[o] for o in S.               *)
(***************************************************************************)
EXTENDS Integers, FiniteSets

Units(S, f) == UNION {{o} \X (1..f[o]) : o \in S}

Total(S, f) == Cardinality(Units(S, f))
==========================================================================
