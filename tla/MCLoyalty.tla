---------------------------- MODULE MCLoyalty -----------------------------
(* Instances of Loyalty for TLC: two orders of a user, and three tiers.    *)
EXTENDS Loyalty, TLC

CONSTANTS u1, o1, o2, job

BuyerOf == o1 :> u1 @@ o2 :> u1
GoodsOf == o1 :> 2 @@ o2 :> 1
Ladder3 == <<0, 1, 3>>
============================================================================
