------------------------- MODULE MCOrderLifecycle -------------------------
(***************************************************************************)
(* Instances of OrderLifecycle for TLC.                                    *)
(***************************************************************************)
EXTENDS OrderLifecycle, TLC

CONSTANTS o1, o2, o3, o4, u1, u2, b1, v1, v2

(* Four orders that compete for three copies of one book and two uses of   *)
(* voucher v1.  u1, who has one point, has two COD orders of which one may *)
(* wait at a time; u2 owes points.                                         *)
MixedCart == o1 :> (b1 :> 1) @@ o2 :> (b1 :> 2) @@ o3 :> (b1 :> 1) @@ o4 :> (b1 :> 1)
MixedCustomer == o1 :> u1 @@ o2 :> u1 @@ o3 :> u2 @@ o4 :> u1
MixedMethod == o1 :> "COD" @@ o2 :> "ONLINE" @@ o3 :> "ONLINE" @@ o4 :> "COD"
MixedVouchers == o1 :> {v1} @@ o2 :> {v1, v2} @@ o3 :> {v1} @@ o4 :> {}
MixedRedeemed == o1 :> 1 @@ o2 :> 0 @@ o3 :> 2 @@ o4 :> 1
MixedEarned == o1 :> 0 @@ o2 :> 1 @@ o3 :> 2 @@ o4 :> 1
MixedStock == b1 :> 3
MixedPoints == u1 :> 1 @@ u2 :> 2
MixedDebt == u1 :> 0 @@ u2 :> 1
MixedUsageLimit == v1 :> 2 @@ v2 :> 1
MixedPerUserLimit == v1 :> 2 @@ v2 :> 1
==========================================================================
