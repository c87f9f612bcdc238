------------------------------- MODULE Carrier -------------------------------
(***************************************************************************)
(* The carrier (GHN), outside the repository, as shippingService uses it:  *)
(* the one parcel it may hold under an order's client code.  Booking the   *)
(* code again returns the parcel that is there; a parcel can be cancelled  *)
(* until it is picked up, and one that is cancelled stays so.              *)
(*                                                                         *)
(* parcel  "none"       never booked                                       *)
(*         "ready"      booked, waiting to be picked up                    *)
(*         "moving"     with the carrier                                   *)
(*         "delivered"  with the customer                                  *)
(*         "cancelled"                                                     *)
(***************************************************************************)
EXTENDS Naturals

VARIABLE parcel \* "none", "ready", "moving", "delivered" or "cancelled"

(* The customer may get, or has, the goods.                                *)
Live == {"ready", "moving", "delivered"}

bookParcel == parcel' = IF parcel = "none" THEN "ready" ELSE parcel

(* switch-status/cancel, or the detail query that finds it cancelled.      *)
cancelParcel == parcel \in {"ready", "cancelled"} /\ parcel' = "cancelled"

refuseCancel == parcel \in {"moving", "delivered"} /\ UNCHANGED parcel

moveParcel ==
    \/ parcel = "ready" /\ parcel' = "moving"
    \/ parcel = "moving" /\ parcel' = "delivered"

(* Staff reach the carrier by its hotline or dashboard.                    *)
recallParcel == parcel \in {"ready", "moving"} /\ parcel' = "cancelled"
=============================================================================
