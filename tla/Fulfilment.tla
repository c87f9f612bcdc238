---------------------------- MODULE Fulfilment ----------------------------
(***************************************************************************)
(* The contract of an order, without saying how it is kept: where its      *)
(* copies are and where its money is.                                      *)
(*                                                                         *)
(* goods   "none"      nothing was ordered                                 *)
(*         "held"      reserved for the order and on the shelf             *)
(*         "returned"  back in the sellable stock                          *)
(*         "gone"      left the warehouse                                  *)
(*         "handed"    in the customer's hands                             *)
(* money   "none"      nothing was captured                                *)
(*         "taken"     captured and kept                                   *)
(*         "owed"      captured, and the shop has promised to return it    *)
(*         "repaid"    returned                                            *)
(***************************************************************************)
CONSTANTS Orders, Prepaid      \* Prepaid: the orders that are paid before dispatch

VARIABLES goods, money

Place(o) ==
    /\ goods[o] = "none"
    /\ goods' = [goods EXCEPT ![o] = "held"]
    /\ UNCHANGED money

Pay(o) ==
    /\ o \in Prepaid /\ goods[o] = "held" /\ money[o] = "none"
    /\ money' = [money EXCEPT ![o] = "taken"]
    /\ UNCHANGED goods

(* A prepaid parcel leaves only against money.                             *)
Dispatch(o) ==
    /\ goods[o] = "held" /\ money[o] = IF o \in Prepaid THEN "taken" ELSE "none"
    /\ goods' = [goods EXCEPT ![o] = "gone"]
    /\ UNCHANGED money

(* The parcel arrives; cash on delivery is captured at the door.           *)
HandOver(o) ==
    /\ goods[o] = "gone"
    /\ goods' = [goods EXCEPT ![o] = "handed"]
    /\ money' = [money EXCEPT ![o] = "taken"]

(* An order is closed without money: only while nothing was captured.      *)
Release(o) ==
    /\ goods[o] = "held" /\ money[o] = "none"
    /\ goods' = [goods EXCEPT ![o] = "returned"]
    /\ UNCHANGED money

(* Money arrives for an order whose copies were given up: it is owed.      *)
PayLate(o) ==
    /\ o \in Prepaid /\ goods[o] = "returned" /\ money[o] = "none"
    /\ money' = [money EXCEPT ![o] = "owed"]
    /\ UNCHANGED goods

Owe(o) ==
    /\ goods[o] = "held" /\ money[o] = "taken"
    /\ money' = [money EXCEPT ![o] = "owed"]
    /\ UNCHANGED goods

(* The money goes back and, with it, what was still on the shelf.          *)
Repay(o) ==
    /\ money[o] = "owed" /\ goods[o] \in {"held", "returned"}
    /\ money' = [money EXCEPT ![o] = "repaid"]
    /\ goods' = [goods EXCEPT ![o] = "returned"]

(* A parcel lost on its way is repaid; its copies do not come back.        *)
RepayLost(o) ==
    /\ goods[o] = "gone" /\ money[o] = "taken"
    /\ money' = [money EXCEPT ![o] = "repaid"]
    /\ UNCHANGED goods

Init ==
    /\ goods = [o \in Orders |-> "none"]
    /\ money = [o \in Orders |-> "none"]

Next == \E o \in Orders :
            \/ Place(o) \/ Pay(o) \/ Dispatch(o) \/ HandOver(o) \/ Release(o)
            \/ PayLate(o) \/ Owe(o) \/ Repay(o) \/ RepayLost(o)

Spec == Init /\ [][Next]_<<goods, money>>
==========================================================================
