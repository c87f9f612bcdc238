-------------------------- MODULE OrderLifecycle --------------------------
(***************************************************************************)
(* The life of an order, from checkout to delivery, cancellation or        *)
(* refund, with everything an order holds on the way: copies on the shelf, *)
(* voucher uses and loyalty points.  One action per transaction of         *)
(* orderService and orderCancellationService.  runInTransaction gives each *)
(* of them a snapshot and a write of the order document, so two            *)
(* transactions on one order conflict and a transaction is one step here;  *)
(* what interleaves is their order, which the code leaves to customers,    *)
(* staff, the payment gateway and the jobs.                                *)
(*                                                                         *)
(* What happens between the transactions is modelled by the modules        *)
(* PaymentFlow and CancellationOutbox.                                     *)
(***************************************************************************)
EXTENDS Inventory, Tally

CONSTANTS
    Orders,        \* checkout requests; an order document exists once one is accepted
    Users,         \* customers
    VoucherIds,    \* vouchers
    Cart,          \* Cart[o][b]: copies of book b that request o buys
    Customer,      \* Customer[o]: who placed o
    Method,        \* Method[o]: "COD" or "ONLINE"
    Vouchers,      \* Vouchers[o]: the order and shipping voucher of o
    Redeemed,      \* Redeemed[o]: points o pays with
    Earned,        \* Earned[o]: points a delivery of o grants
    OpeningStock, OpeningPoints, OpeningDebt,
    UsageLimit,    \* UsageLimit[v]: Voucher.usageLimit
    PerUserLimit,  \* PerUserLimit[v]: Voucher.perUserLimit
    MaxPending,    \* MAX_PENDING_COD_PER_USER and MAX_PENDING_ONLINE_PER_USER
    Deliveries     \* bound for TLC: warehouse documents stop a book at this many copies

Statuses == {"PENDING", "PAID", "PROCESSING", "CANCELLING", "SHIPPED", "DELIVERED",
             "CANCELLED", "FAILED", "REFUNDING", "REFUNDED"}
PaymentStatuses == {"UNPAID", "PAID", "FAILED", "REFUNDING", "REFUNDED"}
NoOrder == "NONE"      \* the request has not been accepted: there is no document

ASSUME OrdersAssumption == IsFiniteSet(Orders)
ASSUME RequestAssumption ==
    /\ Cart \in [Orders -> [Books -> Nat]]
    /\ Customer \in [Orders -> Users]
    /\ Method \in [Orders -> {"COD", "ONLINE"}]
    /\ Vouchers \in [Orders -> SUBSET VoucherIds]
    /\ Redeemed \in [Orders -> Nat]
    /\ Earned \in [Orders -> Nat]
ASSUME OpeningAssumption ==
    /\ OpeningStock \in [Books -> Nat]
    /\ OpeningPoints \in [Users -> Nat]
    /\ OpeningDebt \in [Users -> Nat]
ASSUME LimitAssumption ==
    /\ UsageLimit \in [VoucherIds -> Nat]
    /\ PerUserLimit \in [VoucherIds -> Nat]
    /\ MaxPending \in Nat
    /\ Deliveries \in Nat

VARIABLES
    status,           \* Order.status, or NoOrder
    payStatus,        \* Order.payment.status
    previousStatus,   \* payload.previousStatus of the order's outbox event, or NoOrder
    attempted,        \* orders with a payment attempt at the gateway
    overdue,          \* PENDING orders whose expiresAt is in the past
    inventoryRestored, shipped, delivered,       \* inventoryRestoredAt, shippedAt, deliveredAt
    voucherReleased, pointsRefunded, pointsEarned,   \* ...At markers
    sold,             \* Book.sold
    usedCount,        \* Voucher.usedCount
    usageCount,       \* VoucherRedemption.usageCount per voucher and user
    balance, debt     \* User.loyalty.pointsBalance and pointsDebt

orderVars == <<status, payStatus, previousStatus, attempted, overdue>>
goodsVars == <<stock, reserved, ledger, inventoryRestored>>
voucherVars == <<voucherReleased, usedCount, usageCount>>
refundPointVars == <<pointsRefunded, balance>>
deliveryVars == <<shipped, delivered, sold, pointsEarned, debt>>
vars == <<orderVars, goodsVars, voucherVars, refundPointVars, deliveryVars>>

Live == {o \in Orders : status[o] # NoOrder}

-----------------------------------------------------------------------------
(* The state machine of models/Order.js.                                   *)

TRANSITIONS ==
    [s \in Statuses |->
        CASE s = "PENDING"    -> {"PAID", "PROCESSING", "CANCELLED", "FAILED"}
          [] s = "PAID"       -> {"PROCESSING", "CANCELLING", "REFUNDING"}
          [] s = "PROCESSING" -> {"SHIPPED", "CANCELLED", "REFUNDING", "CANCELLING"}
          [] s = "CANCELLING" -> {"CANCELLED", "REFUNDING"}
          [] s = "SHIPPED"    -> {"DELIVERED", "REFUNDING"}
          [] s = "DELIVERED"  -> {"REFUNDING"}
          [] s = "REFUNDING"  -> {"REFUNDED", "PAID"}
          [] s = "CANCELLED"  -> {"REFUNDING"}
          [] s = "FAILED"     -> {"REFUNDING"}
          [] s = "REFUNDED"   -> {}]

(* What applyTransition writes into payment.status.                        *)
PaymentAfter(o, next) ==
    CASE next = "PAID"      -> "PAID"
      [] next = "DELIVERED" -> IF Method[o] = "COD" THEN "PAID" ELSE payStatus[o]
      [] next = "FAILED"    -> "FAILED"
      [] next = "REFUNDING" -> "REFUNDING"
      [] next = "REFUNDED"  -> "REFUNDED"
      [] OTHER              -> payStatus[o]

applyTransition(o, next) ==
    /\ status[o] \in Statuses
    /\ next \in TRANSITIONS[status[o]]
    /\ status' = [status EXCEPT ![o] = next]
    /\ payStatus' = [payStatus EXCEPT ![o] = PaymentAfter(o, next)]

-----------------------------------------------------------------------------
(* What an order gives back when it dies.  Each part has a marker on the   *)
(* order document and is skipped when the marker is set.                   *)

(* Mutation: the copies go back without the marker that remembers it.      *)
MutRestoreItems(o) ==
    IF o \in inventoryRestored
    THEN UNCHANGED goodsVars
    ELSE applyMovement("RESERVE_IN", Cart[o]) /\ UNCHANGED inventoryRestored

restoreItems(o) ==
    IF o \in inventoryRestored
    THEN UNCHANGED goodsVars
    ELSE /\ applyMovement("RESERVE_IN", Cart[o])
         /\ inventoryRestored' = inventoryRestored \cup {o}

(* Mutation: the check of voucherReleasedAt is dropped.                    *)
MutReleaseOrderVoucher(o) ==
    /\ voucherReleased' = voucherReleased \cup {o}
    /\ usedCount' = [v \in VoucherIds |->
            IF v \in Vouchers[o] /\ usedCount[v] > 0 THEN usedCount[v] - 1 ELSE usedCount[v]]
    /\ usageCount' = usageCount

releaseOrderVoucher(o) ==
    IF Vouchers[o] = {} \/ o \in voucherReleased
    THEN UNCHANGED voucherVars
    ELSE /\ voucherReleased' = voucherReleased \cup {o}
         /\ usedCount' = [v \in VoucherIds |->
                IF v \in Vouchers[o] /\ usedCount[v] > 0 THEN usedCount[v] - 1 ELSE usedCount[v]]
         /\ usageCount' = [v \in VoucherIds |-> [u \in Users |->
                IF v \in Vouchers[o] /\ u = Customer[o] /\ usageCount[v][u] > 0
                THEN usageCount[v][u] - 1 ELSE usageCount[v][u]]]

refundOrderPoints(o) ==
    IF o \in pointsRefunded
    THEN UNCHANGED refundPointVars
    ELSE /\ pointsRefunded' = pointsRefunded \cup {o}
         /\ balance' = [balance EXCEPT ![Customer[o]] = @ + Redeemed[o]]

GiveBack(o) == restoreItems(o) /\ releaseOrderVoucher(o) /\ refundOrderPoints(o)

(* Mutation: the points an order was paid with are forgotten.              *)
MutClose(o, next) ==
    /\ restoreItems(o) /\ releaseOrderVoucher(o) /\ UNCHANGED refundPointVars
    /\ applyTransition(o, next)
    /\ overdue' = overdue \ {o}
    /\ UNCHANGED <<previousStatus, attempted, deliveryVars>>

(* An order that ends without money to return: everything back, then the   *)
(* transition, and expiresAt cleared.                                      *)
Close(o, next) ==
    /\ GiveBack(o)
    /\ applyTransition(o, next)
    /\ overdue' = overdue \ {o}
    /\ UNCHANGED <<previousStatus, attempted, deliveryVars>>

-----------------------------------------------------------------------------
(* Checkout.                                                               *)

(* The unexpired PENDING orders of a customer that count against           *)
(* MAX_PENDING_COD_PER_USER or MAX_PENDING_ONLINE_PER_USER.                *)
ActivePending(u, method) ==
    {o \in Live : /\ Customer[o] = u /\ Method[o] = method
                  /\ status[o] = "PENDING" /\ payStatus[o] = "UNPAID"
                  /\ o \notin overdue}

(* Mutation: the limit is checked with <= instead of <.                    *)
MutPendingFits(o) ==
    Cardinality(ActivePending(Customer[o], Method[o])) <= MaxPending

PendingFits(o) ==
    Cardinality(ActivePending(Customer[o], Method[o])) < MaxPending

VouchersFit(o) ==
    \A v \in Vouchers[o] : /\ usedCount[v] < UsageLimit[v]
                           /\ usageCount[v][Customer[o]] < PerUserLimit[v]

consumeVouchers(o) ==
    /\ VouchersFit(o)
    /\ usedCount' = [v \in VoucherIds |->
            IF v \in Vouchers[o] THEN usedCount[v] + 1 ELSE usedCount[v]]
    /\ usageCount' = [v \in VoucherIds |-> [u \in Users |->
            IF v \in Vouchers[o] /\ u = Customer[o]
            THEN usageCount[v][u] + 1 ELSE usageCount[v][u]]]

redeemForOrder(o) ==
    /\ balance[Customer[o]] >= Redeemed[o]
    /\ balance' = [balance EXCEPT ![Customer[o]] = @ - Redeemed[o]]

createOrder(o) ==
    /\ status[o] = NoOrder
    /\ PendingFits(o)
    /\ applyMovement("SALE_OUT", Cart[o])
    /\ consumeVouchers(o)
    /\ redeemForOrder(o)
    /\ status' = [status EXCEPT ![o] = "PENDING"]
    /\ UNCHANGED <<payStatus, previousStatus, attempted, overdue, inventoryRestored,
                   voucherReleased, pointsRefunded, deliveryVars>>

(* expiresAt of an unpaid order goes by.                                   *)
TimePasses(o) ==
    /\ status[o] = "PENDING"
    /\ o \notin overdue
    /\ overdue' = overdue \cup {o}
    /\ UNCHANGED <<status, payStatus, previousStatus, attempted, goodsVars, voucherVars,
                   refundPointVars, deliveryVars>>

(* A payment page is opened, the first time by checkout itself.  A new     *)
(* attempt renews expiresAt, also of an order whose time is already up.    *)
retryPayment(o) ==
    /\ status[o] = "PENDING" /\ payStatus[o] = "UNPAID"
    /\ Method[o] # "COD"
    /\ o \notin attempted \/ o \in overdue
    /\ attempted' = attempted \cup {o}
    /\ overdue' = overdue \ {o}
    /\ UNCHANGED <<status, payStatus, previousStatus, goodsVars, voucherVars,
                   refundPointVars, deliveryVars>>

-----------------------------------------------------------------------------
(* Callbacks of the payment gateway.                                       *)

(* Mutation: money for a closed order is recorded and nothing else is done. *)
MutPaidLate(o) ==
    /\ status[o] \in {"CANCELLED", "FAILED"}
    /\ payStatus' = [payStatus EXCEPT ![o] = "PAID"]
    /\ UNCHANGED <<status, overdue, inventoryRestored, stock, reserved, ledger>>

(* Money for an order that was closed meanwhile: its copies were put back, *)
(* so it is not revived but sent to the refund workflow.                   *)
PaidLate(o) ==
    /\ status[o] \in {"CANCELLED", "FAILED"}
    /\ applyTransition(o, "REFUNDING")
    /\ inventoryRestored' = inventoryRestored \cup {o}
    /\ overdue' = overdue \ {o}
    /\ UNCHANGED stockVars

PaidInTime(o) ==
    /\ status[o] = "PENDING"
    /\ applyTransition(o, "PAID")
    /\ overdue' = overdue \ {o}
    /\ UNCHANGED goodsVars

(* A success callback for an order already paid or being refunded changes  *)
(* only its attempts (see PaymentFlow); in any other state it is refused.  *)
handlePaymentSuccess(o) ==
    /\ o \in attempted
    /\ PaidInTime(o) \/ PaidLate(o)
    /\ UNCHANGED <<previousStatus, attempted, voucherVars, refundPointVars, deliveryVars>>

handlePaymentFailed(o) ==
    /\ o \in attempted
    /\ status[o] = "PENDING"
    /\ Close(o, "FAILED")

-----------------------------------------------------------------------------
(* Staff and the carrier.                                                  *)

(* Mutation: an online order is approved before its payment arrives.       *)
MutApprovable(o) == status[o] \in {"PENDING", "PAID"}

Approvable(o) == status[o] = IF Method[o] = "COD" THEN "PENDING" ELSE "PAID"

adminApproveOrder(o) ==
    /\ Approvable(o)
    /\ applyTransition(o, "PROCESSING")
    /\ overdue' = overdue \ {o}
    /\ UNCHANGED <<previousStatus, attempted, goodsVars, voucherVars, refundPointVars,
                   deliveryVars>>

(* dispatchItems: the copies leave the shelf they were reserved on.        *)
adminMarkShipped(o) ==
    /\ applyTransition(o, "SHIPPED")
    /\ applyMovement("SHIP_OUT", Cart[o])
    /\ shipped' = shipped \cup {o}
    /\ UNCHANGED <<previousStatus, attempted, overdue, inventoryRestored, voucherVars,
                   refundPointVars, delivered, sold, pointsEarned, debt>>

(* Mutation: earned points settle the debt and are granted as well.        *)
MutEarnForOrder(o) ==
    /\ debt' = [debt EXCEPT ![Customer[o]] = IF @ > Earned[o] THEN @ - Earned[o] ELSE 0]
    /\ balance' = [balance EXCEPT ![Customer[o]] = @ + Earned[o]]
    /\ pointsEarned' = pointsEarned \cup {o}

(* earnForOrder: points pay the customer's points debt before they can be  *)
(* spent.                                                                  *)
earnForOrder(o) ==
    LET owed == debt[Customer[o]]
        debtOffset == IF owed < Earned[o] THEN owed ELSE Earned[o]
    IN  /\ debt' = [debt EXCEPT ![Customer[o]] = @ - debtOffset]
        /\ balance' = [balance EXCEPT ![Customer[o]] = @ + (Earned[o] - debtOffset)]
        /\ pointsEarned' = pointsEarned \cup {o}

adminMarkDelivered(o) ==
    /\ applyTransition(o, "DELIVERED")
    /\ sold' = [b \in Books |-> sold[b] + Cart[o][b]]
    /\ earnForOrder(o)
    /\ delivered' = delivered \cup {o}
    /\ UNCHANGED <<previousStatus, attempted, overdue, goodsVars, voucherVars,
                   pointsRefunded, shipped>>

-----------------------------------------------------------------------------
(* Cancellation.                                                           *)

(* Nothing was captured and nothing left the warehouse: such an order is   *)
(* closed at once.                                                         *)
ClosesAtOnce(o, from) == from = "PENDING" \/ (from = "PROCESSING" /\ Method[o] = "COD")

(* The order goes to the refund workflow; its copies stay reserved and its *)
(* vouchers and points stay spent until the refund is settled.             *)
prepareRefundRequest(o) ==
    /\ applyTransition(o, "REFUNDING")
    /\ UNCHANGED <<previousStatus, attempted, overdue, goodsVars, voucherVars,
                   refundPointVars, deliveryVars>>

requestCancellation(o) ==
    \/ /\ status[o] = "PENDING"
       /\ Close(o, "CANCELLED")
    \/ /\ status[o] \in {"PAID", "PROCESSING"}
       /\ applyTransition(o, "CANCELLING")
       /\ previousStatus' = [previousStatus EXCEPT ![o] = status[o]]
       /\ UNCHANGED <<attempted, overdue, goodsVars, voucherVars, refundPointVars,
                      deliveryVars>>

(* The carrier has cancelled the parcel, or staff confirmed that it did.   *)
finalizeShipmentCancellation(o) ==
    /\ status[o] = "CANCELLING"
    /\ \/ ClosesAtOnce(o, previousStatus[o]) /\ Close(o, "CANCELLED")
       \/ /\ ~ClosesAtOnce(o, previousStatus[o])
          /\ previousStatus[o] \in {"PAID", "PROCESSING"}
          /\ prepareRefundRequest(o)

cancelOrder(o) ==
    \/ ClosesAtOnce(o, status[o]) /\ Close(o, "CANCELLED")
    \/ /\ ~ClosesAtOnce(o, status[o])
       /\ status[o] \in {"PAID", "PROCESSING"}
       /\ prepareRefundRequest(o)

adminCancelOrder(o) ==
    /\ ClosesAtOnce(o, status[o])
    /\ Close(o, "CANCELLED")

(* Mutation: only COD orders are swept, as before expiresAt was introduced. *)
MutExpired(o) ==
    status[o] = "PENDING" /\ payStatus[o] = "UNPAID" /\ o \in overdue /\ Method[o] = "COD"

expiredPendingFilter(o) ==
    status[o] = "PENDING" /\ payStatus[o] = "UNPAID" /\ o \in overdue

(* One order of a sweep; the filter is evaluated again in its transaction. *)
expirePendingOrders(o) ==
    /\ expiredPendingFilter(o)
    /\ Close(o, "CANCELLED")

-----------------------------------------------------------------------------
(* Settled refunds.                                                        *)

(* Mutation: a settled refund returns the copies of a dispatched order.    *)
MutReservationOfRefund(o) == restoreItems(o)

(* After SHIP_OUT a refund is no proof that the parcel came back.          *)
ReservationOfRefund(o) ==
    IF o \in shipped THEN UNCHANGED goodsVars ELSE restoreItems(o)

(* completeRefund up to its transition.  Its branch for an order with      *)
(* deliveredAt (decrementSold, revokeOrderPoints) has no counterpart here: *)
(* MarkersMatchStatus shows that no dispatched order gets to REFUNDING.    *)
SettleRefund(o) ==
    /\ ReservationOfRefund(o)
    /\ releaseOrderVoucher(o)
    /\ refundOrderPoints(o)
    /\ UNCHANGED <<previousStatus, attempted, overdue, deliveryVars>>

completeRefund(o) ==
    /\ applyTransition(o, "REFUNDED")
    /\ SettleRefund(o)

(* The refund of a parcel lost after dispatch: the order passes through    *)
(* REFUNDING inside one transaction.  Support opens such a claim only for  *)
(* an order whose payment was captured.                                    *)
completeLostInTransitRefund(o) ==
    /\ status[o] = "SHIPPED" /\ payStatus[o] = "PAID"
    /\ status' = [status EXCEPT ![o] = "REFUNDED"]
    /\ payStatus' = [payStatus EXCEPT ![o] = "REFUNDED"]
    /\ SettleRefund(o)

DEAD_ORDER_STATUSES == {"CANCELLED", "FAILED", "REFUNDED"}

unreleasedOrderFilter(o) ==
    /\ status[o] \in DEAD_ORDER_STATUSES
    /\ Vouchers[o] # {} \/ Redeemed[o] > 0
    /\ o \notin voucherReleased \/ o \notin pointsRefunded

reconcileVoucherReleases(o) ==
    /\ unreleasedOrderFilter(o)
    /\ releaseOrderVoucher(o)
    /\ refundOrderPoints(o)
    /\ UNCHANGED <<orderVars, goodsVars, deliveryVars>>

-----------------------------------------------------------------------------
(* The warehouse, whose documents move the counters under the orders.  A   *)
(* document is reduced to one line of one book.                            *)

Line(b, copies) == [c \in Books |-> IF c = b THEN copies ELSE 0]

notAnOrder == <<orderVars, inventoryRestored, voucherVars, refundPointVars, deliveryVars>>

(* A receipt is confirmed, an issue cancelled, or a return put on the shelf. *)
confirmReceipt(b) ==
    /\ stock[b] + reserved[b] < Deliveries
    /\ \E type \in {"PURCHASE_IN", "CANCEL_IN", "RETURN_IN"} : applyMovement(type, Line(b, 1))
    /\ UNCHANGED notAnOrder

(* An issue is confirmed, or a confirmed receipt cancelled.                *)
confirmIssue(b) ==
    /\ \E type \in {"DAMAGE_OUT", "TRANSFER_OUT", "PURCHASE_REVERSAL"} :
            applyMovement(type, Line(b, 1))
    /\ UNCHANGED notAnOrder

completeCount(b) ==
    /\ \E counted \in 0..Deliveries : setStockTo(b, counted, stock[b] + reserved[b])
    /\ UNCHANGED notAnOrder

-----------------------------------------------------------------------------
Init ==
    /\ stock = OpeningStock
    /\ reserved = [b \in Books |-> 0]
    /\ ledger = [b \in Books |-> [sellable |-> OpeningStock[b], physical |-> OpeningStock[b]]]
    /\ status = [o \in Orders |-> NoOrder]
    /\ payStatus = [o \in Orders |-> "UNPAID"]
    /\ previousStatus = [o \in Orders |-> NoOrder]
    /\ attempted = {} /\ overdue = {}
    /\ inventoryRestored = {} /\ shipped = {} /\ delivered = {}
    /\ voucherReleased = {} /\ pointsRefunded = {} /\ pointsEarned = {}
    /\ sold = [b \in Books |-> 0]
    /\ usedCount = [v \in VoucherIds |-> 0]
    /\ usageCount = [v \in VoucherIds |-> [u \in Users |-> 0]]
    /\ balance = OpeningPoints
    /\ debt = OpeningDebt

CustomerStep(o) == createOrder(o) \/ retryPayment(o) \/ requestCancellation(o) \/ cancelOrder(o)
GatewayStep(o) == handlePaymentSuccess(o) \/ handlePaymentFailed(o) \/ completeRefund(o)
StaffStep(o) ==
    \/ adminApproveOrder(o) \/ adminCancelOrder(o) \/ adminMarkShipped(o)
    \/ adminMarkDelivered(o) \/ completeLostInTransitRefund(o)
JobStep(o) ==
    \/ TimePasses(o) \/ expirePendingOrders(o) \/ finalizeShipmentCancellation(o)
    \/ reconcileVoucherReleases(o)
OrderStep(o) == CustomerStep(o) \/ GatewayStep(o) \/ StaffStep(o) \/ JobStep(o)
WarehouseStep(b) == confirmReceipt(b) \/ confirmIssue(b) \/ completeCount(b)

Next == (\E o \in Orders : OrderStep(o)) \/ (\E b \in Books : WarehouseStep(b))

Spec == Init /\ [][Next]_vars

(* The sweep of overdue orders runs every minute; nothing else must happen. *)
FairSpec == Spec /\ \A o \in Orders : WF_vars(expirePendingOrders(o))

-----------------------------------------------------------------------------
(* Properties.                                                             *)

OrderTypeOK ==
    /\ status \in [Orders -> Statuses \cup {NoOrder}]
    /\ payStatus \in [Orders -> PaymentStatuses]
    /\ previousStatus \in [Orders -> {NoOrder, "PAID", "PROCESSING"}]
    /\ attempted \subseteq Orders /\ overdue \subseteq Orders

GoodsTypeOK == StockTypeOK /\ inventoryRestored \subseteq Orders

VoucherTypeOK ==
    /\ voucherReleased \subseteq Orders
    /\ usedCount \in [VoucherIds -> Nat]
    /\ usageCount \in [VoucherIds -> [Users -> Nat]]

PointTypeOK == pointsRefunded \subseteq Orders /\ balance \in [Users -> Nat]

DeliveryTypeOK ==
    /\ shipped \subseteq Orders /\ delivered \subseteq Orders /\ pointsEarned \subseteq Orders
    /\ sold \in [Books -> Nat]
    /\ debt \in [Users -> Nat]

(* No counter of stock, vouchers or points ever leaves the naturals: the   *)
(* guards of the conditional updates are strong enough for every caller.   *)
TypeOK == OrderTypeOK /\ GoodsTypeOK /\ VoucherTypeOK /\ PointTypeOK /\ DeliveryTypeOK

(* The markers of an order agree with its status: what was given back      *)
(* belongs to a closed order, what was dispatched to one past PROCESSING,  *)
(* and an order closed without payment has given its copies back.          *)
MarkersMatchStatus ==
    /\ \A o \in inventoryRestored :
            status[o] \in {"CANCELLED", "FAILED", "REFUNDING", "REFUNDED"}
    /\ \A o \in shipped : status[o] \in {"SHIPPED", "DELIVERED", "REFUNDED"}
    /\ \A o \in Orders :
            /\ status[o] \in {"CANCELLED", "FAILED"} => o \in inventoryRestored
            /\ status[o] \in {"SHIPPED", "DELIVERED"} => o \in shipped
            /\ status[o] = "REFUNDED" => o \in inventoryRestored \cup shipped

(* Orders whose copies are promised and still on the shelf.                *)
Holding == {o \in Live : o \notin inventoryRestored /\ o \notin shipped}

(* The copies of b in every order.                                         *)
Copies(b) == [o \in Orders |-> Cart[o][b]]

(* Book.reserved is exactly what the open, undispatched orders hold,       *)
(* whatever order customers, staff, callbacks and jobs act in: no          *)
(* cancellation gives copies back twice and none forgets them.             *)
ReservedIsOpenOrders == \A b \in Books : reserved[b] = Total(Holding, Copies(b))

(* An order that still holds copies can always give them back: the filter  *)
(* reserved >= quantity of applyMovement never refuses it, so no           *)
(* cancellation, sweep or refund is stuck on INSUFFICIENT_RESERVED and no  *)
(* dispatch either.                                                        *)
ReleaseAlwaysFits == \A o \in Holding : MovementFits("RESERVE_IN", Cart[o])

Holders(v) == {o \in Live : v \in Vouchers[o] /\ o \notin voucherReleased}

(* A voucher's counters count the orders that hold it, per customer too,   *)
(* and stay within both limits: nothing is released twice or leaked.       *)
VoucherUseIsHeld ==
    \A v \in VoucherIds :
        /\ usedCount[v] = Cardinality(Holders(v))
        /\ usedCount[v] <= UsageLimit[v]
        /\ \A u \in Users :
            /\ usageCount[v][u] = Cardinality({o \in Holders(v) : Customer[o] = u})
            /\ usageCount[v][u] <= PerUserLimit[v]

(* A customer's points, net of the debt, change only by what the orders    *)
(* redeemed and did not hand back and by what deliveries earned: debt that *)
(* is settled on delivery is neither granted a second time nor lost.       *)
PointsConserved ==
    \A u \in Users :
        LET own == {o \in Live : Customer[o] = u}
        IN  balance[u] - debt[u] =
                OpeningPoints[u] - OpeningDebt[u]
                - Total(own \ pointsRefunded, Redeemed) + Total(own \cap pointsEarned, Earned)

(* An order that ended without delivery keeps nothing: its vouchers and    *)
(* points went back, and its copies are on the shelf or were dispatched.   *)
DeadOrdersReleased ==
    \A o \in Orders : status[o] \in DEAD_ORDER_STATUSES =>
        /\ Vouchers[o] # {} => o \in voucherReleased
        /\ o \in pointsRefunded
        /\ o \in inventoryRestored \cup shipped

(* Captured money is always answered for: an order whose payment stands is *)
(* on its way to the customer or being cancelled, and one that was closed  *)
(* has no captured payment.                                                *)
CapturedMoneyIsAnswered ==
    \A o \in Live :
        /\ payStatus[o] = "PAID" =>
            status[o] \in {"PAID", "PROCESSING", "CANCELLING", "SHIPPED", "DELIVERED"}
        /\ status[o] \in {"PAID", "SHIPPED", "DELIVERED"} /\ Method[o] # "COD" =>
            payStatus[o] = "PAID"
        /\ payStatus[o] = "REFUNDING" <=> status[o] = "REFUNDING"

(* MAX_PENDING_COD_PER_USER: a customer never has more unexpired COD       *)
(* orders waiting than the limit.                                          *)
PendingCodWithinLimit ==
    \A u \in Users : Cardinality(ActivePending(u, "COD")) <= MaxPending

(* An unpaid order whose time is up does not hold its copies for ever: it  *)
(* is closed by the sweep unless it is paid, approved or renewed first.    *)
OverdueIsSwept == \A o \in Orders : o \in overdue ~> o \notin overdue

-----------------------------------------------------------------------------
(* What the customer and the shop see of an order: where the copies are    *)
(* and where the money is.                                                 *)

goods == [o \in Orders |->
            CASE o \notin Live                     -> "none"
              [] o \in delivered                   -> "handed"
              [] o \in shipped \ delivered         -> "gone"
              [] o \in inventoryRestored \ shipped -> "returned"
              [] OTHER                             -> "held"]

money == [o \in Orders |->
            CASE payStatus[o] \in {"UNPAID", "FAILED"} -> "none"
              [] payStatus[o] = "PAID"                 -> "taken"
              [] payStatus[o] = "REFUNDING"            -> "owed"
              [] payStatus[o] = "REFUNDED"             -> "repaid"]

Contract == INSTANCE Fulfilment WITH Prepaid <- {o \in Orders : Method[o] # "COD"}

(* Every step of an order is a step of the contract between customer and   *)
(* shop that Fulfilment states, or changes neither copies nor money.       *)
ImplementsFulfilment == Contract!Spec
==========================================================================
