---------------------- MODULE OrderLifecycle_proofs ----------------------
(***************************************************************************)
(* Theorems about OrderLifecycle for every set of orders, books, vouchers  *)
(* and customers, every cart and every limit.                              *)
(*                                                                         *)
(* First the types.  Then the goods: the markers of an order agree with    *)
(* its status, so that each transaction changes the set of orders that     *)
(* hold copies by at most one, and the counters by as much.  Then the      *)
(* contract: the payment is what status and method say, so every step of   *)
(* an order is one of a few edges and each edge a move of Fulfilment.      *)
(* Last what many orders share: the waiting COD orders of a customer, the  *)
(* points and the vouchers, counted like the copies.                       *)
(***************************************************************************)
EXTENDS OrderLifecycle, StockTheorems

-----------------------------------------------------------------------------
(* Type correctness of the parts that actions are built from.              *)

(* The cart of an order is a multiset of books.                            *)
LEMMA CartType == \A o \in Orders : Cart[o] \in [Books -> Nat]
  BY RequestAssumption

(* restoreItems keeps the stock counters natural.                          *)
LEMMA RestoreType ==
    ASSUME GoodsTypeOK, NEW o \in Orders, restoreItems(o)
    PROVE  GoodsTypeOK'
<1>1. CASE o \in inventoryRestored
  BY <1>1 DEF restoreItems, goodsVars, GoodsTypeOK, StockTypeOK
<1>2. CASE o \notin inventoryRestored
  <2>1. "RESERVE_IN" \in MovementTypes
    BY DEF MovementTypes
  <2>2. applyMovement("RESERVE_IN", Cart[o]) /\ inventoryRestored' = inventoryRestored \cup {o}
    BY <1>2 DEF restoreItems
  <2> QED
    BY <2>1, <2>2, CartType, MovementType DEF GoodsTypeOK
<1> QED
  BY <1>1, <1>2

(* releaseOrderVoucher keeps the voucher counters natural.                 *)
LEMMA ReleaseType ==
    ASSUME VoucherTypeOK, NEW o \in Orders, releaseOrderVoucher(o)
    PROVE  VoucherTypeOK'
<1>1. CASE Vouchers[o] = {} \/ o \in voucherReleased
  BY <1>1 DEF releaseOrderVoucher, voucherVars, VoucherTypeOK
<1>2. CASE ~(Vouchers[o] = {} \/ o \in voucherReleased)
  <2>1. \A v \in VoucherIds :
           /\ usedCount[v] > 0 => usedCount[v] - 1 \in Nat
           /\ \A u \in Users : usageCount[v][u] > 0 => usageCount[v][u] - 1 \in Nat
    BY DEF VoucherTypeOK
  <2>2. usedCount' \in [VoucherIds -> Nat]
    BY <1>2, <2>1 DEF releaseOrderVoucher, VoucherTypeOK
  <2>3. usageCount' \in [VoucherIds -> [Users -> Nat]]
    <3>1. usageCount' = [v \in VoucherIds |-> [u \in Users |->
              IF v \in Vouchers[o] /\ u = Customer[o] /\ usageCount[v][u] > 0
              THEN usageCount[v][u] - 1 ELSE usageCount[v][u]]]
      BY <1>2 DEF releaseOrderVoucher
    <3>2. \A v \in VoucherIds : usageCount[v] \in [Users -> Nat]
      BY DEF VoucherTypeOK
    <3> QED
      BY <2>1, <3>1, <3>2
  <2> QED
    BY <1>2, <2>2, <2>3 DEF releaseOrderVoucher, VoucherTypeOK
<1> QED
  BY <1>1, <1>2

(* refundOrderPoints keeps the balances natural.                           *)
LEMMA RefundPointsType ==
    ASSUME PointTypeOK, NEW o \in Orders, refundOrderPoints(o)
    PROVE  PointTypeOK'
<1>1. CASE o \in pointsRefunded
  BY <1>1 DEF refundOrderPoints, refundPointVars, PointTypeOK
<1>2. CASE o \notin pointsRefunded
  <2>1. /\ pointsRefunded' = pointsRefunded \cup {o}
        /\ balance' = [balance EXCEPT ![Customer[o]] = @ + Redeemed[o]]
    BY <1>2 DEF refundOrderPoints
  <2>2. Customer[o] \in Users /\ balance[Customer[o]] + Redeemed[o] \in Nat
    BY RequestAssumption DEF PointTypeOK
  <2> QED
    BY <2>1, <2>2 DEF PointTypeOK
<1> QED
  BY <1>1, <1>2

(* applyTransition stays within the statuses of the order document.        *)
LEMMA TransitionType ==
    ASSUME OrderTypeOK, NEW o \in Orders, NEW next \in Statuses, applyTransition(o, next)
    PROVE  /\ status' \in [Orders -> Statuses \cup {NoOrder}]
           /\ payStatus' \in [Orders -> PaymentStatuses]
<1>1. PaymentAfter(o, next) \in PaymentStatuses
  BY DEF OrderTypeOK, PaymentAfter, PaymentStatuses
<1> QED
  BY <1>1 DEF OrderTypeOK, applyTransition

(* Closing an order preserves TypeOK.                                      *)
LEMMA CloseType ==
    ASSUME TypeOK, NEW o \in Orders, NEW next \in Statuses, Close(o, next)
    PROVE  TypeOK'
<1>1. GoodsTypeOK' /\ VoucherTypeOK' /\ PointTypeOK'
  BY RestoreType, ReleaseType, RefundPointsType DEF TypeOK, Close, GiveBack
<1>2. OrderTypeOK'
  BY TransitionType DEF TypeOK, Close, OrderTypeOK
<1>3. DeliveryTypeOK'
  BY DEF TypeOK, Close, deliveryVars, DeliveryTypeOK
<1> QED
  BY <1>1, <1>2, <1>3 DEF TypeOK

-----------------------------------------------------------------------------
(* TypeOK is inductive: one step per action.                               *)

(* TypeOK holds of the shop before its first order.                        *)
LEMMA TypeInit == Init => TypeOK
  BY OpeningAssumption DEF Init, TypeOK, OrderTypeOK, GoodsTypeOK, VoucherTypeOK, PointTypeOK, DeliveryTypeOK,
         StockTypeOK, PaymentStatuses

(* Checkout never overdraws stock, vouchers or points.                     *)
LEMMA CreateType ==
    ASSUME TypeOK, NEW o \in Orders, createOrder(o)
    PROVE  TypeOK'
<1>1. OrderTypeOK'
  BY DEF TypeOK, createOrder, OrderTypeOK, Statuses
<1>2. GoodsTypeOK'
  <2>1. "SALE_OUT" \in MovementTypes
    BY DEF MovementTypes
  <2> QED
    BY <2>1, CartType, MovementType DEF TypeOK, createOrder, GoodsTypeOK
<1>3. VoucherTypeOK'
  <2>1. /\ usedCount' = [v \in VoucherIds |->
                IF v \in Vouchers[o] THEN usedCount[v] + 1 ELSE usedCount[v]]
        /\ usageCount' = [v \in VoucherIds |-> [u \in Users |->
                IF v \in Vouchers[o] /\ u = Customer[o]
                THEN usageCount[v][u] + 1 ELSE usageCount[v][u]]]
        /\ voucherReleased' = voucherReleased
    BY DEF createOrder, consumeVouchers
  <2>2. \A v \in VoucherIds : usedCount[v] + 1 \in Nat /\ usageCount[v] \in [Users -> Nat]
    BY DEF TypeOK, VoucherTypeOK
  <2>3. \A v \in VoucherIds, u \in Users : usageCount[v][u] + 1 \in Nat
    BY <2>2
  <2> QED
    BY <2>1, <2>2, <2>3 DEF TypeOK, VoucherTypeOK
<1>4. PointTypeOK'
  <2>1. /\ balance' = [balance EXCEPT ![Customer[o]] = @ - Redeemed[o]]
        /\ balance[Customer[o]] >= Redeemed[o]
        /\ pointsRefunded' = pointsRefunded
    BY DEF createOrder, redeemForOrder
  <2>2. Customer[o] \in Users /\ balance[Customer[o]] - Redeemed[o] \in Nat
    BY <2>1, RequestAssumption DEF TypeOK, PointTypeOK
  <2> QED
    BY <2>1, <2>2 DEF TypeOK, PointTypeOK
<1>5. DeliveryTypeOK'
  BY DEF TypeOK, createOrder, deliveryVars, DeliveryTypeOK
<1> QED
  BY <1>1, <1>2, <1>3, <1>4, <1>5 DEF TypeOK

(* A delivery never settles more debt than is owed.                        *)
LEMMA DeliverType ==
    ASSUME TypeOK, NEW o \in Orders, adminMarkDelivered(o)
    PROVE  TypeOK'
<1> DEFINE owed == debt[Customer[o]]
           debtOffset == IF owed < Earned[o] THEN owed ELSE Earned[o]
<1>1. OrderTypeOK'
  <2>1. "DELIVERED" \in Statuses
    BY DEF Statuses
  <2> QED
    BY <2>1, TransitionType DEF TypeOK, adminMarkDelivered, OrderTypeOK
<1>2. GoodsTypeOK' /\ VoucherTypeOK'
  BY DEF TypeOK, adminMarkDelivered, goodsVars, voucherVars, GoodsTypeOK, StockTypeOK,
         VoucherTypeOK
<1>3. /\ debt' = [debt EXCEPT ![Customer[o]] = @ - debtOffset]
      /\ balance' = [balance EXCEPT ![Customer[o]] = @ + (Earned[o] - debtOffset)]
      /\ pointsEarned' = pointsEarned \cup {o}
  BY DEF adminMarkDelivered, earnForOrder
<1>4. /\ Customer[o] \in Users
      /\ debt[Customer[o]] - debtOffset \in Nat
      /\ balance[Customer[o]] + (Earned[o] - debtOffset) \in Nat
  BY RequestAssumption DEF TypeOK, PointTypeOK, DeliveryTypeOK
<1>5. sold' \in [Books -> Nat]
  <2>1. \A b \in Books : sold[b] + Cart[o][b] \in Nat
    BY CartType DEF TypeOK, DeliveryTypeOK
  <2> QED
    BY <2>1 DEF adminMarkDelivered
<1> HIDE DEF owed, debtOffset
<1>6. PointTypeOK'
  BY <1>3, <1>4 DEF TypeOK, PointTypeOK, adminMarkDelivered
<1>7. DeliveryTypeOK'
  BY <1>3, <1>4, <1>5 DEF TypeOK, DeliveryTypeOK, adminMarkDelivered
<1> QED
  BY <1>1, <1>2, <1>6, <1>7 DEF TypeOK

(* The steps that move an order along without giving anything back.        *)
LEMMA MoveType ==
    ASSUME TypeOK, NEW o \in Orders,
           \/ TimePasses(o) \/ retryPayment(o) \/ handlePaymentSuccess(o)
           \/ adminApproveOrder(o) \/ adminMarkShipped(o) \/ prepareRefundRequest(o)
    PROVE  TypeOK'
<1> USE DEF TypeOK
<1>1. CASE TimePasses(o) \/ retryPayment(o)
  BY <1>1 DEF TimePasses, retryPayment, OrderTypeOK, GoodsTypeOK, StockTypeOK, VoucherTypeOK,
         PointTypeOK, DeliveryTypeOK, goodsVars, voucherVars, refundPointVars, deliveryVars
<1>2. CASE handlePaymentSuccess(o)
  <2>1. OrderTypeOK'
    <3>1. \E next \in Statuses : applyTransition(o, next)
      BY <1>2 DEF handlePaymentSuccess, PaidInTime, PaidLate, Statuses
    <3>2. overdue' = overdue \ {o} /\ attempted' = attempted /\ previousStatus' = previousStatus
      BY <1>2 DEF handlePaymentSuccess, PaidInTime, PaidLate
    <3> QED
      BY <3>1, <3>2, TransitionType DEF OrderTypeOK
  <2>2. GoodsTypeOK'
    BY <1>2 DEF handlePaymentSuccess, PaidInTime, PaidLate, goodsVars, stockVars, GoodsTypeOK,
           StockTypeOK
  <2>3. VoucherTypeOK' /\ PointTypeOK' /\ DeliveryTypeOK'
    BY <1>2 DEF handlePaymentSuccess, VoucherTypeOK, PointTypeOK, DeliveryTypeOK, voucherVars,
           refundPointVars, deliveryVars
  <2> QED
    BY <2>1, <2>2, <2>3
<1>3. CASE adminApproveOrder(o) \/ prepareRefundRequest(o)
  <2>1. "PROCESSING" \in Statuses /\ "REFUNDING" \in Statuses
    BY DEF Statuses
  <2>2. OrderTypeOK'
    BY <1>3, <2>1, TransitionType DEF adminApproveOrder, prepareRefundRequest, OrderTypeOK
  <2>3. GoodsTypeOK' /\ VoucherTypeOK' /\ PointTypeOK' /\ DeliveryTypeOK'
    BY <1>3 DEF adminApproveOrder, prepareRefundRequest, GoodsTypeOK, StockTypeOK, VoucherTypeOK,
           PointTypeOK, DeliveryTypeOK, goodsVars, voucherVars, refundPointVars, deliveryVars
  <2> QED
    BY <2>2, <2>3
<1>4. CASE adminMarkShipped(o)
  <2>1. "SHIPPED" \in Statuses /\ "SHIP_OUT" \in MovementTypes
    BY DEF Statuses, MovementTypes
  <2>2. OrderTypeOK'
    BY <1>4, <2>1, TransitionType DEF adminMarkShipped, OrderTypeOK
  <2>3. GoodsTypeOK'
    BY <1>4, <2>1, CartType, MovementType DEF adminMarkShipped, GoodsTypeOK
  <2>4. VoucherTypeOK' /\ PointTypeOK' /\ DeliveryTypeOK'
    BY <1>4 DEF adminMarkShipped, VoucherTypeOK, PointTypeOK, DeliveryTypeOK, voucherVars,
           refundPointVars
  <2> QED
    BY <2>2, <2>3, <2>4
<1> QED
  BY <1>1, <1>2, <1>3, <1>4

(* The two ways in which a refund is settled preserve TypeOK.               *)
LEMMA SettleType ==
    ASSUME TypeOK, NEW o \in Orders, completeRefund(o) \/ completeLostInTransitRefund(o)
    PROVE  TypeOK'
<1>1. SettleRefund(o)
  BY DEF completeRefund, completeLostInTransitRefund
<1>2. GoodsTypeOK'
  <2>1. CASE o \in shipped
    BY <1>1, <2>1 DEF SettleRefund, ReservationOfRefund, goodsVars, TypeOK, GoodsTypeOK,
           StockTypeOK
  <2>2. CASE o \notin shipped
    BY <1>1, <2>2, RestoreType DEF SettleRefund, ReservationOfRefund, TypeOK
  <2> QED
    BY <2>1, <2>2
<1>3. VoucherTypeOK' /\ PointTypeOK'
  BY <1>1, ReleaseType, RefundPointsType DEF SettleRefund, TypeOK
<1>4. /\ status' \in [Orders -> Statuses \cup {NoOrder}]
      /\ payStatus' \in [Orders -> PaymentStatuses]
  <2>1. "REFUNDED" \in Statuses /\ "REFUNDED" \in PaymentStatuses
    BY DEF Statuses, PaymentStatuses
  <2>2. CASE completeRefund(o)
    BY <2>1, <2>2, TransitionType DEF completeRefund, TypeOK
  <2>3. CASE completeLostInTransitRefund(o)
    BY <2>1, <2>3 DEF completeLostInTransitRefund, TypeOK, OrderTypeOK
  <2> QED
    BY <2>2, <2>3
<1>5. OrderTypeOK' /\ DeliveryTypeOK'
  BY <1>1, <1>4 DEF SettleRefund, deliveryVars, TypeOK, OrderTypeOK, DeliveryTypeOK
<1> QED
  BY <1>2, <1>3, <1>5 DEF TypeOK

(* The cancellations, the sweeps and the failed payment preserve TypeOK.   *)
LEMMA CancelType ==
    ASSUME TypeOK, NEW o \in Orders,
           \/ handlePaymentFailed(o) \/ requestCancellation(o) \/ cancelOrder(o)
           \/ adminCancelOrder(o) \/ expirePendingOrders(o) \/ finalizeShipmentCancellation(o)
           \/ reconcileVoucherReleases(o)
    PROVE  TypeOK'
<1>1. "CANCELLED" \in Statuses /\ "FAILED" \in Statuses /\ "CANCELLING" \in Statuses
  BY DEF Statuses
<1>2. CASE \E next \in {"CANCELLED", "FAILED"} : Close(o, next)
  BY <1>1, <1>2, CloseType
<1>3. CASE prepareRefundRequest(o)
  BY <1>3, MoveType
<1>4. CASE /\ status[o] \in {"PAID", "PROCESSING"}
           /\ applyTransition(o, "CANCELLING")
           /\ previousStatus' = [previousStatus EXCEPT ![o] = status[o]]
           /\ UNCHANGED <<attempted, overdue, goodsVars, voucherVars, refundPointVars,
                          deliveryVars>>
  <2>1. OrderTypeOK'
    BY <1>1, <1>4, TransitionType DEF TypeOK, OrderTypeOK
  <2>2. GoodsTypeOK' /\ VoucherTypeOK' /\ PointTypeOK' /\ DeliveryTypeOK'
    BY <1>4 DEF TypeOK, GoodsTypeOK, StockTypeOK, VoucherTypeOK, PointTypeOK, DeliveryTypeOK,
           goodsVars, voucherVars, refundPointVars, deliveryVars
  <2> QED
    BY <2>1, <2>2 DEF TypeOK
<1>5. CASE reconcileVoucherReleases(o)
  <2>1. VoucherTypeOK' /\ PointTypeOK'
    BY <1>5, ReleaseType, RefundPointsType DEF reconcileVoucherReleases, TypeOK
  <2>2. OrderTypeOK' /\ GoodsTypeOK' /\ DeliveryTypeOK'
    BY <1>5 DEF reconcileVoucherReleases, TypeOK, OrderTypeOK, GoodsTypeOK, StockTypeOK,
           DeliveryTypeOK, orderVars, goodsVars, deliveryVars
  <2> QED
    BY <2>1, <2>2 DEF TypeOK
<1> QED
  BY <1>2, <1>3, <1>4, <1>5 DEF handlePaymentFailed, requestCancellation, cancelOrder,
         adminCancelOrder, expirePendingOrders, finalizeShipmentCancellation

(* The documents of the warehouse preserve TypeOK.                         *)
LEMMA WarehouseType ==
    ASSUME TypeOK, NEW b \in Books, WarehouseStep(b)
    PROVE  TypeOK'
<1>1. GoodsTypeOK /\ inventoryRestored' = inventoryRestored
  BY DEF TypeOK, WarehouseStep, confirmReceipt, confirmIssue, completeCount, notAnOrder
<1>2. Line(b, 1) \in [Books -> Nat]
  BY DEF Line
<1>3. ASSUME confirmReceipt(b) \/ confirmIssue(b)
      PROVE  GoodsTypeOK'
  <2>1. \E type \in MovementTypes : applyMovement(type, Line(b, 1))
    BY <1>3 DEF confirmReceipt, confirmIssue, MovementTypes
  <2> QED
    BY <1>1, <1>2, <2>1, MovementType DEF GoodsTypeOK
<1>4. ASSUME completeCount(b)
      PROVE  GoodsTypeOK'
  <2>1. PICK counted \in 0..Deliveries : setStockTo(b, counted, stock[b] + reserved[b])
    BY <1>4 DEF completeCount
  <2>2. counted \in Nat
    OBVIOUS
  <2>3. StockTypeOK'
    BY <1>1, <2>1, <2>2, CountType DEF GoodsTypeOK
  <2> QED
    BY <1>1, <2>3 DEF GoodsTypeOK
<1>5. GoodsTypeOK'
  BY <1>3, <1>4 DEF WarehouseStep
<1>6. OrderTypeOK' /\ VoucherTypeOK' /\ PointTypeOK' /\ DeliveryTypeOK'
  BY DEF TypeOK, WarehouseStep, confirmReceipt, confirmIssue, completeCount, notAnOrder,
         OrderTypeOK, VoucherTypeOK, PointTypeOK, DeliveryTypeOK, orderVars, voucherVars,
         refundPointVars, deliveryVars
<1> QED
  BY <1>5, <1>6 DEF TypeOK

(* TypeOK is preserved by every step.                                      *)
LEMMA TypeStep == TypeOK /\ [Next]_vars => TypeOK'
<1> SUFFICES ASSUME TypeOK, [Next]_vars
             PROVE  TypeOK'
  OBVIOUS
<1>1. ASSUME NEW o \in Orders, OrderStep(o)
      PROVE  TypeOK'
  BY <1>1, CreateType, DeliverType, MoveType, SettleType, CancelType
     DEF OrderStep, CustomerStep, GatewayStep, StaffStep, JobStep
<1>2. ASSUME NEW b \in Books, WarehouseStep(b)
      PROVE  TypeOK'
  BY <1>2, WarehouseType
<1>3. CASE UNCHANGED vars
  BY <1>3 DEF vars, orderVars, goodsVars, voucherVars, refundPointVars, deliveryVars, TypeOK,
         OrderTypeOK, GoodsTypeOK, StockTypeOK, VoucherTypeOK, PointTypeOK, DeliveryTypeOK
<1> QED
  BY <1>1, <1>2, <1>3 DEF Next

(* No counter of stock, vouchers, points or debt ever leaves the naturals, *)
(* for every cart and every limit: the filters of the conditional updates  *)
(* in createOrder, applyMovement, setStockTo and applyPointsMovement are   *)
(* strong enough for every caller.                                         *)
THEOREM TypeCorrect == Spec => []TypeOK
<1> QED
  BY TypeInit, TypeStep, PTL DEF Spec

-----------------------------------------------------------------------------
(* The markers.                                                            *)

MarkersOf(o) ==
    /\ o \in inventoryRestored => status[o] \in {"CANCELLED", "FAILED", "REFUNDING", "REFUNDED"}
    /\ o \in shipped => status[o] \in {"SHIPPED", "DELIVERED", "REFUNDED"}
    /\ status[o] \in {"CANCELLED", "FAILED"} => o \in inventoryRestored
    /\ status[o] \in {"SHIPPED", "DELIVERED"} => o \in shipped
    /\ status[o] = "REFUNDED" => o \in inventoryRestored \cup shipped

(* A step that touches the markers and the status of one order only.       *)
OnlyOrder(o) ==
    /\ inventoryRestored' \in {inventoryRestored, inventoryRestored \cup {o}}
    /\ shipped' \in {shipped, shipped \cup {o}}
    /\ \E s \in Statuses \cup {NoOrder} : status' = [status EXCEPT ![o] = s]

(* The markers of all orders agree with their status exactly when those of *)
(* each order do.                                                          *)
LEMMA MarkersPerOrder ==
    ASSUME TypeOK
    PROVE  MarkersMatchStatus <=> \A o \in Orders : MarkersOf(o)
  BY DEF TypeOK, GoodsTypeOK, DeliveryTypeOK, MarkersMatchStatus, MarkersOf

(* It is enough to look at the order that a step touches.                  *)
LEMMA MarkersLocal ==
    ASSUME TypeOK, TypeOK', MarkersMatchStatus, NEW o \in Orders, OnlyOrder(o), MarkersOf(o)'
    PROVE  MarkersMatchStatus'
<1>1. \A x \in Orders : MarkersOf(x)
  BY MarkersPerOrder
<1>2. ASSUME NEW x \in Orders, x # o
      PROVE  MarkersOf(x)'
  <2>1. status'[x] = status[x]
    BY <1>2 DEF OnlyOrder, TypeOK, OrderTypeOK
  <2>2. /\ x \in inventoryRestored' <=> x \in inventoryRestored
        /\ x \in shipped' <=> x \in shipped
    BY <1>2 DEF OnlyOrder
  <2>3. MarkersOf(x)
    BY <1>1
  <2> QED
    BY <2>1, <2>2, <2>3 DEF MarkersOf
<1>3. \A x \in Orders : MarkersOf(x)'
  BY <1>2
<1> QED
  BY <1>3 DEF MarkersOf, MarkersMatchStatus, TypeOK, GoodsTypeOK, DeliveryTypeOK

(* What applyTransition does to the status of its order.                   *)
LEMMA TransitionStatus ==
    ASSUME TypeOK, NEW o \in Orders, NEW next \in Statuses, applyTransition(o, next)
    PROVE  /\ status' = [status EXCEPT ![o] = next]
           /\ status'[o] = next
           /\ status[o] \in Statuses
           /\ next \in TRANSITIONS[status[o]]
  BY DEF applyTransition, TypeOK, OrderTypeOK

(* restoreItems leaves the marker set.                                     *)
LEMMA RestoreMarks ==
    ASSUME NEW o, restoreItems(o)
    PROVE  inventoryRestored' = inventoryRestored \cup {o}
  BY DEF restoreItems, goodsVars

-----------------------------------------------------------------------------
(* The copies that an order holds, before and after a step.                *)

Held(o, b) == IF o \in Holding THEN Cart[o][b] ELSE 0

(* Book.reserved moves by exactly what the order began or ceased to hold.  *)
GoodsStep(o) ==
    \A b \in Books : reserved'[b] = reserved[b] + Held(o, b)' - Held(o, b)

(* restoreItems takes the copies off the reserved counter, once.           *)
LEMMA RestoreReserves ==
    ASSUME TypeOK, NEW o \in Orders, restoreItems(o), NEW b \in Books
    PROVE  reserved'[b] = IF o \in inventoryRestored THEN reserved[b]
                          ELSE reserved[b] - Cart[o][b]
<1>1. CASE o \in inventoryRestored
  BY <1>1 DEF restoreItems, goodsVars
<1>2. CASE o \notin inventoryRestored
  <2>1. applyMovement("RESERVE_IN", Cart[o]) /\ "RESERVE_IN" \in MovementTypes
    BY <1>2 DEF restoreItems, MovementTypes
  <2> QED
    BY <1>2, <2>1, CartType, ReservedMoves DEF TypeOK, GoodsTypeOK
<1> QED
  BY <1>1, <1>2

(* Only the order a step touches can begin or cease to hold copies.        *)
LEMMA HoldingLocal ==
    ASSUME TypeOK, NEW o \in Orders, OnlyOrder(o)
    PROVE  Holding' \in {Holding \cup {o}, Holding \ {o}}
<1>1. ASSUME NEW x \in Orders, x # o
      PROVE  x \in Holding' <=> x \in Holding
  <2>1. status'[x] = status[x]
    BY <1>1 DEF OnlyOrder, TypeOK, OrderTypeOK
  <2>2. /\ x \in inventoryRestored' <=> x \in inventoryRestored
        /\ x \in shipped' <=> x \in shipped
    BY <1>1 DEF OnlyOrder
  <2> QED
    BY <2>1, <2>2 DEF Holding, Live
<1>2. Holding \subseteq Orders /\ Holding' \subseteq Orders
  BY DEF Holding, Live
<1>3. CASE o \in Holding'
  <2>1. Holding' = Holding \cup {o}
    BY <1>1, <1>2, <1>3
  <2> QED
    BY <2>1
<1>4. CASE o \notin Holding'
  <2>1. Holding' = Holding \ {o}
    BY <1>1, <1>2, <1>4
  <2> QED
    BY <2>1
<1> QED
  BY <1>3, <1>4

(* Book.reserved follows the orders that hold copies.                      *)
LEMMA ReservedLocal ==
    ASSUME TypeOK, NEW o \in Orders, OnlyOrder(o), GoodsStep(o), ReservedIsOpenOrders
    PROVE  ReservedIsOpenOrders'
<1> SUFFICES ASSUME NEW b \in Books
             PROVE  reserved'[b] = Total(Holding', Copies(b))
  BY DEF ReservedIsOpenOrders, Copies
<1> DEFINE f == Copies(b)
<1>1. reserved[b] = Total(Holding, f) /\ reserved[b] \in Nat
  BY DEF ReservedIsOpenOrders, TypeOK, GoodsTypeOK, StockTypeOK
<1>2. reserved'[b] = reserved[b] + Held(o, b)' - Held(o, b)
  BY DEF GoodsStep
<1>3. Holding \subseteq Orders /\ IsFiniteSet(Holding)
  <2>1. Holding \in SUBSET Orders
    BY DEF Holding, Live
  <2>2. IsFiniteSet(Orders)
    BY OrdersAssumption
  <2>3. IsFiniteSet(Holding)
    BY <2>1, <2>2, FS_Subset, Zenon
  <2> QED
    BY <2>1, <2>3
<1>4. \A x \in Orders : f[x] = Cart[x][b] /\ f[x] \in Nat
  BY CartType DEF Copies
<1>5. Holding' \in {Holding \cup {o}, Holding \ {o}}
  BY HoldingLocal
<1>6. /\ Held(o, b) = IF o \in Holding THEN f[o] ELSE 0
      /\ Held(o, b)' = IF o \in Holding' THEN f[o] ELSE 0
  BY <1>4 DEF Held
<1>7. o \notin Holding => Total(Holding \cup {o}, f) = Total(Holding, f) + f[o]
  <2>1. \A x \in Holding \cup {o} : f[x] \in Nat
    BY <1>3, <1>4
  <2> HIDE DEF f
  <2> QED
    BY <1>3, <2>1, TotalAdd
<1>8. o \in Holding => Total(Holding \ {o}, f) = Total(Holding, f) - f[o]
  <2>1. \A x \in Holding : f[x] \in Nat
    BY <1>3, <1>4
  <2> HIDE DEF f
  <2> QED
    BY <1>3, <2>1, TotalRemove
<1>9. f[o] \in Nat
  BY <1>4
<1> HIDE DEF f
<1>10. reserved'[b] = Total(Holding', f)
  <2>1. CASE o \in Holding /\ o \in Holding'
    <3>1. Holding' = Holding
      BY <1>5, <2>1
    <3> QED
      BY <1>1, <1>2, <1>6, <1>9, <2>1, <3>1
  <2>2. CASE o \in Holding /\ o \notin Holding'
    <3>1. Holding' = Holding \ {o}
      BY <1>5, <2>2
    <3> QED
      BY <1>1, <1>2, <1>6, <1>8, <1>9, <2>2, <3>1
  <2>3. CASE o \notin Holding /\ o \in Holding'
    <3>1. Holding' = Holding \cup {o}
      BY <1>5, <2>3
    <3> QED
      BY <1>1, <1>2, <1>6, <1>7, <1>9, <2>3, <3>1
  <2>4. CASE o \notin Holding /\ o \notin Holding'
    <3>1. Holding' = Holding
      BY <1>5, <2>4
    <3> QED
      BY <1>1, <1>2, <1>6, <2>4, <3>1
  <2> QED
    BY <2>1, <2>2, <2>3, <2>4
<1> QED
  BY <1>10 DEF f

-----------------------------------------------------------------------------
(* What each action does to the markers of its order and to the copies it  *)
(* holds.                                                                  *)

Effect(o) == OnlyOrder(o) /\ MarkersOf(o)' /\ GoodsStep(o)

(* An order is closed: what it held goes back to the shelf.                *)
LEMMA CloseEffect ==
    ASSUME TypeOK, MarkersMatchStatus, NEW o \in Orders, NEW next \in {"CANCELLED", "FAILED"},
           status[o] \in {"PENDING", "PROCESSING", "CANCELLING"}, Close(o, next)
    PROVE  Effect(o)
<1>1. next \in Statuses
  BY DEF Statuses
<1>2. status' = [status EXCEPT ![o] = next] /\ status'[o] = next
  BY <1>1, TransitionStatus DEF Close
<1>3. inventoryRestored' = inventoryRestored \cup {o} /\ shipped' = shipped
  BY RestoreMarks DEF Close, GiveBack, deliveryVars
<1>4. o \notin inventoryRestored /\ o \notin shipped
  BY DEF MarkersMatchStatus
<1>5. OnlyOrder(o) /\ MarkersOf(o)'
  BY <1>1, <1>2, <1>3, <1>4 DEF OnlyOrder, MarkersOf
<1>6. o \in Holding /\ o \notin Holding'
  BY <1>3, <1>4 DEF Holding, Live, NoOrder
<1>7. ASSUME NEW b \in Books
      PROVE  reserved'[b] = reserved[b] + Held(o, b)' - Held(o, b)
  <2>1. reserved'[b] = reserved[b] - Cart[o][b]
    BY <1>4, RestoreReserves DEF Close, GiveBack
  <2>2. reserved[b] \in Nat /\ Cart[o][b] \in Nat
    BY CartType DEF TypeOK, GoodsTypeOK, StockTypeOK
  <2>3. Held(o, b) = Cart[o][b] /\ Held(o, b)' = 0
    BY <1>6 DEF Held
  <2> QED
    BY <2>1, <2>2, <2>3
<1> QED
  BY <1>5, <1>7 DEF Effect, GoodsStep

(* A step that leaves the markers and the counters alone, and the order    *)
(* among the statuses that hold copies.                                    *)
LEMMA KeepEffect ==
    ASSUME TypeOK, MarkersMatchStatus, NEW o \in Orders, NEW next \in Statuses,
           status' = [status EXCEPT ![o] = next],
           \/ next = status[o]
           \/ /\ status[o] \in {"PENDING", "PAID", "PROCESSING", "CANCELLING"}
              /\ next \in {"PAID", "PROCESSING", "CANCELLING", "REFUNDING"},
           UNCHANGED <<inventoryRestored, shipped, reserved>>
    PROVE  Effect(o)
<1>1. status'[o] = next
  BY DEF TypeOK, OrderTypeOK
<1>2. MarkersOf(o)
  BY MarkersPerOrder
<1>3. OnlyOrder(o)
  BY DEF OnlyOrder
<1>4. MarkersOf(o)'
  BY <1>1, <1>2 DEF MarkersOf
<1>5. o \in Holding' <=> o \in Holding
  BY <1>1 DEF Holding, Live, NoOrder, Statuses
<1>6. ASSUME NEW b \in Books
      PROVE  reserved'[b] = reserved[b] + Held(o, b)' - Held(o, b)
  <2>1. reserved[b] \in Nat /\ Cart[o][b] \in Nat
    BY CartType DEF TypeOK, GoodsTypeOK, StockTypeOK
  <2> QED
    BY <1>5, <2>1 DEF Held
<1> QED
  BY <1>3, <1>4, <1>6 DEF Effect, GoodsStep

(* Checkout reserves the cart.                                             *)
LEMMA CreateEffect ==
    ASSUME TypeOK, MarkersMatchStatus, NEW o \in Orders, createOrder(o)
    PROVE  Effect(o)
<1>1. /\ status[o] = NoOrder /\ status' = [status EXCEPT ![o] = "PENDING"]
      /\ inventoryRestored' = inventoryRestored /\ shipped' = shipped
      /\ applyMovement("SALE_OUT", Cart[o])
  BY DEF createOrder, deliveryVars
<1>2. status'[o] = "PENDING" /\ "PENDING" \in Statuses
  BY <1>1 DEF TypeOK, OrderTypeOK, Statuses
<1>3. o \notin inventoryRestored /\ o \notin shipped
  BY <1>1 DEF MarkersMatchStatus, NoOrder
<1>4. OnlyOrder(o) /\ MarkersOf(o)'
  BY <1>1, <1>2, <1>3 DEF OnlyOrder, MarkersOf
<1>5. o \notin Holding /\ o \in Holding'
  BY <1>1, <1>2, <1>3 DEF Holding, Live, NoOrder
<1>6. ASSUME NEW b \in Books
      PROVE  reserved'[b] = reserved[b] + Held(o, b)' - Held(o, b)
  <2>1. "SALE_OUT" \in MovementTypes
    BY DEF MovementTypes
  <2>2. reserved'[b] = reserved[b] + Cart[o][b]
    BY <1>1, <2>1, CartType, ReservedMoves DEF TypeOK, GoodsTypeOK
  <2>3. reserved[b] \in Nat /\ Cart[o][b] \in Nat
    BY CartType DEF TypeOK, GoodsTypeOK, StockTypeOK
  <2>4. Held(o, b) = 0 /\ Held(o, b)' = Cart[o][b]
    BY <1>5 DEF Held
  <2> QED
    BY <2>2, <2>3, <2>4
<1> QED
  BY <1>4, <1>6 DEF Effect, GoodsStep

(* Dispatch takes the copies out of the warehouse.                         *)
LEMMA ShipEffect ==
    ASSUME TypeOK, MarkersMatchStatus, NEW o \in Orders, adminMarkShipped(o)
    PROVE  Effect(o)
<1>1. "SHIPPED" \in Statuses /\ "SHIP_OUT" \in MovementTypes
  BY DEF Statuses, MovementTypes
<1>2. /\ status' = [status EXCEPT ![o] = "SHIPPED"] /\ status'[o] = "SHIPPED"
      /\ status[o] \in Statuses /\ "SHIPPED" \in TRANSITIONS[status[o]]
  BY <1>1, TransitionStatus DEF adminMarkShipped
<1>3. status[o] = "PROCESSING"
  BY <1>2 DEF Statuses, TRANSITIONS
<1>4. /\ inventoryRestored' = inventoryRestored /\ shipped' = shipped \cup {o}
      /\ applyMovement("SHIP_OUT", Cart[o])
  BY DEF adminMarkShipped
<1>5. o \notin inventoryRestored /\ o \notin shipped
  BY <1>3 DEF MarkersMatchStatus
<1>6. OnlyOrder(o) /\ MarkersOf(o)'
  BY <1>1, <1>2, <1>4, <1>5 DEF OnlyOrder, MarkersOf
<1>7. o \in Holding /\ o \notin Holding'
  BY <1>3, <1>4, <1>5 DEF Holding, Live, NoOrder
<1>8. ASSUME NEW b \in Books
      PROVE  reserved'[b] = reserved[b] + Held(o, b)' - Held(o, b)
  <2>1. reserved'[b] = reserved[b] - Cart[o][b]
    BY <1>1, <1>4, CartType, ReservedMoves DEF TypeOK, GoodsTypeOK
  <2>2. reserved[b] \in Nat /\ Cart[o][b] \in Nat
    BY CartType DEF TypeOK, GoodsTypeOK, StockTypeOK
  <2>3. Held(o, b) = Cart[o][b] /\ Held(o, b)' = 0
    BY <1>7 DEF Held
  <2> QED
    BY <2>1, <2>2, <2>3
<1> QED
  BY <1>6, <1>8 DEF Effect, GoodsStep

(* Steps that move an order between places where it holds nothing: a late  *)
(* payment and a delivery.                                                 *)
LEMMA EmptyHandedEffect ==
    ASSUME TypeOK, MarkersMatchStatus, NEW o \in Orders,
           (PaidLate(o) /\ UNCHANGED shipped) \/ adminMarkDelivered(o)
    PROVE  Effect(o)
<1>1. CASE PaidLate(o) /\ UNCHANGED shipped
  <2>1. "REFUNDING" \in Statuses
    BY DEF Statuses
  <2>2. status' = [status EXCEPT ![o] = "REFUNDING"] /\ status'[o] = "REFUNDING"
    BY <1>1, <2>1, TransitionStatus DEF PaidLate
  <2>3. o \in inventoryRestored /\ o \notin shipped
    BY <1>1 DEF PaidLate, MarkersMatchStatus
  <2>4. inventoryRestored' = inventoryRestored /\ shipped' = shipped /\ reserved' = reserved
    BY <1>1, <2>3 DEF PaidLate, stockVars
  <2>5. OnlyOrder(o) /\ MarkersOf(o)'
    BY <2>1, <2>2, <2>3, <2>4 DEF OnlyOrder, MarkersOf
  <2>6. o \notin Holding /\ o \notin Holding'
    BY <2>3, <2>4 DEF Holding
  <2>7. \A b \in Books : reserved[b] \in Nat
    BY DEF TypeOK, GoodsTypeOK, StockTypeOK
  <2>8. GoodsStep(o)
    BY <2>4, <2>6, <2>7 DEF GoodsStep, Held
  <2> QED
    BY <2>5, <2>8 DEF Effect
<1>2. CASE adminMarkDelivered(o)
  <2>1. "DELIVERED" \in Statuses
    BY DEF Statuses
  <2>2. /\ status' = [status EXCEPT ![o] = "DELIVERED"] /\ status'[o] = "DELIVERED"
        /\ status[o] \in Statuses /\ "DELIVERED" \in TRANSITIONS[status[o]]
    BY <1>2, <2>1, TransitionStatus DEF adminMarkDelivered
  <2>3. status[o] = "SHIPPED"
    BY <2>2 DEF Statuses, TRANSITIONS
  <2>4. o \in shipped /\ o \notin inventoryRestored
    BY <2>3 DEF MarkersMatchStatus
  <2>5. inventoryRestored' = inventoryRestored /\ shipped' = shipped /\ reserved' = reserved
    BY <1>2 DEF adminMarkDelivered, goodsVars
  <2>6. OnlyOrder(o) /\ MarkersOf(o)'
    BY <2>1, <2>2, <2>4, <2>5 DEF OnlyOrder, MarkersOf
  <2>7. o \notin Holding /\ o \notin Holding'
    BY <2>4, <2>5 DEF Holding
  <2>8. \A b \in Books : reserved[b] \in Nat
    BY DEF TypeOK, GoodsTypeOK, StockTypeOK
  <2>9. GoodsStep(o)
    BY <2>5, <2>7, <2>8 DEF GoodsStep, Held
  <2> QED
    BY <2>6, <2>9 DEF Effect
<1> QED
  BY <1>1, <1>2

(* A settled refund frees the copies that are still on the shelf.          *)
LEMMA SettleEffect ==
    ASSUME TypeOK, MarkersMatchStatus, NEW o \in Orders,
           completeRefund(o) \/ completeLostInTransitRefund(o)
    PROVE  Effect(o)
<1>1. "REFUNDED" \in Statuses
  BY DEF Statuses
<1>2. /\ status' = [status EXCEPT ![o] = "REFUNDED"] /\ status'[o] = "REFUNDED"
      /\ status[o] \in {"REFUNDING", "SHIPPED"}
  <2>1. CASE completeRefund(o)
    <3>1. /\ status' = [status EXCEPT ![o] = "REFUNDED"] /\ status'[o] = "REFUNDED"
          /\ status[o] \in Statuses /\ "REFUNDED" \in TRANSITIONS[status[o]]
      BY <1>1, <2>1, TransitionStatus DEF completeRefund
    <3> QED
      BY <3>1 DEF Statuses, TRANSITIONS
  <2>2. CASE completeLostInTransitRefund(o)
    BY <2>2 DEF completeLostInTransitRefund, TypeOK, OrderTypeOK
  <2> QED
    BY <2>1, <2>2
<1>3. SettleRefund(o)
  BY DEF completeRefund, completeLostInTransitRefund
<1>4. shipped' = shipped
  BY <1>3 DEF SettleRefund, deliveryVars
<1>5. \A b \in Books : reserved[b] \in Nat /\ Cart[o][b] \in Nat
  BY CartType DEF TypeOK, GoodsTypeOK, StockTypeOK
<1>6. MarkersOf(o)
  BY MarkersPerOrder
<1>7. CASE o \in shipped
  <2>1. inventoryRestored' = inventoryRestored /\ reserved' = reserved
    BY <1>3, <1>7 DEF SettleRefund, ReservationOfRefund, goodsVars
  <2>2. OnlyOrder(o) /\ MarkersOf(o)'
    BY <1>1, <1>2, <1>4, <1>6, <1>7, <2>1 DEF OnlyOrder, MarkersOf
  <2>3. o \notin Holding /\ o \notin Holding'
    BY <1>4, <1>7 DEF Holding
  <2>4. GoodsStep(o)
    BY <1>5, <2>1, <2>3 DEF GoodsStep, Held
  <2> QED
    BY <2>2, <2>4 DEF Effect
<1>8. CASE o \notin shipped
  <2>1. restoreItems(o) /\ inventoryRestored' = inventoryRestored \cup {o}
    BY <1>3, <1>8, RestoreMarks DEF SettleRefund, ReservationOfRefund
  <2>2. OnlyOrder(o) /\ MarkersOf(o)'
    BY <1>1, <1>2, <1>4, <1>8, <2>1 DEF OnlyOrder, MarkersOf
  <2>3. o \notin Holding' /\ (o \in Holding <=> o \notin inventoryRestored)
    BY <1>2, <1>8, <2>1 DEF Holding, Live, NoOrder
  <2>4. ASSUME NEW b \in Books
        PROVE  reserved'[b] = reserved[b] + Held(o, b)' - Held(o, b)
    <3>1. reserved'[b] = IF o \in inventoryRestored THEN reserved[b]
                         ELSE reserved[b] - Cart[o][b]
      BY <2>1, RestoreReserves
    <3> QED
      BY <1>5, <2>3, <3>1 DEF Held
  <2> QED
    BY <2>2, <2>4 DEF Effect, GoodsStep
<1> QED
  BY <1>7, <1>8

(* Every step of an order keeps its markers in line and moves Book.reserved *)
(* by what it began or ceased to hold.                                     *)
LEMMA OrderEffect ==
    ASSUME TypeOK, MarkersMatchStatus, NEW o \in Orders, OrderStep(o)
    PROVE  Effect(o)
<1>1. CASE createOrder(o)
  BY <1>1, CreateEffect
<1>2. CASE \/ TimePasses(o) \/ retryPayment(o) \/ reconcileVoucherReleases(o)
  <2>1. UNCHANGED <<status, inventoryRestored, shipped, reserved>> /\ status[o] \in Statuses
    BY <1>2 DEF TimePasses, retryPayment, reconcileVoucherReleases, goodsVars, deliveryVars,
           orderVars, unreleasedOrderFilter, DEAD_ORDER_STATUSES, Statuses
  <2>2. status' = [status EXCEPT ![o] = status[o]]
    BY <2>1 DEF TypeOK, OrderTypeOK
  <2> QED
    BY <2>1, <2>2, KeepEffect
<1>3. CASE handlePaymentSuccess(o)
  <2>1. CASE PaidInTime(o)
    <3>1. "PAID" \in Statuses
      BY DEF Statuses
    <3>2. status' = [status EXCEPT ![o] = "PAID"] /\ status[o] = "PENDING"
      BY <2>1, <3>1, TransitionStatus DEF PaidInTime
    <3>3. UNCHANGED <<inventoryRestored, shipped, reserved>>
      BY <1>3, <2>1 DEF PaidInTime, goodsVars, handlePaymentSuccess, deliveryVars
    <3> QED
      BY <3>1, <3>2, <3>3, KeepEffect
  <2>2. CASE PaidLate(o)
    <3>1. UNCHANGED shipped
      BY <1>3 DEF handlePaymentSuccess, deliveryVars
    <3> QED
      BY <2>2, <3>1, EmptyHandedEffect
  <2> QED
    BY <1>3, <2>1, <2>2 DEF handlePaymentSuccess
<1>4. CASE adminApproveOrder(o)
  <2>1. "PROCESSING" \in Statuses
    BY DEF Statuses
  <2>2. status' = [status EXCEPT ![o] = "PROCESSING"] /\ status[o] \in {"PENDING", "PAID"}
    BY <1>4, <2>1, TransitionStatus DEF adminApproveOrder, Approvable
  <2>3. UNCHANGED <<inventoryRestored, shipped, reserved>>
    BY <1>4 DEF adminApproveOrder, goodsVars, deliveryVars
  <2> QED
    BY <2>1, <2>2, <2>3, KeepEffect
<1>5. CASE adminMarkShipped(o) \/ adminMarkDelivered(o)
  BY <1>5, ShipEffect, EmptyHandedEffect
<1>6. CASE completeRefund(o) \/ completeLostInTransitRefund(o)
  BY <1>6, SettleEffect
<1>7. ASSUME NEW next \in {"CANCELLED", "FAILED"}, Close(o, next),
             status[o] \in {"PENDING", "PROCESSING", "CANCELLING"}
      PROVE  Effect(o)
  BY <1>7, CloseEffect
<1>8. ASSUME prepareRefundRequest(o), status[o] \in {"PAID", "PROCESSING", "CANCELLING"}
      PROVE  Effect(o)
  <2>1. "REFUNDING" \in Statuses
    BY DEF Statuses
  <2>2. status' = [status EXCEPT ![o] = "REFUNDING"]
    BY <1>8, <2>1, TransitionStatus DEF prepareRefundRequest
  <2>3. UNCHANGED <<inventoryRestored, shipped, reserved>>
    BY <1>8 DEF prepareRefundRequest, goodsVars, deliveryVars
  <2> QED
    BY <1>8, <2>1, <2>2, <2>3, KeepEffect
<1>9. CASE handlePaymentFailed(o) \/ expirePendingOrders(o) \/ adminCancelOrder(o)
  BY <1>7, <1>9 DEF handlePaymentFailed, expirePendingOrders, expiredPendingFilter,
         adminCancelOrder, ClosesAtOnce
<1>10. CASE cancelOrder(o) \/ finalizeShipmentCancellation(o)
  BY <1>7, <1>8, <1>10 DEF cancelOrder, finalizeShipmentCancellation, ClosesAtOnce
<1>11. CASE requestCancellation(o)
  <2>1. CASE status[o] = "PENDING" /\ Close(o, "CANCELLED")
    BY <1>7, <2>1
  <2>2. CASE /\ status[o] \in {"PAID", "PROCESSING"}
             /\ applyTransition(o, "CANCELLING")
             /\ UNCHANGED <<attempted, overdue, goodsVars, voucherVars, refundPointVars,
                            deliveryVars>>
    <3>1. "CANCELLING" \in Statuses
      BY DEF Statuses
    <3>2. status' = [status EXCEPT ![o] = "CANCELLING"]
      BY <2>2, <3>1, TransitionStatus
    <3>3. UNCHANGED <<inventoryRestored, shipped, reserved>>
      BY <2>2 DEF goodsVars, deliveryVars
    <3> QED
      BY <2>2, <3>1, <3>2, <3>3, KeepEffect
  <2> QED
    BY <1>11, <2>1, <2>2 DEF requestCancellation
<1> QED
  BY <1>1, <1>2, <1>3, <1>4, <1>5, <1>6, <1>9, <1>10, <1>11
     DEF OrderStep, CustomerStep, GatewayStep, StaffStep, JobStep

-----------------------------------------------------------------------------
(* The inductive invariant: MarkersMatchStatus is needed because only the  *)
(* markers tell whether an order still holds copies, and because a late    *)
(* payment sets inventoryRestoredAt without moving any.                    *)

GoodsInv == TypeOK /\ MarkersMatchStatus /\ ReservedIsOpenOrders

(* The invariant holds of the shop before its first order.                 *)
LEMMA GoodsInit == Init => GoodsInv
<1> SUFFICES ASSUME Init
             PROVE  GoodsInv
  OBVIOUS
<1>1. TypeOK
  BY TypeInit
<1>2. Holding = {} /\ MarkersMatchStatus
  BY DEF Init, Holding, Live, MarkersMatchStatus, NoOrder
<1>3. \A b \in Books : reserved[b] = 0
  BY DEF Init
<1>4. ReservedIsOpenOrders
  BY <1>2, <1>3, TotalEmpty DEF ReservedIsOpenOrders
<1> QED
  BY <1>1, <1>2, <1>4 DEF GoodsInv

(* A movement of the warehouse touches no reserved copy.                   *)
LEMMA WarehouseKeepsReserved ==
    ASSUME TypeOK, NEW b \in Books, WarehouseStep(b)
    PROVE  /\ UNCHANGED <<status, inventoryRestored, shipped>>
           /\ \A c \in Books : reserved'[c] = reserved[c]
<1>1. UNCHANGED <<status, inventoryRestored, shipped>>
  BY DEF WarehouseStep, confirmReceipt, confirmIssue, completeCount, notAnOrder, orderVars,
         deliveryVars
<1>2. Line(b, 1) \in [Books -> Nat]
  BY DEF Line
<1>3. CASE confirmReceipt(b) \/ confirmIssue(b)
  <2>1. \E type \in MovementTypes \ {"SALE_OUT", "RESERVE_IN", "SHIP_OUT"} :
            applyMovement(type, Line(b, 1))
    BY <1>3 DEF confirmReceipt, confirmIssue, MovementTypes
  <2> QED
    BY <1>1, <1>2, <2>1, ReservedMoves DEF TypeOK, GoodsTypeOK
<1>4. CASE completeCount(b)
  BY <1>1, <1>4 DEF completeCount, setStockTo
<1> QED
  BY <1>3, <1>4 DEF WarehouseStep

(* The invariant is preserved by every step.                               *)
LEMMA GoodsNext == GoodsInv /\ [Next]_vars => GoodsInv'
<1> SUFFICES ASSUME GoodsInv, [Next]_vars
             PROVE  GoodsInv'
  OBVIOUS
<1>1. TypeOK /\ TypeOK' /\ MarkersMatchStatus /\ ReservedIsOpenOrders
  BY TypeStep DEF GoodsInv
<1>2. ASSUME NEW o \in Orders, OrderStep(o)
      PROVE  MarkersMatchStatus' /\ ReservedIsOpenOrders'
  <2>1. OnlyOrder(o) /\ MarkersOf(o)' /\ GoodsStep(o)
    BY <1>1, <1>2, OrderEffect DEF Effect
  <2>2. MarkersMatchStatus'
    BY <1>1, <2>1, MarkersLocal
  <2>3. ReservedIsOpenOrders'
    BY <1>1, <2>1, ReservedLocal
  <2> QED
    BY <2>2, <2>3
<1>3. ASSUME UNCHANGED <<status, inventoryRestored, shipped>>,
             \A c \in Books : reserved'[c] = reserved[c]
      PROVE  MarkersMatchStatus' /\ ReservedIsOpenOrders'
  <2>1. Holding' = Holding
    BY <1>3 DEF Holding, Live
  <2> QED
    BY <1>1, <1>3, <2>1 DEF MarkersMatchStatus, ReservedIsOpenOrders, Copies
<1>4. ASSUME NEW b \in Books, WarehouseStep(b)
      PROVE  MarkersMatchStatus' /\ ReservedIsOpenOrders'
  BY <1>1, <1>3, <1>4, WarehouseKeepsReserved
<1>5. ASSUME UNCHANGED vars
      PROVE  MarkersMatchStatus' /\ ReservedIsOpenOrders'
  BY <1>3, <1>5 DEF vars, orderVars, goodsVars, deliveryVars
<1>6. MarkersMatchStatus' /\ ReservedIsOpenOrders'
  BY <1>2, <1>4, <1>5 DEF Next
<1> QED
  BY <1>1, <1>6 DEF GoodsInv

(* An order that still holds copies can always give them back or ship them: *)
(* what one order holds is part of Book.reserved.                          *)
LEMMA HoldingFits ==
    ASSUME GoodsInv
    PROVE  ReleaseAlwaysFits
<1> SUFFICES ASSUME NEW o \in Holding, NEW b \in Books
             PROVE  reserved[b] >= Cart[o][b]
  BY DEF ReleaseAlwaysFits, MovementFits, StockSign, INBOUND_TYPES
<1> DEFINE f == Copies(b)
<1>1. Holding \in SUBSET Orders /\ IsFiniteSet(Orders)
  BY OrdersAssumption DEF Holding, Live
<1>2. IsFiniteSet(Holding)
  BY <1>1, FS_Subset, Zenon
<1>3. \A x \in Holding : f[x] = Cart[x][b] /\ f[x] \in Nat
  BY <1>1, CartType DEF Copies
<1>4. reserved[b] = Total(Holding, f) /\ reserved[b] \in Nat
  BY DEF GoodsInv, ReservedIsOpenOrders, TypeOK, GoodsTypeOK, StockTypeOK
<1> HIDE DEF f
<1>5. f[o] <= Total(Holding, f)
  BY <1>2, <1>3, TotalRemove
<1> QED
  BY <1>3, <1>4, <1>5

(* The markers of an order agree with its status in every reachable state. *)
THEOREM MarkersCorrect == Spec => []MarkersMatchStatus
<1>1. GoodsInv => MarkersMatchStatus
  BY DEF GoodsInv
<1> QED
  BY <1>1, GoodsInit, GoodsNext, PTL DEF Spec

(* Book.reserved is exactly what the open, undispatched orders hold: no    *)
(* interleaving of customers, staff, callbacks, jobs and warehouse gives   *)
(* copies back twice or forgets them.                                      *)
THEOREM ReservedCorrect == Spec => []ReservedIsOpenOrders
<1>1. GoodsInv => ReservedIsOpenOrders
  BY DEF GoodsInv
<1> QED
  BY <1>1, GoodsInit, GoodsNext, PTL DEF Spec

(* No cancellation, sweep, refund or dispatch is ever stuck on             *)
(* INSUFFICIENT_RESERVED.                                                  *)
THEOREM ReleaseCorrect == Spec => []ReleaseAlwaysFits
  BY HoldingFits, GoodsInit, GoodsNext, PTL DEF Spec

-----------------------------------------------------------------------------
(* The ledger.                                                             *)

(* Giving copies back keeps the ledger in line.                            *)
LEMMA RestoreLedger ==
    ASSUME GoodsTypeOK, LedgerExplainsStock, NEW o \in Orders, restoreItems(o)
    PROVE  LedgerExplainsStock'
<1>1. CASE o \in inventoryRestored
  BY <1>1 DEF restoreItems, goodsVars, LedgerExplainsStock
<1>2. CASE o \notin inventoryRestored
  <2>1. applyMovement("RESERVE_IN", Cart[o]) /\ "RESERVE_IN" \in MovementTypes
    BY <1>2 DEF restoreItems, MovementTypes
  <2> QED
    BY <2>1, CartType, MovementLedger DEF GoodsTypeOK
<1> QED
  BY <1>1, <1>2

(* Every step of an order keeps the ledger in line.                        *)
LEMMA OrderLedger ==
    ASSUME TypeOK, LedgerExplainsStock, NEW o \in Orders, OrderStep(o)
    PROVE  LedgerExplainsStock'
<1>1. GoodsTypeOK
  BY DEF TypeOK
<1>2. CASE createOrder(o) \/ adminMarkShipped(o)
  <2>1. "SALE_OUT" \in MovementTypes /\ "SHIP_OUT" \in MovementTypes
    BY DEF MovementTypes
  <2> QED
    BY <1>1, <1>2, <2>1, CartType, MovementLedger DEF createOrder, adminMarkShipped, GoodsTypeOK
<1>3. CASE restoreItems(o)
  BY <1>1, <1>3, RestoreLedger
<1>4. CASE UNCHANGED stockVars
  BY <1>4 DEF stockVars, LedgerExplainsStock
<1>5. CASE \/ TimePasses(o) \/ retryPayment(o) \/ adminApproveOrder(o) \/ adminMarkDelivered(o)
           \/ prepareRefundRequest(o) \/ reconcileVoucherReleases(o) \/ handlePaymentSuccess(o)
  BY <1>4, <1>5 DEF TimePasses, retryPayment, adminApproveOrder, adminMarkDelivered,
         prepareRefundRequest, reconcileVoucherReleases, handlePaymentSuccess, PaidInTime,
         PaidLate, goodsVars, stockVars
<1>6. CASE completeRefund(o) \/ completeLostInTransitRefund(o)
  BY <1>3, <1>4, <1>6 DEF completeRefund, completeLostInTransitRefund, SettleRefund,
         ReservationOfRefund, goodsVars, stockVars
<1>7. CASE \E next \in {"CANCELLED", "FAILED"} : Close(o, next)
  BY <1>3, <1>7 DEF Close, GiveBack
<1>8. CASE /\ status[o] \in {"PAID", "PROCESSING"}
           /\ UNCHANGED goodsVars
  BY <1>4, <1>8 DEF goodsVars, stockVars
<1>9. CASE \/ handlePaymentFailed(o) \/ requestCancellation(o) \/ cancelOrder(o)
           \/ adminCancelOrder(o) \/ expirePendingOrders(o) \/ finalizeShipmentCancellation(o)
  BY <1>5, <1>7, <1>8, <1>9 DEF handlePaymentFailed, requestCancellation, cancelOrder,
         adminCancelOrder, expirePendingOrders, finalizeShipmentCancellation
<1> QED
  BY <1>2, <1>5, <1>6, <1>9 DEF OrderStep, CustomerStep, GatewayStep, StaffStep, JobStep

(* Every document of the warehouse keeps the ledger in line.               *)
LEMMA WarehouseLedger ==
    ASSUME TypeOK, LedgerExplainsStock, NEW b \in Books, WarehouseStep(b)
    PROVE  LedgerExplainsStock'
<1>1. GoodsTypeOK
  BY DEF TypeOK
<1>2. Line(b, 1) \in [Books -> Nat]
  BY DEF Line
<1>3. CASE confirmReceipt(b) \/ confirmIssue(b)
  <2>1. \E type \in MovementTypes : applyMovement(type, Line(b, 1))
    BY <1>3 DEF confirmReceipt, confirmIssue, MovementTypes
  <2> QED
    BY <1>1, <1>2, <2>1, MovementLedger DEF GoodsTypeOK
<1>4. CASE completeCount(b)
  <2>1. PICK counted \in 0..Deliveries : setStockTo(b, counted, stock[b] + reserved[b])
    BY <1>4 DEF completeCount
  <2>2. counted \in Nat
    OBVIOUS
  <2> QED
    BY <1>1, <2>1, <2>2, CountLedger DEF GoodsTypeOK
<1> QED
  BY <1>3, <1>4 DEF WarehouseStep

(* reconcileStock never finds drift: the rows of the ledger explain both   *)
(* the sellable figure and the figure on the shelf of every book, after    *)
(* any sequence of movements.                                              *)
THEOREM LedgerCorrect == Spec => []LedgerExplainsStock
<1> DEFINE Inv == TypeOK /\ LedgerExplainsStock
<1>1. Init => Inv
  <2> SUFFICES ASSUME Init
               PROVE  LedgerExplainsStock
    BY TypeInit
  <2>1. \A b \in Books : OpeningStock[b] \in Nat /\ OpeningStock[b] = OpeningStock[b] + 0
    BY OpeningAssumption
  <2>2. \A b \in Books : /\ stock[b] = OpeningStock[b] /\ reserved[b] = 0
                         /\ ledger[b].sellable = OpeningStock[b]
                         /\ ledger[b].physical = OpeningStock[b]
    BY DEF Init
  <2> QED
    BY <2>1, <2>2 DEF LedgerExplainsStock
<1>2. Inv /\ [Next]_vars => Inv'
  <2> SUFFICES ASSUME Inv, [Next]_vars
               PROVE  Inv'
    OBVIOUS
  <2>1. TypeOK'
    BY TypeStep
  <2>2. CASE \E o \in Orders : OrderStep(o)
    BY <2>1, <2>2, OrderLedger
  <2>3. CASE \E b \in Books : WarehouseStep(b)
    BY <2>1, <2>3, WarehouseLedger
  <2>4. CASE UNCHANGED vars
    BY <2>1, <2>4 DEF vars, goodsVars, LedgerExplainsStock
  <2> QED
    BY <2>2, <2>3, <2>4 DEF Next
<1> QED
  BY <1>1, <1>2, PTL DEF Spec

-----------------------------------------------------------------------------
(* Where the money of an order is, by its status: an order paid online has *)
(* been paid from PAID on, a COD order is paid at the door, and it never   *)
(* comes near the refund workflow.                                         *)

OnlinePayment(s) ==
    CASE s \in {NoOrder, "PENDING", "CANCELLED"}                              -> "UNPAID"
      [] s \in {"PAID", "PROCESSING", "CANCELLING", "SHIPPED", "DELIVERED"} -> "PAID"
      [] s = "FAILED"    -> "FAILED"
      [] s = "REFUNDING" -> "REFUNDING"
      [] s = "REFUNDED"  -> "REFUNDED"

PaymentOf(o) ==
    /\ Method[o] # "COD" => payStatus[o] = OnlinePayment(status[o])
    /\ Method[o] = "COD" =>
        /\ status[o] \in {NoOrder, "PENDING", "PROCESSING", "CANCELLING", "SHIPPED", "DELIVERED",
                          "CANCELLED"}
        /\ payStatus[o] = IF status[o] = "DELIVERED" THEN "PAID" ELSE "UNPAID"

(* A COD order is cancelled from PROCESSING, so nothing was captured.      *)
CancelledFrom(o) ==
    status[o] = "CANCELLING" =>
        previousStatus[o] \in IF Method[o] = "COD" THEN {"PROCESSING"} ELSE {"PAID", "PROCESSING"}

ReleasedOf(o) ==
    status[o] \in DEAD_ORDER_STATUSES =>
        (Vouchers[o] # {} => o \in voucherReleased) /\ o \in pointsRefunded

AccountOf(o) ==
    /\ PaymentOf(o) /\ CancelledFrom(o) /\ ReleasedOf(o)
    /\ o \in attempted => Method[o] # "COD"
    /\ o \in delivered <=> status[o] = "DELIVERED"
    /\ o \in pointsEarned => o \in delivered
    /\ o \in voucherReleased \cup pointsRefunded => status[o] # NoOrder

Accounts == \A o \in Orders : AccountOf(o)

ContractInv == GoodsInv /\ Accounts

-----------------------------------------------------------------------------
(* The steps that an order can take, as edges of its state machine.  The   *)
(* code's guards leave fewer than TRANSITIONS allows.                      *)

Edge(o, next) ==
    \/ status[o] = NoOrder /\ next = "PENDING"
    \/ status[o] = "PENDING" /\ next = "PAID" /\ Method[o] # "COD"
    \/ status[o] = "PENDING" /\ next = "PROCESSING" /\ Method[o] = "COD"
    \/ status[o] = "PAID" /\ next = "PROCESSING" /\ Method[o] # "COD"
    \/ status[o] \in {"PAID", "PROCESSING"} /\ next = "CANCELLING"
    \/ status[o] = "PROCESSING" /\ next = "SHIPPED"
    \/ status[o] = "SHIPPED" /\ next = "DELIVERED"
    \/ status[o] = "SHIPPED" /\ next = "REFUNDED" /\ payStatus[o] = "PAID"
    \/ status[o] = "PENDING" /\ next = "CANCELLED"
    \/ status[o] = "PENDING" /\ next = "FAILED" /\ Method[o] # "COD"
    \/ status[o] \in {"PROCESSING", "CANCELLING"} /\ next = "CANCELLED" /\ Method[o] = "COD"
    \/ status[o] \in {"PAID", "PROCESSING", "CANCELLING"} /\ next = "REFUNDING" /\ Method[o] # "COD"
    \/ status[o] \in {"CANCELLED", "FAILED"} /\ next = "REFUNDING" /\ Method[o] # "COD"
    \/ status[o] = "REFUNDING" /\ next = "REFUNDED"

(* What the step along an edge does to the order, and to no other one.     *)
Moves(o, next) ==
    /\ Edge(o, next)
    /\ status' = [status EXCEPT ![o] = next]
    /\ payStatus' = [payStatus EXCEPT ![o] = PaymentAfter(o, next)]
    /\ previousStatus' = IF next = "CANCELLING" THEN [previousStatus EXCEPT ![o] = status[o]]
                         ELSE previousStatus
    /\ attempted' = attempted
    /\ inventoryRestored' = IF next \in {"CANCELLED", "FAILED"} \/ status[o] = "REFUNDING"
                            THEN inventoryRestored \cup {o} ELSE inventoryRestored
    /\ shipped' = IF next = "SHIPPED" THEN shipped \cup {o} ELSE shipped
    /\ delivered' = IF next = "DELIVERED" THEN delivered \cup {o} ELSE delivered
    /\ pointsEarned' = IF next = "DELIVERED" THEN pointsEarned \cup {o} ELSE pointsEarned

(* A step that leaves the order where it is.                               *)
Stays(o) ==
    /\ status[o] \in Statuses
    /\ UNCHANGED <<status, payStatus, previousStatus, inventoryRestored, shipped, delivered,
                   pointsEarned>>
    /\ attempted' = attempted \/ (attempted' = attempted \cup {o} /\ Method[o] # "COD")

(* What a step may do to the markers of vouchers and points.               *)
Releases(o) ==
    /\ voucherReleased' \in {voucherReleased, voucherReleased \cup {o}}
    /\ pointsRefunded' \in {pointsRefunded, pointsRefunded \cup {o}}

GivesUp(o) == (Vouchers[o] # {} => o \in voucherReleased') /\ o \in pointsRefunded'

ContractEffect(o) ==
    /\ Releases(o)
    /\ Stays(o) \/ \E next \in Statuses :
            Moves(o, next) /\ (next \in DEAD_ORDER_STATUSES => GivesUp(o))

(* Vouchers and points are given back once, and the markers say so.        *)
LEMMA ReleaseMarks ==
    ASSUME NEW o, releaseOrderVoucher(o), refundOrderPoints(o)
    PROVE  Releases(o) /\ GivesUp(o)
  BY DEF releaseOrderVoucher, refundOrderPoints, voucherVars, refundPointVars, Releases, GivesUp

(* A closed order moves along an edge.                                     *)
LEMMA CloseMoves ==
    ASSUME TypeOK, NEW o \in Orders, NEW next \in {"CANCELLED", "FAILED"}, Edge(o, next),
           Close(o, next)
    PROVE  ContractEffect(o)
<1>1. inventoryRestored' = inventoryRestored \cup {o}
  BY RestoreMarks DEF Close, GiveBack
<1>2. Releases(o) /\ GivesUp(o)
  BY ReleaseMarks DEF Close, GiveBack
<1>3. Moves(o, next)
  BY <1>1 DEF Moves, Close, applyTransition, deliveryVars
<1>4. next \in Statuses
  BY DEF Statuses
<1> QED
  BY <1>2, <1>3, <1>4 DEF ContractEffect

(* An order whose money is to be returned moves along an edge.             *)
LEMMA RefundRequestMoves ==
    ASSUME TypeOK, NEW o \in Orders, status[o] \in {"PAID", "PROCESSING", "CANCELLING"},
           Method[o] # "COD", prepareRefundRequest(o)
    PROVE  ContractEffect(o)
<1>1. Edge(o, "REFUNDING") /\ "REFUNDING" \in Statuses
  BY DEF Edge, Statuses
<1>2. Moves(o, "REFUNDING")
  BY <1>1 DEF Moves, prepareRefundRequest, applyTransition, deliveryVars, goodsVars
<1>3. Releases(o)
  BY DEF prepareRefundRequest, voucherVars, refundPointVars, Releases
<1> QED
  BY <1>1, <1>2, <1>3 DEF ContractEffect, DEAD_ORDER_STATUSES

(* The steps of the customer at checkout and of the clock.                 *)
LEMMA CheckoutMoves ==
    ASSUME TypeOK, NEW o \in Orders,
           createOrder(o) \/ TimePasses(o) \/ retryPayment(o) \/ reconcileVoucherReleases(o)
    PROVE  ContractEffect(o)
<1>1. CASE createOrder(o)
  <2>1. Edge(o, "PENDING") /\ "PENDING" \in Statuses
    BY <1>1 DEF createOrder, Edge, Statuses
  <2>2. payStatus' = [payStatus EXCEPT ![o] = PaymentAfter(o, "PENDING")]
    BY <1>1 DEF createOrder, PaymentAfter, TypeOK, OrderTypeOK
  <2>3. Moves(o, "PENDING")
    BY <1>1, <2>1, <2>2 DEF createOrder, Moves, deliveryVars, NoOrder
  <2>4. Releases(o)
    BY <1>1 DEF createOrder, Releases
  <2> QED
    BY <2>1, <2>3, <2>4 DEF ContractEffect, DEAD_ORDER_STATUSES
<1>2. CASE TimePasses(o) \/ retryPayment(o)
  <2>1. Stays(o) /\ Releases(o)
    BY <1>2 DEF TimePasses, retryPayment, Stays, Releases, goodsVars, voucherVars,
           refundPointVars, deliveryVars, Statuses
  <2> QED
    BY <2>1 DEF ContractEffect
<1>3. CASE reconcileVoucherReleases(o)
  <2>1. Stays(o)
    BY <1>3 DEF reconcileVoucherReleases, unreleasedOrderFilter, DEAD_ORDER_STATUSES, Statuses,
           Stays, orderVars, goodsVars, deliveryVars
  <2>2. Releases(o)
    BY <1>3, ReleaseMarks DEF reconcileVoucherReleases
  <2> QED
    BY <2>1, <2>2 DEF ContractEffect
<1> QED
  BY <1>1, <1>2, <1>3

(* The callbacks of the gateway: only an order with a payment attempt gets *)
(* one, and COD orders have none.                                          *)
LEMMA CallbackMoves ==
    ASSUME TypeOK, MarkersMatchStatus, NEW o \in Orders, AccountOf(o),
           handlePaymentSuccess(o) \/ handlePaymentFailed(o)
    PROVE  ContractEffect(o)
<1>1. Method[o] # "COD"
  BY DEF handlePaymentSuccess, handlePaymentFailed, AccountOf
<1>2. CASE handlePaymentFailed(o)
  <2>1. Edge(o, "FAILED")
    BY <1>1, <1>2 DEF handlePaymentFailed, Edge
  <2> QED
    BY <1>2, <2>1, CloseMoves DEF handlePaymentFailed
<1>3. CASE handlePaymentSuccess(o)
  <2>1. Releases(o)
    BY <1>3 DEF handlePaymentSuccess, voucherVars, refundPointVars, Releases
  <2>2. CASE PaidInTime(o)
    <3>1. Edge(o, "PAID") /\ "PAID" \in Statuses
      BY <1>1, <2>2 DEF PaidInTime, Edge, Statuses
    <3>2. Moves(o, "PAID")
      BY <1>3, <2>2, <3>1 DEF handlePaymentSuccess, PaidInTime, Moves, applyTransition,
             goodsVars, deliveryVars
    <3> QED
      BY <2>1, <3>1, <3>2 DEF ContractEffect, DEAD_ORDER_STATUSES
  <2>3. CASE PaidLate(o)
    <3>1. Edge(o, "REFUNDING") /\ "REFUNDING" \in Statuses
      BY <1>1, <2>3 DEF PaidLate, Edge, Statuses
    <3>2. inventoryRestored' = inventoryRestored
      BY <2>3 DEF PaidLate, MarkersMatchStatus
    <3>3. Moves(o, "REFUNDING")
      BY <1>3, <2>3, <3>1, <3>2 DEF handlePaymentSuccess, PaidLate, Moves, applyTransition,
             deliveryVars
    <3> QED
      BY <2>1, <3>1, <3>3 DEF ContractEffect, DEAD_ORDER_STATUSES
  <2> QED
    BY <1>3, <2>2, <2>3 DEF handlePaymentSuccess
<1> QED
  BY <1>2, <1>3

(* The steps of staff and the carrier.                                     *)
LEMMA StaffMoves ==
    ASSUME TypeOK, NEW o \in Orders,
           adminApproveOrder(o) \/ adminMarkShipped(o) \/ adminMarkDelivered(o)
    PROVE  ContractEffect(o)
<1>1. Releases(o)
  BY DEF adminApproveOrder, adminMarkShipped, adminMarkDelivered, voucherVars, refundPointVars,
         Releases
<1>2. CASE adminApproveOrder(o)
  <2>1. Edge(o, "PROCESSING") /\ "PROCESSING" \in Statuses
    BY <1>2 DEF adminApproveOrder, Approvable, Edge, Statuses
  <2>2. Moves(o, "PROCESSING")
    BY <1>2, <2>1 DEF adminApproveOrder, Approvable, applyTransition, Moves, goodsVars,
           deliveryVars
  <2> QED
    BY <1>1, <2>1, <2>2 DEF ContractEffect, DEAD_ORDER_STATUSES
<1>3. CASE adminMarkShipped(o)
  <2>1. status[o] = "PROCESSING" /\ "SHIPPED" \in Statuses
    BY <1>3 DEF adminMarkShipped, applyTransition, TRANSITIONS, Statuses
  <2>2. Moves(o, "SHIPPED")
    BY <1>3, <2>1 DEF adminMarkShipped, applyTransition, Moves, Edge
  <2> QED
    BY <1>1, <2>1, <2>2 DEF ContractEffect, DEAD_ORDER_STATUSES
<1>4. CASE adminMarkDelivered(o)
  <2>1. status[o] = "SHIPPED" /\ "DELIVERED" \in Statuses
    BY <1>4 DEF adminMarkDelivered, applyTransition, TRANSITIONS, Statuses
  <2>2. Moves(o, "DELIVERED")
    BY <1>4, <2>1 DEF adminMarkDelivered, earnForOrder, applyTransition, Moves, Edge, goodsVars
  <2> QED
    BY <1>1, <2>1, <2>2 DEF ContractEffect, DEAD_ORDER_STATUSES
<1> QED
  BY <1>2, <1>3, <1>4

(* A settled refund.                                                       *)
LEMMA SettleMoves ==
    ASSUME TypeOK, MarkersMatchStatus, NEW o \in Orders,
           completeRefund(o) \/ completeLostInTransitRefund(o)
    PROVE  ContractEffect(o)
<1>1. SettleRefund(o) /\ "REFUNDED" \in Statuses
  BY DEF completeRefund, completeLostInTransitRefund, Statuses
<1>2. Releases(o) /\ GivesUp(o)
  BY <1>1, ReleaseMarks DEF SettleRefund
<1>3. CASE completeRefund(o)
  <2>1. status[o] = "REFUNDING"
    BY <1>3 DEF completeRefund, applyTransition, TRANSITIONS, Statuses
  <2>2. o \notin shipped
    BY <2>1 DEF MarkersMatchStatus
  <2>3. inventoryRestored' = inventoryRestored \cup {o}
    BY <1>1, <2>2, RestoreMarks DEF SettleRefund, ReservationOfRefund
  <2>4. Moves(o, "REFUNDED")
    BY <1>1, <1>3, <2>1, <2>3 DEF completeRefund, SettleRefund, applyTransition, Moves, Edge,
           deliveryVars
  <2> QED
    BY <1>1, <1>2, <2>4 DEF ContractEffect
<1>4. CASE completeLostInTransitRefund(o)
  <2>1. o \in shipped /\ status[o] = "SHIPPED" /\ payStatus[o] = "PAID"
    BY <1>4 DEF completeLostInTransitRefund, MarkersMatchStatus
  <2>2. inventoryRestored' = inventoryRestored
    BY <1>1, <2>1 DEF SettleRefund, ReservationOfRefund, goodsVars
  <2>3. PaymentAfter(o, "REFUNDED") = "REFUNDED"
    BY DEF PaymentAfter
  <2>4. Moves(o, "REFUNDED")
    BY <1>1, <1>4, <2>1, <2>2, <2>3 DEF completeLostInTransitRefund, SettleRefund, Moves, Edge,
           deliveryVars
  <2> QED
    BY <1>1, <1>2, <2>4 DEF ContractEffect
<1> QED
  BY <1>3, <1>4

(* The cancellations, whoever asks for them.                               *)
LEMMA CancelMoves ==
    ASSUME TypeOK, NEW o \in Orders, AccountOf(o),
           \/ requestCancellation(o) \/ cancelOrder(o) \/ adminCancelOrder(o)
           \/ expirePendingOrders(o) \/ finalizeShipmentCancellation(o)
    PROVE  ContractEffect(o)
<1>1. ASSUME Close(o, "CANCELLED"),
             \/ status[o] = "PENDING"
             \/ status[o] \in {"PROCESSING", "CANCELLING"} /\ Method[o] = "COD"
      PROVE  ContractEffect(o)
  <2>1. Edge(o, "CANCELLED")
    BY <1>1 DEF Edge
  <2> QED
    BY <1>1, <2>1, CloseMoves
<1>2. ASSUME prepareRefundRequest(o), Method[o] # "COD",
             status[o] \in {"PAID", "PROCESSING", "CANCELLING"}
      PROVE  ContractEffect(o)
  BY <1>2, RefundRequestMoves
<1>3. CASE adminCancelOrder(o) \/ expirePendingOrders(o)
  BY <1>1, <1>3 DEF adminCancelOrder, expirePendingOrders, expiredPendingFilter, ClosesAtOnce
<1>4. CASE cancelOrder(o)
  <2>1. status[o] = "PAID" => Method[o] # "COD"
    BY DEF AccountOf, PaymentOf, NoOrder
  <2> QED
    BY <1>1, <1>2, <1>4, <2>1 DEF cancelOrder, ClosesAtOnce
<1>5. CASE finalizeShipmentCancellation(o)
  <2>1. /\ status[o] = "CANCELLING"
        /\ previousStatus[o] \in IF Method[o] = "COD" THEN {"PROCESSING"}
                                 ELSE {"PAID", "PROCESSING"}
    BY <1>5 DEF finalizeShipmentCancellation, AccountOf, CancelledFrom
  <2>2. CASE ClosesAtOnce(o, previousStatus[o]) /\ Close(o, "CANCELLED")
    BY <1>1, <2>1, <2>2 DEF ClosesAtOnce
  <2>3. CASE ~ClosesAtOnce(o, previousStatus[o]) /\ prepareRefundRequest(o)
    BY <1>2, <2>1, <2>3 DEF ClosesAtOnce
  <2> QED
    BY <1>5, <2>2, <2>3 DEF finalizeShipmentCancellation
<1>6. CASE requestCancellation(o)
  <2>1. CASE status[o] = "PENDING" /\ Close(o, "CANCELLED")
    BY <1>1, <2>1
  <2>2. CASE /\ status[o] \in {"PAID", "PROCESSING"}
             /\ applyTransition(o, "CANCELLING")
             /\ previousStatus' = [previousStatus EXCEPT ![o] = status[o]]
             /\ UNCHANGED <<attempted, overdue, goodsVars, voucherVars, refundPointVars,
                            deliveryVars>>
    <3>1. Edge(o, "CANCELLING") /\ "CANCELLING" \in Statuses
      BY <2>2 DEF Edge, Statuses
    <3>2. Moves(o, "CANCELLING")
      BY <2>2, <3>1 DEF Moves, applyTransition, goodsVars, deliveryVars
    <3>3. Releases(o)
      BY <2>2 DEF Releases, voucherVars, refundPointVars
    <3> QED
      BY <3>1, <3>2, <3>3 DEF ContractEffect, DEAD_ORDER_STATUSES
  <2> QED
    BY <1>6, <2>1, <2>2 DEF requestCancellation
<1> QED
  BY <1>3, <1>4, <1>5, <1>6

(* Every step of an order stays or moves along an edge.                    *)
LEMMA OrderMoves ==
    ASSUME TypeOK, MarkersMatchStatus, NEW o \in Orders, AccountOf(o), OrderStep(o)
    PROVE  ContractEffect(o)
  BY CheckoutMoves, CallbackMoves, StaffMoves, SettleMoves, CancelMoves
     DEF OrderStep, CustomerStep, GatewayStep, StaffStep, JobStep

-----------------------------------------------------------------------------
(* The invariant.                                                          *)

(* An order that a step does not touch keeps its account.                  *)
LEMMA AccountKept ==
    ASSUME TypeOK, TypeOK', NEW o \in Orders, ContractEffect(o),
           NEW x \in Orders, x # o, AccountOf(x)
    PROVE  AccountOf(x)'
<1>1. /\ status'[x] = status[x] /\ payStatus'[x] = payStatus[x]
      /\ previousStatus'[x] = previousStatus[x]
      /\ x \in attempted' <=> x \in attempted
      /\ x \in delivered' <=> x \in delivered
      /\ x \in pointsEarned' <=> x \in pointsEarned
  BY DEF ContractEffect, Stays, Moves, TypeOK, OrderTypeOK
<1>2. /\ x \in voucherReleased' <=> x \in voucherReleased
      /\ x \in pointsRefunded' <=> x \in pointsRefunded
  BY DEF ContractEffect, Releases
<1> QED
  BY <1>1, <1>2 DEF AccountOf, PaymentOf, CancelledFrom, ReleasedOf

(* A step that leaves its order where it is keeps the account.             *)
LEMMA AccountStays ==
    ASSUME NEW o \in Orders, Stays(o), Releases(o), AccountOf(o)
    PROVE  AccountOf(o)'
<1>1. /\ status'[o] = status[o] /\ payStatus'[o] = payStatus[o]
      /\ previousStatus'[o] = previousStatus[o]
      /\ o \in attempted' => o \in attempted \/ Method[o] # "COD"
      /\ o \in delivered' <=> o \in delivered
      /\ o \in pointsEarned' <=> o \in pointsEarned
      /\ status[o] # NoOrder
  BY DEF Stays, Statuses, NoOrder
<1>2. /\ o \in voucherReleased => o \in voucherReleased'
      /\ o \in pointsRefunded => o \in pointsRefunded'
  BY DEF Releases
<1> QED
  BY <1>1, <1>2 DEF AccountOf, PaymentOf, CancelledFrom, ReleasedOf

(* Every edge leads to a status whose account is in order.                 *)
LEMMA AccountMoves ==
    ASSUME TypeOK, NEW o \in Orders, NEW next \in Statuses, Moves(o, next), Releases(o),
           next \in DEAD_ORDER_STATUSES => GivesUp(o), AccountOf(o)
    PROVE  AccountOf(o)'
<1>1. status'[o] = next /\ payStatus'[o] = PaymentAfter(o, next) /\ Edge(o, next)
  BY DEF Moves, TypeOK, OrderTypeOK
<1>2. previousStatus'[o] = IF next = "CANCELLING" THEN status[o] ELSE previousStatus[o]
  BY DEF Moves, TypeOK, OrderTypeOK
<1>3. PaymentOf(o)'
  <2>1. CASE Method[o] = "COD"
    BY <1>1, <2>1 DEF AccountOf, PaymentOf, PaymentAfter, Edge, NoOrder
  <2>2. CASE Method[o] # "COD"
    BY <1>1, <2>2 DEF AccountOf, PaymentOf, PaymentAfter, Edge, OnlinePayment, NoOrder
  <2> QED
    BY <2>1, <2>2
<1>4. CancelledFrom(o)'
  BY <1>1, <1>2 DEF AccountOf, PaymentOf, CancelledFrom, Edge, NoOrder
<1>5. ReleasedOf(o)'
  BY <1>1 DEF ReleasedOf, GivesUp
<1>6. (o \in attempted => Method[o] # "COD")'
  BY DEF Moves, AccountOf
<1>7. (o \in delivered <=> status[o] = "DELIVERED")'
  BY <1>1 DEF Moves, AccountOf, Edge, NoOrder
<1>8. (o \in pointsEarned => o \in delivered)'
  BY DEF Moves, AccountOf
<1>9. status'[o] # NoOrder
  BY <1>1 DEF Statuses, NoOrder
<1> QED
  BY <1>3, <1>4, <1>5, <1>6, <1>7, <1>8, <1>9 DEF AccountOf

(* The invariant holds of the shop before its first order.                 *)
LEMMA ContractInit == Init => ContractInv
<1> SUFFICES ASSUME Init
             PROVE  Accounts
  BY GoodsInit DEF ContractInv
<1> SUFFICES ASSUME NEW o \in Orders
             PROVE  AccountOf(o)
  BY DEF Accounts
<1>1. /\ status[o] = NoOrder /\ payStatus[o] = "UNPAID" /\ attempted = {} /\ delivered = {}
      /\ pointsEarned = {} /\ voucherReleased = {} /\ pointsRefunded = {}
  BY DEF Init
<1> QED
  BY <1>1 DEF AccountOf, PaymentOf, OnlinePayment, CancelledFrom, ReleasedOf,
         DEAD_ORDER_STATUSES, NoOrder

(* The invariant is preserved by every step.                               *)
LEMMA ContractNext == ContractInv /\ [Next]_vars => ContractInv'
<1> SUFFICES ASSUME ContractInv, [Next]_vars
             PROVE  ContractInv'
  OBVIOUS
<1>1. GoodsInv' /\ TypeOK /\ TypeOK' /\ MarkersMatchStatus /\ Accounts
  BY GoodsNext DEF ContractInv, GoodsInv
<1>2. ASSUME NEW o \in Orders, OrderStep(o)
      PROVE  Accounts'
  <2>1. AccountOf(o) /\ ContractEffect(o)
    BY <1>1, <1>2, OrderMoves DEF Accounts
  <2>2. AccountOf(o)'
    BY <1>1, <2>1, AccountStays, AccountMoves DEF ContractEffect
  <2>3. \A x \in Orders : x # o => AccountOf(x)'
    BY <1>1, <2>1, AccountKept DEF Accounts
  <2> QED
    BY <2>2, <2>3 DEF Accounts
<1>3. ASSUME UNCHANGED <<status, payStatus, previousStatus, attempted, delivered,
                         voucherReleased, pointsRefunded, pointsEarned>>
      PROVE  Accounts'
  BY <1>1, <1>3 DEF Accounts, AccountOf, PaymentOf, CancelledFrom, ReleasedOf
<1>4. ASSUME NEW b \in Books, WarehouseStep(b)
      PROVE  Accounts'
  BY <1>3, <1>4 DEF WarehouseStep, confirmReceipt, confirmIssue, completeCount, notAnOrder,
         orderVars, voucherVars, refundPointVars, deliveryVars
<1>5. ASSUME UNCHANGED vars
      PROVE  Accounts'
  BY <1>3, <1>5 DEF vars, orderVars, voucherVars, refundPointVars, deliveryVars
<1> QED
  BY <1>1, <1>2, <1>4, <1>5 DEF Next, ContractInv

(* Captured money is answered for in every reachable state: an order whose *)
(* payment stands is on its way to the customer or being cancelled.        *)
THEOREM CapturedCorrect == Spec => []CapturedMoneyIsAnswered
<1>1. ContractInv => CapturedMoneyIsAnswered
  <2> SUFFICES ASSUME ContractInv, NEW o \in Live
               PROVE  /\ payStatus[o] = "PAID" =>
                            status[o] \in {"PAID", "PROCESSING", "CANCELLING", "SHIPPED",
                                            "DELIVERED"}
                      /\ status[o] \in {"PAID", "SHIPPED", "DELIVERED"} /\ Method[o] # "COD" =>
                            payStatus[o] = "PAID"
                      /\ payStatus[o] = "REFUNDING" <=> status[o] = "REFUNDING"
    BY DEF CapturedMoneyIsAnswered
  <2>1. status[o] \in Statuses /\ PaymentOf(o)
    BY DEF ContractInv, GoodsInv, TypeOK, OrderTypeOK, Accounts, AccountOf, Live
  <2>2. CASE Method[o] = "COD"
    BY <2>1, <2>2 DEF PaymentOf, NoOrder
  <2>3. CASE Method[o] # "COD"
    BY <2>1, <2>3 DEF PaymentOf, OnlinePayment, Statuses, NoOrder
  <2> QED
    BY <2>2, <2>3
<1> QED
  BY <1>1, ContractInit, ContractNext, PTL DEF Spec

(* An order that ended without delivery has given back its vouchers, its   *)
(* points and the copies that were still on the shelf.                     *)
THEOREM ReleasedCorrect == Spec => []DeadOrdersReleased
<1>1. ContractInv => DeadOrdersReleased
  BY DEF ContractInv, GoodsInv, MarkersMatchStatus, Accounts, AccountOf, ReleasedOf,
         DeadOrdersReleased, DEAD_ORDER_STATUSES
<1> QED
  BY <1>1, ContractInit, ContractNext, PTL DEF Spec

-----------------------------------------------------------------------------
(* The contract.                                                           *)

GoodsOf(o) == IF status[o] = NoOrder THEN "none"
              ELSE IF o \in delivered THEN "handed"
              ELSE IF o \in shipped THEN "gone"
              ELSE IF o \in inventoryRestored THEN "returned" ELSE "held"

MoneyOf(o) == IF payStatus[o] \in {"UNPAID", "FAILED"} THEN "none"
              ELSE IF payStatus[o] = "PAID" THEN "taken"
              ELSE IF payStatus[o] = "REFUNDING" THEN "owed" ELSE "repaid"

(* The refinement mapping, order by order.                                 *)
LEMMA Seen ==
    ASSUME ContractInv
    PROVE  goods = [o \in Orders |-> GoodsOf(o)] /\ money = [o \in Orders |-> MoneyOf(o)]
<1>1. ASSUME NEW o \in Orders
      PROVE  goods[o] = GoodsOf(o) /\ money[o] = MoneyOf(o)
  <2>1. /\ o \in delivered <=> status[o] = "DELIVERED"
        /\ o \in delivered => o \in shipped
        /\ o \in shipped \cup inventoryRestored => status[o] # NoOrder
        /\ o \in Live <=> status[o] # NoOrder
    BY DEF ContractInv, GoodsInv, MarkersMatchStatus, Accounts, AccountOf, Live, NoOrder
  <2>2. goods[o] = GoodsOf(o)
    BY <2>1 DEF goods, GoodsOf, NoOrder
  <2>3. payStatus[o] \in {"UNPAID", "PAID", "FAILED", "REFUNDING", "REFUNDED"}
    BY DEF ContractInv, GoodsInv, TypeOK, OrderTypeOK, PaymentStatuses
  <2>4. money[o] = MoneyOf(o)
    BY <2>3 DEF money, MoneyOf
  <2> QED
    BY <2>2, <2>4
<1> QED
  BY <1>1 DEF goods, money

(* What the contract allows an order to do.                                *)
ContractMove(o) ==
    \/ /\ GoodsOf(o)' = GoodsOf(o)
       /\ \/ MoneyOf(o)' = MoneyOf(o)
          \/ /\ Method[o] # "COD" /\ GoodsOf(o) = "held"
             /\ MoneyOf(o) = "none" /\ MoneyOf(o)' = "taken"
          \/ /\ Method[o] # "COD" /\ GoodsOf(o) = "returned"
             /\ MoneyOf(o) = "none" /\ MoneyOf(o)' = "owed"
          \/ GoodsOf(o) = "held" /\ MoneyOf(o) = "taken" /\ MoneyOf(o)' = "owed"
          \/ GoodsOf(o) = "gone" /\ MoneyOf(o) = "taken" /\ MoneyOf(o)' = "repaid"
    \/ /\ MoneyOf(o)' = MoneyOf(o)
       /\ \/ GoodsOf(o) = "none" /\ GoodsOf(o)' = "held"
          \/ /\ GoodsOf(o) = "held" /\ GoodsOf(o)' = "gone"
             /\ MoneyOf(o) = IF Method[o] # "COD" THEN "taken" ELSE "none"
          \/ GoodsOf(o) = "held" /\ GoodsOf(o)' = "returned" /\ MoneyOf(o) = "none"
    \/ GoodsOf(o) = "gone" /\ GoodsOf(o)' = "handed" /\ MoneyOf(o)' = "taken"
    \/ /\ GoodsOf(o) \in {"held", "returned"} /\ GoodsOf(o)' = "returned"
       /\ MoneyOf(o) = "owed" /\ MoneyOf(o)' = "repaid"

(* Every edge of the state machine is a move that the contract allows.     *)
LEMMA EdgeAllowed ==
    ASSUME ContractInv, ContractInv', NEW o \in Orders, NEW next \in Statuses, Moves(o, next)
    PROVE  ContractMove(o)
<1>1. /\ status'[o] = next /\ payStatus'[o] = PaymentAfter(o, next) /\ Edge(o, next)
      /\ status[o] \in Statuses \cup {NoOrder}
  BY DEF Moves, ContractInv, GoodsInv, TypeOK, OrderTypeOK
<1>2. /\ MarkersOf(o) /\ MarkersOf(o)' /\ AccountOf(o) /\ AccountOf(o)'
  BY DEF ContractInv, GoodsInv, Accounts, MarkersOf, MarkersMatchStatus
<1>3. /\ o \in shipped' <=> o \in shipped \/ next = "SHIPPED"
      /\ o \in delivered' <=> o \in delivered \/ next = "DELIVERED"
      /\ o \in inventoryRestored' <=> \/ o \in inventoryRestored
                                      \/ next \in {"CANCELLED", "FAILED"}
                                      \/ status[o] = "REFUNDING"
  BY DEF Moves
<1>4. /\ PaymentOf(o) /\ PaymentOf(o)'
      /\ o \in delivered <=> status[o] = "DELIVERED"
      /\ o \in delivered' <=> next = "DELIVERED"
  BY <1>1, <1>2 DEF AccountOf
<1>5. GoodsOf(o) = CASE status[o] = NoOrder -> "none"
                     [] status[o] \in {"PENDING", "PAID", "PROCESSING", "CANCELLING"} -> "held"
                     [] status[o] = "SHIPPED" -> "gone"
                     [] status[o] = "DELIVERED" -> "handed"
                     [] status[o] \in {"CANCELLED", "FAILED"} -> "returned"
                     [] status[o] = "REFUNDING" ->
                            IF o \in inventoryRestored THEN "returned" ELSE "held"
                     [] status[o] = "REFUNDED" -> IF o \in shipped THEN "gone" ELSE "returned"
  BY <1>1, <1>2, <1>4 DEF GoodsOf, MarkersOf, Statuses, NoOrder
<1>6. GoodsOf(o)' = CASE next = "PENDING" -> "held"
                      [] next \in {"PAID", "PROCESSING", "CANCELLING"} -> "held"
                      [] next = "SHIPPED" -> "gone"
                      [] next = "DELIVERED" -> "handed"
                      [] next \in {"CANCELLED", "FAILED"} -> "returned"
                      [] next = "REFUNDING" ->
                            IF o \in inventoryRestored' THEN "returned" ELSE "held"
                      [] next = "REFUNDED" -> IF o \in shipped' THEN "gone" ELSE "returned"
  BY <1>1, <1>2, <1>3, <1>4 DEF GoodsOf, MarkersOf, Statuses, NoOrder
<1> QED
  BY <1>1, <1>2, <1>3, <1>4, <1>5, <1>6
     DEF ContractMove, MoneyOf, MarkersOf, PaymentOf, OnlinePayment, PaymentAfter, Edge, NoOrder

(* An order that a step does not touch looks the same.                     *)
LEMMA SeenKept ==
    ASSUME TypeOK, NEW o \in Orders, NEW x \in Orders, x # o, ContractEffect(o)
    PROVE  GoodsOf(x)' = GoodsOf(x) /\ MoneyOf(x)' = MoneyOf(x)
<1>1. /\ status'[x] = status[x] /\ payStatus'[x] = payStatus[x]
      /\ x \in inventoryRestored' <=> x \in inventoryRestored
      /\ x \in shipped' <=> x \in shipped
      /\ x \in delivered' <=> x \in delivered
  BY DEF ContractEffect, Stays, Moves, TypeOK, OrderTypeOK
<1> QED
  BY <1>1 DEF GoodsOf, MoneyOf

(* A move that the contract allows is one of its actions or changes        *)
(* nothing that customer and shop see.                                     *)
LEMMA MoveIsContract ==
    ASSUME NEW o \in Orders, ContractMove(o), GoodsOf(o) = goods[o], MoneyOf(o) = money[o],
           goods \in [Orders -> {"none", "held", "returned", "gone", "handed"}],
           money \in [Orders -> {"none", "taken", "owed", "repaid"}],
           goods' = [goods EXCEPT ![o] = GoodsOf(o)'],
           money' = [money EXCEPT ![o] = MoneyOf(o)']
    PROVE  [Contract!Next]_<<goods, money>>
<1> DEFINE g == GoodsOf(o)'
           m == MoneyOf(o)'
<1>1. /\ goods' = [goods EXCEPT ![o] = g] /\ money' = [money EXCEPT ![o] = m]
  OBVIOUS
<1>2. /\ g = goods[o] => goods' = goods
      /\ m = money[o] => money' = money
  OBVIOUS
<1>3. \/ g = goods[o] /\ m = money[o]
      \/ Method[o] # "COD" /\ goods[o] = "held" /\ money[o] = "none" /\ g = goods[o] /\ m = "taken"
      \/ Method[o] # "COD" /\ goods[o] = "returned" /\ money[o] = "none" /\ g = goods[o] /\ m = "owed"
      \/ goods[o] = "held" /\ money[o] = "taken" /\ g = goods[o] /\ m = "owed"
      \/ goods[o] = "gone" /\ money[o] = "taken" /\ g = goods[o] /\ m = "repaid"
      \/ goods[o] = "none" /\ g = "held" /\ m = money[o]
      \/ /\ goods[o] = "held" /\ g = "gone" /\ m = money[o]
         /\ money[o] = IF Method[o] # "COD" THEN "taken" ELSE "none"
      \/ goods[o] = "held" /\ g = "returned" /\ m = money[o] /\ money[o] = "none"
      \/ goods[o] = "gone" /\ g = "handed" /\ m = "taken"
      \/ goods[o] \in {"held", "returned"} /\ g = "returned" /\ money[o] = "owed" /\ m = "repaid"
  BY DEF ContractMove
<1> HIDE DEF g, m
<1>4. (goods' = goods /\ money' = money) \/ Contract!Next
  <2>1. \/ goods' = goods /\ money' = money
        \/ Contract!Pay(o) \/ Contract!PayLate(o) \/ Contract!Owe(o) \/ Contract!RepayLost(o)
        \/ Contract!Place(o) \/ Contract!Dispatch(o) \/ Contract!Release(o)
        \/ Contract!HandOver(o) \/ Contract!Repay(o)
    BY <1>1, <1>2, <1>3 DEF Contract!Pay, Contract!PayLate, Contract!Owe, Contract!RepayLost,
       Contract!Place, Contract!Dispatch, Contract!Release, Contract!HandOver, Contract!Repay
  <2> QED
    BY <2>1 DEF Contract!Next
<1> QED
  BY <1>4

(* Every step of the shop is a step of the contract or a stutter.          *)
LEMMA StepIsContract ==
    ASSUME ContractInv, ContractInv', [Next]_vars
    PROVE  [Contract!Next]_<<goods, money>>
<1>1. goods = [o \in Orders |-> GoodsOf(o)] /\ money = [o \in Orders |-> MoneyOf(o)]
  BY Seen
<1>2. (goods = [o \in Orders |-> GoodsOf(o)] /\ money = [o \in Orders |-> MoneyOf(o)])'
  BY Seen, PTL
<1>3. ASSUME NEW o \in Orders, OrderStep(o)
      PROVE  [Contract!Next]_<<goods, money>>
  <2>1. TypeOK /\ MarkersMatchStatus /\ AccountOf(o)
    BY DEF ContractInv, GoodsInv, Accounts
  <2>2. ContractEffect(o)
    BY <1>3, <2>1, OrderMoves
  <2>3. ContractMove(o)
    <3>1. CASE Stays(o)
      BY <3>1 DEF Stays, ContractMove, GoodsOf, MoneyOf
    <3> QED
      BY <2>2, <3>1, EdgeAllowed DEF ContractEffect
  <2>4. \A x \in Orders : x # o => GoodsOf(x)' = GoodsOf(x) /\ MoneyOf(x)' = MoneyOf(x)
    BY <2>1, <2>2, SeenKept
  <2>5. /\ goods' = [goods EXCEPT ![o] = GoodsOf(o)']
        /\ money' = [money EXCEPT ![o] = MoneyOf(o)']
    BY <1>1, <1>2, <2>4
  <2>6. /\ goods \in [Orders -> {"none", "held", "returned", "gone", "handed"}]
        /\ money \in [Orders -> {"none", "taken", "owed", "repaid"}]
        /\ GoodsOf(o) = goods[o] /\ MoneyOf(o) = money[o]
    BY <1>1 DEF GoodsOf, MoneyOf
  <2> QED
    BY <2>3, <2>5, <2>6, MoveIsContract
<1>4. ASSUME UNCHANGED <<status, payStatus, inventoryRestored, shipped, delivered>>
      PROVE  [Contract!Next]_<<goods, money>>
  <2>1. goods' = goods /\ money' = money
    BY <1>4 DEF goods, money, Live
  <2> QED
    BY <2>1
<1>5. ASSUME NEW b \in Books, WarehouseStep(b)
      PROVE  [Contract!Next]_<<goods, money>>
  BY <1>4, <1>5 DEF WarehouseStep, confirmReceipt, confirmIssue, completeCount, notAnOrder,
         orderVars, deliveryVars
<1>6. ASSUME UNCHANGED vars
      PROVE  [Contract!Next]_<<goods, money>>
  BY <1>4, <1>6 DEF vars, orderVars, goodsVars, deliveryVars
<1> QED
  BY <1>3, <1>5, <1>6 DEF Next

(* Every history of the shop keeps the contract of Fulfilment: a prepaid   *)
(* parcel leaves only against money, money that arrives for an order       *)
(* already closed is owed and paid back, and copies come back to the shelf *)
(* once.                                                                   *)
THEOREM ContractKept == Spec => ImplementsFulfilment
<1>1. Init => Contract!Init
  <2> SUFFICES ASSUME Init
               PROVE  Contract!Init
    OBVIOUS
  <2>1. goods = [o \in Orders |-> GoodsOf(o)] /\ money = [o \in Orders |-> MoneyOf(o)]
    BY Seen, ContractInit
  <2>2. \A o \in Orders : GoodsOf(o) = "none" /\ MoneyOf(o) = "none"
    BY DEF Init, GoodsOf, MoneyOf
  <2> QED
    BY <2>1, <2>2 DEF Contract!Init
<1>2. ContractInv /\ ContractInv' /\ [Next]_vars => [Contract!Next]_<<goods, money>>
  BY StepIsContract
<1> QED
  BY <1>1, <1>2, ContractInit, ContractNext, PTL
     DEF Spec, ImplementsFulfilment, Contract!Spec

-----------------------------------------------------------------------------
(* The limit of waiting COD orders.                                        *)

(* Every other step finds a document.                                      *)
LEMMA OnlyCheckoutCreates ==
    ASSUME NEW o \in Orders, OrderStep(o), status[o] = NoOrder
    PROVE  createOrder(o)
  BY DEF OrderStep, CustomerStep, GatewayStep, StaffStep, JobStep, retryPayment,
     requestCancellation, cancelOrder, handlePaymentSuccess, handlePaymentFailed,
     PaidInTime, PaidLate, completeRefund, Close, prepareRefundRequest, applyTransition,
     adminApproveOrder, adminCancelOrder, adminMarkShipped, adminMarkDelivered,
     completeLostInTransitRefund, TimePasses, expirePendingOrders, expiredPendingFilter,
     finalizeShipmentCancellation, reconcileVoucherReleases, unreleasedOrderFilter,
     DEAD_ORDER_STATUSES, Statuses, NoOrder

(* Only checkout adds to the COD orders of a customer that wait: an        *)
(* attempt renews the time of an order paid online, never that of another. *)
LEMMA PendingShrinks ==
    ASSUME TypeOK, NEW o \in Orders, AccountOf(o), ContractEffect(o), OrderStep(o),
           NEW u \in Users
    PROVE  \/ ActivePending(u, "COD")' \subseteq ActivePending(u, "COD")
           \/ /\ createOrder(o) /\ Customer[o] = u /\ Method[o] = "COD"
              /\ ActivePending(u, "COD")' \subseteq ActivePending(u, "COD") \cup {o}
<1>1. /\ overdue \ {o} = overdue' \ {o}
      /\ \/ o \in overdue' \/ overdue' = overdue \/ status'[o] # "PENDING"
         \/ Method[o] # "COD"
  <2>1. CASE TimePasses(o) \/ retryPayment(o) \/ reconcileVoucherReleases(o) \/ createOrder(o)
    BY <2>1 DEF TimePasses, retryPayment, reconcileVoucherReleases, createOrder, orderVars
  <2>2. ASSUME NEW next \in Statuses \ {"PENDING"}, applyTransition(o, next),
               overdue' \in {overdue, overdue \ {o}}
        PROVE  /\ overdue \ {o} = overdue' \ {o}
               /\ status'[o] # "PENDING"
    BY <2>2 DEF applyTransition, TypeOK, OrderTypeOK
  <2>3. /\ {"CANCELLED", "FAILED", "PAID", "PROCESSING", "REFUNDING", "REFUNDED", "SHIPPED",
            "DELIVERED", "CANCELLING"} \subseteq Statuses \ {"PENDING"}
    BY DEF Statuses
  <2>4. CASE handlePaymentSuccess(o) \/ adminApproveOrder(o) \/ adminMarkShipped(o)
             \/ adminMarkDelivered(o) \/ completeRefund(o)
    BY <2>2, <2>3, <2>4 DEF handlePaymentSuccess, PaidInTime, PaidLate, adminApproveOrder,
       adminMarkShipped, adminMarkDelivered, completeRefund, SettleRefund
  <2>5. CASE completeLostInTransitRefund(o)
    BY <2>5 DEF completeLostInTransitRefund, SettleRefund
  <2>6. ASSUME NEW next \in {"CANCELLED", "FAILED"}, Close(o, next)
        PROVE  /\ overdue \ {o} = overdue' \ {o}
               /\ status'[o] # "PENDING"
    BY <2>2, <2>3, <2>6 DEF Close
  <2>7. ASSUME prepareRefundRequest(o)
        PROVE  /\ overdue \ {o} = overdue' \ {o}
               /\ status'[o] # "PENDING"
    BY <2>2, <2>3, <2>7 DEF prepareRefundRequest
  <2>8. CASE handlePaymentFailed(o) \/ expirePendingOrders(o) \/ adminCancelOrder(o)
             \/ cancelOrder(o) \/ finalizeShipmentCancellation(o) \/ requestCancellation(o)
    BY <2>2, <2>3, <2>6, <2>7, <2>8 DEF handlePaymentFailed, expirePendingOrders,
       adminCancelOrder, cancelOrder, finalizeShipmentCancellation, requestCancellation
  <2> QED
    BY <2>1, <2>4, <2>5, <2>8 DEF OrderStep, CustomerStep, GatewayStep, StaffStep, JobStep
<1>2. \A x \in Orders : x # o => status'[x] = status[x] /\ payStatus'[x] = payStatus[x]
  BY DEF ContractEffect, Stays, Moves, TypeOK, OrderTypeOK
<1>3. \A x \in Orders : x # o =>
        (x \in ActivePending(u, "COD")' <=> x \in ActivePending(u, "COD"))
  BY <1>1, <1>2 DEF ActivePending, Live
<1>4. CASE Stays(o)
  <2>1. o \in ActivePending(u, "COD")' => o \in ActivePending(u, "COD")
    BY <1>1, <1>4 DEF ActivePending, Live, Stays
  <2> QED
    BY <1>3, <2>1 DEF ActivePending, Live
<1>5. CASE \E next \in Statuses : Moves(o, next)
  <2>1. PICK next \in Statuses : Moves(o, next)
    BY <1>5
  <2>2. CASE next # "PENDING"
    <3>1. status'[o] # "PENDING"
      BY <2>1, <2>2 DEF Moves, TypeOK, OrderTypeOK
    <3>2. o \notin ActivePending(u, "COD")'
      BY <3>1 DEF ActivePending
    <3> QED
      BY <1>3, <3>2 DEF ActivePending, Live
  <2>3. CASE next = "PENDING"
    <3>1. status[o] = NoOrder
      BY <2>1, <2>3 DEF Moves, Edge
    <3>2. createOrder(o)
      BY <3>1, OnlyCheckoutCreates
    <3>3. CASE Customer[o] = u /\ Method[o] = "COD"
      BY <1>3, <3>2, <3>3 DEF ActivePending, Live
    <3>4. CASE ~(Customer[o] = u /\ Method[o] = "COD")
      <4>1. o \notin ActivePending(u, "COD")'
        BY <3>4 DEF ActivePending
      <4> QED
        BY <1>3, <4>1 DEF ActivePending, Live
    <3> QED
      BY <3>3, <3>4
  <2> QED
    BY <2>2, <2>3
<1> QED
  BY <1>4, <1>5 DEF ContractEffect

(* The waiting COD orders of a customer are finitely many.                 *)
LEMMA PendingFinite ==
    ASSUME NEW u
    PROVE  IsFiniteSet(ActivePending(u, "COD"))
<1>1. ActivePending(u, "COD") \in SUBSET Orders
  BY DEF ActivePending, Live
<1> QED
  BY <1>1, OrdersAssumption, FS_Subset, Zenon

(* A customer never has more unexpired COD orders waiting than the limit,  *)
(* although orders leave and enter the count by staff, sweep and clock.    *)
THEOREM PendingCorrect == Spec => []PendingCodWithinLimit
<1> DEFINE Inv == ContractInv /\ PendingCodWithinLimit
<1>1. Init => Inv
  <2> SUFFICES ASSUME Init
               PROVE  PendingCodWithinLimit
    BY ContractInit
  <2>1. \A u \in Users : ActivePending(u, "COD") = {}
    BY DEF Init, ActivePending, Live, NoOrder
  <2> QED
    BY <2>1, FS_EmptySet, LimitAssumption DEF PendingCodWithinLimit
<1>2. Inv /\ [Next]_vars => Inv'
  <2> SUFFICES ASSUME Inv, [Next]_vars
               PROVE  PendingCodWithinLimit'
    BY ContractNext
  <2>1. TypeOK /\ MarkersMatchStatus /\ \A o \in Orders : AccountOf(o)
    BY DEF ContractInv, GoodsInv, Accounts
  <2>2. ASSUME NEW o \in Orders, OrderStep(o), NEW u \in Users
        PROVE  Cardinality(ActivePending(u, "COD"))' <= MaxPending
    <3> DEFINE A == ActivePending(u, "COD")
               B == ActivePending(u, "COD")'
    <3>1. ContractEffect(o)
      BY <2>1, <2>2, OrderMoves
    <3>2. IsFiniteSet(A) /\ Cardinality(A) \in Nat /\ Cardinality(A) <= MaxPending
      BY PendingFinite, FS_CardinalityType DEF PendingCodWithinLimit
    <3>3. \/ B \subseteq A
          \/ createOrder(o) /\ Customer[o] = u /\ Method[o] = "COD" /\ B \subseteq A \cup {o}
      BY <2>1, <2>2, <3>1, PendingShrinks
    <3>4. CASE B \subseteq A
      <4> HIDE DEF A, B
      <4>1. Cardinality(B) <= Cardinality(A) /\ Cardinality(B) \in Nat
        BY <3>2, <3>4, FS_Subset, FS_CardinalityType
      <4>2. Cardinality(B) <= MaxPending
        BY <3>2, <4>1, LimitAssumption
      <4> QED
        BY <4>2 DEF B
    <3>5. CASE createOrder(o) /\ Customer[o] = u /\ Method[o] = "COD" /\ B \subseteq A \cup {o}
      <4>1. Cardinality(A) < MaxPending
        BY <3>5 DEF createOrder, PendingFits
      <4> HIDE DEF A, B
      <4>2. /\ IsFiniteSet(A \cup {o}) /\ Cardinality(A \cup {o}) \in Nat
            /\ Cardinality(A \cup {o}) <= Cardinality(A) + 1
        <5>1. /\ IsFiniteSet(A \cup {o})
              /\ \/ Cardinality(A \cup {o}) = Cardinality(A)
                 \/ Cardinality(A \cup {o}) = Cardinality(A) + 1
          BY <3>2, FS_AddElement
        <5> QED
          BY <3>2, <5>1
      <4>3. Cardinality(B) <= Cardinality(A \cup {o}) /\ Cardinality(B) \in Nat
        BY <3>5, <4>2, FS_Subset, FS_CardinalityType
      <4>4. Cardinality(B) <= MaxPending
        BY <3>2, <4>1, <4>2, <4>3, LimitAssumption
      <4> QED
        BY <4>4 DEF B
    <3> QED
      BY <3>3, <3>4, <3>5
  <2>3. ASSUME UNCHANGED <<status, payStatus, overdue>>
        PROVE  PendingCodWithinLimit'
    <3>1. \A u \in Users : ActivePending(u, "COD")' = ActivePending(u, "COD")
      BY <2>3 DEF ActivePending, Live
    <3> QED
      BY <3>1 DEF PendingCodWithinLimit
  <2>4. CASE \E o \in Orders : OrderStep(o)
    BY <2>2, <2>4 DEF PendingCodWithinLimit
  <2>5. CASE \E b \in Books : WarehouseStep(b)
    BY <2>3, <2>5 DEF WarehouseStep, confirmReceipt, confirmIssue, completeCount, notAnOrder,
       orderVars
  <2>6. CASE UNCHANGED vars
    BY <2>3, <2>6 DEF vars, orderVars
  <2> QED
    BY <2>4, <2>5, <2>6 DEF Next
<1> QED
  BY <1>1, <1>2, PTL DEF Spec

-----------------------------------------------------------------------------
(* Points.                                                                 *)

Own(u) == {x \in Live : Customer[x] = u}
Paying(u) == Own(u) \ pointsRefunded
Earning(u) == Own(u) \cap pointsEarned

Part(S, f, o) == IF o \in S THEN f[o] ELSE 0

(* A sum over orders moves by what the one order that enters or leaves it  *)
(* contributes.                                                            *)
LEMMA TotalMoves ==
    ASSUME NEW S \in SUBSET Orders, NEW T, NEW o \in Orders, T \in {S \cup {o}, S \ {o}},
           NEW f \in [Orders -> Nat]
    PROVE  /\ Total(T, f) = Total(S, f) + Part(T, f, o) - Part(S, f, o)
           /\ Total(S, f) \in Nat /\ Part(T, f, o) \in Nat /\ Part(S, f, o) \in Nat
<1>1. IsFiniteSet(S)
  BY OrdersAssumption, FS_Subset, Zenon
<1>2. \A x \in S \cup {o} : f[x] \in Nat
  OBVIOUS
<1>3. Total(S, f) \in Nat
  BY <1>1, <1>2, TotalIsNat
<1>4. f[o] \in Nat
  OBVIOUS
<1>5. CASE T = S
  BY <1>3, <1>4, <1>5 DEF Part
<1>6. CASE o \in S /\ T = S \ {o}
  <2>1. Total(S \ {o}, f) = Total(S, f) - f[o]
    BY <1>1, <1>2, <1>6, TotalRemove
  <2> QED
    BY <1>3, <1>4, <1>6, <2>1 DEF Part
<1>7. CASE o \notin S /\ T = S \cup {o}
  <2>1. Total(S \cup {o}, f) = Total(S, f) + f[o]
    BY <1>1, <1>2, <1>7, TotalAdd
  <2> QED
    BY <1>3, <1>4, <1>7, <2>1 DEF Part
<1>8. T = S \/ (o \in S /\ T = S \ {o}) \/ (o \notin S /\ T = S \cup {o})
  OBVIOUS
<1> QED
  BY <1>5, <1>6, <1>7, <1>8

(* The points of a customer, net of the debt, move by what the order of    *)
(* the step redeems, hands back or earns.                                  *)
PointsStep(o) ==
    \A u \in Users :
        balance'[u] - debt'[u] =
            balance[u] - debt[u]
            - (Part(Paying(u)', Redeemed, o) - Part(Paying(u), Redeemed, o))
            + (Part(Earning(u)', Earned, o) - Part(Earning(u), Earned, o))

(* A step that leaves points and markers alone.                            *)
LEMMA PointsUntouched ==
    ASSUME TypeOK, NEW o \in Orders, status[o] # NoOrder, status'[o] # NoOrder,
           UNCHANGED <<pointsRefunded, balance, pointsEarned, debt>>
    PROVE  PointsStep(o)
<1> SUFFICES ASSUME NEW u \in Users
             PROVE  balance'[u] - debt'[u] =
                        balance[u] - debt[u]
                        - (Part(Paying(u)', Redeemed, o) - Part(Paying(u), Redeemed, o))
                        + (Part(Earning(u)', Earned, o) - Part(Earning(u), Earned, o))
  BY DEF PointsStep
<1>1. /\ o \in Paying(u)' <=> o \in Paying(u)
      /\ o \in Earning(u)' <=> o \in Earning(u)
  BY DEF Paying, Earning, Own, Live
<1>2. /\ Part(Paying(u)', Redeemed, o) = Part(Paying(u), Redeemed, o)
      /\ Part(Earning(u)', Earned, o) = Part(Earning(u), Earned, o)
  BY <1>1 DEF Part
<1>3. balance[u] \in Nat /\ debt[u] \in Nat /\ Redeemed[o] \in Nat /\ Earned[o] \in Nat
  BY RequestAssumption DEF TypeOK, PointTypeOK, DeliveryTypeOK
<1> QED
  BY <1>2, <1>3 DEF Part

(* Points go back to the customer who paid with them, once.                *)
LEMMA PointsHandedBack ==
    ASSUME TypeOK, NEW o \in Orders, status[o] # NoOrder, status'[o] # NoOrder,
           refundOrderPoints(o), UNCHANGED <<pointsEarned, debt>>
    PROVE  PointsStep(o)
<1>1. CASE o \in pointsRefunded
  BY <1>1, PointsUntouched DEF refundOrderPoints, refundPointVars
<1>2. CASE o \notin pointsRefunded
  <2> SUFFICES ASSUME NEW u \in Users
               PROVE  balance'[u] - debt'[u] =
                          balance[u] - debt[u]
                          - (Part(Paying(u)', Redeemed, o) - Part(Paying(u), Redeemed, o))
                          + (Part(Earning(u)', Earned, o) - Part(Earning(u), Earned, o))
    BY DEF PointsStep
  <2>1. balance[u] \in Nat /\ debt[u] \in Nat /\ Redeemed[o] \in Nat /\ Earned[o] \in Nat
    BY RequestAssumption DEF TypeOK, PointTypeOK, DeliveryTypeOK
  <2>2. /\ balance'[u] = IF Customer[o] = u THEN balance[u] + Redeemed[o] ELSE balance[u]
        /\ o \in pointsRefunded' /\ debt'[u] = debt[u]
    BY <1>2 DEF refundOrderPoints, TypeOK, PointTypeOK
  <2>3. /\ o \notin Paying(u)' /\ (o \in Paying(u) <=> Customer[o] = u)
        /\ o \in Earning(u)' <=> o \in Earning(u)
    BY <1>2, <2>2 DEF Paying, Earning, Own, Live
  <2>4. /\ Part(Paying(u)', Redeemed, o) = 0
        /\ Part(Paying(u), Redeemed, o) = IF Customer[o] = u THEN Redeemed[o] ELSE 0
        /\ Part(Earning(u)', Earned, o) = Part(Earning(u), Earned, o)
        /\ Part(Earning(u), Earned, o) \in Nat
    BY <2>1, <2>3 DEF Part
  <2> QED
    BY <2>1, <2>2, <2>4
<1> QED
  BY <1>1, <1>2

(* Checkout takes the points the order is paid with.                       *)
LEMMA PointsRedeemed ==
    ASSUME TypeOK, NEW o \in Orders, AccountOf(o), createOrder(o)
    PROVE  PointsStep(o)
<1> SUFFICES ASSUME NEW u \in Users
             PROVE  balance'[u] - debt'[u] =
                        balance[u] - debt[u]
                        - (Part(Paying(u)', Redeemed, o) - Part(Paying(u), Redeemed, o))
                        + (Part(Earning(u)', Earned, o) - Part(Earning(u), Earned, o))
  BY DEF PointsStep
<1>1. balance[u] \in Nat /\ debt[u] \in Nat /\ Redeemed[o] \in Nat
  BY RequestAssumption DEF TypeOK, PointTypeOK, DeliveryTypeOK
<1>2. /\ balance'[u] = IF Customer[o] = u THEN balance[u] - Redeemed[o] ELSE balance[u]
      /\ debt'[u] = debt[u] /\ pointsRefunded' = pointsRefunded /\ pointsEarned' = pointsEarned
  BY DEF createOrder, redeemForOrder, deliveryVars, TypeOK, PointTypeOK
<1>3. /\ status[o] = NoOrder /\ status'[o] # NoOrder
      /\ o \notin pointsRefunded /\ o \notin pointsEarned
  BY DEF createOrder, AccountOf, TypeOK, OrderTypeOK, NoOrder
<1>4. /\ o \notin Paying(u) /\ (o \in Paying(u)' <=> Customer[o] = u)
      /\ o \notin Earning(u) /\ o \notin Earning(u)'
  BY <1>2, <1>3 DEF Paying, Earning, Own, Live
<1>5. /\ Part(Paying(u), Redeemed, o) = 0
      /\ Part(Paying(u)', Redeemed, o) = IF Customer[o] = u THEN Redeemed[o] ELSE 0
      /\ Part(Earning(u)', Earned, o) = 0 /\ Part(Earning(u), Earned, o) = 0
  BY <1>4 DEF Part
<1> QED
  BY <1>1, <1>2, <1>5

(* A delivery pays the debt first and grants the rest.                     *)
LEMMA PointsGranted ==
    ASSUME TypeOK, NEW o \in Orders, AccountOf(o), adminMarkDelivered(o)
    PROVE  PointsStep(o)
<1> SUFFICES ASSUME NEW u \in Users
             PROVE  balance'[u] - debt'[u] =
                        balance[u] - debt[u]
                        - (Part(Paying(u)', Redeemed, o) - Part(Paying(u), Redeemed, o))
                        + (Part(Earning(u)', Earned, o) - Part(Earning(u), Earned, o))
  BY DEF PointsStep
<1>1. /\ balance[u] \in Nat /\ debt[u] \in Nat /\ Redeemed[o] \in Nat /\ Earned[o] \in Nat
      /\ balance \in [Users -> Nat] /\ debt \in [Users -> Nat]
  BY RequestAssumption DEF TypeOK, PointTypeOK, DeliveryTypeOK
<1>2. /\ status[o] = "SHIPPED" /\ status'[o] = "DELIVERED"
      /\ pointsRefunded' = pointsRefunded /\ pointsEarned' = pointsEarned \cup {o}
  BY DEF adminMarkDelivered, earnForOrder, applyTransition, TRANSITIONS, Statuses, TypeOK,
     OrderTypeOK
<1>3. o \notin pointsEarned
  BY <1>2 DEF AccountOf
<1>4. balance'[u] - debt'[u] =
        IF Customer[o] = u THEN balance[u] - debt[u] + Earned[o] ELSE balance[u] - debt[u]
  <2> DEFINE offset == IF debt[Customer[o]] < Earned[o] THEN debt[Customer[o]] ELSE Earned[o]
  <2>1. /\ debt' = [debt EXCEPT ![Customer[o]] = @ - offset]
        /\ balance' = [balance EXCEPT ![Customer[o]] = @ + (Earned[o] - offset)]
    BY DEF adminMarkDelivered, earnForOrder
  <2>2. Customer[o] \in Users /\ debt[Customer[o]] \in Nat
    BY <1>1, RequestAssumption
  <2>3. offset \in Nat
    BY <1>1, <2>2
  <2> HIDE DEF offset
  <2> QED
    BY <1>1, <2>1, <2>2, <2>3
<1>5. /\ o \in Paying(u)' <=> o \in Paying(u)
      /\ o \notin Earning(u) /\ (o \in Earning(u)' <=> Customer[o] = u)
  BY <1>2, <1>3 DEF Paying, Earning, Own, Live, NoOrder
<1>6. /\ Part(Paying(u)', Redeemed, o) = Part(Paying(u), Redeemed, o)
      /\ Part(Paying(u), Redeemed, o) \in Nat
      /\ Part(Earning(u), Earned, o) = 0
      /\ Part(Earning(u)', Earned, o) = IF Customer[o] = u THEN Earned[o] ELSE 0
  BY <1>1, <1>5 DEF Part
<1> QED
  BY <1>1, <1>4, <1>6

(* Every step of an order.                                                 *)
LEMMA OrderPoints ==
    ASSUME TypeOK, NEW o \in Orders, AccountOf(o), ContractEffect(o), OrderStep(o)
    PROVE  PointsStep(o)
<1>1. CASE createOrder(o) \/ adminMarkDelivered(o)
  BY <1>1, PointsRedeemed, PointsGranted
<1>2. CASE ~createOrder(o) /\ ~adminMarkDelivered(o)
  <2>1. status[o] # NoOrder
    BY <1>2, OnlyCheckoutCreates
  <2>2. status'[o] # NoOrder
    BY <2>1 DEF ContractEffect, Stays, Moves, TypeOK, OrderTypeOK, Statuses, NoOrder
  <2>3. \/ UNCHANGED <<pointsRefunded, balance, pointsEarned, debt>>
        \/ refundOrderPoints(o) /\ UNCHANGED <<pointsEarned, debt>>
    <3>1. CASE \E next \in {"CANCELLED", "FAILED"} : Close(o, next)
      BY <3>1 DEF Close, GiveBack, deliveryVars
    <3>2. CASE prepareRefundRequest(o)
      BY <3>2 DEF prepareRefundRequest, refundPointVars, deliveryVars
    <3>3. CASE completeRefund(o) \/ completeLostInTransitRefund(o) \/ reconcileVoucherReleases(o)
      BY <3>3 DEF completeRefund, completeLostInTransitRefund, SettleRefund,
         reconcileVoucherReleases, deliveryVars
    <3>4. CASE TimePasses(o) \/ retryPayment(o) \/ handlePaymentSuccess(o) \/ adminApproveOrder(o)
               \/ adminMarkShipped(o)
      BY <3>4 DEF TimePasses, retryPayment, handlePaymentSuccess, adminApproveOrder,
         adminMarkShipped, refundPointVars, deliveryVars
    <3>5. CASE handlePaymentFailed(o) \/ expirePendingOrders(o) \/ adminCancelOrder(o)
               \/ cancelOrder(o) \/ finalizeShipmentCancellation(o)
      BY <3>1, <3>2, <3>5 DEF handlePaymentFailed, expirePendingOrders, adminCancelOrder,
         cancelOrder, finalizeShipmentCancellation
    <3>6. CASE requestCancellation(o)
      BY <3>1, <3>6 DEF requestCancellation, refundPointVars, deliveryVars
    <3> QED
      BY <1>2, <3>3, <3>4, <3>5, <3>6
         DEF OrderStep, CustomerStep, GatewayStep, StaffStep, JobStep
  <2> QED
    BY <2>1, <2>2, <2>3, PointsUntouched, PointsHandedBack
<1> QED
  BY <1>1, <1>2

(* The orders of a customer, before and after a step of one order.         *)
LEMMA PointSetsMove ==
    ASSUME TypeOK, NEW o \in Orders, ContractEffect(o), NEW u
    PROVE  /\ Paying(u) \in SUBSET Orders /\ Paying(u)' \in {Paying(u) \cup {o}, Paying(u) \ {o}}
           /\ Earning(u) \in SUBSET Orders
           /\ Earning(u)' \in {Earning(u) \cup {o}, Earning(u) \ {o}}
<1>1. /\ Paying(u) \subseteq Orders /\ Paying(u)' \subseteq Orders
      /\ Earning(u) \subseteq Orders /\ Earning(u)' \subseteq Orders
  BY DEF Paying, Earning, Own, Live
<1>2. ASSUME NEW x \in Orders, x # o
      PROVE  /\ x \in Paying(u)' <=> x \in Paying(u)
             /\ x \in Earning(u)' <=> x \in Earning(u)
  <2>1. status'[x] = status[x]
    BY <1>2 DEF ContractEffect, Stays, Moves, TypeOK, OrderTypeOK
  <2>2. /\ x \in pointsEarned' <=> x \in pointsEarned
        /\ x \in pointsRefunded' <=> x \in pointsRefunded
    BY <1>2 DEF ContractEffect, Stays, Moves, Releases
  <2> QED
    BY <2>1, <2>2 DEF Paying, Earning, Own, Live
<1>3. \A S, T \in SUBSET Orders :
        (\A x \in Orders : x # o => (x \in T <=> x \in S)) => T \in {S \cup {o}, S \ {o}}
  <2> SUFFICES ASSUME NEW S \in SUBSET Orders, NEW T \in SUBSET Orders,
                      \A x \in Orders : x # o => (x \in T <=> x \in S)
               PROVE  T = S \cup {o} \/ T = S \ {o}
    OBVIOUS
  <2>1. CASE o \in T
    BY <2>1
  <2>2. CASE o \notin T
    BY <2>2
  <2> QED
    BY <2>1, <2>2
<1> QED
  BY <1>1, <1>2, <1>3

(* A customer's points, net of the debt, are explained by the orders: what *)
(* is redeemed comes back at most once, and debt settled by a delivery is  *)
(* neither granted a second time nor lost.                                 *)
THEOREM PointsCorrect == Spec => []PointsConserved
<1> DEFINE Inv == ContractInv /\ PointsConserved
<1>1. PointsConserved <=> \A u \in Users :
        balance[u] - debt[u] = OpeningPoints[u] - OpeningDebt[u]
                               - Total(Paying(u), Redeemed) + Total(Earning(u), Earned)
  BY DEF PointsConserved, Paying, Earning, Own
<1>2. Init => Inv
  <2> SUFFICES ASSUME Init
               PROVE  PointsConserved
    BY ContractInit
  <2>1. \A u \in Users : Paying(u) = {} /\ Earning(u) = {}
    BY DEF Init, Paying, Earning, Own, Live, NoOrder
  <2>2. /\ balance = OpeningPoints /\ debt = OpeningDebt
        /\ \A u \in Users : OpeningPoints[u] \in Nat /\ OpeningDebt[u] \in Nat
    BY OpeningAssumption DEF Init
  <2>3. \A u \in Users : Total(Paying(u), Redeemed) = 0 /\ Total(Earning(u), Earned) = 0
    BY <2>1, TotalEmpty
  <2>4. \A u \in Users :
        balance[u] - debt[u] = OpeningPoints[u] - OpeningDebt[u]
                               - Total(Paying(u), Redeemed) + Total(Earning(u), Earned)
    BY <2>2, <2>3
  <2> QED
    BY <1>1, <2>4
<1>3. Inv /\ [Next]_vars => Inv'
  <2> SUFFICES ASSUME Inv, [Next]_vars
               PROVE  PointsConserved'
    BY ContractNext
  <2>1. TypeOK /\ MarkersMatchStatus /\ \A o \in Orders : AccountOf(o)
    BY DEF ContractInv, GoodsInv, Accounts
  <2>2. ASSUME NEW o \in Orders, OrderStep(o), NEW u \in Users
        PROVE  balance'[u] - debt'[u] = OpeningPoints[u] - OpeningDebt[u]
                               - Total(Paying(u)', Redeemed) + Total(Earning(u)', Earned)
    <3>1. ContractEffect(o)
      BY <2>1, <2>2, OrderMoves
    <3>2. PointsStep(o)
      BY <2>1, <2>2, <3>1, OrderPoints
    <3>3. /\ Total(Paying(u)', Redeemed) = Total(Paying(u), Redeemed)
                + Part(Paying(u)', Redeemed, o) - Part(Paying(u), Redeemed, o)
          /\ Total(Paying(u), Redeemed) \in Nat /\ Part(Paying(u)', Redeemed, o) \in Nat
          /\ Part(Paying(u), Redeemed, o) \in Nat
      BY <2>1, <3>1, PointSetsMove, TotalMoves, RequestAssumption
    <3>4. /\ Total(Earning(u)', Earned) = Total(Earning(u), Earned)
                + Part(Earning(u)', Earned, o) - Part(Earning(u), Earned, o)
          /\ Total(Earning(u), Earned) \in Nat /\ Part(Earning(u)', Earned, o) \in Nat
          /\ Part(Earning(u), Earned, o) \in Nat
      BY <2>1, <3>1, PointSetsMove, TotalMoves, RequestAssumption
    <3>5. balance[u] - debt[u] = OpeningPoints[u] - OpeningDebt[u]
                               - Total(Paying(u), Redeemed) + Total(Earning(u), Earned)
      BY <1>1
    <3>6. /\ balance[u] \in Nat /\ debt[u] \in Nat
          /\ OpeningPoints[u] \in Nat /\ OpeningDebt[u] \in Nat
      BY <2>1, OpeningAssumption DEF TypeOK, PointTypeOK, DeliveryTypeOK
    <3> QED
      BY <3>2, <3>3, <3>4, <3>5, <3>6 DEF PointsStep
  <2>3. ASSUME UNCHANGED <<status, pointsRefunded, pointsEarned, balance, debt>>
        PROVE  PointsConserved'
    BY <2>3 DEF PointsConserved, Live
  <2>4. CASE \E o \in Orders : OrderStep(o)
    BY <2>2, <2>4 DEF PointsConserved, Paying, Earning, Own
  <2>5. CASE \E b \in Books : WarehouseStep(b)
    BY <2>3, <2>5 DEF WarehouseStep, confirmReceipt, confirmIssue, completeCount, notAnOrder,
       orderVars, refundPointVars, deliveryVars
  <2>6. CASE UNCHANGED vars
    BY <2>3, <2>6 DEF vars, orderVars, refundPointVars, deliveryVars
  <2> QED
    BY <2>4, <2>5, <2>6 DEF Next
<1> QED
  BY <1>2, <1>3, PTL DEF Spec

-----------------------------------------------------------------------------
(* Vouchers.                                                               *)

HoldersOf(v, u) == {x \in Holders(v) : Customer[x] = u}

One(S, o) == IF o \in S THEN 1 ELSE 0

(* A count moves by the one order that enters or leaves.                   *)
LEMMA CountMoves ==
    ASSUME NEW S \in SUBSET Orders, NEW T, NEW o \in Orders, T \in {S \cup {o}, S \ {o}}
    PROVE  /\ Cardinality(T) = Cardinality(S) + One(T, o) - One(S, o)
           /\ Cardinality(S) \in Nat /\ Cardinality(T) \in Nat
           /\ o \in S => Cardinality(S) > 0
<1>1. IsFiniteSet(S) /\ Cardinality(S) \in Nat
  BY OrdersAssumption, FS_Subset, FS_CardinalityType, Zenon
<1>2. o \in S => Cardinality(S \ {o}) = Cardinality(S) - 1 /\ Cardinality(S \ {o}) \in Nat
  BY <1>1, FS_RemoveElement, FS_CardinalityType
<1>3. CASE T = S
  BY <1>1, <1>2, <1>3 DEF One
<1>4. CASE o \in S /\ T = S \ {o}
  BY <1>1, <1>2, <1>4 DEF One
<1>5. CASE o \notin S /\ T = S \cup {o}
  <2>1. Cardinality(S \cup {o}) = Cardinality(S) + 1
    BY <1>1, <1>5, FS_AddElement
  <2> QED
    BY <1>1, <1>5, <2>1 DEF One
<1>6. T = S \/ (o \in S /\ T = S \ {o}) \/ (o \notin S /\ T = S \cup {o})
  OBVIOUS
<1> QED
  BY <1>3, <1>4, <1>5, <1>6

(* The counters of a voucher move by the order of the step, and upwards    *)
(* only within the limits.                                                 *)
VoucherStep(o) ==
    \A v \in VoucherIds :
        /\ usedCount'[v] = usedCount[v] + One(Holders(v)', o) - One(Holders(v), o)
        /\ o \in Holders(v)' /\ o \notin Holders(v) => usedCount[v] < UsageLimit[v]
        /\ \A u \in Users :
            /\ usageCount'[v][u]
                = usageCount[v][u] + One(HoldersOf(v, u)', o) - One(HoldersOf(v, u), o)
            /\ o \in HoldersOf(v, u)' /\ o \notin HoldersOf(v, u)
                => usageCount[v][u] < PerUserLimit[v]

(* The holders of a voucher, before and after a step of one order.         *)
LEMMA HoldersMove ==
    ASSUME TypeOK, NEW o \in Orders, ContractEffect(o), NEW v, NEW u
    PROVE  /\ Holders(v) \in SUBSET Orders /\ HoldersOf(v, u) \in SUBSET Orders
           /\ Holders(v)' \in {Holders(v) \cup {o}, Holders(v) \ {o}}
           /\ HoldersOf(v, u)' \in {HoldersOf(v, u) \cup {o}, HoldersOf(v, u) \ {o}}
<1>1. Holders(v) \subseteq Orders /\ Holders(v)' \subseteq Orders
  BY DEF Holders, Live
<1>2. ASSUME NEW x \in Orders, x # o
      PROVE  x \in Holders(v)' <=> x \in Holders(v)
  <2>1. status'[x] = status[x]
    BY <1>2 DEF ContractEffect, Stays, Moves, TypeOK, OrderTypeOK
  <2>2. x \in voucherReleased' <=> x \in voucherReleased
    BY <1>2 DEF ContractEffect, Stays, Moves, Releases
  <2> QED
    BY <2>1, <2>2 DEF Holders, Live
<1>3. Holders(v)' \in {Holders(v) \cup {o}, Holders(v) \ {o}}
  <2>1. CASE o \in Holders(v)'
    <3>1. Holders(v)' = Holders(v) \cup {o}
      BY <1>1, <1>2, <2>1
    <3> QED
      BY <3>1
  <2>2. CASE o \notin Holders(v)'
    <3>1. Holders(v)' = Holders(v) \ {o}
      BY <1>1, <1>2, <2>2
    <3> QED
      BY <3>1
  <2> QED
    BY <2>1, <2>2
<1>4. HoldersOf(v, u)' \in {HoldersOf(v, u) \cup {o}, HoldersOf(v, u) \ {o}}
  <2>1. CASE o \in HoldersOf(v, u)'
    <3>1. HoldersOf(v, u)' = HoldersOf(v, u) \cup {o}
      BY <1>1, <1>2, <2>1 DEF HoldersOf
    <3> QED
      BY <3>1
  <2>2. CASE o \notin HoldersOf(v, u)'
    <3>1. HoldersOf(v, u)' = HoldersOf(v, u) \ {o}
      BY <1>1, <1>2, <2>2 DEF HoldersOf
    <3> QED
      BY <3>1
  <2> QED
    BY <2>1, <2>2
<1> QED
  BY <1>1, <1>3, <1>4 DEF HoldersOf

(* A step that leaves the vouchers alone.                                  *)
LEMMA VouchersUntouched ==
    ASSUME TypeOK, NEW o \in Orders, status[o] # NoOrder, status'[o] # NoOrder,
           UNCHANGED voucherVars
    PROVE  VoucherStep(o)
<1>1. UNCHANGED <<voucherReleased, usedCount, usageCount>>
  BY DEF voucherVars
<1>2. \A v, u : /\ o \in Holders(v)' <=> o \in Holders(v)
                /\ o \in HoldersOf(v, u)' <=> o \in HoldersOf(v, u)
  BY <1>1 DEF Holders, HoldersOf, Live
<1>3. \A v \in VoucherIds : usedCount[v] \in Nat /\ \A u \in Users : usageCount[v][u] \in Nat
  BY DEF TypeOK, VoucherTypeOK
<1> QED
  BY <1>1, <1>2, <1>3 DEF VoucherStep, One

(* A use goes back once, and there is one to give back.                    *)
LEMMA VouchersReturned ==
    ASSUME TypeOK, VoucherUseIsHeld, NEW o \in Orders, status[o] # NoOrder,
           status'[o] # NoOrder, releaseOrderVoucher(o), ContractEffect(o)
    PROVE  VoucherStep(o)
<1>1. CASE Vouchers[o] = {} \/ o \in voucherReleased
  BY <1>1, VouchersUntouched DEF releaseOrderVoucher
<1>2. CASE ~(Vouchers[o] = {} \/ o \in voucherReleased)
  <2> SUFFICES ASSUME NEW v \in VoucherIds
               PROVE  /\ usedCount'[v] = usedCount[v] + One(Holders(v)', o) - One(Holders(v), o)
                      /\ o \notin Holders(v)'
                      /\ \A u \in Users :
                            usageCount'[v][u] = usageCount[v][u]
                                + One(HoldersOf(v, u)', o) - One(HoldersOf(v, u), o)
    BY DEF VoucherStep, HoldersOf
  <2>1. o \notin Holders(v)' /\ (o \in Holders(v) <=> v \in Vouchers[o])
    BY <1>2 DEF releaseOrderVoucher, Holders, Live
  <2>2. \A u : /\ o \notin HoldersOf(v, u)'
               /\ o \in HoldersOf(v, u) <=> v \in Vouchers[o] /\ u = Customer[o]
    BY <2>1 DEF HoldersOf
  <2>3. /\ usedCount'[v] = IF v \in Vouchers[o] /\ usedCount[v] > 0
                           THEN usedCount[v] - 1 ELSE usedCount[v]
        /\ \A u \in Users : usageCount'[v][u] =
                IF v \in Vouchers[o] /\ u = Customer[o] /\ usageCount[v][u] > 0
                THEN usageCount[v][u] - 1 ELSE usageCount[v][u]
    BY <1>2 DEF releaseOrderVoucher
  <2>4. usedCount[v] \in Nat /\ \A u \in Users : usageCount[v][u] \in Nat
    BY DEF TypeOK, VoucherTypeOK
  <2>5. v \in Vouchers[o] => usedCount[v] > 0
    <3>1. /\ Holders(v) \in SUBSET Orders
          /\ Holders(v)' \in {Holders(v) \cup {o}, Holders(v) \ {o}}
      BY HoldersMove
    <3>2. o \in Holders(v) => Cardinality(Holders(v)) > 0
      BY <3>1, CountMoves
    <3> QED
      BY <2>1, <3>2 DEF VoucherUseIsHeld
  <2>6. \A u \in Users : v \in Vouchers[o] /\ u = Customer[o] => usageCount[v][u] > 0
    <3> SUFFICES ASSUME NEW u \in Users, v \in Vouchers[o] /\ u = Customer[o]
                 PROVE  usageCount[v][u] > 0
      OBVIOUS
    <3>1. o \in HoldersOf(v, u)
      BY <2>2
    <3>2. Cardinality(HoldersOf(v, u)) > 0
      BY <3>1, HoldersMove, CountMoves
    <3> QED
      BY <3>2 DEF VoucherUseIsHeld, HoldersOf
  <2>7. One(Holders(v)', o) = 0 /\ One(Holders(v), o) = IF v \in Vouchers[o] THEN 1 ELSE 0
    BY <2>1 DEF One
  <2>8. \A u \in Users : /\ One(HoldersOf(v, u)', o) = 0
                         /\ One(HoldersOf(v, u), o)
                                = IF v \in Vouchers[o] /\ u = Customer[o] THEN 1 ELSE 0
    BY <2>2 DEF One
  <2>9. \A u \in Users : usageCount'[v][u] = usageCount[v][u]
                                + One(HoldersOf(v, u)', o) - One(HoldersOf(v, u), o)
    BY <2>3, <2>4, <2>6, <2>8
  <2> QED
    BY <2>1, <2>3, <2>4, <2>5, <2>7, <2>9
<1> QED
  BY <1>1, <1>2

(* Checkout takes a use of each voucher while both limits leave one.       *)
LEMMA VouchersConsumed ==
    ASSUME TypeOK, NEW o \in Orders, AccountOf(o), createOrder(o)
    PROVE  VoucherStep(o)
<1> SUFFICES ASSUME NEW v \in VoucherIds
             PROVE  /\ usedCount'[v] = usedCount[v] + One(Holders(v)', o) - One(Holders(v), o)
                    /\ o \in Holders(v)' => usedCount[v] < UsageLimit[v]
                    /\ \A u \in Users :
                        /\ usageCount'[v][u] = usageCount[v][u]
                                + One(HoldersOf(v, u)', o) - One(HoldersOf(v, u), o)
                        /\ o \in HoldersOf(v, u)' => usageCount[v][u] < PerUserLimit[v]
  BY DEF VoucherStep
<1>1. /\ status[o] = NoOrder /\ status'[o] # NoOrder
      /\ o \notin voucherReleased /\ voucherReleased' = voucherReleased
  BY DEF createOrder, AccountOf, TypeOK, OrderTypeOK, NoOrder
<1>2. o \notin Holders(v) /\ (o \in Holders(v)' <=> v \in Vouchers[o])
  BY <1>1 DEF Holders, Live
<1>3. \A u : /\ o \notin HoldersOf(v, u)
             /\ o \in HoldersOf(v, u)' <=> v \in Vouchers[o] /\ u = Customer[o]
  BY <1>2 DEF HoldersOf
<1>4. /\ usedCount'[v] = IF v \in Vouchers[o] THEN usedCount[v] + 1 ELSE usedCount[v]
      /\ \A u \in Users : usageCount'[v][u] = IF v \in Vouchers[o] /\ u = Customer[o]
                                              THEN usageCount[v][u] + 1 ELSE usageCount[v][u]
      /\ v \in Vouchers[o] => /\ usedCount[v] < UsageLimit[v]
                              /\ usageCount[v][Customer[o]] < PerUserLimit[v]
  BY DEF createOrder, consumeVouchers, VouchersFit
<1>5. usedCount[v] \in Nat /\ \A u \in Users : usageCount[v][u] \in Nat
  BY DEF TypeOK, VoucherTypeOK
<1> QED
  BY <1>2, <1>3, <1>4, <1>5 DEF One

(* Every step of an order.                                                 *)
LEMMA OrderVouchers ==
    ASSUME TypeOK, VoucherUseIsHeld, NEW o \in Orders, AccountOf(o), ContractEffect(o),
           OrderStep(o)
    PROVE  VoucherStep(o)
<1>1. CASE createOrder(o)
  BY <1>1, VouchersConsumed
<1>2. CASE ~createOrder(o)
  <2>1. status[o] # NoOrder
    BY <1>2, OnlyCheckoutCreates
  <2>2. status'[o] # NoOrder
    BY <2>1 DEF ContractEffect, Stays, Moves, TypeOK, OrderTypeOK, Statuses, NoOrder
  <2>3. UNCHANGED voucherVars \/ releaseOrderVoucher(o)
    <3>1. CASE \E next \in {"CANCELLED", "FAILED"} : Close(o, next)
      BY <3>1 DEF Close, GiveBack
    <3>2. CASE prepareRefundRequest(o)
      BY <3>2 DEF prepareRefundRequest
    <3>3. CASE completeRefund(o) \/ completeLostInTransitRefund(o) \/ reconcileVoucherReleases(o)
      BY <3>3 DEF completeRefund, completeLostInTransitRefund, SettleRefund,
         reconcileVoucherReleases
    <3>4. CASE TimePasses(o) \/ retryPayment(o) \/ handlePaymentSuccess(o) \/ adminApproveOrder(o)
               \/ adminMarkShipped(o) \/ adminMarkDelivered(o)
      BY <3>4 DEF TimePasses, retryPayment, handlePaymentSuccess, adminApproveOrder,
         adminMarkShipped, adminMarkDelivered
    <3>5. CASE handlePaymentFailed(o) \/ expirePendingOrders(o) \/ adminCancelOrder(o)
               \/ cancelOrder(o) \/ finalizeShipmentCancellation(o)
      BY <3>1, <3>2, <3>5 DEF handlePaymentFailed, expirePendingOrders, adminCancelOrder,
         cancelOrder, finalizeShipmentCancellation
    <3>6. CASE requestCancellation(o)
      BY <3>1, <3>6 DEF requestCancellation
    <3> QED
      BY <1>2, <3>3, <3>4, <3>5, <3>6
         DEF OrderStep, CustomerStep, GatewayStep, StaffStep, JobStep
  <2> QED
    BY <2>1, <2>2, <2>3, VouchersUntouched, VouchersReturned
<1> QED
  BY <1>1, <1>2

(* The counters of a voucher, in total and per customer, count exactly the *)
(* orders that hold it and never pass a limit.                             *)
THEOREM VouchersCorrect == Spec => []VoucherUseIsHeld
<1> DEFINE Inv == ContractInv /\ VoucherUseIsHeld
<1>1. VoucherUseIsHeld <=> \A v \in VoucherIds :
        /\ usedCount[v] = Cardinality(Holders(v)) /\ usedCount[v] <= UsageLimit[v]
        /\ \A u \in Users : /\ usageCount[v][u] = Cardinality(HoldersOf(v, u))
                            /\ usageCount[v][u] <= PerUserLimit[v]
  BY DEF VoucherUseIsHeld, HoldersOf
<1>2. Init => Inv
  <2> SUFFICES ASSUME Init
               PROVE  VoucherUseIsHeld
    BY ContractInit
  <2>1. \A v \in VoucherIds, u \in Users : Holders(v) = {} /\ HoldersOf(v, u) = {}
    BY DEF Init, HoldersOf, Holders, Live, NoOrder
  <2>2. \A v \in VoucherIds : /\ usedCount[v] = 0 /\ UsageLimit[v] >= 0 /\ PerUserLimit[v] >= 0
                              /\ \A u \in Users : usageCount[v][u] = 0
    BY LimitAssumption DEF Init
  <2>3. Cardinality({}) = 0
    BY FS_EmptySet
  <2>4. \A v \in VoucherIds : Holders(v) = {}
    BY DEF Init, Holders, Live, NoOrder
  <2> QED
    BY <1>1, <2>1, <2>2, <2>3, <2>4
<1>3. Inv /\ [Next]_vars => Inv'
  <2> SUFFICES ASSUME Inv, [Next]_vars
               PROVE  VoucherUseIsHeld'
    BY ContractNext
  <2>1. TypeOK /\ MarkersMatchStatus /\ VoucherUseIsHeld /\ \A o \in Orders : AccountOf(o)
    BY DEF ContractInv, GoodsInv, Accounts
  <2>2. ASSUME NEW o \in Orders, OrderStep(o), NEW v \in VoucherIds
        PROVE  /\ usedCount'[v] = Cardinality(Holders(v)') /\ usedCount'[v] <= UsageLimit[v]
               /\ \A u \in Users : /\ usageCount'[v][u] = Cardinality(HoldersOf(v, u)')
                                   /\ usageCount'[v][u] <= PerUserLimit[v]
    <3>1. ContractEffect(o)
      BY <2>1, <2>2, OrderMoves
    <3>2. VoucherStep(o)
      BY <2>1, <2>2, <3>1, OrderVouchers
    <3>3. UsageLimit[v] \in Nat /\ PerUserLimit[v] \in Nat
      BY LimitAssumption
    <3>4. usedCount'[v] = Cardinality(Holders(v)') /\ usedCount'[v] <= UsageLimit[v]
      <4> DEFINE S == Holders(v)
                 T == Holders(v)'
      <4>1. S \in SUBSET Orders /\ T \in {S \cup {o}, S \ {o}}
        BY <2>1, <3>1, HoldersMove
      <4>2. /\ usedCount[v] = Cardinality(S) /\ usedCount[v] <= UsageLimit[v]
            /\ usedCount'[v] = usedCount[v] + One(T, o) - One(S, o)
            /\ o \in T /\ o \notin S => usedCount[v] < UsageLimit[v]
        BY <1>1, <3>2 DEF VoucherStep
      <4> HIDE DEF S, T
      <4>3. /\ Cardinality(T) = Cardinality(S) + One(T, o) - One(S, o)
            /\ Cardinality(S) \in Nat /\ Cardinality(T) \in Nat
        BY <4>1, CountMoves
      <4>4. usedCount'[v] = Cardinality(T) /\ usedCount'[v] <= UsageLimit[v]
        BY <3>3, <4>2, <4>3 DEF One
      <4> QED
        BY <4>4 DEF T
    <3>5. ASSUME NEW u \in Users
          PROVE  /\ usageCount'[v][u] = Cardinality(HoldersOf(v, u)')
                 /\ usageCount'[v][u] <= PerUserLimit[v]
      <4> DEFINE S == HoldersOf(v, u)
                 T == HoldersOf(v, u)'
      <4>1. S \in SUBSET Orders /\ T \in {S \cup {o}, S \ {o}}
        BY <2>1, <3>1, HoldersMove
      <4>2. /\ usageCount[v][u] = Cardinality(S) /\ usageCount[v][u] <= PerUserLimit[v]
            /\ usageCount'[v][u] = usageCount[v][u] + One(T, o) - One(S, o)
            /\ o \in T /\ o \notin S => usageCount[v][u] < PerUserLimit[v]
        BY <1>1, <3>2 DEF VoucherStep
      <4> HIDE DEF S, T
      <4>3. /\ Cardinality(T) = Cardinality(S) + One(T, o) - One(S, o)
            /\ Cardinality(S) \in Nat /\ Cardinality(T) \in Nat
        BY <4>1, CountMoves
      <4>4. usageCount'[v][u] = Cardinality(T) /\ usageCount'[v][u] <= PerUserLimit[v]
        BY <3>3, <4>2, <4>3 DEF One
      <4> QED
        BY <4>4 DEF T
    <3> QED
      BY <3>4, <3>5
  <2>3. ASSUME UNCHANGED <<status, voucherReleased, usedCount, usageCount>>
        PROVE  VoucherUseIsHeld'
    <3>1. \A v : Holders(v)' = Holders(v)
      BY <2>3 DEF Holders, Live
    <3> QED
      BY <2>1, <2>3, <3>1 DEF VoucherUseIsHeld
  <2>4. CASE \E o \in Orders : OrderStep(o)
    BY <2>2, <2>4 DEF VoucherUseIsHeld, HoldersOf
  <2>5. CASE \E b \in Books : WarehouseStep(b)
    BY <2>3, <2>5 DEF WarehouseStep, confirmReceipt, confirmIssue, completeCount, notAnOrder,
       orderVars, voucherVars
  <2>6. CASE UNCHANGED vars
    BY <2>3, <2>6 DEF vars, orderVars, voucherVars
  <2> QED
    BY <2>4, <2>5, <2>6 DEF Next
<1> QED
  BY <1>2, <1>3, PTL DEF Spec
===========================================================================
