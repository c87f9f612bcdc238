SPECIFICATION FairSpec
CONSTANTS
    o1 = o1
    o2 = o2
    o3 = o3
    o4 = o4
    u1 = u1
    u2 = u2
    b1 = b1
    v1 = v1
    v2 = v2
    Orders = {o1, o2, o3, o4}
    Users = {u1, u2}
    Books = {b1}
    VoucherIds = {v1, v2}
    Cart <- MixedCart
    Customer <- MixedCustomer
    Method <- MixedMethod
    Vouchers <- MixedVouchers
    Redeemed <- MixedRedeemed
    Earned <- MixedEarned
    OpeningStock <- MixedStock
    OpeningPoints <- MixedPoints
    OpeningDebt <- MixedDebt
    UsageLimit <- MixedUsageLimit
    PerUserLimit <- MixedPerUserLimit
    MaxPending = 1
    Deliveries = 3
INVARIANTS
    TypeOK
    MarkersMatchStatus
    ReservedIsOpenOrders
    LedgerExplainsStock
    VoucherUseIsHeld
    PointsConserved
    DeadOrdersReleased
    CapturedMoneyIsAnswered
    PendingCodWithinLimit
PROPERTIES
    ImplementsFulfilment
    OverdueIsSwept
