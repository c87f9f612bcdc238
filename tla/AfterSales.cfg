CONSTANTS
    b1 = b1
    Books = {b1}
    Qty <- TwoCopies
    Price <- UnitPrice
    Fee = 2
    Discount = 3
    Spent = 3
    EarnRate = 3
    Shelf <- OneCopy
    Tickets = {t1, t2}
    Requests = {r1}
    Agents = {a1}
    Couriers = {c1}
    Methods = {"COD", "VNPAY", "MOMO"}
    Restocked = {TRUE}
    MaxEarlier = 1
    MaxWrittenOff = 6
SPECIFICATION Spec
SYMMETRY Symmetry
INVARIANTS
    EntitlementHeld
    
    
    ReservedIsPromised
    PaidBackOrderIsClosed
    PointsConverge
CHECK_DEADLOCK FALSE
