CONSTANTS
    b1 = b1
    Books = {b1}
    Qty <- TwoCopies
    Price <- UnitPrice
    Fee = 2
    Discount = 3
    Spent = 3
    EarnRate = 3
    Shelf <- OneCopy
    Tickets = {t1, t2}
    Requests = {r1}
    Agents = {a1}
    Couriers = {c1}
    Methods = {"VNPAY"}
    Restocked = {TRUE}
    MaxEarlier = 1
    MaxWrittenOff = 0
SPECIFICATION Spec
INVARIANT WholePriceForWholeOrder
CHECK_DEADLOCK FALSE
