SPECIFICATION Spec
CONSTANTS
    Owners = {"ORDER", "DUPLICATE", "RETURN"}
    MAX_AUTOMATIC_REFUND_RETRIES = 2
    MaxKeys = 3
    Workers = {w1, w2}
    MAX_REFUND_SUBMISSIONS = 3
    Keys <- AllKeys
    MaxCrashes = 1
INVARIANTS
    SettledIsPaid
    PaidOnce
CHECK_DEADLOCK FALSE
