SPECIFICATION Spec
CONSTANTS
    Owners = {"RETURN"}
    MAX_AUTOMATIC_REFUND_RETRIES = 2
    MaxKeys = 4
    Workers = {w1, w2}
    MAX_REFUND_SUBMISSIONS = 3
    Keys <- AllKeys
    MaxCrashes = 0
INVARIANT
    ReturnPaidOnce
CHECK_DEADLOCK FALSE
