SPECIFICATION FairSpec
CONSTANTS
    Owners = {"ORDER", "DUPLICATE", "RETURN"}
    MAX_AUTOMATIC_REFUND_RETRIES = 2
    MaxKeys = 2
    Workers = {w1}
    MAX_REFUND_SUBMISSIONS = 2
    Keys <- AllKeys
    MaxCrashes = 2
PROPERTY
    RefundSettles
CHECK_DEADLOCK FALSE
