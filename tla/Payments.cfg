SPECIFICATION FairSpec
CONSTANTS
    Requests = {r1, r2}
    MAX_PAYMENT_ATTEMPTS_PER_ORDER = 2
    MaxAttempts = 3
    MaxCrashes = 1
INVARIANTS
    TypeOK
    CapturedIsAccounted
    KeptPaymentIsNotReturned
PROPERTY
    PaidIsRecorded
CHECK_DEADLOCK FALSE
