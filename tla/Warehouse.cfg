CONSTANTS
    Books = {b1}
    Receipts = {r1}
    Issues = {i1}
    Sheets = {c1}
    Clerks = {k1}
    ReceiptCopies = {1, 2}
    IssueCopies = {1}
    UnitCosts = {8}
    Opening = 1
    OpeningCost = 5
    MaxOnHand = 3
    MaxMissing = 1
    None = None
SPECIFICATION Spec
SYMMETRY Symmetry
INVARIANTS
    TypeOK
    DocumentMovesOnce
PROPERTIES
    CountIsTrue
    ReversalRestoresCost
CHECK_DEADLOCK FALSE
