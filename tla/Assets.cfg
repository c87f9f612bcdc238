SPECIFICATION AssetsFairSpec
CONSTANTS
    Documents = {d1, d2}
    Images = {i1, i2}
    Requests = {r1, r2}
    Cleaners = {c1}
    MaxEdits = 1
    MaxFailures = 1
    Nil = Nil
    Gone = Gone
INVARIANT
    UsedImageIsKept
PROPERTY
    UnusedImageGoes
CHECK_DEADLOCK FALSE
