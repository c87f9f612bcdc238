SPECIFICATION LoyaltyFairSpec
CONSTANTS
    u1 = u1
    o1 = o1
    o2 = o2
    job = job
    Users = {u1}
    Gifts = {g1}
    Orders = {o1, o2}
    Buyer <- BuyerOf
    Goods <- GoodsOf
    Threshold <- Ladder3
    Grace = TRUE
    Cost = 1
    Limit = 2
    MinTier = 2
    Stocks = {0, 1}
    Points = 2
    Editors = {e1}
    Judges = {job, j1}
    Job = job
    MaxActs = 1
INVARIANT
    IssuedIsRedeemed
PROPERTY
    TierSettles
CHECK_DEADLOCK FALSE
