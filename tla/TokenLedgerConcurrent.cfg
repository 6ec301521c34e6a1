SPECIFICATION FairSpec
CONSTANTS
    w1 = w1
    w2 = w2
    u1 = u1
    u2 = u2
    p1 = p1
    None = None
    Workers = {w1, w2}
    Users = {u1}
    Purchases = {p1}
    Amounts = {1, 2}
    BuyerOf <- MCBuyerOf
    BundleSize <- MCBundleSize
    Serves <- ServeSame
    MaxRows = 3
INVARIANTS
    TypeOK
    NeverNegative
    CompletedIffCredited
PROPERTIES
    BalanceMovesWithLedger
    EveryRequestEnds
