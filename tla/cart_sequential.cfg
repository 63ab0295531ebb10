SPECIFICATION FairSpec
CONSTANTS
    Carts = {c1, c2}
    Products = {p1}
    Requests = {r1}
    Keys = {k1}
    MaxQuantity = 2
    StockPerProduct = 2
    OnHand <- MCOnHand
    BatchSize = 2
    Serialized = TRUE
INVARIANTS LineMatchesHold LedgerExact
PROPERTIES ImplementsLedger AbandonedStockReturns
CHECK_DEADLOCK FALSE
