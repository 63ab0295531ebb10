SPECIFICATION Spec
CONSTANTS
    Carts = {c1}
    Products = {p1}
    Requests = {r1, r2}
    Keys = {k1}
    MaxQuantity = 2
    StockPerProduct = 3
    OnHand <- MCOnHand
    BatchSize = 2
    Serialized = FALSE
INVARIANTS RemovalIsAccepted
CHECK_DEADLOCK FALSE
