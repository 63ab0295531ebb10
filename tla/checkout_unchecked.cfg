SPECIFICATION CheckoutSpec
CONSTANTS
    Carts = {c1}
    Products = {p1}
    Requests = {r1}
    Buyers = {b1, b2}
    Keys = {k1}
    OrderKeys = {q1, q2}
    MaxQuantity = 2
    StockPerProduct = 3
    OnHand <- MCOnHand
    BatchSize = 1
    Serialized = FALSE
SYMMETRY Symmetry
PROPERTIES OrderIsHeld
CHECK_DEADLOCK FALSE
