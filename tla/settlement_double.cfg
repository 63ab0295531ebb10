SPECIFICATION Spec
CONSTANTS
    Orders = {1, 2}
    Products = {p1, p2}
    Shared = p1
    Own = p2
    Quantity <- MCQuantity
    Stock <- MCStock
    Delistable = {}
    Webhooks = {w1}
    EventIds = {e1}
    Jobs = {j1}
    BatchLimit = 2
    Deaths = 0
INVARIANTS ConsumedOnce

CHECK_DEADLOCK FALSE
