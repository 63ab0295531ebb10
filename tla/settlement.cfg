SPECIFICATION FairSpec
CONSTANTS
    Orders = {1, 2}
    Products = {p1, p2}
    Shared = p1
    Own = p2
    Quantity <- MCQuantity
    Stock <- MCStock
    Delistable = {p2}
    Webhooks = {w1}
    EventIds = {e1}
    Jobs = {j1}
    BatchLimit = 2
    Deaths = 1
INVARIANTS TypeOK ConsumedOnlyIfApproved PaidMeansConsumed
PROPERTIES PaymentIsFinal DecidedPaymentsSettle
CHECK_DEADLOCK FALSE
