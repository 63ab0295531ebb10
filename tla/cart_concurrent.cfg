SPECIFICATION Spec
CONSTANTS
    Carts = {c1}
    Products = {p1, p2}
    Requests = {r1, r2}
    Keys = {k1, k2, k3}
    MaxQuantity = 1
    StockPerProduct = 2
    OnHand <- MCOnHand
    BatchSize = 2
    Serialized = FALSE
SYMMETRY Symmetry
CONSTRAINT FewRecords
INVARIANTS TypeOK LineHasHold
PROPERTIES LineChangeSavesFreshKey ClosedHoldsNeverReopen
CHECK_DEADLOCK FALSE
