SPECIFICATION Spec
CONSTANTS
    Requests = {r1, r2}
    Keys = {k1, k2}
    Products = {1}
    Categories = {3}
    Banners = {}
    Contents = {x}
    Deltas <- MCDeltas
    InitialItems = {1, 3}
    InitialStock = 2
SYMMETRY Symmetry
INVARIANT StockMatchesAudit
CHECK_DEADLOCK FALSE
