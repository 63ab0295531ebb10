SPECIFICATION Spec
CONSTANTS
    Requests = {r1, r2}
    Keys = {k1, k2}
    Products = {1, 2}
    Categories = {3, 4}
    Banners = {5, 6}
    Contents = {x, y}
    Deltas <- MCDeltas
    InitialItems = {1, 3, 5}
    InitialStock = 2
SYMMETRY Symmetry
INVARIANTS TypeOK OneStoryPerKey NoLostUpdate AnsweredAdjustmentIsAudited
PROPERTIES DeletedStaysHidden
CHECK_DEADLOCK FALSE
