SPECIFICATION Spec
CONSTANTS
    Browsers = {b1, b2}
    Tabs = {t1, t2}
    Sessions = {1, 2}
    Items = {i1, i2}
SYMMETRY Symmetry
INVARIANTS VisitorsNeverShareACart OwnCartAfterLogin AcknowledgedItemsStay
CHECK_DEADLOCK FALSE
