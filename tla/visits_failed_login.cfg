SPECIFICATION Spec
CONSTANTS
    Browsers = {b1}
    Tabs = {t1}
    Sessions = {1, 2}
    Items = {i1}
PROPERTY FailedLoginKeepsCart
CHECK_DEADLOCK FALSE
