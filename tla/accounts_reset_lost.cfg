SPECIFICATION Spec
CONSTANTS
    Requests = {r1, r2}
    Emails = {"ana", "root"}
    InitialAdmin = "root"
    Customers = {"ana"}
    Secrets = {x, y}
    Names = {"nick"}
    Keys = {k1}
    Sessions = {1, 2}
    Guests = {2}
    Carts = {1}
    Tokens = {1}
    MailedTokens = {1}
SYMMETRY Symmetry
INVARIANT ResetTellsTruth
CHECK_DEADLOCK FALSE
