SPECIFICATION Spec
CONSTANTS
    Requests = {r1, r2}
    Emails = {"ana", "root"}
    InitialAdmin = "root"
    Customers = {"ana"}
    Secrets = {x, y}
    Names = {"nick"}
    Keys = {k1}
    Sessions = {1, 2, 3, 4}
    Guests = {2}
    Carts = {1, 2}
    Tokens = {1, 2, 3}
    MailedTokens = {1}
SYMMETRY Symmetry
INVARIANTS OneEffectPerKey PromotedCartIsNotLost
PROPERTIES ResetTokensAreOneTime RevocationIsFinal PasswordChangesAreAccounted
CHECK_DEADLOCK FALSE
