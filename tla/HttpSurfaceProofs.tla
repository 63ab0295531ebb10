------------------------- MODULE HttpSurfaceProofs --------------------------
(***************************************************************************)
(* What HttpSurface guarantees whatever the widths of the database.        *)
(***************************************************************************)
EXTENDS HttpSurface, TLAPS

-----------------------------------------------------------------------------
(* Errors.  What is thrown names the status it is sent with, or is one of  *)
(* the two exceptions, or has no body and is given one by the filter.      *)

Truthful(e) == e.body = buildErrorResponse(e.body.code) /\ e.status = e.body.status

Deserved(e) ==
    \/ e = Crash
    \/ e \in {Thrown(400, Plain), Thrown(404, Plain)}
    \/ e.http /\ e.body # Plain /\ Truthful(e)
    \/ Handled.by = "actor" /\ e = BadRequest(401, Unauthenticated)
    \/ Handled.by = "resolver" /\ e = Unauthorized(Technical)

ErrorsInv ==
    /\ at = "thrown" => Deserved(exception)
    /\ ErrorsTellTheirCode

LEMMA StatusIsASuccessOfNone ==
    ASSUME NEW code
    PROVE  Status(code) \in {400, 401, 403, 404, 409, 410, 422, 500}
BY DEF Status

LEMMA FailuresAreTruthful ==
    ASSUME NEW code
    PROVE  LET e == Failure(code) IN e.http /\ e.body # Plain /\ Truthful(e)
BY StatusIsASuccessOfNone DEF Failure, Thrown, buildErrorResponse, Truthful, Plain

(* The statuses of the codes the transport itself answers with.            *)
LEMMA TransportStatuses ==
    /\ Status(Invalid) = 400
    /\ Status(Unauthenticated) = 401
    /\ Status("RESOURCE_NOT_FOUND") = 404
    /\ Status(Technical) = 500
<1> DEFINE notFound == "RESOURCE_NOT_FOUND"
<1>1. /\ Invalid \in CodesOf.s400
      /\ Unauthenticated \notin CodesOf.s400 /\ notFound \notin CodesOf.s400
      /\ Technical \notin CodesOf.s400
  BY DEF CodesOf, Invalid, Unauthenticated, Technical
<1>2. /\ Unauthenticated \in CodesOf.s401
      /\ Invalid \notin CodesOf.s401 /\ notFound \notin CodesOf.s401 /\ Technical \notin CodesOf.s401
  BY DEF CodesOf, Invalid, Unauthenticated, Technical
<1>3. /\ notFound \in CodesOf.s404
      /\ Invalid \notin CodesOf.s404 /\ Unauthenticated \notin CodesOf.s404
      /\ Technical \notin CodesOf.s404
  BY DEF CodesOf, Invalid, Unauthenticated, Technical
<1>4. \A code \in {Invalid, Unauthenticated, notFound, Technical} :
         /\ code \notin CodesOf.s403 /\ code \notin CodesOf.s409
         /\ code \notin CodesOf.s410 /\ code \notin CodesOf.s422
  BY DEF CodesOf, Invalid, Unauthenticated, Technical
<1> HIDE DEF notFound
<1>5. Status(Invalid) = 400
  BY <1>1, <1>2, <1>3, <1>4, ZenonT(60) DEF Status
<1>6. Status(Unauthenticated) = 401
  BY <1>1, <1>2, <1>3, <1>4, ZenonT(60) DEF Status
<1>7. Status(notFound) = 404
  BY <1>1, <1>2, <1>3, <1>4, ZenonT(60) DEF Status
<1>8. Status(Technical) = 500
  BY <1>1, <1>2, <1>3, <1>4, ZenonT(60) DEF Status
<1>9. QED
  BY <1>5, <1>6, <1>7, <1>8 DEF notFound

LEMMA BadInputIsTruthful ==
    LET e == BadRequest(400, Invalid) IN e.http /\ e.body # Plain /\ Truthful(e)
BY TransportStatuses DEF BadRequest, Thrown, Truthful, buildErrorResponse, Plain
-----------------------------------------------------------------------------
LEMMA RequestsAreTyped ==
    ASSUME NEW op, NEW r \in Requests(op)
    PROVE  r.op = op /\ r.auth \in AuthStates
BY DEF Requests, AuthStates, HeaderStates

LEMMA TokenCodes ==
    ASSUME NEW auth \in AuthStates, NEW code \in TokenChecks(auth)
    PROVE  code \in {"none", Unauthenticated, Technical}
<1>1. auth \in {"absent", "malformed", "unverified", "good"}
  BY DEF AuthStates, HeaderStates
<1>2. TokenChecks(auth) \in {{Unauthenticated}, {"none", Technical}}
  BY <1>1, Zenon DEF TokenChecks
<1>3. QED
  BY <1>2

(* The request does not change on its way.                                 *)
Asked == req.op \in DOMAIN OPERATIONS /\ req \in Requests(req.op)

LEMMA AskedInit == Init => Asked
BY RequestsAreTyped DEF Init, Asked

LEMMA StepsKeepTheRequest == [Next]_vars => UNCHANGED req
<1>1. CheckSignature => UNCHANGED req
  BY Zenon DEF CheckSignature, Throw, Reach
<1>2. NoRoute \/ ParseBody \/ Guard \/ Validate \/ ResolveSession => UNCHANGED req
  BY DEF NoRoute, ParseBody, Guard, Validate, ResolveSession, Throw, Reach
<1>3. FindActor \/ CheckHeaders \/ Succeed \/ Fail \/ Filter => UNCHANGED req
  BY DEF FindActor, CheckHeaders, Succeed, Fail, Filter, Throw, Reach
<1>4. QED
  BY <1>1, <1>2, <1>3 DEF Next, vars

LEMMA AskedStep == Asked /\ [Next]_vars => Asked'
BY StepsKeepTheRequest DEF Asked

LEMMA ThrowIsSafe ==
    ASSUME NEW e, Throw(e), Deserved(e)
    PROVE  ErrorsInv'
<1>1. at' = "thrown" /\ exception' = e /\ Handled' = Handled
  BY DEF Throw, Handled
<1>2. QED
  BY <1>1 DEF ErrorsInv, ErrorsTellTheirCode, Deserved

LEMMA ReachIsSafe ==
    ASSUME NEW stage, Reach(stage), stage \notin {"thrown", "answered"}
    PROVE  ErrorsInv'
BY DEF Reach, ErrorsInv, ErrorsTellTheirCode

LEMMA DeservedErrors ==
    /\ Deserved(Crash) /\ Deserved(Thrown(400, Plain)) /\ Deserved(Thrown(404, Plain))
    /\ Deserved(BadRequest(400, Invalid))
    /\ \A code : Deserved(Failure(code))
    /\ Handled.by = "actor" => Deserved(BadRequest(401, Unauthenticated))
    /\ Handled.by = "resolver" =>
          \A code \in {Unauthenticated, Technical} : Deserved(Unauthorized(code))
<1>1. Deserved(Unauthorized(Unauthenticated))
  BY TransportStatuses DEF Deserved, Unauthorized, Thrown, Truthful, buildErrorResponse, Plain
<1>2. \A code : Deserved(Failure(code))
  BY FailuresAreTruthful DEF Deserved
<1>3. Deserved(BadRequest(400, Invalid))
  BY BadInputIsTruthful DEF Deserved
<1>4. QED
  BY <1>1, <1>2, <1>3 DEF Deserved

LEMMA CodesOfPlainErrors ==
    /\ transportCodeForStatus(400) = Invalid
    /\ transportCodeForStatus(404) = "RESOURCE_NOT_FOUND"
<1>1. ASSUME NEW s, s # HttpStatus.UNAUTHORIZED, s # HttpStatus.FORBIDDEN,
             s # HttpStatus.NOT_FOUND, s # HttpStatus.TOO_MANY_REQUESTS, ~(s >= 500)
      PROVE  transportCodeForStatus(s) = Invalid
  BY <1>1, Zenon DEF transportCodeForStatus
<1>2. ASSUME NEW s, s # HttpStatus.UNAUTHORIZED, s # HttpStatus.FORBIDDEN,
             s = HttpStatus.NOT_FOUND, s # HttpStatus.TOO_MANY_REQUESTS
      PROVE  transportCodeForStatus(s) = "RESOURCE_NOT_FOUND"
  BY <1>2, Zenon DEF transportCodeForStatus
<1>3. /\ 400 # HttpStatus.UNAUTHORIZED /\ 400 # HttpStatus.FORBIDDEN
      /\ 400 # HttpStatus.NOT_FOUND /\ 400 # HttpStatus.TOO_MANY_REQUESTS /\ ~(400 >= 500)
      /\ 404 # HttpStatus.UNAUTHORIZED /\ 404 # HttpStatus.FORBIDDEN
      /\ 404 = HttpStatus.NOT_FOUND /\ 404 # HttpStatus.TOO_MANY_REQUESTS
  BY DEF HttpStatus
<1>4. QED
  BY <1>1, <1>2, <1>3

LEMMA FilterIsSafe ==
    ASSUME ErrorsInv, Filter
    PROVE  ErrorsInv'
<1>1. at' = "answered" /\ Handled' = Handled /\ Deserved(exception)
  BY DEF Filter, Handled, ErrorsInv
<1>2. CASE exception = Crash
  <2>1. answer' = [http |-> 500, body |-> buildErrorResponse(Technical)]
    BY <1>2 DEF Filter, Crash
  <2>2. QED
    BY <1>1, <2>1, TransportStatuses
       DEF ErrorsInv, ErrorsTellTheirCode, buildErrorResponse
<1>3. CASE exception = Thrown(400, Plain)
  <2>1. transportCodeForStatus(400) = Invalid
    BY CodesOfPlainErrors
  <2>2. answer' = [http |-> 400, body |-> [status |-> 400, code |-> Invalid]]
    BY <1>3, <2>1 DEF Filter, Thrown
  <2>3. QED
    BY <1>1, <2>2, TransportStatuses DEF ErrorsInv, ErrorsTellTheirCode, buildErrorResponse
<1>4. CASE exception = Thrown(404, Plain)
  <2>1. transportCodeForStatus(404) = "RESOURCE_NOT_FOUND"
    BY CodesOfPlainErrors
  <2>2. answer' = [http |-> 404, body |-> [status |-> 404, code |-> "RESOURCE_NOT_FOUND"]]
    BY <1>4, <2>1 DEF Filter, Thrown
  <2>3. QED
    BY <1>1, <2>2, TransportStatuses DEF ErrorsInv, ErrorsTellTheirCode, buildErrorResponse
<1>5. CASE exception.http /\ exception.body # Plain /\ Truthful(exception)
  <2>1. answer' = [http |-> exception.status, body |-> exception.body]
    BY <1>5 DEF Filter
  <2>2. QED
    BY <1>1, <1>5, <2>1 DEF ErrorsInv, ErrorsTellTheirCode, Truthful
<1>6. CASE Handled.by = "actor" /\ exception = BadRequest(401, Unauthenticated)
  <2>1. answer' = [http |-> 400, body |-> [status |-> 401, code |-> Unauthenticated]]
    BY <1>6 DEF Filter, BadRequest, Thrown, Plain
  <2>2. QED
    BY <1>1, <1>6, <2>1, TransportStatuses
       DEF ErrorsInv, ErrorsTellTheirCode, Misreported, buildErrorResponse
<1>7. CASE Handled.by = "resolver" /\ exception = Unauthorized(Technical)
  <2>1. answer' = [http |-> 401, body |-> buildErrorResponse(Technical)]
    BY <1>7, TransportStatuses DEF Filter, Unauthorized, Thrown, Plain, buildErrorResponse
  <2>2. QED
    BY <1>1, <1>7, <2>1 DEF ErrorsInv, ErrorsTellTheirCode, Misreported
<1>8. QED
  BY <1>1, <1>2, <1>3, <1>4, <1>5, <1>6, <1>7 DEF Deserved

LEMMA ErrorsStep == Asked /\ ErrorsInv /\ [Next]_vars => ErrorsInv'
<1> SUFFICES ASSUME Asked, ErrorsInv, [Next]_vars PROVE ErrorsInv'
  OBVIOUS
<1>1. \A code \in TokenChecks(req.auth) : code \in {"none", Unauthenticated, Technical}
  BY RequestsAreTyped, TokenCodes DEF Asked
<1>2. CASE NoRoute
  BY <1>2, ThrowIsSafe, DeservedErrors DEF NoRoute
<1>3. CASE ParseBody
  BY <1>3, ThrowIsSafe, ReachIsSafe, DeservedErrors DEF ParseBody
<1>4. CASE Guard
  BY <1>4, ThrowIsSafe, ReachIsSafe, DeservedErrors DEF Guard
<1>5. CASE Validate
  BY <1>5, ThrowIsSafe, ReachIsSafe, DeservedErrors DEF Validate
<1>6. CASE ResolveSession
  BY <1>1, <1>6, ThrowIsSafe, ReachIsSafe, DeservedErrors DEF ResolveSession
<1>7. CASE FindActor
  BY <1>7, ThrowIsSafe, DeservedErrors DEF FindActor
<1>8. CASE CheckHeaders
  BY <1>8, ThrowIsSafe, ReachIsSafe, DeservedErrors DEF CheckHeaders
<1>9. CASE CheckSignature
  <2>1. \/ Throw(BadRequest(400, Invalid)) \/ Throw(Failure("INVALID_WEBHOOK_SIGNATURE"))
        \/ Reach("called")
    BY <1>9, Zenon DEF CheckSignature
  <2>2. QED
    BY <2>1, ThrowIsSafe, ReachIsSafe, DeservedErrors
<1>10. CASE Succeed
  BY <1>10 DEF Succeed, ErrorsInv, ErrorsTellTheirCode
<1>11. CASE Fail
  BY <1>11, ThrowIsSafe, DeservedErrors DEF Fail
<1>12. CASE Filter
  BY <1>12, FilterIsSafe
<1>13. CASE UNCHANGED vars
  BY <1>13 DEF vars, ErrorsInv, ErrorsTellTheirCode, Deserved, Misreported, Handled
<1>14. QED
  BY <1>2, <1>3, <1>4, <1>5, <1>6, <1>7, <1>8, <1>9, <1>10, <1>11, <1>12, <1>13 DEF Next

LEMMA AskedInvariant == Spec => []Asked
BY AskedInit, AskedStep, PTL DEF Spec

(* A client may trust the code of an error body, whatever operation it     *)
(* called and wherever the request failed, but for the two exceptions of   *)
(* Misreported: the status sent and the status in the body are the code's. *)
THEOREM ErrorsAreTruthful == Spec => []ErrorsTellTheirCode
<1>1. Init => ErrorsInv
  BY DEF Init, ErrorsInv, ErrorsTellTheirCode
<1>2. ErrorsInv => ErrorsTellTheirCode
  BY DEF ErrorsInv
<1>3. QED
  BY <1>1, <1>2, ErrorsStep, AskedInvariant, PTL DEF Spec
-----------------------------------------------------------------------------
(* Tables in parts.                                                        *)

LEMMA JoinedRow ==
    ASSUME NEW P, NEW x \in DOMAIN Joined(P)
    PROVE  \E t \in P : x \in DOMAIN t /\ Joined(P)[x] = t[x]
BY DEF Joined

LEMMA JoinedHas ==
    ASSUME NEW P, NEW t \in P, NEW x \in DOMAIN t, \A u \in P : x \in DOMAIN u => u = t
    PROVE  x \in DOMAIN Joined(P) /\ Joined(P)[x] = t[x]
<1>1. x \in DOMAIN Joined(P)
  BY DEF Joined
<1>2. QED
  BY <1>1, JoinedRow

-----------------------------------------------------------------------------
(* Bodies.  Every field of a schema is checked for the type its controller *)
(* casts it to, and for the width of its column unless it is Unlimited.    *)

SuitsType(n, f, c) ==
    /\ JsonType(c) \in TypeOfField(n, f)
    /\ c.nullable => "null" \in TypeOfField(n, f)
    /\ ~c.required => "undefined" \in TypeOfField(n, f)
SuitsColumn(n, f, c) ==
    f \in DOMAIN Columns(n) /\ f \notin Unlimited =>
        c.check \in {"string", "integer"} /\ Columns(n)[f] \in Nat /\ c.max <= Columns(n)[f]
Suits(n, f, c) ==
    /\ c.check \in {"string", "integer", "enum", "boolean", "array"}
    /\ c.min \in Int /\ c.max \in Int
    /\ SuitsType(n, f, c) /\ SuitsColumn(n, f, c)
SchemaSuits(n) == \A f \in DOMAIN Validators[n].fields : Suits(n, f, Validators[n].fields[f])

(* What a validator of one field checks.                                   *)
Checks(c, check, min, max, required, nullable) ==
    /\ c.check = check /\ c.min = min /\ c.max = max
    /\ c.required <=> required
    /\ c.nullable <=> nullable

LEMMA Checkers ==
    /\ \A a, b : Checks(String(a, b), "string", a, b, TRUE, FALSE)
    /\ \A a, b : Checks(Integer(a, b), "integer", a, b, TRUE, FALSE)
    /\ \A a, b : Checks(Array(a, b), "array", a, b, TRUE, FALSE)
    /\ \A b : Checks(Email(b), "string", 0, b, TRUE, FALSE)
    /\ Checks(Text, "string", 0, NoLimit, TRUE, FALSE)
    /\ Checks(Uuid, "string", 0, NoLimit, TRUE, FALSE)
    /\ Checks(Enum, "enum", 0, NoLimit, TRUE, FALSE)
    /\ Checks(Boolean, "boolean", 0, NoLimit, TRUE, FALSE)
    /\ \A a, b : Checks(Optional(String(a, b)), "string", a, b, FALSE, FALSE)
    /\ Checks(Optional(Uuid), "string", 0, NoLimit, FALSE, FALSE)
    /\ \A a, b : Checks(Nullable(String(a, b)), "string", a, b, FALSE, TRUE)
    /\ Checks(Nullable(Bounded("string", 0, NoLimit, TRUE)), "string", 0, NoLimit, FALSE, TRUE)
BY DEF Checks, Bounded, String, Integer, Array, Email, Text, Uuid, Enum, Boolean, Optional, Nullable

(* The fields whose type is not simply string.                             *)
Special == {"images", "active", "guest_session_id", "target_path", "phone", "display_name"}

LEMMA FieldTypes ==
    /\ \A n, f : f \in Numbers => TypeOfField(n, f) = {"number"}
    /\ \A n, f : f \notin Numbers \union Special => TypeOfField(n, f) = {"string"}
    /\ \A n : TypeOfField(n, "images") = {"array"}
    /\ \A n : TypeOfField(n, "active") = {"boolean"}
    /\ \A n : TypeOfField(n, "guest_session_id") = {"string", "undefined"}
    /\ \A n : TypeOfField(n, "target_path") = {"string", "null", "undefined"}
    /\ \A n : n # "CreateCheckoutRequest" =>
                 TypeOfField(n, "phone") = {"string", "null", "undefined"}
    /\ TypeOfField("CreateCheckoutRequest", "phone") = {"string"}
    /\ TypeOfField("UpdateProfileRequest", "display_name") = {"string", "undefined"}
    /\ \A n : n # "UpdateProfileRequest" => TypeOfField(n, "display_name") = {"string"}
<1>1. \A f \in Numbers : f \notin Special
  BY DEF Numbers, Special
<1>2. ASSUME NEW n, NEW f, f \in Numbers, f \notin Special
      PROVE  TypeOfField(n, f) = {"number"}
  BY <1>2, Zenon DEF TypeOfField, Special
<1>3. ASSUME NEW n, NEW f, f \notin Numbers, f \notin Special
      PROVE  TypeOfField(n, f) = {"string"}
  BY <1>3, Zenon DEF TypeOfField, Special
<1>4. \A f \in Special : f \notin Numbers
  BY <1>1
<1>5. /\ "images" \notin Numbers /\ "active" \notin Numbers /\ "guest_session_id" \notin Numbers
      /\ "target_path" \notin Numbers /\ "phone" \notin Numbers /\ "display_name" \notin Numbers
  BY <1>4 DEF Special
<1>6. ASSUME NEW n PROVE TypeOfField(n, "images") = {"array"}
  BY <1>5, Zenon DEF TypeOfField
<1>7. ASSUME NEW n PROVE TypeOfField(n, "active") = {"boolean"}
  BY <1>5, Zenon DEF TypeOfField
<1>8. ASSUME NEW n PROVE TypeOfField(n, "guest_session_id") = {"string", "undefined"}
  BY <1>5, Zenon DEF TypeOfField
<1>9. ASSUME NEW n PROVE TypeOfField(n, "target_path") = {"string", "null", "undefined"}
  BY <1>5, Zenon DEF TypeOfField
<1>10. ASSUME NEW n, n # "CreateCheckoutRequest"
       PROVE  TypeOfField(n, "phone") = {"string", "null", "undefined"}
  BY <1>5, <1>10, Zenon DEF TypeOfField
<1>11. TypeOfField("CreateCheckoutRequest", "phone") = {"string"}
  BY <1>5, Zenon DEF TypeOfField
<1>12. TypeOfField("UpdateProfileRequest", "display_name") = {"string", "undefined"}
  BY <1>5, Zenon DEF TypeOfField
<1>13. ASSUME NEW n, n # "UpdateProfileRequest"
       PROVE  TypeOfField(n, "display_name") = {"string"}
  BY <1>5, <1>13, Zenon DEF TypeOfField
<1>14. \A n, f : f \in Numbers => TypeOfField(n, f) = {"number"}
  BY <1>1, <1>2
<1>15. \A n, f : f \notin Numbers \union Special => TypeOfField(n, f) = {"string"}
  BY <1>3
<1>16. QED
  BY <1>6, <1>7, <1>8, <1>9, <1>10, <1>11, <1>12, <1>13, <1>14, <1>15

LEMMA ColumnsOfSchemas ==
    /\ \A n \in {"RegisterRequest", "UpdateProfileRequest", "CreateAdminUserRequest"} :
          Columns(n) = UserColumns
    /\ Columns("CategoryWriteRequest") = CategoryColumns
    /\ \A n \in {"ProductWriteRequest", "ProductUpdateRequest"} : Columns(n) = ProductColumns
    /\ Columns("BannerWriteRequest") = BannerColumns
    /\ \A n \in {"CartItemMutationRequest", "SetCartItemQuantityRequest"} :
          Columns(n) = CartItemColumns
    /\ Columns("StockAdjustmentRequest") = AdjustmentColumns
    /\ Columns("CreateCheckoutRequest") = OrderColumns
    /\ \A n \in {"LoginRequest", "PasswordResetRequest", "PasswordResetConfirmRequest",
                 "PasswordChangeRequest", "AdminActivationRequest", "CreateUploadUrlRequest"} :
          DOMAIN Columns(n) = {}
<1>1. ASSUME NEW n \in {"RegisterRequest", "UpdateProfileRequest", "CreateAdminUserRequest"}
      PROVE  Columns(n) = UserColumns
  BY Zenon DEF Columns
<1>2. Columns("CategoryWriteRequest") = CategoryColumns
  BY Zenon DEF Columns
<1>3. ASSUME NEW n \in {"ProductWriteRequest", "ProductUpdateRequest"}
      PROVE  Columns(n) = ProductColumns
  BY Zenon DEF Columns
<1>4. Columns("BannerWriteRequest") = BannerColumns
  BY Zenon DEF Columns
<1>5. ASSUME NEW n \in {"CartItemMutationRequest", "SetCartItemQuantityRequest"}
      PROVE  Columns(n) = CartItemColumns
  BY Zenon DEF Columns
<1>6. Columns("StockAdjustmentRequest") = AdjustmentColumns
  BY Zenon DEF Columns
<1>7. Columns("CreateCheckoutRequest") = OrderColumns
  BY Zenon DEF Columns
<1>8. ASSUME NEW n \in {"LoginRequest", "PasswordResetRequest", "PasswordResetConfirmRequest",
                        "PasswordChangeRequest", "AdminActivationRequest", "CreateUploadUrlRequest"}
      PROVE  DOMAIN Columns(n) = {}
  <2>1. Columns(n) = [f \in {} |-> 0]
    BY Zenon DEF Columns
  <2>2. QED
    BY <2>1
<1>9. QED
  BY <1>1, <1>2, <1>3, <1>4, <1>5, <1>6, <1>7, <1>8

LEMMA ColumnWidths ==
    /\ NoLimit \in Int
    /\ DOMAIN UserColumns = {"display_name", "email", "phone"}
    /\ UserColumns["display_name"] = 100 /\ UserColumns["email"] = 254 /\ UserColumns["phone"] = 30
    /\ DOMAIN CategoryColumns = {"name"} /\ CategoryColumns["name"] = 100
    /\ DOMAIN BannerColumns = {"name", "display_order"} /\ BannerColumns["name"] = 160
    /\ DOMAIN CartItemColumns = {"quantity"}
    /\ CartItemColumns["quantity"] \in Nat /\ 999 <= CartItemColumns["quantity"]
    /\ DOMAIN AdjustmentColumns = {"quantity_delta", "reason"} /\ AdjustmentColumns["reason"] = 500
    /\ DOMAIN OrderColumns = {"recipient_name", "line1", "city", "phone"}
    /\ OrderColumns["recipient_name"] = 100 /\ OrderColumns["line1"] = 180
    /\ OrderColumns["city"] = 100 /\ OrderColumns["phone"] = 30
    /\ DOMAIN ProductColumns =
            {"name", "unit", "stock_on_hand", "images_alt_text",
             "images_position", "regular_price_cop", "sale_price_cop"}
    /\ ProductColumns["name"] = 160 /\ ProductColumns["unit"] = 40
    /\ ProductColumns["images_alt_text"] = 160
    /\ {"quantity_delta", "display_order", "stock_on_hand", "images_position", "regular_price_cop",
        "sale_price_cop"} \subseteq Unlimited
BY WidthsAssumption
   DEF NoLimit, UserColumns, CategoryColumns, BannerColumns, CartItemColumns, AdjustmentColumns,
       OrderColumns, ProductColumns, Unlimited

LEMMA RegisterRequestSuits == SchemaSuits("RegisterRequest")
<1> DEFINE n == "RegisterRequest"
           F == Validators[n].fields
<1>1. Columns(n) = UserColumns
  BY ColumnsOfSchemas
<1>2. DOMAIN F = {"display_name", "email", "password", "guest_session_id"}
  BY DEF Validators, RegisterRequest, Schema, Open, Password
<1>3. /\ Checks(F["display_name"], "string", 2, 100, TRUE, FALSE)
      /\ Checks(F["email"], "string", 0, 254, TRUE, FALSE)
      /\ Checks(F["password"], "string", 12, 128, TRUE, FALSE)
      /\ Checks(F["guest_session_id"], "string", 0, NoLimit, FALSE, FALSE)
  BY Checkers DEF Validators, RegisterRequest, Schema, Open, Password
<1>4. /\ TypeOfField(n, "display_name") = {"string"}
      /\ TypeOfField(n, "email") = {"string"}
      /\ TypeOfField(n, "password") = {"string"}
      /\ TypeOfField(n, "guest_session_id") = {"string", "undefined"}
  BY FieldTypes DEF Numbers, Special
<1> HIDE DEF n, F
<1>5. /\ Suits(n, "display_name", F["display_name"])
      /\ Suits(n, "email", F["email"])
      /\ Suits(n, "password", F["password"])
      /\ Suits(n, "guest_session_id", F["guest_session_id"])
  BY <1>1, <1>3, <1>4, ColumnWidths DEF Suits, Checks, SuitsType, SuitsColumn, JsonType
<1>6. QED
  BY <1>2, <1>5 DEF SchemaSuits, n, F

LEMMA LoginRequestSuits == SchemaSuits("LoginRequest")
<1> DEFINE n == "LoginRequest"
           F == Validators[n].fields
<1>1. DOMAIN Columns(n) = {}
  BY ColumnsOfSchemas
<1>2. DOMAIN F = {"email", "password", "guest_session_id"}
  BY DEF Validators, LoginRequest, Schema, Open
<1>3. /\ Checks(F["email"], "string", 0, NoLimit, TRUE, FALSE)
      /\ Checks(F["password"], "string", 1, 128, TRUE, FALSE)
      /\ Checks(F["guest_session_id"], "string", 0, NoLimit, FALSE, FALSE)
  BY Checkers DEF Validators, LoginRequest, Schema, Open
<1>4. /\ TypeOfField(n, "email") = {"string"}
      /\ TypeOfField(n, "password") = {"string"}
      /\ TypeOfField(n, "guest_session_id") = {"string", "undefined"}
  BY FieldTypes DEF Numbers, Special
<1> HIDE DEF n, F
<1>5. /\ Suits(n, "email", F["email"])
      /\ Suits(n, "password", F["password"])
      /\ Suits(n, "guest_session_id", F["guest_session_id"])
  BY <1>1, <1>3, <1>4, ColumnWidths DEF Suits, Checks, SuitsType, SuitsColumn, JsonType
<1>6. QED
  BY <1>2, <1>5 DEF SchemaSuits, n, F

LEMMA PasswordResetRequestSuits == SchemaSuits("PasswordResetRequest")
<1> DEFINE n == "PasswordResetRequest"
           F == Validators[n].fields
<1>1. DOMAIN Columns(n) = {}
  BY ColumnsOfSchemas
<1>2. DOMAIN F = {"email"}
  BY DEF Validators, PasswordResetRequest, Schema, Open
<1>3. /\ Checks(F["email"], "string", 0, NoLimit, TRUE, FALSE)
  BY Checkers DEF Validators, PasswordResetRequest, Schema, Open
<1>4. /\ TypeOfField(n, "email") = {"string"}
  BY FieldTypes DEF Numbers, Special
<1> HIDE DEF n, F
<1>5. /\ Suits(n, "email", F["email"])
  BY <1>1, <1>3, <1>4, ColumnWidths DEF Suits, Checks, SuitsType, SuitsColumn, JsonType
<1>6. QED
  BY <1>2, <1>5 DEF SchemaSuits, n, F

LEMMA PasswordResetConfirmRequestSuits == SchemaSuits("PasswordResetConfirmRequest")
<1> DEFINE n == "PasswordResetConfirmRequest"
           F == Validators[n].fields
<1>1. DOMAIN Columns(n) = {}
  BY ColumnsOfSchemas
<1>2. DOMAIN F = {"token", "new_password"}
  BY DEF Validators, PasswordResetConfirmRequest, Schema, Open, Password
<1>3. /\ Checks(F["token"], "string", 32, 512, TRUE, FALSE)
      /\ Checks(F["new_password"], "string", 12, 128, TRUE, FALSE)
  BY Checkers, ZenonT(60) DEF Validators, PasswordResetConfirmRequest, Schema, Open, Password
<1>4. /\ TypeOfField(n, "token") = {"string"}
      /\ TypeOfField(n, "new_password") = {"string"}
  BY FieldTypes DEF Numbers, Special
<1> HIDE DEF n, F
<1>5. /\ Suits(n, "token", F["token"])
      /\ Suits(n, "new_password", F["new_password"])
  BY <1>1, <1>3, <1>4, ColumnWidths DEF Suits, Checks, SuitsType, SuitsColumn, JsonType
<1>6. QED
  BY <1>2, <1>5 DEF SchemaSuits, n, F

LEMMA UpdateProfileRequestSuits == SchemaSuits("UpdateProfileRequest")
<1> DEFINE n == "UpdateProfileRequest"
           F == Validators[n].fields
<1>1. Columns(n) = UserColumns
  BY ColumnsOfSchemas
<1>2. DOMAIN F = {"display_name", "phone"}
  BY DEF Validators, UpdateProfileRequest, Schema
<1>3. /\ Checks(F["display_name"], "string", 2, 100, FALSE, FALSE)
      /\ Checks(F["phone"], "string", 0, 30, FALSE, TRUE)
  BY Checkers DEF Validators, UpdateProfileRequest, Schema
<1>4. /\ TypeOfField(n, "display_name") = {"string", "undefined"}
      /\ TypeOfField(n, "phone") = {"string", "null", "undefined"}
  BY FieldTypes DEF Numbers, Special
<1> HIDE DEF n, F
<1>5. /\ Suits(n, "display_name", F["display_name"])
      /\ Suits(n, "phone", F["phone"])
  BY <1>1, <1>3, <1>4, ColumnWidths DEF Suits, Checks, SuitsType, SuitsColumn, JsonType
<1>6. QED
  BY <1>2, <1>5 DEF SchemaSuits, n, F

LEMMA PasswordChangeRequestSuits == SchemaSuits("PasswordChangeRequest")
<1> DEFINE n == "PasswordChangeRequest"
           F == Validators[n].fields
<1>1. DOMAIN Columns(n) = {}
  BY ColumnsOfSchemas
<1>2. DOMAIN F = {"current_password", "new_password"}
  BY DEF Validators, PasswordChangeRequest, Schema, Closed, Password
<1>3. /\ Checks(F["current_password"], "string", 1, 128, TRUE, FALSE)
      /\ Checks(F["new_password"], "string", 12, 128, TRUE, FALSE)
  BY Checkers DEF Validators, PasswordChangeRequest, Schema, Closed, Password
<1>4. /\ TypeOfField(n, "current_password") = {"string"}
      /\ TypeOfField(n, "new_password") = {"string"}
  BY FieldTypes DEF Numbers, Special
<1> HIDE DEF n, F
<1>5. /\ Suits(n, "current_password", F["current_password"])
      /\ Suits(n, "new_password", F["new_password"])
  BY <1>1, <1>3, <1>4, ColumnWidths DEF Suits, Checks, SuitsType, SuitsColumn, JsonType
<1>6. QED
  BY <1>2, <1>5 DEF SchemaSuits, n, F

LEMMA CreateAdminUserRequestSuits == SchemaSuits("CreateAdminUserRequest")
<1> DEFINE n == "CreateAdminUserRequest"
           F == Validators[n].fields
<1>1. Columns(n) = UserColumns
  BY ColumnsOfSchemas
<1>2. DOMAIN F = {"display_name", "email", "phone"}
  BY DEF Validators, CreateAdminUserRequest, Schema, Closed
<1>3. /\ Checks(F["display_name"], "string", 2, 100, TRUE, FALSE)
      /\ Checks(F["email"], "string", 0, 254, TRUE, FALSE)
      /\ Checks(F["phone"], "string", 0, 30, FALSE, TRUE)
  BY Checkers DEF Validators, CreateAdminUserRequest, Schema, Closed
<1>4. /\ TypeOfField(n, "display_name") = {"string"}
      /\ TypeOfField(n, "email") = {"string"}
      /\ TypeOfField(n, "phone") = {"string", "null", "undefined"}
  BY FieldTypes DEF Numbers, Special
<1> HIDE DEF n, F
<1>5. /\ Suits(n, "display_name", F["display_name"])
      /\ Suits(n, "email", F["email"])
      /\ Suits(n, "phone", F["phone"])
  BY <1>1, <1>3, <1>4, ColumnWidths DEF Suits, Checks, SuitsType, SuitsColumn, JsonType
<1>6. QED
  BY <1>2, <1>5 DEF SchemaSuits, n, F

LEMMA AdminActivationRequestSuits == SchemaSuits("AdminActivationRequest")
<1> DEFINE n == "AdminActivationRequest"
           F == Validators[n].fields
<1>1. DOMAIN Columns(n) = {}
  BY ColumnsOfSchemas
<1>2. DOMAIN F = {"token", "new_password"}
  BY DEF Validators, AdminActivationRequest, Schema, Closed, Password
<1>3. /\ Checks(F["token"], "string", 32, 512, TRUE, FALSE)
      /\ Checks(F["new_password"], "string", 12, 128, TRUE, FALSE)
  BY Checkers, ZenonT(60) DEF Validators, AdminActivationRequest, Schema, Closed, Password
<1>4. /\ TypeOfField(n, "token") = {"string"}
      /\ TypeOfField(n, "new_password") = {"string"}
  BY FieldTypes DEF Numbers, Special
<1> HIDE DEF n, F
<1>5. /\ Suits(n, "token", F["token"])
      /\ Suits(n, "new_password", F["new_password"])
  BY <1>1, <1>3, <1>4, ColumnWidths DEF Suits, Checks, SuitsType, SuitsColumn, JsonType
<1>6. QED
  BY <1>2, <1>5 DEF SchemaSuits, n, F

LEMMA CartItemMutationRequestSuits == SchemaSuits("CartItemMutationRequest")
<1> DEFINE n == "CartItemMutationRequest"
           F == Validators[n].fields
<1>1. Columns(n) = CartItemColumns
  BY ColumnsOfSchemas
<1>2. DOMAIN F = {"product_id", "quantity"}
  BY DEF Validators, CartItemMutationRequest, Schema, Open
<1>3. /\ Checks(F["product_id"], "string", 0, NoLimit, TRUE, FALSE)
      /\ Checks(F["quantity"], "integer", 1, 999, TRUE, FALSE)
  BY DEF Checks, Bounded, Integer, Enum, Uuid, Validators, CartItemMutationRequest, Schema, Open
<1>4. /\ TypeOfField(n, "product_id") = {"string"}
      /\ TypeOfField(n, "quantity") = {"number"}
  BY FieldTypes DEF Numbers, Special
<1> HIDE DEF n, F
<1>5. /\ Suits(n, "product_id", F["product_id"])
      /\ Suits(n, "quantity", F["quantity"])
  BY <1>1, <1>3, <1>4, ColumnWidths DEF Suits, Checks, SuitsType, SuitsColumn, JsonType
<1>6. QED
  BY <1>2, <1>5 DEF SchemaSuits, n, F

LEMMA SetCartItemQuantityRequestSuits == SchemaSuits("SetCartItemQuantityRequest")
<1> DEFINE n == "SetCartItemQuantityRequest"
           F == Validators[n].fields
<1>1. Columns(n) = CartItemColumns
  BY ColumnsOfSchemas
<1>2. DOMAIN F = {"quantity"}
  BY DEF Validators, SetCartItemQuantityRequest, Schema, Open
<1>3. /\ Checks(F["quantity"], "integer", 1, 999, TRUE, FALSE)
  BY DEF Checks, Bounded, Integer, Enum, Uuid, Validators, SetCartItemQuantityRequest, Schema, Open
<1>4. /\ TypeOfField(n, "quantity") = {"number"}
  BY FieldTypes DEF Numbers, Special
<1> HIDE DEF n, F
<1>5. /\ Suits(n, "quantity", F["quantity"])
  BY <1>1, <1>3, <1>4, ColumnWidths DEF Suits, Checks, SuitsType, SuitsColumn, JsonType
<1>6. QED
  BY <1>2, <1>5 DEF SchemaSuits, n, F

LEMMA CategoryWriteRequestSuits == SchemaSuits("CategoryWriteRequest")
<1> DEFINE n == "CategoryWriteRequest"
           F == Validators[n].fields
<1>1. Columns(n) = CategoryColumns
  BY ColumnsOfSchemas
<1>2. DOMAIN F = {"name", "image_key"}
  BY DEF Validators, CategoryWriteRequest, Schema, Open
<1>3. /\ Checks(F["name"], "string", 2, 100, TRUE, FALSE)
      /\ Checks(F["image_key"], "string", 1, NoLimit, TRUE, FALSE)
  BY Checkers DEF Validators, CategoryWriteRequest, Schema, Open
<1>4. /\ TypeOfField(n, "name") = {"string"}
      /\ TypeOfField(n, "image_key") = {"string"}
  BY FieldTypes DEF Numbers, Special
<1> HIDE DEF n, F
<1>5. /\ Suits(n, "name", F["name"])
      /\ Suits(n, "image_key", F["image_key"])
  BY <1>1, <1>3, <1>4, ColumnWidths DEF Suits, Checks, SuitsType, SuitsColumn, JsonType
<1>6. QED
  BY <1>2, <1>5 DEF SchemaSuits, n, F

LEMMA StockAdjustmentRequestSuits == SchemaSuits("StockAdjustmentRequest")
<1> DEFINE n == "StockAdjustmentRequest"
           F == Validators[n].fields
<1>1. Columns(n) = AdjustmentColumns
  BY ColumnsOfSchemas
<1>2. DOMAIN F = {"quantity_delta", "reason"}
  BY DEF Validators, StockAdjustmentRequest, Schema, Closed
<1>3. /\ Checks(F["quantity_delta"], "integer", 1, NoLimit, TRUE, FALSE)
      /\ Checks(F["reason"], "string", 3, 500, TRUE, FALSE)
  BY Checkers, ZenonT(60) DEF Validators, StockAdjustmentRequest, Schema, Closed
<1>4. /\ TypeOfField(n, "quantity_delta") = {"number"}
      /\ TypeOfField(n, "reason") = {"string"}
  BY FieldTypes DEF Numbers, Special
<1> HIDE DEF n, F
<1>5. /\ Suits(n, "quantity_delta", F["quantity_delta"])
      /\ Suits(n, "reason", F["reason"])
  BY <1>1, <1>3, <1>4, ColumnWidths DEF Suits, Checks, SuitsType, SuitsColumn, JsonType
<1>6. QED
  BY <1>2, <1>5 DEF SchemaSuits, n, F

LEMMA BannerWriteRequestSuits == SchemaSuits("BannerWriteRequest")
<1> DEFINE n == "BannerWriteRequest"
           F == Validators[n].fields
<1>1. Columns(n) = BannerColumns
  BY ColumnsOfSchemas
<1>2. DOMAIN F = {"name", "image_key", "target_path", "display_order", "active"}
  BY DEF Validators, BannerWriteRequest, Schema, Open
<1>3. /\ Checks(F["name"], "string", 2, 160, TRUE, FALSE)
      /\ Checks(F["image_key"], "string", 0, NoLimit, TRUE, FALSE)
      /\ Checks(F["target_path"], "string", 0, NoLimit, FALSE, TRUE)
      /\ Checks(F["display_order"], "integer", 0, NoLimit, TRUE, FALSE)
      /\ Checks(F["active"], "boolean", 0, NoLimit, TRUE, FALSE)
  BY Checkers DEF Validators, BannerWriteRequest, Schema, Open
<1>4. /\ TypeOfField(n, "name") = {"string"}
      /\ TypeOfField(n, "image_key") = {"string"}
      /\ TypeOfField(n, "target_path") = {"string", "null", "undefined"}
      /\ TypeOfField(n, "display_order") = {"number"}
      /\ TypeOfField(n, "active") = {"boolean"}
  BY FieldTypes DEF Numbers, Special
<1> HIDE DEF n, F
<1>5. /\ Suits(n, "name", F["name"])
      /\ Suits(n, "image_key", F["image_key"])
      /\ Suits(n, "target_path", F["target_path"])
      /\ Suits(n, "display_order", F["display_order"])
      /\ Suits(n, "active", F["active"])
  BY <1>1, <1>3, <1>4, ColumnWidths DEF Suits, Checks, SuitsType, SuitsColumn, JsonType
<1>6. QED
  BY <1>2, <1>5 DEF SchemaSuits, n, F

LEMMA CreateUploadUrlRequestSuits == SchemaSuits("CreateUploadUrlRequest")
<1> DEFINE n == "CreateUploadUrlRequest"
           F == Validators[n].fields
<1>1. DOMAIN Columns(n) = {}
  BY ColumnsOfSchemas
<1>2. DOMAIN F = {"content_type", "content_length"}
  BY DEF Validators, CreateUploadUrlRequest, Schema, Open
<1>3. /\ Checks(F["content_type"], "enum", 0, NoLimit, TRUE, FALSE)
      /\ Checks(F["content_length"], "integer", 1, 5242880, TRUE, FALSE)
  BY DEF Checks, Bounded, Integer, Enum, Uuid, Validators, CreateUploadUrlRequest, Schema, Open
<1>4. /\ TypeOfField(n, "content_type") = {"string"}
      /\ TypeOfField(n, "content_length") = {"number"}
  BY FieldTypes DEF Numbers, Special
<1> HIDE DEF n, F
<1>5. /\ Suits(n, "content_type", F["content_type"])
      /\ Suits(n, "content_length", F["content_length"])
  BY <1>1, <1>3, <1>4, ColumnWidths DEF Suits, Checks, SuitsType, SuitsColumn, JsonType
<1>6. QED
  BY <1>2, <1>5 DEF SchemaSuits, n, F
LEMMA JoinedTwo ==
    ASSUME NEW a, NEW b, \A x \in DOMAIN a : x \notin DOMAIN b
    PROVE  /\ DOMAIN Joined({a, b}) = DOMAIN a \union DOMAIN b
           /\ \A x \in DOMAIN a : Joined({a, b})[x] = a[x]
           /\ \A x \in DOMAIN b : Joined({a, b})[x] = b[x]
<1> DEFINE P == {a, b}
<1>1. DOMAIN Joined(P) = DOMAIN a \union DOMAIN b
  BY DEF Joined
<1>2. ASSUME NEW t \in P, NEW x \in DOMAIN t PROVE Joined(P)[x] = t[x]
  <2>1. \A u \in P : x \in DOMAIN u => u = t
    OBVIOUS
  <2>2. QED
    BY <2>1, JoinedHas
<1>3. QED
  BY <1>1, <1>2

LEMMA CreateCheckoutRequestSuits == SchemaSuits("CreateCheckoutRequest")
<1> DEFINE n == "CreateCheckoutRequest"
           F == Validators[n].fields
           provider == [payment_provider |-> Enum]
<1>1. Columns(n) = OrderColumns
  BY ColumnsOfSchemas
<1>2. F = Joined({DeliveryAddress, provider})
  BY DEF Validators, CreateCheckoutRequest, Schema, Open
<1>3. /\ DOMAIN DeliveryAddress = {"recipient_name", "line1", "city", "phone"}
      /\ DOMAIN provider = {"payment_provider"}
  BY DEF DeliveryAddress
<1>4. /\ Checks(DeliveryAddress["recipient_name"], "string", 2, 100, TRUE, FALSE)
      /\ Checks(DeliveryAddress["line1"], "string", 5, 180, TRUE, FALSE)
      /\ Checks(DeliveryAddress["city"], "string", 2, 100, TRUE, FALSE)
      /\ Checks(DeliveryAddress["phone"], "string", 7, 30, TRUE, FALSE)
      /\ Checks(provider["payment_provider"], "enum", 0, NoLimit, TRUE, FALSE)
  BY DEF DeliveryAddress, Checks, Bounded, String, Enum
<1>5. /\ TypeOfField(n, "recipient_name") = {"string"}
      /\ TypeOfField(n, "line1") = {"string"}
      /\ TypeOfField(n, "city") = {"string"}
      /\ TypeOfField(n, "phone") = {"string"}
      /\ TypeOfField(n, "payment_provider") = {"string"}
  BY FieldTypes DEF Numbers, Special
<1> HIDE DEF n, F, provider
<1>6. /\ DOMAIN F = {"recipient_name", "line1", "city", "phone", "payment_provider"}
      /\ \A f \in DOMAIN DeliveryAddress : F[f] = DeliveryAddress[f]
      /\ F["payment_provider"] = provider["payment_provider"]
  <2>1. \A x \in DOMAIN DeliveryAddress : x \notin DOMAIN provider
    BY <1>3
  <2>2. LET J == Joined({DeliveryAddress, provider}) IN
        /\ DOMAIN J = DOMAIN DeliveryAddress \union DOMAIN provider
        /\ \A f \in DOMAIN DeliveryAddress : J[f] = DeliveryAddress[f]
        /\ \A f \in DOMAIN provider : J[f] = provider[f]
    BY <2>1, JoinedTwo
  <2>3. QED
    BY <1>2, <1>3, <2>2
<1>7. /\ Suits(n, "recipient_name", F["recipient_name"])
      /\ Suits(n, "line1", F["line1"])
      /\ Suits(n, "city", F["city"])
      /\ Suits(n, "phone", F["phone"])
      /\ Suits(n, "payment_provider", F["payment_provider"])
  BY <1>1, <1>3, <1>4, <1>5, <1>6, ColumnWidths DEF Suits, Checks, SuitsType, SuitsColumn, JsonType
<1>8. QED
  BY <1>6, <1>7 DEF SchemaSuits, n, F

(* The fields of a product.                                                *)
LEMMA ProductParts ==
    /\ DOMAIN ProductFields =
            {"category_id", "name", "description", "regular_price_cop",
             "sale_price_cop", "unit"}
    /\ DOMAIN ProductImages =
            {"images", "images_key", "images_alt_text", "images_position"}
    /\ /\ Checks(ProductFields["category_id"], "string", 0, NoLimit, TRUE, FALSE)
    /\ Checks(ProductFields["name"], "string", 2, 160, TRUE, FALSE)
    /\ Checks(ProductFields["description"], "string", 1, 10000, TRUE, FALSE)
    /\ Checks(ProductFields["regular_price_cop"], "integer", 0, NoLimit, TRUE, FALSE)
    /\ Checks(ProductFields["sale_price_cop"], "integer", 0, NoLimit, TRUE, FALSE)
    /\ Checks(ProductFields["unit"], "string", 1, 40, TRUE, FALSE)
    /\ /\ Checks(ProductImages["images"], "array", 1, 10, TRUE, FALSE)
    /\ Checks(ProductImages["images_key"], "string", 0, NoLimit, TRUE, FALSE)
    /\ Checks(ProductImages["images_alt_text"], "string", 0, 160, TRUE, FALSE)
    /\ Checks(ProductImages["images_position"], "integer", 0, NoLimit, TRUE, FALSE)
BY DEF ProductFields, ProductImages, Checks, Bounded, String, Text, Uuid, Integer, Array

LEMMA ProductTypes ==
    ASSUME NEW n \in {"ProductWriteRequest", "ProductUpdateRequest"}
    PROVE  /\ /\ TypeOfField(n, "category_id") = {"string"}
           /\ TypeOfField(n, "name") = {"string"}
           /\ TypeOfField(n, "description") = {"string"}
           /\ TypeOfField(n, "regular_price_cop") = {"number"}
           /\ TypeOfField(n, "sale_price_cop") = {"number"}
           /\ TypeOfField(n, "unit") = {"string"}
           /\ TypeOfField(n, "images") = {"array"}
           /\ TypeOfField(n, "images_key") = {"string"}
           /\ TypeOfField(n, "images_alt_text") = {"string"}
           /\ TypeOfField(n, "images_position") = {"number"}
           /\ TypeOfField(n, "stock_on_hand") = {"number"}
BY FieldTypes DEF Numbers, Special

LEMMA ProductFieldsSuit ==
    ASSUME NEW n \in {"ProductWriteRequest", "ProductUpdateRequest"}
    PROVE  /\ \A f \in DOMAIN ProductFields : Suits(n, f, ProductFields[f])
           /\ \A f \in DOMAIN ProductImages : Suits(n, f, ProductImages[f])
<1>1. Columns(n) = ProductColumns
  BY ColumnsOfSchemas
<1>2. /\ Suits(n, "category_id", ProductFields["category_id"])
      /\ Suits(n, "name", ProductFields["name"])
      /\ Suits(n, "description", ProductFields["description"])
      /\ Suits(n, "regular_price_cop", ProductFields["regular_price_cop"])
      /\ Suits(n, "sale_price_cop", ProductFields["sale_price_cop"])
      /\ Suits(n, "unit", ProductFields["unit"])
  BY <1>1, ProductParts, ProductTypes, ColumnWidths
     DEF Suits, Checks, SuitsType, SuitsColumn, JsonType
<1>3. /\ Suits(n, "images", ProductImages["images"])
      /\ Suits(n, "images_key", ProductImages["images_key"])
      /\ Suits(n, "images_alt_text", ProductImages["images_alt_text"])
      /\ Suits(n, "images_position", ProductImages["images_position"])
  BY <1>1, ProductParts, ProductTypes, ColumnWidths
     DEF Suits, Checks, SuitsType, SuitsColumn, JsonType
<1>4. QED
  BY <1>2, <1>3, ProductParts

LEMMA ProductUpdateRequestSuits == SchemaSuits("ProductUpdateRequest")
<1> DEFINE F == Validators["ProductUpdateRequest"].fields
<1>1. F = Joined({ProductFields, ProductImages})
  BY DEF Validators, ProductUpdateRequest, Schema, Closed
<1>2. \A x \in DOMAIN ProductFields : x \notin DOMAIN ProductImages
  BY ProductParts
<1> HIDE DEF F
<1>3. LET J == Joined({ProductFields, ProductImages}) IN
      /\ DOMAIN J = DOMAIN ProductFields \union DOMAIN ProductImages
      /\ \A f \in DOMAIN ProductFields : J[f] = ProductFields[f]
      /\ \A f \in DOMAIN ProductImages : J[f] = ProductImages[f]
  BY <1>2, JoinedTwo
<1>4. QED
  BY <1>1, <1>3, ProductFieldsSuit DEF SchemaSuits, F

LEMMA ProductWriteRequestSuits == SchemaSuits("ProductWriteRequest")
<1> DEFINE n == "ProductWriteRequest"
           F == Validators[n].fields
           stock == [stock_on_hand |-> Integer(0, NoLimit)]
<1>1. F = Joined({ProductFields, ProductImages, stock})
  BY DEF Validators, ProductWriteRequest, Schema, Open
<1>2. /\ DOMAIN stock = {"stock_on_hand"}
      /\ Checks(stock["stock_on_hand"], "integer", 0, NoLimit, TRUE, FALSE)
  BY DEF Checks, Bounded, Integer
<1>3. Columns(n) = ProductColumns /\ TypeOfField(n, "stock_on_hand") = {"number"}
  BY ColumnsOfSchemas, ProductTypes
<1>4. /\ \A f \in DOMAIN ProductFields : Suits(n, f, ProductFields[f])
      /\ \A f \in DOMAIN ProductImages : Suits(n, f, ProductImages[f])
  BY ProductFieldsSuit
<1> HIDE DEF n, F, stock
<1>5. Suits(n, "stock_on_hand", stock["stock_on_hand"])
  BY <1>2, <1>3, ColumnWidths DEF Suits, Checks, SuitsType, SuitsColumn, JsonType
<1> DEFINE P == {ProductFields, ProductImages, stock}
<1>6. DOMAIN Joined(P) = DOMAIN ProductFields \union DOMAIN ProductImages \union DOMAIN stock
  BY DEF Joined
<1>7. ASSUME NEW t \in P, NEW x \in DOMAIN t PROVE Joined(P)[x] = t[x]
  <2>1. \A u \in P : x \in DOMAIN u => u = t
    BY <1>2, ProductParts
  <2>2. QED
    BY <2>1, JoinedHas
<1>8. QED
  BY <1>1, <1>2, <1>4, <1>5, <1>6, <1>7 DEF SchemaSuits, n, F

LEMMA AllSchemasSuit == \A n \in DOMAIN Validators : SchemaSuits(n)
<1>1. DOMAIN Validators =
        {"RegisterRequest", "LoginRequest", "PasswordResetRequest",
         "PasswordResetConfirmRequest", "UpdateProfileRequest",
         "PasswordChangeRequest", "CreateAdminUserRequest",
         "AdminActivationRequest", "CreateCheckoutRequest",
         "CartItemMutationRequest", "SetCartItemQuantityRequest",
         "CategoryWriteRequest", "ProductWriteRequest",
         "ProductUpdateRequest", "StockAdjustmentRequest",
         "BannerWriteRequest", "CreateUploadUrlRequest"}
  BY DEF Validators
<1>2. QED
  BY <1>1, RegisterRequestSuits, LoginRequestSuits, PasswordResetRequestSuits,
     PasswordResetConfirmRequestSuits, UpdateProfileRequestSuits,
     PasswordChangeRequestSuits, CreateAdminUserRequestSuits,
     AdminActivationRequestSuits, CreateCheckoutRequestSuits,
     CartItemMutationRequestSuits, SetCartItemQuantityRequestSuits,
     CategoryWriteRequestSuits, ProductWriteRequestSuits,
     ProductUpdateRequestSuits, StockAdjustmentRequestSuits,
     BannerWriteRequestSuits, CreateUploadUrlRequestSuits
(* A value of a body has a size, and null is as small as nothing.          *)
Sized(v) == v.size \in Int /\ (v.type = "null" => v.size = 0)

LEMMA BodyValues ==
    ASSUME NEW s, \A f \in DOMAIN s.fields : s.fields[f].min \in Int /\ s.fields[f].max \in Int,
           NEW b \in BodiesOf(s)
    PROVE  DOMAIN b.fields = DOMAIN s.fields /\ \A f \in DOMAIN b.fields : Sized(b.fields[f])
<1>1. \A c : JsonType(c) # "null" /\ OtherType(c) # "null"
  <2>1. ASSUME NEW c PROVE JsonType(c) # "null"
    BY DEF JsonType
  <2>2. ASSUME NEW c PROVE OtherType(c) # "null"
    BY DEF OtherType
  <2>3. QED
    BY <2>1, <2>2
<1>2. \A f \in DOMAIN s.fields : \A v \in ValuesOf(s.fields[f]) : Sized(v)
  <2> SUFFICES ASSUME NEW f \in DOMAIN s.fields, NEW v \in ValuesOf(s.fields[f]) PROVE Sized(v)
    OBVIOUS
  <2>1. \A n \in Sizes(s.fields[f]) : n \in Int
    BY WidthsAssumption DEF Sizes
  <2>2. QED
    BY <1>1, <2>1 DEF ValuesOf, Sized, Value, Absent
<1> DEFINE Good(x) == DOMAIN x = DOMAIN s.fields /\ \A f \in DOMAIN x : Sized(x[f])
<1>3. Good(Least(s)) /\ Good(Empty(s))
  BY <1>1 DEF Sized, Value, Least, Empty, Absent
<1>4. ASSUME NEW f \in DOMAIN s.fields, NEW v \in ValuesOf(s.fields[f])
      PROVE  Good([Least(s) EXCEPT ![f] = v])
  BY <1>2, <1>3
<1>5. \/ b \in {Body(TRUE, FALSE, Least(s)), Body(FALSE, FALSE, Least(s)), Body(TRUE, TRUE, Least(s)),
                Body(TRUE, FALSE, Empty(s))}
      \/ \E f \in DOMAIN s.fields : \E v \in ValuesOf(s.fields[f]) :
            b = Body(TRUE, FALSE, [Least(s) EXCEPT ![f] = v])
  BY DEF BodiesOf
<1>6. CASE b \in {Body(TRUE, FALSE, Least(s)), Body(FALSE, FALSE, Least(s)), Body(TRUE, TRUE, Least(s)),
                  Body(TRUE, FALSE, Empty(s))}
  <2>1. b.fields = Least(s) \/ b.fields = Empty(s)
    BY <1>6 DEF Body
  <2>2. QED
    BY <1>3, <2>1
<1>7. ASSUME NEW f \in DOMAIN s.fields, NEW v \in ValuesOf(s.fields[f]),
             b = Body(TRUE, FALSE, [Least(s) EXCEPT ![f] = v])
      PROVE  Good(b.fields)
  <2>1. b.fields = [Least(s) EXCEPT ![f] = v]
    BY <1>7 DEF Body
  <2>2. QED
    BY <1>4, <2>1
<1>8. QED
  BY <1>5, <1>6, <1>7

LEMMA AcceptedValues ==
    ASSUME NEW c, NEW v, AcceptsField(c, v),
           c.check \in {"string", "integer", "enum", "boolean", "array"}
    PROVE  \/ ~c.required /\ v = Absent
           \/ c.nullable /\ v.type = "null"
           \/ /\ v.type = JsonType(c)
              /\ c.check \in {"string", "integer"} => v.size <= c.max
<1>1. ASSUME c.check = "string" PROVE Check(c, v) = CheckString(c, v)
  BY <1>1, Zenon DEF Check
<1>2. ASSUME c.check = "integer" PROVE Check(c, v) = CheckInteger(c, v)
  BY <1>2, Zenon DEF Check
<1>3. ASSUME c.check = "enum" PROVE Check(c, v) = CheckEnum(v)
  BY <1>3, Zenon DEF Check
<1>4. ASSUME c.check = "boolean" PROVE Check(c, v) = CheckBoolean(v)
  BY <1>4, Zenon DEF Check
<1>5. ASSUME c.check = "array" PROVE Check(c, v) = CheckArray(c, v)
  BY <1>5, Zenon DEF Check
<1>6. QED
  BY <1>1, <1>2, <1>3, <1>4, <1>5
     DEF AcceptsField, CheckString, CheckInteger, CheckEnum, CheckBoolean, CheckArray, Within, JsonType

(* What a validator accepts has the types of its schema and fits.          *)
LEMMA AcceptedBodies ==
    ASSUME NEW n \in DOMAIN Validators, NEW b \in BodiesOf(Validators[n]),
           Accepts(Validators[n], b)
    PROVE  /\ \A f \in DOMAIN b.fields : b.fields[f].type \in TypeOfField(n, f)
           /\ Overflowing(n, b) \subseteq Unlimited
<1> DEFINE s == Validators[n]
<1>1. \A f \in DOMAIN s.fields : Suits(n, f, s.fields[f])
  BY AllSchemasSuit DEF SchemaSuits
<1> HIDE DEF s
<1>2. \A f \in DOMAIN s.fields : s.fields[f].min \in Int /\ s.fields[f].max \in Int
  BY <1>1 DEF Suits
<1>3. b \in BodiesOf(s) /\ Accepts(s, b)
  BY DEF s
<1>4. DOMAIN b.fields = DOMAIN s.fields /\ \A f \in DOMAIN b.fields : Sized(b.fields[f])
  BY <1>2, <1>3, BodyValues
<1>5. ASSUME NEW f \in DOMAIN b.fields
      PROVE  /\ b.fields[f].type \in TypeOfField(n, f)
             /\ f \in DOMAIN Columns(n) /\ f \notin Unlimited => ~(b.fields[f].size > Columns(n)[f])
  <2> DEFINE c == s.fields[f]
             v == b.fields[f]
  <2>1. Suits(n, f, c) /\ Sized(v) /\ AcceptsField(c, v)
    BY <1>1, <1>3, <1>4 DEF Accepts
  <2> HIDE DEF c, v
  <2>2. \/ ~c.required /\ v = Absent
        \/ c.nullable /\ v.type = "null"
        \/ v.type = JsonType(c) /\ (c.check \in {"string", "integer"} => v.size <= c.max)
    BY <2>1, AcceptedValues DEF Suits
  <2>3. Absent.type = "undefined" /\ Absent.size = 0
    BY DEF Absent, Value
  <2>4. v.type \in TypeOfField(n, f)
    BY <2>1, <2>2, <2>3 DEF Suits, SuitsType
  <2>5. f \in DOMAIN Columns(n) /\ f \notin Unlimited => ~(v.size > Columns(n)[f])
    BY <2>1, <2>2, <2>3 DEF Suits, SuitsColumn, Sized
  <2>6. QED
    BY <2>4, <2>5 DEF v
<1>6. QED
  BY <1>5 DEF Overflowing
-----------------------------------------------------------------------------
(* The contract and the controllers, table by table.                       *)

LEMMA HandlerDomains ==
    /\ DOMAIN SessionHandlers =
            {"getMyProfile", "registerCustomer", "login", "refreshSession",
             "logout"}
    /\ DOMAIN CredentialHandlers =
            {"updateMyProfile", "changePassword", "requestPasswordReset",
             "resetPassword"}
    /\ DOMAIN PublicCatalogHandlers =
            {"listCategories", "listProducts", "getProduct",
             "listActiveBanners"}
    /\ DOMAIN CategoryHandlers =
            {"adminListCategories", "adminCreateCategory",
             "adminUpdateCategory", "adminDeleteCategory"}
    /\ DOMAIN ProductHandlers =
            {"adminListProducts", "adminCreateProduct", "adminUpdateProduct",
             "adminDeleteProduct"}
    /\ DOMAIN StockHandlers = {"adminCreateProductStockAdjustment"}
    /\ DOMAIN BannerHandlers =
            {"adminListBanners", "adminCreateBanner", "adminUpdateBanner",
             "adminDeleteBanner"}
    /\ DOMAIN MediaHandlers = {"createMediaUploadUrl"}
    /\ DOMAIN CartHandlers = {"getCart", "addCartItem", "setCartItemQuantity"}
    /\ DOMAIN RemovalHandler = {"removeCartItem"}
    /\ DOMAIN CheckoutHandlers = {"createCheckout"}
    /\ DOMAIN OrderHandlers = {"listMyOrders", "getMyOrder"}
    /\ DOMAIN WompiHandler = {"receiveWompiWebhook"}
    /\ DOMAIN MercadoPagoHandler = {"receiveMercadoPagoWebhook"}
BY DEF SessionHandlers, CredentialHandlers, PublicCatalogHandlers,
       CategoryHandlers, ProductHandlers, StockHandlers, BannerHandlers,
       MediaHandlers, CartHandlers, RemovalHandler, CheckoutHandlers,
       OrderHandlers, WompiHandler, MercadoPagoHandler

LEMMA HandlersInParts ==
    /\ DOMAIN Handlers = UNION {DOMAIN t : t \in
                {SessionHandlers, CredentialHandlers, PublicCatalogHandlers,
                 CategoryHandlers, ProductHandlers, StockHandlers,
                 BannerHandlers, MediaHandlers, CartHandlers, RemovalHandler,
                 CheckoutHandlers, OrderHandlers, WompiHandler,
                 MercadoPagoHandler}}
    /\ \A op \in DOMAIN SessionHandlers : Handlers[op] = SessionHandlers[op]
    /\ \A op \in DOMAIN CredentialHandlers : Handlers[op] = CredentialHandlers[op]
    /\ \A op \in DOMAIN PublicCatalogHandlers : Handlers[op] = PublicCatalogHandlers[op]
    /\ \A op \in DOMAIN CategoryHandlers : Handlers[op] = CategoryHandlers[op]
    /\ \A op \in DOMAIN ProductHandlers : Handlers[op] = ProductHandlers[op]
    /\ \A op \in DOMAIN StockHandlers : Handlers[op] = StockHandlers[op]
    /\ \A op \in DOMAIN BannerHandlers : Handlers[op] = BannerHandlers[op]
    /\ \A op \in DOMAIN MediaHandlers : Handlers[op] = MediaHandlers[op]
    /\ \A op \in DOMAIN CartHandlers : Handlers[op] = CartHandlers[op]
    /\ \A op \in DOMAIN RemovalHandler : Handlers[op] = RemovalHandler[op]
    /\ \A op \in DOMAIN CheckoutHandlers : Handlers[op] = CheckoutHandlers[op]
    /\ \A op \in DOMAIN OrderHandlers : Handlers[op] = OrderHandlers[op]
    /\ \A op \in DOMAIN WompiHandler : Handlers[op] = WompiHandler[op]
    /\ \A op \in DOMAIN MercadoPagoHandler : Handlers[op] = MercadoPagoHandler[op]
<1> DEFINE parts == {SessionHandlers, CredentialHandlers,
                  PublicCatalogHandlers, CategoryHandlers, ProductHandlers,
                  StockHandlers, BannerHandlers, MediaHandlers, CartHandlers,
                  RemovalHandler, CheckoutHandlers, OrderHandlers,
                  WompiHandler, MercadoPagoHandler}
<1>1. Handlers = Joined(parts)
  BY DEF Handlers
<1>2. DOMAIN Handlers = UNION {DOMAIN t : t \in parts}
  BY <1>1 DEF Joined
<1>3. ASSUME NEW op \in DOMAIN SessionHandlers PROVE Handlers[op] = SessionHandlers[op]
  <2>1. \A u \in parts : op \in DOMAIN u => u = SessionHandlers
    BY HandlerDomains
  <2>2. QED
    BY <1>1, <1>2, <2>1, JoinedHas
<1>4. ASSUME NEW op \in DOMAIN CredentialHandlers PROVE Handlers[op] = CredentialHandlers[op]
  <2>1. \A u \in parts : op \in DOMAIN u => u = CredentialHandlers
    BY HandlerDomains
  <2>2. QED
    BY <1>1, <1>2, <2>1, JoinedHas
<1>5. ASSUME NEW op \in DOMAIN PublicCatalogHandlers PROVE Handlers[op] = PublicCatalogHandlers[op]
  <2>1. \A u \in parts : op \in DOMAIN u => u = PublicCatalogHandlers
    BY HandlerDomains
  <2>2. QED
    BY <1>1, <1>2, <2>1, JoinedHas
<1>6. ASSUME NEW op \in DOMAIN CategoryHandlers PROVE Handlers[op] = CategoryHandlers[op]
  <2>1. \A u \in parts : op \in DOMAIN u => u = CategoryHandlers
    BY HandlerDomains
  <2>2. QED
    BY <1>1, <1>2, <2>1, JoinedHas
<1>7. ASSUME NEW op \in DOMAIN ProductHandlers PROVE Handlers[op] = ProductHandlers[op]
  <2>1. \A u \in parts : op \in DOMAIN u => u = ProductHandlers
    BY HandlerDomains
  <2>2. QED
    BY <1>1, <1>2, <2>1, JoinedHas
<1>8. ASSUME NEW op \in DOMAIN StockHandlers PROVE Handlers[op] = StockHandlers[op]
  <2>1. \A u \in parts : op \in DOMAIN u => u = StockHandlers
    BY HandlerDomains
  <2>2. QED
    BY <1>1, <1>2, <2>1, JoinedHas
<1>9. ASSUME NEW op \in DOMAIN BannerHandlers PROVE Handlers[op] = BannerHandlers[op]
  <2>1. \A u \in parts : op \in DOMAIN u => u = BannerHandlers
    BY HandlerDomains
  <2>2. QED
    BY <1>1, <1>2, <2>1, JoinedHas
<1>10. ASSUME NEW op \in DOMAIN MediaHandlers PROVE Handlers[op] = MediaHandlers[op]
  <2>1. \A u \in parts : op \in DOMAIN u => u = MediaHandlers
    BY HandlerDomains
  <2>2. QED
    BY <1>1, <1>2, <2>1, JoinedHas
<1>11. ASSUME NEW op \in DOMAIN CartHandlers PROVE Handlers[op] = CartHandlers[op]
  <2>1. \A u \in parts : op \in DOMAIN u => u = CartHandlers
    BY HandlerDomains
  <2>2. QED
    BY <1>1, <1>2, <2>1, JoinedHas
<1>12. ASSUME NEW op \in DOMAIN RemovalHandler PROVE Handlers[op] = RemovalHandler[op]
  <2>1. \A u \in parts : op \in DOMAIN u => u = RemovalHandler
    BY HandlerDomains
  <2>2. QED
    BY <1>1, <1>2, <2>1, JoinedHas
<1>13. ASSUME NEW op \in DOMAIN CheckoutHandlers PROVE Handlers[op] = CheckoutHandlers[op]
  <2>1. \A u \in parts : op \in DOMAIN u => u = CheckoutHandlers
    BY HandlerDomains
  <2>2. QED
    BY <1>1, <1>2, <2>1, JoinedHas
<1>14. ASSUME NEW op \in DOMAIN OrderHandlers PROVE Handlers[op] = OrderHandlers[op]
  <2>1. \A u \in parts : op \in DOMAIN u => u = OrderHandlers
    BY HandlerDomains
  <2>2. QED
    BY <1>1, <1>2, <2>1, JoinedHas
<1>15. ASSUME NEW op \in DOMAIN WompiHandler PROVE Handlers[op] = WompiHandler[op]
  <2>1. \A u \in parts : op \in DOMAIN u => u = WompiHandler
    BY HandlerDomains
  <2>2. QED
    BY <1>1, <1>2, <2>1, JoinedHas
<1>16. ASSUME NEW op \in DOMAIN MercadoPagoHandler PROVE Handlers[op] = MercadoPagoHandler[op]
  <2>1. \A u \in parts : op \in DOMAIN u => u = MercadoPagoHandler
    BY HandlerDomains
  <2>2. QED
    BY <1>1, <1>2, <2>1, JoinedHas
<1>17. QED
  BY <1>2, <1>3, <1>4, <1>5, <1>6, <1>7, <1>8, <1>9, <1>10, <1>11, <1>12,
     <1>13, <1>14, <1>15, <1>16

LEMMA ContractDomains ==
    /\ DOMAIN IdentityContract =
            {"registerCustomer", "login", "refreshSession", "logout",
             "requestPasswordReset", "resetPassword", "changePassword",
             "activateAdmin", "getMyProfile", "updateMyProfile"}
    /\ DOMAIN StorefrontContract =
            {"listCategories", "listProducts", "getProduct",
             "listActiveBanners"}
    /\ DOMAIN PurchaseContract =
            {"getCart", "addCartItem", "setCartItemQuantity",
             "removeCartItem", "createCheckout", "listMyOrders", "getMyOrder"}
    /\ DOMAIN AdminUserAndCategoryContract =
            {"provisionAdminUser", "adminListCategories",
             "adminCreateCategory", "adminUpdateCategory",
             "adminDeleteCategory"}
    /\ DOMAIN AdminProductContract =
            {"adminListProducts", "adminCreateProduct", "adminUpdateProduct",
             "adminDeleteProduct", "adminCreateProductStockAdjustment"}
    /\ DOMAIN AdminBannerContract =
            {"adminListBanners", "adminCreateBanner", "adminUpdateBanner",
             "adminDeleteBanner"}
    /\ DOMAIN BackOfficeContract =
            {"adminListOrders", "adminGetOrder", "createMediaUploadUrl",
             "receiveWompiWebhook", "receiveMercadoPagoWebhook"}
BY DEF IdentityContract, StorefrontContract, PurchaseContract,
       AdminUserAndCategoryContract, AdminProductContract,
       AdminBannerContract, BackOfficeContract

LEMMA ContractInParts ==
    /\ DOMAIN OPERATIONS = UNION {DOMAIN t : t \in
                {IdentityContract, StorefrontContract, PurchaseContract,
                 AdminUserAndCategoryContract, AdminProductContract,
                 AdminBannerContract, BackOfficeContract}}
    /\ \A op \in DOMAIN IdentityContract : OPERATIONS[op] = IdentityContract[op]
    /\ \A op \in DOMAIN StorefrontContract : OPERATIONS[op] = StorefrontContract[op]
    /\ \A op \in DOMAIN PurchaseContract : OPERATIONS[op] = PurchaseContract[op]
    /\ \A op \in DOMAIN AdminUserAndCategoryContract : OPERATIONS[op] = AdminUserAndCategoryContract[op]
    /\ \A op \in DOMAIN AdminProductContract : OPERATIONS[op] = AdminProductContract[op]
    /\ \A op \in DOMAIN AdminBannerContract : OPERATIONS[op] = AdminBannerContract[op]
    /\ \A op \in DOMAIN BackOfficeContract : OPERATIONS[op] = BackOfficeContract[op]
<1> DEFINE parts == {IdentityContract, StorefrontContract, PurchaseContract,
                  AdminUserAndCategoryContract, AdminProductContract,
                  AdminBannerContract, BackOfficeContract}
<1>1. OPERATIONS = Joined(parts)
  BY DEF OPERATIONS
<1>2. DOMAIN OPERATIONS = UNION {DOMAIN t : t \in parts}
  BY <1>1 DEF Joined
<1>3. ASSUME NEW op \in DOMAIN IdentityContract PROVE OPERATIONS[op] = IdentityContract[op]
  <2>1. \A u \in parts : op \in DOMAIN u => u = IdentityContract
    BY ContractDomains
  <2>2. QED
    BY <1>1, <1>2, <2>1, JoinedHas
<1>4. ASSUME NEW op \in DOMAIN StorefrontContract PROVE OPERATIONS[op] = StorefrontContract[op]
  <2>1. \A u \in parts : op \in DOMAIN u => u = StorefrontContract
    BY ContractDomains
  <2>2. QED
    BY <1>1, <1>2, <2>1, JoinedHas
<1>5. ASSUME NEW op \in DOMAIN PurchaseContract PROVE OPERATIONS[op] = PurchaseContract[op]
  <2>1. \A u \in parts : op \in DOMAIN u => u = PurchaseContract
    BY ContractDomains
  <2>2. QED
    BY <1>1, <1>2, <2>1, JoinedHas
<1>6. ASSUME NEW op \in DOMAIN AdminUserAndCategoryContract
      PROVE  OPERATIONS[op] = AdminUserAndCategoryContract[op]
  <2>1. \A u \in parts : op \in DOMAIN u => u = AdminUserAndCategoryContract
    BY ContractDomains
  <2>2. QED
    BY <1>1, <1>2, <2>1, JoinedHas
<1>7. ASSUME NEW op \in DOMAIN AdminProductContract PROVE OPERATIONS[op] = AdminProductContract[op]
  <2>1. \A u \in parts : op \in DOMAIN u => u = AdminProductContract
    BY ContractDomains
  <2>2. QED
    BY <1>1, <1>2, <2>1, JoinedHas
<1>8. ASSUME NEW op \in DOMAIN AdminBannerContract PROVE OPERATIONS[op] = AdminBannerContract[op]
  <2>1. \A u \in parts : op \in DOMAIN u => u = AdminBannerContract
    BY ContractDomains
  <2>2. QED
    BY <1>1, <1>2, <2>1, JoinedHas
<1>9. ASSUME NEW op \in DOMAIN BackOfficeContract PROVE OPERATIONS[op] = BackOfficeContract[op]
  <2>1. \A u \in parts : op \in DOMAIN u => u = BackOfficeContract
    BY ContractDomains
  <2>2. QED
    BY <1>1, <1>2, <2>1, JoinedHas
<1>10. QED
  BY <1>2, <1>3, <1>4, <1>5, <1>6, <1>7, <1>8, <1>9

(* A code has one status.                                                  *)
LEMMA StatusOfCodes ==
    /\ \A code \in CodesOf.s400 : Status(code) = 400
    /\ \A code \in CodesOf.s401 : Status(code) = 401
    /\ \A code \in CodesOf.s403 : Status(code) = 403
    /\ \A code \in CodesOf.s404 : Status(code) = 404
    /\ \A code \in CodesOf.s409 : Status(code) = 409
    /\ \A code \in CodesOf.s410 : Status(code) = 410
    /\ \A code \in CodesOf.s422 : Status(code) = 422
    /\ Status(Technical) = 500
<1>1. ASSUME NEW code \in CodesOf.s400 PROVE Status(code) = 400
  <2>1. /\ code \notin CodesOf.s401 /\ code \notin CodesOf.s403 /\ code \notin CodesOf.s404
        /\ code \notin CodesOf.s409 /\ code \notin CodesOf.s410 /\ code \notin CodesOf.s422
    BY DEF CodesOf, Invalid, Unauthenticated
  <2>2. QED
    BY <2>1, ZenonT(60) DEF Status
<1>2. ASSUME NEW code \in CodesOf.s401 PROVE Status(code) = 401
  <2>1. /\ code \notin CodesOf.s400 /\ code \notin CodesOf.s403 /\ code \notin CodesOf.s404
        /\ code \notin CodesOf.s409 /\ code \notin CodesOf.s410 /\ code \notin CodesOf.s422
    BY DEF CodesOf, Invalid, Unauthenticated
  <2>2. QED
    BY <2>1, ZenonT(60) DEF Status
<1>3. ASSUME NEW code \in CodesOf.s403 PROVE Status(code) = 403
  <2>1. /\ code \notin CodesOf.s400 /\ code \notin CodesOf.s401 /\ code \notin CodesOf.s404
        /\ code \notin CodesOf.s409 /\ code \notin CodesOf.s410 /\ code \notin CodesOf.s422
    BY DEF CodesOf, Invalid, Unauthenticated
  <2>2. QED
    BY <2>1, ZenonT(60) DEF Status
<1>4. ASSUME NEW code \in CodesOf.s404 PROVE Status(code) = 404
  <2>1. /\ code \notin CodesOf.s400 /\ code \notin CodesOf.s401 /\ code \notin CodesOf.s403
        /\ code \notin CodesOf.s409 /\ code \notin CodesOf.s410 /\ code \notin CodesOf.s422
    BY DEF CodesOf, Invalid, Unauthenticated
  <2>2. QED
    BY <2>1, ZenonT(60) DEF Status
<1>5. ASSUME NEW code \in CodesOf.s409 PROVE Status(code) = 409
  <2>1. /\ code \notin CodesOf.s400 /\ code \notin CodesOf.s401 /\ code \notin CodesOf.s403
        /\ code \notin CodesOf.s404 /\ code \notin CodesOf.s410 /\ code \notin CodesOf.s422
    BY DEF CodesOf, Invalid, Unauthenticated
  <2>2. QED
    BY <2>1, ZenonT(60) DEF Status
<1>6. ASSUME NEW code \in CodesOf.s410 PROVE Status(code) = 410
  <2>1. /\ code \notin CodesOf.s400 /\ code \notin CodesOf.s401 /\ code \notin CodesOf.s403
        /\ code \notin CodesOf.s404 /\ code \notin CodesOf.s409 /\ code \notin CodesOf.s422
    BY DEF CodesOf, Invalid, Unauthenticated
  <2>2. QED
    BY <2>1, ZenonT(60) DEF Status
<1>7. ASSUME NEW code \in CodesOf.s422 PROVE Status(code) = 422
  <2>1. /\ code \notin CodesOf.s400 /\ code \notin CodesOf.s401 /\ code \notin CodesOf.s403
        /\ code \notin CodesOf.s404 /\ code \notin CodesOf.s409 /\ code \notin CodesOf.s410
    BY DEF CodesOf, Invalid, Unauthenticated
  <2>2. QED
    BY <2>1, ZenonT(60) DEF Status
<1>8. QED
  BY <1>1, <1>2, <1>3, <1>4, <1>5, <1>6, <1>7, TransportStatuses

LEMMA UndeclaredAnswers ==
    /\ 201 \in Undeclared("login")
    /\ 201 \in Undeclared("refreshSession")
    /\ 400 \in Undeclared("listMyOrders")
    /\ 400 \in Undeclared("getMyOrder")
    /\ 400 \in Undeclared("adminDeleteCategory")
    /\ 400 \in Undeclared("adminDeleteProduct") /\ 409 \in Undeclared("adminDeleteProduct")
    /\ 400 \in Undeclared("adminDeleteBanner") /\ 409 \in Undeclared("adminDeleteBanner")
    /\ 400 \in Undeclared("removeCartItem") /\ 422 \in Undeclared("removeCartItem")
    /\ 401 \in Undeclared("addCartItem") /\ 404 \in Undeclared("addCartItem")
    /\ 404 \in Undeclared("createCheckout") /\ 410 \in Undeclared("createCheckout")
    /\ 409 \in Undeclared("createMediaUploadUrl")
    /\ 422 \in Undeclared("adminCreateProductStockAdjustment")
    /\ 404 \in Undeclared("activateAdmin")
    /\ 404 \in Undeclared("adminListOrders")
BY DEF Undeclared, Beside
-----------------------------------------------------------------------------
(* The statuses an operation may answer with.                              *)
Allowed(op) == Declared(op) \union Undeclared(op)

(* A handler, the guards before it and the use case behind it fail and     *)
(* succeed with allowed statuses.                                          *)
KeepsContract(op) ==
    LET h == HandlerOf(op) IN
    /\ h.success \in Allowed(op) /\ 500 \in Allowed(op)
    /\ \A code \in h.fails : Status(code) \in Allowed(op)
    /\ h.by # "none" => 401 \in Allowed(op)
    /\ h.body # NoBody \/ HeadersRead(op) # {} \/ h.by \in {"actor", "signature"} =>
          400 \in Allowed(op)

(* A handler reads the headers and validates the body its contract asks   *)
(* for.                                                                    *)
Serves(op) ==
    LET h == HandlerOf(op)
        c == OPERATIONS[op]
    IN
    /\ h.guarded <=> h.by = "guard"
    /\ h.body # NoBody => h.body \in DOMAIN Validators
    /\ c.body \in DOMAIN Validators => c.body = h.body
    /\ c.headers \subseteq {"Authorization", "Idempotency-Key", "If-Match"}
    /\ c.headers # {} => h.by \in {"guard", "resolver", "actor"}
    /\ h.by = "actor" \/ c.headers \subseteq {"Authorization"} \union HeadersRead(op)

Conforms(op) == KeepsContract(op) /\ Serves(op)

LEMMA SessionHandlersConform == \A op \in DOMAIN SessionHandlers : Conforms(op)
<1>1. Conforms("getMyProfile")
  <2>1. HandlerOf("getMyProfile") =
             Handler(TRUE, NoBody, <<>>, 200, {Unauthenticated})
    BY HandlersInParts, HandlerDomains DEF HandlerOf, SessionHandlers
  <2>2. OPERATIONS["getMyProfile"] = Operation(Auth, NoBody, 200, {401, 500})
    BY ContractInParts, ContractDomains DEF IdentityContract
  <2>3. QED
    BY <2>1, <2>2, StatusOfCodes, UndeclaredAnswers DEF Conforms,
           KeepsContract, Serves, HeadersRead, Allowed, Declared, Handler,
           Operation, Auth, CodesOf, Validators, NoBody
<1>2. Conforms("registerCustomer")
  <2>1. HandlerOf("registerCustomer") =
             Unguarded("RegisterRequest", 201, {"EMAIL_ALREADY_REGISTERED"})
    BY HandlersInParts, HandlerDomains DEF HandlerOf, SessionHandlers
  <2>2. OPERATIONS["registerCustomer"] =
             Public("RegisterRequest", 201, {400, 409, 429, 500})
    BY ContractInParts, ContractDomains DEF IdentityContract
  <2>3. QED
    BY <2>1, <2>2, StatusOfCodes, UndeclaredAnswers DEF Conforms,
           KeepsContract, Serves, HeadersRead, Allowed, Declared, Unguarded,
           Handler, Public, Operation, CodesOf, Validators, NoBody
<1>3. Conforms("login")
  <2>1. HandlerOf("login") =
             Unguarded("LoginRequest", 201, {"INVALID_CREDENTIALS"})
    BY HandlersInParts, HandlerDomains DEF HandlerOf, SessionHandlers
  <2>2. OPERATIONS["login"] =
             Public("LoginRequest", 200, {400, 401, 429, 500})
    BY ContractInParts, ContractDomains DEF IdentityContract
  <2>3. QED
    BY <2>1, <2>2, StatusOfCodes, UndeclaredAnswers DEF Conforms,
           KeepsContract, Serves, HeadersRead, Allowed, Declared, Unguarded,
           Handler, Public, Operation, CodesOf, Validators, NoBody
<1>4. Conforms("refreshSession")
  <2>1. HandlerOf("refreshSession") =
             Unguarded(NoBody, 201, {Unauthenticated})
    BY HandlersInParts, HandlerDomains DEF HandlerOf, SessionHandlers
  <2>2. OPERATIONS["refreshSession"] = Public(NoBody, 200, {401, 403, 500})
    BY ContractInParts, ContractDomains DEF IdentityContract
  <2>3. QED
    BY <2>1, <2>2, StatusOfCodes, UndeclaredAnswers DEF Conforms,
           KeepsContract, Serves, HeadersRead, Allowed, Declared, Unguarded,
           Handler, Public, Operation, CodesOf, Validators, NoBody
<1>5. Conforms("logout")
  <2>1. HandlerOf("logout") =
             Handler(TRUE, NoBody, <<>>, 204, {Unauthenticated})
    BY HandlersInParts, HandlerDomains DEF HandlerOf, SessionHandlers
  <2>2. OPERATIONS["logout"] = Operation(Auth, NoBody, 204, {401, 500})
    BY ContractInParts, ContractDomains DEF IdentityContract
  <2>3. QED
    BY <2>1, <2>2, StatusOfCodes, UndeclaredAnswers DEF Conforms,
           KeepsContract, Serves, HeadersRead, Allowed, Declared, Handler,
           Operation, Auth, CodesOf, Validators, NoBody
<1>6. QED
  BY <1>1, <1>2, <1>3, <1>4, <1>5, HandlerDomains

LEMMA CredentialHandlersConform == \A op \in DOMAIN CredentialHandlers : Conforms(op)
<1>1. Conforms("updateMyProfile")
  <2>1. HandlerOf("updateMyProfile") =
             Handler(TRUE, "UpdateProfileRequest", Key, 200, {Unauthenticated,
               Reused})
    BY HandlersInParts, HandlerDomains DEF HandlerOf, CredentialHandlers
  <2>2. OPERATIONS["updateMyProfile"] =
             Operation(Keyed, "UpdateProfileRequest", 200, {400, 401, 403,
               409, 500})
    BY ContractInParts, ContractDomains DEF IdentityContract
  <2>3. QED
    BY <2>1, <2>2, StatusOfCodes, UndeclaredAnswers DEF Conforms,
           KeepsContract, Serves, HeadersRead, Allowed, Declared, Handler,
           Key, Operation, Keyed, CodesOf, Reused, Validators, NoBody
<1>2. Conforms("changePassword")
  <2>1. HandlerOf("changePassword") =
             Handler(TRUE, "PasswordChangeRequest", Key, 204,
               {Unauthenticated, Reused, "CURRENT_PASSWORD_INVALID"})
    BY HandlersInParts, HandlerDomains DEF HandlerOf, CredentialHandlers
  <2>2. OPERATIONS["changePassword"] =
             Operation(Keyed, "PasswordChangeRequest", 204, {400, 401, 403,
               409, 422, 500})
    BY ContractInParts, ContractDomains DEF IdentityContract
  <2>3. QED
    BY <2>1, <2>2, StatusOfCodes, UndeclaredAnswers DEF Conforms,
           KeepsContract, Serves, HeadersRead, Allowed, Declared, Handler,
           Key, Operation, Keyed, CodesOf, Reused, Validators, NoBody
<1>3. Conforms("requestPasswordReset")
  <2>1. HandlerOf("requestPasswordReset") =
             Unguarded("PasswordResetRequest", 202, {})
    BY HandlersInParts, HandlerDomains DEF HandlerOf, CredentialHandlers
  <2>2. OPERATIONS["requestPasswordReset"] =
             Public("PasswordResetRequest", 202, {400, 429, 500})
    BY ContractInParts, ContractDomains DEF IdentityContract
  <2>3. QED
    BY <2>1, <2>2, StatusOfCodes, UndeclaredAnswers DEF Conforms,
           KeepsContract, Serves, HeadersRead, Allowed, Declared, Unguarded,
           Handler, Public, Operation, CodesOf, Validators, NoBody
<1>4. Conforms("resetPassword")
  <2>1. HandlerOf("resetPassword") =
             Unguarded("PasswordResetConfirmRequest", 204,
               {"PASSWORD_RESET_TOKEN_INVALID_OR_EXPIRED"})
    BY HandlersInParts, HandlerDomains DEF HandlerOf, CredentialHandlers
  <2>2. OPERATIONS["resetPassword"] =
             Public("PasswordResetConfirmRequest", 204, {400, 422, 429, 500})
    BY ContractInParts, ContractDomains DEF IdentityContract
  <2>3. QED
    BY <2>1, <2>2, StatusOfCodes, UndeclaredAnswers DEF Conforms,
           KeepsContract, Serves, HeadersRead, Allowed, Declared, Unguarded,
           Handler, Public, Operation, CodesOf, Validators, NoBody
<1>5. QED
  BY <1>1, <1>2, <1>3, <1>4, HandlerDomains

LEMMA PublicCatalogHandlersConform == \A op \in DOMAIN PublicCatalogHandlers : Conforms(op)
<1>1. Conforms("listCategories")
  <2>1. HandlerOf("listCategories") = Unguarded(NoBody, 200, {})
    BY HandlersInParts, HandlerDomains DEF HandlerOf, PublicCatalogHandlers
  <2>2. OPERATIONS["listCategories"] = Public(NoBody, 200, {429, 500})
    BY ContractInParts, ContractDomains DEF StorefrontContract
  <2>3. QED
    BY <2>1, <2>2, StatusOfCodes, UndeclaredAnswers DEF Conforms,
           KeepsContract, Serves, HeadersRead, Allowed, Declared, Unguarded,
           Handler, Public, Operation, CodesOf, Validators, NoBody
<1>2. Conforms("listProducts")
  <2>1. HandlerOf("listProducts") = Unguarded(NoBody, 200, {})
    BY HandlersInParts, HandlerDomains DEF HandlerOf, PublicCatalogHandlers
  <2>2. OPERATIONS["listProducts"] = Public(NoBody, 200, {400, 500})
    BY ContractInParts, ContractDomains DEF StorefrontContract
  <2>3. QED
    BY <2>1, <2>2, StatusOfCodes, UndeclaredAnswers DEF Conforms,
           KeepsContract, Serves, HeadersRead, Allowed, Declared, Unguarded,
           Handler, Public, Operation, CodesOf, Validators, NoBody
<1>3. Conforms("getProduct")
  <2>1. HandlerOf("getProduct") =
             Unguarded(NoBody, 200, {"RESOURCE_NOT_FOUND"})
    BY HandlersInParts, HandlerDomains DEF HandlerOf, PublicCatalogHandlers
  <2>2. OPERATIONS["getProduct"] = Public(NoBody, 200, {404, 500})
    BY ContractInParts, ContractDomains DEF StorefrontContract
  <2>3. QED
    BY <2>1, <2>2, StatusOfCodes, UndeclaredAnswers DEF Conforms,
           KeepsContract, Serves, HeadersRead, Allowed, Declared, Unguarded,
           Handler, Public, Operation, CodesOf, Validators, NoBody
<1>4. Conforms("listActiveBanners")
  <2>1. HandlerOf("listActiveBanners") = Unguarded(NoBody, 200, {})
    BY HandlersInParts, HandlerDomains DEF HandlerOf, PublicCatalogHandlers
  <2>2. OPERATIONS["listActiveBanners"] = Public(NoBody, 200, {429, 500})
    BY ContractInParts, ContractDomains DEF StorefrontContract
  <2>3. QED
    BY <2>1, <2>2, StatusOfCodes, UndeclaredAnswers DEF Conforms,
           KeepsContract, Serves, HeadersRead, Allowed, Declared, Unguarded,
           Handler, Public, Operation, CodesOf, Validators, NoBody
<1>5. QED
  BY <1>1, <1>2, <1>3, <1>4, HandlerDomains

LEMMA CategoryHandlersConform == \A op \in DOMAIN CategoryHandlers : Conforms(op)
<1>1. Conforms("adminListCategories")
  <2>1. HandlerOf("adminListCategories") =
             Handler(TRUE, NoBody, <<>>, 200, {})
    BY HandlersInParts, HandlerDomains DEF HandlerOf, CategoryHandlers
  <2>2. OPERATIONS["adminListCategories"] =
             Operation(Auth, NoBody, 200, AdminReads)
    BY ContractInParts, ContractDomains DEF AdminUserAndCategoryContract
  <2>3. QED
    BY <2>1, <2>2, StatusOfCodes, UndeclaredAnswers DEF Conforms,
           KeepsContract, Serves, HeadersRead, Allowed, Declared, Handler,
           Operation, AdminReads, Auth, CodesOf, Validators, NoBody
<1>2. Conforms("adminCreateCategory")
  <2>1. HandlerOf("adminCreateCategory") =
             Handler(TRUE, "CategoryWriteRequest", Key, 201, Creating)
    BY HandlersInParts, HandlerDomains DEF HandlerOf, CategoryHandlers
  <2>2. OPERATIONS["adminCreateCategory"] =
             Operation(Keyed, "CategoryWriteRequest", 201, AdminCreates)
    BY ContractInParts, ContractDomains DEF AdminUserAndCategoryContract
  <2>3. QED
    BY <2>1, <2>2, StatusOfCodes, UndeclaredAnswers DEF Conforms,
           KeepsContract, Serves, HeadersRead, Allowed, Declared, Handler,
           Key, Operation, AdminCreates, Keyed, CodesOf, Creating, Reused,
           Validators, NoBody
<1>3. Conforms("adminUpdateCategory")
  <2>1. HandlerOf("adminUpdateCategory") =
             Handler(TRUE, "CategoryWriteRequest", MatchThenKey, 200,
               Updating)
    BY HandlersInParts, HandlerDomains DEF HandlerOf, CategoryHandlers
  <2>2. OPERATIONS["adminUpdateCategory"] =
             Operation(Versioned, "CategoryWriteRequest", 200, AdminUpdates)
    BY ContractInParts, ContractDomains DEF AdminUserAndCategoryContract
  <2>3. QED
    BY <2>1, <2>2, StatusOfCodes, UndeclaredAnswers DEF Conforms,
           KeepsContract, Serves, HeadersRead, Allowed, Declared, Handler,
           MatchThenKey, Operation, AdminUpdates, AdminCreates, Versioned,
           CodesOf, Updating, Deleting, Creating, Reused, Validators, NoBody
<1>4. Conforms("adminDeleteCategory")
  <2>1. HandlerOf("adminDeleteCategory") =
             Handler(TRUE, NoBody, Key, 204,
               Deleting \union {"INVALID_STATE_TRANSITION"})
    BY HandlersInParts, HandlerDomains DEF HandlerOf, CategoryHandlers
  <2>2. OPERATIONS["adminDeleteCategory"] =
             Operation(Keyed, NoBody, 204, {401, 403, 404, 409, 500})
    BY ContractInParts, ContractDomains DEF AdminUserAndCategoryContract
  <2>3. QED
    BY <2>1, <2>2, StatusOfCodes, UndeclaredAnswers DEF Conforms,
           KeepsContract, Serves, HeadersRead, Allowed, Declared, Handler,
           Key, Operation, Keyed, CodesOf, Deleting, Creating, Reused,
           Validators, NoBody
<1>5. QED
  BY <1>1, <1>2, <1>3, <1>4, HandlerDomains

LEMMA ProductHandlersConform == \A op \in DOMAIN ProductHandlers : Conforms(op)
<1>1. Conforms("adminListProducts")
  <2>1. HandlerOf("adminListProducts") = Handler(TRUE, NoBody, <<>>, 200, {})
    BY HandlersInParts, HandlerDomains DEF HandlerOf, ProductHandlers
  <2>2. OPERATIONS["adminListProducts"] =
             Operation(Auth, NoBody, 200, AdminReads)
    BY ContractInParts, ContractDomains DEF AdminProductContract
  <2>3. QED
    BY <2>1, <2>2, StatusOfCodes, UndeclaredAnswers DEF Conforms,
           KeepsContract, Serves, HeadersRead, Allowed, Declared, Handler,
           Operation, AdminReads, Auth, CodesOf, Validators, NoBody
<1>2. Conforms("adminCreateProduct")
  <2>1. HandlerOf("adminCreateProduct") =
             Handler(TRUE, "ProductWriteRequest", Key, 201, Creating)
    BY HandlersInParts, HandlerDomains DEF HandlerOf, ProductHandlers
  <2>2. OPERATIONS["adminCreateProduct"] =
             Operation(Keyed, "ProductWriteRequest", 201, AdminCreates)
    BY ContractInParts, ContractDomains DEF AdminProductContract
  <2>3. QED
    BY <2>1, <2>2, StatusOfCodes, UndeclaredAnswers DEF Conforms,
           KeepsContract, Serves, HeadersRead, Allowed, Declared, Handler,
           Key, Operation, AdminCreates, Keyed, CodesOf, Creating, Reused,
           Validators, NoBody
<1>3. Conforms("adminUpdateProduct")
  <2>1. HandlerOf("adminUpdateProduct") =
             Handler(TRUE, "ProductUpdateRequest", MatchThenKey, 200,
               Updating)
    BY HandlersInParts, HandlerDomains DEF HandlerOf, ProductHandlers
  <2>2. OPERATIONS["adminUpdateProduct"] =
             Operation(Versioned, "ProductUpdateRequest", 200, AdminUpdates)
    BY ContractInParts, ContractDomains DEF AdminProductContract
  <2>3. QED
    BY <2>1, <2>2, StatusOfCodes, UndeclaredAnswers DEF Conforms,
           KeepsContract, Serves, HeadersRead, Allowed, Declared, Handler,
           MatchThenKey, Operation, AdminUpdates, AdminCreates, Versioned,
           CodesOf, Updating, Deleting, Creating, Reused, Validators, NoBody
<1>4. Conforms("adminDeleteProduct")
  <2>1. HandlerOf("adminDeleteProduct") =
             Handler(TRUE, NoBody, Key, 204, Deleting)
    BY HandlersInParts, HandlerDomains DEF HandlerOf, ProductHandlers
  <2>2. OPERATIONS["adminDeleteProduct"] =
             Operation(Keyed, NoBody, 204, {401, 403, 404, 500})
    BY ContractInParts, ContractDomains DEF AdminProductContract
  <2>3. QED
    BY <2>1, <2>2, StatusOfCodes, UndeclaredAnswers DEF Conforms,
           KeepsContract, Serves, HeadersRead, Allowed, Declared, Handler,
           Key, Operation, Keyed, CodesOf, Deleting, Creating, Reused,
           Validators, NoBody
<1>5. QED
  BY <1>1, <1>2, <1>3, <1>4, HandlerDomains

LEMMA StockHandlersConform == \A op \in DOMAIN StockHandlers : Conforms(op)
<1>1. Conforms("adminCreateProductStockAdjustment")
  <2>1. HandlerOf("adminCreateProductStockAdjustment") =
             Handler(TRUE, "StockAdjustmentRequest", Key, 201,
               Deleting \union {"STOCK_INSUFFICIENT"})
    BY HandlersInParts, HandlerDomains DEF HandlerOf, StockHandlers
  <2>2. OPERATIONS["adminCreateProductStockAdjustment"] =
             Operation(Keyed, "StockAdjustmentRequest", 201, AdminUpdates)
    BY ContractInParts, ContractDomains DEF AdminProductContract
  <2>3. QED
    BY <2>1, <2>2, StatusOfCodes, UndeclaredAnswers DEF Conforms,
           KeepsContract, Serves, HeadersRead, Allowed, Declared, Handler,
           Key, Operation, AdminUpdates, AdminCreates, Keyed, CodesOf,
           Deleting, Creating, Reused, Validators, NoBody
<1>2. QED
  BY <1>1, HandlerDomains

LEMMA BannerHandlersConform == \A op \in DOMAIN BannerHandlers : Conforms(op)
<1>1. Conforms("adminListBanners")
  <2>1. HandlerOf("adminListBanners") = Handler(TRUE, NoBody, <<>>, 200, {})
    BY HandlersInParts, HandlerDomains DEF HandlerOf, BannerHandlers
  <2>2. OPERATIONS["adminListBanners"] =
             Operation(Auth, NoBody, 200, AdminReads)
    BY ContractInParts, ContractDomains DEF AdminBannerContract
  <2>3. QED
    BY <2>1, <2>2, StatusOfCodes, UndeclaredAnswers DEF Conforms,
           KeepsContract, Serves, HeadersRead, Allowed, Declared, Handler,
           Operation, AdminReads, Auth, CodesOf, Validators, NoBody
<1>2. Conforms("adminCreateBanner")
  <2>1. HandlerOf("adminCreateBanner") =
             Handler(TRUE, "BannerWriteRequest", Key, 201, Creating)
    BY HandlersInParts, HandlerDomains DEF HandlerOf, BannerHandlers
  <2>2. OPERATIONS["adminCreateBanner"] =
             Operation(Keyed, "BannerWriteRequest", 201, AdminCreates)
    BY ContractInParts, ContractDomains DEF AdminBannerContract
  <2>3. QED
    BY <2>1, <2>2, StatusOfCodes, UndeclaredAnswers DEF Conforms,
           KeepsContract, Serves, HeadersRead, Allowed, Declared, Handler,
           Key, Operation, AdminCreates, Keyed, CodesOf, Creating, Reused,
           Validators, NoBody
<1>3. Conforms("adminUpdateBanner")
  <2>1. HandlerOf("adminUpdateBanner") =
             Handler(TRUE, "BannerWriteRequest", MatchThenKey, 200, Updating)
    BY HandlersInParts, HandlerDomains DEF HandlerOf, BannerHandlers
  <2>2. OPERATIONS["adminUpdateBanner"] =
             Operation(Versioned, "BannerWriteRequest", 200, AdminUpdates)
    BY ContractInParts, ContractDomains DEF AdminBannerContract
  <2>3. QED
    BY <2>1, <2>2, StatusOfCodes, UndeclaredAnswers DEF Conforms,
           KeepsContract, Serves, HeadersRead, Allowed, Declared, Handler,
           MatchThenKey, Operation, AdminUpdates, AdminCreates, Versioned,
           CodesOf, Updating, Deleting, Creating, Reused, Validators, NoBody
<1>4. Conforms("adminDeleteBanner")
  <2>1. HandlerOf("adminDeleteBanner") =
             Handler(TRUE, NoBody, Key, 204, Deleting)
    BY HandlersInParts, HandlerDomains DEF HandlerOf, BannerHandlers
  <2>2. OPERATIONS["adminDeleteBanner"] =
             Operation(Keyed, NoBody, 204, {401, 403, 404, 500})
    BY ContractInParts, ContractDomains DEF AdminBannerContract
  <2>3. QED
    BY <2>1, <2>2, StatusOfCodes, UndeclaredAnswers DEF Conforms,
           KeepsContract, Serves, HeadersRead, Allowed, Declared, Handler,
           Key, Operation, Keyed, CodesOf, Deleting, Creating, Reused,
           Validators, NoBody
<1>5. QED
  BY <1>1, <1>2, <1>3, <1>4, HandlerDomains

LEMMA MediaHandlersConform == \A op \in DOMAIN MediaHandlers : Conforms(op)
<1>1. Conforms("createMediaUploadUrl")
  <2>1. HandlerOf("createMediaUploadUrl") =
             Handler(TRUE, "CreateUploadUrlRequest", Key, 201,
               Creating \union {Unauthenticated, Invalid})
    BY HandlersInParts, HandlerDomains DEF HandlerOf, MediaHandlers
  <2>2. OPERATIONS["createMediaUploadUrl"] =
             Operation(Keyed, "CreateUploadUrlRequest", 201, {400, 401, 403,
               500})
    BY ContractInParts, ContractDomains DEF BackOfficeContract
  <2>3. QED
    BY <2>1, <2>2, StatusOfCodes, UndeclaredAnswers DEF Conforms,
           KeepsContract, Serves, HeadersRead, Allowed, Declared, Handler,
           Key, Operation, Keyed, CodesOf, Creating, Reused, Validators,
           NoBody
<1>2. QED
  BY <1>1, HandlerDomains

LEMMA CartHandlersConform == \A op \in DOMAIN CartHandlers : Conforms(op)
<1>1. Conforms("getCart")
  <2>1. HandlerOf("getCart") =
             Cart(NoBody, <<>>, 200, {"CART_RESERVATION_EXPIRED"})
    BY HandlersInParts, HandlerDomains DEF HandlerOf, CartHandlers
  <2>2. OPERATIONS["getCart"] =
             Operation(Auth, NoBody, 200, {401, 403, 410, 500})
    BY ContractInParts, ContractDomains DEF PurchaseContract
  <2>3. QED
    BY <2>1, <2>2, StatusOfCodes, UndeclaredAnswers DEF Conforms,
           KeepsContract, Serves, HeadersRead, Allowed, Declared, Cart,
           Handler, Operation, Auth, CodesOf, Shopping, Validators, NoBody
<1>2. Conforms("addCartItem")
  <2>1. HandlerOf("addCartItem") =
             Cart("CartItemMutationRequest", Key, 201, {Reused,
               "RESOURCE_NOT_FOUND", "STOCK_INSUFFICIENT",
               "RESERVATION_NOT_ACTIVE"})
    BY HandlersInParts, HandlerDomains DEF HandlerOf, CartHandlers
  <2>2. OPERATIONS["addCartItem"] =
             Operation(Keyed, "CartItemMutationRequest", 201, {400, 403, 409,
               410, 422, 500})
    BY ContractInParts, ContractDomains DEF PurchaseContract
  <2>3. QED
    BY <2>1, <2>2, StatusOfCodes, UndeclaredAnswers DEF Conforms,
           KeepsContract, Serves, HeadersRead, Allowed, Declared, Cart,
           Handler, Key, Operation, Keyed, CodesOf, Reused, Shopping,
           Validators, NoBody
<1>3. Conforms("setCartItemQuantity")
  <2>1. HandlerOf("setCartItemQuantity") =
             Cart("SetCartItemQuantityRequest", Key, 200, {Reused,
               "RESOURCE_NOT_FOUND", "CART_ITEM_NOT_FOUND",
               "STOCK_INSUFFICIENT", "RESERVATION_NOT_ACTIVE"})
    BY HandlersInParts, HandlerDomains DEF HandlerOf, CartHandlers
  <2>2. OPERATIONS["setCartItemQuantity"] =
             Operation(Keyed, "SetCartItemQuantityRequest", 200, {400, 401,
               403, 404, 409, 410, 422, 500})
    BY ContractInParts, ContractDomains DEF PurchaseContract
  <2>3. QED
    BY <2>1, <2>2, StatusOfCodes, UndeclaredAnswers DEF Conforms,
           KeepsContract, Serves, HeadersRead, Allowed, Declared, Cart,
           Handler, Key, Operation, Keyed, CodesOf, Reused, Shopping,
           Validators, NoBody
<1>4. QED
  BY <1>1, <1>2, <1>3, HandlerDomains

LEMMA RemovalHandlerConform == \A op \in DOMAIN RemovalHandler : Conforms(op)
<1>1. Conforms("removeCartItem")
  <2>1. HandlerOf("removeCartItem") =
             Cart(NoBody, Key, 204, {Reused, "CART_ITEM_NOT_FOUND",
               "RESERVATION_NOT_ACTIVE"})
    BY HandlersInParts, HandlerDomains DEF HandlerOf, RemovalHandler
  <2>2. OPERATIONS["removeCartItem"] =
             Operation(Keyed, NoBody, 204, {401, 403, 404, 409, 410, 500})
    BY ContractInParts, ContractDomains DEF PurchaseContract
  <2>3. QED
    BY <2>1, <2>2, StatusOfCodes, UndeclaredAnswers DEF Conforms,
           KeepsContract, Serves, HeadersRead, Allowed, Declared, Cart,
           Handler, Key, Operation, Keyed, CodesOf, Reused, Shopping,
           Validators, NoBody
<1>2. QED
  BY <1>1, HandlerDomains

LEMMA CheckoutHandlersConform == \A op \in DOMAIN CheckoutHandlers : Conforms(op)
<1>1. Conforms("createCheckout")
  <2>1. HandlerOf("createCheckout") =
             Handler(TRUE, "CreateCheckoutRequest", Key, 201,
               Shopping \union {Reused, "RESOURCE_NOT_FOUND",
               "CHECKOUT_NOT_ALLOWED", "RESERVATION_NOT_ACTIVE",
               "ORDER_ALREADY_EXISTS"})
    BY HandlersInParts, HandlerDomains DEF HandlerOf, CheckoutHandlers
  <2>2. OPERATIONS["createCheckout"] =
             Operation(Keyed, "CreateCheckoutRequest", 201, {400, 401, 403,
               409, 422, 500})
    BY ContractInParts, ContractDomains DEF PurchaseContract
  <2>3. QED
    BY <2>1, <2>2, StatusOfCodes, UndeclaredAnswers DEF Conforms,
           KeepsContract, Serves, HeadersRead, Allowed, Declared, Handler,
           Key, Operation, Keyed, CodesOf, Reused, Shopping, Validators,
           NoBody
<1>2. QED
  BY <1>1, HandlerDomains

LEMMA OrderHandlersConform == \A op \in DOMAIN OrderHandlers : Conforms(op)
<1>1. Conforms("listMyOrders")
  <2>1. HandlerOf("listMyOrders") = Actorless
    BY HandlersInParts, HandlerDomains DEF HandlerOf, OrderHandlers
  <2>2. OPERATIONS["listMyOrders"] =
             Operation(Auth, NoBody, 200, {401, 403, 500})
    BY ContractInParts, ContractDomains DEF PurchaseContract
  <2>3. QED
    BY <2>1, <2>2, StatusOfCodes, UndeclaredAnswers DEF Conforms,
           KeepsContract, Serves, HeadersRead, Allowed, Declared, Actorless,
           Handler, Operation, Auth, CodesOf, Validators, NoBody
<1>2. Conforms("getMyOrder")
  <2>1. HandlerOf("getMyOrder") = Actorless
    BY HandlersInParts, HandlerDomains DEF HandlerOf, OrderHandlers
  <2>2. OPERATIONS["getMyOrder"] =
             Operation(Auth, NoBody, 200, {401, 403, 404, 500})
    BY ContractInParts, ContractDomains DEF PurchaseContract
  <2>3. QED
    BY <2>1, <2>2, StatusOfCodes, UndeclaredAnswers DEF Conforms,
           KeepsContract, Serves, HeadersRead, Allowed, Declared, Actorless,
           Handler, Operation, Auth, CodesOf, Validators, NoBody
<1>3. QED
  BY <1>1, <1>2, HandlerDomains

LEMMA WompiHandlerConform == \A op \in DOMAIN WompiHandler : Conforms(op)
<1>1. Conforms("receiveWompiWebhook")
  <2>1. HandlerOf("receiveWompiWebhook") = Webhook
    BY HandlersInParts, HandlerDomains DEF HandlerOf, WompiHandler
  <2>2. OPERATIONS["receiveWompiWebhook"] =
             Public("ProviderWebhookPayload", 204, {400, 401, 500})
    BY ContractInParts, ContractDomains DEF BackOfficeContract
  <2>3. QED
    BY <2>1, <2>2, StatusOfCodes, UndeclaredAnswers DEF Conforms,
           KeepsContract, Serves, HeadersRead, Allowed, Declared, Webhook,
           Handler, Public, Operation, CodesOf, Validators, NoBody
<1>2. QED
  BY <1>1, HandlerDomains

LEMMA MercadoPagoHandlerConform == \A op \in DOMAIN MercadoPagoHandler : Conforms(op)
<1>1. Conforms("receiveMercadoPagoWebhook")
  <2>1. HandlerOf("receiveMercadoPagoWebhook") = Webhook
    BY HandlersInParts, HandlerDomains DEF HandlerOf, MercadoPagoHandler
  <2>2. OPERATIONS["receiveMercadoPagoWebhook"] =
             Public("ProviderWebhookPayload", 204, {400, 401, 500})
    BY ContractInParts, ContractDomains DEF BackOfficeContract
  <2>3. QED
    BY <2>1, <2>2, StatusOfCodes, UndeclaredAnswers DEF Conforms,
           KeepsContract, Serves, HeadersRead, Allowed, Declared, Webhook,
           Handler, Public, Operation, CodesOf, Validators, NoBody
<1>2. QED
  BY <1>1, HandlerDomains

LEMMA AllHandlersConform == \A op \in DOMAIN Handlers : Conforms(op)
BY HandlersInParts, SessionHandlersConform, CredentialHandlersConform,
   PublicCatalogHandlersConform, CategoryHandlersConform,
   ProductHandlersConform, StockHandlersConform, BannerHandlersConform,
   MediaHandlersConform, CartHandlersConform, RemovalHandlerConform,
   CheckoutHandlersConform, OrderHandlersConform, WompiHandlerConform,
   MercadoPagoHandlerConform
-----------------------------------------------------------------------------
(* The way of a request.                                                   *)

(* The status an exception is sent with.                                   *)
StatusSent(e) == IF e.http THEN e.status ELSE 500

(* What each stage has checked.                                            *)
Checked ==
    LET op == req.op IN
    /\ at \in Stages
    /\ at \notin {"received", "parsed", "thrown", "answered"} => op \in DOMAIN Handlers
    /\ at \in {"admitted", "valid", "resolved", "called"} /\ Handled.guarded => req.auth = "good"
    /\ at \in {"valid", "resolved", "called"} /\ Handled.body # NoBody =>
          Accepts(Validators[Handled.body], req.body)
    /\ at = "resolved" => Handled.by = "resolver"
    /\ at \in {"resolved", "called"} /\ Handled.by = "resolver" =>
          req.cookie \/ req.auth \in {"absent", "good"}
    /\ at = "called" => Handled.by # "actor"
    /\ at = "called" /\ Handled.by # "signature" => \A h \in HeadersRead(op) : HeaderState(h) = "good"

(* What the answer, or the exception to be answered, has for its status.   *)
Permitted(status) ==
    status \in Allowed(req.op) \/ (req.wire \in Malformed /\ status = 400)
StatusAllowed ==
    /\ at = "thrown" => Permitted(StatusSent(exception))
    /\ at = "answered" => Permitted(answer.http)

SurfaceInv == Checked /\ StatusAllowed

(* The operations without a route.                                         *)
LEMMA NotRouted ==
    ASSUME NEW op \in DOMAIN OPERATIONS, op \notin DOMAIN Handlers
    PROVE  404 \in Allowed(op) /\ 500 \in Allowed(op)
<1>1. op \in {"activateAdmin", "provisionAdminUser", "adminListOrders", "adminGetOrder"}
  BY HandlersInParts, HandlerDomains, ContractInParts, ContractDomains
<1>2. /\ OPERATIONS["provisionAdminUser"] =
            Operation(Keyed, "CreateAdminUserRequest", 201, {400, 401, 403, 404, 409, 429, 500})
      /\ OPERATIONS["adminGetOrder"] = Operation(Auth, NoBody, 200, {401, 403, 404, 500})
      /\ OPERATIONS["activateAdmin"] =
            Public("AdminActivationRequest", 204, {400, 422, 429, 500})
      /\ OPERATIONS["adminListOrders"] = Operation(Auth, NoBody, 200, AdminReads)
  BY ContractInParts, ContractDomains
     DEF IdentityContract, AdminUserAndCategoryContract, BackOfficeContract
<1>3. QED
  BY <1>1, <1>2, UndeclaredAnswers DEF Allowed, Declared, Public, Operation, AdminReads

(* What a handler validates is a body of its schema.                       *)
LEMMA BodiesSent ==
    ASSUME NEW op \in DOMAIN Handlers, NEW r \in Requests(op), HandlerOf(op).body # NoBody
    PROVE  r.body \in BodiesOf(Validators[HandlerOf(op).body])
BY DEF Requests

LEMMA SurfaceInit == Init => SurfaceInv
BY DEF Init, SurfaceInv, Checked, StatusAllowed, Stages

LEMMA TokensVerify ==
    ASSUME NEW auth \in AuthStates, "none" \in TokenChecks(auth)
    PROVE  auth = "good"
<1>1. CASE auth \in {"absent", "malformed", "unverified"}
  <2>1. TokenChecks(auth) = {Unauthenticated}
    BY <1>1, Zenon DEF TokenChecks
  <2>2. QED
    BY <2>1 DEF Unauthenticated
<1>2. QED
  BY <1>1 DEF AuthStates, HeaderStates

LEMMA StatusesSent ==
    /\ StatusSent(Crash) = 500
    /\ \A status, body : StatusSent(Thrown(status, body)) = status
    /\ \A status, code : StatusSent(BadRequest(status, code)) = 400
    /\ \A code : StatusSent(Unauthorized(code)) = 401
    /\ \A code : StatusSent(Failure(code)) = Status(code)
BY DEF StatusSent, Crash, Thrown, BadRequest, Unauthorized, Failure

LEMMA ThrowKeeps ==
    ASSUME NEW e, Throw(e), Permitted(StatusSent(e))
    PROVE  SurfaceInv'
BY DEF Throw, SurfaceInv, Checked, StatusAllowed, Permitted, Stages, StatusSent, Allowed

LEMMA SurfaceStep == Asked /\ SurfaceInv /\ [Next]_vars => SurfaceInv'
<1> SUFFICES ASSUME Asked, SurfaceInv, [Next]_vars PROVE SurfaceInv'
  OBVIOUS
<1> USE DEF Handled
<1>1. at \notin {"received", "parsed", "thrown", "answered"} => req.op \in DOMAIN Handlers
  BY DEF SurfaceInv, Checked
<1>2. ASSUME req.op \in DOMAIN Handlers
      PROVE  KeepsContract(req.op) /\ Serves(req.op)
  BY <1>2, AllHandlersConform DEF Conforms
<1>3. req.auth \in AuthStates /\ req.op \in DOMAIN OPERATIONS
  BY RequestsAreTyped DEF Asked
<1>4. ASSUME NEW code \in TokenChecks(req.auth), code # "none", req.op \in DOMAIN Handlers,
             Handled.by # "none"
      PROVE  Status(code) \in Allowed(req.op) /\ 401 \in Allowed(req.op)
  <2>1. Status(code) \in {401, 500}
    BY <1>3, <1>4, TokenCodes, TransportStatuses
  <2>2. QED
    BY <1>2, <1>4, <2>1 DEF KeepsContract
<1>5. CASE NoRoute
  BY <1>3, <1>5, NotRouted, StatusesSent, ThrowKeeps DEF NoRoute, Permitted
<1>6. CASE ParseBody
  <2>1. 500 \in Allowed(req.op)
    BY <1>2, <1>3, NotRouted DEF KeepsContract
  <2>2. \/ req.wire \in Malformed /\ Throw(Thrown(400, Plain))
        \/ Throw(Crash)
        \/ Reach("parsed")
    BY <1>6 DEF ParseBody
  <2>3. CASE Reach("parsed")
    BY <1>6, <2>3 DEF ParseBody, Reach, SurfaceInv, Checked, StatusAllowed, Stages
  <2>4. QED
    BY <2>1, <2>2, <2>3, StatusesSent, ThrowKeeps DEF Permitted
<1>7. CASE Guard
  <2>1. req.op \in DOMAIN Handlers /\ (Handled.guarded => Handled.by # "none")
    BY <1>2, <1>7 DEF Guard, Serves
  <2>2. ASSUME NEW code \in TokenChecks(req.auth), code # "none", Handled.guarded, Throw(Failure(code))
        PROVE  SurfaceInv'
    BY <1>4, <2>1, <2>2, StatusesSent, ThrowKeeps DEF Permitted
  <2>3. ASSUME Reach("admitted"), Handled.guarded => req.auth = "good"
        PROVE  SurfaceInv'
    BY <1>7, <2>1, <2>3 DEF Guard, Reach, SurfaceInv, Checked, StatusAllowed, Stages
  <2>4. QED
    BY <1>3, <1>7, <2>2, <2>3, TokensVerify DEF Guard
<1>8. CASE Validate
  <2>1. Handled.body # NoBody => 400 \in Allowed(req.op)
    BY <1>1, <1>2, <1>8 DEF Validate, KeepsContract
  <2>2. ASSUME Reach("valid"), Handled.body # NoBody => Accepts(Validators[Handled.body], req.body)
        PROVE  SurfaceInv'
    BY <1>8, <2>2 DEF Validate, Reach, SurfaceInv, Checked, StatusAllowed, Stages
  <2>3. QED
    BY <1>8, <2>1, <2>2, StatusesSent, ThrowKeeps DEF Validate, Permitted
<1>9. CASE ResolveSession
  <2>1. req.op \in DOMAIN Handlers /\ Handled.by = "resolver"
    BY <1>1, <1>9 DEF ResolveSession
  <2>2. ASSUME Reach("resolved"), req.cookie \/ req.auth \in {"absent", "good"}
        PROVE  SurfaceInv'
    BY <1>9, <2>1, <2>2 DEF ResolveSession, Reach, SurfaceInv, Checked, StatusAllowed, Stages
  <2>3. ASSUME Throw(Crash) PROVE SurfaceInv'
    BY <1>2, <2>1, <2>3, StatusesSent, ThrowKeeps DEF Permitted, KeepsContract
  <2>4. ASSUME NEW code \in TokenChecks(req.auth), code # "none", Throw(Unauthorized(code))
        PROVE  SurfaceInv'
    BY <1>4, <2>1, <2>4, StatusesSent, ThrowKeeps DEF Permitted
  <2>5. QED
    BY <1>3, <1>9, <2>2, <2>3, <2>4, TokensVerify DEF ResolveSession
<1>10. CASE FindActor
  <2>1. 400 \in Allowed(req.op)
    BY <1>1, <1>2, <1>10 DEF FindActor, KeepsContract
  <2>2. QED
    BY <1>10, <2>1, StatusesSent, ThrowKeeps DEF FindActor, Permitted
<1>11. CASE CheckHeaders
  <2>1. HeadersRead(req.op) # {} => 400 \in Allowed(req.op)
    BY <1>1, <1>2, <1>11 DEF CheckHeaders, KeepsContract
  <2>2. ASSUME Reach("called"), \A h \in HeadersRead(req.op) : HeaderState(h) = "good"
        PROVE  SurfaceInv'
    <3>1. (\A h \in HeadersRead(req.op) : HeaderState(h) = "good")'
      BY <2>2 DEF Reach, HeaderState
    <3>2. Handled.by # "actor"
      BY <1>11 DEF CheckHeaders, SurfaceInv, Checked
    <3>3. QED
      BY <1>11, <2>2, <3>1, <3>2 DEF CheckHeaders, Reach, SurfaceInv, Checked, StatusAllowed, Stages
  <2>3. QED
    BY <1>11, <2>1, <2>2, StatusesSent, ThrowKeeps DEF CheckHeaders, Permitted
<1>12. CASE CheckSignature
  <2>1. /\ req.op \in DOMAIN Handlers /\ Handled.by = "signature" /\ at = "valid"
        /\ \/ Throw(BadRequest(400, Invalid)) \/ Throw(Failure("INVALID_WEBHOOK_SIGNATURE"))
           \/ Reach("called")
    BY <1>1, <1>12, Zenon DEF CheckSignature
  <2>2. 400 \in Allowed(req.op) /\ 401 \in Allowed(req.op)
    BY <1>2, <2>1 DEF KeepsContract
  <2>3. Status("INVALID_WEBHOOK_SIGNATURE") = 401
    BY StatusOfCodes DEF CodesOf
  <2>4. CASE Reach("called")
    BY <1>12, <2>1, <2>4 DEF Reach, SurfaceInv, Checked, StatusAllowed, Stages
  <2>5. CASE Throw(BadRequest(400, Invalid))
    BY <2>2, <2>5, StatusesSent, ThrowKeeps DEF Permitted
  <2>6. CASE Throw(Failure("INVALID_WEBHOOK_SIGNATURE"))
    BY <2>2, <2>3, <2>6, StatusesSent, ThrowKeeps DEF Permitted
  <2>7. QED
    BY <2>1, <2>4, <2>5, <2>6
<1>13. CASE Succeed
  BY <1>1, <1>2, <1>13 DEF Succeed, KeepsContract, SurfaceInv, Checked, StatusAllowed, Permitted, Stages, Allowed
<1>14. CASE Fail
  <2>1. req.op \in DOMAIN Handlers
    BY <1>1, <1>14 DEF Fail
  <2>2. ASSUME NEW code \in Handled.fails, Throw(Failure(code)) PROVE SurfaceInv'
    BY <1>2, <2>1, <2>2, StatusesSent, ThrowKeeps DEF Permitted, KeepsContract
  <2>3. ASSUME Throw(Crash) PROVE SurfaceInv'
    BY <1>2, <2>1, <2>3, StatusesSent, ThrowKeeps DEF Permitted, KeepsContract
  <2>4. QED
    BY <1>14, <2>2, <2>3 DEF Fail
<1>15. CASE Filter
  <2>1. answer'.http = StatusSent(exception) /\ at' = "answered" /\ UNCHANGED req
    BY <1>15 DEF Filter, StatusSent
  <2>2. QED
    BY <1>15, <2>1 DEF Filter, SurfaceInv, Checked, StatusAllowed, Permitted, Stages, Allowed
<1>16. CASE UNCHANGED vars
  BY <1>16 DEF vars, SurfaceInv, Checked, StatusAllowed, Permitted, HeaderState
<1>17. QED
  BY <1>5, <1>6, <1>7, <1>8, <1>9, <1>10, <1>11, <1>12, <1>13, <1>14, <1>15, <1>16 DEF Next

LEMMA SurfaceInvariant == Spec => []SurfaceInv
BY AskedInvariant, SurfaceInit, SurfaceStep, PTL DEF Spec

(* Wherever a request fails, it is answered with a status its operation's  *)
(* contract declares or Beside lists, or with 400 when its body is not     *)
(* JSON or its path cannot be decoded: those are answered before routing.  *)
THEOREM AnswersHonourContract == Spec => []AnswersKeepContract
<1>1. SurfaceInv => AnswersKeepContract
  BY DEF SurfaceInv, StatusAllowed, Permitted, AnswersKeepContract, Allowed
<1>2. QED
  BY <1>1, SurfaceInvariant, PTL

(* What a use case is called with.                                         *)
LEMMA CalledWith ==
    ASSUME Asked, SurfaceInv, at = "called"
    PROVE  /\ req.op \in DOMAIN Handlers /\ Serves(req.op)
           /\ Handled.body # NoBody =>
                 /\ Handled.body \in DOMAIN Validators
                 /\ \A f \in DOMAIN req.body.fields :
                       req.body.fields[f].type \in TypeOfField(Handled.body, f)
                 /\ Overflowing(Handled.body, req.body) \subseteq Unlimited
<1>1. req.op \in DOMAIN Handlers /\ Serves(req.op)
  BY AllHandlersConform DEF SurfaceInv, Checked, Conforms
<1>2. ASSUME Handled.body # NoBody
      PROVE  /\ Handled.body \in DOMAIN Validators
             /\ req.body \in BodiesOf(Validators[Handled.body])
             /\ Accepts(Validators[Handled.body], req.body)
  BY <1>1, <1>2, BodiesSent DEF Asked, Handled, Serves, SurfaceInv, Checked
<1>3. QED
  BY <1>1, <1>2, AcceptedBodies

(* What a validator accepts is as wide as its columns at most, but for the *)
(* numbers the contract gives no maximum, however wide the integers are.   *)
THEOREM AcceptedBodiesAreStored == Spec => []AcceptedBodiesFit
<1>1. Asked /\ SurfaceInv => AcceptedBodiesFit
  BY CalledWith DEF AcceptedBodiesFit
<1>2. QED
  BY <1>1, AskedInvariant, SurfaceInvariant, PTL

(* A use case runs only for a request with the headers its contract asks   *)
(* for and a body of the types its schema declares.                        *)
THEOREM UseCasesAreServed == Spec => []UseCasesGetWhatTheyExpect
<1>1. Asked /\ SurfaceInv => UseCasesGetWhatTheyExpect
  <2> SUFFICES ASSUME Asked, SurfaceInv, at = "called" PROVE UseCasesGetWhatTheyExpect
    BY DEF UseCasesGetWhatTheyExpect
  <2>1. req.op \in DOMAIN Handlers /\ Serves(req.op) /\ req.op \in DOMAIN OPERATIONS
    BY CalledWith DEF Asked
  <2>2. ASSUME NEW h \in OPERATIONS[req.op].headers PROVE WellFormed(h)
    <3>1. /\ WellFormed("Authorization") <=>
                \/ req.auth = "good"
                \/ Handled.by = "resolver" /\ (req.cookie \/ req.auth = "absent")
          /\ WellFormed("Idempotency-Key") <=> req.key = "good"
          /\ WellFormed("If-Match") <=> req.match = "good"
      BY Zenon DEF WellFormed
    <3>2. h \in {"Authorization", "Idempotency-Key", "If-Match"} /\ Handled.by \in {"guard", "resolver"}
      BY <2>1 DEF Serves, Handled, SurfaceInv, Checked
    <3>3. CASE h = "Authorization"
      BY <2>1, <3>1, <3>2, <3>3 DEF Serves, Handled, SurfaceInv, Checked
    <3>4. CASE h # "Authorization"
      <4>1. HeaderState(h) = "good"
        BY <2>1, <3>2, <3>4 DEF Serves, Handled, SurfaceInv, Checked
      <4>2. QED
        BY <3>1, <3>2, <3>4, <4>1 DEF HeaderState
    <3>5. QED
      BY <3>3, <3>4
  <2>3. ASSUME OPERATIONS[req.op].body \in DOMAIN Validators
        PROVE  /\ OPERATIONS[req.op].body = Handled.body
               /\ \A f \in DOMAIN req.body.fields :
                     req.body.fields[f].type \in TypeOfField(Handled.body, f)
    <3>1. Handled.body # NoBody /\ OPERATIONS[req.op].body = Handled.body
      BY <2>1, <2>3 DEF Serves, Handled, Validators, NoBody
    <3>2. QED
      BY <3>1, CalledWith
  <2>4. QED
    BY <2>2, <2>3 DEF UseCasesGetWhatTheyExpect
<1>2. QED
  BY <1>1, AskedInvariant, SurfaceInvariant, PTL

=============================================================================
