---------------------------- MODULE HttpSurface -----------------------------
(***************************************************************************)
(* The way of one request through the HTTP surface: guard, validation      *)
(* pipe, controller, use case, error mapper and exception filter           *)
(* (src/shared/http and the controllers of src/modules), against the       *)
(* contract of the operation (HttpContract).  What a use case does is in   *)
(* the other modules: here it is the set of codes it may fail with.        *)
(*                                                                         *)
(* A JSON error body is the status and the code it names.                  *)
(***************************************************************************)
EXTENDS HttpContract, RequestBodies

VARIABLES
    req,        \* the request
    at,         \* how far it is
    exception,  \* what was thrown, when at = "thrown"
    answer      \* status and body, when at = "answered"

vars == <<req, at, exception, answer>>

Technical == "TECHNICAL_DEPENDENCY_FAILURE"
Invalid == "INVALID_DOMAIN_INPUT"
Unauthenticated == "AUTHENTICATION_REQUIRED"

-----------------------------------------------------------------------------
(* The status of each failure (domain-error-mapper.ts).                    *)
CodesOf == [
    s400 |-> {Invalid},
    s401 |-> {Unauthenticated, "INVALID_CREDENTIALS", "INVALID_WEBHOOK_SIGNATURE"},
    s403 |-> {"ADMIN_STOREFRONT_PURCHASE_FORBIDDEN", "INITIAL_PASSWORD_CHANGE_REQUIRED", "ACTOR_NOT_AUTHORIZED"},
    s404 |-> {"RESOURCE_NOT_FOUND", "CART_ITEM_NOT_FOUND"},
    s409 |-> {"EMAIL_ALREADY_REGISTERED", "IDEMPOTENCY_KEY_REUSED", "VERSION_MISMATCH",
              "DUPLICATE_WEBHOOK_EVENT", "ORDER_ALREADY_EXISTS", "INVALID_STATE_TRANSITION"},
    s410 |-> {"SESSION_EXPIRED", "CART_RESERVATION_EXPIRED"},
    s422 |-> {"ACTIVATION_TOKEN_INVALID_OR_EXPIRED", "PASSWORD_RESET_TOKEN_INVALID_OR_EXPIRED",
              "CURRENT_PASSWORD_INVALID", "STOCK_INSUFFICIENT", "RESERVATION_NOT_ACTIVE",
              "CHECKOUT_NOT_ALLOWED", "PAYMENT_HOLD_NOT_CONSUMABLE"}]

Status(code) ==
    CASE code \in CodesOf.s400 -> 400 [] code \in CodesOf.s401 -> 401 [] code \in CodesOf.s403 -> 403
      [] code \in CodesOf.s404 -> 404 [] code \in CodesOf.s409 -> 409 [] code \in CodesOf.s410 -> 410
      [] code \in CodesOf.s422 -> 422 [] OTHER -> 500

(* What may be thrown: an HttpException with an error body of its own, or  *)
(* with none (plain), or anything else.                                    *)
Plain == [status |-> 0, code |-> "none"]
Thrown(status, body) == [http |-> TRUE, status |-> status, body |-> body]
Crash == [http |-> FALSE, status |-> 0, body |-> Plain]

buildErrorResponse(code) == [status |-> Status(code), code |-> code]
Failure(code) == Thrown(Status(code), buildErrorResponse(code))
BadRequest(status, code) == Thrown(400, [status |-> status, code |-> code])
Unauthorized(code) == Thrown(401, buildErrorResponse(code))

HttpStatus == [UNAUTHORIZED |-> 401, FORBIDDEN |-> 403, NOT_FOUND |-> 404, TOO_MANY_REQUESTS |-> 429]
transportCodeForStatus(status) ==
    CASE status = HttpStatus.UNAUTHORIZED -> Unauthenticated
      [] status = HttpStatus.FORBIDDEN -> "ACTOR_NOT_AUTHORIZED"
      [] status = HttpStatus.NOT_FOUND -> "RESOURCE_NOT_FOUND"
      [] status = HttpStatus.TOO_MANY_REQUESTS -> "RATE_LIMITED"
      [] OTHER -> IF status >= 500 THEN Technical ELSE Invalid

-----------------------------------------------------------------------------
(* The controllers: what each handler asks for, the status of its success  *)
(* (a POST without @HttpCode answers 201) and the codes its use case fails *)
(* with, besides the technical one.                                        *)
Handler(guarded, body, headers, success, fails) ==
    [guarded |-> guarded, body |-> body, headers |-> headers, success |-> success,
     fails |-> fails \union {Technical}, by |-> IF guarded THEN "guard" ELSE "none"]
Unguarded(body, success, fails) == Handler(FALSE, body, <<>>, success, fails)
Key == <<"Idempotency-Key">>
MatchThenKey == <<"If-Match", "Idempotency-Key">>
Reused == "IDEMPOTENCY_KEY_REUSED"

SessionHandlers == [
    getMyProfile     |-> Handler(TRUE, NoBody, <<>>, 200, {Unauthenticated}),
    registerCustomer |-> Unguarded("RegisterRequest", 201, {"EMAIL_ALREADY_REGISTERED"}),
    login            |-> Unguarded("LoginRequest", 201, {"INVALID_CREDENTIALS"}),
    refreshSession   |-> Unguarded(NoBody, 201, {Unauthenticated}),
    logout           |-> Handler(TRUE, NoBody, <<>>, 204, {Unauthenticated})]

CredentialHandlers == [
    updateMyProfile      |-> Handler(TRUE, "UpdateProfileRequest", Key, 200, {Unauthenticated, Reused}),
    changePassword       |-> Handler(TRUE, "PasswordChangeRequest", Key, 204,
                                     {Unauthenticated, Reused, "CURRENT_PASSWORD_INVALID"}),
    requestPasswordReset |-> Unguarded("PasswordResetRequest", 202, {}),
    resetPassword        |-> Unguarded("PasswordResetConfirmRequest", 204,
                                       {"PASSWORD_RESET_TOKEN_INVALID_OR_EXPIRED"})]

PublicCatalogHandlers == [
    listCategories    |-> Unguarded(NoBody, 200, {}),
    listProducts      |-> Unguarded(NoBody, 200, {}),
    getProduct        |-> Unguarded(NoBody, 200, {"RESOURCE_NOT_FOUND"}),
    listActiveBanners |-> Unguarded(NoBody, 200, {})]

Creating == {"ACTOR_NOT_AUTHORIZED", "INITIAL_PASSWORD_CHANGE_REQUIRED", Reused}
Deleting == Creating \union {"RESOURCE_NOT_FOUND"}
Updating == Deleting \union {"VERSION_MISMATCH"}

CategoryHandlers == [
    adminListCategories |-> Handler(TRUE, NoBody, <<>>, 200, {}),
    adminCreateCategory |-> Handler(TRUE, "CategoryWriteRequest", Key, 201, Creating),
    adminUpdateCategory |-> Handler(TRUE, "CategoryWriteRequest", MatchThenKey, 200, Updating),
    adminDeleteCategory |-> Handler(TRUE, NoBody, Key, 204, Deleting \union {"INVALID_STATE_TRANSITION"})]

ProductHandlers == [
    adminListProducts  |-> Handler(TRUE, NoBody, <<>>, 200, {}),
    adminCreateProduct |-> Handler(TRUE, "ProductWriteRequest", Key, 201, Creating),
    adminUpdateProduct |-> Handler(TRUE, "ProductUpdateRequest", MatchThenKey, 200, Updating),
    adminDeleteProduct |-> Handler(TRUE, NoBody, Key, 204, Deleting)]

StockHandlers == [
    adminCreateProductStockAdjustment |->
        Handler(TRUE, "StockAdjustmentRequest", Key, 201, Deleting \union {"STOCK_INSUFFICIENT"})]

BannerHandlersUnmatched ==      \* mutant: the update does not read If-Match
    [adminListBanners  |-> Handler(TRUE, NoBody, <<>>, 200, {}),
     adminCreateBanner |-> Handler(TRUE, "BannerWriteRequest", Key, 201, Creating),
     adminUpdateBanner |-> Handler(TRUE, "BannerWriteRequest", Key, 200, Updating),
     adminDeleteBanner |-> Handler(TRUE, NoBody, Key, 204, Deleting)]
BannerHandlers == [
    adminListBanners  |-> Handler(TRUE, NoBody, <<>>, 200, {}),
    adminCreateBanner |-> Handler(TRUE, "BannerWriteRequest", Key, 201, Creating),
    adminUpdateBanner |-> Handler(TRUE, "BannerWriteRequest", MatchThenKey, 200, Updating),
    adminDeleteBanner |-> Handler(TRUE, NoBody, Key, 204, Deleting)]

MediaHandlers == [
    createMediaUploadUrl |-> Handler(TRUE, "CreateUploadUrlRequest", Key, 201,
                                     Creating \union {Unauthenticated, Invalid})]

(* Cart handlers ask the session resolver, not the guard.                  *)
Shopping == {"SESSION_EXPIRED", "ADMIN_STOREFRONT_PURCHASE_FORBIDDEN"}
Cart(body, headers, success, fails) ==
    [Handler(FALSE, body, headers, success, Shopping \union fails) EXCEPT !.by = "resolver"]
CartHandlers == [
    getCart             |-> Cart(NoBody, <<>>, 200, {"CART_RESERVATION_EXPIRED"}),
    addCartItem         |-> Cart("CartItemMutationRequest", Key, 201,
                                 {Reused, "RESOURCE_NOT_FOUND", "STOCK_INSUFFICIENT", "RESERVATION_NOT_ACTIVE"}),
    setCartItemQuantity |-> Cart("SetCartItemQuantityRequest", Key, 200,
                                 {Reused, "RESOURCE_NOT_FOUND", "CART_ITEM_NOT_FOUND", "STOCK_INSUFFICIENT",
                                  "RESERVATION_NOT_ACTIVE"})]
RemovalHandler == [
    removeCartItem |-> Cart(NoBody, Key, 204, {Reused, "CART_ITEM_NOT_FOUND", "RESERVATION_NOT_ACTIVE"})]

CheckoutHandlers == [
    createCheckout |-> Handler(TRUE, "CreateCheckoutRequest", Key, 201,
                               Shopping \union {Reused, "RESOURCE_NOT_FOUND", "CHECKOUT_NOT_ALLOWED",
                                                "RESERVATION_NOT_ACTIVE", "ORDER_ALREADY_EXISTS"})]

(* Order handlers look for an actor no guard has set.                      *)
Actorless == [Handler(FALSE, NoBody, <<>>, 200, {}) EXCEPT !.by = "actor"]
OrderHandlers == [listMyOrders |-> Actorless, getMyOrder |-> Actorless]

Webhook == [Handler(FALSE, NoBody, <<"Event-Id", "Signature">>, 204, {}) EXCEPT !.by = "signature"]
WompiHandler == [receiveWompiWebhook |-> Webhook]
MercadoPagoHandler == [receiveMercadoPagoWebhook |-> Webhook]

Handlers == Joined({SessionHandlers, CredentialHandlers, PublicCatalogHandlers, CategoryHandlers,
                    ProductHandlers, StockHandlers, BannerHandlers, MediaHandlers, CartHandlers,
                    RemovalHandler, CheckoutHandlers, OrderHandlers, WompiHandler, MercadoPagoHandler})

-----------------------------------------------------------------------------
(* A request: a header is absent, ill-formed or good; an access token that *)
(* is well-formed may still not verify.  Whatever the operation, what      *)
(* comes over the wire may carry a body that is not JSON or is too large,  *)
(* and where a route has a parameter, a path that cannot be decoded.       *)
HeaderStates == {"absent", "malformed", "good"}
AuthStates == HeaderStates \union {"unverified"}
Malformed == {"not JSON", "undecodable path"}
NoFields == Body(TRUE, FALSE, <<>>)
PageStates == {"default", "below one", "not a number"}

HandlerOf(op) == Handlers[op]
HeadersRead(op) == {HandlerOf(op).headers[i] : i \in DOMAIN HandlerOf(op).headers}
Paged == {"listProducts", "adminListProducts"}
Addressed == {"getProduct", "setCartItemQuantity", "removeCartItem", "getMyOrder",
              "adminUpdateCategory", "adminDeleteCategory", "adminUpdateProduct", "adminDeleteProduct",
              "adminCreateProductStockAdjustment", "adminUpdateBanner", "adminDeleteBanner"}

Requests(op) ==
    LET known == op \in DOMAIN Handlers
        reads(h) == known /\ h \in HeadersRead(op)
        bodies == IF known /\ HandlerOf(op).body # NoBody
                  THEN BodiesOf(Validators[HandlerOf(op).body]) ELSE {NoFields}
    IN [op: {op}, body: bodies,
        wire: {"readable", "not JSON", "too large"}
              \union (IF op \in Addressed THEN {"undecodable path"} ELSE {}),
        auth: IF known /\ HandlerOf(op).by \in {"guard", "resolver", "actor"} THEN AuthStates ELSE {"absent"},
        cookie: IF known /\ HandlerOf(op).by = "resolver" THEN BOOLEAN ELSE {FALSE},
        key: IF reads("Idempotency-Key") \/ reads("Event-Id") THEN HeaderStates ELSE {"absent"},
        match: IF reads("If-Match") \/ reads("Signature") THEN HeaderStates ELSE {"absent"},
        page: IF op \in Paged THEN PageStates ELSE {"default"}]

None == [status |-> 0, code |-> "none"]

Init ==
    /\ \E op \in DOMAIN OPERATIONS : req \in Requests(op)
    /\ at = "received"
    /\ exception = Crash
    /\ answer = [http |-> 0, body |-> None]

Handled == HandlerOf(req.op)
Throw(e) == at' = "thrown" /\ exception' = e /\ UNCHANGED <<req, answer>>
Reach(stage) == at' = stage /\ UNCHANGED <<req, exception, answer>>

(* The body is parsed, whatever the method, before anything looks for a    *)
(* route; the path's parameters are decoded by the route that takes it.    *)
(* Only a syntax error becomes an HttpException.                           *)
ParseBody ==
    /\ at = "received"
    /\ \/ req.wire \in Malformed /\ Throw(Thrown(400, Plain))
       \/ req.wire = "too large" /\ Throw(Crash)
       \/ req.wire = "readable" /\ Reach("parsed")

NoRoute ==
    /\ at = "parsed" /\ req.op \notin DOMAIN Handlers
    /\ Throw(Thrown(404, Plain))

TokenChecks(auth) ==            \* codes verification ends with
    CASE auth \in {"absent", "malformed", "unverified"} -> {Unauthenticated}
      [] auth = "good" -> {"none", Technical}

Guard ==
    /\ at = "parsed" /\ req.op \in DOMAIN Handlers
    /\ IF ~Handled.guarded THEN Reach("admitted")
       ELSE \E code \in TokenChecks(req.auth) :
               IF code = "none" THEN Reach("admitted") ELSE Throw(Failure(code))

ValidateUnprocessable ==        \* mutant: a body in the wrong form is 422
    /\ at = "admitted"
    /\ IF Handled.body = NoBody \/ Accepts(Validators[Handled.body], req.body)
       THEN Reach("valid") ELSE Throw(Thrown(422, [status |-> 422, code |-> Invalid]))
Validate ==
    /\ at = "admitted"
    /\ IF Handled.body = NoBody \/ Accepts(Validators[Handled.body], req.body)
       THEN Reach("valid") ELSE Throw(BadRequest(400, Invalid))

(* A cart request without a cookie, but with an Authorization header, must *)
(* bear a token that verifies.                                             *)
ResolveSession ==
    /\ at = "valid" /\ Handled.by = "resolver"
    /\ \/ /\ req.cookie \/ req.auth = "absent"
          /\ Reach("resolved") \/ Throw(Crash)
       \/ /\ ~req.cookie /\ req.auth # "absent"
          /\ \E code \in TokenChecks(req.auth) :
                IF code = "none" THEN Reach("resolved") ELSE Throw(Unauthorized(code))

FindActor ==
    /\ at = "valid" /\ Handled.by = "actor"
    /\ Throw(BadRequest(401, Unauthenticated))

HeaderState(h) == IF h \in {"If-Match", "Signature"} THEN req.match ELSE req.key

CheckHeaders ==
    /\ \/ at = "valid" /\ Handled.by \in {"guard", "none"}
       \/ at = "resolved"
    /\ IF \A h \in HeadersRead(req.op) : HeaderState(h) = "good"
       THEN Reach("called") ELSE Throw(BadRequest(400, Invalid))

CheckSignature ==
    /\ at = "valid" /\ Handled.by = "signature"
    /\ CASE req.key # "good" \/ req.match = "absent" -> Throw(BadRequest(400, Invalid))
         [] req.key = "good" /\ req.match = "malformed" -> Throw(Failure("INVALID_WEBHOOK_SIGNATURE"))
         [] OTHER -> Reach("called") \/ Throw(BadRequest(400, Invalid))

(* A number wider than its column makes the write fail; so does a page     *)
(* before the first, which no listing corrects.                            *)
CannotSucceed ==
    \/ Handled.body # NoBody /\ Overflowing(Handled.body, req.body) # {}
    \/ req.page = "below one"

Succeed ==
    /\ at = "called" /\ ~CannotSucceed
    /\ at' = "answered"
    /\ answer' = [http |-> Handled.success, body |-> None]
    /\ UNCHANGED <<req, exception>>

Fail ==
    /\ at = "called"
    /\ \/ \E code \in Handled.fails : Throw(Failure(code))
       \/ Throw(Crash)

FilterGeneric ==                \* mutant: the filter writes every body anew
    /\ at = "thrown"
    /\ at' = "answered"
    /\ answer' = IF exception.http
                 THEN [http |-> exception.status,
                       body |-> [status |-> exception.status, code |-> transportCodeForStatus(exception.status)]]
                 ELSE [http |-> 500, body |-> buildErrorResponse(Technical)]
    /\ UNCHANGED <<req, exception>>
Filter ==
    /\ at = "thrown"
    /\ at' = "answered"
    /\ answer' = IF ~exception.http
                 THEN [http |-> 500, body |-> buildErrorResponse(Technical)]
                 ELSE [http |-> exception.status,
                       body |-> IF exception.body # Plain THEN exception.body
                                ELSE [status |-> exception.status,
                                      code |-> transportCodeForStatus(exception.status)]]
    /\ UNCHANGED <<req, exception>>

Next ==
    \/ ParseBody \/ NoRoute \/ Guard \/ Validate \/ ResolveSession \/ FindActor \/ CheckHeaders
    \/ CheckSignature \/ Succeed \/ Fail \/ Filter

Spec == Init /\ [][Next]_vars

-----------------------------------------------------------------------------
Stages == {"received", "parsed", "admitted", "valid", "resolved", "called", "thrown", "answered"}

(* A request, where it is, and an answer of one of the statuses the shop   *)
(* has a meaning for, once it is answered.                                 *)
TypeOK ==
    /\ req.op \in DOMAIN OPERATIONS
    /\ at \in Stages
    /\ exception.http \in BOOLEAN
    /\ IF at = "answered"
       THEN answer.http \in {200, 201, 202, 204, 400, 401, 403, 404, 409, 410, 422, 500}
       ELSE answer = [http |-> 0, body |-> None]

(* Every answer to a request that can be read has a status its operation's *)
(* contract declares: what the header of operation-map.ts:4-6 says of the  *)
(* operations that have a controller.                                      *)
Declared(op) == {OPERATIONS[op].success} \union OPERATIONS[op].errors
AnswersAreDeclared ==
    at = "answered" /\ req.wire = "readable" /\ req.op \in DOMAIN Handlers =>
        answer.http \in Declared(req.op)

(* ... and the statuses the code gives beside it: a POST without an        *)
(* @HttpCode; the key of a deletion, which its contract cannot refuse; use *)
(* cases that fail with a code their contract does not list; the order     *)
(* handlers without a guard; and three operations without a route.         *)
Beside == [
    login |-> {201}, refreshSession |-> {201},
    listMyOrders |-> {400}, getMyOrder |-> {400}, adminDeleteCategory |-> {400},
    adminDeleteProduct |-> {400, 409}, adminDeleteBanner |-> {400, 409}, removeCartItem |-> {400, 422},
    addCartItem |-> {401, 404}, createCheckout |-> {404, 410}, createMediaUploadUrl |-> {409},
    adminCreateProductStockAdjustment |-> {422}, activateAdmin |-> {404}, adminListOrders |-> {404}]
Undeclared(op) == IF op \in DOMAIN Beside THEN Beside[op] ELSE {}

(* Wherever a request fails, it is answered with a status of its contract  *)
(* or one of those, and a body that is not JSON or a path that cannot be   *)
(* decoded with 400, which the contracts of operations without a body do   *)
(* not declare: Nest answers it before the operation is known.             *)
AnswersKeepContract ==
    at = "answered" =>
        \/ answer.http \in Declared(req.op) \union Undeclared(req.op)
        \/ req.wire \in Malformed /\ answer.http = 400

(* A client may trust the code of an error body: the status sent and the   *)
(* status written in the body are both the code's own.  Two exceptions:    *)
(* order handlers send 400 with the body of a 401, and a session resolver  *)
(* that fails technically sends 401 with the body of a 500.                *)
Misreported ==
    \/ Handled.by = "actor" /\ answer = [http |-> 400, body |-> buildErrorResponse(Unauthenticated)]
    \/ Handled.by = "resolver" /\ answer = [http |-> 401, body |-> buildErrorResponse(Technical)]
ErrorsTellTheirCode ==
    at = "answered" /\ answer.body # None =>
        \/ answer.body = buildErrorResponse(answer.body.code) /\ answer.http = answer.body.status
        \/ Misreported

(* A use case runs only for a request with the headers its contract asks   *)
(* for and a body of the schema's types: the controllers cast it unseen.   *)
(* A cart is also served to a guest, by cookie or with no token at all.    *)
WellFormed(h) ==
    CASE h = "Authorization" -> req.auth = "good" \/ (Handled.by = "resolver" /\ (req.cookie \/ req.auth = "absent"))
      [] h = "Idempotency-Key" -> req.key = "good"
      [] h = "If-Match" -> req.match = "good"
UseCasesGetWhatTheyExpect ==
    at = "called" =>
        /\ \A h \in OPERATIONS[req.op].headers : WellFormed(h)
        /\ OPERATIONS[req.op].body \in DOMAIN Validators =>
               /\ OPERATIONS[req.op].body = Handled.body
               /\ \A f \in DOMAIN req.body.fields :
                      req.body.fields[f].type \in TypeOfField(Handled.body, f)

(* What a validator accepts is as wide as its columns at most, but for the *)
(* numbers the contract gives no maximum: they fail the write, with a 500. *)
Unlimited == {"stock_on_hand", "quantity_delta", "images_position", "display_order",
              "regular_price_cop", "sale_price_cop"}
AcceptedBodiesFit ==
    at = "called" /\ Handled.body # NoBody => Overflowing(Handled.body, req.body) \subseteq Unlimited
=============================================================================
