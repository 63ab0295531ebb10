---------------------------- MODULE HttpContract ----------------------------
(***************************************************************************)
(* What the published contract says of each HTTP operation                 *)
(* (src/contract/operation-map.ts): the headers and the body it takes, the *)
(* status of its success and those of its errors.  Method, path, tags and  *)
(* response schema are left out.                                           *)
(***************************************************************************)
EXTENDS Integers, Tables

NoBody == "none"
Auth == {"Authorization"}
Keyed == {"Authorization", "Idempotency-Key"}
Versioned == {"Authorization", "Idempotency-Key", "If-Match"}

Operation(headers, body, success, errors) ==
    [headers |-> headers, body |-> body, success |-> success, errors |-> errors]
Public(body, success, errors) == Operation({}, body, success, errors)

IdentityContract == [
    registerCustomer     |-> Public("RegisterRequest", 201, {400, 409, 429, 500}),
    login                |-> Public("LoginRequest", 200, {400, 401, 429, 500}),
    refreshSession       |-> Public(NoBody, 200, {401, 403, 500}),
    logout               |-> Operation(Auth, NoBody, 204, {401, 500}),
    requestPasswordReset |-> Public("PasswordResetRequest", 202, {400, 429, 500}),
    resetPassword        |-> Public("PasswordResetConfirmRequest", 204, {400, 422, 429, 500}),
    changePassword       |-> Operation(Keyed, "PasswordChangeRequest", 204, {400, 401, 403, 409, 422, 500}),
    activateAdmin        |-> Public("AdminActivationRequest", 204, {400, 422, 429, 500}),
    getMyProfile         |-> Operation(Auth, NoBody, 200, {401, 500}),
    updateMyProfile      |-> Operation(Keyed, "UpdateProfileRequest", 200, {400, 401, 403, 409, 500})]

StorefrontContract == [
    listCategories    |-> Public(NoBody, 200, {429, 500}),
    listProducts      |-> Public(NoBody, 200, {400, 500}),
    getProduct        |-> Public(NoBody, 200, {404, 500}),
    listActiveBanners |-> Public(NoBody, 200, {429, 500})]

PurchaseContract == [
    getCart             |-> Operation(Auth, NoBody, 200, {401, 403, 410, 500}),
    addCartItem         |-> Operation(Keyed, "CartItemMutationRequest", 201, {400, 403, 409, 410, 422, 500}),
    setCartItemQuantity |-> Operation(Keyed, "SetCartItemQuantityRequest", 200,
                                      {400, 401, 403, 404, 409, 410, 422, 500}),
    removeCartItem      |-> Operation(Keyed, NoBody, 204, {401, 403, 404, 409, 410, 500}),
    createCheckout      |-> Operation(Keyed, "CreateCheckoutRequest", 201, {400, 401, 403, 409, 422, 500}),
    listMyOrders        |-> Operation(Auth, NoBody, 200, {401, 403, 500}),
    getMyOrder          |-> Operation(Auth, NoBody, 200, {401, 403, 404, 500})]

AdminReads == {401, 403, 500}
AdminCreates == {400, 401, 403, 409, 500}
AdminUpdates == AdminCreates \union {404}

AdminUserAndCategoryContract == [
    provisionAdminUser  |-> Operation(Keyed, "CreateAdminUserRequest", 201, {400, 401, 403, 404, 409, 429, 500}),
    adminListCategories |-> Operation(Auth, NoBody, 200, AdminReads),
    adminCreateCategory |-> Operation(Keyed, "CategoryWriteRequest", 201, AdminCreates),
    adminUpdateCategory |-> Operation(Versioned, "CategoryWriteRequest", 200, AdminUpdates),
    adminDeleteCategory |-> Operation(Keyed, NoBody, 204, {401, 403, 404, 409, 500})]

AdminProductContract == [
    adminListProducts  |-> Operation(Auth, NoBody, 200, AdminReads),
    adminCreateProduct |-> Operation(Keyed, "ProductWriteRequest", 201, AdminCreates),
    adminUpdateProduct |-> Operation(Versioned, "ProductUpdateRequest", 200, AdminUpdates),
    adminDeleteProduct |-> Operation(Keyed, NoBody, 204, {401, 403, 404, 500}),
    adminCreateProductStockAdjustment |-> Operation(Keyed, "StockAdjustmentRequest", 201, AdminUpdates)]

AdminBannerContract == [
    adminListBanners  |-> Operation(Auth, NoBody, 200, AdminReads),
    adminCreateBanner |-> Operation(Keyed, "BannerWriteRequest", 201, AdminCreates),
    adminUpdateBanner |-> Operation(Versioned, "BannerWriteRequest", 200, AdminUpdates),
    adminDeleteBanner |-> Operation(Keyed, NoBody, 204, {401, 403, 404, 500})]

BackOfficeContract == [
    adminListOrders           |-> Operation(Auth, NoBody, 200, AdminReads),
    adminGetOrder             |-> Operation(Auth, NoBody, 200, {401, 403, 404, 500}),
    createMediaUploadUrl      |-> Operation(Keyed, "CreateUploadUrlRequest", 201, {400, 401, 403, 500}),
    receiveWompiWebhook       |-> Public("ProviderWebhookPayload", 204, {400, 401, 500}),
    receiveMercadoPagoWebhook |-> Public("ProviderWebhookPayload", 204, {400, 401, 500})]

OPERATIONS == Joined({IdentityContract, StorefrontContract, PurchaseContract,
                      AdminUserAndCategoryContract, AdminProductContract, AdminBannerContract,
                      BackOfficeContract})
=============================================================================
