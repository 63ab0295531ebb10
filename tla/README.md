# Formal models of merkee-shop-api

TLA+ modules, TLC runs and TLAPS proofs for the shop's backend: server carts
that reserve stock, the reaper that takes it back, checkout, the settlement of
payments by webhooks and by a reconciliation job, accounts and their sessions,
the administrators' catalog and appointments, the purge of idempotency records,
and the HTTP surface with its contract. Paths are relative to the repository;
`modules/` abbreviates `src/modules/`.

## 1. The system

One NestJS service, any number of replicas, over one PostgreSQL database
(Prisma transactions at the default isolation, READ COMMITTED; only the units
of work of passwords, profiles and appointments ask for SERIALIZABLE). Nothing
else is shared: what coordinates requests, timers and replicas are row locks,
constraints and one advisory lock.

| component | state it keeps | operations that change it |
|---|---|---|
| cart-reservation | `carts`, `cart_items`, `stock_reservations`, `products.stock_reserved`, `idempotency_records` | add, set, remove, view (renews the session), release a whole cart, close |
| cart HTTP surface | the session behind a request; the browser's cookies | resolve, create a guest session, set and clear cookies |
| reservation reaper | the cart's tables | one batch per timer tick, retried |
| identity: sessions | `sessions`, `carts.session_id` | login with promotion of a guest's cart, refresh, logout |
| identity: credentials | `users`, `password_reset_tokens`, `admin_activation_tokens`, `idempotency_records` | registration, password change and reset, profile, appointment, activation, bootstrap of the first administrator |
| checkout | `orders`, `payments`, the reservations' status | one operation: validate, call the provider, place the order |
| payments: webhooks | `payment_webhook_events`, `payments`, `orders`, stock, `outbox_events` | one transaction per event |
| payments: reconciliation | the same tables | a batch per tick, many small transactions |
| catalog and media | `products`, `categories`, `banners`, images, `stock_adjustments`, `idempotency_records` | create, update, delete of three kinds; stock adjustment; upload URL |
| idempotency purge | `idempotency_records` | batches under an advisory lock |
| transport: contract, shared HTTP | none | guard, validation, error mapping of every request |
| orders, admin-query | none of their own | reads |

How they interact. Stock meets in `products` and `stock_reservations`: a
reservation is created by the cart, expired by the reaper, released by identity
(logout, an administrator's login), frozen by checkout, consumed by payments,
and the catalog sets the stock beneath it. Sessions tie the cart to identity: a
login moves a guest's cart or closes it. Every keyed operation meets the purge
in `idempotency_records`. Calls are direct (ports and adapters); there is no
queue, and `outbox_events` has no consumer yet.

What is hard here:

* **Reads without locks.** A transaction reads a reservation, locks the
  *product*, and writes the reservation by id. Whatever another transaction
  did in between is overwritten.
* **Waiting on the outside.** Checkout validates, waits for the payment
  provider, and only then opens its transaction.
* **Work cut into small transactions.** Login, logout, every catalog operation
  and the reconciliation job are sequences of transactions; the process may die
  between any two.
* **Failures returned as values.** A unit of work rolls back when it throws and
  commits when its work function *returns* a failure.
* **At-least-once, out-of-order input.** Clients retry with an idempotency key;
  provider events are lost, late, repeated, early; answers and their cookies
  arrive late, out of order or never.
* **Timers in every replica**, excluding each other through `FOR UPDATE SKIP
  LOCKED` inside a transaction (reaper) or outside one (reconciliation), or an
  advisory lock (purge).

What makes each component correct, in one line each: the *ledger* (what
`stock_reserved` counts is what open reservations hold), *line and reservation
agree*, *a key takes effect once*, *a closed reservation stays closed*,
*abandoned stock returns*; *one order per cart, with its key*, *an order is
held*; *a settled payment is final*, *stock leaves only for approved money, all
of it and once*, *a decided payment settles*; *a revocation is final*, *a mailed
secret works once*, *a promoted cart is not lost*; *no answered edit is undone*,
*an adjustment is audited*, *what was deleted stays hidden*; *one appointment
per key*, *records live as long as their keys may be sent again*; *no two
visitors share a cart*; *every request gets an answer its contract declares,
under its own code*.

## 2. Modules

| module | what it is |
|---|---|
| `ShopTypes` | enumerations of the domain models and the schema |
| `StockLedger` | abstract specification: units are available or claimed; claims are granted out of what is available and given back at once |
| `CartReservation` | carts, reservations, reaper, releases; refines `StockLedger` |
| `Checkout` | EXTENDS `CartReservation`: buyers beside the requests, the reaper and the logouts |
| `PaymentSettlement` | placed orders, provider, webhooks, reconciliation jobs |
| `OneTimeToken` | abstract specification: a holder has at most one secret that works, each sets one password at most, and one that has worked or was replaced never works again |
| `Accounts` | users, sessions, promoted carts, password resets; refines `OneTimeToken` |
| `AdminProvisioning` | appointment and activation of administrators; refines `OneTimeToken` |
| `IdempotencyPurge` | EXTENDS `AdminProvisioning`: the purge beside the requests whose records it deletes |
| `CatalogAdmin` | the administrators' edits, stock adjustment, upload URLs, and the shop's listings |
| `CartVisits` | browsers, cookies, requests in flight, the session resolver, a login's transactions |
| `HttpContract`, `RequestBodies`, `HttpSurface` | the contract's operations; its schemas, validators and columns; a request's way through the stages |
| `Amounts`, `Tables` | sums of quantities over rows, as counted units; a table written in parts with disjoint domains |
| `CartReservationProofs`, `CheckoutProofs`, `PaymentSettlementProofs`, `CartVisitsProofs`, `AccountsProofs`, `IdempotencyPurgeProofs`, `CatalogAdminProofs`, `HttpSurfaceProofs` | theorems (section 5); `CheckoutProofs` EXTENDS `CartReservationProofs` as `Checkout` does `CartReservation` |
| `MC_*` | constants, symmetry and state constraints for TLC |

### How a transaction becomes actions

A row that a transaction has locked cannot change before its commit, so all
that happens from the first contended lock to the commit can be moved together
into **one atomic action that acts on the rows as they are at that moment**. What
a transaction read *without* a lock before that is a **step of its own**, and
what it read is kept in the handler's variable (`seen`, `buyer`, `hook`,
`task`, `req`). Thus `set` is `SetCartItemQuantity` (key, line and reservation
are read) and `AdjustReservation` (product lock to commit); `add` is
`AddCartItem` (the cart with its items), `FindLine` (the line), then `Reserve`,
or `LockLine` and `AdjustReservation`, or `RaiseLineAlone`. Where two row locks
are taken apart with a read between them (`add`: line, then product), the first
is visible to others as `LineLocked`.

A SERIALIZABLE unit of work is two steps: `Begin...`, which takes the snapshot
of the rows it means to write, and `Commit...`, which succeeds only if no other
transaction has written them since (the account's row carries a version for
this, as PostgreSQL's row versions do) and no unique index refuses. A conflict
is an error; whether it becomes an answer, a retry or a value nobody looks at
is what the code does with it.

`Abort`, `RequestFails`, `CheckoutFails`, `JobDies` may end any request at any
point: a crash, Prisma's transaction timeout, a lost connection, the victim of
a deadlock. PostgreSQL rolls back the open transaction; what earlier
transactions of the same handler committed stays.

### CartReservation

| code | model |
|---|---|
| `add-cart-item.use-case.ts` | `AdmitKeyed`, `AddCartItem`, `FindLine`, `Reserve`, `LockLine`, `RaiseLineAlone`, `AdjustReservation` |
| `set-cart-item-quantity.use-case.ts` | `AdmitKeyed`, `SetCartItemQuantity`, `AdjustReservation` |
| `remove-cart-item.use-case.ts` | `AdmitKeyed`, `RemoveCartItem` (the foreign key of migration 004 rolls it back) |
| `get-cart.use-case.ts` | `AdmitSession`, `GetCart` |
| `logout.use-case.ts` | `ReadActiveHolds`, `ReleaseAllForCart`, `RevokeSession` |
| `login.use-case.ts`, guest session of an administrator | the same with `CloseCart` before the revocation |
| `prisma-cart-reaper.adapter.ts` | `ExpireBatch`, `ExpireReservations` |
| soft deletion in the catalog | `DelistProduct` |
| clocks | `HoldFallsDue`, `SessionExpires` |

`ExpireBatch(batch, fitting)`: the reaper subtracts row by row, each under
`stock_reserved >= quantity`. Which rows pass depends on their order; the
possible outcomes are exactly the sets `fitting` that fit and leave out no row
that would still fit beside them, so the action is nondeterministic over those.
The cart's `CHECKOUT_PENDING` and the reservation's `CONSUMED` statuses are
never written by this component; they are in the type because the others write
them.

### Checkout

`BeginCheckout` (all reads and the validation), `ProviderAnswers`,
`OpenOrder` (up to the lookup of an order and the insertion, waiting for a
concurrent insertion of the same cart or key as a UNIQUE index does, and the
unlocked read of ACTIVE rows), `PlaceOrder` (conversion by id, idempotency
record, commit), `CheckoutFails` at every point.

### PaymentSettlement

It starts where checkout ends: units reserved, orders about to be committed
(`PlaceOrder`), so that an event may precede its order. `provider` is the
provider's own record, which decides once (`ProviderDecides`); `Sent` is the
status an event may carry (what it was when it was sent). A webhook is atomic
except when it consumes reservations (`BeginApproved`: payment row locked,
reservations only read; then `ProcessApproved`, `RefuseRefund` or
`WebhookDies`). A job is as many steps as it has transactions: `SelectBatch`,
`QueryAnswered`/`QueryFails`, `ReadHolds`, `ConsumeHold` per reservation,
`TransitionPaymentStatus`, `WriteOutboxEvent`; it may die anywhere (`JobDies`).
Refunds are refused: their idempotency key is not a UUID, which both the
webhook (rollback) and the job (end of the batch) meet.

### Accounts

A session's row has an owner (`Nobody` until it is opened), `gen` for its
current refresh token, and whether it is revoked or expired; a reset token's has
an owner, a state, its expiry and whether it was mailed.

| code | model |
|---|---|
| `login.use-case.ts`, `register-customer.use-case.ts` | `VerifyLogin`; `CheckEmail`, `CreateUser`; then for both `OpenSession`, `ReadGuest`, `PromoteCart`, `RevokeGuest` |
| `refresh-session.use-case.ts`, `logout.use-case.ts` | `FindRefreshToken`, `Rotate`; `FindSession`, `Leave` |
| `change-password.use-case.ts` and its unit of work | `ChangePassword` (key, password verified), `BeginChange` (snapshot), `CommitChange` |
| `update-my-profile.use-case.ts` | `BeginProfile`, `CommitProfile` |
| `request-password-reset.use-case.ts` | `RequestReset`, `BeginRequestReset`, `CommitRequestReset`, `Mail` |
| `reset-password.use-case.ts` | `FindResetToken`, `BeginReset`, `CommitReset` |
| `bootstrap-initial-admin.use-case.ts` | `ReadInitialAdmin`, `CreateInitialAdmin` |
| clocks, a session's first item | `SessionExpires`, `TokenExpires`, `OpenCart` |

`worked`, here and in `AdminProvisioning`, is a history variable, no column: how
many passwords each token has set. It is what "works once" is about; a
token's state alone cannot tell a second use from none.

### AdminProvisioning and IdempotencyPurge

`CheckActor`/`RefuseActor`, `BeginProvision` (the snapshot, which is older than
the advisory lock because waiting for the lock is the transaction's first
statement), `CommitProvision` or `SerializationFails` (up to `MaxAttempts`);
`FindActivationToken`, `Activate`, `TokenExpires`; and `ResetPassword`, a mailed
reset in one step (`Accounts` has its steps), because `updatePassword` clears
`must_change_password` whoever calls it. The purge: `Fire`,
`SelectBatch` (the oldest `BatchSize` records that no open transaction has
locked, judged by the age when the run began), `DeleteBatch`, `BatchFails`,
`ReplicaRestarts`. A record is `young`, `kept` or `old` (over 30 days;
`TimePasses`); `ForeignSave` saves records of the other operations, which the
scope evaluator never lets go.

### CatalogAdmin

An operation is a row of `Plan`: the list of statements its use case executes,
each committing alone. `Find` (the idempotency record), `Look` (existence,
version, category in use), `ClearImages`, `CreateRow`, `UpdateRow`, `DeleteRow`,
`WriteStock`, `InsertAudit`, `Presign`, `Save` (the record). What a repository
swallows (`UpdateRow`, `DeleteRow`: the statement fails, the use case goes on)
is a choice in the action. `HoldStock` and `FreeStock` are the carts beside it;
`Listed` is what the public listings show.

### CartVisits

`Send` (the request takes the cookies of that moment along), `ResolveCookie`,
`ResolveBearer`, `CreateGuestSession` (cart-session-resolver), `RefuseKey`,
`ServeExpired`, `Serve`, `ServeAdd` (the operation), `Logout`, `Checkout`,
`Deliver` (the answer arrives and sets its cookies) or `Lose`; `RequestFails` at
any point; `CookieLapses`, `ForgetToken`, `SessionExpires`. A login (and a
registration, which ends alike) is as many steps as it has transactions:

| code | step |
|---|---|
| the session is opened (`login.use-case.ts:82`) | `OpenUserSession`; its row becomes a customer's or an administrator's |
| no guest's session to promote, or none that is live | `NoGuest` |
| a customer: the guest's cart moves (110) | `TransferCart` |
| an administrator: the guest's cart is released (99-107) | `ReleaseCart`; the items go, `kept` with them |
| the guest's session is revoked | `RevokeGuest` |
| the token is signed, the cart cookie cleared whatever happened to the cart | `AnswerLogin` |

`given` is what a browser's answers have told it of session ids: a login may name
one of them in its body, and then it goes before the cookie
(`identity.controller.ts:275-276`). `kept` is what a visitor was told is in the
cart. `disturbed` is the browsers that less can be promised to, each for a reason
of its own: requests that overlapped, an answer that was lost, a cookie that
lapsed, a login that named a session other than the cookie's, or one that failed
after it had moved the cart (`Stranded`).

### HttpContract, RequestBodies, HttpSurface

`HttpContract!OPERATIONS` is `operation-map.ts` row by row. `RequestBodies` has
each schema as a function from fields to checks, `Accepts` as the validators
apply them, and the width of every column a field is stored in. A request of
`HttpSurface` is an operation with a state for each header, a body, and `wire`:
whether what was sent can be read at all. A body that is not JSON, one that is
too large, and a path that cannot be decoded can be sent to any operation, also
to those that take no body, since Nest parses before it routes. A request goes
through `ParseBody`, `NoRoute`, `Guard`, `Validate`, `ResolveSession`, `FindActor`,
`CheckHeaders`, `CheckSignature`, then `Succeed`, `Fail` or `CannotSucceed`, and
`Filter` writes what was thrown. `Handlers` is the controllers' side of each
operation: whether a guard precedes it, the order in which it reads headers,
its status, the codes its use case can fail with.

### Abstractions and assumptions

* Prices, totals and customer data are left out: no control flow of these
  components depends on them. Quantities stay. Bodies, names and passwords are
  values that are equal or not; in `RequestBodies` a value is its JSON type,
  its size and whether it is well formed.
* Time is a flag per reservation (`NEVER`, `RUNNING`, `DUE`), per session and
  token, per record, and per payment (`YOUNG`, `DUE`, `STALE`), turned by
  actions of their own.
* The reads of one handler before its transaction (admission, `BeginCheckout`)
  are merged into one step: each is checked again, or is not, by the step that
  follows.
* Writing an idempotency record's JSON succeeds, and `WHERE id = ${text}`
  without a cast is taken to find its row (stock adjustment and cart alike).
* PostgreSQL answers the COMMIT of an aborted transaction with a rollback and
  no error. `Accounts!CommitReset` rests on this.
* A checkout uses the cart of its own session. The provider does not charge back.
* Hashes and JWTs are the row they name; that two of them collide is left out.

## 3. Runs

| run | instance | states | shows |
|---|---|---|---|
| `cart_concurrent` | 1 cart, 2 products, 2 requests, 3 keys, quantity 1, stock 2; overlapping transactions | 660 375 | `TypeOK`, `LineHasHold`, `LineChangeSavesFreshKey`, `ClosedHoldsNeverReopen` |
| `cart_sequential` | 2 carts, 1 product, 1 request, 1 key, quantity 2, stock 2; `Serialized` | 522 650 | `LineMatchesHold`, `LedgerExact`, `ImplementsLedger` (refinement), `AbandonedStockReturns` (liveness) |
| `checkout` | 1 cart, 1 product, 1 request, 2 buyers, 2 order keys, stock 3 | 105 098 | `ReceiptsMatchOrders`, `PendingHoldHasOrder`, `OrderNeverReplaced`, `PendingHoldsFrozen` |
| `settlement` | 2 orders sharing a product, one with a second line; 1 webhook, 1 job, 1 event id, 1 death | 53 034 | `TypeOK`, `ConsumedOnlyIfApproved`, `PaidMeansConsumed`, `PaymentIsFinal`, `DecidedPaymentsSettle` (liveness) |
| `accounts` | 2 requests, a customer, an unused address, a guest, 4 sessions, 2 carts, 3 reset 1 key, 2 passwords | 644 956 | `OneEffectPerKey`, `PromotedCartIsNotLost`, `ResetTokensAreOneTime` (refinement), `RevocationIsFinal`, `PasswordChangesAreAccounted` |
| `catalog` | 2 requests, 2 keys, 2 rows of each kind, 2 contents, stock 2, deltas ±1 | 92 790 | `TypeOK`, `OneStoryPerKey`, `NoLostUpdate`, `AnsweredAdjustmentIsAudited`, `DeletedStaysHidden` |
| `admins` | 2 requests, 4 addresses, 1 key, 3 tokens, 2 attempts; 1 replica purging batches of 2, 1 foreign record, 2 failures | 179 847 | `OneAppointmentPerKey`, `ActivationIsWhole`, `ActivationTokensAreOneTime` (refinement), `KeptForRetention`, `OldRecordsGo`, `RunEnds` (liveness) |
| `visits` | 2 browsers, 2 tabs, 2 sessions, 2 items | 1 481 614 | `VisitorsNeverShareACart`, `OwnCartAfterLogin`, `AcknowledgedItemsStay` |
| `transport` | one request to each of the 36 operations, every header state, bodies with one field varied, bodies not JSON or too large, paths that cannot be decoded | 117 827 | `AnswersKeepContract`, `ErrorsTellTheirCode`, `UseCasesGetWhatTheyExpect`, `AcceptedBodiesFit` |
| `cart_ledger_races` | 1 cart, 1 product, 2 requests | violation | `LedgerExact` |
| `checkout_unchecked` | as `checkout` | violation | `OrderIsHeld` |
| `settlement_crash` | as `settlement`, no webhook | violation | `ApprovedPaymentsSettle` |

The type invariants of `Checkout`, `Accounts`, `AdminProvisioning`,
`IdempotencyPurge`, `CartVisits` and `HttpSurface` (`CheckoutTypeOK`, `TypeOK`,
`PurgeTypeOK`) document the state and hold on the same instances, but are not
among the runs' properties; those of `Checkout`, `AdminProvisioning`,
`IdempotencyPurge` and `CartVisits` are proved. Those of `CartReservation`,
`PaymentSettlement` and `CatalogAdmin` are properties of runs, because they
contain constraints of the schema that the code's own arithmetic must respect,
and they are proved too.

Bounds, and why they are enough. Races are between two transactions on one row,
so two requests (or a request and the reaper, two buyers, a webhook and a job)
suffice to produce them; two products are needed where the order of several rows
matters and where a cart may exist without the line. In `cart_concurrent` the
constraint `FewRecords` follows steps until three keyed requests have committed
(three keys: a first one to create the cart, two that overlap). Stock and
quantities are chosen so that the stock limit is met (quantity 2 of 2 or 3
units). In `settlement` one event id still allows early, late and repeated
deliveries, for either order; `Deaths` bounds how often something dies half-way.

In `accounts`, `catalog` and `admins` each request is served once, so a
behaviour is two overlapping operations of any two kinds, and what precedes them
is in the initial states: registered customers with a live session, a guest
with one, a token already mailed, an administrator already appointed, rows
already listed. Free ids are as many as two requests can use. In `visits` tabs
are reused without bound; two sessions allow the guest's and the account's, or
two guests' of one browser, and two browsers the neighbour. With two sessions a
login can name one that is not the cookie's only after a lapse or a race, which
disturb the browser already; a third session lets it do so from calm, and that
instance (1 browser, 2 tabs, 3 sessions, 1 item) passes as well when run by
hand. The proofs hold for any number. In
`admins` `ForeignRecords` is below `BatchSize`: that records which cannot be
purged may fill a batch and then stop the purge is conceded in the code
(`purge-idempotency-records.use-case.ts:81-84`), and raising the bound shows it.
In `transport` the widths of the columns are scaled down to small numbers above
every limit of a validator, which is all that `Sizes` compares.

Symmetry is used in the runs without liveness properties only, over identities
that nothing orders. `CHECK_DEADLOCK FALSE` is set because a shop with all keys
used, all reservations closed and all payments settled rightly stands still,
and so does a service whose bounded requests are answered.

`Serialized` is a constant: TRUE lets a transaction begin only while none is
open. It is not what the deployment guarantees; it separates what is wrong in
the sequence of operations (nothing, `cart_sequential`) from what is wrong in
their overlap (`cart_ledger_races`). Even so requests die between the
transactions of one logout.

**Fairness.** `CartReservation!Fairness`: a handler in flight ends (Prisma's
timeouts bound every step); time passes; every due reservation is eventually
taken by the reaper, as strong fairness per row, because the SELECT takes the
oldest rows first, a row is skipped only while an open transaction has it
locked, and the scheduler re-arms its timer after every run, failed or not.
`PaymentSettlement!Fairness`: payments become due; a webhook that has begun ends;
a job goes on and its scheduler re-arms; a provider asked again and again
answers (strong fairness per payment). That any webhook ever arrives, that a
shopper ever acts, that a payment grows older than 24 hours is *not* assumed.
`IdempotencyPurge!Fairness`: the timer of each replica fires; a batch that has
been read is deleted or fails; a batch is eventually read (strong fairness,
because another replica may hold the advisory lock for a moment); and an
appointment's transaction ends, by Prisma's timeout. Batches fail at most
`MaxFailures` times, else no record need ever go. Records growing old is not
assumed.

Every property of a passing run has a mutant in `PROJECT.json` (a dropped
guard, a missing column in an index, a swapped status): TLC finds the property
violated under it. The mutated operators stand beside the originals.

## 4. What the violations show

Three are runs, each quoted with its document in `PROJECT.json` under
`findings`:

1. **The ledger races** (`cart_ledger_races`). An adjustment's delta and a
   release's quantity come from a reservation read without a lock. Shortest
   trace: two overlapping releases of one cart, or `set` overlapping `set`.
2. **An order without its stock** (`checkout_unchecked`): nothing is validated
   in the transaction that is documented to do so.
3. **Approved and never settled** (`settlement_crash`): after a crash between
   consumption and transition the next batch can only ask for a refund, whose
   key the schema refuses.

Seven more configurations are kept to be run by hand (`tlc -config <name>.cfg
<module>`); each ends in a counterexample to what a comment says:

| configuration | module, property | what it shows |
|---|---|---|
| `cart_removal` | `MC_CartReservation`, `RemovalIsAccepted` | removing a line never succeeds: the kept reservation row references it with ON DELETE RESTRICT |
| `cart_unheld_line` | `MC_CartReservation`, `LineMatchesHold` | the line and its reservation come from two reads, so a line may grow without reserving |
| `settlement_double` | `MC_PaymentSettlement`, `ConsumedOnce` | SKIP LOCKED outside a transaction excludes nobody, and consumption does not look at the reservation's status |
| `catalog_stock_audit` | `MC_CatalogAdmin`, `StockMatchesAudit` | `admin-stock-adjustment.use-case.ts:80` says "3. Bloquear producto (SELECT FOR UPDATE)", but no transaction surrounds the statement, so the lock is gone when the stock is written: one of two adjustments is lost, both are audited |
| `accounts_reset_lost` | `MC_Accounts`, `ResetTellsTruth` | a reset that loses a conflict on the account or a session is answered 204 and has changed nothing (`reset-password.use-case.ts:20-22, 90-101`): the failure comes back as a value nobody looks at, and the aborted transaction's COMMIT rolls back |
| `transport_undeclared` | `MC_HttpSurface`, `AnswersAreDeclared` | `operation-map.ts:4-6` promises no code outside the contract, while `@Post('auth/login')` (`identity.controller.ts:261`) has no `@HttpCode` and answers 201 where 200 is declared; `Undeclared` (its table `Beside`) lists all such answers of the handlers |
| `visits_failed_login` | `MC_CartVisits`, `FailedLoginKeepsCart` | `login.use-case.ts:33-34` says of the promotion that it keeps the cart ("conserva carrito"); when the login fails after `transferGuestCart` has committed, the answer is an error and the cart is with a session whose token nobody was sent |

Met while modelling, and no run, as no interleaving is needed to see them:

* *Payments.* The branch for payments over 24 hours
  (`reconcile-pending-payments.use-case.ts:110`) is dead, since the selection
  excludes them; reservations of declined or expired payments are never
  released, against lines 29-30 of the same file; a cart whose payment failed
  can never be bought again (`orders.cart_id` is UNIQUE).
* *Accounts.* The current password is verified before the transaction of a
  change, so a reset that commits in between is overwritten; a login that
  verified the old password opens its session after the reset's revocations.
* *Catalog.* The hash of a product's update leaves out its id; a
  VERSION_MISMATCH has already replaced the product's images; `update` and
  `softDelete` swallow errors; deleted categories and banners are still found
  and updated; creating a product does not look at its category.
* *Administrators.* Provisioning and activation are wired to no controller; a
  raw activation token is never delivered, and one that has expired is renewed
  by nothing; a password reset activates a pending administrator too
  (`reset-password.use-case.ts:93`) and leaves the activation token unused, so
  it may set the password once more; a replay of an appointment cannot happen;
  `deriveAdvisoryLockId` may exceed a bigint.
* *Visits.* The cart's cookie expires 10 minutes after it was created while the
  session slides; two first requests at once open two guest sessions; a late
  answer restores a guest's cookie after a login, and the cookie a GET clears may
  be a newer one; a lost login answer loses the cart; a second login never looks
  for the cart of the first; a login whose body names another session promotes
  that one, clears the cookie all the same and so leaves the cookie's cart to the
  reaper; a guest who logs in as an administrator gives the cart up.
* *Transport.* A body that is not JSON and a path that cannot be decoded are
  answered 400 by Nest before the operation is known; the contracts of most
  operations without a body declare no 400. The pipe reads `details` where
  validators return `issues`, so they are always lost; the orders' controller
  has no guard, so each of its answers is 400; a negative `page` ends in 500;
  `JSON.stringify` makes a body's hash depend on the order of its keys.

## 5. Theorems

Every safety property of a passing run, and every refinement, is a theorem, for
every value of the constants. `S:` marks a theorem that assumes `Serialized`.

| theorem | statement |
|---|---|
| **`CartReservationProofs`** | |
| `TypeCorrect`, `LinesHaveHolds` | `Spec => []TypeOK`, `[]LineHasHold` |
| `LineChangesAreFresh`, `ClosedHoldsStayClosed` | `Spec => LineChangeSavesFreshKey`, `ClosedHoldsNeverReopen` |
| `SerialLinesMatchHolds`, `SerialSnapshotsAreFresh` | S: `Spec => []LineMatchesHold`, `[]SnapshotFresh` |
| `SerialLedgerIsExact`, `SerialCartIsALedger` | S: `Spec => []LedgerExact`, `ImplementsLedger` (the refinement of `StockLedger`) |
| **`CheckoutProofs`** | |
| `CheckoutTyped` | `CheckoutSpec => []CheckoutTypeOK` |
| `ReceiptsAreOrders`, `PendingHoldsAreOrdered` | `CheckoutSpec => []ReceiptsMatchOrders`, `[]PendingHoldHasOrder` |
| `OrdersAreFinal`, `PendingHoldsAreFrozen` | `CheckoutSpec => OrderNeverReplaced`, `PendingHoldsFrozen` |
| **`PaymentSettlementProofs`** | |
| `SettlementTyped` | `Spec => []TypeOK`, with `0 <= reserved <= onHand` |
| `GoodsOnlyForMoney`, `PaidOrdersAreServed` | `Spec => []ConsumedOnlyIfApproved`, `[]PaidMeansConsumed` |
| `SettledPaymentsAreFinal` | `Spec => PaymentIsFinal` |
| **`CartVisitsProofs`** | |
| `VisitTypesCorrect`, `CartsAreNotShared` | `Spec => []TypeOK`, `[]VisitorsNeverShareACart` |
| `CartsInvariant` | `Spec => []CartsInv` |
| `LoginsServeTheirOwnCart`, `CartsKeepTheirItems` | `Spec => []OwnCartAfterLogin`, `[]AcknowledgedItemsStay` |
| **`AccountsProofs`** | |
| `RevokedSessionsStayRevoked`, `PasswordsAreAccounted` | `Spec => RevocationIsFinal`, `PasswordChangesAreAccounted` |
| `ResetTokensRefine` | `Spec => ResetTokensAreOneTime`, the refinement of `OneTimeToken` |
| `KeysHaveOneEffect`, `GuestCartsAreNotLost` | `Spec => []OneEffectPerKey`, `[]PromotedCartIsNotLost` |
| **`IdempotencyPurgeProofs`** | |
| `PurgeTyped` | `PurgeSpec => []PurgeTypeOK` |
| `ActivationsAreWhole`, `KeysAppointOnce` | `PurgeSpec => []ActivationIsWhole`, `[]OneAppointmentPerKey` |
| `RecordsAreKeptForRetention` | `PurgeSpec => KeptForRetention` |
| `ActivationTokensRefine` | `PurgeSpec => ActivationTokensAreOneTime`, the refinement of `OneTimeToken` |
| **`CatalogAdminProofs`** | |
| `CatalogInvariant`, `CatalogTyped` | `Spec => []CatalogInv`, `[]TypeOK` |
| `KeysTellOneStory`, `UpdatesAreNotLost`, `AdjustmentsAreAudited` | `Spec => []OneStoryPerKey`, `[]NoLostUpdate`, `[]AnsweredAdjustmentIsAudited` |
| `DeletionsAreFinal` | `Spec => DeletedStaysHidden` |
| **`HttpSurfaceProofs`** | |
| `ErrorsAreTruthful`, `AnswersHonourContract` | `Spec => []ErrorsTellTheirCode`, `[]AnswersKeepContract` |
| `AcceptedBodiesAreStored`, `UseCasesAreServed` | `Spec => []AcceptedBodiesFit`, `[]UseCasesGetWhatTheyExpect` |

That is: any number of carts, products, requests, buyers, keys, browsers, tabs,
sessions, accounts, tokens, orders, webhooks, jobs, replicas and rows, every
stock, quantity and batch size. `HttpSurface` is proved for the contract as it
is written (36 operations, 17 schemas) and every width of the columns.

**Assumptions.** The named ones of the modules, which TLC evaluates in the runs:

* `CartReservation`: positive quantities and batches, a natural stock per
  product, finitely many carts and products; `Serialized` is TRUE or FALSE.
* `PaymentSettlement`: finitely many orders and products, `BatchLimit` positive,
  and `StockAssumption`: the units the orders reserve fit into the stock, as
  the CHECK on `products` kept them when the carts reserved them.
* `Accounts`, `CartVisits`: session ids are positive numbers, finitely many;
  tokens are numbers; the marks "guest" and "nobody" are no addresses.
* `AdminProvisioning`: the root administrator has an address, the one already
  appointed another, and token 1 exists; finitely many tokens;
  `ForeignAssumption`: "foreign", which marks the owner of the other scopes'
  records, is no address. `IdempotencyPurge`: positive batches.
* `CatalogAdmin`: products, categories and banners are disjoint, a category
  exists, stock is natural.
* `RequestBodies!WidthsAssumption`: an `integer` column holds what the largest
  limit of a validator admits (5242880), and a `bigint` column more.

**CartReservationProofs.** `TypeOK` is not inductive: that `reserved` stays a
natural number within the stock is the CHECK's doing, but that an adjustment
writes a row that *exists* needs the handlers' history. `CartInv` adds
`JobFitsPoint` (at each program point the job is one that gets there),
`SeenRowsExist` (a handler that adjusts or releases has seen rows, and rows are
never deleted) and `LineHasHold`. One step per action, one per conjunct it can
disturb; rows and handlers are kept in two halves, as no action disturbs the
same conjunct of both. The action properties follow from `CartInv` and the one
action that writes the line, or the status.

The serialized half: `SerialInv` is `Alone` (at most one request stands inside
a transaction), `AllInformed` (what it has seen is what the rows hold) and
`LineMatchesHold`. `MayBegin` gives the first; the first gives the second,
because every action that writes rows either ends a transaction or begins only
when none is open; the second gives the third. The ledger stands on these:
each step is one `ClaimMove`, one `ReturnMove` (a batch of the reaper, a
release) or `NoMove`, and each of these keeps `Balanced`, reserved units equal
to the total claimed, and is a `Claim`, a `GiveBack` or a stutter of
`StockLedger`. A total is defined in `Amounts` by counting units (the cardinality
of a union of disjoint rows) and not by folding over a set, because what a fold
computes can only be proved by an induction whose theorem takes an operator as
parameter; cardinality has the few facts the proof needs.

**CheckoutProofs.** `CheckoutInv` is `CartInv`, the types, the two properties
and `OrdersExclusive`: a transaction that has inserted its order keeps its cart
and its key to itself until it ends (the UNIQUE indexes), and the rows it is
about to convert by id exist. The rest of `CartInv` must survive the conversion,
and the checkout must survive the cart: `CartWrites` shows that whatever the
cart does to a row is a `RowWrite`, which makes no reservation wait for a payment
and leaves one that waits alone or releases it.

**PaymentSettlementProofs.** The properties are about what a webhook or a job
does with readings that are several transactions old. `SettlementInv` says what
these are still worth: `HookHolds` (a webhook that consumes has its payment's
row locked, so the payment is PENDING, no other webhook is at that order, and
the lines it does not hold are consumed) and `TaskHolds` (a job locks nothing,
but what it read cannot become false: an approval is final, a consumed
reservation stays consumed). `Onward` states that no step takes any of this
back, and one lemma per action that it establishes it for its own handler.
`ConsumedOnlyIfApproved` and `PaidMeansConsumed` are conjuncts of the induction.

**CartVisitsProofs.** What no two browsers may do, hold one session, is not
inductive: a session may be on its way to a browser. `Knows(b, s)` covers its
cookies, its requests in flight and the answers to them; `KnownByOne` says one
browser at most knows a session, and `KnownAreOpen` that what is known has been
opened, so that an opened session's id is new to everybody. Every step is shown
to `StayOpen` and to teach one browser at most (`Learns`), and only a session
that the step itself opens; `LearningIsSafe` does the rest. `CartsInv` adds
`GuestCookies` (a cart cookie names a guest's session, never an account's) and
`CalmInv`: an undisturbed visitor has one request under way, and his items are
where his cookie and token, or those the awaited answer will set, send him. A
login spreads over several steps, so `Awaits` says where the items are at each:
with the guest until the transfer, with the session being opened from then on,
which is live until the answer brings its token (`OpensLive`). One lemma each,
`OpenStep`, `PromoteStep` and `RevokeStep`, moves them on.
`OthersUntouched` shows that nobody else's step reaches a session he knows.

**AccountsProofs.** `AccountsInv` adds to the types of sessions and tokens that
an unopened row is not revoked, that guests' sessions are open, and `Fits`: what
a request remembers between its steps exists (its own session is open, its token
and address are real, its snapshot holds open sessions only). A request outlives
what it read, so this needs that open sessions stay open (`SessionsMoveOn`), the
same fact that makes a revocation final. `TokensStep` maps each step to an
`Issue`, a `Spend` or a stutter of `OneTimeToken`; as `uses` is mapped to
`worked`, a step that sets a password with a token can be nothing but a `Spend`
of a live one. `AnswersInv` adds the rows of users, carts and records,
`OneRecordPerKey`, `ChangedOnce` and, for each request, `Tells`: what it is to
answer is backed by its key's record (`Reports`), and a cart it found with a
guest is still the guest's or already with an account (`Promotes`).

**IdempotencyPurgeProofs.** `AppointmentInv`: an unused token belongs to an
administrator who exists, one each (`UnusedHasAccount`, `OneUnusedEach`), a
pending one has an unused token (`PendingHasToken`), a used one has set one
password and an unused one none (`UsedUpByWorking`), a key has one record, and
an account is created once (`CreatedExists`, `CreatedOnce`). One appointment per
key holds because a commit saves a record of its key only where the unique index
finds none, so two appointments whose records are both kept share one record,
hence one address, and an address is appointed once. `OneBatch` is the advisory
lock; `KeptForRetention` follows from what `SelectBatch` chose, which later
steps only make older.

**CatalogAdminProofs.** No transaction surrounds an operation, so the invariant
follows each request from statement to statement: `Prepared` says what it has
behind it (the row it looked at was there, the audit row it inserted is in the
table, the version it made is the row's or a later one), `Told` that what it
answered is the one record of its key, and `Backed` that each record is borne
out by rows and audit. These survive the other requests because rows and audit
only `Evolve` (`TablesGrow`): versions grow, bodies change with them, and
nothing is unmade.

**HttpSurfaceProofs.** Three arguments. `ErrorsInv`: everything thrown is
`Deserved`, that is, carries the status of its code, or has no body and gets
both from the filter, or is one of the two named exceptions. `SchemaSuits`, for
each schema: what its validator accepts fits the columns and has the declared
types. And for the contract, `SurfaceInv`: each stage's checks are behind the
request (`Checked`), and what the stages or the use case may still answer is
allowed (`StatusAllowed`), or is the 400 of what could not be read, by
`Conforms(op)` for each handler. The tables of 36 rows are written in parts with
disjoint domains (`Tables!Joined`), so that a lemma about one row needs one part
and not the whole.

TLC checked each inductive invariant on the instance of its run before it was
proved.

**Only model-checked**: the liveness properties `AbandonedStockReturns`,
`DecidedPaymentsSettle`, `OldRecordsGo` and `RunEnds`, because a proof of what
must eventually happen needs ENABLED, which is beyond the prover; the type
invariants of `Accounts` and `HttpSurface`, of which the proofs carry the part
they need; and the three runs that end in a violation. That an unserialized
cart keeps no exact ledger is no gap in the proofs: `cart_ledger_races` shows it
to be false.

## 6. Plan

Done: `CartReservation` with `StockLedger`, `Checkout`, `PaymentSettlement`,
`Accounts`, `AdminProvisioning` with `IdempotencyPurge`, `CatalogAdmin`,
`CartVisits`, the HTTP surface, and the proofs of section 5: every safety
property, action property and refinement that a passing run checks. Left:

1. The type invariants of `Accounts` and `HttpSurface` as theorems.
2. The ledger under overlap, as far as it holds: `reserved` is changed only
   together with reservations, and by how much the two may drift apart.
3. `Checkout` composed with `PaymentSettlement`, so that the provider's
   payment is part of the state (orphaned and duplicated payments).

## 7. Not modelled

* The HMACs of webhooks, JWTs and hashes as computations: they are yes or no.
* The payment providers' HTTP client (timeouts and retries are a call that
  answers or fails) and its request bodies.
* Filters, pages and projections of listings, of orders and of the
  administrators' queries: reads with no state; `CatalogAdmin!Listed` has what
  may be listed.
* CORS, health, the public URL of an image, metrics, logs.
* The seed, the scripts and the data migrations 009 to 013, which run once and
  outside the service; dependency injection and bootstrap code.
