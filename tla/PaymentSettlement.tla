------------------------- MODULE PaymentSettlement -------------------------
(***************************************************************************)
(* From a placed order to a settled one (src/modules/payments): the        *)
(* provider's webhooks, each processed in one transaction, and the         *)
(* reconciliation job, which asks the provider about payments that stay    *)
(* PENDING and settles them in several transactions of its own.            *)
(*                                                                         *)
(* A webhook is lost, late, delivered again under the same or a new event  *)
(* id, and may arrive before the checkout has committed the order.  Every  *)
(* replica of the service runs a reconciliation job, and any of them may   *)
(* die between two of its transactions.                                    *)
(***************************************************************************)
EXTENDS Integers, FiniteSets, FiniteSetsExt, ShopTypes

CONSTANTS
    Orders,        \* numbers: payments.created_at orders them
    Products,
    Quantity,      \* what each order holds of each product
    Stock,         \* products.stock_on_hand at the start
    Delistable,    \* products the administrator may soft-delete
    Webhooks,      \* webhook requests that may be in flight together
    EventIds,      \* provider event ids (X-Event-Id, X-Request-Id)
    Jobs,          \* reconciliation jobs, one per replica
    BatchLimit,    \* RECONCILIATION_BATCH_SIZE
    Deaths         \* bound: how many times a job or a webhook dies half-way

ASSUME OrdersAssumption == Orders \subseteq Nat /\ IsFiniteSet(Orders)
ASSUME ProductsAssumption == IsFiniteSet(Products)
ASSUME QuantityAssumption == Quantity \in [Orders -> [Products -> Nat]]
(* Checkout leaves the units of every order reserved.                      *)
Held(p, S) == MapThenSumSet(LAMBDA o : Quantity[o][p], S)
ASSUME StockAssumption ==
    Stock \in [Products -> Nat] /\ \A p \in Products : Held(p, Orders) \in 0..Stock[p]
ASSUME LimitsAssumption == BatchLimit \in Nat \ {0} /\ Deaths \in Nat

VARIABLES
    onHand, reserved, listed,   \* products
    hold,                       \* stock_reservations.status of each order line
    order, payment,             \* orders.status, payments.status
    events,                     \* payment_webhook_events
    outbox,                     \* outbox_events: how many of each order
    provider,                   \* the provider's own status of the payment
    age,                        \* payments.created_at against the job's window
    hook,                       \* where each webhook transaction stands
    task,                       \* where each reconciliation job stands
    deaths

tables == <<onHand, reserved, listed, hold, order, payment, events, outbox>>
world == <<provider, age, deaths>>
vars == <<tables, world, hook, task>>

-----------------------------------------------------------------------------
(* What the provider says of a payment, and how the two readers take it:   *)
(* "cancelled" is Mercado Pago's, "expired" reaches only Wompi's webhook.  *)
ProviderStatus == {"pending", "approved", "declined", "cancelled", "expired"}

WebhookReading(s) ==
    CASE s = "approved" -> "APPROVED"
      [] s \in {"declined", "cancelled"} -> "DECLINED"
      [] s = "expired" -> "EXPIRED"
      [] OTHER -> "PENDING"

QueryReadingOptimistic(s) ==    \* mutant: an unknown status counts as paid
    CASE s = "declined" -> "DECLINED"
      [] s = "cancelled" -> "EXPIRED"
      [] OTHER -> "APPROVED"
QueryReadingPartial(s) ==       \* mutant: "cancelled" is not recognised
    CASE s = "approved" -> "APPROVED"
      [] s = "declined" -> "DECLINED"
      [] OTHER -> "PENDING"
QueryReading(s) ==
    CASE s = "approved" -> "APPROVED"
      [] s = "declined" -> "DECLINED"
      [] s = "cancelled" -> "EXPIRED"
      [] OTHER -> "PENDING"

OrderReading(s) == IF s = "EXPIRED" THEN "PAYMENT_EXPIRED" ELSE "PAYMENT_FAILED"

Terminal == PaymentStatus \ {"NONE", "PENDING"}

LineOf(o) == {p \in Products : Quantity[o][p] > 0}
FirstPendingHold(o) ==          \* mutant: findFirst for findMany
    {p \in LineOf(o) : /\ hold[o][p] = "CHECKOUT_PENDING"
                       /\ p = CHOOSE q \in LineOf(o) : hold[o][q] = "CHECKOUT_PENDING"}
PendingHolds(o) == {p \in LineOf(o) : hold[o][p] = "CHECKOUT_PENDING"}

NoHook == [at |-> "idle"]
NoTask == [at |-> "idle"]

HookOK == {NoHook} \union
    [at: {"consuming"}, order: Orders, event: EventIds, holds: SUBSET Products]
TaskOK == {NoTask} \union
    [at: {"batch", "approved", "consuming", "settling", "publishing"},
     todo: SUBSET Orders, holds: SUBSET Products,
     verdict: {"NONE", "APPROVED", "DECLINED", "EXPIRED"}]

TypeOK ==
    /\ onHand \in [Products -> Nat]
    /\ reserved \in [Products -> Nat]
    /\ \A p \in Products : reserved[p] <= onHand[p]
    /\ listed \in [Products -> BOOLEAN]
    /\ hold \in [Orders -> [Products -> HoldStatus]]
    /\ order \in [Orders -> OrderStatus]
    /\ payment \in [Orders -> PaymentStatus]
    /\ events \subseteq EventIds
    /\ outbox \in [Orders -> Nat]
    /\ provider \in [Orders -> ProviderStatus]
    /\ age \in [Orders -> {"YOUNG", "DUE", "STALE"}]
    /\ hook \in [Webhooks -> HookOK]
    /\ task \in [Jobs -> TaskOK]
    /\ deaths \in 0..Deaths

-----------------------------------------------------------------------------
(* Checkout has reserved the units of every order; the orders themselves   *)
(* are still to be committed.                                              *)
Init ==
    /\ onHand = Stock
    /\ reserved = [p \in Products |-> Held(p, Orders)]
    /\ listed = [p \in Products |-> TRUE]
    /\ hold = [o \in Orders |-> [p \in Products |->
                  IF Quantity[o][p] > 0 THEN "ACTIVE" ELSE "NONE"]]
    /\ order = [o \in Orders |-> "NONE"]
    /\ payment = [o \in Orders |-> "NONE"]
    /\ events = {}
    /\ outbox = [o \in Orders |-> 0]
    /\ provider = [o \in Orders |-> "pending"]
    /\ age = [o \in Orders |-> "YOUNG"]
    /\ hook = [w \in Webhooks |-> NoHook]
    /\ task = [j \in Jobs |-> NoTask]
    /\ deaths = 0

(* The commit of a checkout, as Checkout!PlaceOrder makes it when all its  *)
(* reservations are still ACTIVE.                                          *)
PlaceOrder(o) ==
    /\ order[o] = "NONE"
    /\ order' = [order EXCEPT ![o] = "PENDING_PAYMENT"]
    /\ payment' = [payment EXCEPT ![o] = "PENDING"]
    /\ hold' = [hold EXCEPT ![o] =
                  [p \in Products |-> IF p \in LineOf(o) THEN "CHECKOUT_PENDING" ELSE @[p]]]
    /\ UNCHANGED <<onHand, reserved, listed, events, outbox, world, hook, task>>

(* The provider's payment exists before the order does, and is decided     *)
(* once.                                                                   *)
ProviderDecides(o) ==
    /\ provider[o] = "pending"
    /\ \E s \in ProviderStatus \ {"pending"} : provider' = [provider EXCEPT ![o] = s]
    /\ UNCHANGED <<tables, age, deaths, hook, task>>

(* Five minutes, and then a day, after created_at.                         *)
Ages(o) ==
    /\ payment[o] = "PENDING"
    /\ \/ age[o] = "YOUNG" /\ age' = [age EXCEPT ![o] = "DUE"]
       \/ age[o] = "DUE" /\ age' = [age EXCEPT ![o] = "STALE"]
    /\ UNCHANGED <<tables, provider, deaths, hook, task>>

DelistProduct(p) ==
    /\ p \in Delistable /\ listed[p]
    /\ listed' = [listed EXCEPT ![p] = FALSE]
    /\ UNCHANGED <<onHand, reserved, hold, order, payment, events, outbox, world, hook, task>>

-----------------------------------------------------------------------------
(* Consuming a reservation: the product must be listed and on hand, or     *)
(* PAYMENT_HOLD_NOT_CONSUMABLE is thrown; the UPDATE has a guard of its    *)
(* own, and the reservation is marked by id whether it matched or not.     *)
Consumable(o, p) == listed[p] /\ onHand[p] >= Quantity[o][p]

ConsumedUnguarded(o, S, stock) ==   \* mutant: stock_reserved is not compared
    [p \in Products |->
        IF p \in S /\ onHand[p] >= Quantity[o][p] THEN stock[p] - Quantity[o][p] ELSE stock[p]]
Consumed(o, S, stock) ==
    [p \in Products |->
        IF p \in S /\ onHand[p] >= Quantity[o][p] /\ reserved[p] >= Quantity[o][p]
        THEN stock[p] - Quantity[o][p] ELSE stock[p]]

Marked(o, S) ==
    [hold EXCEPT ![o] = [p \in Products |-> IF p \in S THEN "CONSUMED" ELSE @[p]]]

(* The payments row a webhook transaction keeps locked.                    *)
Locked(o) == \E w \in Webhooks : hook[w].at = "consuming" /\ hook[w].order = o

-----------------------------------------------------------------------------
(* Webhooks.  An event id that is already stored, or being stored, makes   *)
(* the transaction fail; it is then answered 500 and changes nothing.      *)

Deliverable(w, o, e) ==
    /\ hook[w] = NoHook
    /\ e \notin events
    /\ \A v \in Webhooks : hook[v].at = "consuming" => hook[v].event # e
    /\ ~Locked(o)

(* An event carries the status the provider had when it was sent: a late   *)
(* one may still say "pending".                                            *)
Sent(o) == {"pending", provider[o]}

(* No payment yet, one already settled, or nothing decided: the event is   *)
(* kept as PROCESSED and has no effect.                                    *)
IgnoreEvent(w, o, e, s) ==
    /\ Deliverable(w, o, e)
    /\ payment[o] # "PENDING" \/ WebhookReading(s) = "PENDING"
    /\ events' = events \union {e}
    /\ UNCHANGED <<onHand, reserved, listed, hold, order, payment, outbox, world, hook, task>>

ProcessTerminal(w, o, e, s) ==
    LET verdict == WebhookReading(s) IN
    /\ Deliverable(w, o, e)
    /\ payment[o] = "PENDING"
    /\ verdict \in {"DECLINED", "EXPIRED"}
    /\ payment' = [payment EXCEPT ![o] = verdict]
    /\ order' = [order EXCEPT ![o] = OrderReading(verdict)]
    /\ outbox' = [outbox EXCEPT ![o] = @ + 1]
    /\ events' = events \union {e}
    /\ UNCHANGED <<onHand, reserved, listed, hold, world, hook, task>>

(* processApproved: the payment row is locked, the reservations are only   *)
(* read.  Without one the refund is due, whose key the database refuses.   *)
BeginApproved(w, o, e, s) ==
    /\ Deliverable(w, o, e)
    /\ payment[o] = "PENDING"
    /\ WebhookReading(s) = "APPROVED"
    /\ PendingHolds(o) # {}
    /\ hook' = [hook EXCEPT ![w] =
          [at |-> "consuming", order |-> o, event |-> e, holds |-> PendingHolds(o)]]
    /\ UNCHANGED <<tables, world, task>>

ProcessApproved(w) ==
    LET o == hook[w].order
        S == hook[w].holds
    IN
    /\ hook[w].at = "consuming"
    /\ \A p \in S : Consumable(o, p)
    /\ onHand' = Consumed(o, S, onHand)
    /\ reserved' = Consumed(o, S, reserved)
    /\ hold' = Marked(o, S)
    /\ payment' = [payment EXCEPT ![o] = "APPROVED"]
    /\ order' = [order EXCEPT ![o] = "PAID"]
    /\ outbox' = [outbox EXCEPT ![o] = @ + 1]
    /\ events' = events \union {hook[w].event}
    /\ hook' = [hook EXCEPT ![w] = NoHook]
    /\ UNCHANGED <<listed, world, task>>

(* A hold that cannot be consumed asks for a refund; its idempotency key,  *)
(* "refund:<payment>:<amount>", is no UUID, so the INSERT fails and the    *)
(* transaction, with what it has consumed, is rolled back.                 *)
RefuseRefund(w) ==
    /\ hook[w].at = "consuming"
    /\ \E p \in hook[w].holds : ~Consumable(hook[w].order, p)
    /\ hook' = [hook EXCEPT ![w] = NoHook]
    /\ UNCHANGED <<tables, world, task>>

(* A crash, a timeout, a deadlock.                                         *)
WebhookDies(w) ==
    /\ hook[w].at = "consuming"
    /\ deaths < Deaths
    /\ deaths' = deaths + 1
    /\ hook' = [hook EXCEPT ![w] = NoHook]
    /\ UNCHANGED <<tables, provider, age, task>>

Webhook(w) ==
    \/ \E o \in Orders, e \in EventIds : \E s \in Sent(o) :
          \/ IgnoreEvent(w, o, e, s) \/ ProcessTerminal(w, o, e, s)
          \/ BeginApproved(w, o, e, s)
    \/ ProcessApproved(w) \/ RefuseRefund(w) \/ WebhookDies(w)

-----------------------------------------------------------------------------
(* The reconciliation job.                                                 *)

Candidates == {o \in Orders : payment[o] = "PENDING" /\ age[o] = "DUE" /\ ~Locked(o)}

Oldest(S) == CHOOSE o \in S : \A q \in S : o <= q

(* ORDER BY created_at LIMIT BatchLimit.                                   *)
FirstOf(S) == {o \in S : Cardinality({q \in S : q < o}) < BatchLimit}

(* The batch goes on with the next payment, or is over.                    *)
Goes(j, at, todo, holds, verdict) ==
    task' = [task EXCEPT ![j] =
                IF todo = {} THEN NoTask
                ELSE [at |-> at, todo |-> todo, holds |-> holds, verdict |-> verdict]]

NextPayment(j) == Goes(j, "batch", task[j].todo \ {Oldest(task[j].todo)}, {}, "NONE")

(* The row locks of this SELECT are gone when it returns: it runs outside  *)
(* any transaction.                                                        *)
SelectBatch(j) ==
    /\ task[j] = NoTask
    /\ Candidates # {}
    /\ Goes(j, "batch", FirstOf(Candidates), {}, "NONE")
    /\ UNCHANGED <<tables, world, hook>>

(* The provider answers; a payment it still has as pending is left alone.  *)
QueryAnswered(j) ==
    LET o == Oldest(task[j].todo)
        answer == QueryReading(provider[o])
    IN
    /\ task[j].at = "batch"
    /\ \/ answer = "PENDING" /\ NextPayment(j)
       \/ answer = "APPROVED" /\ Goes(j, "approved", task[j].todo, {}, answer)
       \/ answer \in {"DECLINED", "EXPIRED"} /\ Goes(j, "settling", task[j].todo, {}, answer)
    /\ UNCHANGED <<tables, world, hook>>

(* No answer: the payment stays pending.                                   *)
QueryFails(j) ==
    /\ task[j].at = "batch"
    /\ NextPayment(j)
    /\ UNCHANGED <<tables, world, hook>>

(* findCheckoutPendingHolds; without one the refund is due, whose key the  *)
(* database refuses, and the exception ends the whole batch.               *)
ReadHolds(j) ==
    LET o == Oldest(task[j].todo) IN
    /\ task[j].at = "approved"
    /\ IF PendingHolds(o) = {}
       THEN task' = [task EXCEPT ![j] = NoTask]
       ELSE Goes(j, "consuming", task[j].todo, PendingHolds(o), "APPROVED")
    /\ UNCHANGED <<tables, world, hook>>

(* One transaction for each reservation that was read.                     *)
ConsumeHold(j) ==
    LET o == Oldest(task[j].todo) IN
    /\ task[j].at = "consuming"
    /\ \E p \in task[j].holds :
          \/ /\ Consumable(o, p)
             /\ onHand' = Consumed(o, {p}, onHand)
             /\ reserved' = Consumed(o, {p}, reserved)
             /\ hold' = Marked(o, {p})
             /\ Goes(j, IF task[j].holds = {p} THEN "settling" ELSE "consuming",
                     task[j].todo, task[j].holds \ {p}, "APPROVED")
          \/ /\ ~Consumable(o, p)
             /\ task' = [task EXCEPT ![j] = NoTask]
             /\ UNCHANGED <<onHand, reserved, hold>>
    /\ UNCHANGED <<listed, order, payment, events, outbox, world, hook>>

(* transitionPaymentStatus: the payment only if it is still PENDING, the   *)
(* order in any case.                                                      *)
TransitionedAlways(o, verdict) ==   \* mutant: no AND status = 'PENDING'
    [payment EXCEPT ![o] = verdict]
Transitioned(o, verdict) ==
    IF payment[o] = "PENDING" THEN [payment EXCEPT ![o] = verdict] ELSE payment

TransitionPaymentStatus(j) ==
    LET o == Oldest(task[j].todo)
        verdict == task[j].verdict
    IN
    /\ task[j].at = "settling"
    /\ ~Locked(o)
    /\ payment' = Transitioned(o, verdict)
    /\ order' = [order EXCEPT ![o] =
                    IF verdict = "APPROVED" THEN "PAID" ELSE OrderReading(verdict)]
    /\ Goes(j, "publishing", task[j].todo, {}, "NONE")
    /\ UNCHANGED <<onHand, reserved, listed, hold, events, outbox, world, hook>>

WriteOutboxEvent(j) ==
    /\ task[j].at = "publishing"
    /\ outbox' = [outbox EXCEPT ![Oldest(task[j].todo)] = @ + 1]
    /\ NextPayment(j)
    /\ UNCHANGED <<onHand, reserved, listed, hold, order, payment, events, world, hook>>

(* The process dies, or a statement fails for a technical reason: what was *)
(* committed stays, the rest of the batch is dropped.                      *)
JobDies(j) ==
    /\ task[j] # NoTask
    /\ deaths < Deaths
    /\ deaths' = deaths + 1
    /\ task' = [task EXCEPT ![j] = NoTask]
    /\ UNCHANGED <<tables, provider, age, hook>>

JobStep(j) ==
    \/ SelectBatch(j) \/ QueryAnswered(j) \/ ReadHolds(j) \/ ConsumeHold(j)
    \/ TransitionPaymentStatus(j) \/ WriteOutboxEvent(j)

-----------------------------------------------------------------------------
Next ==
    \/ \E o \in Orders : PlaceOrder(o) \/ ProviderDecides(o) \/ Ages(o)
    \/ \E p \in Products : DelistProduct(p)
    \/ \E w \in Webhooks : Webhook(w)
    \/ \E j \in Jobs : JobStep(j) \/ QueryFails(j) \/ JobDies(j)

Spec == Init /\ [][Next]_vars

(* Time passes, a transaction ends, a job in mid-batch goes on and the     *)
(* scheduler re-arms, and a provider that is asked again and again answers *)
(* at last.  That a webhook ever comes is not assumed.                     *)
Fairness ==
    /\ \A o \in Orders : WF_vars(age[o] = "YOUNG" /\ Ages(o))
    /\ \A w \in Webhooks : WF_vars(ProcessApproved(w) \/ RefuseRefund(w))
    /\ \A j \in Jobs :
          /\ WF_vars(JobStep(j))
          /\ \A o \in Orders :
                SF_vars(task[j].at = "batch" /\ o = Oldest(task[j].todo) /\ QueryAnswered(j))

FairSpec == Spec /\ Fairness

-----------------------------------------------------------------------------
(* Properties.                                                             *)

(* A settled payment is final: neither a late or repeated webhook nor a    *)
(* job that asked the provider earlier settles it again.                   *)
PaymentIsFinal ==
    [][\A o \in Orders : payment[o] \in Terminal => payment'[o] = payment[o]]_vars

(* Goods leave the shop only for money: an order is PAID, or any of its    *)
(* reservations consumed, only when the provider approved the payment, and *)
(* no other order's reservation is touched.                                *)
ConsumedOnlyIfApproved ==
    \A o \in Orders :
        (order[o] = "PAID" \/ \E p \in Products : hold[o][p] = "CONSUMED") =>
            provider[o] = "approved"

(* A PAID order has all its reservations consumed, although a webhook and  *)
(* several jobs may each have consumed a part of them.                     *)
PaidMeansConsumed ==
    \A o \in Orders :
        order[o] = "PAID" => \A p \in LineOf(o) : hold[o][p] = "CONSUMED"

(* Two replicas are documented never to reconcile the same payment, and a  *)
(* webhook and a job to settle it once: every consumed reservation has     *)
(* left the stock exactly once.                                            *)
ConsumedOnce ==
    \A p \in Products :
        onHand[p] = Stock[p] - Held(p, {o \in Orders : hold[o][p] = "CONSUMED"})

(* Without any help of webhooks, a payment the provider has decided leaves *)
(* PENDING (or the 24-hour window) as long as nobody dies half-way, every  *)
(* product stays listed and no reservation is consumed twice.              *)
DecidedPaymentsSettle ==
    [](deaths = 0 /\ ConsumedOnce /\ \A p \in Products : listed[p]) =>
        \A o \in Orders :
            (payment[o] = "PENDING" /\ provider[o] \in {"approved", "declined", "cancelled"}) ~>
                (payment[o] \in Terminal \/ age[o] = "STALE")

(* A payment the provider approved is settled however often a job dies in  *)
(* between, as the payment is found PENDING again.                         *)
ApprovedPaymentsSettle ==
    [](\A p \in Products : listed[p]) =>
        \A o \in Orders :
            (payment[o] = "PENDING" /\ provider[o] = "approved") ~>
                (payment[o] \in Terminal \/ age[o] = "STALE")

=============================================================================
