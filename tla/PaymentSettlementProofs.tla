---------------------- MODULE PaymentSettlementProofs ----------------------
(***************************************************************************)
(* Proofs about PaymentSettlement, for any orders, products, webhooks and  *)
(* reconciliation jobs.  The invariant says what the readings that a       *)
(* webhook transaction or a job carries from one step to the next are      *)
(* still worth when they are used.                                         *)
(***************************************************************************)
EXTENDS PaymentSettlement, WellFoundedInduction, TLAPS

(* A reservation taken over by an order is either still to be consumed or  *)
(* consumed; an order and its payment are created together.                *)
OrdersHold ==
    \A o \in Orders :
        /\ order[o] = "NONE" <=> payment[o] = "NONE"
        /\ order[o] = "NONE" => \A p \in Products : hold[o][p] # "CONSUMED"
        /\ order[o] # "NONE" =>
              \A p \in LineOf(o) : hold[o][p] \in {"CHECKOUT_PENDING", "CONSUMED"}

(* The lines of o outside S are consumed already.                          *)
RestConsumed(o, S) == \A p \in LineOf(o) \ S : hold[o][p] = "CONSUMED"

(* A webhook transaction holds its payment's row: the payment is PENDING   *)
(* and no other transaction is at it.                                      *)
HookHolds(w) ==
    hook[w].at = "consuming" =>
        /\ payment[hook[w].order] = "PENDING"
        /\ provider[hook[w].order] = "approved"
        /\ hook[w].holds \subseteq LineOf(hook[w].order)
        /\ RestConsumed(hook[w].order, hook[w].holds)
        /\ \A v \in Webhooks \ {w} :
              hook[v].at = "consuming" => hook[v].order # hook[w].order

(* A job holds nothing; what it has read stays true of what it is to write.*)
TaskHolds(j) ==
    LET o == Oldest(task[j].todo) IN
    task[j] # NoTask =>
        /\ task[j].todo # {}
        /\ \A q \in task[j].todo : order[q] # "NONE"
        /\ task[j].at \in {"approved", "consuming"} => provider[o] = "approved"
        /\ task[j].at = "consuming" =>
              task[j].holds \subseteq LineOf(o) /\ RestConsumed(o, task[j].holds)
        /\ task[j].at = "settling" =>
              /\ task[j].verdict # "NONE"
              /\ task[j].verdict = "APPROVED" =>
                    provider[o] = "approved" /\ RestConsumed(o, {})

SettlementInv ==
    /\ TypeOK
    /\ OrdersHold
    /\ \A w \in Webhooks : HookHolds(w)
    /\ \A j \in Jobs : TaskHolds(j)
    /\ ConsumedOnlyIfApproved
    /\ PaidMeansConsumed

-----------------------------------------------------------------------------
(* The operators of the model.                                             *)

(* The batch goes on with one of its own payments: Oldest is an element of *)
(* every set of orders that is not empty.                                  *)
LEMMA OldestIsThere ==
    ASSUME NEW S \in SUBSET Orders, S # {}
    PROVE  Oldest(S) \in S
<1> DEFINE Before == {s \in Nat \X Nat : s[1] < s[2]}
<1>1. IsWellFoundedOn(Before, Nat)
  BY NatLessThanWellFounded, Zenon DEF OpToRel
<1>2. \A x, y \in Nat : x < y => <<x, y>> \in Before
  OBVIOUS
<1>3. S \subseteq Nat
  BY OrdersAssumption
<1> HIDE DEF Before
<1>4. PICK x \in S : \A y \in S : ~(<<y, x>> \in Before)
  BY <1>1, <1>3, WFMin, Zenon
<1>5. ASSUME NEW y \in S PROVE x <= y
  <2>1. x \in Nat /\ y \in Nat
    BY <1>3
  <2>2. ~(y < x)
    BY <1>2, <1>4, <2>1
  <2> QED
    BY <2>1, <2>2
<1> QED
  BY <1>5 DEF Oldest

(* Where a job at work stands, and the verdicts it carries.                *)
Stages == {"batch", "approved", "consuming", "settling", "publishing"}
Verdicts == {"NONE", "APPROVED", "DECLINED", "EXPIRED"}

(* A job that is not idle has a batch, lines and a verdict.                *)
LEMMA TaskFields ==
    ASSUME NEW t \in TaskOK
    PROVE  \/ t = NoTask /\ t.at = "idle"
           \/ /\ t # NoTask
              /\ t.at \in Stages
              /\ t.todo \in SUBSET Orders
              /\ t.holds \in SUBSET Products
              /\ t.verdict \in Verdicts
BY DEF TaskOK, NoTask, Stages, Verdicts

(* So has a webhook transaction that is open.                              *)
LEMMA HookFields ==
    ASSUME NEW h \in HookOK
    PROVE  \/ h = NoHook /\ h.at = "idle"
           \/ /\ h # NoHook /\ h.at = "consuming"
              /\ h.order \in Orders
              /\ h.event \in EventIds
              /\ h.holds \in SUBSET Products
BY DEF HookOK, NoHook

(* What Goes leaves in the job it moves, and that it moves no other.       *)
LEMMA GoesTo ==
    ASSUME TypeOK, NEW j \in Jobs,
           NEW at \in Stages,
           NEW todo \in SUBSET Orders, NEW holds \in SUBSET Products,
           NEW verdict \in Verdicts,
           Goes(j, at, todo, holds, verdict)
    PROVE  /\ task' \in [Jobs -> TaskOK]
           /\ \A i \in Jobs \ {j} : task'[i] = task[i]
           /\ \/ task'[j] = NoTask
              \/ /\ todo # {}
                 /\ task'[j].at = at
                 /\ task'[j].todo = todo
                 /\ task'[j].holds = holds
                 /\ task'[j].verdict = verdict
<1> DEFINE row == [at |-> at, todo |-> todo, holds |-> holds, verdict |-> verdict]
<1>1. /\ row \in TaskOK /\ NoTask \in TaskOK
      /\ row.at = at /\ row.todo = todo /\ row.holds = holds /\ row.verdict = verdict
  BY DEF TaskOK, Stages, Verdicts
<1>2. task' = [task EXCEPT ![j] = IF todo = {} THEN NoTask ELSE row]
  BY DEF Goes
<1> HIDE DEF row
<1> QED
  BY <1>1, <1>2 DEF TypeOK

(* A job that drops its batch.                                             *)
LEMMA TaskOver ==
    ASSUME TypeOK, NEW j \in Jobs, task' = [task EXCEPT ![j] = NoTask]
    PROVE  /\ task' \in [Jobs -> TaskOK]
           /\ task'[j] = NoTask
           /\ \A i \in Jobs \ {j} : task'[i] = task[i]
<1>1. NoTask \in TaskOK
  BY DEF TaskOK
<1> QED
  BY <1>1 DEF TypeOK

(* A webhook transaction that ends.                                        *)
LEMMA HookOver ==
    ASSUME TypeOK, NEW w \in Webhooks, hook' = [hook EXCEPT ![w] = NoHook]
    PROVE  /\ hook' \in [Webhooks -> HookOK]
           /\ hook'[w].at = "idle"
           /\ \A v \in Webhooks \ {w} : hook'[v] = hook[v]
<1>1. NoHook \in HookOK /\ NoHook.at = "idle"
  BY DEF HookOK, NoHook
<1> QED
  BY <1>1 DEF TypeOK

(* Consuming takes the same amount from both counters of a product.        *)
LEMMA ConsumedCounters ==
    ASSUME TypeOK, NEW o \in Orders, NEW S \in SUBSET Products
    PROVE  /\ Consumed(o, S, onHand) \in [Products -> Nat]
           /\ Consumed(o, S, reserved) \in [Products -> Nat]
           /\ \A p \in Products : Consumed(o, S, reserved)[p] <= Consumed(o, S, onHand)[p]
<1>1. \A p \in Products :
         /\ Quantity[o][p] \in Nat /\ onHand[p] \in Nat /\ reserved[p] \in Nat
         /\ reserved[p] <= onHand[p]
  BY QuantityAssumption DEF TypeOK
<1> QED
  BY <1>1 DEF Consumed

(* Marking changes the given lines of one order.                           *)
LEMMA MarkedLines ==
    ASSUME TypeOK, NEW o \in Orders, NEW S \in SUBSET Products
    PROVE  /\ Marked(o, S) \in [Orders -> [Products -> HoldStatus]]
           /\ \A q \in Orders, p \in Products :
                 Marked(o, S)[q][p] = IF q = o /\ p \in S THEN "CONSUMED" ELSE hold[q][p]
<1>1. "CONSUMED" \in HoldStatus
  BY DEF HoldStatus
<1>2. hold \in [Orders -> [Products -> HoldStatus]]
  BY DEF TypeOK
<1> QED
  BY <1>1, <1>2 DEF Marked

-----------------------------------------------------------------------------
(* What no step takes back: an approval of the provider, an order that was *)
(* placed, a reservation that was consumed.                                *)
Onward ==
    \A o \in Orders :
        /\ provider[o] = "approved" => provider'[o] = "approved"
        /\ order[o] # "NONE" => order'[o] # "NONE"
        /\ \A p \in Products : hold[o][p] = "CONSUMED" => hold'[o][p] = "CONSUMED"

(* A job that does not move keeps what it has read.                        *)
LEMMA TaskKeeps ==
    ASSUME TypeOK, Onward, NEW j \in Jobs, TaskHolds(j), task'[j] = task[j]
    PROVE  TaskHolds(j)'
<1>1. CASE task[j] = NoTask
  BY <1>1 DEF TaskHolds
<1>2. CASE task[j] # NoTask
  <2>1. /\ task[j].todo # {} /\ task[j].todo \in SUBSET Orders
        /\ \A q \in task[j].todo : order[q] # "NONE"
    BY <1>2, TaskFields DEF TaskHolds, TypeOK
  <2>2. PICK o \in Orders : o = Oldest(task[j].todo)
    BY <2>1, OldestIsThere
  <2>3. /\ task[j].at \in {"approved", "consuming"} => provider[o] = "approved"
        /\ task[j].at = "consuming" =>
              task[j].holds \subseteq LineOf(o) /\ RestConsumed(o, task[j].holds)
        /\ task[j].at = "settling" =>
              /\ task[j].verdict # "NONE"
              /\ task[j].verdict = "APPROVED" =>
                    provider[o] = "approved" /\ RestConsumed(o, {})
    BY <1>2, <2>2 DEF TaskHolds
  <2>4. ASSUME NEW S, RestConsumed(o, S)
        PROVE  RestConsumed(o, S)'
    BY <2>4 DEF Onward, RestConsumed, LineOf
  <2>5. \A q \in task[j].todo : order'[q] # "NONE"
    BY <2>1 DEF Onward
  <2>6. provider[o] = "approved" => provider'[o] = "approved"
    BY <2>2 DEF Onward
  <2> QED
    BY <2>1, <2>2, <2>3, <2>4, <2>5, <2>6 DEF TaskHolds
<1> QED
  BY <1>1, <1>2

(* Nor does a webhook transaction, whose payment is locked.                *)
LEMMA HookKeeps ==
    ASSUME TypeOK, Onward, NEW w \in Webhooks, HookHolds(w), UNCHANGED hook,
           \A o \in Orders : Locked(o) => payment'[o] = payment[o]
    PROVE  HookHolds(w)'
<1>1. CASE hook[w].at # "consuming"
  BY <1>1 DEF HookHolds
<1>2. CASE hook[w].at = "consuming"
  <2>1. hook[w].order \in Orders
    BY <1>2, HookFields DEF TypeOK
  <2>2. payment'[hook[w].order] = "PENDING" /\ provider'[hook[w].order] = "approved"
    BY <1>2, <2>1 DEF HookHolds, Locked, Onward
  <2>3. RestConsumed(hook[w].order, hook[w].holds)'
    BY <1>2, <2>1 DEF HookHolds, RestConsumed, Onward, LineOf
  <2> QED
    BY <1>2, <2>2, <2>3 DEF HookHolds, LineOf
<1> QED
  BY <1>1, <1>2

-----------------------------------------------------------------------------
(* The invariant holds at the start and is kept by every action.           *)
LEMMA SettlementStarts == Init => SettlementInv
<1> SUFFICES ASSUME Init PROVE SettlementInv
  OBVIOUS
<1>1. \A p \in Products : Held(p, Orders) \in Nat /\ Held(p, Orders) <= Stock[p]
  BY StockAssumption
<1>2. NoHook \in HookOK /\ NoHook.at = "idle" /\ NoTask \in TaskOK
  BY DEF HookOK, NoHook, TaskOK
<1>3. TypeOK
  <2>1. reserved \in [Products -> Nat] /\ \A p \in Products : reserved[p] <= onHand[p]
    BY <1>1, StockAssumption DEF Init
  <2>2. hook \in [Webhooks -> HookOK] /\ task \in [Jobs -> TaskOK]
    BY <1>2 DEF Init
  <2>3. onHand \in [Products -> Nat] /\ 0 \in 0..Deaths
    BY StockAssumption, LimitsAssumption DEF Init
  <2> QED
    BY <2>1, <2>2, <2>3
       DEF Init, TypeOK, HoldStatus, OrderStatus, PaymentStatus, ProviderStatus
<1>4. OrdersHold
  BY DEF Init, OrdersHold
<1>5. ASSUME NEW w \in Webhooks PROVE HookHolds(w)
  BY <1>2 DEF Init, HookHolds
<1>6. ASSUME NEW j \in Jobs PROVE TaskHolds(j)
  BY DEF Init, TaskHolds
<1>7. ConsumedOnlyIfApproved /\ PaidMeansConsumed
  BY DEF Init, ConsumedOnlyIfApproved, PaidMeansConsumed
<1> QED
  BY <1>3, <1>4, <1>5, <1>6, <1>7 DEF SettlementInv

LEMMA PlacingKeeps ==
    ASSUME SettlementInv, NEW o \in Orders, PlaceOrder(o)
    PROVE  SettlementInv'
<1> USE DEF SettlementInv
<1>1. /\ TypeOK /\ OrdersHold /\ order[o] = "NONE" /\ payment[o] = "NONE"
      /\ UNCHANGED <<onHand, reserved, listed, events, outbox, provider, age, deaths, hook, task>>
  BY DEF PlaceOrder, OrdersHold, world
<1>2. /\ hold' \in [Orders -> [Products -> HoldStatus]]
      /\ \A q \in Orders, p \in Products :
            hold'[q][p] = IF q = o /\ p \in LineOf(o) THEN "CHECKOUT_PENDING" ELSE hold[q][p]
  <2>1. "CHECKOUT_PENDING" \in HoldStatus
    BY DEF HoldStatus
  <2> QED
    BY <2>1, <1>1 DEF PlaceOrder, TypeOK
<1>3. /\ order' = [order EXCEPT ![o] = "PENDING_PAYMENT"]
      /\ payment' = [payment EXCEPT ![o] = "PENDING"]
      /\ order' \in [Orders -> OrderStatus] /\ payment' \in [Orders -> PaymentStatus]
  BY <1>1 DEF PlaceOrder, TypeOK, OrderStatus, PaymentStatus
<1>4. TypeOK'
  BY <1>1, <1>2, <1>3 DEF TypeOK
<1>5. Onward
  <2>1. \A p \in Products : hold[o][p] # "CONSUMED"
    BY <1>1 DEF OrdersHold
  <2>2. \A q \in Orders \ {o}, p \in Products : hold'[q][p] = hold[q][p]
    BY <1>2
  <2>3. \A q \in Orders : order[q] # "NONE" => order'[q] # "NONE"
    BY <1>1, <1>3 DEF TypeOK
  <2> QED
    BY <1>1, <2>1, <2>2, <2>3 DEF Onward
<1>6. OrdersHold'
  BY <1>1, <1>2, <1>3 DEF OrdersHold, LineOf, TypeOK
<1>7. ASSUME NEW w \in Webhooks PROVE HookHolds(w)'
  <2>1. ASSUME NEW q \in Orders, Locked(q) PROVE payment'[q] = payment[q]
    BY <1>1, <1>3, <2>1 DEF Locked, HookHolds, TypeOK
  <2> QED
    BY <1>1, <1>5, <2>1, HookKeeps
<1>8. ASSUME NEW j \in Jobs PROVE TaskHolds(j)'
  BY <1>1, <1>5, TaskKeeps
<1>9. ConsumedOnlyIfApproved' /\ PaidMeansConsumed'
  BY <1>1, <1>2, <1>3
     DEF ConsumedOnlyIfApproved, PaidMeansConsumed, TypeOK, LineOf
<1> QED
  BY <1>4, <1>6, <1>7, <1>8, <1>9

LEMMA WorldKeeps ==
    ASSUME SettlementInv,
           \/ \E o \in Orders : ProviderDecides(o) \/ Ages(o)
           \/ \E p \in Products : DelistProduct(p)
    PROVE  SettlementInv'
<1> USE DEF SettlementInv
<1>1. /\ TypeOK
      /\ UNCHANGED <<onHand, reserved, hold, order, payment, events, outbox, deaths, hook, task>>
  BY DEF ProviderDecides, Ages, DelistProduct, tables, world
<1>2. /\ provider' \in [Orders -> ProviderStatus]
      /\ \A o \in Orders : provider[o] = "approved" => provider'[o] = "approved"
  BY <1>1 DEF ProviderDecides, Ages, DelistProduct, tables, world, TypeOK
<1>3. age' \in [Orders -> {"YOUNG", "DUE", "STALE"}]
  BY <1>1 DEF ProviderDecides, Ages, DelistProduct, tables, world, TypeOK
<1>4. listed' \in [Products -> BOOLEAN]
  BY <1>1 DEF ProviderDecides, Ages, DelistProduct, tables, world, TypeOK
<1>5. TypeOK' /\ Onward /\ OrdersHold'
  BY <1>1, <1>2, <1>3, <1>4 DEF TypeOK, Onward, OrdersHold, LineOf
<1>6. ASSUME NEW w \in Webhooks PROVE HookHolds(w)'
  BY <1>1, <1>5, HookKeeps
<1>7. ASSUME NEW j \in Jobs PROVE TaskHolds(j)'
  BY <1>1, <1>5, TaskKeeps
<1>8. ConsumedOnlyIfApproved' /\ PaidMeansConsumed'
  BY <1>1, <1>2 DEF ConsumedOnlyIfApproved, PaidMeansConsumed, LineOf
<1> QED
  BY <1>5, <1>6, <1>7, <1>8

-----------------------------------------------------------------------------
(* The webhooks.                                                           *)

LEMMA IgnoreKeeps ==
    ASSUME SettlementInv, NEW w \in Webhooks, NEW o \in Orders, NEW e \in EventIds,
           NEW s \in Sent(o), IgnoreEvent(w, o, e, s)
    PROVE  SettlementInv'
<1> USE DEF SettlementInv
<1>1. /\ TypeOK /\ events' = events \union {e}
      /\ UNCHANGED <<onHand, reserved, listed, hold, order, payment, outbox, provider, age,
                     deaths, hook, task>>
  BY DEF IgnoreEvent, world
<1>2. TypeOK' /\ Onward /\ OrdersHold'
  BY <1>1 DEF TypeOK, Onward, OrdersHold, LineOf
<1>3. ASSUME NEW v \in Webhooks PROVE HookHolds(v)'
  BY <1>1, <1>2, HookKeeps
<1>4. ASSUME NEW j \in Jobs PROVE TaskHolds(j)'
  BY <1>1, <1>2, TaskKeeps
<1>5. ConsumedOnlyIfApproved' /\ PaidMeansConsumed'
  BY <1>1 DEF ConsumedOnlyIfApproved, PaidMeansConsumed, LineOf
<1> QED
  BY <1>2, <1>3, <1>4, <1>5

(* What the two readings of a status can be.                               *)
LEMMA Readings ==
    ASSUME NEW s \in ProviderStatus
    PROVE  /\ WebhookReading(s) = "APPROVED" => s = "approved"
           /\ QueryReading(s) = "APPROVED" => s = "approved"
           /\ WebhookReading(s) \in {"DECLINED", "EXPIRED"} => OrderReading(WebhookReading(s)) # "PAID"
BY DEF ProviderStatus, WebhookReading, QueryReading, OrderReading

LEMMA TerminalKeeps ==
    ASSUME SettlementInv, NEW w \in Webhooks, NEW o \in Orders, NEW e \in EventIds,
           NEW s \in Sent(o), ProcessTerminal(w, o, e, s)
    PROVE  SettlementInv'
<1> USE DEF SettlementInv
<1>1. PICK verdict \in {"DECLINED", "EXPIRED"} :
         /\ payment' = [payment EXCEPT ![o] = verdict]
         /\ order' = [order EXCEPT ![o] = OrderReading(verdict)]
  BY DEF ProcessTerminal
<1>2. /\ TypeOK /\ OrdersHold /\ payment[o] = "PENDING" /\ ~Locked(o)
      /\ events' = events \union {e}
      /\ outbox' = [outbox EXCEPT ![o] = @ + 1]
      /\ UNCHANGED <<onHand, reserved, listed, hold, provider, age, deaths, hook, task>>
  BY DEF ProcessTerminal, Deliverable, world
<1>3. /\ OrderReading(verdict) \in OrderStatus /\ OrderReading(verdict) \notin {"NONE", "PAID"}
      /\ verdict \in PaymentStatus
  BY DEF OrderReading, OrderStatus, PaymentStatus
<1>4. TypeOK'
  BY <1>1, <1>2, <1>3 DEF TypeOK
<1>5. Onward /\ OrdersHold'
  <2>1. order[o] # "NONE"
    BY <1>2 DEF OrdersHold
  <2> QED
    BY <1>1, <1>2, <1>3, <2>1 DEF Onward, OrdersHold, LineOf, TypeOK
<1>6. ASSUME NEW v \in Webhooks PROVE HookHolds(v)'
  <2>1. ASSUME NEW q \in Orders, Locked(q) PROVE payment'[q] = payment[q]
    BY <1>1, <1>2, <2>1 DEF TypeOK
  <2> QED
    BY <1>2, <1>5, <2>1, HookKeeps
<1>7. ASSUME NEW j \in Jobs PROVE TaskHolds(j)'
  BY <1>2, <1>5, TaskKeeps
<1>8. ConsumedOnlyIfApproved' /\ PaidMeansConsumed'
  <2>1. \A q \in Orders : order'[q] = "PAID" => order[q] = "PAID"
    BY <1>1, <1>2, <1>3 DEF TypeOK
  <2> QED
    BY <1>2, <2>1 DEF ConsumedOnlyIfApproved, PaidMeansConsumed, LineOf
<1> QED
  BY <1>4, <1>5, <1>6, <1>7, <1>8

(* The transaction opens on a PENDING payment that no other has locked.    *)
LEMMA BeginKeeps ==
    ASSUME SettlementInv, NEW w \in Webhooks, NEW o \in Orders, NEW e \in EventIds,
           NEW s \in Sent(o), BeginApproved(w, o, e, s)
    PROVE  SettlementInv'
<1> USE DEF SettlementInv
<1> DEFINE row == [at |-> "consuming", order |-> o, event |-> e, holds |-> PendingHolds(o)]
<1>1. /\ TypeOK /\ OrdersHold /\ payment[o] = "PENDING" /\ ~Locked(o)
      /\ WebhookReading(s) = "APPROVED" /\ PendingHolds(o) # {}
      /\ hook' = [hook EXCEPT ![w] = row]
      /\ UNCHANGED <<onHand, reserved, listed, hold, order, payment, events, outbox,
                     provider, age, deaths, task>>
  BY DEF BeginApproved, Deliverable, world, tables
<1>2. provider[o] = "approved"
  <2>1. s \in ProviderStatus /\ (s = "pending" \/ s = provider[o])
    BY <1>1 DEF Sent, ProviderStatus, TypeOK
  <2> QED
    BY <1>1, <2>1, Readings
<1>3. /\ row \in HookOK /\ row.at = "consuming" /\ row.order = o
      /\ row.holds = PendingHolds(o)
  BY DEF HookOK, PendingHolds, LineOf
<1> HIDE DEF row
<1>4. /\ hook' \in [Webhooks -> HookOK] /\ hook'[w] = row
      /\ \A v \in Webhooks \ {w} : hook'[v] = hook[v]
  BY <1>1, <1>3 DEF TypeOK
<1>5. TypeOK' /\ Onward /\ OrdersHold'
  BY <1>1, <1>4 DEF TypeOK, Onward, OrdersHold, LineOf
<1>6. RestConsumed(o, PendingHolds(o))
  BY <1>1 DEF RestConsumed, PendingHolds, OrdersHold, TypeOK
<1>7. ASSUME NEW v \in Webhooks PROVE HookHolds(v)'
  <2>1. CASE v = w
    <3>1. PendingHolds(o) \subseteq LineOf(o)
      BY DEF PendingHolds
    <3>2. \A u \in Webhooks \ {w} : hook'[u].at = "consuming" => hook'[u].order # o
      BY <1>1, <1>4 DEF Locked
    <3>3. RestConsumed(o, PendingHolds(o))'
      BY <1>1, <1>6 DEF RestConsumed, LineOf, PendingHolds
    <3>4. PICK S \in SUBSET Products : S = PendingHolds(o)
      BY DEF PendingHolds, LineOf
    <3>5. hook'[w].at = "consuming" /\ hook'[w].order = o /\ hook'[w].holds = S
      BY <1>3, <1>4, <3>4
    <3>6. RestConsumed(o, S)'
      BY <1>1, <1>6, <3>4 DEF RestConsumed, LineOf
    <3> QED
      BY <1>1, <1>2, <2>1, <3>1, <3>2, <3>4, <3>5, <3>6 DEF HookHolds, LineOf
  <2>2. CASE v # w
    <3>1. CASE hook[v].at # "consuming"
      BY <1>4, <2>2, <3>1 DEF HookHolds
    <3>2. CASE hook[v].at = "consuming"
      <4>1. hook[v].order # o /\ hook'[v] = hook[v]
        BY <1>1, <1>4, <2>2, <3>2 DEF Locked
      <4>2. \A u \in Webhooks \ {v} :
               hook'[u].at = "consuming" => hook'[u].order # hook[v].order
        BY <1>3, <1>4, <2>2, <3>2, <4>1 DEF HookHolds
      <4> QED
        BY <1>1, <3>2, <4>1, <4>2 DEF HookHolds, RestConsumed, LineOf
    <3> QED
      BY <3>1, <3>2
  <2> QED
    BY <2>1, <2>2
<1>8. ASSUME NEW j \in Jobs PROVE TaskHolds(j)'
  BY <1>1, <1>5, TaskKeeps
<1>9. ConsumedOnlyIfApproved' /\ PaidMeansConsumed'
  BY <1>1 DEF ConsumedOnlyIfApproved, PaidMeansConsumed, LineOf
<1> QED
  BY <1>5, <1>7, <1>8, <1>9

(* A transaction stays what it is when others end.                         *)
LEMMA HookRemains ==
    ASSUME TypeOK, Onward, NEW w \in Webhooks, NEW v \in Webhooks \ {w}, HookHolds(v),
           hook'[w].at = "idle", \A u \in Webhooks \ {w} : hook'[u] = hook[u],
           hook[v].at = "consuming" => payment'[hook[v].order] = payment[hook[v].order]
    PROVE  HookHolds(v)'
<1>1. CASE hook[v].at # "consuming"
  BY <1>1 DEF HookHolds
<1>2. CASE hook[v].at = "consuming"
  <2>1. hook[v].order \in Orders /\ hook'[v] = hook[v]
    BY <1>2, HookFields DEF TypeOK
  <2>2. payment'[hook[v].order] = "PENDING" /\ provider'[hook[v].order] = "approved"
    BY <1>2, <2>1 DEF HookHolds, Onward
  <2>3. RestConsumed(hook[v].order, hook[v].holds)'
    BY <1>2, <2>1 DEF HookHolds, RestConsumed, Onward, LineOf
  <2>4. \A u \in Webhooks \ {v} :
           hook'[u].at = "consuming" => hook'[u].order # hook'[v].order
    BY <1>2, <2>1 DEF HookHolds
  <2> QED
    BY <1>2, <2>1, <2>2, <2>3, <2>4 DEF HookHolds, LineOf, RestConsumed
<1> QED
  BY <1>1, <1>2

(* A transaction that ends without effect.                                 *)
LEMMA RollbackKeeps ==
    ASSUME SettlementInv, NEW w \in Webhooks, RefuseRefund(w) \/ WebhookDies(w)
    PROVE  SettlementInv'
<1> USE DEF SettlementInv
<1>1. /\ TypeOK /\ hook' = [hook EXCEPT ![w] = NoHook] /\ deaths' \in 0..Deaths
      /\ UNCHANGED <<onHand, reserved, listed, hold, order, payment, events, outbox,
                     provider, age, task>>
  BY LimitsAssumption DEF RefuseRefund, WebhookDies, world, tables, TypeOK
<1>2. /\ hook' \in [Webhooks -> HookOK] /\ hook'[w].at = "idle"
      /\ \A v \in Webhooks \ {w} : hook'[v] = hook[v]
  BY <1>1, HookOver
<1>3. TypeOK' /\ Onward /\ OrdersHold'
  BY <1>1, <1>2 DEF TypeOK, Onward, OrdersHold, LineOf
<1>4. ASSUME NEW v \in Webhooks PROVE HookHolds(v)'
  <2>1. CASE v = w
    BY <1>2, <2>1 DEF HookHolds
  <2>2. CASE v # w
    BY <1>1, <1>2, <1>3, <2>2, HookRemains
  <2> QED
    BY <2>1, <2>2
<1>5. ASSUME NEW j \in Jobs PROVE TaskHolds(j)'
  BY <1>1, <1>3, TaskKeeps
<1>6. ConsumedOnlyIfApproved' /\ PaidMeansConsumed'
  BY <1>1 DEF ConsumedOnlyIfApproved, PaidMeansConsumed, LineOf
<1> QED
  BY <1>3, <1>4, <1>5, <1>6

(* The transaction that consumes what it has read and pays the order.      *)
LEMMA ApprovedKeeps ==
    ASSUME SettlementInv, NEW w \in Webhooks, ProcessApproved(w)
    PROVE  SettlementInv'
<1> USE DEF SettlementInv
<1>1. /\ TypeOK /\ OrdersHold /\ HookHolds(w) /\ hook[w].at = "consuming"
      /\ hook[w].order \in Orders /\ hook[w].holds \in SUBSET Products
      /\ hook[w].event \in EventIds
  BY HookFields DEF ProcessApproved, TypeOK
<1>2. PICK o \in Orders, S \in SUBSET Products : o = hook[w].order /\ S = hook[w].holds
  BY <1>1
<1>3. /\ onHand' = Consumed(o, S, onHand) /\ reserved' = Consumed(o, S, reserved)
      /\ hold' = Marked(o, S)
      /\ payment' = [payment EXCEPT ![o] = "APPROVED"]
      /\ order' = [order EXCEPT ![o] = "PAID"]
      /\ outbox' = [outbox EXCEPT ![o] = @ + 1]
      /\ events' = events \union {hook[w].event}
      /\ hook' = [hook EXCEPT ![w] = NoHook]
      /\ UNCHANGED <<listed, provider, age, deaths, task>>
  BY <1>2 DEF ProcessApproved, world
<1>4. /\ payment[o] = "PENDING" /\ provider[o] = "approved" /\ RestConsumed(o, S)
      /\ S \subseteq LineOf(o)
      /\ \A v \in Webhooks \ {w} : hook[v].at = "consuming" => hook[v].order # o
  BY <1>1, <1>2 DEF HookHolds
<1>5. /\ hook' \in [Webhooks -> HookOK] /\ hook'[w].at = "idle"
      /\ \A v \in Webhooks \ {w} : hook'[v] = hook[v]
  BY <1>1, <1>3, HookOver
<1>6. /\ hold' \in [Orders -> [Products -> HoldStatus]]
      /\ \A q \in Orders, p \in Products :
            hold'[q][p] = IF q = o /\ p \in S THEN "CONSUMED" ELSE hold[q][p]
  BY <1>1, <1>3, MarkedLines
<1>7. TypeOK'
  <2>1. /\ onHand' \in [Products -> Nat] /\ reserved' \in [Products -> Nat]
        /\ \A p \in Products : reserved'[p] <= onHand'[p]
    BY <1>1, <1>3, ConsumedCounters
  <2>2. order' \in [Orders -> OrderStatus] /\ payment' \in [Orders -> PaymentStatus]
    BY <1>1, <1>3 DEF TypeOK, OrderStatus, PaymentStatus
  <2>3. outbox' \in [Orders -> Nat] /\ events' \subseteq EventIds
    BY <1>1, <1>3 DEF TypeOK
  <2> QED
    BY <1>1, <1>3, <1>5, <1>6, <2>1, <2>2, <2>3 DEF TypeOK
<1>8. Onward /\ OrdersHold'
  <2>1. order[o] # "NONE"
    BY <1>1, <1>4 DEF OrdersHold
  <2>2. /\ order'[o] = "PAID" /\ payment'[o] = "APPROVED"
        /\ \A q \in Orders \ {o} : order'[q] = order[q] /\ payment'[q] = payment[q]
    BY <1>1, <1>3 DEF TypeOK
  <2>3. Onward
    BY <1>3, <1>6, <2>1, <2>2 DEF Onward
  <2>4. \A p \in LineOf(o) : hold'[o][p] \in {"CHECKOUT_PENDING", "CONSUMED"}
    BY <1>1, <1>6, <2>1 DEF OrdersHold, LineOf
  <2>5. OrdersHold'
    BY <1>1, <1>6, <2>2, <2>4 DEF OrdersHold, LineOf
  <2> QED
    BY <2>3, <2>5
<1>9. ASSUME NEW v \in Webhooks PROVE HookHolds(v)'
  <2>1. CASE v = w
    BY <1>5, <2>1 DEF HookHolds
  <2>2. CASE v # w
    <3>1. hook[v].at = "consuming" => payment'[hook[v].order] = payment[hook[v].order]
      BY <1>1, <1>3, <1>4, <2>2, HookFields DEF TypeOK
    <3> QED
      BY <1>1, <1>5, <1>8, <2>2, <3>1, HookRemains
  <2> QED
    BY <2>1, <2>2
<1>10. ASSUME NEW j \in Jobs PROVE TaskHolds(j)'
  BY <1>1, <1>3, <1>8, TaskKeeps
<1>11. ConsumedOnlyIfApproved'
  BY <1>1, <1>3, <1>4, <1>6 DEF ConsumedOnlyIfApproved, TypeOK
<1>12. PaidMeansConsumed'
  <2>1. \A p \in LineOf(o) : hold'[o][p] = "CONSUMED"
    BY <1>4, <1>6 DEF RestConsumed, LineOf
  <2> QED
    BY <1>1, <1>3, <1>6, <2>1 DEF PaidMeansConsumed, LineOf, TypeOK
<1> QED
  BY <1>7, <1>8, <1>9, <1>10, <1>11, <1>12

-----------------------------------------------------------------------------
(* The reconciliation jobs.                                                *)

(* A step of a job that writes no table.                                   *)
LEMMA JobMoves ==
    ASSUME SettlementInv, NEW j \in Jobs,
           UNCHANGED <<onHand, reserved, listed, hold, order, payment, events, outbox,
                       provider, age, hook>>,
           deaths' \in 0..Deaths,
           task' \in [Jobs -> TaskOK], \A i \in Jobs \ {j} : task'[i] = task[i],
           TaskHolds(j)'
    PROVE  SettlementInv'
<1> USE DEF SettlementInv
<1>1. TypeOK' /\ Onward /\ OrdersHold'
  BY DEF TypeOK, Onward, OrdersHold, LineOf
<1>2. ASSUME NEW v \in Webhooks PROVE HookHolds(v)'
  BY <1>1, HookKeeps
<1>3. ASSUME NEW i \in Jobs PROVE TaskHolds(i)'
  BY <1>1, TaskKeeps
<1>4. ConsumedOnlyIfApproved' /\ PaidMeansConsumed'
  BY DEF ConsumedOnlyIfApproved, PaidMeansConsumed, LineOf
<1> QED
  BY <1>1, <1>2, <1>3, <1>4

(* The current payment of a job that is at work.                           *)
LEMMA CurrentPayment ==
    ASSUME SettlementInv, NEW j \in Jobs, task[j] # NoTask
    PROVE  /\ task[j].todo \in SUBSET Orders /\ task[j].holds \in SUBSET Products
           /\ task[j].verdict \in Verdicts
           /\ Oldest(task[j].todo) \in task[j].todo
           /\ Oldest(task[j].todo) \in Orders
           /\ \A q \in task[j].todo : order[q] # "NONE"
<1>1. /\ task[j].todo \in SUBSET Orders /\ task[j].holds \in SUBSET Products
      /\ task[j].verdict \in Verdicts
      /\ task[j].todo # {} /\ \A q \in task[j].todo : order[q] # "NONE"
  BY TaskFields DEF SettlementInv, TypeOK, TaskHolds
<1> QED
  BY <1>1, OldestIsThere

(* A job that starts on a payment of its batch knows nothing of it yet.    *)
LEMMA TaskStartsAfresh ==
    ASSUME TypeOK, UNCHANGED order, NEW j \in Jobs, NEW todo \in SUBSET Orders,
           \A q \in todo : order[q] # "NONE",
           Goes(j, "batch", todo, {}, "NONE")
    PROVE  /\ task' \in [Jobs -> TaskOK]
           /\ \A i \in Jobs \ {j} : task'[i] = task[i]
           /\ TaskHolds(j)'
<1>1. {} \in SUBSET Products /\ "batch" \in Stages /\ "NONE" \in Verdicts
  BY DEF Stages, Verdicts
<1>2. /\ task' \in [Jobs -> TaskOK] /\ \A i \in Jobs \ {j} : task'[i] = task[i]
      /\ \/ task'[j] = NoTask
         \/ todo # {} /\ task'[j].at = "batch" /\ task'[j].todo = todo
  BY <1>1, GoesTo, SMTT(30)
<1>3. TaskHolds(j)'
  BY <1>2 DEF TaskHolds
<1> QED
  BY <1>2, <1>3

LEMMA SelectKeeps ==
    ASSUME SettlementInv, NEW j \in Jobs, SelectBatch(j)
    PROVE  SettlementInv'
<1> USE DEF SettlementInv
<1>1. /\ TypeOK /\ OrdersHold
      /\ UNCHANGED <<onHand, reserved, listed, hold, order, payment, events, outbox,
                     provider, age, deaths, hook>>
  BY DEF SelectBatch, tables, world
<1>2. /\ FirstOf(Candidates) \in SUBSET Orders
      /\ \A q \in FirstOf(Candidates) : order[q] # "NONE"
  BY <1>1 DEF FirstOf, Candidates, OrdersHold
<1>3. PICK todo \in SUBSET Orders : todo = FirstOf(Candidates)
  BY <1>2
<1>4. Goes(j, "batch", todo, {}, "NONE")
  BY <1>3 DEF SelectBatch
<1>5. /\ task' \in [Jobs -> TaskOK] /\ \A i \in Jobs \ {j} : task'[i] = task[i]
      /\ TaskHolds(j)'
  BY <1>1, <1>2, <1>3, <1>4, TaskStartsAfresh
<1>6. deaths' \in 0..Deaths
  BY <1>1 DEF TypeOK
<1> QED
  BY <1>1, <1>5, <1>6, JobMoves

(* The batch goes on with the payments that are left.                      *)
LEMMA NextPaymentKeeps ==
    ASSUME SettlementInv, NEW j \in Jobs, task[j] # NoTask, UNCHANGED order, NextPayment(j)
    PROVE  /\ task' \in [Jobs -> TaskOK]
           /\ \A i \in Jobs \ {j} : task'[i] = task[i]
           /\ TaskHolds(j)'
<1>1. task[j].todo \in SUBSET Orders /\ \A q \in task[j].todo : order[q] # "NONE"
  BY CurrentPayment
<1>2. PICK todo \in SUBSET Orders : todo = task[j].todo \ {Oldest(task[j].todo)}
  BY <1>1
<1>3. Goes(j, "batch", todo, {}, "NONE")
  BY <1>2 DEF NextPayment
<1>4. \A q \in todo : order[q] # "NONE"
  BY <1>1, <1>2
<1>5. TypeOK
  BY DEF SettlementInv
<1> QED
  BY <1>3, <1>4, <1>5, TaskStartsAfresh

(* A job that stays on the current payment with something it has learnt.   *)
LEMMA TaskStaysOn ==
    ASSUME SettlementInv, \A q \in Orders : order[q] # "NONE" => order'[q] # "NONE",
           NEW j \in Jobs, task[j] # NoTask,
           NEW todo \in SUBSET Orders, todo = task[j].todo,
           NEW o \in Orders, o = Oldest(todo),
           NEW at \in Stages,
           NEW holds \in SUBSET Products,
           NEW verdict \in Verdicts,
           Goes(j, at, todo, holds, verdict),
           at \in {"approved", "consuming"} => provider'[o] = "approved",
           at = "consuming" => holds \subseteq LineOf(o) /\ RestConsumed(o, holds)',
           at = "settling" =>
              /\ verdict # "NONE"
              /\ verdict = "APPROVED" => provider'[o] = "approved" /\ RestConsumed(o, {})'
    PROVE  /\ task' \in [Jobs -> TaskOK]
           /\ \A i \in Jobs \ {j} : task'[i] = task[i]
           /\ TaskHolds(j)'
<1>1. \A q \in todo : order'[q] # "NONE"
  BY CurrentPayment
<1>2. TypeOK
  BY DEF SettlementInv
<1>3. /\ task' \in [Jobs -> TaskOK] /\ \A i \in Jobs \ {j} : task'[i] = task[i]
      /\ \/ task'[j] = NoTask
         \/ /\ todo # {} /\ task'[j].at = at /\ task'[j].todo = todo
            /\ task'[j].holds = holds /\ task'[j].verdict = verdict
  BY <1>2, GoesTo
<1>4. CASE task'[j] = NoTask
  BY <1>3, <1>4 DEF TaskHolds
<1>5. CASE task'[j] # NoTask
  <2>1. /\ todo # {} /\ task'[j].at = at /\ task'[j].todo = todo
        /\ task'[j].holds = holds /\ task'[j].verdict = verdict
    BY <1>3, <1>5
  <2> QED
    BY <1>1, <1>3, <2>1 DEF TaskHolds, LineOf
<1> QED
  BY <1>4, <1>5

LEMMA QueryKeeps ==
    ASSUME SettlementInv, NEW j \in Jobs, QueryAnswered(j) \/ QueryFails(j)
    PROVE  SettlementInv'
<1>1. /\ TypeOK /\ task[j].at = "batch"
      /\ UNCHANGED <<onHand, reserved, listed, hold, order, payment, events, outbox,
                     provider, age, deaths, hook>>
  BY DEF QueryAnswered, QueryFails, tables, world, SettlementInv
<1>2. task[j] # NoTask /\ deaths' \in 0..Deaths
  BY <1>1 DEF NoTask, TypeOK
<1>3. PICK todo \in SUBSET Orders, o \in Orders : todo = task[j].todo /\ o = Oldest(todo)
  BY <1>2, CurrentPayment
<1>4. \/ NextPayment(j)
      \/ QueryReading(provider[o]) = "APPROVED" /\ Goes(j, "approved", todo, {}, "APPROVED")
      \/ \E v \in {"DECLINED", "EXPIRED"} : Goes(j, "settling", todo, {}, v)
  BY <1>3 DEF QueryAnswered, QueryFails, Goes
<1>5. {} \in SUBSET Products /\ {"approved", "settling"} \subseteq Stages /\ "APPROVED" \in Verdicts
  BY DEF Stages, Verdicts
<1>6. CASE NextPayment(j)
  BY <1>1, <1>2, <1>6, NextPaymentKeeps, JobMoves
<1>7. CASE QueryReading(provider[o]) = "APPROVED" /\ Goes(j, "approved", todo, {}, "APPROVED")
  <2>1. provider'[o] = "approved"
    BY <1>1, <1>7, Readings DEF TypeOK
  <2>2. /\ task' \in [Jobs -> TaskOK] /\ \A i \in Jobs \ {j} : task'[i] = task[i]
        /\ TaskHolds(j)'
    BY <1>1, <1>2, <1>3, <1>5, <1>7, <2>1, TaskStaysOn
  <2> QED
    BY <1>1, <1>2, <2>2, JobMoves
<1>8. ASSUME NEW v \in {"DECLINED", "EXPIRED"}, Goes(j, "settling", todo, {}, v)
      PROVE  SettlementInv'
  <2>1. v \in Verdicts /\ v # "NONE" /\ v # "APPROVED"
    BY DEF Verdicts
  <2>2. /\ task' \in [Jobs -> TaskOK] /\ \A i \in Jobs \ {j} : task'[i] = task[i]
        /\ TaskHolds(j)'
    BY <1>1, <1>2, <1>3, <1>5, <1>8, <2>1, TaskStaysOn
  <2> QED
    BY <1>1, <1>2, <2>2, JobMoves
<1> QED
  BY <1>4, <1>6, <1>7, <1>8

LEMMA DropKeeps ==
    ASSUME SettlementInv, NEW j \in Jobs, task' = [task EXCEPT ![j] = NoTask],
           UNCHANGED <<onHand, reserved, listed, hold, order, payment, events, outbox,
                       provider, age, hook>>,
           deaths' \in 0..Deaths
    PROVE  SettlementInv'
<1>1. TypeOK
  BY DEF SettlementInv
<1>2. /\ task' \in [Jobs -> TaskOK] /\ \A i \in Jobs \ {j} : task'[i] = task[i]
      /\ task'[j] = NoTask
  BY <1>1, TaskOver
<1>3. TaskHolds(j)'
  BY <1>2 DEF TaskHolds
<1> QED
  BY <1>2, <1>3, JobMoves

LEMMA ReadHoldsKeeps ==
    ASSUME SettlementInv, NEW j \in Jobs, ReadHolds(j)
    PROVE  SettlementInv'
<1>1. /\ TypeOK /\ OrdersHold /\ TaskHolds(j) /\ task[j].at = "approved"
      /\ UNCHANGED <<onHand, reserved, listed, hold, order, payment, events, outbox,
                     provider, age, deaths, hook>>
  BY DEF ReadHolds, tables, world, SettlementInv
<1>2. task[j] # NoTask /\ deaths' \in 0..Deaths
  BY <1>1 DEF NoTask, TypeOK
<1>3. PICK todo \in SUBSET Orders, o \in Orders :
         todo = task[j].todo /\ o = Oldest(todo) /\ order[o] # "NONE"
  BY <1>2, CurrentPayment
<1>4. CASE PendingHolds(o) = {}
  <2>1. task' = [task EXCEPT ![j] = NoTask]
    BY <1>3, <1>4 DEF ReadHolds
  <2> QED
    BY <1>1, <1>2, <2>1, DropKeeps
<1>5. CASE PendingHolds(o) # {}
  <2>1. PICK S \in SUBSET Products : S = PendingHolds(o)
    BY DEF PendingHolds, LineOf
  <2>2. /\ Goes(j, "consuming", todo, S, "APPROVED")
        /\ "consuming" \in Stages /\ "APPROVED" \in Verdicts
    BY <1>3, <1>5, <2>1 DEF ReadHolds, Goes, Stages, Verdicts
  <2>3. provider'[o] = "approved"
    BY <1>1, <1>2, <1>3 DEF TaskHolds
  <2>4. S \subseteq LineOf(o) /\ RestConsumed(o, S)'
    BY <1>1, <1>3, <2>1 DEF RestConsumed, PendingHolds, OrdersHold, LineOf
  <2>5. /\ task' \in [Jobs -> TaskOK] /\ \A i \in Jobs \ {j} : task'[i] = task[i]
        /\ TaskHolds(j)'
    BY <1>1, <1>2, <1>3, <2>2, <2>3, <2>4, TaskStaysOn
  <2> QED
    BY <1>1, <1>2, <2>5, JobMoves
<1> QED
  BY <1>4, <1>5

(* One reservation of those that were read is consumed.                    *)
LEMMA ConsumeKeeps ==
    ASSUME SettlementInv, NEW j \in Jobs, ConsumeHold(j)
    PROVE  SettlementInv'
<1>1. /\ TypeOK /\ OrdersHold /\ TaskHolds(j) /\ task[j].at = "consuming"
      /\ UNCHANGED <<listed, order, payment, events, outbox, provider, age, deaths, hook>>
  BY DEF ConsumeHold, world, SettlementInv
<1>2. task[j] # NoTask /\ deaths' \in 0..Deaths
  BY <1>1 DEF NoTask, TypeOK
<1>3. PICK todo \in SUBSET Orders, o \in Orders, S \in SUBSET Products :
         /\ todo = task[j].todo /\ o = Oldest(todo) /\ S = task[j].holds
         /\ order[o] # "NONE"
  BY <1>2, CurrentPayment
<1>4. provider[o] = "approved" /\ S \subseteq LineOf(o) /\ RestConsumed(o, S)
  BY <1>1, <1>2, <1>3 DEF TaskHolds
<1>5. PICK p \in S :
         \/ /\ onHand' = Consumed(o, {p}, onHand)
            /\ reserved' = Consumed(o, {p}, reserved)
            /\ hold' = Marked(o, {p})
            /\ Goes(j, IF S = {p} THEN "settling" ELSE "consuming", todo, S \ {p}, "APPROVED")
         \/ /\ task' = [task EXCEPT ![j] = NoTask]
            /\ UNCHANGED <<onHand, reserved, hold>>
  BY <1>3 DEF ConsumeHold, Goes
<1>6. CASE task' = [task EXCEPT ![j] = NoTask] /\ UNCHANGED <<onHand, reserved, hold>>
  BY <1>1, <1>2, <1>6, DropKeeps
<1>7. CASE /\ onHand' = Consumed(o, {p}, onHand)
           /\ reserved' = Consumed(o, {p}, reserved)
           /\ hold' = Marked(o, {p})
           /\ Goes(j, IF S = {p} THEN "settling" ELSE "consuming", todo, S \ {p}, "APPROVED")
  <2>1. {p} \in SUBSET Products /\ S \ {p} \in SUBSET Products
    OBVIOUS
  <2>2. /\ hold' \in [Orders -> [Products -> HoldStatus]]
        /\ \A q \in Orders, r \in Products :
              hold'[q][r] = IF q = o /\ r \in {p} THEN "CONSUMED" ELSE hold[q][r]
    BY <1>1, <1>7, <2>1, MarkedLines
  <2>3. /\ onHand' \in [Products -> Nat] /\ reserved' \in [Products -> Nat]
        /\ \A r \in Products : reserved'[r] <= onHand'[r]
    BY <1>1, <1>7, <2>1, ConsumedCounters
  <2>4. PICK at \in Stages : at = IF S = {p} THEN "settling" ELSE "consuming"
    BY DEF Stages
  <2>5. Goes(j, at, todo, S \ {p}, "APPROVED")
    BY <1>7, <2>4
  <2>6. /\ S \ {p} \subseteq LineOf(o) /\ RestConsumed(o, S \ {p})'
        /\ at = "settling" => RestConsumed(o, {})'
    BY <1>4, <2>2, <2>4 DEF RestConsumed, LineOf
  <2>7. PICK rest \in SUBSET Products : rest = S \ {p}
    BY <2>1
  <2>8. /\ Goes(j, at, todo, rest, "APPROVED") /\ rest \subseteq LineOf(o)
        /\ at = "consuming" => RestConsumed(o, rest)'
    BY <2>5, <2>6, <2>7
  <2>9. /\ task' \in [Jobs -> TaskOK] /\ \A i \in Jobs \ {j} : task'[i] = task[i]
        /\ TaskHolds(j)'
    <3>1. "APPROVED" \in Verdicts /\ at \notin {"approved"} /\ provider'[o] = "approved"
      BY <1>1, <1>4, <2>4 DEF Verdicts
    <3>2. \A q \in Orders : order[q] # "NONE" => order'[q] # "NONE"
      BY <1>1
    <3> QED
      BY <1>2, <1>3, <2>4, <2>6, <2>8, <3>1, <3>2, TaskStaysOn
  <2>10. TypeOK' /\ Onward /\ OrdersHold'
    <3>1. TypeOK'
      BY <1>1, <2>2, <2>3, <2>9 DEF TypeOK
    <3>2. Onward
      BY <1>1, <2>2 DEF Onward
    <3>3. OrdersHold'
      BY <1>1, <1>3, <2>2 DEF OrdersHold, LineOf
    <3> QED
      BY <3>1, <3>2, <3>3
  <2>11. ASSUME NEW v \in Webhooks PROVE HookHolds(v)'
    BY <1>1, <2>10, HookKeeps DEF SettlementInv
  <2>12. ASSUME NEW i \in Jobs PROVE TaskHolds(i)'
    BY <1>1, <2>9, <2>10, TaskKeeps DEF SettlementInv
  <2>13. ConsumedOnlyIfApproved' /\ PaidMeansConsumed'
    BY <1>1, <1>4, <2>2
       DEF SettlementInv, ConsumedOnlyIfApproved, PaidMeansConsumed, LineOf
  <2> QED
    BY <2>9, <2>10, <2>11, <2>12, <2>13 DEF SettlementInv
<1> QED
  BY <1>5, <1>6, <1>7

(* The payment is settled if it still is PENDING, the order in any case.   *)
LEMMA TransitionKeeps ==
    ASSUME SettlementInv, NEW j \in Jobs, TransitionPaymentStatus(j)
    PROVE  SettlementInv'
<1>1. /\ TypeOK /\ OrdersHold /\ TaskHolds(j) /\ task[j].at = "settling"
      /\ UNCHANGED <<onHand, reserved, listed, hold, events, outbox, provider, age, deaths, hook>>
  BY DEF TransitionPaymentStatus, world, SettlementInv
<1>2. task[j] # NoTask /\ deaths' \in 0..Deaths
  BY <1>1 DEF NoTask, TypeOK
<1>3. PICK todo \in SUBSET Orders, o \in Orders, verdict \in Verdicts :
         /\ todo = task[j].todo /\ o = Oldest(todo) /\ verdict = task[j].verdict
         /\ order[o] # "NONE"
  BY <1>2, CurrentPayment
<1>4. /\ verdict # "NONE"
      /\ verdict = "APPROVED" => provider[o] = "approved" /\ RestConsumed(o, {})
  BY <1>1, <1>2, <1>3 DEF TaskHolds
<1>5. /\ ~Locked(o) /\ payment' = Transitioned(o, verdict)
      /\ order' = [order EXCEPT ![o] =
                      IF verdict = "APPROVED" THEN "PAID" ELSE OrderReading(verdict)]
      /\ Goes(j, "publishing", todo, {}, "NONE")
  BY <1>3 DEF TransitionPaymentStatus, Goes
<1>6. PICK status \in OrderStatus :
         /\ order' = [order EXCEPT ![o] = status]
         /\ status # "NONE" /\ (status = "PAID" => verdict = "APPROVED")
  BY <1>5 DEF OrderReading, OrderStatus
<1>7. /\ payment' \in [Orders -> PaymentStatus]
      /\ payment'[o] # "NONE"
      /\ \A q \in Orders \ {o} : payment'[q] = payment[q]
  <2>1. payment[o] # "NONE" /\ verdict \in PaymentStatus
    BY <1>1, <1>3 DEF OrdersHold, Verdicts, PaymentStatus
  <2> QED
    BY <1>1, <1>4, <1>5, <2>1 DEF Transitioned, TypeOK
<1>8. /\ order' \in [Orders -> OrderStatus] /\ order'[o] = status
      /\ \A q \in Orders \ {o} : order'[q] = order[q]
  BY <1>1, <1>6 DEF TypeOK
<1>9. /\ task' \in [Jobs -> TaskOK] /\ \A i \in Jobs \ {j} : task'[i] = task[i]
      /\ TaskHolds(j)'
  <2>1. "publishing" \in Stages /\ "NONE" \in Verdicts /\ {} \in SUBSET Products
    BY DEF Stages, Verdicts
  <2>2. \A q \in Orders : order[q] # "NONE" => order'[q] # "NONE"
    BY <1>6, <1>8
  <2> QED
    BY <1>2, <1>3, <1>5, <2>1, <2>2, TaskStaysOn
<1>10. TypeOK' /\ Onward /\ OrdersHold'
  <2>1. TypeOK'
    BY <1>1, <1>7, <1>8, <1>9 DEF TypeOK
  <2>2. Onward
    BY <1>1, <1>6, <1>8 DEF Onward
  <2>3. OrdersHold'
    BY <1>1, <1>3, <1>6, <1>7, <1>8 DEF OrdersHold, LineOf
  <2> QED
    BY <2>1, <2>2, <2>3
<1>11. ASSUME NEW v \in Webhooks PROVE HookHolds(v)'
  <2>1. ASSUME NEW q \in Orders, Locked(q) PROVE payment'[q] = payment[q]
    BY <1>5, <1>7, <2>1
  <2> QED
    BY <1>1, <1>10, <2>1, HookKeeps DEF SettlementInv
<1>12. ASSUME NEW i \in Jobs PROVE TaskHolds(i)'
  BY <1>1, <1>9, <1>10, TaskKeeps DEF SettlementInv
<1>13. ConsumedOnlyIfApproved' /\ PaidMeansConsumed'
  <2>1. /\ status = "PAID" => provider[o] = "approved"
        /\ status = "PAID" => \A p \in LineOf(o) : hold[o][p] = "CONSUMED"
    BY <1>4, <1>6 DEF RestConsumed
  <2> QED
    BY <1>1, <1>8, <2>1 DEF SettlementInv, ConsumedOnlyIfApproved, PaidMeansConsumed, LineOf
<1> QED
  BY <1>9, <1>10, <1>11, <1>12, <1>13 DEF SettlementInv

LEMMA OutboxKeeps ==
    ASSUME SettlementInv, NEW j \in Jobs, WriteOutboxEvent(j)
    PROVE  SettlementInv'
<1> USE DEF SettlementInv
<1>1. /\ TypeOK /\ task[j].at = "publishing" /\ NextPayment(j)
      /\ outbox' = [outbox EXCEPT ![Oldest(task[j].todo)] = @ + 1]
      /\ UNCHANGED <<onHand, reserved, listed, hold, order, payment, events,
                     provider, age, deaths, hook>>
  BY DEF WriteOutboxEvent, world
<1>2. task[j] # NoTask
  BY <1>1 DEF NoTask
<1>3. /\ task' \in [Jobs -> TaskOK] /\ \A i \in Jobs \ {j} : task'[i] = task[i]
      /\ TaskHolds(j)'
  BY <1>1, <1>2, NextPaymentKeeps
<1>4. TypeOK' /\ Onward /\ OrdersHold'
  <2>1. PICK o \in Orders : o = Oldest(task[j].todo)
    BY <1>2, CurrentPayment
  <2>2. outbox' \in [Orders -> Nat]
    BY <1>1, <2>1 DEF TypeOK
  <2>3. TypeOK'
    BY <1>1, <1>3, <2>2 DEF TypeOK
  <2> QED
    BY <1>1, <2>3 DEF Onward, OrdersHold, LineOf
<1>5. ASSUME NEW v \in Webhooks PROVE HookHolds(v)'
  BY <1>1, <1>4, HookKeeps
<1>6. ASSUME NEW i \in Jobs PROVE TaskHolds(i)'
  BY <1>1, <1>3, <1>4, TaskKeeps
<1>7. ConsumedOnlyIfApproved' /\ PaidMeansConsumed'
  BY <1>1 DEF ConsumedOnlyIfApproved, PaidMeansConsumed, LineOf
<1> QED
  BY <1>4, <1>5, <1>6, <1>7

LEMMA JobDiesKeeps ==
    ASSUME SettlementInv, NEW j \in Jobs, JobDies(j)
    PROVE  SettlementInv'
<1>1. /\ task' = [task EXCEPT ![j] = NoTask] /\ deaths' \in 0..Deaths
      /\ UNCHANGED <<onHand, reserved, listed, hold, order, payment, events, outbox,
                     provider, age, hook>>
  BY LimitsAssumption DEF JobDies, tables, SettlementInv, TypeOK
<1> QED
  BY <1>1, DropKeeps

-----------------------------------------------------------------------------
LEMMA SettlementStep == SettlementInv /\ [Next]_vars => SettlementInv'
<1> SUFFICES ASSUME SettlementInv, [Next]_vars PROVE SettlementInv'
  OBVIOUS
<1>1. ASSUME NEW o \in Orders, PlaceOrder(o) \/ ProviderDecides(o) \/ Ages(o)
      PROVE  SettlementInv'
  BY <1>1, PlacingKeeps, WorldKeeps
<1>2. ASSUME NEW p \in Products, DelistProduct(p) PROVE SettlementInv'
  BY <1>2, WorldKeeps
<1>3. ASSUME NEW w \in Webhooks, Webhook(w) PROVE SettlementInv'
  BY <1>3, IgnoreKeeps, TerminalKeeps, BeginKeeps, ApprovedKeeps, RollbackKeeps DEF Webhook
<1>4. ASSUME NEW j \in Jobs, JobStep(j) PROVE SettlementInv'
  BY <1>4, SelectKeeps, QueryKeeps, ReadHoldsKeeps, ConsumeKeeps, TransitionKeeps, OutboxKeeps
     DEF JobStep
<1>5. ASSUME NEW j \in Jobs, QueryFails(j) \/ JobDies(j) PROVE SettlementInv'
  BY <1>5, QueryKeeps, JobDiesKeeps
<1>6. CASE UNCHANGED vars
  <2>1. UNCHANGED <<onHand, reserved, listed, hold, order, payment, events, outbox,
                    provider, age, deaths, hook, task>>
    BY <1>6 DEF vars, tables, world
  <2>2. TypeOK' /\ Onward /\ OrdersHold'
    BY <2>1 DEF SettlementInv, TypeOK, Onward, OrdersHold, LineOf
  <2>3. ASSUME NEW v \in Webhooks PROVE HookHolds(v)'
    BY <2>1, <2>2, HookKeeps DEF SettlementInv
  <2>4. ASSUME NEW i \in Jobs PROVE TaskHolds(i)'
    BY <2>1, <2>2, TaskKeeps DEF SettlementInv
  <2>5. ConsumedOnlyIfApproved' /\ PaidMeansConsumed'
    BY <2>1 DEF SettlementInv, ConsumedOnlyIfApproved, PaidMeansConsumed, LineOf
  <2> QED
    BY <2>2, <2>3, <2>4, <2>5 DEF SettlementInv
<1> QED
  BY <1>1, <1>2, <1>3, <1>4, <1>5, <1>6 DEF Next

(* Whatever webhooks and jobs of however many replicas do in whatever      *)
(* order, and wherever they die, what they carry between their             *)
(* transactions is still true when they use it.                            *)
THEOREM SettlementInvariant == Spec => []SettlementInv
<1> QED
  BY SettlementStarts, SettlementStep, PTL DEF Spec

(* The tables keep their types; stock_reserved never exceeds the stock on  *)
(* hand and neither becomes negative (the CHECKs of the products table).   *)
THEOREM SettlementTyped == Spec => []TypeOK
<1>1. SettlementInv => TypeOK
  BY DEF SettlementInv
<1> QED
  BY <1>1, SettlementInvariant, PTL

(* Goods leave the shop only for money.                                    *)
THEOREM GoodsOnlyForMoney == Spec => []ConsumedOnlyIfApproved
<1>1. SettlementInv => ConsumedOnlyIfApproved
  BY DEF SettlementInv
<1> QED
  BY <1>1, SettlementInvariant, PTL

(* A PAID order has all its reservations consumed.                         *)
THEOREM PaidOrdersAreServed == Spec => []PaidMeansConsumed
<1>1. SettlementInv => PaidMeansConsumed
  BY DEF SettlementInv
<1> QED
  BY <1>1, SettlementInvariant, PTL

-----------------------------------------------------------------------------
(* A step leaves the payments alone that are settled.                      *)
SettledStay == \A o \in Orders : payment[o] \in Terminal => payment'[o] = payment[o]

LEMMA SettledStayStep == SettlementInv /\ [Next]_vars => SettledStay
<1> SUFFICES ASSUME SettlementInv, [Next]_vars PROVE SettledStay
  OBVIOUS
<1>1. TypeOK /\ OrdersHold
  BY DEF SettlementInv
<1>2. \A o \in Orders : payment[o] \in Terminal => payment[o] # "PENDING" /\ order[o] # "NONE"
  BY <1>1 DEF Terminal, OrdersHold
<1>3. ASSUME NEW o \in Orders, PlaceOrder(o) PROVE SettledStay
  BY <1>1, <1>2, <1>3 DEF PlaceOrder, SettledStay, TypeOK
<1>4. ASSUME NEW o \in Orders, ProviderDecides(o) \/ Ages(o) PROVE SettledStay
  BY <1>4 DEF ProviderDecides, Ages, tables, SettledStay
<1>5. ASSUME NEW p \in Products, DelistProduct(p) PROVE SettledStay
  BY <1>5 DEF DelistProduct, SettledStay
<1>6. ASSUME NEW w \in Webhooks, Webhook(w) PROVE SettledStay
  <2>1. ASSUME NEW o \in Orders, NEW e \in EventIds, NEW s \in Sent(o), ProcessTerminal(w, o, e, s)
        PROVE  SettledStay
    BY <1>1, <1>2, <2>1 DEF ProcessTerminal, SettledStay, TypeOK
  <2>2. ASSUME NEW o \in Orders, NEW e \in EventIds, NEW s \in Sent(o),
               IgnoreEvent(w, o, e, s) \/ BeginApproved(w, o, e, s)
        PROVE  SettledStay
    BY <2>2 DEF IgnoreEvent, BeginApproved, tables, SettledStay
  <2>3. ASSUME ProcessApproved(w) PROVE SettledStay
    <3>1. PICK o \in Orders : o = hook[w].order
      BY <1>1, <2>3, HookFields DEF ProcessApproved, TypeOK
    <3>2. payment[o] = "PENDING" /\ payment' = [payment EXCEPT ![o] = "APPROVED"]
      BY <2>3, <3>1 DEF ProcessApproved, SettlementInv, HookHolds
    <3> QED
      BY <1>1, <1>2, <3>2 DEF SettledStay, TypeOK
  <2>4. ASSUME RefuseRefund(w) \/ WebhookDies(w) PROVE SettledStay
    BY <2>4 DEF RefuseRefund, WebhookDies, tables, SettledStay
  <2> QED
    BY <1>6, <2>1, <2>2, <2>3, <2>4 DEF Webhook
<1>7. ASSUME NEW j \in Jobs, TransitionPaymentStatus(j) PROVE SettledStay
  BY <1>1, <1>2, <1>7 DEF TransitionPaymentStatus, Transitioned, SettledStay, TypeOK
<1>8. ASSUME NEW j \in Jobs,
             \/ SelectBatch(j) \/ QueryAnswered(j) \/ ReadHolds(j)
             \/ QueryFails(j) \/ JobDies(j)
      PROVE  SettledStay
  BY <1>8 DEF SelectBatch, QueryAnswered, ReadHolds, QueryFails, JobDies, tables, SettledStay
<1>9. ASSUME NEW j \in Jobs, ConsumeHold(j) \/ WriteOutboxEvent(j) PROVE SettledStay
  BY <1>9 DEF ConsumeHold, WriteOutboxEvent, SettledStay
<1>10. CASE UNCHANGED vars
  BY <1>10 DEF vars, tables, SettledStay
<1> QED
  BY <1>3, <1>4, <1>5, <1>6, <1>7, <1>8, <1>9, <1>10 DEF Next, JobStep

(* A settled payment is final, although every webhook and every job acts   *)
(* on a status it has read some transactions ago.                          *)
THEOREM SettledPaymentsAreFinal == Spec => PaymentIsFinal
<1>1. SettlementInv /\ [Next]_vars => [SettledStay]_vars
  BY SettledStayStep
<1>2. Spec => [][SettledStay]_vars
  BY <1>1, SettlementInvariant, PTL DEF Spec
<1> QED
  BY <1>2 DEF PaymentIsFinal, SettledStay

=============================================================================
