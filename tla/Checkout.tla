------------------------------ MODULE Checkout ------------------------------
(***************************************************************************)
(* Checkout (src/modules/checkout) beside the cart, the reaper and the     *)
(* logouts of CartReservation.                                             *)
(*                                                                         *)
(* A checkout reads the cart, waits for the payment provider, and only     *)
(* then opens the transaction that places the order.  What it read may be  *)
(* minutes old by then, and inside the transaction it reads the ACTIVE     *)
(* reservations without locking them before it updates them by id.         *)
(***************************************************************************)
EXTENDS CartReservation

CONSTANTS
    Buyers,            \* checkout requests that may be in flight together
    OrderKeys          \* Idempotency-Key values of the checkouts

VARIABLES
    order,             \* the order of each cart (orders.cart_id is UNIQUE)
    receipts,          \* idempotency_records of scope checkout:user
    buyer              \* where each checkout request stands

purchase == <<order, receipts, buyer>>
shop == <<vars, purchase>>

-----------------------------------------------------------------------------
Lines == [Products -> Nat]

NoOrder == [placed |-> FALSE]
Order == [placed: {TRUE}, key: OrderKeys, lines: Lines]

(* lines: the cart as it was validated; open: the products whose           *)
(* reservation the transaction has read as ACTIVE.                         *)
Away == [at |-> "away"]
Buyer == [at: {"validated", "charged", "ordering"}, cart: Carts, key: OrderKeys,
          lines: Lines, open: SUBSET Products]

CheckoutTypeOK ==
    /\ TypeOK
    /\ order \in [Carts -> Order \union {NoOrder}]
    /\ receipts \subseteq Carts \X OrderKeys
    /\ buyer \in [Buyers -> Buyer \union {Away}]

Leaves(b) == buyer' = [buyer EXCEPT ![b] = Away]

(* UNIQUE(orders.cart_id): the lookup inside the transaction sees a        *)
(* committed order, the index refuses one that commits in between.         *)
OrderExistsByKey(c, k) ==       \* mutant: an order is looked for by its key
    order[c].placed /\ order[c].key = k
OrderExists(c, k) == order[c].placed

(* payments.idempotency_key is UNIQUE over all orders.                     *)
PaymentKeyTaken(k) == \E c \in Carts : order[c].placed /\ order[c].key = k

(* The reservations of "open" are updated by id, to a status and no expiry *)
Converted(c, open) ==
    [hold EXCEPT ![c] = [p \in Products |->
        IF p \in open
        THEN [@[p] EXCEPT !.status = "CHECKOUT_PENDING", !.expiry = "NEVER"] ELSE @[p]]]

CheckoutInit ==
    /\ Init
    /\ order = [c \in Carts |-> NoOrder]
    /\ receipts = {}
    /\ buyer = [b \in Buyers |-> Away]

-----------------------------------------------------------------------------
(* The request reads the session (which may have expired, but not been     *)
(* revoked), the cart, its lines and the products, and asks that every     *)
(* line have an ACTIVE reservation and a listed product.  A key already    *)
(* recorded is answered from the record and changes nothing.               *)
BeginCheckout(b) ==
    \E c \in Carts, k \in OrderKeys :
        /\ buyer[b] = Away
        /\ session[c] # "REVOKED"
        /\ \E p \in Products : line[c][p] > 0
        /\ \A p \in Products :
              line[c][p] > 0 => hold[c][p].status = "ACTIVE" /\ listed[p]
        /\ <<c, k>> \notin receipts
        /\ buyer' = [buyer EXCEPT ![b] =
              [at |-> "validated", cart |-> c, key |-> k, lines |-> line[c], open |-> {}]]
        /\ UNCHANGED <<vars, order, receipts>>

(* provider.createPayment answers; its payment is never cancelled.         *)
ProviderAnswers(b) ==
    /\ buyer[b].at = "validated"
    /\ buyer' = [buyer EXCEPT ![b].at = "charged"]
    /\ UNCHANGED <<vars, order, receipts>>

(* The provider fails, the handler dies, or the transaction is aborted.    *)
CheckoutFailsConverted(b) ==    \* mutant: the conversion is not rolled back
    /\ buyer[b] # Away
    /\ hold' = IF buyer[b].at = "ordering" THEN Converted(buyer[b].cart, buyer[b].open) ELSE hold
    /\ Leaves(b)
    /\ UNCHANGED <<reserved, listed, cart, session, line, saved, pc, job, seen, rejected>>
    /\ UNCHANGED <<order, receipts>>
CheckoutFails(b) ==
    /\ buyer[b] # Away
    /\ Leaves(b)
    /\ UNCHANGED <<vars, order, receipts>>

(* The transaction inserts the order and its payment, waiting for another  *)
(* one that is inserting the same cart or key, then reads the ACTIVE rows. *)
OpenOrder(b) ==
    LET c == buyer[b].cart
        k == buyer[b].key
    IN
    /\ buyer[b].at = "charged"
    /\ IF <<c, k>> \in receipts \/ OrderExists(c, k) \/ PaymentKeyTaken(k)
       THEN Leaves(b)
       ELSE /\ \A a \in Buyers :
                   buyer[a].at = "ordering" => buyer[a].cart # c /\ buyer[a].key # k
            /\ buyer' = [buyer EXCEPT
                  ![b].at = "ordering",
                  ![b].open = {p \in Products : hold[c][p].status = "ACTIVE"}]
    /\ UNCHANGED <<vars, order, receipts>>

(* What was read as ACTIVE becomes CHECKOUT_PENDING, whatever it is by     *)
(* now, the record is saved, and the transaction commits.                  *)
PlaceOrderUnrecorded(b) ==      \* mutant: the idempotency record is not saved
    LET c == buyer[b].cart IN
    /\ buyer[b].at = "ordering"
    /\ hold' = Converted(c, buyer[b].open)
    /\ order' = [order EXCEPT ![c] =
                    [placed |-> TRUE, key |-> buyer[b].key, lines |-> buyer[b].lines]]
    /\ Leaves(b)
    /\ UNCHANGED <<reserved, listed, cart, session, line, saved, pc, job, seen, rejected, receipts>>

PlaceOrder(b) ==
    LET c == buyer[b].cart
        k == buyer[b].key
    IN
    /\ buyer[b].at = "ordering"
    /\ hold' = Converted(c, buyer[b].open)
    /\ order' = [order EXCEPT ![c] = [placed |-> TRUE, key |-> k, lines |-> buyer[b].lines]]
    /\ receipts' = receipts \union {<<c, k>>}
    /\ Leaves(b)
    /\ UNCHANGED <<reserved, listed, cart, session, line, saved, pc, job, seen, rejected>>

-----------------------------------------------------------------------------
Purchase(b) ==
    \/ BeginCheckout(b) \/ ProviderAnswers(b) \/ CheckoutFails(b)
    \/ OpenOrder(b) \/ PlaceOrder(b)

CheckoutNext ==
    \/ Next /\ UNCHANGED purchase
    \/ \E b \in Buyers : Purchase(b)

CheckoutSpec == CheckoutInit /\ [][CheckoutNext]_shop

-----------------------------------------------------------------------------
(* Properties.                                                             *)

(* However many checkouts of a cart race, with one key or several, the     *)
(* first order placed is the only one and is never overwritten.            *)
OrderNeverReplaced ==
    [][\A c \in Carts : order[c].placed => order'[c] = order[c]]_shop

(* A key is recorded exactly when its order was placed: a retry after a    *)
(* crash at any point finds both the order and its answer, or neither.     *)
ReceiptsMatchOrders ==
    \A c \in Carts, k \in OrderKeys :
        <<c, k>> \in receipts <=> order[c].placed /\ order[c].key = k

(* No reservation waits for a payment without an order behind it: a        *)
(* checkout that fails half-way leaves its units to the reaper.            *)
PendingHoldHasOrder ==
    \A c \in Carts, p \in Products :
        hold[c][p].status = "CHECKOUT_PENDING" => order[c].placed

(* While an order waits for its payment the reaper, "set" and "add" cannot *)
(* touch its reservations, not even with what they read before the order   *)
(* was placed; only a release that read them as ACTIVE still can.          *)
PendingHoldsFrozen ==
    [][\A c \in Carts, p \in Products :
          hold[c][p].status = "CHECKOUT_PENDING" =>
              hold'[c][p] \in {hold[c][p], [hold[c][p] EXCEPT !.status = "RELEASED"]}]_shop

(* The transaction is documented to validate that the reservations are     *)
(* ACTIVE before it converts them: an order is placed only when every line *)
(* of it is held, in the quantity the customer is charged for.             *)
OrderIsHeld ==
    [][\A c \in Carts : ~order[c].placed /\ order'[c].placed =>
          \A p \in Products : order'[c].lines[p] > 0 =>
              /\ hold[c][p].status = "ACTIVE"
              /\ hold'[c][p].quantity = order'[c].lines[p]]_shop

=============================================================================
