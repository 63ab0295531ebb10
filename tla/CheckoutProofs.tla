--------------------------- MODULE CheckoutProofs ---------------------------
(***************************************************************************)
(* Proofs about Checkout: any number of carts, checkouts and idempotency   *)
(* keys beside any number of cart requests, the reaper and the logouts.    *)
(***************************************************************************)
EXTENDS Checkout, CartReservationProofs

(* The tables and requests of the checkout.                                *)
PurchaseTypes ==
    /\ order \in [Carts -> Order \union {NoOrder}]
    /\ receipts \subseteq Carts \X OrderKeys
    /\ buyer \in [Buyers -> Buyer \union {Away}]

(* A transaction that has inserted its order keeps the cart and the key to *)
(* itself until it ends, and the rows it is to convert exist.              *)
OrdersExclusive ==
    \A b \in Buyers :
        buyer[b].at = "ordering" =>
            /\ ~order[buyer[b].cart].placed
            /\ \A p \in buyer[b].open : hold[buyer[b].cart][p].status # "NONE"
            /\ \A a \in Buyers \ {b} :
                  buyer[a].at = "ordering" =>
                      buyer[a].cart # buyer[b].cart /\ buyer[a].key # buyer[b].key

CheckoutInv ==
    /\ CartInv
    /\ PurchaseTypes
    /\ OrdersExclusive
    /\ ReceiptsMatchOrders
    /\ PendingHoldHasOrder

-----------------------------------------------------------------------------
(* What a step of the cart does to the reservations.                       *)

(* A reservation that waits for a payment is left as it is, or released.   *)
RowFrozen(c, p) ==
    hold[c][p].status = "CHECKOUT_PENDING" =>
        hold'[c][p] \in {hold[c][p], [hold[c][p] EXCEPT !.status = "RELEASED"]}

(* No step of the cart makes a reservation wait, or deletes one.           *)
RowWrite(c, p) ==
    /\ RowFrozen(c, p)
    /\ hold'[c][p].status = "CHECKOUT_PENDING" => hold[c][p].status = "CHECKOUT_PENDING"
    /\ hold[c][p].status # "NONE" => hold'[c][p].status # "NONE"

LEMMA CartWrites ==
    ASSUME CartInv, [Next]_vars, NEW c \in Carts, NEW p \in Products
    PROVE  RowWrite(c, p)
<1>1. hold[c][p] \in Hold
  BY DEF CartInv, RowsInv, RowsOK
<1>2. CASE hold'[c][p] = hold[c][p]
  BY <1>2 DEF RowWrite, RowFrozen
<1>3. ASSUME NEW r \in Requests, Reserve(r), hold'[c][p] # hold[c][p]
      PROVE  RowWrite(c, p)
  <2> DEFINE j == job[r]
  <2>1. /\ line[j.cart][j.product] = 0
        /\ hold' = [hold EXCEPT ![j.cart][j.product] =
                      [status |-> "ACTIVE", quantity |-> j.quantity, expiry |-> "RUNNING"]]
    BY <1>3 DEF Reserve, Refuse, RollBack, rows
  <2>2. j.cart \in Carts /\ j.product \in Products
    BY <1>3 DEF Reserve, CartInv, HandlersInv, JobFitsPoint, KeyedJob
  <2>3. hold[j.cart][j.product].status = "NONE"
    BY <2>1, <2>2 DEF CartInv, RowsInv, LineHasHold
  <2>4. /\ j.cart = c /\ j.product = p
        /\ hold'[c][p].status = "ACTIVE"
    BY <1>3, <2>1, <2>2 DEF CartInv, RowsInv, RowsOK
  <2> QED
    BY <2>3, <2>4 DEF RowWrite, RowFrozen
<1>4. ASSUME NEW r \in Requests, AdjustReservation(r), hold'[c][p] # hold[c][p]
      PROVE  RowWrite(c, p)
  <2> DEFINE j == job[r]
  <2>1. /\ hold' = [hold EXCEPT ![j.cart][j.product] = Adjusted(r)]
        /\ HoldCheck(Adjusted(r))
    BY <1>4 DEF AdjustReservation, Refuse, RollBack, rows
  <2>2. j.cart \in Carts /\ j.product \in Products
    BY <1>4 DEF AdjustReservation, CartInv, HandlersInv, JobFitsPoint, KeyedJob
  <2>3. /\ j.cart = c /\ j.product = p
        /\ hold'[c][p] = Adjusted(r)
    BY <1>4, <2>1, <2>2 DEF CartInv, RowsInv, RowsOK
  <2>4. Adjusted(r).status = hold[c][p].status /\ Adjusted(r).expiry = "RUNNING"
    BY <1>1, <2>3 DEF Adjusted, Hold
  <2>5. hold[c][p].status # "CHECKOUT_PENDING"
    BY <2>1, <2>4 DEF HoldCheck
  <2> QED
    BY <2>3, <2>4, <2>5 DEF RowWrite, RowFrozen
<1>5. ASSUME NEW r \in Requests, ReleaseAllForCart(r)
      PROVE  RowWrite(c, p)
  <2>1. job[r].cart \in Carts
    BY <1>5 DEF ReleaseAllForCart, CartInv, HandlersInv, JobFitsPoint, SessionJob
  <2>2. hold'[c][p] \in {hold[c][p], [hold[c][p] EXCEPT !.status = "RELEASED"]}
    BY <1>5, <2>1 DEF ReleaseAllForCart, CartInv, RowsInv, RowsOK
  <2> QED
    BY <1>1, <2>2 DEF RowWrite, RowFrozen, Hold
<1>6. ASSUME ExpireReservations
      PROVE  RowWrite(c, p)
  <2>1. PICK batch \in SUBSET DueHolds :
           hold'[c][p] = IF <<c, p>> \in batch
                         THEN [hold[c][p] EXCEPT !.status = "EXPIRED"] ELSE hold[c][p]
    BY <1>6 DEF ExpireReservations, ExpireBatch
  <2>2. <<c, p>> \in batch => hold[c][p].status = "ACTIVE"
    BY DEF DueHolds
  <2> QED
    BY <1>1, <2>1, <2>2 DEF RowWrite, RowFrozen, Hold
<1>7. ASSUME NEW d \in Carts, NEW q \in Products, HoldFallsDue(d, q), hold'[c][p] # hold[c][p]
      PROVE  RowWrite(c, p)
  <2>1. /\ hold' = [hold EXCEPT ![d][q] = [@ EXCEPT !.expiry = "DUE"]]
        /\ hold[d][q].status = "ACTIVE"
    BY <1>7 DEF HoldFallsDue
  <2>2. d = c /\ q = p /\ hold'[c][p] = [hold[c][p] EXCEPT !.expiry = "DUE"]
    BY <1>7, <2>1 DEF CartInv, RowsInv, RowsOK
  <2> QED
    BY <1>1, <2>1, <2>2 DEF RowWrite, RowFrozen, Hold
<1>8. \/ UNCHANGED hold
      \/ \E r \in Requests : Reserve(r) \/ AdjustReservation(r) \/ ReleaseAllForCart(r)
      \/ ExpireReservations
      \/ \E d \in Carts, q \in Products : HoldFallsDue(d, q)
  BY ZenonT(60) DEF Next, Handler, AdmitKeyed, AdmitSession, Abort, Refuse, RollBack, GetCart,
     AddCartItem, FindLine, LockLine, RaiseLineAlone, SetCartItemQuantity,
     RemoveCartItem, ReadActiveHolds, CloseCart, RevokeSession, SessionExpires,
     DelistProduct, rows, vars
<1> QED
  BY <1>2, <1>3, <1>4, <1>5, <1>6, <1>7, <1>8

-----------------------------------------------------------------------------
(* What a step of a checkout does.                                         *)

(* A checkout that is not away has a cart, a key and what it has read.     *)
LEMMA BuyerFields ==
    ASSUME NEW q \in Buyer \union {Away}
    PROVE  \/ q = Away /\ q.at = "away"
           \/ /\ q # Away
              /\ q.at \in {"validated", "charged", "ordering"}
              /\ q.cart \in Carts /\ q.key \in OrderKeys
              /\ q.lines \in Lines /\ q.open \in SUBSET Products
BY DEF Buyer, Away

(* One checkout moves to the given state, the others stay.                 *)
Moves(b, q) ==
    /\ buyer' \in [Buyers -> Buyer \union {Away}]
    /\ buyer'[b] = q
    /\ \A a \in Buyers \ {b} : buyer'[a] = buyer[a]

LEMMA Moving ==
    ASSUME PurchaseTypes, NEW b \in Buyers, NEW q \in Buyer \union {Away},
           buyer' = [buyer EXCEPT ![b] = q]
    PROVE  Moves(b, q)
BY DEF PurchaseTypes, Moves

(* A checkout that has not reached its transaction, or is out of it, takes *)
(* nothing from the others.                                                *)
LEMMA NotOrdering ==
    ASSUME CheckoutInv, NEW b \in Buyers, NEW q \in Buyer \union {Away}, Moves(b, q),
           q.at # "ordering", UNCHANGED <<vars, order, receipts>>
    PROVE  CheckoutInv'
<1>1. CartInv'
  BY StepPreserves DEF CheckoutInv
<1>2. UNCHANGED hold
  BY DEF vars, rows
<1>3. PurchaseTypes'
  BY DEF CheckoutInv, PurchaseTypes, Moves
<1>4. OrdersExclusive'
  <2> SUFFICES ASSUME NEW a \in Buyers, buyer'[a].at = "ordering"
               PROVE  /\ ~order'[buyer'[a].cart].placed
                      /\ \A p \in buyer'[a].open : hold'[buyer'[a].cart][p].status # "NONE"
                      /\ \A d \in Buyers \ {a} :
                            buyer'[d].at = "ordering" =>
                                buyer'[d].cart # buyer'[a].cart /\ buyer'[d].key # buyer'[a].key
    BY DEF OrdersExclusive
  <2>1. a # b /\ buyer'[a] = buyer[a] /\ buyer[a].at = "ordering"
    BY DEF Moves
  <2>2. \A d \in Buyers \ {a} : buyer'[d].at = "ordering" => buyer'[d] = buyer[d]
    BY DEF Moves
  <2> QED
    BY <1>2, <2>1, <2>2 DEF CheckoutInv, OrdersExclusive
<1>5. ReceiptsMatchOrders' /\ PendingHoldHasOrder'
  BY <1>2 DEF CheckoutInv, ReceiptsMatchOrders, PendingHoldHasOrder
<1> QED
  BY <1>1, <1>3, <1>4, <1>5 DEF CheckoutInv

LEMMA BeginCheckoutKeeps ==
    ASSUME CheckoutInv, NEW b \in Buyers, BeginCheckout(b)
    PROVE  CheckoutInv'
<1>1. PICK c \in Carts, k \in OrderKeys :
         /\ buyer' = [buyer EXCEPT ![b] =
               [at |-> "validated", cart |-> c, key |-> k, lines |-> line[c], open |-> {}]]
         /\ UNCHANGED <<vars, order, receipts>>
  BY DEF BeginCheckout
<1> DEFINE q == [at |-> "validated", cart |-> c, key |-> k, lines |-> line[c], open |-> {}]
<1>2. q \in Buyer /\ q.at = "validated"
  BY DEF Buyer, Lines, CheckoutInv, CartInv, RowsInv, RowsOK
<1>3. buyer' = [buyer EXCEPT ![b] = q]
  BY <1>1
<1> HIDE DEF q
<1>4. PICK x \in Buyer \union {Away} : x = q
  BY <1>2
<1>5. Moves(b, x)
  BY <1>3, <1>4, Moving DEF CheckoutInv
<1> QED
  BY <1>1, <1>2, <1>4, <1>5, NotOrdering

LEMMA ProviderAnswersKeeps ==
    ASSUME CheckoutInv, NEW b \in Buyers, ProviderAnswers(b)
    PROVE  CheckoutInv'
<1>1. /\ buyer[b].at = "validated"
      /\ buyer' = [buyer EXCEPT ![b].at = "charged"]
      /\ UNCHANGED <<vars, order, receipts>>
  BY DEF ProviderAnswers
<1>2. buyer[b] \in Buyer
  BY <1>1, BuyerFields DEF CheckoutInv, PurchaseTypes, Away
<1> DEFINE q == [buyer[b] EXCEPT !.at = "charged"]
<1>3. q \in Buyer /\ q.at = "charged"
  BY <1>2 DEF Buyer
<1>4. buyer' = [buyer EXCEPT ![b] = q]
  BY <1>1
<1> HIDE DEF q
<1>5. PICK x \in Buyer \union {Away} : x = q
  BY <1>3
<1>6. Moves(b, x)
  BY <1>4, <1>5, Moving DEF CheckoutInv
<1> QED
  BY <1>1, <1>3, <1>5, <1>6, NotOrdering

LEMMA LeavingKeeps ==
    ASSUME CheckoutInv, NEW b \in Buyers, Leaves(b), UNCHANGED <<vars, order, receipts>>
    PROVE  CheckoutInv'
<1>1. Away \in Buyer \union {Away} /\ Away.at = "away"
  BY DEF Away
<1>2. Moves(b, Away)
  BY <1>1, Moving DEF Leaves, CheckoutInv
<1> QED
  BY <1>1, <1>2, NotOrdering

(* The transaction opens for a cart without an order, and beside no other  *)
(* transaction of the same cart or key.                                    *)
LEMMA OpenOrderKeeps ==
    ASSUME CheckoutInv, NEW b \in Buyers, OpenOrder(b)
    PROVE  CheckoutInv'
<1>1. buyer[b].at = "charged" /\ UNCHANGED <<vars, order, receipts>>
  BY DEF OpenOrder
<1>2. buyer[b] \in Buyer /\ buyer[b].cart \in Carts /\ buyer[b].key \in OrderKeys
  BY <1>1, BuyerFields DEF CheckoutInv, PurchaseTypes, Away
<1>3. CASE Leaves(b)
  BY <1>1, <1>3, LeavingKeeps
<1>4. CASE ~Leaves(b)
  <2> DEFINE open == {p \in Products : hold[buyer[b].cart][p].status = "ACTIVE"}
             q0 == [buyer[b] EXCEPT !.at = "ordering"]
             q == [q0 EXCEPT !.open = open]
  <2>1. /\ ~order[buyer[b].cart].placed
        /\ \A a \in Buyers :
              buyer[a].at = "ordering" =>
                  buyer[a].cart # buyer[b].cart /\ buyer[a].key # buyer[b].key
    BY <1>4 DEF OpenOrder, OrderExists
  <2>2. buyer' = [buyer EXCEPT ![b] = q]
    BY <1>4 DEF OpenOrder
  <2>3. q0 \in Buyer /\ q0.at = "ordering" /\ q0.cart = buyer[b].cart /\ q0.key = buyer[b].key
    BY <1>2 DEF Buyer
  <2>4. open \in SUBSET Products /\ \A p \in open : hold[buyer[b].cart][p].status # "NONE"
    OBVIOUS
  <2> HIDE DEF open, q0
  <2>5. /\ q \in Buyer /\ q.at = "ordering" /\ q.cart = buyer[b].cart /\ q.key = buyer[b].key
        /\ q.open = open
    BY <2>3, <2>4 DEF Buyer
  <2> HIDE DEF q
  <2>6. PICK x \in Buyer \union {Away} : x = q
    BY <2>5
  <2>7. Moves(b, x)
    BY <2>2, <2>6, Moving DEF CheckoutInv
  <2>8. CartInv' /\ UNCHANGED hold
    BY <1>1, StepPreserves DEF CheckoutInv, vars, rows
  <2>9. PurchaseTypes'
    BY <1>1, <2>7 DEF CheckoutInv, PurchaseTypes, Moves
  <2>10. OrdersExclusive'
    <3> SUFFICES ASSUME NEW a \in Buyers, buyer'[a].at = "ordering"
                 PROVE  /\ ~order'[buyer'[a].cart].placed
                        /\ \A p \in buyer'[a].open : hold'[buyer'[a].cart][p].status # "NONE"
                        /\ \A d \in Buyers \ {a} :
                              buyer'[d].at = "ordering" =>
                                  buyer'[d].cart # buyer'[a].cart /\ buyer'[d].key # buyer'[a].key
      BY DEF OrdersExclusive
    <3>1. \A d \in Buyers \ {b} : buyer'[d] = buyer[d]
      BY <2>7 DEF Moves
    <3>2. /\ buyer'[b].cart = buyer[b].cart /\ buyer'[b].key = buyer[b].key
          /\ buyer'[b].open = open
      BY <2>5, <2>6, <2>7 DEF Moves
    <3>3. CASE a = b
      BY <1>1, <2>1, <2>4, <2>8, <3>1, <3>2, <3>3
    <3>4. CASE a # b
      BY <1>1, <2>1, <2>8, <3>1, <3>2, <3>4 DEF CheckoutInv, OrdersExclusive
    <3> QED
      BY <3>3, <3>4
  <2>11. ReceiptsMatchOrders' /\ PendingHoldHasOrder'
    BY <1>1, <2>8 DEF CheckoutInv, ReceiptsMatchOrders, PendingHoldHasOrder
  <2> QED
    BY <2>8, <2>9, <2>10, <2>11 DEF CheckoutInv
<1> QED
  BY <1>3, <1>4

(* The rows that are converted exist, and stay reservations.               *)
LEMMA ConvertedRows ==
    ASSUME CartInv, NEW c \in Carts, NEW open \in SUBSET Products,
           hold' = Converted(c, open)
    PROVE  /\ hold' \in [Carts -> [Products -> Hold]]
           /\ \A d \in Carts, p \in Products :
                 IF d = c /\ p \in open
                 THEN hold'[d][p].status = "CHECKOUT_PENDING"
                 ELSE hold'[d][p] = hold[d][p]
<1>1. hold \in [Carts -> [Products -> Hold]]
  BY DEF CartInv, RowsInv, RowsOK
<1> DEFINE row(p) == [hold[c][p] EXCEPT !.status = "CHECKOUT_PENDING"]
           after(p) == [row(p) EXCEPT !.expiry = "NEVER"]
           cartRows == [p \in Products |-> IF p \in open THEN after(p) ELSE hold[c][p]]
<1>2. hold' = [hold EXCEPT ![c] = cartRows]
  BY <1>1 DEF Converted
<1>3. ASSUME NEW p \in Products PROVE row(p) \in Hold /\ row(p).status = "CHECKOUT_PENDING"
  <2>1. hold[c][p] \in Hold
    BY <1>1
  <2> QED
    BY <2>1 DEF Hold, HoldStatus
<1> HIDE DEF row
<1>4. ASSUME NEW p \in Products PROVE after(p) \in Hold /\ after(p).status = "CHECKOUT_PENDING"
  <2>1. row(p) \in Hold /\ row(p).status = "CHECKOUT_PENDING"
    BY <1>3
  <2> QED
    BY <2>1 DEF Hold
<1> HIDE DEF after
<1>5. cartRows \in [Products -> Hold]
  BY <1>1, <1>4
<1>6. \A p \in Products : cartRows[p] = IF p \in open THEN after(p) ELSE hold[c][p]
  OBVIOUS
<1> HIDE DEF cartRows
<1> QED
  BY <1>1, <1>2, <1>4, <1>5, <1>6

LEMMA PlaceOrderKeeps ==
    ASSUME CheckoutInv, NEW b \in Buyers, PlaceOrder(b)
    PROVE  CheckoutInv'
<1>1. PICK q \in Buyer : q = buyer[b]
  BY BuyerFields DEF PlaceOrder, CheckoutInv, PurchaseTypes, Away
<1>2. PICK c \in Carts, k \in OrderKeys, open \in SUBSET Products, lines \in Lines :
         c = q.cart /\ k = q.key /\ open = q.open /\ lines = q.lines
  BY DEF Buyer
<1> DEFINE new == [placed |-> TRUE, key |-> k, lines |-> lines]
<1>3. /\ buyer[b].at = "ordering"
      /\ hold' = Converted(c, open)
      /\ order' = [order EXCEPT ![c] = new]
      /\ receipts' = receipts \union {<<c, k>>}
      /\ Leaves(b)
      /\ UNCHANGED <<reserved, listed, cart, session, line, saved, pc, job, seen, rejected>>
  BY <1>1, <1>2 DEF PlaceOrder
<1>4. new \in Order /\ new.placed = TRUE /\ new.key = k
  BY DEF Order
<1> HIDE DEF new
<1>5. /\ ~order[c].placed
      /\ \A p \in open : hold[c][p].status # "NONE"
      /\ \A a \in Buyers \ {b} :
            buyer[a].at = "ordering" => buyer[a].cart # c /\ buyer[a].key # k
  BY <1>1, <1>2, <1>3 DEF CheckoutInv, OrdersExclusive
<1>6. Moves(b, Away)
  BY <1>3, Moving DEF Leaves, CheckoutInv
<1>7. /\ hold' \in [Carts -> [Products -> Hold]]
      /\ \A d \in Carts, p \in Products :
            IF d = c /\ p \in open
            THEN hold'[d][p].status = "CHECKOUT_PENDING"
            ELSE hold'[d][p] = hold[d][p]
  BY <1>3, ConvertedRows DEF CheckoutInv
<1>8. \A d \in Carts, p \in Products : hold'[d][p].status = "NONE" <=> hold[d][p].status = "NONE"
  BY <1>5, <1>7
<1>9. CartInv'
  <2>1. RowsInv'
    BY <1>3, <1>7, <1>8 DEF CheckoutInv, CartInv, RowsInv, RowsOK, LineHasHold
  <2>2. HandlersInv'
    BY <1>3, <1>8, HandlersUntouched DEF CheckoutInv, CartInv, HoldsKept
  <2> QED
    BY <2>1, <2>2 DEF CartInv
<1>10. /\ order' \in [Carts -> Order \union {NoOrder}]
       /\ order'[c] = new
       /\ \A d \in Carts \ {c} : order'[d] = order[d]
  BY <1>3, <1>4 DEF CheckoutInv, PurchaseTypes
<1>11. PurchaseTypes'
  BY <1>3, <1>6, <1>10 DEF CheckoutInv, PurchaseTypes, Moves
<1>12. OrdersExclusive'
  <2> SUFFICES ASSUME NEW a \in Buyers, buyer'[a].at = "ordering"
               PROVE  /\ ~order'[buyer'[a].cart].placed
                      /\ \A p \in buyer'[a].open : hold'[buyer'[a].cart][p].status # "NONE"
                      /\ \A d \in Buyers \ {a} :
                            buyer'[d].at = "ordering" =>
                                buyer'[d].cart # buyer'[a].cart /\ buyer'[d].key # buyer'[a].key
    BY DEF OrdersExclusive
  <2>1. a # b /\ buyer'[a] = buyer[a] /\ buyer[a].at = "ordering"
    BY <1>6 DEF Moves, Away
  <2>2. buyer[a].cart \in Carts /\ buyer[a].cart # c /\ buyer[a].open \in SUBSET Products
    BY <1>5, <2>1, BuyerFields DEF CheckoutInv, PurchaseTypes, Away
  <2>3. ~order'[buyer[a].cart].placed
    BY <1>10, <2>1, <2>2 DEF CheckoutInv, OrdersExclusive
  <2>4. \A p \in buyer[a].open : hold'[buyer[a].cart][p].status # "NONE"
    BY <1>8, <2>1, <2>2 DEF CheckoutInv, OrdersExclusive
  <2>5. \A d \in Buyers \ {a} : buyer'[d].at = "ordering" => buyer'[d] = buyer[d]
    BY <1>6 DEF Moves, Away
  <2> QED
    BY <2>1, <2>3, <2>4, <2>5 DEF CheckoutInv, OrdersExclusive
<1>13. ReceiptsMatchOrders'
  <2>1. \A l \in OrderKeys : <<c, l>> \notin receipts
    BY <1>5 DEF CheckoutInv, ReceiptsMatchOrders
  <2> QED
    BY <1>3, <1>4, <1>10, <2>1 DEF CheckoutInv, ReceiptsMatchOrders
<1>14. PendingHoldHasOrder'
  BY <1>4, <1>7, <1>10 DEF CheckoutInv, PendingHoldHasOrder
<1> QED
  BY <1>9, <1>11, <1>12, <1>13, <1>14 DEF CheckoutInv

(* A step of the cart beside the checkouts.                                *)
LEMMA CartStepKeeps ==
    ASSUME CheckoutInv, [Next]_vars, UNCHANGED purchase
    PROVE  CheckoutInv'
<1>1. CartInv' /\ UNCHANGED <<order, receipts, buyer>>
  BY StepPreserves DEF CheckoutInv, purchase
<1>2. \A c \in Carts, p \in Products : RowWrite(c, p)
  BY CartWrites DEF CheckoutInv
<1>3. PurchaseTypes' /\ ReceiptsMatchOrders'
  BY <1>1 DEF CheckoutInv, PurchaseTypes, ReceiptsMatchOrders
<1>4. PendingHoldHasOrder'
  BY <1>1, <1>2 DEF CheckoutInv, PendingHoldHasOrder, RowWrite
<1>5. OrdersExclusive'
  <2>1. ASSUME NEW b \in Buyers, buyer[b].at = "ordering", NEW p \in buyer[b].open
        PROVE  hold'[buyer[b].cart][p].status # "NONE"
    <3>1. buyer[b].cart \in Carts /\ p \in Products
      BY <2>1, BuyerFields DEF CheckoutInv, PurchaseTypes, Away
    <3> QED
      BY <1>2, <2>1, <3>1 DEF CheckoutInv, OrdersExclusive, RowWrite
  <2> QED
    BY <1>1, <2>1 DEF CheckoutInv, OrdersExclusive
<1> QED
  BY <1>1, <1>3, <1>4, <1>5 DEF CheckoutInv

-----------------------------------------------------------------------------
LEMMA CheckoutStarts == CheckoutInit => CheckoutInv
<1> SUFFICES ASSUME CheckoutInit PROVE CheckoutInv
  OBVIOUS
<1>1. CartInv
  BY InitEstablishes DEF CheckoutInit
<1>2. PurchaseTypes /\ OrdersExclusive
  BY DEF CheckoutInit, PurchaseTypes, OrdersExclusive, Away
<1>3. ReceiptsMatchOrders
  BY DEF CheckoutInit, ReceiptsMatchOrders, NoOrder
<1>4. PendingHoldHasOrder
  BY DEF CheckoutInit, Init, PendingHoldHasOrder, NoHold
<1> QED
  BY <1>1, <1>2, <1>3, <1>4 DEF CheckoutInv

LEMMA CheckoutStep == CheckoutInv /\ [CheckoutNext]_shop => CheckoutInv'
<1> SUFFICES ASSUME CheckoutInv, [CheckoutNext]_shop PROVE CheckoutInv'
  OBVIOUS
<1>1. ASSUME NEW b \in Buyers, Purchase(b) PROVE CheckoutInv'
  <2>1. ASSUME CheckoutFails(b) PROVE CheckoutInv'
    BY <2>1, LeavingKeeps DEF CheckoutFails
  <2> QED
    BY <1>1, <2>1, BeginCheckoutKeeps, ProviderAnswersKeeps, OpenOrderKeeps, PlaceOrderKeeps
       DEF Purchase
<1>2. CASE Next /\ UNCHANGED purchase
  BY <1>2, CartStepKeeps
<1>3. CASE UNCHANGED shop
  BY <1>3, CartStepKeeps DEF shop
<1> QED
  BY <1>1, <1>2, <1>3 DEF CheckoutNext

LEMMA CheckoutInvariant == CheckoutSpec => []CheckoutInv
BY CheckoutStarts, CheckoutStep, PTL DEF CheckoutSpec

(* The tables keep their types and their CHECKs with checkouts beside the  *)
(* cart: what a checkout converts is a reservation, and stays one.         *)
THEOREM CheckoutTyped == CheckoutSpec => []CheckoutTypeOK
<1>1. CheckoutInv => CheckoutTypeOK
  BY DEF CheckoutInv, PurchaseTypes, CheckoutTypeOK, CartInv, HandlersInv, RowsInv, TypeOK
<1> QED
  BY <1>1, CheckoutInvariant, PTL

(* A key is recorded exactly when its order was placed.                    *)
THEOREM ReceiptsAreOrders == CheckoutSpec => []ReceiptsMatchOrders
<1>1. CheckoutInv => ReceiptsMatchOrders
  BY DEF CheckoutInv
<1> QED
  BY <1>1, CheckoutInvariant, PTL

(* No reservation waits for a payment without an order behind it.          *)
THEOREM PendingHoldsAreOrdered == CheckoutSpec => []PendingHoldHasOrder
<1>1. CheckoutInv => PendingHoldHasOrder
  BY DEF CheckoutInv
<1> QED
  BY <1>1, CheckoutInvariant, PTL

(* The first order placed for a cart is the only one, however many         *)
(* checkouts of it race.                                                   *)
THEOREM OrdersAreFinal == CheckoutSpec => OrderNeverReplaced
<1> DEFINE Kept == \A c \in Carts : order[c].placed => order'[c] = order[c]
<1>1. CheckoutInv /\ [CheckoutNext]_shop => Kept
  <2> SUFFICES ASSUME CheckoutInv, [CheckoutNext]_shop PROVE Kept
    OBVIOUS
  <2>1. ASSUME NEW b \in Buyers, PlaceOrder(b) PROVE Kept
    <3>1. ~order[buyer[b].cart].placed
      BY <2>1 DEF PlaceOrder, CheckoutInv, OrdersExclusive
    <3> QED
      BY <2>1, <3>1 DEF PlaceOrder, CheckoutInv, PurchaseTypes
  <2>2. CASE UNCHANGED order
    BY <2>2
  <2> QED
    BY <2>1, <2>2 DEF CheckoutNext, Purchase, BeginCheckout, ProviderAnswers, CheckoutFails,
       OpenOrder, purchase, shop
<1> QED
  BY <1>1, CheckoutInvariant, PTL DEF CheckoutSpec, OrderNeverReplaced

(* While an order waits for its payment nothing but a release touches its  *)
(* reservations.                                                           *)
THEOREM PendingHoldsAreFrozen == CheckoutSpec => PendingHoldsFrozen
<1> DEFINE Frozen == \A c \in Carts, p \in Products : RowFrozen(c, p)
<1>1. CheckoutInv /\ [CheckoutNext]_shop => Frozen
  <2> SUFFICES ASSUME CheckoutInv, [CheckoutNext]_shop PROVE Frozen
    OBVIOUS
  <2>1. ASSUME NEW b \in Buyers, PlaceOrder(b) PROVE Frozen
    <3>1. PICK d \in Carts, open \in SUBSET Products : d = buyer[b].cart /\ open = buyer[b].open
      BY <2>1, BuyerFields DEF PlaceOrder, CheckoutInv, PurchaseTypes, Away
    <3>2. hold' = Converted(d, open) /\ ~order[d].placed
      BY <2>1, <3>1 DEF PlaceOrder, CheckoutInv, OrdersExclusive
    <3>3. ASSUME NEW c \in Carts, NEW p \in Products, hold[c][p].status = "CHECKOUT_PENDING"
          PROVE  hold'[c][p] = hold[c][p]
      <4>1. c # d
        BY <3>2, <3>3 DEF CheckoutInv, PendingHoldHasOrder
      <4> QED
        BY <3>2, <3>3, <4>1, ConvertedRows DEF CheckoutInv
    <3> QED
      BY <3>3 DEF RowFrozen
  <2>2. CASE [Next]_vars
    BY <2>2, CartWrites DEF CheckoutInv, RowWrite
  <2>3. \/ [Next]_vars
        \/ \E b \in Buyers : PlaceOrder(b)
    BY DEF CheckoutNext, Purchase, BeginCheckout, ProviderAnswers, CheckoutFails,
       OpenOrder, shop
  <2> QED
    BY <2>1, <2>2, <2>3
<1>2. CheckoutSpec => [][Frozen]_shop
  BY <1>1, CheckoutInvariant, PTL DEF CheckoutSpec
<1> QED
  BY <1>2 DEF PendingHoldsFrozen, RowFrozen

=============================================================================
