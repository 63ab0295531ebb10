-------------------------- MODULE CartReservation --------------------------
(***************************************************************************)
(* Server carts and stock reservations (src/modules/cart-reservation and   *)
(* the identity use cases that release a cart).                            *)
(*                                                                         *)
(* Several web requests, possibly of the same shopper, and the reservation *)
(* reaper work on one PostgreSQL database at READ COMMITTED.  A request    *)
(* reads rows without locking them and locks them later; its transaction   *)
(* is therefore two or three steps: the reads that fix what it believes    *)
(* (kept in "seen"), and the step from its first contended row lock to its *)
(* commit, which is atomic (no other transaction can touch the locked rows *)
(* until it ends) and acts on the rows as they are THEN.                   *)
(***************************************************************************)
EXTENDS Integers, FiniteSets, ShopTypes, Amounts

CONSTANTS
    Carts,        \* one cart per session (carts.session_id is UNIQUE)
    Products,
    Requests,     \* request handlers that may be in flight together
    Keys,         \* Idempotency-Key values the clients use
    MaxQuantity,  \* largest quantity one request asks for
    OnHand,       \* products.stock_on_hand, not changed by this module
    BatchSize,    \* REAPER_BATCH_SIZE
    Serialized    \* TRUE: at most one transaction in flight at a time

ASSUME QuantityAssumption == MaxQuantity \in Nat \ {0}
ASSUME StockAssumption == OnHand \in [Products -> Nat]
ASSUME BatchAssumption == BatchSize \in Nat \ {0}
ASSUME SerializedAssumption == Serialized \in BOOLEAN
ASSUME FinitenessAssumption == IsFiniteSet(Carts) /\ IsFiniteSet(Products)

VARIABLES
    reserved,     \* products.stock_reserved
    listed,       \* products.deleted_at IS NULL
    cart,         \* carts.status, "NONE" before the first item
    session,      \* sessions: LIVE, EXPIRED (expires_at passed), REVOKED
    line,         \* cart_items.quantity, 0 when the row does not exist
    hold,         \* stock_reservations: status, quantity, expires_at
    saved,        \* idempotency_records
    pc,           \* where each request handler stands
    job,          \* what each request handler was asked
    seen,         \* what its transaction has read and not locked
    rejected      \* the operation a constraint rolled back, "NONE" if none

rows == <<reserved, listed, cart, session, line, hold, saved>>
vars == <<rows, pc, job, seen, rejected>>

-----------------------------------------------------------------------------
(* Types.                                                                  *)

KeyedOps   == {"add", "set", "remove"}
SessionOps == {"view", "logout", "promote"}
Ops == KeyedOps \union SessionOps

Hold == [status: HoldStatus, quantity: Nat, expiry: {"NEVER", "RUNNING", "DUE"}]
NoHold == [status |-> "NONE", quantity |-> 0, expiry |-> "NEVER"]

(* What a request asks; the body of an idempotency record is the same.     *)
KeyedJob   == [op: KeyedOps, cart: Carts, product: Products, quantity: 1..MaxQuantity, key: Keys]
SessionJob == [op: SessionOps, cart: Carts]
NoJob      == [op |-> "NONE"]

(* fresh: no cart row existed; known: the cart's items had the product;    *)
(* line: the cart line's quantity; held: the reservation's quantity;       *)
(* open: the cart's ACTIVE reservations.                                   *)
Seen == [fresh: BOOLEAN, known: BOOLEAN, line: Nat, held: Nat, open: [Products -> Nat]]
NothingSeen ==
    [fresh |-> FALSE, known |-> FALSE, line |-> 0, held |-> 0,
     open |-> [p \in Products |-> 0]]

(* The program points at which a database transaction is open.             *)
InTransaction == {"finding", "reserving", "lineLock", "adjusting", "releasing"}
Points == InTransaction \union {"idle", "admitted", "closing", "revoking"}

RowsOK ==
    /\ reserved \in [Products -> Nat]
    /\ \A p \in Products : reserved[p] <= OnHand[p]
    /\ listed \in [Products -> BOOLEAN]
    /\ cart \in [Carts -> {"NONE", "ACTIVE", "CLOSED"}]
    /\ session \in [Carts -> {"LIVE", "EXPIRED", "REVOKED"}]
    /\ line \in [Carts -> [Products -> Nat]]
    /\ hold \in [Carts -> [Products -> Hold]]
    /\ saved \subseteq KeyedJob

HandlersOK ==
    /\ pc \in [Requests -> Points]
    /\ job \in [Requests -> KeyedJob \union SessionJob \union {NoJob}]
    /\ seen \in [Requests -> Seen]
    /\ rejected \in [Requests -> Ops \union {"NONE"}]

(* The tables respect their CHECKs and the handlers their types.           *)
TypeOK == RowsOK /\ HandlersOK

-----------------------------------------------------------------------------
(* Helpers.                                                                *)

(* The CHECK of migration 003: 0 <= stock_reserved <= stock_on_hand.       *)
StockUnchecked(r) == r \in [Products -> Int]   \* mutant: the CHECK is missing
StockCheck(r) == r \in [Products -> Nat] /\ \A p \in Products : r[p] <= OnHand[p]

(* The CHECK of migration 004: a CHECKOUT_PENDING row has no expiry.       *)
HoldUnchecked(h) == TRUE   \* mutant: the CHECK is missing
HoldCheck(h) == h.status = "CHECKOUT_PENDING" => h.expiry = "NEVER"

(* idempotency_records is UNIQUE on (scope, key); scope = operation:session *)
SameKey(s, j) == s.op = j.op /\ s.cart = j.cart /\ s.key = j.key
KeyTakenByEqualBody(j) == j \in saved   \* mutant: the index covers the body too
KeyTaken(j) == \E s \in saved : SameKey(s, j)

(* touchSession: expires_at := now + 10 min, whatever expires_at was;      *)
(* revoked_at is not written.                                              *)
Touch(c) == [session EXCEPT ![c] = IF @ = "EXPIRED" THEN "LIVE" ELSE @]

(* The row lock an "add" holds on cart_items while it waits for the stock. *)
LineLocked(c, p) ==
    \E r \in Requests :
        pc[r] = "adjusting" /\ job[r].op = "add" /\ job[r].cart = c /\ job[r].product = p

MayBegin == Serialized => \A r \in Requests : pc[r] \notin InTransaction

(* The new quantity an adjustment asks for: "add" sums, "set" replaces.    *)
Target(r) == IF job[r].op = "add" THEN seen[r].line + job[r].quantity ELSE job[r].quantity

(* The row adjustReservation writes: the reservation is updated by its id  *)
(* alone, with an absolute quantity.                                       *)
AdjustedExpiryOnly(r) ==  \* mutant: the quantity is not written
    [hold[job[r].cart][job[r].product] EXCEPT !.expiry = "RUNNING"]
AdjustedToActive(r) ==    \* mutant: the status is written too
    [hold[job[r].cart][job[r].product] EXCEPT
        !.status = "ACTIVE", !.quantity = Target(r), !.expiry = "RUNNING"]
Adjusted(r) ==
    [hold[job[r].cart][job[r].product] EXCEPT
        !.quantity = Target(r), !.expiry = "RUNNING"]

(* stock_reserved once the units in "open" have been given back: the       *)
(* UPDATE of a product is guarded by stock_reserved >= quantity.           *)
ReturnedIfMore(open) ==   \* mutant: > for >=
    [p \in Products |-> IF open[p] < reserved[p] THEN reserved[p] - open[p] ELSE reserved[p]]
Returned(open) ==
    [p \in Products |-> IF open[p] <= reserved[p] THEN reserved[p] - open[p] ELSE reserved[p]]

Ends(r) ==
    /\ pc' = [pc EXCEPT ![r] = "idle"]
    /\ seen' = [seen EXCEPT ![r] = NothingSeen]
    /\ job' = [job EXCEPT ![r] = NoJob]

-----------------------------------------------------------------------------
Init ==
    /\ reserved = [p \in Products |-> 0]
    /\ listed = [p \in Products |-> TRUE]
    /\ cart = [c \in Carts |-> "NONE"]
    /\ session = [c \in Carts |-> "LIVE"]
    /\ line = [c \in Carts |-> [p \in Products |-> 0]]
    /\ hold = [c \in Carts |-> [p \in Products |-> NoHold]]
    /\ saved = {}
    /\ pc = [r \in Requests |-> "idle"]
    /\ job = [r \in Requests |-> NoJob]
    /\ seen = [r \in Requests |-> NothingSeen]
    /\ rejected = [r \in Requests |-> "NONE"]

-----------------------------------------------------------------------------
(* Requests.  The handler checks the session and looks for the key outside *)
(* any transaction; a key already saved is answered from the record and    *)
(* changes nothing, so only requests that go on are admitted.              *)

AdmitKeyed(r) ==
    \E j \in KeyedJob :
        /\ pc[r] = "idle"
        /\ session[j.cart] = "LIVE"
        /\ ~KeyTaken(j)
        /\ j.op = "add" => listed[j.product]
        /\ j.op = "remove" => j.quantity = 1
        /\ pc' = [pc EXCEPT ![r] = "admitted"]
        /\ job' = [job EXCEPT ![r] = j]
        /\ rejected' = [rejected EXCEPT ![r] = "NONE"]
        /\ UNCHANGED <<rows, seen>>

(* GetCart needs a live session, logout and the guest-to-admin login only  *)
(* one that is not revoked.                                                *)
AdmitSession(r) ==
    \E j \in SessionJob :
        /\ pc[r] = "idle"
        /\ session[j.cart] # "REVOKED"
        /\ j.op = "view" => session[j.cart] = "LIVE"
        /\ pc' = [pc EXCEPT ![r] = "admitted"]
        /\ job' = [job EXCEPT ![r] = j]
        /\ rejected' = [rejected EXCEPT ![r] = "NONE"]
        /\ UNCHANGED <<rows, seen>>

(* A domain failure.  After a first write the work function throws, and    *)
(* what it wrote is rolled back; a Failure it returned would commit.       *)
RefuseByReturning(r) ==   \* mutant: a stock refusal is returned, not thrown
    LET j == job[r] IN
    /\ Ends(r)
    /\ line' = IF pc[r] = "reserving"
               THEN [line EXCEPT ![j.cart][j.product] = j.quantity]
               ELSE line
    /\ UNCHANGED <<reserved, listed, cart, session, hold, saved, rejected>>
Refuse(r) ==
    /\ Ends(r)
    /\ UNCHANGED <<rows, rejected>>

(* The handler dies, loses its connection, times out or is the victim of a *)
(* deadlock: PostgreSQL rolls the open transaction back.                   *)
Abort(r) ==
    /\ pc[r] # "idle"
    /\ Refuse(r)

(* A constraint refuses a write: the whole transaction is rolled back.     *)
RollBack(r) ==
    /\ Ends(r)
    /\ rejected' = [rejected EXCEPT ![r] = job[r].op]
    /\ UNCHANGED rows

(* It refuses an ACTIVE cart whose reservation_expires_at has passed, and   *)
(* then does not renew the session.  That column is not modelled (no other *)
(* use case reads it): whether it has passed is left open.                *)
GetCart(r) == \E expired \in BOOLEAN :
    /\ pc[r] = "admitted" /\ job[r].op = "view"
    /\ expired => cart[job[r].cart] = "ACTIVE"
    /\ session' = IF expired THEN session ELSE Touch(job[r].cart)
    /\ Ends(r)
    /\ UNCHANGED <<reserved, listed, cart, line, hold, saved, rejected>>

-----------------------------------------------------------------------------
(* AddCartItem: one SELECT reads the cart with its items and reservations, *)
(* or finds no cart; the next one looks for the line of the product, which *)
(* another request may have committed in between.                          *)

AddCartItem(r) ==
    LET j == job[r]
        fresh == cart[j.cart] = "NONE"
    IN
    /\ pc[r] = "admitted" /\ j.op = "add" /\ MayBegin
    /\ IF KeyTaken(j)
       THEN Refuse(r)
       ELSE /\ pc' = [pc EXCEPT ![r] = IF fresh THEN "reserving" ELSE "finding"]
            /\ seen' = [seen EXCEPT ![r].fresh = fresh,
                                    ![r].known = (line[j.cart][j.product] # 0)]
            /\ UNCHANGED <<rows, job, rejected>>

FindLine(r) ==
    LET found == line[job[r].cart][job[r].product] IN
    /\ pc[r] = "finding"
    /\ pc' = [pc EXCEPT ![r] = IF found = 0 THEN "reserving" ELSE "lineLock"]
    /\ seen' = [seen EXCEPT ![r].line = found]
    /\ UNCHANGED <<rows, job, rejected>>

(* createCart, createCartItem and reserve, to the commit.  A cart or a     *)
(* line another request has created meanwhile breaks a UNIQUE index.       *)
Reserve(r) ==
    LET j == job[r]
        after == [reserved EXCEPT ![j.product] = @ + j.quantity]
        duplicate == \/ line[j.cart][j.product] # 0
                     \/ seen[r].fresh /\ cart[j.cart] # "NONE"
                     \/ KeyTaken(j)
    IN
    /\ pc[r] = "reserving"
    /\ \/ /\ duplicate
          /\ RollBack(r)
       \/ /\ ~duplicate
          /\ \/ ~listed[j.product]
             \/ OnHand[j.product] - reserved[j.product] < j.quantity
          /\ Refuse(r)
       \/ /\ ~duplicate
          /\ listed[j.product]
          /\ OnHand[j.product] - reserved[j.product] >= j.quantity
          /\ reserved' = after
          /\ cart' = IF seen[r].fresh THEN [cart EXCEPT ![j.cart] = "ACTIVE"] ELSE cart
          /\ line' = [line EXCEPT ![j.cart][j.product] = j.quantity]
          /\ hold' = [hold EXCEPT ![j.cart][j.product] =
                        [status |-> "ACTIVE", quantity |-> j.quantity, expiry |-> "RUNNING"]]
          /\ saved' = saved \union {j}
          /\ session' = Touch(j.cart)
          /\ Ends(r)
          /\ UNCHANGED <<listed, rejected>>

(* updateCartItemQuantity locks the line; then adjustReservation reads the *)
(* reservation without a lock and gives up unless it is ACTIVE.            *)
LockLine(r) ==
    LET j == job[r]
        h == hold[j.cart][j.product]
    IN
    /\ pc[r] = "lineLock" /\ seen[r].known
    /\ ~LineLocked(j.cart, j.product)
    /\ IF h.status = "ACTIVE"
       THEN /\ pc' = [pc EXCEPT ![r] = "adjusting"]
            /\ seen' = [seen EXCEPT ![r].held = h.quantity]
            /\ UNCHANGED <<rows, job, rejected>>
       ELSE Refuse(r)

(* Among the items that were read the line has no reservation, and so none *)
(* is adjusted: the line alone is raised, to the commit.                   *)
RaiseLineAlone(r) ==
    LET j == job[r] IN
    /\ pc[r] = "lineLock" /\ ~seen[r].known
    /\ ~LineLocked(j.cart, j.product)
    /\ \/ /\ KeyTaken(j)
          /\ RollBack(r)
       \/ /\ ~KeyTaken(j)
          /\ line' = [line EXCEPT ![j.cart][j.product] = Target(r)]
          /\ saved' = saved \union {j}
          /\ session' = Touch(j.cart)
          /\ Ends(r)
          /\ UNCHANGED <<reserved, listed, cart, hold, rejected>>

-----------------------------------------------------------------------------
(* SetCartItemQuantity: the reservation is read, and must be ACTIVE; the   *)
(* line is written only after the stock has been adjusted.                 *)

SetCartItemQuantity(r) ==
    LET j == job[r]
        h == hold[j.cart][j.product]
    IN
    /\ pc[r] = "admitted" /\ j.op = "set" /\ MayBegin
    /\ IF ~KeyTaken(j) /\ line[j.cart][j.product] # 0 /\ h.status = "ACTIVE"
       THEN /\ pc' = [pc EXCEPT ![r] = "adjusting"]
            /\ seen' = [seen EXCEPT ![r].line = line[j.cart][j.product],
                                    ![r].held = h.quantity]
            /\ UNCHANGED <<rows, job, rejected>>
       ELSE Refuse(r)

(* adjustReservation from the product's row lock to the commit.  The delta *)
(* comes from the quantity that was READ.  "set" looks the product up      *)
(* again and fails when it is delisted.                                    *)
AdjustReservation(r) ==
    LET j == job[r]
        p == j.product
        delta == Target(r) - seen[r].held
        after == [reserved EXCEPT ![p] = @ + delta]
        short == delta > 0 /\ OnHand[p] - reserved[p] < delta
        breaks == ~StockCheck(after) \/ ~HoldCheck(Adjusted(r)) \/ KeyTaken(j)
    IN
    /\ pc[r] = "adjusting"
    /\ j.op = "set" => ~LineLocked(j.cart, p)
    /\ \/ /\ short \/ (j.op = "set" /\ ~listed[p])
          /\ Refuse(r)
       \/ /\ ~short
          /\ breaks
          /\ RollBack(r)
       \/ /\ ~short /\ ~breaks
          /\ j.op = "set" => listed[p]
          /\ reserved' = after
          /\ hold' = [hold EXCEPT ![j.cart][p] = Adjusted(r)]
          /\ line' = [line EXCEPT ![j.cart][p] = Target(r)]
          /\ saved' = saved \union {j}
          /\ session' = Touch(j.cart)
          /\ Ends(r)
          /\ UNCHANGED <<listed, cart, rejected>>

-----------------------------------------------------------------------------
(* RemoveCartItem releases the reservation and deletes the line in one     *)
(* transaction; stock_reservations.cart_item_id is ON DELETE RESTRICT and  *)
(* the reservation row is kept, so the delete undoes all of it.            *)

RemoveCartItem(r) ==
    LET j == job[r] IN
    /\ pc[r] = "admitted" /\ j.op = "remove" /\ MayBegin
    /\ IF KeyTaken(j) \/ line[j.cart][j.product] = 0
       THEN Refuse(r)
       ELSE /\ hold[j.cart][j.product].status # "NONE"
            /\ RollBack(r)

-----------------------------------------------------------------------------
(* Logout, and the login of an administrator over a guest session:         *)
(* releaseAllForCart reads the ACTIVE reservations without a lock ...      *)

ReadActiveHolds(r) ==
    LET c == job[r].cart IN
    /\ pc[r] = "admitted" /\ job[r].op \in {"logout", "promote"} /\ MayBegin
    /\ pc' = [pc EXCEPT ![r] = "releasing"]
    /\ seen' = [seen EXCEPT ![r].open =
                  [p \in Products |->
                     IF hold[c][p].status = "ACTIVE" THEN hold[c][p].quantity ELSE 0]]
    /\ UNCHANGED <<rows, job, rejected>>

(* ... then, product by product, subtracts what it read if that much is    *)
(* reserved, and marks the row RELEASED whatever its status is by then.    *)
ReleaseAllForCart(r) ==
    LET c == job[r].cart
        open == seen[r].open
    IN
    /\ pc[r] = "releasing"
    /\ reserved' = Returned(open)
    /\ hold' = [hold EXCEPT ![c] =
                  [p \in Products |->
                     IF open[p] > 0 THEN [@[p] EXCEPT !.status = "RELEASED"] ELSE @[p]]]
    /\ pc' = [pc EXCEPT ![r] = IF job[r].op = "promote" THEN "closing" ELSE "revoking"]
    /\ seen' = [seen EXCEPT ![r] = NothingSeen]
    /\ UNCHANGED <<listed, cart, session, line, saved, job, rejected>>

CloseCart(r) ==
    /\ pc[r] = "closing"
    /\ cart' = [cart EXCEPT ![job[r].cart] = IF @ = "ACTIVE" THEN "CLOSED" ELSE @]
    /\ pc' = [pc EXCEPT ![r] = "revoking"]
    /\ UNCHANGED <<reserved, listed, session, line, hold, saved, job, seen, rejected>>

RevokeSession(r) ==
    /\ pc[r] = "revoking"
    /\ session' = [session EXCEPT ![job[r].cart] = "REVOKED"]
    /\ Ends(r)
    /\ UNCHANGED <<reserved, listed, cart, line, hold, saved, rejected>>

-----------------------------------------------------------------------------
(* The reaper.  One transaction locks the expired ACTIVE rows that no      *)
(* other transaction has locked, re-checks their status, marks them        *)
(* EXPIRED and subtracts each quantity that still fits in stock_reserved.  *)

DueRows ==                \* mutant: the status is not checked again
    {s \in Carts \X Products : hold[s[1]][s[2]].expiry = "DUE"}
DueListedHolds ==         \* mutant: delisted products are joined away
    {s \in Carts \X Products :
        /\ hold[s[1]][s[2]].status = "ACTIVE" /\ hold[s[1]][s[2]].expiry = "DUE"
        /\ listed[s[2]]}
DueHolds ==
    {s \in Carts \X Products :
        hold[s[1]][s[2]].status = "ACTIVE" /\ hold[s[1]][s[2]].expiry = "DUE"}

Units(S, p) == Total([c \in Carts |-> hold[c][p].quantity], {c \in Carts : <<c, p>> \in S})

(* "batch" is any part of the due rows (skipped rows, an old "now", the    *)
(* batch limit).  Subtracting row by row under the guard stock_reserved >= *)
(* quantity ends, over all orders of the rows, with a set "fitting" that   *)
(* fits and that no row left out would still fit beside.                   *)
ExpireBatch(batch, fitting) ==
    LET after == [p \in Products |-> reserved[p] - Units(fitting, p)] IN
    /\ batch # {} /\ Cardinality(batch) <= BatchSize
    /\ MayBegin
    /\ StockCheck(after)
    /\ \A s \in batch \ fitting : after[s[2]] < hold[s[1]][s[2]].quantity
    /\ reserved' = after
    /\ hold' = [c \in Carts |-> [p \in Products |->
                  IF <<c, p>> \in batch
                  THEN [hold[c][p] EXCEPT !.status = "EXPIRED"]
                  ELSE hold[c][p]]]
    /\ UNCHANGED <<listed, cart, session, line, saved, pc, job, seen, rejected>>

ExpireReservations ==
    \E batch \in SUBSET DueHolds : \E fitting \in SUBSET batch : ExpireBatch(batch, fitting)

-----------------------------------------------------------------------------
(* The passing of time and the administrator.                              *)

HoldFallsDue(c, p) ==
    /\ hold[c][p].status = "ACTIVE" /\ hold[c][p].expiry = "RUNNING"
    /\ hold' = [hold EXCEPT ![c][p].expiry = "DUE"]
    /\ UNCHANGED <<reserved, listed, cart, session, line, saved, pc, job, seen, rejected>>

SessionExpires(c) ==
    /\ session[c] = "LIVE"
    /\ session' = [session EXCEPT ![c] = "EXPIRED"]
    /\ UNCHANGED <<reserved, listed, cart, line, hold, saved, pc, job, seen, rejected>>

(* Soft deletion does not look at the reservations of the product.         *)
DelistProduct(p) ==
    /\ listed[p]
    /\ listed' = [listed EXCEPT ![p] = FALSE]
    /\ UNCHANGED <<reserved, cart, session, line, hold, saved, pc, job, seen, rejected>>

-----------------------------------------------------------------------------
Handler(r) ==
    \/ GetCart(r) \/ AddCartItem(r) \/ FindLine(r) \/ Reserve(r) \/ LockLine(r)
    \/ RaiseLineAlone(r)
    \/ SetCartItemQuantity(r) \/ AdjustReservation(r) \/ RemoveCartItem(r)
    \/ ReadActiveHolds(r) \/ ReleaseAllForCart(r) \/ CloseCart(r) \/ RevokeSession(r)

Next ==
    \/ \E r \in Requests : AdmitKeyed(r) \/ AdmitSession(r) \/ Handler(r) \/ Abort(r)
    \/ ExpireReservations
    \/ \E c \in Carts, p \in Products : HoldFallsDue(c, p)
    \/ \E c \in Carts : SessionExpires(c)
    \/ \E p \in Products : DelistProduct(p)

Spec == Init /\ [][Next]_vars

(* A request in flight ends, time passes, and every due row is eventually  *)
(* in a batch: rows are taken oldest first, a row is skipped only while an *)
(* open transaction has it locked, and the scheduler always re-arms.       *)
Fairness ==
    /\ \A r \in Requests : WF_vars(Handler(r))
    /\ \A c \in Carts, p \in Products :
          /\ WF_vars(HoldFallsDue(c, p))
          /\ SF_vars(\E batch \in SUBSET DueHolds : \E fitting \in SUBSET batch :
                        <<c, p>> \in batch /\ ExpireBatch(batch, fitting))

FairSpec == Spec /\ Fairness

-----------------------------------------------------------------------------
(* Properties.                                                             *)

(* However requests, reaper and releases interleave, and wherever one of   *)
(* them fails, a cart line and its reservation exist together: no line is  *)
(* kept whose stock was refused, no row is adjusted that does not exist.   *)
LineHasHold ==
    \A c \in Carts, p \in Products : line[c][p] = 0 <=> hold[c][p].status = "NONE"

(* What a request adds to the cart is reserved in the same transaction: a  *)
(* cart line and its reservation name the same quantity, although add and  *)
(* set write them in opposite orders.                                      *)
LineMatchesHold ==
    \A c \in Carts, p \in Products : line[c][p] = hold[c][p].quantity

(* Exactly-once: a line changes only in a transaction that also saves the  *)
(* request's idempotency key, and that key was not saved before, so a      *)
(* retry or a concurrent duplicate of a request never changes a line twice *)
LineChangeSavesFreshKey ==
    [][\A c \in Carts, p \in Products :
          line'[c][p] # line[c][p] =>
              \E j \in saved' \ saved :
                  /\ j.cart = c /\ j.product = p
                  /\ \A s \in saved : ~SameKey(s, j)]_vars

(* A reservation that was released or expired never becomes ACTIVE again:  *)
(* its units, once given back, are never silently counted as held.         *)
ClosedHoldsNeverReopen ==
    [][\A c \in Carts, p \in Products :
          hold[c][p].status \in ClosedHold => hold'[c][p].status \notin OpenHold]_vars

(* The stock ledger: stock_reserved of a product is exactly what the open  *)
(* reservations of all carts hold.  More is stock nobody can buy, less is  *)
(* stock sold twice.                                                       *)
OpenHolds == {s \in Carts \X Products : hold[s[1]][s[2]].status \in OpenHold}
LedgerExact == \A p \in Products : reserved[p] = Units(OpenHolds, p)

(* What a row lock would guarantee: while a request is about to adjust a   *)
(* reservation, the row still is what the request read.                    *)
SnapshotFresh ==
    \A r \in Requests :
        LET c == job[r].cart IN
        /\ pc[r] = "adjusting" =>
              LET h == hold[c][job[r].product] IN
              h.status = "ACTIVE" /\ h.quantity = seen[r].held
        /\ pc[r] = "releasing" =>
              \A p \in Products :
                 seen[r].open[p] = IF hold[c][p].status = "ACTIVE" THEN hold[c][p].quantity ELSE 0

(* The tables of the cart implement the abstract ledger: what is available *)
(* is what is on hand and not reserved, a claim is an open reservation.    *)
Ledger == INSTANCE StockLedger WITH
    Stock <- OnHand,
    available <- [p \in Products |-> OnHand[p] - reserved[p]],
    claim <- [c \in Carts |-> [p \in Products |->
                IF hold[c][p].status \in OpenHold THEN hold[c][p].quantity ELSE 0]]

(* Every transaction of the cart is a claim or a give-back of the ledger.  *)
ImplementsLedger == Ledger!Spec

(* When every shopper is gone for good, every unit they held is offered    *)
(* again: nothing is lost to a crash between two steps.                    *)
AbandonedStockReturns ==
    <>[](\A c \in Carts : session[c] # "LIVE") => <>[](\A p \in Products : reserved[p] = 0)

(* RemoveCartItem is documented to release the reservation and remove the  *)
(* line; no constraint of the schema should ever refuse it.                *)
RemovalIsAccepted == \A r \in Requests : rejected[r] # "remove"

=============================================================================
