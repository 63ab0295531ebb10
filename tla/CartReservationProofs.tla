----------------------- MODULE CartReservationProofs -----------------------
(***************************************************************************)
(* What CartReservation guarantees for every number of carts, products,    *)
(* requests, keys and units of stock.                                      *)
(***************************************************************************)
EXTENDS CartReservation, FiniteSetTheorems, TLAPS

-----------------------------------------------------------------------------
(* The inductive invariant.                                                *)

(* Every program point belongs to requests of some operations only.        *)
JobFitsPoint ==
    \A r \in Requests :
        /\ pc[r] = "admitted" => job[r] \in KeyedJob \union SessionJob
        /\ pc[r] \in {"finding", "reserving", "lineLock", "adjusting"} => job[r] \in KeyedJob
        /\ pc[r] \in {"releasing", "closing", "revoking"} => job[r] \in SessionJob

(* A reservation row that a transaction has read, or whose line it has     *)
(* read, still exists: rows are never deleted, no update by id misses.     *)
SeenRowsExist ==
    \A r \in Requests :
        /\ pc[r] \in {"lineLock", "adjusting"} =>
              hold[job[r].cart][job[r].product].status # "NONE"
        /\ pc[r] = "releasing" =>
              \A p \in Products :
                  seen[r].open[p] > 0 => hold[job[r].cart][p].status # "NONE"

HandlersInv == HandlersOK /\ JobFitsPoint /\ SeenRowsExist
RowsInv == RowsOK /\ LineHasHold

CartInv == HandlersInv /\ RowsInv

(* No step of the program deletes a reservation row.                       *)
HoldsKept ==
    \A c \in Carts, p \in Products :
        hold[c][p].status # "NONE" => hold'[c][p].status # "NONE"

-----------------------------------------------------------------------------
(* Lemmas about parts of a step.                                           *)

(* Initially every table is empty and every handler idle.                  *)
LEMMA InitEstablishes == Init => CartInv
<1> SUFFICES ASSUME Init PROVE CartInv
  OBVIOUS
<1>1. RowsOK
  <2>1. NoHold \in Hold
    BY DEF NoHold, Hold, HoldStatus
  <2>2. QED
    BY <2>1, StockAssumption DEF Init, RowsOK
<1>2. HandlersInv
  <2>1. NothingSeen \in Seen
    BY DEF NothingSeen, Seen
  <2>2. QED
    BY <2>1 DEF Init, HandlersInv, HandlersOK, Points, JobFitsPoint, SeenRowsExist
<1>3. LineHasHold
  BY DEF Init, LineHasHold, NoHold
<1>4. QED
  BY <1>1, <1>2, <1>3 DEF CartInv, RowsInv

(* A step that writes no row keeps what is true of the rows.               *)
LEMMA RowsUntouched == RowsInv /\ UNCHANGED rows => RowsInv' /\ HoldsKept
BY DEF RowsInv, RowsOK, LineHasHold, rows, HoldsKept

(* A handler that ends leaves nothing behind, whatever it has written.     *)
LEMMA EndingIsSafe ==
    ASSUME HandlersInv, HoldsKept, NEW r \in Requests, Ends(r),
           rejected' \in [Requests -> Ops \union {"NONE"}]
    PROVE  HandlersInv'
<1>1. HandlersOK'
  <2>1. NothingSeen \in Seen
    BY DEF NothingSeen, Seen
  <2>2. pc' \in [Requests -> Points]
    BY DEF HandlersInv, HandlersOK, Ends, Points
  <2>3. job' \in [Requests -> KeyedJob \union SessionJob \union {NoJob}]
    BY DEF HandlersInv, HandlersOK, Ends
  <2>4. seen' \in [Requests -> Seen]
    BY <2>1 DEF HandlersInv, HandlersOK, Ends
  <2>5. QED
    BY <2>2, <2>3, <2>4 DEF HandlersOK
<1>2. pc'[r] = "idle" /\ \A s \in Requests \ {r} :
         pc'[s] = pc[s] /\ job'[s] = job[s] /\ seen'[s] = seen[s]
  BY DEF HandlersInv, HandlersOK, Ends
<1>3. JobFitsPoint'
  BY <1>2 DEF HandlersInv, JobFitsPoint
<1>4. SeenRowsExist'
  <2> SUFFICES ASSUME NEW s \in Requests
               PROVE  /\ pc'[s] \in {"lineLock", "adjusting"} =>
                            hold'[job'[s].cart][job'[s].product].status # "NONE"
                      /\ pc'[s] = "releasing" =>
                            \A p \in Products :
                                seen'[s].open[p] > 0 => hold'[job'[s].cart][p].status # "NONE"
    BY DEF SeenRowsExist
  <2>1. CASE s = r
    BY <2>1, <1>2
  <2>2. CASE s # r
    <3>1. pc[s] \in {"lineLock", "adjusting"} => job[s].cart \in Carts /\ job[s].product \in Products
      BY DEF HandlersInv, JobFitsPoint, KeyedJob
    <3>2. pc[s] = "releasing" => job[s].cart \in Carts
      BY DEF HandlersInv, JobFitsPoint, SessionJob
    <3>3. QED
      BY <2>2, <1>2, <3>1, <3>2 DEF HandlersInv, SeenRowsExist, HoldsKept
  <2>3. QED
    BY <2>1, <2>2
<1>5. QED
  BY <1>1, <1>3, <1>4 DEF HandlersInv

(* So are the two ways of giving up, and the death of a handler.           *)
LEMMA GivingUpIsSafe ==
    ASSUME CartInv, NEW r \in Requests, Refuse(r) \/ (pc[r] # "idle" /\ RollBack(r))
    PROVE  CartInv'
<1>1. RowsInv' /\ HoldsKept
  BY RowsUntouched DEF CartInv, Refuse, RollBack
<1>2. Ends(r)
  BY DEF Refuse, RollBack
<1>3. rejected' \in [Requests -> Ops \union {"NONE"}]
  <2>1. CASE Refuse(r)
    BY <2>1 DEF Refuse, CartInv, HandlersInv, HandlersOK
  <2>2. CASE pc[r] # "idle" /\ RollBack(r)
    <3>1. job[r] \in KeyedJob \union SessionJob
      BY <2>2 DEF CartInv, HandlersInv, HandlersOK, JobFitsPoint, Points, InTransaction
    <3>2. job[r].op \in Ops
      BY <3>1 DEF KeyedJob, SessionJob, Ops
    <3>3. QED
      BY <2>2, <3>2 DEF RollBack, CartInv, HandlersInv, HandlersOK
  <2>3. QED
    BY <2>1, <2>2
<1>4. QED
  BY <1>1, <1>2, <1>3, EndingIsSafe DEF CartInv

(* A step that only moves one handler on keeps the invariant when that     *)
(* handler's own part of it holds afterwards.                              *)
LEMMA MovingOnIsSafe ==
    ASSUME CartInv, NEW r \in Requests, UNCHANGED rows,
           HandlersOK',
           \A s \in Requests \ {r} :
               pc'[s] = pc[s] /\ job'[s] = job[s] /\ seen'[s] = seen[s],
           /\ pc'[r] = "admitted" => job'[r] \in KeyedJob \union SessionJob
           /\ pc'[r] \in {"finding", "reserving", "lineLock", "adjusting"} =>
                 job'[r] \in KeyedJob
           /\ pc'[r] \in {"releasing", "closing", "revoking"} => job'[r] \in SessionJob,
           pc'[r] \in {"lineLock", "adjusting"} =>
               hold[job'[r].cart][job'[r].product].status # "NONE",
           pc'[r] = "releasing" =>
               \A p \in Products :
                   seen'[r].open[p] > 0 => hold[job'[r].cart][p].status # "NONE"
    PROVE  CartInv'
<1>1. RowsInv'
  BY RowsUntouched DEF CartInv
<1>2. hold' = hold
  BY DEF rows
<1>3. JobFitsPoint'
  BY DEF CartInv, HandlersInv, JobFitsPoint
<1>4. SeenRowsExist'
  BY <1>2 DEF CartInv, HandlersInv, SeenRowsExist
<1>5. QED
  BY <1>1, <1>3, <1>4 DEF CartInv, HandlersInv

-----------------------------------------------------------------------------
(* One lemma per step of a handler.                                        *)

LEMMA AdmitSafe ==
    ASSUME CartInv, NEW r \in Requests, AdmitKeyed(r) \/ AdmitSession(r)
    PROVE  CartInv'
<1>1. PICK j \in KeyedJob \union SessionJob :
         /\ pc' = [pc EXCEPT ![r] = "admitted"]
         /\ job' = [job EXCEPT ![r] = j]
         /\ rejected' = [rejected EXCEPT ![r] = "NONE"]
         /\ UNCHANGED <<rows, seen>>
  BY DEF AdmitKeyed, AdmitSession
<1>2. HandlersOK'
  BY <1>1 DEF CartInv, HandlersInv, HandlersOK, Points, InTransaction
<1>3. pc'[r] = "admitted" /\ job'[r] = j
  BY <1>1 DEF CartInv, HandlersInv, HandlersOK
<1>4. \A s \in Requests \ {r} : pc'[s] = pc[s] /\ job'[s] = job[s] /\ seen'[s] = seen[s]
  BY <1>1 DEF CartInv, HandlersInv, HandlersOK
<1>5. QED
  BY <1>1, <1>2, <1>3, <1>4, MovingOnIsSafe

LEMMA GetCartSafe ==
    ASSUME CartInv, NEW r \in Requests, GetCart(r)
    PROVE  CartInv'
<1>1. session' \in [Carts -> {"LIVE", "EXPIRED", "REVOKED"}]
  <2>1. session' = session \/ session' = Touch(job[r].cart)
    BY DEF GetCart
  <2>2. QED
    BY <2>1 DEF Touch, CartInv, RowsInv, RowsOK
<1>2. RowsInv' /\ HoldsKept
  BY <1>1 DEF GetCart, CartInv, RowsInv, RowsOK, LineHasHold, HoldsKept
<1>3. HandlersInv'
  BY <1>2, EndingIsSafe DEF GetCart, CartInv, HandlersInv, HandlersOK
<1>4. QED
  BY <1>2, <1>3 DEF CartInv

LEMMA AddCartItemSafe ==
    ASSUME CartInv, NEW r \in Requests, AddCartItem(r)
    PROVE  CartInv'
<1> DEFINE j == job[r]
           fresh == cart[j.cart] = "NONE"
           known == line[j.cart][j.product] # 0
<1>1. CASE Refuse(r)
  BY <1>1, GivingUpIsSafe
<1>2. CASE /\ pc' = [pc EXCEPT ![r] = IF fresh THEN "reserving" ELSE "finding"]
           /\ seen' = [seen EXCEPT ![r].fresh = fresh, ![r].known = known]
           /\ UNCHANGED <<rows, job, rejected>>
  <2>1. j \in KeyedJob
    BY DEF AddCartItem, CartInv, HandlersInv, JobFitsPoint, KeyedJob, SessionJob, SessionOps
  <2>2. HandlersOK'
    <3>1. pc' \in [Requests -> Points]
      BY <1>2 DEF CartInv, HandlersInv, HandlersOK, Points, InTransaction
    <3>2. seen[r] \in Seen
      BY DEF CartInv, HandlersInv, HandlersOK
    <3>3. fresh \in BOOLEAN /\ known \in BOOLEAN
      OBVIOUS
    <3>4. [seen[r] EXCEPT !.fresh = fresh, !.known = known] \in Seen
      BY <3>2, <3>3 DEF Seen
    <3>5. seen' \in [Requests -> Seen]
      BY <1>2, <3>4 DEF CartInv, HandlersInv, HandlersOK
    <3>6. QED
      BY <1>2, <3>1, <3>5 DEF CartInv, HandlersInv, HandlersOK
  <2>3. pc'[r] \in {"reserving", "finding"} /\ job'[r] = j
    BY <1>2 DEF CartInv, HandlersInv, HandlersOK
  <2>4. \A s \in Requests \ {r} : pc'[s] = pc[s] /\ job'[s] = job[s] /\ seen'[s] = seen[s]
    BY <1>2 DEF CartInv, HandlersInv, HandlersOK
  <2>5. QED
    BY <1>2, <2>1, <2>2, <2>3, <2>4, MovingOnIsSafe
<1>3. QED
  BY <1>1, <1>2 DEF AddCartItem

(* The line that is found has a reservation, whoever has created it.       *)
LEMMA FindLineSafe ==
    ASSUME CartInv, NEW r \in Requests, FindLine(r)
    PROVE  CartInv'
<1> DEFINE j == job[r]
           found == line[j.cart][j.product]
<1>1. j \in KeyedJob
  BY DEF FindLine, CartInv, HandlersInv, JobFitsPoint
<1>2. found \in Nat /\ (found # 0 => hold[j.cart][j.product].status # "NONE")
  BY <1>1 DEF CartInv, RowsInv, RowsOK, LineHasHold, KeyedJob
<1>3. HandlersOK'
  <2>1. pc' \in [Requests -> Points]
    BY DEF FindLine, CartInv, HandlersInv, HandlersOK, Points, InTransaction
  <2>2. seen[r] \in Seen
    BY DEF CartInv, HandlersInv, HandlersOK
  <2>3. [seen[r] EXCEPT !.line = found] \in Seen
    BY <1>2, <2>2 DEF Seen
  <2>4. seen' \in [Requests -> Seen]
    BY <2>3 DEF FindLine, CartInv, HandlersInv, HandlersOK
  <2>5. QED
    BY <2>1, <2>4 DEF FindLine, CartInv, HandlersInv, HandlersOK
<1>4. /\ pc'[r] = IF found = 0 THEN "reserving" ELSE "lineLock"
      /\ job'[r] = j
  BY DEF FindLine, CartInv, HandlersInv, HandlersOK
<1>5. \A s \in Requests \ {r} : pc'[s] = pc[s] /\ job'[s] = job[s] /\ seen'[s] = seen[s]
  BY DEF FindLine, CartInv, HandlersInv, HandlersOK
<1>6. UNCHANGED rows
  BY DEF FindLine
<1>7. QED
  BY <1>1, <1>2, <1>3, <1>4, <1>5, <1>6, MovingOnIsSafe

LEMMA LockLineSafe ==
    ASSUME CartInv, NEW r \in Requests, LockLine(r)
    PROVE  CartInv'
<1> DEFINE j == job[r]
           h == hold[j.cart][j.product]
<1>1. CASE Refuse(r)
  BY <1>1, GivingUpIsSafe
<1>2. CASE /\ h.status = "ACTIVE"
           /\ pc' = [pc EXCEPT ![r] = "adjusting"]
           /\ seen' = [seen EXCEPT ![r].held = h.quantity]
           /\ UNCHANGED <<rows, job, rejected>>
  <2>1. j \in KeyedJob
    BY DEF LockLine, CartInv, HandlersInv, JobFitsPoint
  <2>2. h \in Hold
    BY <2>1 DEF CartInv, RowsInv, RowsOK, KeyedJob
  <2>3. HandlersOK'
    <3>1. pc' \in [Requests -> Points]
      BY <1>2 DEF CartInv, HandlersInv, HandlersOK, Points, InTransaction
    <3>2. seen[r] \in Seen
      BY DEF CartInv, HandlersInv, HandlersOK
    <3>3. [seen[r] EXCEPT !.held = h.quantity] \in Seen
      BY <3>2, <2>2 DEF Seen, Hold
    <3>4. seen' \in [Requests -> Seen]
      BY <1>2, <3>3 DEF CartInv, HandlersInv, HandlersOK
    <3>5. QED
      BY <1>2, <3>1, <3>4 DEF CartInv, HandlersInv, HandlersOK
  <2>4. pc'[r] = "adjusting" /\ job'[r] = j
    BY <1>2 DEF CartInv, HandlersInv, HandlersOK
  <2>5. \A s \in Requests \ {r} : pc'[s] = pc[s] /\ job'[s] = job[s] /\ seen'[s] = seen[s]
    BY <1>2 DEF CartInv, HandlersInv, HandlersOK
  <2>6. QED
    BY <1>2, <2>1, <2>3, <2>4, <2>5, MovingOnIsSafe
<1>3. QED
  BY <1>1, <1>2 DEF LockLine

LEMMA SetCartItemQuantitySafe ==
    ASSUME CartInv, NEW r \in Requests, SetCartItemQuantity(r)
    PROVE  CartInv'
<1> DEFINE j == job[r]
           h == hold[j.cart][j.product]
<1>1. CASE Refuse(r)
  BY <1>1, GivingUpIsSafe
<1>2. CASE /\ h.status = "ACTIVE"
           /\ pc' = [pc EXCEPT ![r] = "adjusting"]
           /\ seen' = [seen EXCEPT ![r].line = line[j.cart][j.product],
                                   ![r].held = h.quantity]
           /\ UNCHANGED <<rows, job, rejected>>
  <2>1. j \in KeyedJob
    BY DEF SetCartItemQuantity, CartInv, HandlersInv, JobFitsPoint, SessionJob, SessionOps
  <2>2. h \in Hold /\ line[j.cart][j.product] \in Nat
    BY <2>1 DEF CartInv, RowsInv, RowsOK, KeyedJob
  <2>3. HandlersOK'
    <3>1. pc' \in [Requests -> Points]
      BY <1>2 DEF CartInv, HandlersInv, HandlersOK, Points, InTransaction
    <3>2. seen[r] \in Seen
      BY DEF CartInv, HandlersInv, HandlersOK
    <3>3. [seen[r] EXCEPT !.line = line[j.cart][j.product], !.held = h.quantity] \in Seen
      BY <3>2, <2>2 DEF Seen, Hold
    <3>4. seen' \in [Requests -> Seen]
      BY <1>2, <3>3 DEF CartInv, HandlersInv, HandlersOK
    <3>5. QED
      BY <1>2, <3>1, <3>4 DEF CartInv, HandlersInv, HandlersOK
  <2>4. pc'[r] = "adjusting" /\ job'[r] = j
    BY <1>2 DEF CartInv, HandlersInv, HandlersOK
  <2>5. \A s \in Requests \ {r} : pc'[s] = pc[s] /\ job'[s] = job[s] /\ seen'[s] = seen[s]
    BY <1>2 DEF CartInv, HandlersInv, HandlersOK
  <2>6. QED
    BY <1>2, <2>1, <2>3, <2>4, <2>5, MovingOnIsSafe
<1>3. QED
  BY <1>1, <1>2 DEF SetCartItemQuantity

LEMMA RemoveCartItemSafe ==
    ASSUME CartInv, NEW r \in Requests, RemoveCartItem(r)
    PROVE  CartInv'
BY GivingUpIsSafe DEF RemoveCartItem

LEMMA ReadActiveHoldsSafe ==
    ASSUME CartInv, NEW r \in Requests, ReadActiveHolds(r)
    PROVE  CartInv'
<1> DEFINE c == job[r].cart
           open == [p \in Products |->
                      IF hold[c][p].status = "ACTIVE" THEN hold[c][p].quantity ELSE 0]
<1>1. job[r] \in SessionJob
  BY DEF ReadActiveHolds, CartInv, HandlersInv, JobFitsPoint, KeyedJob, KeyedOps
<1>2. \A p \in Products : hold[c][p] \in Hold
  BY <1>1 DEF CartInv, RowsInv, RowsOK, SessionJob
<1>3. open \in [Products -> Nat]
  BY <1>2 DEF Hold
<1>4. HandlersOK'
  <2>1. pc' \in [Requests -> Points]
    BY DEF ReadActiveHolds, CartInv, HandlersInv, HandlersOK, Points, InTransaction
  <2>2. seen[r] \in Seen
    BY DEF CartInv, HandlersInv, HandlersOK
  <2>3. [seen[r] EXCEPT !.open = open] \in Seen
    BY <2>2, <1>3 DEF Seen
  <2>4. seen' \in [Requests -> Seen]
    BY <2>3 DEF ReadActiveHolds, CartInv, HandlersInv, HandlersOK
  <2>5. QED
    BY <2>1, <2>4 DEF ReadActiveHolds, CartInv, HandlersInv, HandlersOK
<1>5. pc'[r] = "releasing" /\ job'[r] = job[r]
  BY DEF ReadActiveHolds, CartInv, HandlersInv, HandlersOK
<1>6. \A p \in Products : seen'[r].open[p] > 0 => hold[c][p].status # "NONE"
  <2>1. seen'[r].open = open
    BY DEF ReadActiveHolds, CartInv, HandlersInv, HandlersOK, Seen
  <2>2. QED
    BY <2>1
<1>7. \A s \in Requests \ {r} : pc'[s] = pc[s] /\ job'[s] = job[s] /\ seen'[s] = seen[s]
  BY DEF ReadActiveHolds, CartInv, HandlersInv, HandlersOK
<1>8. UNCHANGED rows
  BY DEF ReadActiveHolds
<1>9. QED
  BY <1>1, <1>4, <1>5, <1>6, <1>7, <1>8, MovingOnIsSafe

(* Reserve writes the line and the reservation of a pair that had neither. *)
LEMMA ReserveSafe ==
    ASSUME CartInv, NEW r \in Requests, Reserve(r)
    PROVE  CartInv'
<1> DEFINE j == job[r]
           new == [status |-> "ACTIVE", quantity |-> j.quantity, expiry |-> "RUNNING"]
<1>1. CASE Refuse(r) \/ RollBack(r)
  BY <1>1, GivingUpIsSafe DEF Reserve
<1>2. CASE /\ line[j.cart][j.product] = 0
           /\ OnHand[j.product] - reserved[j.product] >= j.quantity
           /\ reserved' = [reserved EXCEPT ![j.product] = @ + j.quantity]
           /\ cart' = IF seen[r].fresh THEN [cart EXCEPT ![j.cart] = "ACTIVE"] ELSE cart
           /\ line' = [line EXCEPT ![j.cart][j.product] = j.quantity]
           /\ hold' = [hold EXCEPT ![j.cart][j.product] = new]
           /\ saved' = saved \union {j}
           /\ session' = Touch(j.cart)
           /\ Ends(r)
           /\ UNCHANGED <<listed, rejected>>
  <2>1. j \in KeyedJob
    BY DEF Reserve, CartInv, HandlersInv, JobFitsPoint
  <2>2. j.cart \in Carts /\ j.product \in Products /\ j.quantity \in Nat \ {0}
    BY <2>1, QuantityAssumption DEF KeyedJob
  <2>3. RowsOK'
    <3>1. reserved' \in [Products -> Nat] /\ \A p \in Products : reserved'[p] <= OnHand[p]
      <4>1. /\ reserved \in [Products -> Nat] /\ OnHand[j.product] \in Nat
            /\ \A p \in Products : reserved[p] <= OnHand[p]
        BY <2>2, StockAssumption DEF CartInv, RowsInv, RowsOK
      <4>2. reserved[j.product] + j.quantity \in Nat
        BY <2>2, <4>1
      <4>3. reserved[j.product] + j.quantity <= OnHand[j.product]
        BY <1>2, <2>2, <4>1
      <4>4. QED
        BY <1>2, <2>2, <4>1, <4>2, <4>3
    <3>2. new \in Hold
      BY <2>2 DEF Hold, HoldStatus
    <3>3. hold' \in [Carts -> [Products -> Hold]]
      BY <1>2, <2>2, <3>2 DEF CartInv, RowsInv, RowsOK
    <3>4. line' \in [Carts -> [Products -> Nat]]
      BY <1>2, <2>2 DEF CartInv, RowsInv, RowsOK
    <3>5. cart' \in [Carts -> {"NONE", "ACTIVE", "CLOSED"}]
      BY <1>2 DEF CartInv, RowsInv, RowsOK
    <3>6. session' \in [Carts -> {"LIVE", "EXPIRED", "REVOKED"}]
      BY <1>2 DEF CartInv, RowsInv, RowsOK, Touch
    <3>7. QED
      BY <1>2, <2>1, <3>1, <3>3, <3>4, <3>5, <3>6 DEF CartInv, RowsInv, RowsOK
  <2>4. LineHasHold'
    BY <1>2, <2>2 DEF CartInv, RowsInv, RowsOK, LineHasHold
  <2>5. HoldsKept
    BY <1>2, <2>2 DEF CartInv, RowsInv, RowsOK, HoldsKept
  <2>6. HandlersInv'
    BY <1>2, <2>5, EndingIsSafe DEF CartInv, HandlersInv, HandlersOK
  <2>7. QED
    BY <2>3, <2>4, <2>6 DEF CartInv, RowsInv
<1>3. QED
  BY <1>1, <1>2 DEF Reserve

(* An adjustment leaves a positive quantity.                               *)
LEMMA TargetPositive ==
    ASSUME CartInv, NEW r \in Requests, job[r] \in KeyedJob
    PROVE  Target(r) \in Nat \ {0}
<1>1. job[r].quantity \in Nat \ {0}
  BY QuantityAssumption DEF KeyedJob
<1>2. seen[r].line \in Nat
  BY DEF CartInv, HandlersInv, HandlersOK, Seen
<1>3. QED
  BY <1>1, <1>2 DEF Target

(* The line that is raised alone exists, and stays positive.               *)
LEMMA RaiseLineAloneSafe ==
    ASSUME CartInv, NEW r \in Requests, RaiseLineAlone(r)
    PROVE  CartInv'
<1> DEFINE j == job[r]
<1>1. CASE RollBack(r)
  BY <1>1, GivingUpIsSafe DEF RaiseLineAlone
<1>2. CASE /\ line' = [line EXCEPT ![j.cart][j.product] = Target(r)]
           /\ saved' = saved \union {j}
           /\ session' = Touch(j.cart)
           /\ Ends(r)
           /\ UNCHANGED <<reserved, listed, cart, hold, rejected>>
  <2>1. j \in KeyedJob
    BY DEF RaiseLineAlone, CartInv, HandlersInv, JobFitsPoint
  <2>2. j.cart \in Carts /\ j.product \in Products
    BY <2>1 DEF KeyedJob
  <2>3. Target(r) \in Nat \ {0}
    BY <2>1, TargetPositive
  <2>4. hold[j.cart][j.product].status # "NONE"
    BY <2>2 DEF RaiseLineAlone, CartInv, HandlersInv, SeenRowsExist
  <2>5. RowsOK'
    <3>1. line' \in [Carts -> [Products -> Nat]]
      BY <1>2, <2>2, <2>3 DEF CartInv, RowsInv, RowsOK
    <3>2. session' \in [Carts -> {"LIVE", "EXPIRED", "REVOKED"}]
      BY <1>2 DEF CartInv, RowsInv, RowsOK, Touch
    <3>3. QED
      BY <1>2, <2>1, <3>1, <3>2 DEF CartInv, RowsInv, RowsOK
  <2>6. LineHasHold'
    BY <1>2, <2>2, <2>3, <2>4 DEF CartInv, RowsInv, RowsOK, LineHasHold
  <2>7. HandlersInv'
    BY <1>2, EndingIsSafe DEF CartInv, HandlersInv, HandlersOK, HoldsKept
  <2>8. QED
    BY <2>5, <2>6, <2>7 DEF CartInv, RowsInv
<1>3. QED
  BY <1>1, <1>2 DEF RaiseLineAlone

LEMMA AdjustReservationSafe ==
    ASSUME CartInv, NEW r \in Requests, AdjustReservation(r)
    PROVE  CartInv'
<1> DEFINE j == job[r]
           p == j.product
           after == [reserved EXCEPT ![p] = @ + (Target(r) - seen[r].held)]
<1>1. CASE Refuse(r) \/ RollBack(r)
  BY <1>1, GivingUpIsSafe DEF AdjustReservation
<1>2. CASE /\ StockCheck(after)
           /\ reserved' = after
           /\ hold' = [hold EXCEPT ![j.cart][p] = Adjusted(r)]
           /\ line' = [line EXCEPT ![j.cart][p] = Target(r)]
           /\ saved' = saved \union {j}
           /\ session' = Touch(j.cart)
           /\ Ends(r)
           /\ UNCHANGED <<listed, cart, rejected>>
  <2>1. j \in KeyedJob
    BY DEF AdjustReservation, CartInv, HandlersInv, JobFitsPoint
  <2>2. j.cart \in Carts /\ p \in Products
    BY <2>1 DEF KeyedJob
  <2>3. Target(r) \in Nat \ {0}
    BY <2>1, TargetPositive
  <2>4. hold[j.cart][p] \in Hold /\ hold[j.cart][p].status # "NONE"
    <3>1. pc[r] = "adjusting"
      BY DEF AdjustReservation
    <3>2. hold[j.cart][p].status # "NONE"
      BY <3>1 DEF CartInv, HandlersInv, SeenRowsExist
    <3>3. hold[j.cart][p] \in Hold
      BY <2>2 DEF CartInv, RowsInv, RowsOK
    <3> QED BY <3>2, <3>3
  <2>5. /\ Adjusted(r) \in Hold
        /\ Adjusted(r).quantity = Target(r)
        /\ Adjusted(r).status = hold[j.cart][p].status
    BY <2>3, <2>4 DEF Adjusted, Hold
  <2>6. RowsOK'
    <3>1. reserved' \in [Products -> Nat] /\ \A q \in Products : reserved'[q] <= OnHand[q]
      BY <1>2 DEF StockCheck
    <3>2. hold' \in [Carts -> [Products -> Hold]]
      BY <1>2, <2>2, <2>5 DEF CartInv, RowsInv, RowsOK
    <3>3. line' \in [Carts -> [Products -> Nat]]
      BY <1>2, <2>2, <2>3 DEF CartInv, RowsInv, RowsOK
    <3>4. session' \in [Carts -> {"LIVE", "EXPIRED", "REVOKED"}]
      BY <1>2 DEF CartInv, RowsInv, RowsOK, Touch
    <3>5. QED
      BY <1>2, <2>1, <3>1, <3>2, <3>3, <3>4 DEF CartInv, RowsInv, RowsOK
  <2>7. LineHasHold'
    BY <1>2, <2>2, <2>3, <2>4, <2>5 DEF CartInv, RowsInv, RowsOK, LineHasHold
  <2>8. HoldsKept
    BY <1>2, <2>2, <2>4, <2>5 DEF CartInv, RowsInv, RowsOK, HoldsKept
  <2>9. HandlersInv'
    BY <1>2, <2>8, EndingIsSafe DEF CartInv, HandlersInv, HandlersOK
  <2>10. QED
    BY <2>6, <2>7, <2>9 DEF CartInv, RowsInv
<1>3. QED
  BY <1>1, <1>2 DEF AdjustReservation

LEMMA ReleaseAllForCartSafe ==
    ASSUME CartInv, NEW r \in Requests, ReleaseAllForCart(r)
    PROVE  CartInv'
<1> DEFINE c == job[r].cart
           open == seen[r].open
           freed == [p \in Products |->
                       IF open[p] > 0 THEN [hold[c][p] EXCEPT !.status = "RELEASED"]
                       ELSE hold[c][p]]
<1>1. job[r] \in SessionJob /\ c \in Carts
  BY DEF ReleaseAllForCart, CartInv, HandlersInv, JobFitsPoint, SessionJob
<1>2. open \in [Products -> Nat]
  BY DEF CartInv, HandlersInv, HandlersOK, Seen
<1>3. hold' = [hold EXCEPT ![c] = freed]
  BY <1>1 DEF ReleaseAllForCart, CartInv, RowsInv, RowsOK
<1>4. \A p \in Products :
         /\ hold[c][p] \in Hold
         /\ open[p] > 0 => hold[c][p].status # "NONE"
  BY <1>1 DEF ReleaseAllForCart, CartInv, HandlersInv, SeenRowsExist, RowsInv, RowsOK
<1>5. \A p \in Products :
         /\ freed[p] \in Hold
         /\ freed[p].quantity = hold[c][p].quantity
         /\ freed[p].status = "NONE" <=> hold[c][p].status = "NONE"
  BY <1>4 DEF Hold, HoldStatus
<1>6. RowsOK'
  <2>1. reserved' \in [Products -> Nat] /\ \A p \in Products : reserved'[p] <= OnHand[p]
    BY <1>2, StockAssumption DEF ReleaseAllForCart, Returned, CartInv, RowsInv, RowsOK
  <2>2. hold' \in [Carts -> [Products -> Hold]]
    <3>1. freed \in [Products -> Hold]
      BY <1>5
    <3>2. QED
      BY <1>1, <1>3, <3>1 DEF CartInv, RowsInv, RowsOK
  <2>3. QED
    BY <2>1, <2>2 DEF ReleaseAllForCart, CartInv, RowsInv, RowsOK
<1>7. LineHasHold'
  BY <1>1, <1>3, <1>5 DEF ReleaseAllForCart, CartInv, RowsInv, RowsOK, LineHasHold
<1>8. HoldsKept
  BY <1>1, <1>3, <1>5 DEF CartInv, RowsInv, RowsOK, HoldsKept
<1>9. HandlersInv'
  <2>1. HandlersOK'
    <3>1. NothingSeen \in Seen
      BY DEF NothingSeen, Seen
    <3>2. QED
      BY <3>1 DEF ReleaseAllForCart, CartInv, HandlersInv, HandlersOK, Points
  <2>2. pc'[r] \in {"closing", "revoking"} /\ job' = job
    BY DEF ReleaseAllForCart, CartInv, HandlersInv, HandlersOK
  <2>3. \A s \in Requests \ {r} : pc'[s] = pc[s] /\ seen'[s] = seen[s]
    BY DEF ReleaseAllForCart, CartInv, HandlersInv, HandlersOK
  <2>4. JobFitsPoint'
    BY <1>1, <2>2, <2>3 DEF CartInv, HandlersInv, JobFitsPoint
  <2>5. SeenRowsExist'
    <3>1. \A s \in Requests : pc[s] \in {"lineLock", "adjusting"} =>
             job[s].cart \in Carts /\ job[s].product \in Products
      BY DEF CartInv, HandlersInv, JobFitsPoint, KeyedJob
    <3>2. \A s \in Requests : pc[s] = "releasing" => job[s].cart \in Carts
      BY DEF CartInv, HandlersInv, JobFitsPoint, SessionJob
    <3>3. QED
      BY <1>8, <2>2, <2>3, <3>1, <3>2 DEF CartInv, HandlersInv, SeenRowsExist, HoldsKept
  <2>6. QED
    BY <2>1, <2>4, <2>5 DEF HandlersInv
<1>10. QED
  BY <1>6, <1>7, <1>9 DEF CartInv, RowsInv

LEMMA CloseCartSafe ==
    ASSUME CartInv, NEW r \in Requests, CloseCart(r)
    PROVE  CartInv'
<1>1. RowsInv'
  BY DEF CloseCart, CartInv, RowsInv, RowsOK, LineHasHold
<1>2. HandlersOK'
  BY DEF CloseCart, CartInv, HandlersInv, HandlersOK, Points
<1>3. JobFitsPoint'
  BY DEF CloseCart, CartInv, HandlersInv, HandlersOK, JobFitsPoint
<1>4. SeenRowsExist'
  BY DEF CloseCart, CartInv, HandlersInv, HandlersOK, SeenRowsExist
<1>5. QED
  BY <1>1, <1>2, <1>3, <1>4 DEF CartInv, HandlersInv

LEMMA RevokeSessionSafe ==
    ASSUME CartInv, NEW r \in Requests, RevokeSession(r)
    PROVE  CartInv'
<1>1. RowsInv' /\ HoldsKept
  BY DEF RevokeSession, CartInv, RowsInv, RowsOK, LineHasHold, HoldsKept
<1>2. HandlersInv'
  BY <1>1, EndingIsSafe DEF RevokeSession, CartInv, HandlersInv, HandlersOK
<1>3. QED
  BY <1>1, <1>2 DEF CartInv

-----------------------------------------------------------------------------
(* The steps that are nobody's request.                                    *)

(* A step that leaves the handlers alone and deletes no reservation row.   *)
LEMMA HandlersUntouched ==
    ASSUME HandlersInv, HoldsKept, UNCHANGED <<pc, job, seen, rejected>>
    PROVE  HandlersInv'
<1>1. \A s \in Requests : pc[s] \in {"lineLock", "adjusting"} =>
         job[s].cart \in Carts /\ job[s].product \in Products
  BY DEF HandlersInv, JobFitsPoint, KeyedJob
<1>2. \A s \in Requests : pc[s] = "releasing" => job[s].cart \in Carts
  BY DEF HandlersInv, JobFitsPoint, SessionJob
<1>3. SeenRowsExist'
  BY <1>1, <1>2 DEF HandlersInv, SeenRowsExist, HoldsKept
<1>4. QED
  BY <1>3 DEF HandlersInv, HandlersOK, JobFitsPoint

LEMMA ExpireReservationsSafe ==
    ASSUME CartInv, ExpireReservations
    PROVE  CartInv'
<1>1. PICK batch \in SUBSET DueHolds : \E fitting \in SUBSET batch : ExpireBatch(batch, fitting)
  BY DEF ExpireReservations
<1>2. PICK fitting \in SUBSET batch : ExpireBatch(batch, fitting)
  BY <1>1
<1>3. \A c \in Carts, p \in Products :
         /\ hold'[c][p] \in Hold
         /\ hold'[c][p].quantity = hold[c][p].quantity
         /\ hold'[c][p].status = "NONE" <=> hold[c][p].status = "NONE"
  <2> SUFFICES ASSUME NEW c \in Carts, NEW p \in Products
               PROVE  /\ hold'[c][p] \in Hold
                      /\ hold'[c][p].quantity = hold[c][p].quantity
                      /\ hold'[c][p].status = "NONE" <=> hold[c][p].status = "NONE"
    OBVIOUS
  <2>1. hold[c][p] \in Hold
    BY DEF CartInv, RowsInv, RowsOK
  <2>2. <<c, p>> \in batch => hold[c][p].status = "ACTIVE"
    BY DEF DueHolds
  <2>3. hold'[c][p] = IF <<c, p>> \in batch
                      THEN [hold[c][p] EXCEPT !.status = "EXPIRED"] ELSE hold[c][p]
    BY <1>2 DEF ExpireBatch
  <2>4. QED
    BY <2>1, <2>2, <2>3 DEF Hold, HoldStatus
<1>4. RowsOK'
  <2>1. reserved' \in [Products -> Nat] /\ \A p \in Products : reserved'[p] <= OnHand[p]
    BY <1>2 DEF ExpireBatch, StockCheck
  <2>2. hold' \in [Carts -> [Products -> Hold]]
    <3>1. hold' = [c \in Carts |-> [p \in Products |-> hold'[c][p]]]
      BY <1>2 DEF ExpireBatch
    <3>2. QED
      BY <1>3, <3>1
  <2>3. QED
    BY <1>2, <2>1, <2>2 DEF ExpireBatch, CartInv, RowsInv, RowsOK
<1>5. LineHasHold'
  BY <1>2, <1>3 DEF ExpireBatch, CartInv, RowsInv, LineHasHold
<1>6. HandlersInv'
  BY <1>2, <1>3, HandlersUntouched DEF ExpireBatch, CartInv, HoldsKept
<1>7. QED
  BY <1>4, <1>5, <1>6 DEF CartInv, RowsInv

LEMMA HoldFallsDueSafe ==
    ASSUME CartInv, NEW c \in Carts, NEW p \in Products, HoldFallsDue(c, p)
    PROVE  CartInv'
<1>1. hold[c][p] \in Hold
  BY DEF CartInv, RowsInv, RowsOK
<1>2. [hold[c][p] EXCEPT !.expiry = "DUE"] \in Hold
  BY <1>1 DEF Hold
<1>3. hold' = [hold EXCEPT ![c][p] = [@ EXCEPT !.expiry = "DUE"]]
  BY DEF HoldFallsDue
<1>4. hold' \in [Carts -> [Products -> Hold]]
  BY <1>2, <1>3 DEF CartInv, RowsInv, RowsOK
<1>5. \A d \in Carts, q \in Products :
         hold'[d][q].quantity = hold[d][q].quantity /\ hold'[d][q].status = hold[d][q].status
  BY <1>1, <1>3 DEF CartInv, RowsInv, RowsOK, Hold
<1>6. RowsInv'
  BY <1>4, <1>5 DEF HoldFallsDue, CartInv, RowsInv, RowsOK, LineHasHold
<1>7. HandlersInv'
  BY <1>5, HandlersUntouched DEF HoldFallsDue, CartInv, HoldsKept
<1>8. QED
  BY <1>6, <1>7 DEF CartInv

LEMMA SessionExpiresSafe ==
    ASSUME CartInv, NEW c \in Carts, SessionExpires(c)
    PROVE  CartInv'
<1>1. RowsInv' /\ HoldsKept
  BY DEF SessionExpires, CartInv, RowsInv, RowsOK, LineHasHold, HoldsKept
<1>2. QED
  BY <1>1, HandlersUntouched DEF SessionExpires, CartInv

LEMMA DelistProductSafe ==
    ASSUME CartInv, NEW p \in Products, DelistProduct(p)
    PROVE  CartInv'
<1>1. RowsInv' /\ HoldsKept
  BY DEF DelistProduct, CartInv, RowsInv, RowsOK, LineHasHold, HoldsKept
<1>2. QED
  BY <1>1, HandlersUntouched DEF DelistProduct, CartInv

-----------------------------------------------------------------------------
(* The invariant is inductive.                                             *)
LEMMA StepPreserves == CartInv /\ [Next]_vars => CartInv'
<1> SUFFICES ASSUME CartInv, [Next]_vars PROVE CartInv'
  OBVIOUS
<1>1. ASSUME NEW r \in Requests, AdmitKeyed(r) \/ AdmitSession(r) PROVE CartInv'
  BY <1>1, AdmitSafe
<1>2. ASSUME NEW r \in Requests, Handler(r) PROVE CartInv'
  BY <1>2, GetCartSafe, AddCartItemSafe, FindLineSafe, ReserveSafe, LockLineSafe,
     RaiseLineAloneSafe,
     SetCartItemQuantitySafe, AdjustReservationSafe, RemoveCartItemSafe,
     ReadActiveHoldsSafe, ReleaseAllForCartSafe, CloseCartSafe, RevokeSessionSafe
     DEF Handler
<1>3. ASSUME NEW r \in Requests, Abort(r) PROVE CartInv'
  BY <1>3, GivingUpIsSafe DEF Abort
<1>4. CASE ExpireReservations
  BY <1>4, ExpireReservationsSafe
<1>5. ASSUME NEW c \in Carts, NEW p \in Products, HoldFallsDue(c, p) PROVE CartInv'
  BY <1>5, HoldFallsDueSafe
<1>6. ASSUME NEW c \in Carts, SessionExpires(c) PROVE CartInv'
  BY <1>6, SessionExpiresSafe
<1>7. ASSUME NEW p \in Products, DelistProduct(p) PROVE CartInv'
  BY <1>7, DelistProductSafe
<1>8. CASE UNCHANGED vars
  BY <1>8 DEF vars, rows, CartInv, HandlersInv, HandlersOK, JobFitsPoint,
     SeenRowsExist, RowsInv, RowsOK, LineHasHold
<1>9. QED
  BY <1>1, <1>2, <1>3, <1>4, <1>5, <1>6, <1>7, <1>8 DEF Next

(* CartInv holds in every reachable state.                                 *)
LEMMA CartInvariant == Spec => []CartInv
BY InitEstablishes, StepPreserves, PTL DEF Spec

-----------------------------------------------------------------------------
(* Every table respects its CHECKs and every handler its types: stock is   *)
(* never oversold, 0 <= stock_reserved <= stock_on_hand, however requests, *)
(* the reaper and logouts interleave.                                      *)
THEOREM TypeCorrect == Spec => []TypeOK
<1>1. CartInv => TypeOK
  BY DEF CartInv, HandlersInv, RowsInv, TypeOK
<1>2. QED
  BY <1>1, CartInvariant, PTL

(* A cart line and its reservation exist together, whatever requests have  *)
(* read before the locks they took, and wherever one of them was refused,  *)
(* rolled back or killed.                                                  *)
THEOREM LinesHaveHolds == Spec => []LineHasHold
<1>1. CartInv => LineHasHold
  BY DEF CartInv, RowsInv
<1>2. QED
  BY <1>1, CartInvariant, PTL

(* Reserve, AdjustReservation and RaiseLineAlone write cart_items, and     *)
(* each saves a key that was free: no request changes a line twice.        *)
THEOREM LineChangesAreFresh == Spec => LineChangeSavesFreshKey
<1> DEFINE Fresh ==
        \A c \in Carts, p \in Products :
            line'[c][p] # line[c][p] =>
                \E j \in saved' \ saved :
                    /\ j.cart = c /\ j.product = p
                    /\ \A s \in saved : ~SameKey(s, j)
<1>1. CartInv /\ [Next]_vars => Fresh
  <2> SUFFICES ASSUME CartInv, [Next]_vars,
                      NEW c \in Carts, NEW p \in Products, line'[c][p] # line[c][p]
               PROVE  \E j \in saved' \ saved :
                          /\ j.cart = c /\ j.product = p
                          /\ \A s \in saved : ~SameKey(s, j)
    OBVIOUS
  <2>1. PICK r \in Requests : Reserve(r) \/ AdjustReservation(r) \/ RaiseLineAlone(r)
    BY ZenonT(60) DEF Next, Handler, AdmitKeyed, AdmitSession, Abort, Refuse, RollBack, GetCart,
       AddCartItem, FindLine, LockLine, SetCartItemQuantity, RemoveCartItem, ReadActiveHolds,
       ReleaseAllForCart, CloseCart, RevokeSession, ExpireReservations, ExpireBatch,
       HoldFallsDue, SessionExpires, DelistProduct, rows, vars
  <2> DEFINE j == job[r]
  <2>2. /\ ~KeyTaken(j)
        /\ saved' = saved \union {j}
        /\ \E q : line' = [line EXCEPT ![j.cart][j.product] = q]
    BY <2>1 DEF Reserve, AdjustReservation, RaiseLineAlone, Refuse, RollBack, rows
  <2>3. j \notin saved /\ \A s \in saved : ~SameKey(s, j)
    BY <2>2 DEF KeyTaken, SameKey
  <2>4. j.cart = c /\ j.product = p
    BY <2>2 DEF CartInv, RowsInv, RowsOK
  <2>5. QED
    BY <2>2, <2>3, <2>4
<1>2. QED
  BY <1>1, CartInvariant, PTL DEF Spec, LineChangeSavesFreshKey

(* Once its units were given back, or consumed, a reservation stays        *)
(* closed: an update by id after a stale read never reopens it.            *)
THEOREM ClosedHoldsStayClosed == Spec => ClosedHoldsNeverReopen
<1> DEFINE Closed ==
        \A c \in Carts, p \in Products :
            hold[c][p].status \in ClosedHold => hold'[c][p].status \notin OpenHold
<1>1. CartInv /\ [Next]_vars => Closed
  <2> SUFFICES ASSUME CartInv, [Next]_vars, NEW c \in Carts, NEW p \in Products,
                      hold[c][p].status \in ClosedHold
               PROVE  hold'[c][p].status \notin OpenHold
    OBVIOUS
  <2>1. hold[c][p].status \notin OpenHold /\ hold[c][p] \in Hold
    BY DEF OpenHold, ClosedHold, CartInv, RowsInv, RowsOK
  <2>2. CASE UNCHANGED hold
    BY <2>1, <2>2
  <2>3. ASSUME NEW r \in Requests, Reserve(r), hold' # hold
        PROVE  hold'[c][p] = hold[c][p]
    <3> DEFINE j == job[r]
    <3>1. /\ line[j.cart][j.product] = 0
          /\ \E h : hold' = [hold EXCEPT ![j.cart][j.product] = h]
      BY <2>3 DEF Reserve, Refuse, RollBack, rows
    <3>2. j.cart \in Carts /\ j.product \in Products
      BY <2>3 DEF Reserve, CartInv, HandlersInv, JobFitsPoint, KeyedJob
    <3>3. hold[j.cart][j.product].status = "NONE"
      BY <3>1, <3>2 DEF CartInv, RowsInv, LineHasHold
    <3>4. ~(j.cart = c /\ j.product = p)
      BY <3>3 DEF ClosedHold
    <3>5. QED
      BY <3>1, <3>2, <3>4 DEF CartInv, RowsInv, RowsOK
  <2>4. ASSUME NEW r \in Requests, AdjustReservation(r), hold' # hold
        PROVE  hold'[c][p].status = hold[c][p].status
    <3> DEFINE j == job[r]
    <3>1. hold' = [hold EXCEPT ![j.cart][j.product] = Adjusted(r)]
      BY <2>4 DEF AdjustReservation, Refuse, RollBack, rows
    <3>2. j.cart \in Carts /\ j.product \in Products
      BY <2>4 DEF AdjustReservation, CartInv, HandlersInv, JobFitsPoint, KeyedJob
    <3>3. hold[j.cart][j.product] \in Hold
      BY <3>2 DEF CartInv, RowsInv, RowsOK
    <3>4. Adjusted(r).status = hold[j.cart][j.product].status
      BY <3>3 DEF Adjusted, Hold
    <3>5. QED
      BY <3>1, <3>2, <3>4 DEF CartInv, RowsInv, RowsOK
  <2>5. ASSUME NEW r \in Requests, ReleaseAllForCart(r)
        PROVE  hold'[c][p].status \in {hold[c][p].status, "RELEASED"}
    <3>1. job[r].cart \in Carts
      BY <2>5 DEF ReleaseAllForCart, CartInv, HandlersInv, JobFitsPoint, SessionJob
    <3>2. CASE job[r].cart = c
      <4>1. hold'[c] = [q \in Products |->
                          IF seen[r].open[q] > 0
                          THEN [hold[c][q] EXCEPT !.status = "RELEASED"] ELSE hold[c][q]]
        BY <2>5, <3>1, <3>2 DEF ReleaseAllForCart, CartInv, RowsInv, RowsOK
      <4>2. QED
        BY <2>1, <4>1 DEF Hold
    <3>3. CASE job[r].cart # c
      BY <2>5, <3>1, <3>3 DEF ReleaseAllForCart, CartInv, RowsInv, RowsOK
    <3>4. QED
      BY <3>2, <3>3
  <2>6. ASSUME ExpireReservations
        PROVE  hold'[c][p].status \in {hold[c][p].status, "EXPIRED"}
    <3>1. PICK batch \in SUBSET DueHolds :
             hold'[c][p] = IF <<c, p>> \in batch
                           THEN [hold[c][p] EXCEPT !.status = "EXPIRED"] ELSE hold[c][p]
      BY <2>6 DEF ExpireReservations, ExpireBatch
    <3>2. QED
      BY <2>1, <3>1 DEF Hold
  <2>7. ASSUME NEW d \in Carts, NEW q \in Products, HoldFallsDue(d, q)
        PROVE  hold'[c][p].status = hold[c][p].status
    <3>1. hold' = [hold EXCEPT ![d][q] = [@ EXCEPT !.expiry = "DUE"]]
      BY <2>7 DEF HoldFallsDue
    <3>2. QED
      BY <2>1, <3>1 DEF CartInv, RowsInv, RowsOK, Hold
  <2>8. \/ UNCHANGED hold
        \/ \E r \in Requests : Reserve(r) \/ AdjustReservation(r) \/ ReleaseAllForCart(r)
        \/ ExpireReservations
        \/ \E d \in Carts, q \in Products : HoldFallsDue(d, q)
    BY ZenonT(60) DEF Next, Handler, AdmitKeyed, AdmitSession, Abort, Refuse, RollBack, GetCart,
       AddCartItem, FindLine, LockLine, RaiseLineAlone, SetCartItemQuantity,
       RemoveCartItem, ReadActiveHolds, CloseCart, RevokeSession, SessionExpires,
       DelistProduct, rows, vars
  <2>9. QED
    BY <2>1, <2>2, <2>3, <2>4, <2>5, <2>6, <2>7, <2>8 DEF OpenHold
<1>2. QED
  BY <1>1, CartInvariant, PTL DEF Spec, ClosedHoldsNeverReopen

-----------------------------------------------------------------------------
(* What the cart guarantees when its transactions run one at a time: the   *)
(* hazards of the cart are interleavings.                                  *)

(* The inductive invariant of a serialized run.                            *)

(* At most one handler has a transaction open.                             *)
Alone ==
    \A r, s \in Requests : pc[r] \in InTransaction /\ pc[s] \in InTransaction => r = s

(* What a transaction has read and not locked is still true.               *)
Informed(r) ==
    LET c == job[r].cart
        p == job[r].product
    IN
    /\ pc[r] = "finding" => (seen[r].known <=> line[c][p] # 0)
    /\ pc[r] = "lineLock" => seen[r].known
    /\ pc[r] = "adjusting" =>
          hold[c][p].status = "ACTIVE" /\ hold[c][p].quantity = seen[r].held
    /\ pc[r] = "releasing" =>
          \A q \in Products :
              seen[r].open[q] = IF hold[c][q].status = "ACTIVE" THEN hold[c][q].quantity ELSE 0

AllInformed == \A r \in Requests : Informed(r)

SerialInv == Alone /\ AllInformed /\ LineMatchesHold

LEMMA SerialInit == Init => SerialInv
BY DEF Init, SerialInv, Alone, AllInformed, Informed, LineMatchesHold, InTransaction, NoHold

-----------------------------------------------------------------------------
(* Lemmas about parts of a step.                                           *)

(* Handlers other than r stand where they stood.                           *)
OthersKept(r) ==
    \A s \in Requests \ {r} : pc'[s] = pc[s] /\ job'[s] = job[s] /\ seen'[s] = seen[s]

LEMMA EndingKeepsOthers ==
    ASSUME CartInv, NEW r \in Requests, Ends(r)
    PROVE  pc'[r] = "idle" /\ OthersKept(r)
BY DEF CartInv, HandlersInv, HandlersOK, Ends, OthersKept

(* A handler outside any transaction moves to a point outside any, and no  *)
(* line or reservation is written.                                         *)
LEMMA OutsideIsSafe ==
    ASSUME SerialInv, NEW r \in Requests, OthersKept(r), pc'[r] \notin InTransaction,
           UNCHANGED <<line, hold>>
    PROVE  SerialInv'
BY DEF SerialInv, Alone, AllInformed, Informed, LineMatchesHold, OthersKept, InTransaction

(* The only open transaction commits: nobody is left to be misinformed.    *)
LEMMA CommittingIsSafe ==
    ASSUME SerialInv, NEW r \in Requests, OthersKept(r), pc[r] \in InTransaction,
           pc'[r] \notin InTransaction, LineMatchesHold'
    PROVE  SerialInv'
<1>1. \A s \in Requests : pc'[s] \notin InTransaction
  BY DEF SerialInv, Alone, OthersKept
<1>2. QED
  BY <1>1 DEF SerialInv, Alone, AllInformed, Informed, InTransaction

(* The only open transaction reads on, or the first one begins.            *)
LEMMA ReadingIsSafe ==
    ASSUME SerialInv, NEW r \in Requests, OthersKept(r),
           \A s \in Requests \ {r} : pc[s] \notin InTransaction,
           UNCHANGED <<line, hold>>, Informed(r)'
    PROVE  SerialInv'
<1>1. \A s \in Requests \ {r} : pc'[s] \notin InTransaction
  BY DEF OthersKept
<1>2. Alone'
  BY <1>1 DEF Alone
<1>3. AllInformed'
  BY <1>1 DEF AllInformed, Informed, InTransaction
<1>4. QED
  BY <1>2, <1>3 DEF SerialInv, LineMatchesHold

(* Giving up writes nothing.                                               *)
LEMMA SerialGivingUp ==
    ASSUME CartInv, SerialInv, NEW r \in Requests, Refuse(r) \/ RollBack(r)
    PROVE  SerialInv'
<1>1. Ends(r) /\ UNCHANGED <<line, hold>>
  BY DEF Refuse, RollBack, rows
<1>2. QED
  BY <1>1, EndingKeepsOthers, OutsideIsSafe DEF InTransaction

-----------------------------------------------------------------------------
(* The steps that read.                                                    *)

LEMMA SerialAddCartItem ==
    ASSUME Serialized, CartInv, SerialInv, NEW r \in Requests, AddCartItem(r)
    PROVE  SerialInv'
<1> DEFINE j == job[r]
           known == line[j.cart][j.product] # 0
<1>1. CASE Refuse(r)
  BY <1>1, SerialGivingUp
<1>2. CASE /\ pc' = [pc EXCEPT ![r] = IF cart[j.cart] = "NONE" THEN "reserving" ELSE "finding"]
           /\ seen' = [seen EXCEPT ![r].fresh = (cart[j.cart] = "NONE"), ![r].known = known]
           /\ UNCHANGED <<rows, job, rejected>>
  <2>1. OthersKept(r) /\ pc'[r] \in {"reserving", "finding"} /\ job'[r] = j
    BY <1>2 DEF CartInv, HandlersInv, HandlersOK, OthersKept
  <2>2. seen'[r].known = known
    BY <1>2 DEF CartInv, HandlersInv, HandlersOK, Seen
  <2>3. UNCHANGED <<line, hold>>
    BY <1>2 DEF rows
  <2>4. Informed(r)'
    BY <2>1, <2>2, <2>3 DEF Informed
  <2>5. \A s \in Requests : pc[s] \notin InTransaction
    BY DEF AddCartItem, MayBegin
  <2>6. QED
    BY <2>1, <2>3, <2>4, <2>5, ReadingIsSafe
<1>3. QED
  BY <1>1, <1>2 DEF AddCartItem

LEMMA SerialFindLine ==
    ASSUME CartInv, SerialInv, NEW r \in Requests, FindLine(r)
    PROVE  SerialInv'
<1> DEFINE j == job[r]
           found == line[j.cart][j.product]
<1>1. OthersKept(r) /\ pc'[r] = (IF found = 0 THEN "reserving" ELSE "lineLock") /\ job'[r] = j
  BY DEF FindLine, CartInv, HandlersInv, HandlersOK, OthersKept
<1>2. seen'[r].known = seen[r].known
  BY DEF FindLine, CartInv, HandlersInv, HandlersOK, Seen
<1>3. seen[r].known <=> found # 0
  BY DEF FindLine, SerialInv, AllInformed, Informed
<1>4. UNCHANGED <<line, hold>>
  BY DEF FindLine, rows
<1>5. Informed(r)'
  BY <1>1, <1>2, <1>3 DEF Informed
<1>6. \A s \in Requests \ {r} : pc[s] \notin InTransaction
  BY DEF FindLine, SerialInv, Alone, InTransaction
<1>7. QED
  BY <1>1, <1>4, <1>5, <1>6, ReadingIsSafe

LEMMA SerialLockLine ==
    ASSUME CartInv, SerialInv, NEW r \in Requests, LockLine(r)
    PROVE  SerialInv'
<1> DEFINE j == job[r]
           h == hold[j.cart][j.product]
<1>1. CASE Refuse(r)
  BY <1>1, SerialGivingUp
<1>2. CASE /\ h.status = "ACTIVE"
           /\ pc' = [pc EXCEPT ![r] = "adjusting"]
           /\ seen' = [seen EXCEPT ![r].held = h.quantity]
           /\ UNCHANGED <<rows, job, rejected>>
  <2>1. OthersKept(r) /\ pc'[r] = "adjusting" /\ job'[r] = j
    BY <1>2 DEF CartInv, HandlersInv, HandlersOK, OthersKept
  <2>2. seen'[r].held = h.quantity
    BY <1>2 DEF CartInv, HandlersInv, HandlersOK, Seen
  <2>3. UNCHANGED <<line, hold>>
    BY <1>2 DEF rows
  <2>4. Informed(r)'
    BY <1>2, <2>1, <2>2, <2>3 DEF Informed
  <2>5. \A s \in Requests \ {r} : pc[s] \notin InTransaction
    BY DEF LockLine, SerialInv, Alone, InTransaction
  <2>6. QED
    BY <2>1, <2>3, <2>4, <2>5, ReadingIsSafe
<1>3. QED
  BY <1>1, <1>2 DEF LockLine

LEMMA SerialSetCartItemQuantity ==
    ASSUME Serialized, CartInv, SerialInv, NEW r \in Requests, SetCartItemQuantity(r)
    PROVE  SerialInv'
<1> DEFINE j == job[r]
           h == hold[j.cart][j.product]
<1>1. CASE Refuse(r)
  BY <1>1, SerialGivingUp
<1>2. CASE /\ h.status = "ACTIVE"
           /\ pc' = [pc EXCEPT ![r] = "adjusting"]
           /\ seen' = [seen EXCEPT ![r].line = line[j.cart][j.product], ![r].held = h.quantity]
           /\ UNCHANGED <<rows, job, rejected>>
  <2>1. OthersKept(r) /\ pc'[r] = "adjusting" /\ job'[r] = j
    BY <1>2 DEF CartInv, HandlersInv, HandlersOK, OthersKept
  <2>2. seen'[r].held = h.quantity
    BY <1>2 DEF CartInv, HandlersInv, HandlersOK, Seen
  <2>3. UNCHANGED <<line, hold>>
    BY <1>2 DEF rows
  <2>4. Informed(r)'
    BY <1>2, <2>1, <2>2, <2>3 DEF Informed
  <2>5. \A s \in Requests : pc[s] \notin InTransaction
    BY DEF SetCartItemQuantity, MayBegin
  <2>6. QED
    BY <2>1, <2>3, <2>4, <2>5, ReadingIsSafe
<1>3. QED
  BY <1>1, <1>2 DEF SetCartItemQuantity

LEMMA SerialReadActiveHolds ==
    ASSUME Serialized, CartInv, SerialInv, NEW r \in Requests, ReadActiveHolds(r)
    PROVE  SerialInv'
<1> DEFINE c == job[r].cart
           open == [p \in Products |->
                      IF hold[c][p].status = "ACTIVE" THEN hold[c][p].quantity ELSE 0]
<1>1. OthersKept(r) /\ pc'[r] = "releasing" /\ job'[r] = job[r]
  BY DEF ReadActiveHolds, CartInv, HandlersInv, HandlersOK, OthersKept
<1>2. seen'[r].open = open
  BY DEF ReadActiveHolds, CartInv, HandlersInv, HandlersOK, Seen
<1>3. UNCHANGED <<line, hold>>
  BY DEF ReadActiveHolds, rows
<1>4. Informed(r)'
  BY <1>1, <1>2, <1>3 DEF Informed
<1>5. \A s \in Requests : pc[s] \notin InTransaction
  BY DEF ReadActiveHolds, MayBegin
<1>6. QED
  BY <1>1, <1>3, <1>4, <1>5, ReadingIsSafe

-----------------------------------------------------------------------------
(* The steps that write.                                                   *)

LEMMA SerialReserve ==
    ASSUME CartInv, SerialInv, NEW r \in Requests, Reserve(r)
    PROVE  SerialInv'
<1> DEFINE j == job[r]
<1>1. CASE Refuse(r) \/ RollBack(r)
  BY <1>1, SerialGivingUp
<1>2. CASE /\ line' = [line EXCEPT ![j.cart][j.product] = j.quantity]
           /\ hold' = [hold EXCEPT ![j.cart][j.product] =
                         [status |-> "ACTIVE", quantity |-> j.quantity, expiry |-> "RUNNING"]]
           /\ Ends(r)
  <2>1. j.cart \in Carts /\ j.product \in Products
    BY DEF Reserve, CartInv, HandlersInv, JobFitsPoint, KeyedJob
  <2>2. LineMatchesHold'
    BY <1>2, <2>1 DEF CartInv, RowsInv, RowsOK, SerialInv, LineMatchesHold
  <2>3. QED
    BY <1>2, <2>2, EndingKeepsOthers, CommittingIsSafe DEF Reserve, InTransaction
<1>3. QED
  BY <1>1, <1>2 DEF Reserve

LEMMA SerialAdjustReservation ==
    ASSUME CartInv, SerialInv, NEW r \in Requests, AdjustReservation(r)
    PROVE  SerialInv'
<1> DEFINE j == job[r]
<1>1. CASE Refuse(r) \/ RollBack(r)
  BY <1>1, SerialGivingUp
<1>2. CASE /\ hold' = [hold EXCEPT ![j.cart][j.product] = Adjusted(r)]
           /\ line' = [line EXCEPT ![j.cart][j.product] = Target(r)]
           /\ Ends(r)
  <2>1. j.cart \in Carts /\ j.product \in Products
    BY DEF AdjustReservation, CartInv, HandlersInv, JobFitsPoint, KeyedJob
  <2>2. hold[j.cart][j.product] \in Hold
    BY <2>1 DEF CartInv, RowsInv, RowsOK
  <2>3. Adjusted(r).quantity = Target(r)
    BY <2>2 DEF Adjusted, Hold
  <2>4. LineMatchesHold'
    BY <1>2, <2>1, <2>3 DEF CartInv, RowsInv, RowsOK, SerialInv, LineMatchesHold
  <2>5. QED
    BY <1>2, <2>4, EndingKeepsOthers, CommittingIsSafe DEF AdjustReservation, InTransaction
<1>3. QED
  BY <1>1, <1>2 DEF AdjustReservation

(* The line's reservation was among the items read: this step never runs.  *)
LEMMA SerialRaiseLineAlone ==
    ASSUME SerialInv, NEW r \in Requests
    PROVE  ~RaiseLineAlone(r)
BY DEF RaiseLineAlone, SerialInv, AllInformed, Informed

LEMMA SerialReleaseAllForCart ==
    ASSUME CartInv, SerialInv, NEW r \in Requests, ReleaseAllForCart(r)
    PROVE  SerialInv'
<1> DEFINE c == job[r].cart
           freed == [p \in Products |->
                       IF seen[r].open[p] > 0 THEN [hold[c][p] EXCEPT !.status = "RELEASED"]
                       ELSE hold[c][p]]
<1>1. c \in Carts
  BY DEF ReleaseAllForCart, CartInv, HandlersInv, JobFitsPoint, SessionJob
<1>2. hold' = [hold EXCEPT ![c] = freed] /\ line' = line
  BY <1>1 DEF ReleaseAllForCart, CartInv, RowsInv, RowsOK
<1>3. \A p \in Products : hold[c][p] \in Hold
  BY <1>1 DEF CartInv, RowsInv, RowsOK
<1>4. \A p \in Products : freed[p].quantity = hold[c][p].quantity
  BY <1>3 DEF Hold
<1>5. LineMatchesHold'
  BY <1>1, <1>2, <1>4 DEF CartInv, RowsInv, RowsOK, SerialInv, LineMatchesHold
<1>6. OthersKept(r) /\ pc'[r] \in {"closing", "revoking"}
  BY DEF ReleaseAllForCart, CartInv, HandlersInv, HandlersOK, OthersKept
<1>7. QED
  BY <1>5, <1>6, CommittingIsSafe DEF ReleaseAllForCart, InTransaction

(* The remaining steps of a request write neither lines nor reservations.  *)
LEMMA SerialOutside ==
    ASSUME CartInv, SerialInv, NEW r \in Requests,
           AdmitKeyed(r) \/ AdmitSession(r) \/ GetCart(r) \/ CloseCart(r) \/ RevokeSession(r)
    PROVE  SerialInv'
<1>1. UNCHANGED <<line, hold>>
  BY DEF AdmitKeyed, AdmitSession, GetCart, CloseCart, RevokeSession, rows
<1>2. OthersKept(r) /\ pc'[r] \in {"admitted", "idle", "revoking"}
  BY EndingKeepsOthers
     DEF AdmitKeyed, AdmitSession, GetCart, CloseCart, RevokeSession,
         CartInv, HandlersInv, HandlersOK, OthersKept
<1>3. QED
  BY <1>1, <1>2, OutsideIsSafe DEF InTransaction

LEMMA SerialExpireReservations ==
    ASSUME Serialized, CartInv, SerialInv, ExpireReservations
    PROVE  SerialInv'
<1>1. PICK batch \in SUBSET DueHolds : \E fitting \in SUBSET batch : ExpireBatch(batch, fitting)
  BY DEF ExpireReservations
<1>2. PICK fitting \in SUBSET batch : ExpireBatch(batch, fitting)
  BY <1>1
<1>3. \A s \in Requests : pc'[s] \notin InTransaction
  BY <1>2 DEF ExpireBatch, MayBegin
<1>4. \A c \in Carts, p \in Products :
         hold'[c][p] = IF <<c, p>> \in batch
                       THEN [hold[c][p] EXCEPT !.status = "EXPIRED"] ELSE hold[c][p]
  BY <1>2 DEF ExpireBatch
<1>5. \A c \in Carts, p \in Products : hold[c][p] \in Hold
  BY DEF CartInv, RowsInv, RowsOK
<1>6. ASSUME NEW c \in Carts, NEW p \in Products
      PROVE  hold'[c][p].quantity = hold[c][p].quantity
  <2>1. hold[c][p] \in Hold
    BY <1>5
  <2>2. CASE <<c, p>> \in batch
    <3>1. hold'[c][p] = [hold[c][p] EXCEPT !.status = "EXPIRED"]
      BY <1>4, <2>2
    <3>2. QED
      BY <2>1, <3>1 DEF Hold
  <2>3. CASE <<c, p>> \notin batch
    <3>1. hold'[c][p] = hold[c][p]
      BY <1>4, <2>3
    <3>2. QED
      BY <3>1
  <2>4. QED
    BY <2>2, <2>3
<1>7. LineMatchesHold'
  BY <1>2, <1>6 DEF ExpireBatch, SerialInv, LineMatchesHold
<1>8. QED
  BY <1>3, <1>7 DEF SerialInv, Alone, AllInformed, Informed, InTransaction

(* Time only makes a reservation due.                                      *)
LEMMA SerialHoldFallsDue ==
    ASSUME CartInv, SerialInv, NEW c \in Carts, NEW p \in Products, HoldFallsDue(c, p)
    PROVE  SerialInv'
<1>1. hold' = [hold EXCEPT ![c][p] = [@ EXCEPT !.expiry = "DUE"]]
  BY DEF HoldFallsDue
<1>2. \A d \in Carts, q \in Products :
         hold'[d][q].quantity = hold[d][q].quantity /\ hold'[d][q].status = hold[d][q].status
  BY <1>1 DEF CartInv, RowsInv, RowsOK, Hold
<1>3. UNCHANGED <<line, pc, job, seen>>
  BY DEF HoldFallsDue
<1>4. \A r \in Requests :
         /\ pc[r] = "adjusting" => job[r].cart \in Carts /\ job[r].product \in Products
         /\ pc[r] = "releasing" => job[r].cart \in Carts
  BY DEF CartInv, HandlersInv, JobFitsPoint, KeyedJob, SessionJob
<1>5. AllInformed'
  BY <1>2, <1>3, <1>4 DEF SerialInv, AllInformed, Informed
<1>6. QED
  BY <1>2, <1>3, <1>5 DEF SerialInv, Alone, LineMatchesHold

-----------------------------------------------------------------------------
LEMMA SerialStep ==
    ASSUME Serialized, CartInv, SerialInv, [Next]_vars
    PROVE  SerialInv'
<1>1. ASSUME NEW r \in Requests, AdmitKeyed(r) \/ AdmitSession(r) PROVE SerialInv'
  BY <1>1, SerialOutside
<1>2. ASSUME NEW r \in Requests, Handler(r) PROVE SerialInv'
  <2>1. CASE RemoveCartItem(r)
    BY <2>1, SerialGivingUp DEF RemoveCartItem
  <2>2. CASE GetCart(r) \/ CloseCart(r) \/ RevokeSession(r)
    BY <2>2, SerialOutside
  <2>3. CASE \/ AddCartItem(r) \/ FindLine(r) \/ LockLine(r) \/ SetCartItemQuantity(r)
             \/ ReadActiveHolds(r)
    BY <2>3, SerialAddCartItem, SerialFindLine, SerialLockLine,
       SerialSetCartItemQuantity, SerialReadActiveHolds
  <2>4. CASE \/ Reserve(r) \/ AdjustReservation(r) \/ RaiseLineAlone(r)
             \/ ReleaseAllForCart(r)
    BY <2>4, SerialReserve, SerialAdjustReservation, SerialRaiseLineAlone,
       SerialReleaseAllForCart
  <2>5. QED
    BY <1>2, <2>1, <2>2, <2>3, <2>4 DEF Handler
<1>3. ASSUME NEW r \in Requests, Abort(r) PROVE SerialInv'
  BY <1>3, SerialGivingUp DEF Abort
<1>4. CASE ExpireReservations
  BY <1>4, SerialExpireReservations
<1>5. ASSUME NEW c \in Carts, NEW p \in Products, HoldFallsDue(c, p) PROVE SerialInv'
  BY <1>5, SerialHoldFallsDue
<1>6. CASE UNCHANGED <<line, hold, pc, job, seen>>
  BY <1>6 DEF SerialInv, Alone, AllInformed, Informed, LineMatchesHold
<1>7. ASSUME NEW c \in Carts, SessionExpires(c) PROVE SerialInv'
  BY <1>6, <1>7 DEF SessionExpires
<1>8. ASSUME NEW p \in Products, DelistProduct(p) PROVE SerialInv'
  BY <1>6, <1>8 DEF DelistProduct
<1>9. CASE UNCHANGED vars
  BY <1>6, <1>9 DEF vars, rows
<1>10. QED
  BY <1>1, <1>2, <1>3, <1>4, <1>5, <1>7, <1>8, <1>9 DEF Next

LEMMA SerialInvariant ==
    ASSUME Serialized
    PROVE  Spec => []SerialInv
<1>1. CartInv /\ SerialInv /\ [Next]_vars => SerialInv'
  BY SerialStep
<1>2. QED
  BY <1>1, SerialInit, CartInvariant, PTL DEF Spec

-----------------------------------------------------------------------------
(* When transactions run one at a time, what a line says is reserved for   *)
(* it: only the interleaving of add-cart-item's two reads breaks it.       *)
THEOREM SerialLinesMatchHolds ==
    ASSUME Serialized
    PROVE  Spec => []LineMatchesHold
<1>1. SerialInv => LineMatchesHold
  BY DEF SerialInv
<1>2. QED
  BY <1>1, SerialInvariant, PTL

(* And the reservation a request is about to adjust or to release is as it *)
(* was read: the missing row locks do no harm without an interleaving.     *)
THEOREM SerialSnapshotsAreFresh ==
    ASSUME Serialized
    PROVE  Spec => []SnapshotFresh
<1>1. SerialInv => SnapshotFresh
  BY DEF SerialInv, AllInformed, Informed, SnapshotFresh
<1>2. QED
  BY <1>1, SerialInvariant, PTL

-----------------------------------------------------------------------------
(* Sums of quantities.                                                     *)

LEMMA UnitsFinite ==
    ASSUME NEW S, IsFiniteSet(S), NEW n, \A x \in S : n[x] \in Nat
    PROVE  IsFiniteSet(UNION {UnitsOf(x, n) : x \in S})
<1> DEFINE parts == {UnitsOf(x, n) : x \in S}
           f == [x \in S |-> UnitsOf(x, n)]
<1>1. \A t \in parts : IsFiniteSet(t)
  <2> SUFFICES ASSUME NEW x \in S PROVE IsFiniteSet({x} \X (1..n[x]))
    BY DEF UnitsOf
  <2>1. IsFiniteSet(1..n[x])
    BY FS_Interval
  <2>2. IsFiniteSet({x})
    BY FS_Singleton
  <2>3. QED
    BY <2>1, <2>2, FS_Product
<1>2. f \in Surjection(S, parts)
  BY DEF Surjection
<1>3. IsFiniteSet(parts)
  BY <1>2, FS_Surjection
<1>4. QED
  BY <1>1, <1>3, FS_UNION

LEMMA TotalIsNat ==
    ASSUME NEW S, IsFiniteSet(S), NEW n, \A x \in S : n[x] \in Nat
    PROVE  Total(n, S) \in Nat
BY UnitsFinite, FS_CardinalityType DEF Total

LEMMA TotalOfNone == ASSUME NEW n PROVE Total(n, {}) = 0
<1>1. UNION {UnitsOf(x, n) : x \in {}} = {}
  OBVIOUS
<1>2. QED
  BY <1>1, FS_EmptySet DEF Total

LEMMA TotalOfOne ==
    ASSUME NEW x, NEW n, n[x] \in Nat
    PROVE  Total(n, {x}) = n[x]
<1>1. Total(n, {x}) = Cardinality({x} \X (1..n[x]))
  <2>1. UNION {UnitsOf(y, n) : y \in {x}} = {x} \X (1..n[x])
    BY DEF UnitsOf
  <2>2. \A S : Total(n, S) = Cardinality(UNION {UnitsOf(y, n) : y \in S})
    BY DEF Total
  <2>3. QED
    BY <2>1, <2>2
<1>2. IsFiniteSet(1..n[x]) /\ Cardinality(1..n[x]) = n[x]
  BY FS_Interval, SMTT(30)
<1>3. IsFiniteSet({x}) /\ Cardinality({x}) = 1
  BY FS_Singleton
<1>4. Cardinality({x} \X (1..n[x])) = 1 * n[x]
  BY <1>2, <1>3, FS_Product, ZenonT(60)
<1>5. QED
  BY <1>1, <1>4

(* Only the quantities of the rows that are summed matter.                 *)
LEMMA TotalSame ==
    ASSUME NEW S, NEW n, NEW m, \A x \in S : n[x] = m[x]
    PROVE  Total(n, S) = Total(m, S)
<1>1. {UnitsOf(x, n) : x \in S} = {UnitsOf(x, m) : x \in S}
  BY DEF UnitsOf
<1>2. QED
  BY <1>1 DEF Total

(* The rows of disjoint sets share no unit.                                *)
LEMMA TotalSplits ==
    ASSUME NEW S, IsFiniteSet(S), NEW T \in SUBSET S, NEW n, \A x \in S : n[x] \in Nat
    PROVE  Total(n, S) = Total(n, T) + Total(n, S \ T)
<1> DEFINE U(R) == UNION {UnitsOf(x, n) : x \in R}
<1>1. IsFiniteSet(T) /\ IsFiniteSet(S \ T)
  BY FS_Subset
<1>2. IsFiniteSet(U(T)) /\ IsFiniteSet(U(S \ T))
  BY <1>1, UnitsFinite
<1>3. U(S) = U(T) \union U(S \ T)
  OBVIOUS
<1>4. U(T) \intersect U(S \ T) = {}
  BY DEF UnitsOf
<1>5. Cardinality(U(T)) \in Nat /\ Cardinality(U(S \ T)) \in Nat
  BY <1>2, FS_CardinalityType
<1>6. Cardinality(U(S)) = Cardinality(U(T)) + Cardinality(U(S \ T)) - Cardinality({})
  BY <1>2, <1>3, <1>4, FS_Union
<1>7. QED
  BY <1>5, <1>6, FS_EmptySet DEF Total

(* One row's contribution.                                                 *)
LEMMA TotalBut ==
    ASSUME NEW S, IsFiniteSet(S), NEW x \in S, NEW n, \A y \in S : n[y] \in Nat
    PROVE  Total(n, S) = n[x] + Total(n, S \ {x})
<1>1. {x} \in SUBSET S
  OBVIOUS
<1>2. Total(n, S) = Total(n, {x}) + Total(n, S \ {x})
  BY <1>1, TotalSplits
<1>3. QED
  BY <1>2, TotalOfOne

LEMMA TotalOfZeros ==
    ASSUME NEW S, NEW n, \A x \in S : n[x] = 0
    PROVE  Total(n, S) = 0
<1>1. UNION {UnitsOf(x, n) : x \in S} = {}
  BY DEF UnitsOf
<1>2. QED
  BY <1>1, FS_EmptySet DEF Total

-----------------------------------------------------------------------------
(* The ledger.  The units a reservation claims from the stock, by product. *)

ClaimOn(c, p) == IF hold[c][p].status \in OpenHold THEN hold[c][p].quantity ELSE 0
Claims(p) == [c \in Carts |-> ClaimOn(c, p)]
CartsIn(S, p) == {c \in Carts : <<c, p>> \in S}

(* LedgerExact, with the closed reservations summed as zeros.              *)
Balanced == \A p \in Products : reserved[p] = Total(Claims(p), Carts)

(* What a step may do to the stock: a reservation is set to q units, ...   *)
ClaimMove(c, p, q) ==
    /\ q \in 1..OnHand[p]
    /\ reserved'[p] = reserved[p] + (q - ClaimOn(c, p))
    /\ \A e \in Products \ {p} : reserved'[e] = reserved[e]
    /\ \A d \in Carts, e \in Products :
          ClaimOn(d, e)' = IF d = c /\ e = p THEN q ELSE ClaimOn(d, e)

(* ... a set of reservations is given back, ...                            *)
ReturnMove(S) ==
    /\ \A e \in Products : reserved'[e] = reserved[e] - Total(Claims(e), CartsIn(S, e))
    /\ \A d \in Carts, e \in Products :
          ClaimOn(d, e)' = IF <<d, e>> \in S THEN 0 ELSE ClaimOn(d, e)

(* ... or nothing at all.                                                  *)
NoMove ==
    /\ reserved' = reserved
    /\ \A d \in Carts, e \in Products : ClaimOn(d, e)' = ClaimOn(d, e)

LedgerMove ==
    \/ NoMove
    \/ \E c \in Carts, p \in Products : \E q \in 1..OnHand[p] : ClaimMove(c, p, q)
    \/ \E S \in SUBSET (Carts \X Products) : ReturnMove(S)

LEMMA ClaimsAreAmounts ==
    ASSUME CartInv, NEW p \in Products, NEW c \in Carts
    PROVE  ClaimOn(c, p) \in Nat /\ Claims(p)[c] = ClaimOn(c, p) /\ reserved[p] \in Nat
BY DEF CartInv, RowsInv, RowsOK, Hold, ClaimOn, Claims

(* A product's reserved units cover the claims of any set of carts and any *)
(* claim besides.                                                          *)
LEMMA ClaimsWithin ==
    ASSUME CartInv, Balanced, NEW p \in Products, NEW S \in SUBSET Carts
    PROVE  /\ Total(Claims(p), S) \in Nat
           /\ \A c \in Carts \ S : ClaimOn(c, p) <= reserved[p] - Total(Claims(p), S)
<1> DEFINE rest == Carts \ S
<1>1. IsFiniteSet(Carts) /\ IsFiniteSet(S) /\ IsFiniteSet(rest)
  BY FinitenessAssumption, FS_Subset
<1>2. \A c \in Carts : Claims(p)[c] \in Nat
  BY ClaimsAreAmounts
<1>3. Total(Claims(p), S) \in Nat
  BY <1>1, <1>2, TotalIsNat
<1>4. reserved[p] = Total(Claims(p), S) + Total(Claims(p), rest)
  BY <1>1, <1>2, TotalSplits DEF Balanced
<1>5. ASSUME NEW c \in rest PROVE ClaimOn(c, p) <= Total(Claims(p), rest)
  <2>1. Total(Claims(p), rest) = Claims(p)[c] + Total(Claims(p), rest \ {c})
    BY <1>1, <1>2, TotalBut
  <2>2. Total(Claims(p), rest \ {c}) \in Nat
    BY <1>1, <1>2, FS_Subset, TotalIsNat
  <2>3. QED
    BY <2>1, <2>2, ClaimsAreAmounts
<1>6. Total(Claims(p), rest) \in Nat
  BY <1>1, <1>2, TotalIsNat
<1>7. ASSUME NEW c \in rest PROVE ClaimOn(c, p) <= reserved[p] - Total(Claims(p), S)
  <2>1. ClaimOn(c, p) \in Nat
    BY ClaimsAreAmounts
  <2>2. ClaimOn(c, p) <= Total(Claims(p), rest)
    BY <1>5
  <2>3. QED
    BY <1>3, <1>4, <1>6, <2>1, <2>2
<1>8. QED
  BY <1>3, <1>7

LEMMA ClaimWithin ==
    ASSUME CartInv, Balanced, NEW p \in Products, NEW c \in Carts
    PROVE  ClaimOn(c, p) <= reserved[p]
<1>1. {} \in SUBSET Carts /\ c \in Carts \ {}
  OBVIOUS
<1>2. ClaimOn(c, p) <= reserved[p] - Total(Claims(p), {})
  BY <1>1, ClaimsWithin
<1>3. QED
  BY <1>2, TotalOfNone, ClaimsAreAmounts

(* Closed reservations add nothing to the sum.                             *)
LEMMA BalanceIsExact == CartInv => (Balanced <=> LedgerExact)
<1> SUFFICES ASSUME CartInv, NEW p \in Products
             PROVE  Total(Claims(p), Carts) = Units(OpenHolds, p)
  BY DEF Balanced, LedgerExact
<1> DEFINE open == {c \in Carts : <<c, p>> \in OpenHolds}
           quantities == [c \in Carts |-> hold[c][p].quantity]
<1>1. IsFiniteSet(Carts) /\ IsFiniteSet(Carts \ open)
  BY FinitenessAssumption, FS_Subset
<1>2. \A c \in Carts : Claims(p)[c] \in Nat
  BY ClaimsAreAmounts
<1>3. \A c \in open : Claims(p)[c] = quantities[c]
  BY DEF OpenHolds, Claims, ClaimOn
<1>4. \A c \in Carts \ open : Claims(p)[c] = 0
  BY DEF OpenHolds, Claims, ClaimOn
<1>5. Total(Claims(p), Carts) = Total(Claims(p), open) + Total(Claims(p), Carts \ open)
  BY <1>1, <1>2, TotalSplits
<1>6. Total(Claims(p), Carts \ open) = 0
  BY <1>4, TotalOfZeros
<1>7. Total(Claims(p), open) = Total(quantities, open)
  BY <1>3, TotalSame
<1>8. Total(Claims(p), open) \in Nat
  BY <1>1, <1>2, FS_Subset, TotalIsNat
<1>9. QED
  BY <1>5, <1>6, <1>7, <1>8 DEF Units

(* Every such move keeps the balance.                                      *)
LEMMA MovesBalance ==
    ASSUME CartInv, CartInv', Balanced, LedgerMove
    PROVE  Balanced'
<1> SUFFICES ASSUME NEW e \in Products PROVE reserved'[e] = Total(Claims(e)', Carts)
  BY DEF Balanced
<1> DEFINE before == Claims(e)
           after == Claims(e)'
<1>1. \A d \in Carts : before[d] = ClaimOn(d, e) /\ after[d] = ClaimOn(d, e)'
  BY DEF Claims
<1>2. IsFiniteSet(Carts)
  BY FinitenessAssumption
<1>3. \A d \in Carts : before[d] \in Nat /\ after[d] \in Nat
  <2>1. \A d \in Carts : hold[d][e] \in Hold /\ hold'[d][e] \in Hold
    BY DEF CartInv, RowsInv, RowsOK
  <2>2. \A d \in Carts : ClaimOn(d, e) \in Nat /\ ClaimOn(d, e)' \in Nat
    BY <2>1 DEF Hold, ClaimOn
  <2>3. QED
    BY <1>1, <2>2
<1>4. reserved[e] = Total(before, Carts)
  BY DEF Balanced
<1> HIDE DEF before, after
<1>5. CASE NoMove
  BY <1>1, <1>4, <1>5, TotalSame DEF NoMove, before, after
<1>6. ASSUME NEW c \in Carts, NEW p \in Products, NEW q \in 1..OnHand[p], ClaimMove(c, p, q)
      PROVE  reserved'[e] = Total(after, Carts)
  <2>1. CASE e # p
    <3>1. \A d \in Carts : before[d] = after[d]
      BY <1>1, <1>6, <2>1 DEF ClaimMove
    <3>2. QED
      BY <1>4, <1>6, <2>1, <3>1, TotalSame DEF ClaimMove
  <2>2. CASE e = p
    <3>1. \A d \in Carts \ {c} : before[d] = after[d]
      BY <1>1, <1>6, <2>2 DEF ClaimMove
    <3>2. after[c] = q
      BY <1>1, <1>6, <2>2 DEF ClaimMove
    <3>3. Total(before, Carts) = before[c] + Total(before, Carts \ {c})
      BY <1>2, <1>3, TotalBut
    <3>4. Total(after, Carts) = after[c] + Total(after, Carts \ {c})
      BY <1>2, <1>3, TotalBut
    <3>5. Total(before, Carts \ {c}) = Total(after, Carts \ {c})
      BY <3>1, TotalSame
    <3>6. Total(after, Carts \ {c}) \in Nat
      BY <1>2, <1>3, FS_Subset, TotalIsNat
    <3>7. reserved'[e] = reserved[e] + (q - before[c])
      BY <1>1, <1>6, <2>2 DEF ClaimMove
    <3>8. QED
      BY <1>3, <1>4, <3>2, <3>3, <3>4, <3>5, <3>6, <3>7
  <2>3. QED
    BY <2>1, <2>2
<1>7. ASSUME NEW S \in SUBSET (Carts \X Products), ReturnMove(S)
      PROVE  reserved'[e] = Total(after, Carts)
  <2> DEFINE back == CartsIn(S, e)
  <2>1. back \in SUBSET Carts
    BY DEF CartsIn
  <2>2. Total(before, Carts) = Total(before, back) + Total(before, Carts \ back)
    BY <1>2, <1>3, <2>1, TotalSplits
  <2>3. Total(after, Carts) = Total(after, back) + Total(after, Carts \ back)
    BY <1>2, <1>3, <2>1, TotalSplits
  <2>4. \A d \in back : after[d] = 0
    BY <1>1, <1>7 DEF ReturnMove, CartsIn
  <2>5. \A d \in Carts \ back : after[d] = before[d]
    BY <1>1, <1>7 DEF ReturnMove, CartsIn
  <2>6. Total(after, back) = 0
    BY <2>4, TotalOfZeros
  <2>7. Total(after, Carts \ back) = Total(before, Carts \ back)
    BY <2>5, TotalSame
  <2>8. reserved'[e] = reserved[e] - Total(before, back)
    BY <1>7 DEF ReturnMove, before
  <2>9. Total(before, back) \in Nat /\ Total(before, Carts \ back) \in Nat
    BY <1>2, <1>3, <2>1, FS_Subset, TotalIsNat
  <2>10. QED
    BY <1>4, <2>2, <2>3, <2>6, <2>7, <2>8, <2>9
<1>8. QED
  BY <1>5, <1>6, <1>7 DEF LedgerMove, after

LEMMA BalanceInit == Init => Balanced
<1> SUFFICES ASSUME Init, NEW p \in Products PROVE reserved[p] = Total(Claims(p), Carts)
  BY DEF Balanced
<1>1. \A c \in Carts : Claims(p)[c] = 0
  BY DEF Init, Claims, ClaimOn, NoHold, OpenHold
<1>2. QED
  BY <1>1, TotalOfZeros DEF Init
-----------------------------------------------------------------------------
(* Every step of the cart is a move of the ledger.                         *)

LEMMA UnwrittenIsNoMove == UNCHANGED <<reserved, hold>> => NoMove
BY DEF NoMove, ClaimOn

LEMMA GivingUpIsNoMove ==
    ASSUME NEW r \in Requests, Refuse(r) \/ RollBack(r)
    PROVE  NoMove
BY UnwrittenIsNoMove DEF Refuse, RollBack, rows

LEMMA ReserveMoves ==
    ASSUME CartInv, NEW r \in Requests, Reserve(r)
    PROVE  LedgerMove
<1> DEFINE j == job[r]
           new == [status |-> "ACTIVE", quantity |-> j.quantity, expiry |-> "RUNNING"]
<1>1. CASE Refuse(r) \/ RollBack(r)
  BY <1>1, GivingUpIsNoMove DEF LedgerMove
<1>2. CASE /\ line[j.cart][j.product] = 0
           /\ OnHand[j.product] - reserved[j.product] >= j.quantity
           /\ reserved' = [reserved EXCEPT ![j.product] = @ + j.quantity]
           /\ hold' = [hold EXCEPT ![j.cart][j.product] = new]
  <2>1. j.cart \in Carts /\ j.product \in Products /\ j.quantity \in 1..MaxQuantity
    BY DEF Reserve, CartInv, HandlersInv, JobFitsPoint, KeyedJob
  <2>2. reserved[j.product] \in Nat /\ OnHand[j.product] \in Nat
    BY <2>1, StockAssumption DEF CartInv, RowsInv, RowsOK
  <2>3. j.quantity \in 1..OnHand[j.product]
    BY <1>2, <2>1, <2>2, QuantityAssumption
  <2>4. ClaimOn(j.cart, j.product) = 0
    BY <1>2, <2>1 DEF CartInv, RowsInv, LineHasHold, ClaimOn, OpenHold
  <2>5. /\ reserved'[j.product] = reserved[j.product] + (j.quantity - 0)
        /\ \A e \in Products \ {j.product} : reserved'[e] = reserved[e]
    BY <1>2, <2>1, <2>2, <2>3 DEF CartInv, RowsInv, RowsOK
  <2>6. \A d \in Carts, e \in Products :
           hold'[d][e] = IF d = j.cart /\ e = j.product THEN new ELSE hold[d][e]
    BY <1>2, <2>1 DEF CartInv, RowsInv, RowsOK
  <2>7. \A d \in Carts, e \in Products :
           ClaimOn(d, e)' = IF d = j.cart /\ e = j.product THEN j.quantity ELSE ClaimOn(d, e)
    BY <2>6 DEF ClaimOn, OpenHold
  <2>8. ClaimMove(j.cart, j.product, j.quantity)
    BY <2>3, <2>4, <2>5, <2>7 DEF ClaimMove
  <2>9. QED
    BY <2>1, <2>3, <2>8 DEF LedgerMove
<1>3. QED
  BY <1>1, <1>2 DEF Reserve

LEMMA AdjustReservationMoves ==
    ASSUME CartInv, SerialInv, Balanced, NEW r \in Requests, AdjustReservation(r)
    PROVE  LedgerMove
<1> DEFINE j == job[r]
           c == j.cart
           p == j.product
           delta == Target(r) - seen[r].held
           after == [reserved EXCEPT ![p] = @ + delta]
<1>1. CASE Refuse(r) \/ RollBack(r)
  BY <1>1, GivingUpIsNoMove DEF LedgerMove
<1>2. CASE /\ StockCheck(after)
           /\ reserved' = after
           /\ hold' = [hold EXCEPT ![c][p] = Adjusted(r)]
  <2>1. j \in KeyedJob /\ c \in Carts /\ p \in Products
    BY DEF AdjustReservation, CartInv, HandlersInv, JobFitsPoint, KeyedJob
  <2>2. hold[c][p] \in Hold /\ hold[c][p].status = "ACTIVE" /\ hold[c][p].quantity = seen[r].held
    <3>1. pc[r] = "adjusting"
      BY DEF AdjustReservation
    <3>2. hold[c][p].status = "ACTIVE" /\ hold[c][p].quantity = seen[r].held
      BY <3>1 DEF SerialInv, AllInformed, Informed
    <3>3. hold[c][p] \in Hold
      BY <2>1 DEF CartInv, RowsInv, RowsOK
    <3> QED BY <3>2, <3>3
  <2>3. ClaimOn(c, p) = seen[r].held
    BY <2>2 DEF ClaimOn, OpenHold
  <2>4. Target(r) \in Nat \ {0}
    BY <2>1, TargetPositive
  <2>5. reserved[p] \in Nat /\ OnHand[p] \in Nat /\ ClaimOn(c, p) \in Nat
    BY <2>1, StockAssumption, ClaimsAreAmounts
  <2>6. ClaimOn(c, p) <= reserved[p]
    BY <2>1, ClaimWithin
  <2>7. /\ reserved'[p] = reserved[p] + (Target(r) - ClaimOn(c, p))
        /\ \A e \in Products \ {p} : reserved'[e] = reserved[e]
    BY <1>2, <2>1, <2>3 DEF CartInv, RowsInv, RowsOK
  <2>8. reserved'[p] <= OnHand[p]
    BY <1>2, <2>1 DEF StockCheck
  <2>9. Target(r) \in 1..OnHand[p]
    BY <2>4, <2>5, <2>6, <2>7, <2>8
  <2>10. Adjusted(r).status = "ACTIVE" /\ Adjusted(r).quantity = Target(r)
    BY <2>2 DEF Adjusted, Hold
  <2>11. \A d \in Carts, e \in Products :
            hold'[d][e] = IF d = c /\ e = p THEN Adjusted(r) ELSE hold[d][e]
    BY <1>2, <2>1 DEF CartInv, RowsInv, RowsOK
  <2>12. \A d \in Carts, e \in Products :
            ClaimOn(d, e)' = IF d = c /\ e = p THEN Target(r) ELSE ClaimOn(d, e)
    BY <2>10, <2>11 DEF ClaimOn, OpenHold
  <2>13. ClaimMove(c, p, Target(r))
    BY <2>7, <2>9, <2>12 DEF ClaimMove
  <2>14. QED
    BY <2>1, <2>9, <2>13 DEF LedgerMove
<1>3. QED
  BY <1>1, <1>2 DEF AdjustReservation

(* What was read is what is given back: the guard stock_reserved >=        *)
(* quantity of the UPDATE never fails.                                     *)
LEMMA ReleaseAllForCartMoves ==
    ASSUME CartInv, SerialInv, Balanced, NEW r \in Requests, ReleaseAllForCart(r)
    PROVE  LedgerMove
<1> DEFINE c == job[r].cart
           open == seen[r].open
           S == {s \in Carts \X Products : s[1] = c /\ open[s[2]] > 0}
<1>1. c \in Carts
  BY DEF ReleaseAllForCart, CartInv, HandlersInv, JobFitsPoint, SessionJob
<1>2. \A q \in Products : hold[c][q] \in Hold
  BY <1>1 DEF CartInv, RowsInv, RowsOK
<1>3. \A q \in Products :
         open[q] = IF hold[c][q].status = "ACTIVE" THEN hold[c][q].quantity ELSE 0
  BY DEF ReleaseAllForCart, SerialInv, AllInformed, Informed
<1>4. \A q \in Products : open[q] \in Nat
  BY <1>2, <1>3 DEF Hold
<1>5. \A q \in Products : open[q] > 0 => ClaimOn(c, q) = open[q]
  BY <1>3 DEF ClaimOn, OpenHold
<1> HIDE DEF open
<1>6. ASSUME NEW e \in Products
      PROVE  reserved'[e] = reserved[e] - Total(Claims(e), CartsIn(S, e))
  <2>1. reserved[e] \in Nat /\ reserved'[e] = Returned(open)[e]
    BY DEF ReleaseAllForCart, CartInv, RowsInv, RowsOK, open
  <2>2. CASE open[e] = 0
    <3>1. CartsIn(S, e) = {}
      BY <2>2 DEF CartsIn
    <3>2. Total(Claims(e), CartsIn(S, e)) = 0
      BY <3>1, TotalOfNone
    <3>3. Returned(open)[e] = reserved[e]
      BY <2>1, <2>2 DEF Returned
    <3>4. QED
      BY <2>1, <3>2, <3>3
  <2>3. CASE open[e] # 0
    <3>1. CartsIn(S, e) = {c}
      BY <2>3, <1>1, <1>4 DEF CartsIn
    <3>2. ClaimOn(c, e) = open[e] /\ Claims(e)[c] = open[e]
      BY <2>3, <1>1, <1>4, <1>5, ClaimsAreAmounts
    <3>3. Total(Claims(e), {c}) = open[e]
      BY <3>2, <1>4, TotalOfOne
    <3>4. open[e] <= reserved[e]
      BY <3>2, <1>1, ClaimWithin
    <3>5. QED
      BY <2>1, <3>1, <3>3, <3>4 DEF Returned
  <2>4. QED
    BY <2>2, <2>3
<1>7. \A d \in Carts, e \in Products :
         hold'[d][e] = IF d = c /\ open[e] > 0 THEN [hold[d][e] EXCEPT !.status = "RELEASED"]
                       ELSE hold[d][e]
  BY <1>1 DEF ReleaseAllForCart, CartInv, RowsInv, RowsOK, open
<1>8. \A d \in Carts, e \in Products :
         ClaimOn(d, e)' = IF <<d, e>> \in S THEN 0 ELSE ClaimOn(d, e)
  <2> SUFFICES ASSUME NEW d \in Carts, NEW e \in Products
               PROVE  ClaimOn(d, e)' = IF <<d, e>> \in S THEN 0 ELSE ClaimOn(d, e)
    OBVIOUS
  <2>1. hold[d][e] \in Hold
    BY DEF CartInv, RowsInv, RowsOK
  <2>2. CASE <<d, e>> \in S
    <3>1. hold'[d][e] = [hold[d][e] EXCEPT !.status = "RELEASED"]
      BY <1>7, <2>2
    <3>2. hold'[d][e].status = "RELEASED"
      BY <2>1, <3>1 DEF Hold
    <3>3. QED
      BY <2>2, <3>2 DEF ClaimOn, OpenHold
  <2>3. CASE <<d, e>> \notin S
    BY <1>7, <2>3 DEF ClaimOn
  <2>4. QED
    BY <2>2, <2>3
<1>9. ReturnMove(S)
  BY <1>6, <1>8 DEF ReturnMove
<1>10. S \in SUBSET (Carts \X Products)
  OBVIOUS
<1>11. QED
  BY <1>9, <1>10 DEF LedgerMove

(* With an exact ledger every due row fits: the reaper leaves none out.    *)
LEMMA ExpireReservationsMoves ==
    ASSUME CartInv, Balanced, ExpireReservations
    PROVE  LedgerMove
<1>1. PICK batch \in SUBSET DueHolds : \E fitting \in SUBSET batch : ExpireBatch(batch, fitting)
  BY DEF ExpireReservations
<1>2. PICK fitting \in SUBSET batch : ExpireBatch(batch, fitting)
  BY <1>1
<1>3. \A c \in Carts, p \in Products :
         <<c, p>> \in batch => ClaimOn(c, p) = hold[c][p].quantity
  BY DEF DueHolds, ClaimOn, OpenHold
<1>4. \A p \in Products : Units(fitting, p) = Total(Claims(p), CartsIn(fitting, p))
  <2> SUFFICES ASSUME NEW p \in Products
               PROVE  Units(fitting, p) = Total(Claims(p), CartsIn(fitting, p))
    OBVIOUS
  <2> DEFINE n == [c \in Carts |-> hold[c][p].quantity]
  <2>1. \A c \in CartsIn(fitting, p) : n[c] = Claims(p)[c]
    BY <1>3 DEF CartsIn, Claims
  <2>2. Total(n, CartsIn(fitting, p)) = Total(Claims(p), CartsIn(fitting, p))
    BY <2>1, TotalSame
  <2>3. QED
    BY <2>2 DEF Units, CartsIn
<1>5. \A p \in Products :
         reserved'[p] = reserved[p] - Total(Claims(p), CartsIn(fitting, p))
  BY <1>2, <1>4 DEF ExpireBatch
<1>6. \A s \in batch \ fitting : reserved'[s[2]] < hold[s[1]][s[2]].quantity
  BY <1>2 DEF ExpireBatch
<1>7. fitting = batch
  <2> SUFFICES ASSUME NEW s \in batch, s \notin fitting PROVE FALSE
    OBVIOUS
  <2>1. PICK c \in Carts, p \in Products : s = <<c, p>>
    BY DEF DueHolds
  <2>2. CartsIn(fitting, p) \in SUBSET Carts /\ c \in Carts \ CartsIn(fitting, p)
    BY <2>1 DEF CartsIn
  <2>3. /\ Total(Claims(p), CartsIn(fitting, p)) \in Nat
        /\ ClaimOn(c, p) <= reserved[p] - Total(Claims(p), CartsIn(fitting, p))
    BY <2>2, ClaimsWithin
  <2>4. ClaimOn(c, p) \in Nat /\ reserved[p] \in Nat
    BY ClaimsAreAmounts
  <2>5. reserved'[p] < ClaimOn(c, p)
    BY <1>3, <1>6, <2>1
  <2>6. QED
    BY <1>5, <2>3, <2>4, <2>5
<1>8. \A d \in Carts, e \in Products :
         ClaimOn(d, e)' = IF <<d, e>> \in batch THEN 0 ELSE ClaimOn(d, e)
  <2> SUFFICES ASSUME NEW d \in Carts, NEW e \in Products
               PROVE  ClaimOn(d, e)' = IF <<d, e>> \in batch THEN 0 ELSE ClaimOn(d, e)
    OBVIOUS
  <2>1. hold[d][e] \in Hold
    BY DEF CartInv, RowsInv, RowsOK
  <2>2. hold'[d][e] = IF <<d, e>> \in batch THEN [hold[d][e] EXCEPT !.status = "EXPIRED"]
                      ELSE hold[d][e]
    BY <1>2 DEF ExpireBatch
  <2>3. CASE <<d, e>> \in batch
    <3>1. hold'[d][e].status = "EXPIRED"
      BY <2>1, <2>2, <2>3 DEF Hold
    <3>2. QED
      BY <2>3, <3>1 DEF ClaimOn, OpenHold
  <2>4. CASE <<d, e>> \notin batch
    BY <2>2, <2>4 DEF ClaimOn
  <2>5. QED
    BY <2>3, <2>4
<1>9. ReturnMove(batch)
  BY <1>5, <1>7, <1>8 DEF ReturnMove
<1>10. batch \in SUBSET (Carts \X Products)
  BY DEF DueHolds
<1>11. QED
  BY <1>9, <1>10 DEF LedgerMove

LEMMA HoldFallsDueMoves ==
    ASSUME CartInv, NEW c \in Carts, NEW p \in Products, HoldFallsDue(c, p)
    PROVE  NoMove
<1>1. hold' = [hold EXCEPT ![c][p] = [@ EXCEPT !.expiry = "DUE"]] /\ reserved' = reserved
  BY DEF HoldFallsDue
<1>2. \A d \in Carts, q \in Products :
         hold'[d][q].quantity = hold[d][q].quantity /\ hold'[d][q].status = hold[d][q].status
  BY <1>1 DEF CartInv, RowsInv, RowsOK, Hold
<1>3. QED
  BY <1>1, <1>2 DEF NoMove, ClaimOn

LEMMA StepsMove ==
    ASSUME CartInv, SerialInv, Balanced, [Next]_vars
    PROVE  LedgerMove
<1>1. ASSUME NEW r \in Requests, AdmitKeyed(r) \/ AdmitSession(r) PROVE LedgerMove
  BY <1>1, UnwrittenIsNoMove DEF AdmitKeyed, AdmitSession, rows, LedgerMove
<1>2. ASSUME NEW r \in Requests, Handler(r) PROVE LedgerMove
  <2>1. CASE RemoveCartItem(r)
    BY <2>1, GivingUpIsNoMove DEF RemoveCartItem, LedgerMove
  <2>2. CASE GetCart(r) \/ CloseCart(r) \/ RevokeSession(r)
    BY <2>2, UnwrittenIsNoMove DEF GetCart, CloseCart, RevokeSession, LedgerMove
  <2>3. CASE \/ AddCartItem(r) \/ FindLine(r) \/ LockLine(r) \/ SetCartItemQuantity(r)
             \/ ReadActiveHolds(r)
    <3>1. UNCHANGED <<reserved, hold>>
      BY <2>3 DEF AddCartItem, FindLine, LockLine, SetCartItemQuantity, ReadActiveHolds,
                  Refuse, rows
    <3>2. QED
      BY <3>1, UnwrittenIsNoMove DEF LedgerMove
  <2>4. CASE RaiseLineAlone(r)
    BY <2>4, SerialRaiseLineAlone
  <2>5. CASE Reserve(r) \/ AdjustReservation(r) \/ ReleaseAllForCart(r)
    BY <2>5, ReserveMoves, AdjustReservationMoves, ReleaseAllForCartMoves
  <2>6. QED
    BY <1>2, <2>1, <2>2, <2>3, <2>4, <2>5 DEF Handler
<1>3. ASSUME NEW r \in Requests, Abort(r) PROVE LedgerMove
  BY <1>3, GivingUpIsNoMove DEF Abort, LedgerMove
<1>4. CASE ExpireReservations
  BY <1>4, ExpireReservationsMoves
<1>5. ASSUME NEW c \in Carts, NEW p \in Products, HoldFallsDue(c, p) PROVE LedgerMove
  BY <1>5, HoldFallsDueMoves DEF LedgerMove
<1>6. ASSUME NEW c \in Carts, SessionExpires(c) PROVE LedgerMove
  BY <1>6, UnwrittenIsNoMove DEF SessionExpires, LedgerMove
<1>7. ASSUME NEW p \in Products, DelistProduct(p) PROVE LedgerMove
  BY <1>7, UnwrittenIsNoMove DEF DelistProduct, LedgerMove
<1>8. CASE UNCHANGED vars
  BY <1>8, UnwrittenIsNoMove DEF vars, rows, LedgerMove
<1>9. QED
  BY <1>1, <1>2, <1>3, <1>4, <1>5, <1>6, <1>7, <1>8 DEF Next

LEMMA BalanceInvariant ==
    ASSUME Serialized
    PROVE  Spec => [](CartInv /\ SerialInv /\ Balanced)
<1>1. CartInv /\ CartInv' /\ SerialInv /\ Balanced /\ [Next]_vars => Balanced'
  BY StepsMove, MovesBalance
<1>2. QED
  BY <1>1, BalanceInit, CartInvariant, SerialInvariant, PTL DEF Spec
-----------------------------------------------------------------------------
(* The refinement.  The variables of the abstract ledger, as the tables    *)
(* of the cart give them.                                                  *)

Available == [p \in Products |-> OnHand[p] - reserved[p]]
ClaimTable ==
    [c \in Carts |-> [p \in Products |->
       IF hold[c][p].status \in OpenHold THEN hold[c][p].quantity ELSE 0]]

LEMMA ClaimTableType == CartInv => ClaimTable \in [Carts -> [Products -> Nat]]
<1> SUFFICES ASSUME CartInv PROVE \A c \in Carts, p \in Products : ClaimOn(c, p) \in Nat
  BY DEF ClaimTable, ClaimOn
<1>1. QED
  BY ClaimsAreAmounts

LEMMA NoMoveStutters == NoMove => UNCHANGED Ledger!ledger
<1> SUFFICES ASSUME NoMove PROVE UNCHANGED <<Available, ClaimTable>>
  BY DEF Ledger!ledger, Available, ClaimTable
<1>1. Available' = Available
  BY DEF NoMove, Available
<1>2. \A c \in Carts, p \in Products : ClaimTable'[c][p] = ClaimTable[c][p]
  BY DEF NoMove, ClaimTable, ClaimOn
<1>3. ClaimTable' = ClaimTable
  BY <1>2 DEF ClaimTable
<1>4. QED
  BY <1>1, <1>3

LEMMA ClaimMoveClaims ==
    ASSUME CartInv, CartInv', NEW c \in Carts, NEW p \in Products, NEW q \in 1..OnHand[p],
           ClaimMove(c, p, q)
    PROVE  Ledger!Claim(c, p, q)
<1>1. /\ OnHand[p] \in Nat /\ reserved[p] \in Nat /\ ClaimOn(c, p) \in Nat
      /\ reserved'[p] \in Nat /\ reserved'[p] <= OnHand[p]
  BY StockAssumption, ClaimsAreAmounts DEF CartInv, RowsInv, RowsOK
<1>2. ClaimTable[c][p] = ClaimOn(c, p) /\ Available[p] = OnHand[p] - reserved[p]
  BY DEF ClaimTable, ClaimOn, Available
<1>3. Available[p] >= q - ClaimTable[c][p]
  BY <1>1, <1>2 DEF ClaimMove
<1>4. Available' = [Available EXCEPT ![p] = @ - (q - ClaimTable[c][p])]
  <2>1. \A e \in Products : Available'[e] = OnHand[e] - reserved'[e]
    BY DEF Available
  <2>2. Available'[p] = Available[p] - (q - ClaimTable[c][p])
    BY <1>1, <1>2, <2>1 DEF ClaimMove
  <2>3. \A e \in Products \ {p} : Available'[e] = Available[e]
    BY <2>1 DEF ClaimMove, Available
  <2>4. QED
    BY <2>2, <2>3 DEF Available
<1>5. ClaimTable' = [ClaimTable EXCEPT ![c][p] = q]
  <2>1. \A d \in Carts, e \in Products :
           ClaimTable'[d][e] = IF d = c /\ e = p THEN q ELSE ClaimTable[d][e]
    BY DEF ClaimMove, ClaimTable, ClaimOn
  <2>2. ClaimTable \in [Carts -> [Products -> Nat]]
    BY ClaimTableType
  <2>3. \A d \in Carts, e \in Products : ClaimTable'[d][e] \in Nat
    BY <1>1, <2>1, <2>2
  <2>4. ClaimTable' = [d \in Carts |-> [e \in Products |-> ClaimTable'[d][e]]]
    BY DEF ClaimTable
  <2>5. ClaimTable' \in [Carts -> [Products -> Nat]]
    BY <2>3, <2>4
  <2>6. QED
    BY <2>1, <2>2, <2>5
<1>6. QED
  BY <1>3, <1>4, <1>5 DEF Ledger!Claim, Available, ClaimTable

LEMMA ReturnMoveGivesBack ==
    ASSUME CartInv, NEW S \in SUBSET (Carts \X Products), ReturnMove(S)
    PROVE  Ledger!GiveBack(S)
<1>1. \A e \in Products : Ledger!Claimed(S, e) = Total(Claims(e), CartsIn(S, e))
  <2>1. \A n, R : Ledger!Total(n, R) = Total(n, R)
    BY DEF Ledger!Total, Total, Ledger!UnitsOf, UnitsOf, Ledger!Cardinality, Cardinality
  <2> SUFFICES ASSUME NEW e \in Products
               PROVE  Ledger!Claimed(S, e) = Total(Claims(e), CartsIn(S, e))
    OBVIOUS
  <2>2. [c \in Carts |-> ClaimTable[c][e]] = Claims(e)
    BY DEF ClaimTable, Claims, ClaimOn
  <2>3. Ledger!Claimed(S, e) = Ledger!Total([c \in Carts |-> ClaimTable[c][e]], CartsIn(S, e))
    BY DEF Ledger!Claimed, ClaimTable, CartsIn
  <2>4. QED
    BY <2>1, <2>2, <2>3
<1>2. Available' = [p \in Products |-> Available[p] + Ledger!Claimed(S, p)]
  <2> SUFFICES ASSUME NEW e \in Products
               PROVE  Available'[e] = Available[e] + Ledger!Claimed(S, e)
    BY DEF Available
  <2>1. CartsIn(S, e) \in SUBSET Carts /\ IsFiniteSet(CartsIn(S, e))
    BY FinitenessAssumption, FS_Subset DEF CartsIn
  <2>2. Total(Claims(e), CartsIn(S, e)) \in Nat
    BY <2>1, ClaimsAreAmounts, TotalIsNat
  <2>3. Available'[e] = OnHand[e] - reserved'[e] /\ Available[e] = OnHand[e] - reserved[e]
    BY DEF Available
  <2>4. OnHand[e] \in Nat /\ reserved[e] \in Nat
    BY StockAssumption, ClaimsAreAmounts DEF CartInv, RowsInv, RowsOK
  <2>5. reserved'[e] = reserved[e] - Total(Claims(e), CartsIn(S, e))
    BY DEF ReturnMove
  <2>6. QED
    BY <1>1, <2>2, <2>3, <2>4, <2>5
<1>3. ClaimTable' = [c \in Carts |-> [p \in Products |->
                       IF <<c, p>> \in S THEN 0 ELSE ClaimTable[c][p]]]
  <2>1. \A d \in Carts, e \in Products :
           ClaimTable'[d][e] = IF <<d, e>> \in S THEN 0 ELSE ClaimTable[d][e]
    BY DEF ReturnMove, ClaimTable, ClaimOn
  <2>2. QED
    BY <2>1 DEF ClaimTable
<1>4. QED
  BY <1>2, <1>3 DEF Ledger!GiveBack, Available, ClaimTable

LEMMA MovesAreLedgerSteps ==
    ASSUME CartInv, CartInv', LedgerMove
    PROVE  [Ledger!Next]_Ledger!ledger
<1>1. CASE NoMove
  BY <1>1, NoMoveStutters
<1>2. ASSUME NEW c \in Carts, NEW p \in Products, NEW q \in 1..OnHand[p], ClaimMove(c, p, q)
      PROVE  Ledger!Next
  BY <1>2, ClaimMoveClaims DEF Ledger!Next
<1>3. ASSUME NEW S \in SUBSET (Carts \X Products), ReturnMove(S)
      PROVE  Ledger!Next
  BY <1>3, ReturnMoveGivesBack DEF Ledger!Next
<1>4. QED
  BY <1>1, <1>2, <1>3 DEF LedgerMove

LEMMA LedgerInit == Init => Ledger!Init
<1> SUFFICES ASSUME Init PROVE Ledger!Init
  OBVIOUS
<1>1. \A p \in Products : OnHand[p] - reserved[p] = OnHand[p]
  BY StockAssumption DEF Init
<1>2. [p \in Products |-> OnHand[p] - reserved[p]] = OnHand
  BY <1>1, StockAssumption
<1>3. \A c \in Carts, p \in Products : hold[c][p].status \notin OpenHold
  BY DEF Init, NoHold, OpenHold
<1>4. QED
  BY <1>2, <1>3 DEF Ledger!Init

-----------------------------------------------------------------------------
(* When transactions run one at a time, stock_reserved is exactly what the *)
(* open reservations of all carts hold: nothing is sold twice, and nothing *)
(* is withheld from sale that no cart holds.                               *)
THEOREM SerialLedgerIsExact ==
    ASSUME Serialized
    PROVE  Spec => []LedgerExact
<1>1. CartInv /\ SerialInv /\ Balanced => LedgerExact
  BY BalanceIsExact
<1>2. QED
  BY <1>1, BalanceInvariant, PTL

(* And every transaction of the cart, from the add of an item to a batch   *)
(* of the reaper, is one claim or one give-back of the abstract ledger.    *)
THEOREM SerialCartIsALedger ==
    ASSUME Serialized
    PROVE  Spec => ImplementsLedger
<1>1. CartInv /\ CartInv' /\ SerialInv /\ Balanced /\ [Next]_vars
         => [Ledger!Next]_Ledger!ledger
  BY StepsMove, MovesAreLedgerSteps
<1>2. QED
  BY <1>1, LedgerInit, BalanceInvariant, PTL DEF Spec, ImplementsLedger, Ledger!Spec

=============================================================================
