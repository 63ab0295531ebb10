---------------------------- MODULE StockLedger ----------------------------
(***************************************************************************)
(* What the stock of the shop promises, apart from tables, transactions    *)
(* and statuses: the units of a product are either available or claimed by *)
(* a cart, a claim is granted or enlarged only out of what is available,   *)
(* and a claim that is given back is available again in the same step.     *)
(***************************************************************************)
EXTENDS Integers, Amounts

CONSTANTS Carts, Products, Stock

VARIABLES available, claim

ledger == <<available, claim>>

Claimed(S, p) == Total([c \in Carts |-> claim[c][p]], {c \in Carts : <<c, p>> \in S})

Init ==
    /\ available = Stock
    /\ claim = [c \in Carts |-> [p \in Products |-> 0]]

(* A cart's claim on one product becomes q, at the expense of "available". *)
Claim(c, p, q) ==
    /\ available[p] >= q - claim[c][p]
    /\ available' = [available EXCEPT ![p] = @ - (q - claim[c][p])]
    /\ claim' = [claim EXCEPT ![c][p] = q]

(* A set of claims is given back at once.                                  *)
GiveBack(S) ==
    /\ available' = [p \in Products |-> available[p] + Claimed(S, p)]
    /\ claim' = [c \in Carts |-> [p \in Products |->
                   IF <<c, p>> \in S THEN 0 ELSE claim[c][p]]]

(* No claim exceeds the stock of its product.                              *)
Next ==
    \/ \E c \in Carts, p \in Products : \E q \in 1..Stock[p] : Claim(c, p, q)
    \/ \E S \in SUBSET (Carts \X Products) : GiveBack(S)

Spec == Init /\ [][Next]_ledger

=============================================================================
