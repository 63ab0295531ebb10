---------------------------- MODULE MC_Checkout ----------------------------
(***************************************************************************)
(* Small instances of Checkout for TLC.                                    *)
(***************************************************************************)
EXTENDS Checkout, TLC

CONSTANTS StockPerProduct

MCOnHand == [p \in Products |-> StockPerProduct]

Symmetry == 
    Permutations(Carts) \union Permutations(Requests) \union
    Permutations(Buyers) \union Permutations(OrderKeys)
=============================================================================
