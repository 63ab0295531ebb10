------------------------ MODULE MC_CartReservation ------------------------
(***************************************************************************)
(* Small instances of CartReservation for TLC.                             *)
(***************************************************************************)
EXTENDS CartReservation, TLC

CONSTANTS StockPerProduct

MCOnHand == [p \in Products |-> StockPerProduct]

Symmetry ==
    Permutations(Requests) \union Permutations(Products) \union
    Permutations(Keys) \union Permutations(Carts)

(* Bound: steps are followed until three keyed requests have committed.    *)
FewRecords == Cardinality(saved) <= 2
=============================================================================
