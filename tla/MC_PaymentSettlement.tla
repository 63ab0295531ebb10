------------------------ MODULE MC_PaymentSettlement ------------------------
(***************************************************************************)
(* Small instances of PaymentSettlement for TLC: two orders that share the *)
(* first product, the first order with a line of its own besides.          *)
(***************************************************************************)
EXTENDS PaymentSettlement, TLC

CONSTANTS Shared, Own

MCQuantity ==
    [o \in Orders |-> [p \in Products |-> IF p = Shared \/ (p = Own /\ o = 1) THEN 1 ELSE 0]]

MCStock == [p \in Products |-> 2]
=============================================================================
