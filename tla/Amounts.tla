------------------------------ MODULE Amounts ------------------------------
(***************************************************************************)
(* The sum of quantities over a set of rows, counted unit by unit: each    *)
(* row x of S contributes the units <<x, 1>>, <<x, 2>> .. <<x, n[x]>>.     *)
(***************************************************************************)
EXTENDS Integers, FiniteSets

UnitsOf(x, n) == {x} \X (1..n[x])
Total(n, S) == Cardinality(UNION {UnitsOf(x, n) : x \in S})

=============================================================================
