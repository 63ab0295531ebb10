------------------------------- MODULE Tables -------------------------------
(***************************************************************************)
(* A table that is written in parts with disjoint domains.                 *)
(***************************************************************************)

Joined(parts) ==
    [x \in UNION {DOMAIN t : t \in parts} |-> (CHOOSE t \in parts : x \in DOMAIN t)[x]]

=============================================================================
