-------------------------- MODULE MC_CatalogAdmin --------------------------
(***************************************************************************)
(* Small instances of CatalogAdmin for TLC.                                *)
(***************************************************************************)
EXTENDS CatalogAdmin, TLC

MCDeltas == {-1, 1}

Symmetry == Permutations(Requests) \union Permutations(Keys) \union Permutations(Contents)
=============================================================================
