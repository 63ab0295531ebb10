--------------------------- MODULE MC_CartVisits ---------------------------
(***************************************************************************)
(* Small instances of CartVisits for TLC.                                  *)
(***************************************************************************)
EXTENDS CartVisits, TLC

Symmetry == Permutations(Browsers) \union Permutations(Tabs) \union Permutations(Items)
=============================================================================
