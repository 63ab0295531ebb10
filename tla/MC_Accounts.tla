---------------------------- MODULE MC_Accounts ----------------------------
(***************************************************************************)
(* Small instances of Accounts for TLC.  Sessions, carts and tokens are    *)
(* taken in order, so only requests and secrets are interchangeable.       *)
(***************************************************************************)
EXTENDS Accounts, TLC

Symmetry == Permutations(Requests) \union Permutations(Secrets)
=============================================================================
