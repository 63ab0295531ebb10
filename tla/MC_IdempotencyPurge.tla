----------------------- MODULE MC_IdempotencyPurge -----------------------
(***************************************************************************)
(* Small instances of IdempotencyPurge, and of the appointments beside it, *)
(* for TLC.                                                                *)
(***************************************************************************)
EXTENDS IdempotencyPurge
=============================================================================
