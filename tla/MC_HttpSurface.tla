--------------------------- MODULE MC_HttpSurface ---------------------------
(* Every request of the contract, one request a behaviour; the database's  *)
(* widths are small numbers above every limit of the validators.           *)
EXTENDS HttpSurface
=============================================================================
