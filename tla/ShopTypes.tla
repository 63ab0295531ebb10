----------------------------- MODULE ShopTypes -----------------------------
(***************************************************************************)
(* The enumerations that more than one module of the shop uses: the domain *)
(* models' status types and the PostgreSQL enums behind them.  "NONE"      *)
(* stands for a row that does not exist.                                   *)
(***************************************************************************)

HoldStatus == {"NONE", "ACTIVE", "CHECKOUT_PENDING", "CONSUMED", "RELEASED", "EXPIRED"}

(* The statuses whose units products.stock_reserved is meant to count.     *)
OpenHold == {"ACTIVE", "CHECKOUT_PENDING"}

(* The statuses a reservation is meant to keep for good.                   *)
ClosedHold == {"CONSUMED", "RELEASED", "EXPIRED"}

OrderStatus ==
    {"NONE", "PENDING_PAYMENT", "PAID", "PAYMENT_FAILED", "PAYMENT_EXPIRED",
     "PAYMENT_REFUND_PENDING"}

PaymentStatus == {"NONE", "PENDING", "APPROVED", "DECLINED", "ERROR", "EXPIRED"}

=============================================================================
