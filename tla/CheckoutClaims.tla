--------------------------- MODULE CheckoutClaims ---------------------------
(***************************************************************************)
(* What the documentation says of orders, payments and after-sales, where  *)
(* CheckoutSessions shows that the code does not keep it.                  *)
(***************************************************************************)
EXTENDS CheckoutSessions

\* questions.md answers that the same idempotency key with the same payload is
\* an idempotent success.  In reverse_settlement_refund the repeated request
\* reaches the key lookup only if the checks before it still pass, and they
\* judge the order as the first request left it.
ReplayIsAnswered ==
    \A k \in Keys :
        LET done == refundOf[k]
        IN  ~overlap /\ done # Null /\ AfterSalesOpen(order[done.order]) =>
                /\ Refundable(order[done.order], done.amount)
                /\ WithinCeiling(done.order, done.amount, order[done.order].final)

\* The settlement endpoint announces strict overpayment prevention: the money
\* held for an order never exceeds its price, also when two cashiers settle it
\* at the same time.
OverpaymentPrevented ==
    \A o \in Orders : collected[o] - refunded[o] <= order[o].final
=============================================================================
