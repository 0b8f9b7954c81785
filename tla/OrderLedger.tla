---------------------------- MODULE OrderLedger ----------------------------
(***************************************************************************)
(* What the order, payment and after-sales services promise together about *)
(* the money of an order, one atomic operation at a time: no sessions, no  *)
(* snapshots, no clock.  CheckoutSessions, where every request is a        *)
(* sequence of database reads followed by a commit, implements it when     *)
(* requests for the same order do not overlap.                             *)
(***************************************************************************)
EXTENDS Integers

CONSTANTS
    Orders,      \* order ids
    Keys,        \* idempotency keys of reverse settlements
    Prices,      \* possible values of Order.final_amount, in cents
    Amounts      \* amounts a client may send, in cents

\* What the results about the ledger ask of the constants; CheckoutSessions
\* assumes it of its own.
LedgerAssumption == Prices \subseteq Nat /\ Amounts \subseteq Nat

VARIABLES
    status,      \* Order.status, "none" before the order is created
    price,       \* Order.final_amount
    collected,   \* sum of the payment records of the order
    refunded,    \* sum of the reverse settlements of the order
    used         \* idempotency keys that name a reverse settlement

vars == <<status, price, collected, refunded, used>>

Statuses == {"none", "pending", "partially_paid", "settled", "void"}
Unsettled == {"pending", "partially_paid"}

\* Order.paid_amount: what the shop holds for the order.
Paid(o) == collected[o] - refunded[o]

\* The status a payment or a refund leaves behind for a paid total p.
StatusFor(p, total) ==
    IF p = total THEN "settled"
    ELSE IF p = 0 THEN "pending"
    ELSE "partially_paid"

Init ==
    /\ status = [o \in Orders |-> "none"]
    /\ price = [o \in Orders |-> 0]
    /\ collected = [o \in Orders |-> 0]
    /\ refunded = [o \in Orders |-> 0]
    /\ used = {}

Open(o, p) ==
    /\ status[o] = "none"
    /\ status' = [status EXCEPT ![o] = "pending"]
    /\ price' = [price EXCEPT ![o] = p]
    /\ UNCHANGED <<collected, refunded, used>>

Collect(o, a) ==
    /\ status[o] \in Unsettled
    /\ 0 < a
    /\ Paid(o) + a <= price[o]
    /\ collected' = [collected EXCEPT ![o] = @ + a]
    /\ status' = [status EXCEPT ![o] = StatusFor(Paid(o) + a, price[o])]
    /\ UNCHANGED <<price, refunded, used>>

\* A refund that takes back everything leaves the order pending.  A refund
\* needs a positive amount and a paid order, so the price is positive too and
\* StatusFor never sees 0 = 0 here.
Refund(o, a, k) ==
    /\ status[o] \in {"partially_paid", "settled"}
    /\ k \notin used
    /\ 0 < a
    /\ a <= Paid(o)
    /\ refunded[o] + a <= price[o]
    /\ refunded' = [refunded EXCEPT ![o] = @ + a]
    /\ status' = [status EXCEPT ![o] = StatusFor(Paid(o) - a, price[o])]
    /\ used' = used \union {k}
    /\ UNCHANGED <<price, collected>>

\* One maintenance run voids any number of unsettled orders together.
VoidUnsettled(S) ==
    /\ S # {}
    /\ \A o \in S : status[o] \in Unsettled
    /\ status' = [o \in Orders |-> IF o \in S THEN "void" ELSE status[o]]
    /\ UNCHANGED <<price, collected, refunded, used>>

Next ==
    \/ \E o \in Orders, p \in Prices : Open(o, p)
    \/ \E o \in Orders, a \in Amounts : Collect(o, a)
    \/ \E o \in Orders, a \in Amounts, k \in Keys : Refund(o, a, k)
    \/ \E S \in SUBSET Orders : VoidUnsettled(S)

Spec == Init /\ [][Next]_vars

-----------------------------------------------------------------------------

\* The type of the ledger.
TypeOK ==
    /\ status \in [Orders -> Statuses]
    /\ price \in [Orders -> Nat]
    /\ collected \in [Orders -> Nat]
    /\ refunded \in [Orders -> Nat]
    /\ used \in SUBSET Keys

\* The shop never holds more than an order costs, and never pays out more
\* than it holds (strict overpayment prevention in settle_order, the paid
\* check of reverse_settlement_refund), whatever payments and refunds follow
\* one another.
PaidWithinPrice == \A o \in Orders : 0 <= Paid(o) /\ Paid(o) <= price[o]

\* Over its whole life an order is never refunded more than it costs, however
\* often it is paid again after a refund (_validate_refund_ceiling).
RefundCeiling == \A o \in Orders : refunded[o] <= price[o]

\* Consequence of both: re-paying a refunded order is bounded as well, so the
\* money that can pass through one order is at most twice its price.
ThroughputBounded == \A o \in Orders : collected[o] <= 2 * price[o]

\* The status tells what has been paid: settled is fully paid and not free,
\* partially_paid is strictly in between, pending is nothing paid.
StatusMatchesPaid ==
    \A o \in Orders :
        /\ status[o] = "settled" => Paid(o) = price[o] /\ price[o] > 0
        /\ status[o] = "partially_paid" => 0 < Paid(o) /\ Paid(o) < price[o]
        /\ status[o] \in {"none", "pending"} => Paid(o) = 0

\* A void order is dead: no payment or refund touches it and its status never
\* changes again.
VoidIsFinal ==
    [][\A o \in Orders :
          status[o] = "void" =>
              /\ status'[o] = "void"
              /\ collected'[o] = collected[o]
              /\ refunded'[o] = refunded[o]]_vars
=============================================================================
