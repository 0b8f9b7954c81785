-------------------------- MODULE CheckoutSessions --------------------------
(***************************************************************************)
(* Orders, payments and after-sales as the server runs them.  A request is *)
(* served by a worker thread with a database session of its own: it reads  *)
(* rows without locking them, validates what it read, and writes in one    *)
(* transaction at the end.  Other workers commit in between.  The ORM      *)
(* sends an UPDATE only for the columns whose value differs from the row   *)
(* it loaded, so two commits to one order merge column by column.          *)
(*                                                                         *)
(* A request that its first read already refuses changes nothing and is    *)
(* not an action.  Requests refused later, after other workers may have    *)
(* run, are Reject steps; a crash or a failed commit is an Abort step.     *)
(***************************************************************************)
EXTENDS Integers, UnitOfWork

CONSTANTS
    Orders,       \* order ids
    Keys,         \* idempotency keys clients choose for reverse settlements
    Prices,       \* possible final amounts, in cents; 0 is a free order
    Amounts,      \* amounts in requests, in cents; 0 is what rounds to 0.00
    ExpiryAge,    \* ORDER_EXPIRY_MINUTES, in clock ticks
    WindowAge,    \* RETURN_WINDOW_DAYS, in clock ticks
    MaxClock,     \* bound: the clock stops here
    MaxCollected, \* bound: no payment starts that would collect more
    MaxReturned   \* bound: no return starts that would register more

ASSUME CheckoutAssumption ==
    /\ Prices \subseteq Nat
    /\ Amounts \subseteq Nat
    /\ ExpiryAge \in Nat
    /\ WindowAge \in Nat
    /\ ExpiryAge < WindowAge

VARIABLES
    overlap,      \* whether requests for the same order may be in flight together, fixed
    \* the database
    order,        \* orders table: the row of every order
    collected,    \* sum of payment_records.amount per order
    refunded,     \* sum of the REFUND rows of after_sales_orders per order
    returned,     \* sum of the RETURN rows per order
    exchanged,    \* whether the order has an EXCHANGE row
    refundOf,     \* the REFUND row an idempotency key names
    now,          \* utcnow()
    \* the workers
    pc,           \* what the worker does next
    req,          \* the request it serves
    snap          \* the order rows its session has loaded

database == <<order, collected, refunded, returned, exchanged, refundOf>>
sessions == <<overlap, pc, req, snap>>
vars == <<overlap, order, collected, refunded, returned, exchanged, refundOf, now, pc, req, snap>>

Unsettled == {"pending", "partially_paid"}
Statuses == {"none", "pending", "partially_paid", "settled", "void"}

\* settled and voided tell whether settled_at and voided_at are set.
Row == [status : Statuses, final : Nat, paid : Int,
        settled : BOOLEAN, voided : BOOLEAN, created : Nat]
NoRow == [status |-> "none", final |-> 0, paid |-> 0,
          settled |-> FALSE, voided |-> FALSE, created |-> 0]
NoRows == [o \in Orders |-> NoRow]

Request == [order : Orders, amount : Nat, key : Keys \union {Null}]
RefundRecord == [order : Orders, amount : Nat]

\* Null is not a record: a key without a refund can be told from one with.
ASSUME NullIsNoRefund == Null \notin RefundRecord

Steps == {"idle", "settle", "return_ceiling", "return", "exchange",
          "refund_ceiling", "refund_lookup", "refund", "expire"}

Init ==
    /\ overlap \in BOOLEAN
    /\ order = NoRows
    /\ collected = [o \in Orders |-> 0]
    /\ refunded = [o \in Orders |-> 0]
    /\ returned = [o \in Orders |-> 0]
    /\ exchanged = [o \in Orders |-> FALSE]
    /\ refundOf = [k \in Keys |-> Null]
    /\ now = 0
    /\ pc = [w \in Workers |-> "idle"]
    /\ req = [w \in Workers |-> Null]
    /\ snap = [w \in Workers |-> NoRows]

-----------------------------------------------------------------------------
\* Sessions

\* The orders worker w has loaded.
Targets(w) == {o \in Orders : snap[w][o].status # "none"}

\* The environment: without overlap, clients never have two requests for one
\* order in flight.  The code does not enforce it.
CanStart(w, S) ==
    overlap \/ \A v \in Workers \ {w} : Targets(v) \intersect S = {}

\* Worker w takes request r, loads the orders in S and continues at step.
Load(w, S, r, step) ==
    /\ pc[w] = "idle"
    /\ CanStart(w, S)
    /\ pc' = [pc EXCEPT ![w] = step]
    /\ req' = [req EXCEPT ![w] = r]
    /\ snap' = [snap EXCEPT ![w] = [o \in Orders |-> IF o \in S THEN order[o] ELSE NoRow]]
    /\ UNCHANGED overlap

\* The request is answered and its session closed.
Finish(w) ==
    /\ pc' = [pc EXCEPT ![w] = "idle"]
    /\ req' = [req EXCEPT ![w] = Null]
    /\ snap' = [snap EXCEPT ![w] = NoRows]
    /\ UNCHANGED overlap

\* The order row and the request of worker w, for requests about one order.
Order(w) == snap[w][req[w].order]
Amount(w) == req[w].amount

-----------------------------------------------------------------------------
\* Orders

\* Pricing decides the final amount; the module abstracts it to a choice.
CreateOrder(o, price) ==
    /\ order[o].status = "none"
    /\ order' = [order EXCEPT ![o] = [NoRow EXCEPT !.status = "pending",
                                                   !.final = price,
                                                   !.created = now]]
    /\ UNCHANGED <<collected, refunded, returned, exchanged, refundOf, now>>
    /\ UNCHANGED sessions

\* expire_unpaid_orders selects every unsettled order ...
ExpireLoad(w) ==
    /\ \E o \in Orders : order[o].status \in Unsettled
    /\ Load(w, {o \in Orders : order[o].status \in Unsettled}, Null, "expire")
    /\ UNCHANGED <<database, now>>

Overdue(row) == row.created + ExpiryAge <= now

\* Mutant: the age of the order is not checked.
ExpireCommitAnyAge(w) ==
    /\ pc[w] = "expire"
    /\ order' = [o \in Orders |->
                    IF o \in Targets(w)
                    THEN [order[o] EXCEPT !.status = "void", !.voided = TRUE]
                    ELSE order[o]]
    /\ Finish(w)
    /\ UNCHANGED <<collected, refunded, returned, exchanged, refundOf, now>>

\* ... and voids those that are overdue by the clock it then reads.
ExpireCommit(w) ==
    /\ pc[w] = "expire"
    /\ order' = [o \in Orders |->
                    IF o \in Targets(w) /\ Overdue(snap[w][o])
                    THEN [order[o] EXCEPT !.status = "void", !.voided = TRUE]
                    ELSE order[o]]
    /\ Finish(w)
    /\ UNCHANGED <<collected, refunded, returned, exchanged, refundOf, now>>

-----------------------------------------------------------------------------
\* Payments

Remaining(row) == row.final - row.paid

SettleLoad(w, o, amount) ==
    /\ order[o].status \in Unsettled
    /\ 0 < Remaining(order[o])
    /\ 0 < amount
    /\ amount <= Remaining(order[o])
    /\ collected[o] + amount <= MaxCollected
    /\ Load(w, {o}, [order |-> o, amount |-> amount, key |-> Null], "settle")
    /\ UNCHANGED <<database, now>>

SettledStatus(paid, final) ==
    IF paid = final THEN "settled"
    ELSE IF paid = 0 THEN "pending"
    ELSE "partially_paid"

\* Mutant: no payment record is added.
SettleCommitNoRecord(w) ==
    LET o == req[w].order
        paid == Order(w).paid + Amount(w)
        status == SettledStatus(paid, Order(w).final)
    IN  /\ pc[w] = "settle"
        /\ order' = [order EXCEPT
              ![o].paid = Written(Order(w).paid, paid, @),
              ![o].status = Written(Order(w).status, status, @),
              ![o].settled = IF status = "settled" THEN TRUE ELSE @]
        /\ Finish(w)
        /\ UNCHANGED <<collected, refunded, returned, exchanged, refundOf, now>>

\* settled_at is a fresh timestamp, so it is written whenever it is assigned.
SettleCommit(w) ==
    LET o == req[w].order
        paid == Order(w).paid + Amount(w)
        status == SettledStatus(paid, Order(w).final)
    IN  /\ pc[w] = "settle"
        /\ collected' = [collected EXCEPT ![o] = @ + Amount(w)]
        /\ order' = [order EXCEPT
              ![o].paid = Written(Order(w).paid, paid, @),
              ![o].status = Written(Order(w).status, status, @),
              ![o].settled = IF status = "settled" THEN TRUE ELSE @]
        /\ Finish(w)
        /\ UNCHANGED <<refunded, returned, exchanged, refundOf, now>>

-----------------------------------------------------------------------------
\* After-sales

\* Mutant: void orders are accepted.
AfterSalesOpenVoid(row) ==
    /\ row.status # "none"
    /\ now <= row.created + WindowAge

\* _get_original_order and _validate_return_window
AfterSalesOpen(row) ==
    /\ row.status \notin {"none", "void"}
    /\ now <= row.created + WindowAge

\* Mutant: earlier refunds are not counted.
WithinCeilingAlone(o, amount, final) == amount <= final

\* _validate_refund_ceiling: only REFUND rows count.
WithinCeiling(o, amount, final) == refunded[o] + amount <= final

ReturnLoad(w, o, amount) ==
    /\ AfterSalesOpen(order[o])
    /\ returned[o] + amount <= MaxReturned
    /\ Load(w, {o}, [order |-> o, amount |-> amount, key |-> Null], "return_ceiling")
    /\ UNCHANGED <<database, now>>

ExchangeLoad(w, o) ==
    /\ AfterSalesOpen(order[o])
    /\ Load(w, {o}, [order |-> o, amount |-> 0, key |-> Null], "exchange")
    /\ UNCHANGED <<database, now>>

\* The checks of reverse_settlement_refund on the order row itself.
Refundable(row, amount) ==
    /\ AfterSalesOpen(row)
    /\ row.status \in {"partially_paid", "settled"}
    /\ 0 < amount
    /\ amount <= row.paid

RefundLoad(w, o, amount, key) ==
    /\ Refundable(order[o], amount)
    /\ Load(w, {o}, [order |-> o, amount |-> amount, key |-> key], "refund_ceiling")
    /\ UNCHANGED <<database, now>>

\* The sum of earlier refunds is a second query.
CeilingCheck(w, from, to) ==
    /\ pc[w] = from
    /\ WithinCeiling(req[w].order, Amount(w), Order(w).final)
    /\ pc' = [pc EXCEPT ![w] = to]
    /\ UNCHANGED <<overlap, database, now, req, snap>>

\* The lookup of the idempotency key is a third; a hit is a Reject step.
KeyLookup(w) ==
    /\ pc[w] = "refund_lookup"
    /\ refundOf[req[w].key] = Null
    /\ pc' = [pc EXCEPT ![w] = "refund"]
    /\ UNCHANGED <<overlap, database, now, req, snap>>

ReturnCommit(w) ==
    /\ pc[w] = "return"
    /\ returned' = [returned EXCEPT ![req[w].order] = @ + Amount(w)]
    /\ Finish(w)
    /\ UNCHANGED <<order, collected, refunded, exchanged, refundOf, now>>

ExchangeCommit(w) ==
    /\ pc[w] = "exchange"
    /\ exchanged' = [exchanged EXCEPT ![req[w].order] = TRUE]
    /\ Finish(w)
    /\ UNCHANGED <<order, collected, refunded, returned, refundOf, now>>

\* Mutant: a fully refunded order stays partially paid.
RefundedStatusNeverPending(paid, final) ==
    IF paid < final THEN "partially_paid" ELSE "settled"

RefundedStatus(paid, final) ==
    IF paid = 0 THEN "pending"
    ELSE IF paid < final THEN "partially_paid"
    ELSE "settled"

\* Mutant: the key column has no unique constraint.
RefundCommitAnyKey(w) ==
    LET o == req[w].order
        paid == Order(w).paid - Amount(w)
        status == RefundedStatus(paid, Order(w).final)
    IN  /\ pc[w] = "refund"
        /\ 0 <= paid
        /\ refundOf' = [refundOf EXCEPT ![req[w].key] = [order |-> o, amount |-> Amount(w)]]
        /\ refunded' = [refunded EXCEPT ![o] = @ + Amount(w)]
        /\ order' = [order EXCEPT
              ![o].paid = Written(Order(w).paid, paid, @),
              ![o].status = Written(Order(w).status, status, @),
              ![o].settled = IF status # "settled" /\ Order(w).settled THEN FALSE ELSE @]
        /\ Finish(w)
        /\ UNCHANGED <<collected, returned, exchanged, now>>

\* Mutant: the refund is recorded but the paid amount is left alone.
RefundCommitKeepsPaid(w) ==
    LET o == req[w].order
    IN  /\ pc[w] = "refund"
        /\ refundOf[req[w].key] = Null
        /\ refundOf' = [refundOf EXCEPT ![req[w].key] = [order |-> o, amount |-> Amount(w)]]
        /\ refunded' = [refunded EXCEPT ![o] = @ + Amount(w)]
        /\ Finish(w)
        /\ UNCHANGED <<order, collected, returned, exchanged, now>>

\* The unique constraint on the key decides the insert; settled_at becomes
\* NULL, which is written only when the loaded value was not NULL.
RefundCommit(w) ==
    LET o == req[w].order
        paid == Order(w).paid - Amount(w)
        status == RefundedStatus(paid, Order(w).final)
    IN  /\ pc[w] = "refund"
        /\ refundOf[req[w].key] = Null
        /\ 0 <= paid
        /\ refundOf' = [refundOf EXCEPT ![req[w].key] = [order |-> o, amount |-> Amount(w)]]
        /\ refunded' = [refunded EXCEPT ![o] = @ + Amount(w)]
        /\ order' = [order EXCEPT
              ![o].paid = Written(Order(w).paid, paid, @),
              ![o].status = Written(Order(w).status, status, @),
              ![o].settled = IF status # "settled" /\ Order(w).settled THEN FALSE ELSE @]
        /\ Finish(w)
        /\ UNCHANGED <<collected, returned, exchanged, now>>

-----------------------------------------------------------------------------

\* A request that ends without a write: the ceiling refuses it, or the key is
\* known, at the lookup (a replay or a conflict) or only at the insert.
Reject(w) ==
    /\ \/ /\ pc[w] \in {"return_ceiling", "refund_ceiling"}
          /\ ~WithinCeiling(req[w].order, Amount(w), Order(w).final)
       \/ /\ pc[w] \in {"refund_lookup", "refund"}
          /\ refundOf[req[w].key] # Null
    /\ Finish(w)
    /\ UNCHANGED <<database, now>>

\* The worker dies or its transaction fails before the commit.
Abort(w) ==
    /\ pc[w] # "idle"
    /\ Finish(w)
    /\ UNCHANGED <<database, now>>

Tick ==
    /\ now < MaxClock
    /\ now' = now + 1
    /\ UNCHANGED database
    /\ UNCHANGED sessions

Begin(w) ==
    \/ ExpireLoad(w)
    \/ \E o \in Orders :
          \/ ExchangeLoad(w, o)
          \/ \E amount \in Amounts :
                \/ SettleLoad(w, o, amount)
                \/ ReturnLoad(w, o, amount)
                \/ \E key \in Keys : RefundLoad(w, o, amount, key)

Continue(w) ==
    \/ CeilingCheck(w, "return_ceiling", "return")
    \/ CeilingCheck(w, "refund_ceiling", "refund_lookup")
    \/ KeyLookup(w)
    \/ Reject(w)
    \/ Abort(w)

Commit(w) ==
    \/ SettleCommit(w)
    \/ ReturnCommit(w)
    \/ ExchangeCommit(w)
    \/ RefundCommit(w)
    \/ ExpireCommit(w)

Next ==
    \/ Tick
    \/ \E o \in Orders, price \in Prices : CreateOrder(o, price)
    \/ \E w \in Workers : Begin(w) \/ Continue(w) \/ Commit(w)

Spec == Init /\ [][Next]_vars

-----------------------------------------------------------------------------
\* Properties of every interleaving

\* The type of the tables and of the sessions.
TypeOK ==
    /\ overlap \in BOOLEAN
    /\ order \in [Orders -> Row]
    /\ collected \in [Orders -> Nat]
    /\ refunded \in [Orders -> Nat]
    /\ returned \in [Orders -> Nat]
    /\ exchanged \in [Orders -> BOOLEAN]
    /\ refundOf \in [Keys -> RefundRecord \union {Null}]
    /\ now \in Nat
    /\ pc \in [Workers -> Steps]
    /\ req \in [Workers -> Request \union {Null}]
    /\ snap \in [Workers -> [Orders -> Row]]

\* However payments, refunds and expiry interleave, the paid amount on the
\* order row stays between nothing and the price: each commit writes a value
\* it validated against the price of an order whose price never changes, and
\* a stale read can lose money but not push the column out of range.
PaidWithinPrice == \A o \in Orders : 0 <= order[o].paid /\ order[o].paid <= order[o].final

\* The paid amount never claims money no payment record covers, even when a
\* stale payment commits over a refund.
PaidIsCollected == \A o \in Orders : order[o].paid <= collected[o]

\* No auto-void before its time: an order carrying voided_at is at least
\* ExpiryAge old, whichever session wrote the row last.
NoEarlyVoid ==
    \A o \in Orders : order[o].voided => order[o].created + ExpiryAge <= now

\* An idempotency key names one refund forever: a second request with it
\* neither replaces the record nor adds to what the order was refunded, even
\* when both requests pass the lookup before either inserts.
RefundOncePerKey ==
    [][\A o \in Orders :
          refunded'[o] # refunded[o] =>
              \E k \in Keys :
                  /\ refundOf[k] = Null
                  /\ refundOf'[k] = [order |-> o, amount |-> refunded'[o] - refunded[o]]
                  /\ \A j \in Keys \ {k} : refundOf'[j] = refundOf[j]]_vars

-----------------------------------------------------------------------------
\* Properties of requests that do not overlap on an order

\* The paid amount is exactly what the payment records say was collected
\* minus what the refund records say was given back.
LedgerBalanced ==
    ~overlap => \A o \in Orders : order[o].paid = collected[o] - refunded[o]

\* Over its life an order is never refunded more than it costs.
RefundCeiling ==
    ~overlap => \A o \in Orders : refunded[o] <= order[o].final

\* The status and the timestamps tell the truth about the paid amount.
StatusMatchesPaid ==
    ~overlap => \A o \in Orders :
        LET row == order[o]
        IN  /\ row.status = "pending" => row.paid = 0
            /\ row.status = "partially_paid" => 0 < row.paid /\ row.paid < row.final
            /\ row.status = "settled" => row.paid = row.final
            /\ row.settled <=> row.status = "settled"
            /\ row.voided <=> row.status = "void"

\* A void order is dead: no payment, refund, return or exchange is recorded
\* for it and its row never changes again.
VoidIsFinal ==
    [][\A o \in Orders :
          ~overlap /\ order[o].status = "void" =>
              /\ order'[o] = order[o]
              /\ collected'[o] = collected[o]
              /\ refunded'[o] = refunded[o]
              /\ returned'[o] = returned[o]
              /\ exchanged'[o] = exchanged[o]]_vars

\* Without overlap the sessions implement the atomic ledger; with overlap they
\* do not, and the mapping shows no account.
None(value) == [o \in Orders |-> value]
Ledger == INSTANCE OrderLedger WITH
    status <- IF overlap THEN None("none") ELSE [o \in Orders |-> order[o].status],
    price <- IF overlap THEN None(0) ELSE [o \in Orders |-> order[o].final],
    collected <- IF overlap THEN None(0) ELSE collected,
    refunded <- IF overlap THEN None(0) ELSE refunded,
    used <- IF overlap THEN {} ELSE {k \in Keys : refundOf[k] # Null}

ImplementsLedger == Ledger!Spec
=============================================================================
