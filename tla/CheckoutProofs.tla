--------------------------- MODULE CheckoutProofs ---------------------------
(***************************************************************************)
(* What holds of the checkout for any number of orders, workers, keys and  *)
(* amounts and for any clock.                                              *)
(* First what every interleaving of requests preserves: nothing there      *)
(* depends on overlap, and it needs no locking from the code.  Then what   *)
(* holds when requests for one order do not overlap: the sessions          *)
(* implement the atomic ledger, with crashes and late commits, and with    *)
(* expiry runs over many orders at once.                                   *)
(***************************************************************************)
EXTENDS CheckoutSessions, TLAPS

RefundSteps == {"refund_ceiling", "refund_lookup", "refund"}
OneOrderSteps == {"settle", "return_ceiling", "return", "exchange"} \union RefundSteps

\* What a loaded row is still good for after other workers have committed: the
\* order exists and has the price and age that were read, and at least as much
\* was collected as the row said was paid.
SnapshotOK(w) ==
    \A o \in Targets(w) :
        /\ order[o].status # "none"
        /\ order[o].final = snap[w][o].final
        /\ order[o].created = snap[w][o].created
        /\ 0 <= snap[w][o].paid
        /\ snap[w][o].paid <= snap[w][o].final
        /\ snap[w][o].paid <= collected[o]

\* What the request was validated against is the loaded row.
RequestOK(w) ==
    /\ pc[w] = "idle" => snap[w] = NoRows
    /\ pc[w] \in OneOrderSteps => req[w] \in Request /\ req[w].order \in Targets(w)
    /\ pc[w] = "settle" => 0 < Amount(w) /\ Amount(w) <= Remaining(Order(w))
    /\ pc[w] \in RefundSteps =>
          req[w].key \in Keys /\ 0 < Amount(w) /\ Amount(w) <= Order(w).paid

RowsOK == PaidWithinPrice /\ PaidIsCollected /\ NoEarlyVoid

\* A commit writes a paid amount computed from the snapshot, so the range of
\* the column rests on the snapshots, and those on the past rows.
Inv ==
    /\ TypeOK
    /\ RowsOK
    /\ \A w \in Workers : SnapshotOK(w) /\ RequestOK(w)

-----------------------------------------------------------------------------

\* The initial tables are empty and no session is open.
LEMMA InitInv == Init => Inv
<1> SUFFICES ASSUME Init PROVE Inv
  OBVIOUS
<1>1. TypeOK
  BY DEF Init, TypeOK, NoRows, NoRow, Row, Statuses, Steps
<1>2. RowsOK
  BY DEF Init, RowsOK, PaidWithinPrice, PaidIsCollected, NoEarlyVoid, NoRows, NoRow
<1>3. \A w \in Workers : SnapshotOK(w) /\ RequestOK(w)
  BY DEF Init, SnapshotOK, RequestOK, Targets, NoRows, NoRow, OneOrderSteps, RefundSteps
<1> QED BY <1>1, <1>2, <1>3 DEF Inv

\* A step of another worker keeps what a session relies on, as long as orders
\* keep existing with their price and age, and collected sums do not shrink.
LEMMA SessionFrame ==
    ASSUME NEW v \in Workers, TypeOK, SnapshotOK(v), RequestOK(v),
           snap'[v] = snap[v], pc'[v] = pc[v], req'[v] = req[v],
           \A o \in Orders :
              /\ collected'[o] \in Nat
              /\ collected[o] <= collected'[o]
              /\ order[o].status # "none" =>
                    /\ order'[o].status # "none"
                    /\ order'[o].final = order[o].final
                    /\ order'[o].created = order[o].created
    PROVE  SnapshotOK(v)' /\ RequestOK(v)'
<1>1. Targets(v)' = Targets(v)
  BY DEF Targets
<1>2. SnapshotOK(v)'
  <2> SUFFICES ASSUME NEW o \in Targets(v)
               PROVE /\ order'[o].status # "none"
                     /\ order'[o].final = snap[v][o].final
                     /\ order'[o].created = snap[v][o].created
                     /\ 0 <= snap[v][o].paid
                     /\ snap[v][o].paid <= snap[v][o].final
                     /\ snap[v][o].paid <= collected'[o]
    BY <1>1 DEF SnapshotOK
  <2>1. o \in Orders
    BY DEF Targets
  <2>2. snap[v][o].paid \in Int /\ collected[o] \in Nat /\ collected'[o] \in Nat
    BY <2>1 DEF TypeOK, Row
  <2> QED BY <2>1, <2>2 DEF SnapshotOK
<1>3. RequestOK(v)'
  BY <1>1 DEF RequestOK, Order, Amount, Remaining
<1> QED BY <1>2, <1>3

\* A step that answers request w and touches no table.
LEMMA FinishInv ==
    ASSUME NEW w \in Workers, Inv, Finish(w), UNCHANGED <<database, now>>
    PROVE  Inv'
<1>1. TypeOK'
  BY DEF Inv, TypeOK, Finish, Steps, NoRows, NoRow, Row, Statuses, database
<1>2. RowsOK'
  BY DEF Inv, RowsOK, PaidWithinPrice, PaidIsCollected, NoEarlyVoid, database
<1>3. SnapshotOK(w)' /\ RequestOK(w)'
  BY DEF Inv, TypeOK, Finish, SnapshotOK, RequestOK, Targets, NoRows, NoRow, OneOrderSteps, RefundSteps
<1>4. ASSUME NEW v \in Workers \ {w} PROVE SnapshotOK(v)' /\ RequestOK(v)'
  <2>1. snap'[v] = snap[v] /\ pc'[v] = pc[v] /\ req'[v] = req[v]
    BY DEF Finish, Inv, TypeOK
  <2>2. \A o \in Orders : collected'[o] \in Nat /\ collected[o] <= collected'[o]
    BY DEF Inv, TypeOK, database
  <2> QED BY <2>1, <2>2, SessionFrame DEF Inv, database
<1> QED BY <1>1, <1>2, <1>3, <1>4 DEF Inv

\* Loading takes over rows that satisfy RowsOK; what remains to be shown of a
\* request is that it was validated against the row it loaded.
LEMMA LoadInv ==
    ASSUME NEW w \in Workers, NEW S \in SUBSET Orders,
           NEW r \in Request \union {Null}, NEW step \in Steps \ {"idle"},
           Inv, Load(w, S, r, step), UNCHANGED <<database, now>>,
           \A o \in S : order[o].status # "none",
           step \in OneOrderSteps => r \in Request /\ r.order \in S,
           step = "settle" => 0 < r.amount /\ r.amount <= Remaining(order[r.order]),
           step \in RefundSteps =>
              r.key \in Keys /\ 0 < r.amount /\ r.amount <= order[r.order].paid
    PROVE  Inv'
<1>1. TypeOK'
  BY DEF Inv, TypeOK, Load, NoRow, Row, Statuses, database
<1>2. RowsOK'
  BY DEF Inv, RowsOK, PaidWithinPrice, PaidIsCollected, NoEarlyVoid, database
<1>3. /\ pc'[w] = step
      /\ req'[w] = r
      /\ snap'[w] = [o \in Orders |-> IF o \in S THEN order[o] ELSE NoRow]
  BY DEF Inv, TypeOK, Load
<1>4. Targets(w)' = S
  BY <1>3 DEF Targets, NoRow
<1>5. SnapshotOK(w)'
  BY <1>3, <1>4
  DEF SnapshotOK, Inv, RowsOK, PaidWithinPrice, PaidIsCollected, database
<1>6. RequestOK(w)'
  BY <1>3, <1>4 DEF RequestOK, Order, Amount, Remaining, OneOrderSteps, RefundSteps
<1>7. ASSUME NEW v \in Workers \ {w} PROVE SnapshotOK(v)' /\ RequestOK(v)'
  <2>1. snap'[v] = snap[v] /\ pc'[v] = pc[v] /\ req'[v] = req[v]
    BY DEF Load, Inv, TypeOK
  <2>2. \A o \in Orders : collected'[o] \in Nat /\ collected[o] <= collected'[o]
    BY DEF Inv, TypeOK, database
  <2> QED BY <2>1, <2>2, SessionFrame DEF Inv, database
<1> QED BY <1>1, <1>2, <1>5, <1>6, <1>7 DEF Inv

\* Closing a session keeps the types of the sessions.
LEMMA FinishType ==
    ASSUME NEW w \in Workers, TypeOK, Finish(w)
    PROVE  /\ overlap' \in BOOLEAN
           /\ pc' \in [Workers -> Steps]
           /\ req' \in [Workers -> Request \union {Null}]
           /\ snap' \in [Workers -> [Orders -> Row]]
BY DEF TypeOK, Finish, Steps, NoRows, NoRow, Row, Statuses

\* A commit of worker w closes its session, and the others still hold what they
\* rely on when the commit keeps the price and age of orders and loses no
\* payment record.
LEMMA CommitSessions ==
    ASSUME NEW w \in Workers, Inv, Finish(w),
           \A o \in Orders :
              /\ collected'[o] \in Nat
              /\ collected[o] <= collected'[o]
              /\ order[o].status # "none" =>
                    /\ order'[o].status # "none"
                    /\ order'[o].final = order[o].final
                    /\ order'[o].created = order[o].created
    PROVE  \A v \in Workers : SnapshotOK(v)' /\ RequestOK(v)'
<1>1. SnapshotOK(w)' /\ RequestOK(w)'
  BY DEF Inv, TypeOK, Finish, SnapshotOK, RequestOK, Targets, NoRows, NoRow, OneOrderSteps, RefundSteps
<1>2. ASSUME NEW v \in Workers \ {w} PROVE SnapshotOK(v)' /\ RequestOK(v)'
  <2>1. snap'[v] = snap[v] /\ pc'[v] = pc[v] /\ req'[v] = req[v]
    BY DEF Finish, Inv, TypeOK
  <2> QED BY <2>1, SessionFrame DEF Inv
<1> QED BY <1>1, <1>2

\* What a payment writes: a paid amount within the price it was checked
\* against, and a payment record that covers it.
LEMMA SettleCommitInv ==
    ASSUME NEW w \in Workers, Inv, SettleCommit(w)
    PROVE  Inv'
<1> DEFINE o == req[w].order
           paid == Order(w).paid + Amount(w)
           status == SettledStatus(paid, Order(w).final)
<1>1. /\ o \in Orders /\ o \in Targets(w) /\ Amount(w) \in Nat /\ 0 < Amount(w)
      /\ Amount(w) <= Order(w).final - Order(w).paid
  BY DEF Inv, RequestOK, SettleCommit, OneOrderSteps, Request, Amount, Remaining, Targets
<1>2. /\ Order(w).paid \in Int /\ 0 <= Order(w).paid /\ Order(w).final \in Nat
      /\ order[o].final = Order(w).final /\ order[o].status # "none"
      /\ Order(w).paid <= collected[o] /\ collected[o] \in Nat
  BY <1>1 DEF Inv, SnapshotOK, TypeOK, Order, Row
<1>3. paid \in Int /\ 0 <= paid /\ paid <= order[o].final /\ paid <= collected[o] + Amount(w)
  BY <1>1, <1>2
<1>4. status \in Statuses \ {"none", "void"}
  BY DEF SettledStatus, Statuses
<1> HIDE DEF paid, status
<1>5. collected' = [collected EXCEPT ![o] = @ + Amount(w)]
  BY DEF SettleCommit
<1>6. /\ \A q \in Orders \ {o} : order'[q] = order[q]
      /\ order'[o] = [order[o] EXCEPT
            !.paid = Written(Order(w).paid, paid, order[o].paid),
            !.status = Written(Order(w).status, status, order[o].status),
            !.settled = IF status = "settled" THEN TRUE ELSE order[o].settled]
      /\ DOMAIN order' = Orders /\ order' = [q \in Orders |-> order'[q]]
  BY <1>1 DEF SettleCommit, Inv, TypeOK, Row, paid, status
<1>7. /\ order'[o].paid \in {paid, order[o].paid}
      /\ order'[o].status \in {status, order[o].status}
      /\ order'[o].final = order[o].final
      /\ order'[o].created = order[o].created
      /\ order'[o].voided = order[o].voided
      /\ order'[o] \in Row
  <2>1. order[o] \in Row
    BY <1>1 DEF Inv, TypeOK
  <2>2. /\ Written(Order(w).paid, paid, order[o].paid) \in {paid, order[o].paid}
        /\ Written(Order(w).status, status, order[o].status) \in {status, order[o].status}
    BY DEF Written
  <2> DEFINE p == Written(Order(w).paid, paid, order[o].paid)
             s == Written(Order(w).status, status, order[o].status)
             b == IF status = "settled" THEN TRUE ELSE order[o].settled
  <2>3. b \in BOOLEAN
    BY <2>1 DEF Row
  <2>4. p \in Int /\ s \in Statuses
    BY <1>3, <1>4, <2>1, <2>2 DEF Row
  <2>5. order'[o] = [order[o] EXCEPT !.paid = p, !.status = s, !.settled = b]
    BY <1>6
  <2>6. p \in {paid, order[o].paid} /\ s \in {status, order[o].status}
    BY <2>2
  <2> HIDE DEF p, s, b
  <2>7. /\ order'[o] \in Row /\ order'[o].paid = p /\ order'[o].status = s
        /\ order'[o].final = order[o].final /\ order'[o].created = order[o].created
        /\ order'[o].voided = order[o].voided
    BY <2>1, <2>3, <2>4, <2>5 DEF Row
  <2> QED BY <2>6, <2>7
<1>8. TypeOK'
  <2>1. order' \in [Orders -> Row]
    BY <1>6, <1>7 DEF Inv, TypeOK
  <2>2. collected' \in [Orders -> Nat]
    BY <1>1, <1>5 DEF Inv, TypeOK
  <2>3. /\ Finish(w) /\ now' = now /\ refunded' = refunded /\ returned' = returned
        /\ exchanged' = exchanged /\ refundOf' = refundOf
    BY DEF SettleCommit
  <2> QED
    BY <2>1, <2>2, <2>3, FinishType DEF Inv, TypeOK
<1>9. RowsOK'
  <2> SUFFICES ASSUME NEW q \in Orders
               PROVE /\ 0 <= order'[q].paid /\ order'[q].paid <= order'[q].final
                     /\ order'[q].paid <= collected'[q]
                     /\ order'[q].voided => order'[q].created + ExpiryAge <= now
    BY DEF RowsOK, PaidWithinPrice, PaidIsCollected, NoEarlyVoid, SettleCommit
  <2>1. CASE q = o
    BY <2>1, <1>1, <1>2, <1>3, <1>5, <1>7
    DEF Inv, TypeOK, Row, RowsOK, PaidWithinPrice, PaidIsCollected, NoEarlyVoid
  <2>2. CASE q # o
    BY <2>2, <1>1, <1>5, <1>6
    DEF Inv, TypeOK, RowsOK, PaidWithinPrice, PaidIsCollected, NoEarlyVoid
  <2> QED BY <2>1, <2>2
<1>10. \A v \in Workers : SnapshotOK(v)' /\ RequestOK(v)'
  <2>1. ASSUME NEW q \in Orders
        PROVE /\ collected'[q] \in Nat /\ collected[q] <= collected'[q]
              /\ order[q].status # "none" =>
                    /\ order'[q].status # "none"
                    /\ order'[q].final = order[q].final
                    /\ order'[q].created = order[q].created
    <3>1. CASE q = o
      BY <3>1, <1>1, <1>2, <1>4, <1>5, <1>7 DEF Inv, TypeOK
    <3>2. CASE q # o
      BY <3>2, <1>1, <1>5, <1>6 DEF Inv, TypeOK
    <3> QED BY <3>1, <3>2
  <2>2. Finish(w)
    BY DEF SettleCommit
  <2> QED BY <2>1, <2>2, CommitSessions
<1> QED BY <1>8, <1>9, <1>10 DEF Inv

\* What a refund writes: less than it loaded, and not less than nothing.
LEMMA RefundCommitInv ==
    ASSUME NEW w \in Workers, Inv, RefundCommit(w)
    PROVE  Inv'
<1> DEFINE o == req[w].order
           k == req[w].key
           paid == Order(w).paid - Amount(w)
           status == RefundedStatus(paid, Order(w).final)
<1>1. /\ o \in Orders /\ o \in Targets(w) /\ k \in Keys
      /\ Amount(w) \in Nat /\ 0 < Amount(w) /\ Amount(w) <= Order(w).paid
  BY DEF Inv, RequestOK, RefundCommit, OneOrderSteps, RefundSteps, Request, Amount, Targets
<1>2. /\ Order(w).paid \in Int /\ Order(w).final \in Nat
      /\ Order(w).paid <= Order(w).final
      /\ order[o].final = Order(w).final /\ order[o].status # "none"
      /\ Order(w).paid <= collected[o] /\ collected[o] \in Nat
  BY <1>1 DEF Inv, SnapshotOK, TypeOK, Order, Row
<1>3. paid \in Int /\ 0 <= paid /\ paid <= order[o].final /\ paid <= collected[o]
  BY <1>1, <1>2
<1>4. status \in Statuses \ {"none", "void"}
  BY DEF RefundedStatus, Statuses
<1> HIDE DEF paid, status
<1>6. /\ \A q \in Orders \ {o} : order'[q] = order[q]
      /\ order'[o] = [order[o] EXCEPT
            !.paid = Written(Order(w).paid, paid, order[o].paid),
            !.status = Written(Order(w).status, status, order[o].status),
            !.settled = IF status # "settled" /\ Order(w).settled THEN FALSE ELSE order[o].settled]
      /\ order' = [q \in Orders |-> order'[q]]
  BY <1>1 DEF RefundCommit, Inv, TypeOK, Row, paid, status
<1>7. /\ order'[o].paid \in {paid, order[o].paid}
      /\ order'[o].status \in {status, order[o].status}
      /\ order'[o].final = order[o].final
      /\ order'[o].created = order[o].created
      /\ order'[o].voided = order[o].voided
      /\ order'[o] \in Row
  <2>1. order[o] \in Row
    BY <1>1 DEF Inv, TypeOK
  <2>2. /\ Written(Order(w).paid, paid, order[o].paid) \in {paid, order[o].paid}
        /\ Written(Order(w).status, status, order[o].status) \in {status, order[o].status}
    BY DEF Written
  <2> DEFINE p == Written(Order(w).paid, paid, order[o].paid)
             s == Written(Order(w).status, status, order[o].status)
             b == IF status # "settled" /\ Order(w).settled THEN FALSE ELSE order[o].settled
  <2>3. b \in BOOLEAN
    BY <2>1 DEF Row
  <2>4. p \in Int /\ s \in Statuses
    BY <1>3, <1>4, <2>1, <2>2 DEF Row
  <2>5. order'[o] = [order[o] EXCEPT !.paid = p, !.status = s, !.settled = b]
    BY <1>6
  <2>6. p \in {paid, order[o].paid} /\ s \in {status, order[o].status}
    BY <2>2
  <2> HIDE DEF p, s, b
  <2>7. /\ order'[o] \in Row /\ order'[o].paid = p /\ order'[o].status = s
        /\ order'[o].final = order[o].final /\ order'[o].created = order[o].created
        /\ order'[o].voided = order[o].voided
    BY <2>1, <2>3, <2>4, <2>5 DEF Row
  <2> QED BY <2>6, <2>7
<1>8. TypeOK'
  <2>1. order' \in [Orders -> Row]
    BY <1>6, <1>7 DEF Inv, TypeOK
  <2>2. refunded' \in [Orders -> Nat]
    BY <1>1 DEF RefundCommit, Inv, TypeOK
  <2>3. refundOf' \in [Keys -> RefundRecord \union {Null}]
    BY <1>1 DEF RefundCommit, Inv, TypeOK, RefundRecord
  <2>4. /\ Finish(w) /\ now' = now /\ collected' = collected /\ returned' = returned
        /\ exchanged' = exchanged
    BY DEF RefundCommit
  <2> QED
    BY <2>1, <2>2, <2>3, <2>4, FinishType DEF Inv, TypeOK
<1>9. RowsOK'
  <2> SUFFICES ASSUME NEW q \in Orders
               PROVE /\ 0 <= order'[q].paid /\ order'[q].paid <= order'[q].final
                     /\ order'[q].paid <= collected[q]
                     /\ order'[q].voided => order'[q].created + ExpiryAge <= now
    BY DEF RowsOK, PaidWithinPrice, PaidIsCollected, NoEarlyVoid, RefundCommit
  <2>1. CASE q = o
    BY <2>1, <1>1, <1>2, <1>3, <1>7
    DEF Inv, TypeOK, Row, RowsOK, PaidWithinPrice, PaidIsCollected, NoEarlyVoid
  <2>2. CASE q # o
    BY <2>2, <1>1, <1>6
    DEF Inv, TypeOK, RowsOK, PaidWithinPrice, PaidIsCollected, NoEarlyVoid
  <2> QED BY <2>1, <2>2
<1>10. \A v \in Workers : SnapshotOK(v)' /\ RequestOK(v)'
  <2>1. ASSUME NEW q \in Orders
        PROVE /\ collected'[q] \in Nat /\ collected[q] <= collected'[q]
              /\ order[q].status # "none" =>
                    /\ order'[q].status # "none"
                    /\ order'[q].final = order[q].final
                    /\ order'[q].created = order[q].created
    <3> collected' = collected
      BY DEF RefundCommit
    <3>1. CASE q = o
      BY <3>1, <1>1, <1>2, <1>4, <1>7 DEF Inv, TypeOK
    <3>2. CASE q # o
      BY <3>2, <1>1, <1>6 DEF Inv, TypeOK
    <3> QED BY <3>1, <3>2
  <2>2. Finish(w)
    BY DEF RefundCommit
  <2> QED BY <2>1, <2>2, CommitSessions
<1> QED BY <1>8, <1>9, <1>10 DEF Inv

\* What an expiry run writes: orders that are overdue now, judged by a loaded
\* age that never changes.
LEMMA ExpireCommitInv ==
    ASSUME NEW w \in Workers, Inv, ExpireCommit(w)
    PROVE  Inv'
<1> DEFINE E == {o \in Targets(w) : Overdue(snap[w][o])}
<1>1. /\ E \subseteq Orders
      /\ \A o \in E : order[o].created + ExpiryAge <= now
  BY DEF Targets, Inv, SnapshotOK, Overdue
<1>2. order' = [o \in Orders |->
                   IF o \in E THEN [order[o] EXCEPT !.status = "void", !.voided = TRUE]
                   ELSE order[o]]
  BY DEF ExpireCommit
<1> HIDE DEF E
<1>3. \A o \in Orders :
         /\ order'[o] \in Row
         /\ order'[o].paid = order[o].paid
         /\ order'[o].final = order[o].final
         /\ order'[o].created = order[o].created
         /\ order[o].status # "none" => order'[o].status # "none"
         /\ order'[o].voided => o \in E \/ order[o].voided
  BY <1>2 DEF Inv, TypeOK, Row, Statuses
<1>4. TypeOK'
  <2>1. order' \in [Orders -> Row]
    BY <1>2, <1>3
  <2>2. /\ Finish(w) /\ now' = now /\ collected' = collected /\ refunded' = refunded
        /\ returned' = returned /\ exchanged' = exchanged /\ refundOf' = refundOf
    BY DEF ExpireCommit
  <2> QED
    BY <2>1, <2>2, FinishType DEF Inv, TypeOK
<1>5. RowsOK'
  BY <1>1, <1>3
  DEF ExpireCommit, Inv, RowsOK, PaidWithinPrice, PaidIsCollected, NoEarlyVoid
<1>6. \A v \in Workers : SnapshotOK(v)' /\ RequestOK(v)'
  <2>1. Finish(w) /\ collected' = collected
    BY DEF ExpireCommit
  <2>2. \A o \in Orders : collected'[o] \in Nat /\ collected[o] <= collected'[o]
    BY <2>1 DEF Inv, TypeOK
  <2> QED BY <2>1, <2>2, <1>3, CommitSessions
<1> QED BY <1>4, <1>5, <1>6 DEF Inv

-----------------------------------------------------------------------------

\* Validation inside a session moves it on and touches no table.
LEMMA ContinueInv ==
    ASSUME NEW w \in Workers, Inv, Continue(w)
    PROVE  Inv'
<1>1. ASSUME NEW from \in OneOrderSteps, NEW to \in OneOrderSteps \ {"settle"},
             from \in RefundSteps <=> to \in RefundSteps,
             pc[w] = from, pc' = [pc EXCEPT ![w] = to],
             UNCHANGED <<overlap, database, now, req, snap>>
      PROVE  Inv'
  <2>1. TypeOK'
    BY <1>1 DEF Inv, TypeOK, database, Steps, OneOrderSteps, RefundSteps
  <2>2. RowsOK'
    BY <1>1 DEF Inv, RowsOK, PaidWithinPrice, PaidIsCollected, NoEarlyVoid, database
  <2>3. \A v \in Workers : SnapshotOK(v)'
    BY <1>1 DEF Inv, SnapshotOK, Targets, database
  <2>4. RequestOK(w)'
    <3>1. pc'[w] = to /\ to \in OneOrderSteps /\ to # "idle" /\ to # "settle"
      BY <1>1 DEF Inv, TypeOK, OneOrderSteps, RefundSteps
    <3>2. req[w] \in Request /\ req[w].order \in Targets(w)
      BY <1>1 DEF Inv, RequestOK
    <3>3. to \in RefundSteps =>
            req[w].key \in Keys /\ 0 < Amount(w) /\ Amount(w) <= Order(w).paid
      BY <1>1 DEF Inv, RequestOK
    <3> QED BY <1>1, <3>1, <3>2, <3>3 DEF RequestOK, Order, Amount, Targets
  <2>5. ASSUME NEW v \in Workers \ {w} PROVE RequestOK(v)'
    <3>1. pc'[v] = pc[v]
      BY <1>1 DEF Inv, TypeOK
    <3> QED BY <1>1, <3>1 DEF Inv, RequestOK, Order, Amount, Remaining, Targets
  <2> QED BY <2>1, <2>2, <2>3, <2>4, <2>5 DEF Inv
<1>2. CASE CeilingCheck(w, "return_ceiling", "return")
  BY <1>1, <1>2 DEF CeilingCheck, OneOrderSteps, RefundSteps
<1>3. CASE CeilingCheck(w, "refund_ceiling", "refund_lookup")
  BY <1>1, <1>3 DEF CeilingCheck, OneOrderSteps, RefundSteps
<1>4. CASE KeyLookup(w)
  BY <1>1, <1>4 DEF KeyLookup, OneOrderSteps, RefundSteps
<1>5. CASE Reject(w) \/ Abort(w)
  BY <1>5, FinishInv DEF Reject, Abort
<1> QED BY <1>2, <1>3, <1>4, <1>5 DEF Continue

\* Every request is validated against the row it loads.
LEMMA BeginInv ==
    ASSUME NEW w \in Workers, Inv, Begin(w)
    PROVE  Inv'
<1> USE CheckoutAssumption
<1>1. CASE ExpireLoad(w)
  <2> DEFINE S == {o \in Orders : order[o].status \in Unsettled}
  <2>1. Load(w, S, Null, "expire") /\ UNCHANGED <<database, now>>
    BY <1>1 DEF ExpireLoad
  <2>2. "expire" \in Steps \ {"idle"} /\ "expire" \notin OneOrderSteps
    BY DEF Steps, OneOrderSteps, RefundSteps
  <2>3. \A o \in S : order[o].status # "none"
    BY DEF Unsettled
  <2> HIDE DEF S
  <2>4. S \in SUBSET Orders /\ Null \in Request \union {Null}
    BY DEF S
  <2> QED BY <2>1, <2>2, <2>3, <2>4, LoadInv DEF RefundSteps, OneOrderSteps
<1>2. ASSUME NEW o \in Orders, ExchangeLoad(w, o) PROVE Inv'
  <2> DEFINE r == [order |-> o, amount |-> 0, key |-> Null]
  <2>1. r \in Request /\ r.order = o
    BY DEF Request
  <2>2. /\ Load(w, {o}, r, "exchange") /\ UNCHANGED <<database, now>>
        /\ order[o].status # "none"
    BY <1>2 DEF ExchangeLoad, AfterSalesOpen
  <2>3. "exchange" \in Steps \ {"idle"} /\ "exchange" \notin RefundSteps
    BY DEF Steps, RefundSteps
  <2> HIDE DEF r
  <2> QED BY <2>1, <2>2, <2>3, LoadInv
<1>3. ASSUME NEW o \in Orders, NEW a \in Amounts, SettleLoad(w, o, a) PROVE Inv'
  <2> DEFINE r == [order |-> o, amount |-> a, key |-> Null]
  <2>1. r \in Request /\ r.order = o /\ r.amount = a
    BY DEF Request
  <2>2. /\ Load(w, {o}, r, "settle") /\ UNCHANGED <<database, now>>
        /\ order[o].status # "none" /\ 0 < a /\ a <= Remaining(order[o])
    BY <1>3 DEF SettleLoad, Unsettled
  <2>3. "settle" \in Steps \ {"idle"} /\ "settle" \notin RefundSteps
    BY DEF Steps, RefundSteps
  <2> HIDE DEF r
  <2> QED BY <2>1, <2>2, <2>3, LoadInv
<1>4. ASSUME NEW o \in Orders, NEW a \in Amounts, ReturnLoad(w, o, a) PROVE Inv'
  <2> DEFINE r == [order |-> o, amount |-> a, key |-> Null]
  <2>1. r \in Request /\ r.order = o
    BY DEF Request
  <2>2. /\ Load(w, {o}, r, "return_ceiling") /\ UNCHANGED <<database, now>>
        /\ order[o].status # "none"
    BY <1>4 DEF ReturnLoad, AfterSalesOpen
  <2>3. "return_ceiling" \in Steps \ {"idle"} /\ "return_ceiling" \notin RefundSteps
    BY DEF Steps, RefundSteps
  <2> HIDE DEF r
  <2> QED BY <2>1, <2>2, <2>3, LoadInv
<1>5. ASSUME NEW o \in Orders, NEW a \in Amounts, NEW k \in Keys, RefundLoad(w, o, a, k)
      PROVE  Inv'
  <2> DEFINE r == [order |-> o, amount |-> a, key |-> k]
  <2>1. r \in Request /\ r.order = o /\ r.amount = a /\ r.key = k
    BY DEF Request
  <2>2. /\ Load(w, {o}, r, "refund_ceiling") /\ UNCHANGED <<database, now>>
        /\ order[o].status # "none" /\ 0 < a /\ a <= order[o].paid
    BY <1>5 DEF RefundLoad, Refundable, AfterSalesOpen
  <2>3. "refund_ceiling" \in Steps \ {"idle"}
    BY DEF Steps
  <2> HIDE DEF r
  <2> QED BY <2>1, <2>2, <2>3, LoadInv
<1> QED BY <1>1, <1>2, <1>3, <1>4, <1>5 DEF Begin

\* Every commit preserves the invariant, whatever was committed since the load.
LEMMA CommitInv ==
    ASSUME NEW w \in Workers, Inv, Commit(w)
    PROVE  Inv'
<1>1. CASE ReturnCommit(w) \/ ExchangeCommit(w)
  <2>1. Finish(w) /\ UNCHANGED <<order, collected, refunded, refundOf, now>>
    BY <1>1 DEF ReturnCommit, ExchangeCommit
  <2>2. returned' \in [Orders -> Nat] /\ exchanged' \in [Orders -> BOOLEAN]
    <3>1. CASE ReturnCommit(w)
      <4>1. req[w].order \in Orders /\ Amount(w) \in Nat
        BY <3>1 DEF ReturnCommit, Inv, RequestOK, OneOrderSteps, Request, Amount
      <4> QED BY <3>1, <4>1 DEF ReturnCommit, Inv, TypeOK
    <3>2. CASE ExchangeCommit(w)
      BY <3>2 DEF ExchangeCommit, Inv, TypeOK
    <3> QED BY <1>1, <3>1, <3>2
  <2>3. TypeOK'
    BY <2>1, <2>2, FinishType DEF Inv, TypeOK
  <2>4. RowsOK'
    BY <2>1 DEF Inv, RowsOK, PaidWithinPrice, PaidIsCollected, NoEarlyVoid
  <2>5. \A o \in Orders : collected'[o] \in Nat /\ collected[o] <= collected'[o]
    BY <2>1 DEF Inv, TypeOK
  <2>6. \A v \in Workers : SnapshotOK(v)' /\ RequestOK(v)'
    BY <2>1, <2>5, CommitSessions
  <2> QED BY <2>3, <2>4, <2>6 DEF Inv
<1> QED
  BY <1>1, SettleCommitInv, RefundCommitInv, ExpireCommitInv DEF Commit

\* The invariant is inductive.
LEMMA StepInv == Inv /\ [Next]_vars => Inv'
<1> SUFFICES ASSUME Inv, [Next]_vars PROVE Inv'
  OBVIOUS
<1> USE CheckoutAssumption
<1>1. ASSUME Tick \/ UNCHANGED vars PROVE Inv'
  <2>1. /\ UNCHANGED <<order, collected, refunded, returned, exchanged, refundOf>>
        /\ UNCHANGED <<overlap, pc, req, snap>>
        /\ now' \in Nat /\ now <= now'
    BY <1>1 DEF Tick, vars, database, sessions, Inv, TypeOK
  <2>2. TypeOK'
    BY <2>1 DEF Inv, TypeOK
  <2>3. RowsOK'
    <3>1. PaidWithinPrice' /\ PaidIsCollected'
      BY <2>1 DEF Inv, RowsOK, PaidWithinPrice, PaidIsCollected
    <3>2. \A o \in Orders : order[o].created \in Nat
      BY DEF Inv, TypeOK, Row
    <3>3. NoEarlyVoid'
      BY <2>1, <3>2 DEF Inv, TypeOK, RowsOK, NoEarlyVoid
    <3> QED BY <3>1, <3>3 DEF RowsOK
  <2>4. \A v \in Workers : SnapshotOK(v)' /\ RequestOK(v)'
    BY <2>1 DEF Inv, SnapshotOK, RequestOK, Targets, Order, Amount, Remaining
  <2> QED BY <2>2, <2>3, <2>4 DEF Inv
<1>2. ASSUME NEW o \in Orders, NEW price \in Prices, CreateOrder(o, price) PROVE Inv'
  <2>1. /\ \A q \in Orders \ {o} : order'[q] = order[q]
        /\ order'[o] = [NoRow EXCEPT !.status = "pending", !.final = price, !.created = now]
        /\ order' = [q \in Orders |-> order'[q]]
        /\ order[o].status = "none"
        /\ UNCHANGED <<overlap, collected, refunded, returned, exchanged, refundOf, now, pc, req, snap>>
    BY <1>2 DEF CreateOrder, Inv, TypeOK, sessions
  <2>2. /\ order'[o] \in Row /\ order'[o].status # "none"
        /\ order'[o].paid = 0 /\ order'[o].final \in Nat /\ order'[o].voided = FALSE
    <3>1. now \in Nat /\ price \in Nat
      BY DEF Inv, TypeOK
    <3>2. order'[o] = [status |-> "pending", final |-> price, paid |-> 0,
                       settled |-> FALSE, voided |-> FALSE, created |-> now]
      BY <2>1 DEF NoRow
    <3> QED BY <3>1, <3>2 DEF Row, Statuses
  <2>3. TypeOK'
    <3>1. order' \in [Orders -> Row]
      BY <2>1, <2>2 DEF Inv, TypeOK
    <3> QED BY <2>1, <3>1 DEF Inv, TypeOK
  <2>4. RowsOK'
    <3> SUFFICES ASSUME NEW q \in Orders
                 PROVE /\ 0 <= order'[q].paid /\ order'[q].paid <= order'[q].final
                       /\ order'[q].paid <= collected[q]
                       /\ order'[q].voided => order'[q].created + ExpiryAge <= now
      BY <2>1 DEF RowsOK, PaidWithinPrice, PaidIsCollected, NoEarlyVoid
    <3>1. collected[q] \in Nat
      BY DEF Inv, TypeOK
    <3>2. CASE q = o
      BY <3>1, <3>2, <2>2
    <3>3. CASE q # o
      BY <3>3, <2>1 DEF Inv, RowsOK, PaidWithinPrice, PaidIsCollected, NoEarlyVoid
    <3> QED BY <3>2, <3>3
  <2>5. \A q \in Orders :
            /\ collected'[q] \in Nat
            /\ collected[q] <= collected'[q]
            /\ order[q].status # "none" => order'[q] = order[q]
    BY <2>1 DEF Inv, TypeOK
  <2>6. \A v \in Workers : SnapshotOK(v)' /\ RequestOK(v)'
    BY <2>1, <2>5, SessionFrame DEF Inv
  <2> QED BY <2>3, <2>4, <2>6 DEF Inv
<1> QED
  BY <1>1, <1>2, BeginInv, ContinueInv, CommitInv DEF Next

\* The inductive invariant of the sessions.
THEOREM Invariance == Spec => []Inv
BY InitInv, StepInv, PTL DEF Spec

\* Type correctness of tables and sessions.
THEOREM TypeCorrect == Spec => []TypeOK
<1>1. Inv => TypeOK
  BY DEF Inv
<1> QED BY <1>1, Invariance, PTL

\* With any number of concurrent payments, refunds and expiry runs on an order
\* and no lock at all, the paid amount stays between nothing and the price.
THEOREM PaidWithinPriceHolds == Spec => []PaidWithinPrice
<1>1. Inv => PaidWithinPrice
  BY DEF Inv, RowsOK
<1> QED BY <1>1, Invariance, PTL

\* The paid amount never claims money that no payment record covers.
THEOREM PaidIsCollectedHolds == Spec => []PaidIsCollected
<1>1. Inv => PaidIsCollected
  BY DEF Inv, RowsOK
<1> QED BY <1>1, Invariance, PTL

\* No order is auto-voided before its time.
THEOREM NoEarlyVoidHolds == Spec => []NoEarlyVoid
<1>1. Inv => NoEarlyVoid
  BY DEF Inv, RowsOK
<1> QED BY <1>1, Invariance, PTL

\* An idempotency key names at most one refund, and every refund names a key of
\* its own: only the unique constraint is needed, not the lookup.
THEOREM RefundOncePerKeyHolds == Spec => RefundOncePerKey
<1> DEFINE Once == \A o \in Orders :
        refunded'[o] # refunded[o] =>
            \E k \in Keys :
                /\ refundOf[k] = Null
                /\ refundOf'[k] = [order |-> o, amount |-> refunded'[o] - refunded[o]]
                /\ \A j \in Keys \ {k} : refundOf'[j] = refundOf[j]
<1>1. Inv /\ [Next]_vars => [Once]_vars
  <2> SUFFICES ASSUME Inv, Next PROVE Once
    OBVIOUS
  <2>1. ASSUME NEW w \in Workers, RefundCommit(w) PROVE Once
    <3>1. /\ req[w].order \in Orders /\ req[w].key \in Keys /\ Amount(w) \in Nat
          /\ refunded \in [Orders -> Nat] /\ refundOf = [k \in Keys |-> refundOf[k]]
      BY <2>1
      DEF Inv, TypeOK, RequestOK, RefundCommit, OneOrderSteps, RefundSteps, Request, Amount
    <3>2. /\ refundOf[req[w].key] = Null
          /\ refundOf' = [refundOf EXCEPT ![req[w].key] =
                             [order |-> req[w].order, amount |-> Amount(w)]]
          /\ refunded' = [refunded EXCEPT ![req[w].order] = @ + Amount(w)]
      BY <2>1 DEF RefundCommit
    <3> SUFFICES ASSUME NEW o \in Orders, refunded'[o] # refunded[o]
                 PROVE \E k \in Keys :
                /\ refundOf[k] = Null
                /\ refundOf'[k] = [order |-> o, amount |-> refunded'[o] - refunded[o]]
                /\ \A j \in Keys \ {k} : refundOf'[j] = refundOf[j]
      OBVIOUS
    <3>3. o = req[w].order /\ refunded'[o] - refunded[o] = Amount(w)
      BY <3>1, <3>2
    <3> QED BY <3>1, <3>2, <3>3
  <2>2. ASSUME refunded' = refunded PROVE Once
    BY <2>2
  <2>3. CASE Tick \/ \E o \in Orders, price \in Prices : CreateOrder(o, price)
    BY <2>2, <2>3 DEF Tick, CreateOrder, database
  <2>4. ASSUME NEW w \in Workers, Begin(w) \/ Continue(w) PROVE Once
    BY <2>2, <2>4
    DEF Begin, ExpireLoad, ExchangeLoad, SettleLoad, ReturnLoad, RefundLoad,
        Continue, CeilingCheck, KeyLookup, Reject, Abort, database
  <2>5. ASSUME NEW w \in Workers,
               SettleCommit(w) \/ ReturnCommit(w) \/ ExchangeCommit(w) \/ ExpireCommit(w)
        PROVE Once
    BY <2>2, <2>5 DEF SettleCommit, ReturnCommit, ExchangeCommit, ExpireCommit
  <2> QED BY <2>1, <2>3, <2>4, <2>5 DEF Next, Commit
<1> QED BY <1>1, Invariance, PTL DEF Spec, RefundOncePerKey

-----------------------------------------------------------------------------
\* Requests that do not overlap

\* What the row of an order, the payment records and the refund records say
\* about one another between commits.
LedgerRow(o) ==
    /\ order[o].paid = collected[o] - refunded[o]
    /\ refunded[o] <= order[o].final
    /\ order[o].status = "none" => order[o].paid = 0 /\ refunded[o] = 0
    /\ order[o].status = "pending" => order[o].paid = 0
    /\ order[o].status = "partially_paid" =>
          0 < order[o].paid /\ order[o].paid < order[o].final
    /\ order[o].status = "settled" => order[o].paid = order[o].final
    /\ order[o].settled <=> order[o].status = "settled"
    /\ order[o].voided <=> order[o].status = "void"

\* No two sessions hold the same order, so what a session loaded is what the
\* table still says.
Exclusive ==
    \A v, w \in Workers : v # w => Targets(v) \intersect Targets(w) = {}
Current(w) == \A o \in Targets(w) : snap[w][o] = order[o]

\* The checks a request has passed, by the step it has reached.
Stage(w) ==
    /\ pc[w] = "settle" => Order(w).status \in Unsettled /\ Amount(w) \in Amounts
    /\ pc[w] \in {"return_ceiling", "return", "exchange"} => Order(w).status # "void"
    /\ pc[w] \in RefundSteps =>
          Order(w).status \in {"partially_paid", "settled"} /\ Amount(w) \in Amounts
    /\ pc[w] \in {"refund_lookup", "refund"} =>
          WithinCeiling(req[w].order, Amount(w), Order(w).final)
    /\ pc[w] = "expire" => \A o \in Targets(w) : snap[w][o].status \in Unsettled

SerialInv ==
    /\ Inv
    /\ \A o \in Orders : LedgerRow(o)
    /\ Exclusive
    /\ \A w \in Workers : Current(w) /\ Stage(w)

-----------------------------------------------------------------------------

\* Before the first request every table and every session is empty.
LEMMA InitSerial == Init => SerialInv
<1> SUFFICES ASSUME Init PROVE SerialInv
  OBVIOUS
<1>1. Inv
  BY InitInv
<1>2. \A o \in Orders : LedgerRow(o)
  <2> SUFFICES ASSUME NEW o \in Orders PROVE LedgerRow(o)
    OBVIOUS
  <2>1. /\ order[o].status = "none" /\ order[o].paid = 0 /\ order[o].final = 0
        /\ order[o].settled = FALSE /\ order[o].voided = FALSE
        /\ collected[o] = 0 /\ refunded[o] = 0
    BY DEF Init, NoRows, NoRow
  <2> QED BY <2>1 DEF LedgerRow
<1>3. \A w \in Workers : Targets(w) = {} /\ pc[w] = "idle"
  BY DEF Init, NoRows, NoRow, Targets
<1>4. Exclusive /\ \A w \in Workers : Current(w) /\ Stage(w)
  BY <1>3 DEF Exclusive, Current, Stage, RefundSteps
<1> QED BY <1>1, <1>2, <1>4 DEF SerialInv

\* What a session relies on survives a step that leaves its orders alone.
LEMMA SerialFrame ==
    ASSUME NEW v \in Workers, RequestOK(v), Current(v), Stage(v),
           snap'[v] = snap[v], pc'[v] = pc[v], req'[v] = req[v],
           \A o \in Targets(v) : order'[o] = order[o] /\ refunded'[o] = refunded[o]
    PROVE  Targets(v)' = Targets(v) /\ Current(v)' /\ Stage(v)'
<1>1. Targets(v)' = Targets(v)
  BY DEF Targets
<1>2. Current(v)'
  BY <1>1 DEF Current
<1>3. Order(v)' = Order(v) /\ Amount(v)' = Amount(v)
  BY DEF Order, Amount
<1>4. pc[v] \in {"refund_lookup", "refund"} =>
          refunded'[req[v].order] = refunded[req[v].order]
  BY DEF RequestOK, OneOrderSteps, RefundSteps
<1>5. Stage(v)'
  BY <1>1, <1>3, <1>4 DEF Stage, WithinCeiling
<1> QED BY <1>1, <1>2, <1>5

\* A commit by w to orders it holds keeps the other sessions exclusive and
\* current, and w itself holds nothing any more.
LEMMA SerialCommit ==
    ASSUME NEW w \in Workers, SerialInv, Finish(w),
           \A o \in Orders \ Targets(w) : order'[o] = order[o] /\ refunded'[o] = refunded[o]
    PROVE  Exclusive' /\ \A v \in Workers : Current(v)' /\ Stage(v)'
<1>1. Targets(w)' = {} /\ pc'[w] = "idle"
  BY DEF SerialInv, Inv, TypeOK, Finish, Targets, NoRows, NoRow
<1>2. ASSUME NEW v \in Workers \ {w}
      PROVE  Targets(v)' = Targets(v) /\ Current(v)' /\ Stage(v)'
  <2>1. snap'[v] = snap[v] /\ pc'[v] = pc[v] /\ req'[v] = req[v]
    BY DEF Finish, SerialInv, Inv, TypeOK
  <2>2. \A o \in Targets(v) : o \in Orders \ Targets(w)
    BY DEF SerialInv, Exclusive, Targets
  <2> QED BY <2>1, <2>2, SerialFrame DEF SerialInv, Inv
<1>3. Current(w)' /\ Stage(w)'
  BY <1>1 DEF Current, Stage, RefundSteps
<1>4. Exclusive'
  BY <1>1, <1>2 DEF SerialInv, Exclusive
<1> QED BY <1>2, <1>3, <1>4

\* A load takes orders no other session holds.
LEMMA SerialLoad ==
    ASSUME ~overlap, NEW w \in Workers, NEW S \in SUBSET Orders,
           NEW r, NEW step,
           SerialInv, Load(w, S, r, step), UNCHANGED <<database, now>>,
           \A o \in S : order[o].status # "none"
    PROVE  /\ Exclusive'
           /\ \A v \in Workers : Current(v)'
           /\ \A v \in Workers \ {w} : Stage(v)'
           /\ pc'[w] = step /\ req'[w] = r /\ Targets(w)' = S
<1>1. /\ pc'[w] = step /\ req'[w] = r
      /\ snap'[w] = [o \in Orders |-> IF o \in S THEN order[o] ELSE NoRow]
  BY DEF SerialInv, Inv, TypeOK, Load
<1>2. Targets(w)' = S
  BY <1>1 DEF Targets, NoRow
<1>3. Current(w)'
  BY <1>1, <1>2 DEF Current, database
<1>4. ASSUME NEW v \in Workers \ {w}
      PROVE  Targets(v)' = Targets(v) /\ Current(v)' /\ Stage(v)'
  <2>1. snap'[v] = snap[v] /\ pc'[v] = pc[v] /\ req'[v] = req[v]
    BY DEF Load, SerialInv, Inv, TypeOK
  <2> QED BY <2>1, SerialFrame DEF SerialInv, Inv, database
<1>5. \A v \in Workers \ {w} : Targets(v) \intersect S = {}
  BY DEF Load, CanStart
<1>6. Exclusive'
  BY <1>2, <1>4, <1>5 DEF SerialInv, Exclusive
<1> QED BY <1>1, <1>2, <1>3, <1>4, <1>6

-----------------------------------------------------------------------------
\* One step of the sessions is one step of the ledger or none.

\* What the ledger sees as long as requests do not overlap.
Atomic == INSTANCE OrderLedger WITH
    status <- [o \in Orders |-> order[o].status],
    price <- [o \in Orders |-> order[o].final],
    collected <- collected,
    refunded <- refunded,
    used <- {k \in Keys : refundOf[k] # Null}

LedgerVars ==
    <<[o \in Orders |-> order[o].status], [o \in Orders |-> order[o].final],
      collected, refunded, {k \in Keys : refundOf[k] # Null}>>

SerialStep == SerialInv' /\ (Atomic!Next \/ UNCHANGED LedgerVars)

\* A step that touches no order row, payment or refund is no ledger step.
LEMMA Stutter ==
    ASSUME UNCHANGED <<order, collected, refunded, refundOf>>
    PROVE  UNCHANGED LedgerVars
BY DEF LedgerVars

LEMMA SameRows ==
    ASSUME \A o \in Orders : LedgerRow(o), UNCHANGED <<order, collected, refunded>>
    PROVE  (\A o \in Orders : LedgerRow(o))'
BY DEF LedgerRow

\* Loading decides nothing: the ledger stutters.
LEMMA SerialBegin ==
    ASSUME ~overlap, NEW w \in Workers, SerialInv, Begin(w)
    PROVE  SerialStep
<1>1. Inv'
  BY BeginInv DEF SerialInv
<1>2. UNCHANGED <<order, collected, refunded, refundOf>> /\ UNCHANGED <<database, now>>
  BY DEF Begin, ExpireLoad, ExchangeLoad, SettleLoad, ReturnLoad, RefundLoad, database
<1>3. UNCHANGED LedgerVars /\ (\A o \in Orders : LedgerRow(o))'
  BY <1>2, Stutter, SameRows DEF SerialInv
<1>4. ASSUME NEW S \in SUBSET Orders, NEW r, NEW step,
             Load(w, S, r, step), \A o \in S : order[o].status # "none"
      PROVE  /\ Exclusive'
             /\ \A v \in Workers : Current(v)'
             /\ \A v \in Workers \ {w} : Stage(v)'
             /\ pc'[w] = step /\ req'[w] = r /\ Targets(w)' = S
  BY <1>2, <1>4, SerialLoad
<1>5. ASSUME NEW S \in SUBSET Orders, NEW r \in Request, NEW step,
             Load(w, S, r, step), r.order \in S
      PROVE  Order(w)' = order[r.order] /\ Amount(w)' = r.amount
  <2>1. /\ req'[w] = r
        /\ snap'[w] = [o \in Orders |-> IF o \in S THEN order[o] ELSE NoRow]
    BY <1>5 DEF SerialInv, Inv, TypeOK, Load
  <2> QED BY <1>5, <2>1 DEF Order, Amount
<1>6. CASE ExpireLoad(w)
  <2> DEFINE S == {o \in Orders : order[o].status \in Unsettled}
  <2>1. Load(w, S, Null, "expire") /\ \A o \in S : order[o].status # "none"
    BY <1>6 DEF ExpireLoad, Unsettled
  <2>2. /\ Exclusive'
        /\ \A v \in Workers : Current(v)'
        /\ \A v \in Workers \ {w} : Stage(v)'
        /\ pc'[w] = "expire" /\ Targets(w)' = S
    BY <2>1, <1>4
  <2>3. \A o \in S : snap'[w][o].status \in Unsettled
    BY <2>2, <1>2 DEF Current
  <2>4. Stage(w)'
    BY <2>2, <2>3 DEF Stage, RefundSteps
  <2> QED BY <1>1, <1>3, <2>2, <2>4 DEF SerialStep, SerialInv
<1>7. ASSUME NEW o \in Orders, ExchangeLoad(w, o) PROVE SerialStep
  <2> DEFINE r == [order |-> o, amount |-> 0, key |-> Null]
  <2>1. r \in Request /\ r.order = o
    BY DEF Request
  <2>2. /\ Load(w, {o}, r, "exchange") /\ order[o].status \notin {"none", "void"}
        /\ {o} \in SUBSET Orders /\ \A q \in {o} : order[q].status # "none"
    BY <1>7 DEF ExchangeLoad, AfterSalesOpen
  <2> HIDE DEF r
  <2>3. /\ Exclusive'
        /\ \A v \in Workers : Current(v)'
        /\ \A v \in Workers \ {w} : Stage(v)'
        /\ pc'[w] = "exchange"
    BY <2>2, <1>4
  <2>4. Order(w)' = order[o]
    BY <2>1, <2>2, <1>5
  <2>5. Stage(w)'
    BY <2>2, <2>3, <2>4 DEF Stage, RefundSteps
  <2> QED BY <1>1, <1>3, <2>3, <2>5 DEF SerialStep, SerialInv
<1>8. ASSUME NEW o \in Orders, NEW a \in Amounts, SettleLoad(w, o, a) PROVE SerialStep
  <2> DEFINE r == [order |-> o, amount |-> a, key |-> Null]
  <2>1. r \in Request /\ r.order = o /\ r.amount = a
    BY CheckoutAssumption DEF Request
  <2>2. /\ Load(w, {o}, r, "settle") /\ order[o].status \in Unsettled
        /\ {o} \in SUBSET Orders /\ \A q \in {o} : order[q].status # "none"
    BY <1>8 DEF SettleLoad, Unsettled
  <2> HIDE DEF r
  <2>3. /\ Exclusive'
        /\ \A v \in Workers : Current(v)'
        /\ \A v \in Workers \ {w} : Stage(v)'
        /\ pc'[w] = "settle"
    BY <2>2, <1>4
  <2>4. Order(w)' = order[o] /\ Amount(w)' = a
    BY <2>1, <2>2, <1>5
  <2>5. Stage(w)'
    BY <2>2, <2>3, <2>4 DEF Stage, RefundSteps
  <2> QED BY <1>1, <1>3, <2>3, <2>5 DEF SerialStep, SerialInv
<1>9. ASSUME NEW o \in Orders, NEW a \in Amounts, ReturnLoad(w, o, a) PROVE SerialStep
  <2> DEFINE r == [order |-> o, amount |-> a, key |-> Null]
  <2>1. r \in Request /\ r.order = o
    BY CheckoutAssumption DEF Request
  <2>2. /\ Load(w, {o}, r, "return_ceiling") /\ order[o].status \notin {"none", "void"}
        /\ {o} \in SUBSET Orders /\ \A q \in {o} : order[q].status # "none"
    BY <1>9 DEF ReturnLoad, AfterSalesOpen
  <2> HIDE DEF r
  <2>3. /\ Exclusive'
        /\ \A v \in Workers : Current(v)'
        /\ \A v \in Workers \ {w} : Stage(v)'
        /\ pc'[w] = "return_ceiling"
    BY <2>2, <1>4
  <2>4. Order(w)' = order[o]
    BY <2>1, <2>2, <1>5
  <2>5. Stage(w)'
    BY <2>2, <2>3, <2>4 DEF Stage, RefundSteps
  <2> QED BY <1>1, <1>3, <2>3, <2>5 DEF SerialStep, SerialInv
<1>10. ASSUME NEW o \in Orders, NEW a \in Amounts, NEW k \in Keys, RefundLoad(w, o, a, k)
       PROVE  SerialStep
  <2> DEFINE r == [order |-> o, amount |-> a, key |-> k]
  <2>1. r \in Request /\ r.order = o /\ r.amount = a
    BY CheckoutAssumption DEF Request
  <2>2. /\ Load(w, {o}, r, "refund_ceiling")
        /\ order[o].status \in {"partially_paid", "settled"}
        /\ {o} \in SUBSET Orders /\ \A q \in {o} : order[q].status # "none"
    BY <1>10 DEF RefundLoad, Refundable
  <2> HIDE DEF r
  <2>3. /\ Exclusive'
        /\ \A v \in Workers : Current(v)'
        /\ \A v \in Workers \ {w} : Stage(v)'
        /\ pc'[w] = "refund_ceiling"
    BY <2>2, <1>4
  <2>4. Order(w)' = order[o] /\ Amount(w)' = a
    BY <2>1, <2>2, <1>5
  <2>5. Stage(w)'
    BY <2>2, <2>3, <2>4 DEF Stage, RefundSteps
  <2> QED BY <1>1, <1>3, <2>3, <2>5 DEF SerialStep, SerialInv
<1> QED BY <1>6, <1>7, <1>8, <1>9, <1>10 DEF Begin

\* Validating decides nothing either, nor does a request that ends without a
\* write.
LEMMA SerialContinue ==
    ASSUME NEW w \in Workers, SerialInv, Continue(w)
    PROVE  SerialStep
<1>1. Inv'
  BY ContinueInv DEF SerialInv
<1>2. UNCHANGED <<order, collected, refunded, refundOf>>
  BY DEF Continue, CeilingCheck, KeyLookup, Reject, Abort, database
<1>3. UNCHANGED LedgerVars /\ (\A o \in Orders : LedgerRow(o))'
  BY <1>2, Stutter, SameRows DEF SerialInv
<1>4. ASSUME NEW from \in OneOrderSteps, NEW to \in OneOrderSteps,
             pc[w] = from, pc' = [pc EXCEPT ![w] = to], UNCHANGED <<req, snap>>,
             \/ from = "return_ceiling" /\ to = "return"
             \/ /\ from \in RefundSteps /\ to \in {"refund_lookup", "refund"}
                /\ WithinCeiling(req[w].order, Amount(w), Order(w).final)
      PROVE  Exclusive' /\ \A v \in Workers : Current(v)' /\ Stage(v)'
  <2>1. ASSUME NEW v \in Workers
        PROVE  Targets(v)' = Targets(v) /\ Order(v)' = Order(v) /\ Amount(v)' = Amount(v)
    BY <1>4 DEF Targets, Order, Amount
  <2>2. Exclusive' /\ \A v \in Workers : Current(v)'
    BY <1>2, <1>4, <2>1 DEF SerialInv, Exclusive, Current
  <2>3. ASSUME NEW v \in Workers \ {w} PROVE Stage(v)'
    <3>1. snap'[v] = snap[v] /\ pc'[v] = pc[v] /\ req'[v] = req[v]
      BY <1>4 DEF SerialInv, Inv, TypeOK
    <3> QED BY <1>2, <3>1, SerialFrame DEF SerialInv, Inv
  <2>4. Stage(w)'
    <3>1. pc'[w] = to
      BY <1>4 DEF SerialInv, Inv, TypeOK
    <3>2. CASE from = "return_ceiling" /\ to = "return"
      BY <1>4, <2>1, <3>1, <3>2 DEF SerialInv, Stage, RefundSteps
    <3>3. CASE /\ from \in RefundSteps /\ to \in {"refund_lookup", "refund"}
               /\ WithinCeiling(req[w].order, Amount(w), Order(w).final)
      <4>1. WithinCeiling(req[w].order, Amount(w), Order(w).final)'
        BY <1>2, <1>4, <2>1, <3>3 DEF WithinCeiling
      <4> QED BY <1>4, <2>1, <3>1, <3>3, <4>1 DEF SerialInv, Stage, RefundSteps
    <3> QED BY <1>4, <3>2, <3>3
  <2> QED BY <2>2, <2>3, <2>4
<1>5. CASE CeilingCheck(w, "return_ceiling", "return")
  <2>1. Exclusive' /\ \A v \in Workers : Current(v)' /\ Stage(v)'
    BY <1>4, <1>5 DEF CeilingCheck, OneOrderSteps
  <2> QED BY <1>1, <1>3, <2>1 DEF SerialStep, SerialInv
<1>6. CASE CeilingCheck(w, "refund_ceiling", "refund_lookup")
  <2>1. Exclusive' /\ \A v \in Workers : Current(v)' /\ Stage(v)'
    BY <1>4, <1>6 DEF CeilingCheck, OneOrderSteps, RefundSteps
  <2> QED BY <1>1, <1>3, <2>1 DEF SerialStep, SerialInv
<1>7. CASE KeyLookup(w)
  <2>1. WithinCeiling(req[w].order, Amount(w), Order(w).final)
    BY <1>7 DEF KeyLookup, SerialInv, Stage
  <2>2. Exclusive' /\ \A v \in Workers : Current(v)' /\ Stage(v)'
    BY <1>4, <1>7, <2>1 DEF KeyLookup, OneOrderSteps, RefundSteps
  <2> QED BY <1>1, <1>3, <2>2 DEF SerialStep, SerialInv
<1>8. CASE Reject(w) \/ Abort(w)
  <2>1. Exclusive' /\ \A v \in Workers : Current(v)' /\ Stage(v)'
    BY <1>2, <1>8, SerialCommit DEF Reject, Abort
  <2> QED BY <1>1, <1>3, <2>1 DEF SerialStep, SerialInv
<1> QED BY <1>5, <1>6, <1>7, <1>8 DEF Continue

\* A payment is one Collect.
LEMMA SerialSettle ==
    ASSUME NEW w \in Workers, SerialInv, SettleCommit(w)
    PROVE  SerialStep
<1>a. req[w].order \in Orders /\ Amount(w) \in Amounts
  BY DEF SerialInv, Stage, Inv, RequestOK, SettleCommit, OneOrderSteps, Request
<1>o. PICK o \in Orders, a \in Amounts : o = req[w].order /\ a = Amount(w)
  BY <1>a
<1> DEFINE paid == Order(w).paid + a
           status == SettledStatus(paid, Order(w).final)
<1>1. /\ o \in Targets(w) /\ a \in Nat /\ 0 < a
      /\ a <= Order(w).final - Order(w).paid /\ Order(w).status \in Unsettled
  BY <1>o, CheckoutAssumption
  DEF SerialInv, Stage, Inv, RequestOK, SettleCommit, OneOrderSteps, Remaining
<1>2. Order(w) = order[o] /\ order[o] \in Row /\ collected[o] \in Nat /\ refunded[o] \in Nat
  BY <1>o, <1>1 DEF SerialInv, Current, Order, Inv, TypeOK
<1>3. LedgerRow(o) /\ order[o].paid \in Int /\ order[o].final \in Nat
  BY <1>1, <1>2 DEF SerialInv, Row
<1>4. /\ collected' = [collected EXCEPT ![o] = @ + a]
      /\ UNCHANGED <<refunded, refundOf>>
      /\ Finish(w)
  BY <1>o DEF SettleCommit
<1>5. paid # order[o].paid /\ paid \in Int /\ 0 < paid /\ paid <= order[o].final
  BY <1>1, <1>2, <1>3 DEF Inv, SerialInv, RowsOK, PaidWithinPrice
<1>6. /\ \A q \in Orders \ {o} : order'[q] = order[q]
      /\ order'[o].paid = paid /\ order'[o].status = status
      /\ order'[o].settled = IF status = "settled" THEN TRUE ELSE order[o].settled
      /\ order'[o].final = order[o].final /\ order'[o].voided = order[o].voided
  <2>1. order' = [order EXCEPT
              ![o].paid = Written(Order(w).paid, paid, @),
              ![o].status = Written(Order(w).status, status, @),
              ![o].settled = IF status = "settled" THEN TRUE ELSE @]
    BY <1>o DEF SettleCommit
  <2> HIDE DEF paid, status
  <2> QED BY <1>1, <1>2, <1>5, <2>1 DEF Written, SerialInv, Inv, TypeOK, Row
<1>7. status = IF paid = order[o].final THEN "settled" ELSE "partially_paid"
  BY <1>2, <1>5 DEF SettledStatus
<1>8. LedgerRow(o)'
  <2>1. collected'[o] = collected[o] + a /\ refunded'[o] = refunded[o]
    BY <1>1, <1>2, <1>4 DEF SerialInv, Inv, TypeOK
  <2>2. order[o].settled = FALSE /\ order[o].voided = FALSE
    BY <1>1, <1>2, <1>3 DEF LedgerRow, Unsettled, Row
  <2>3. order'[o].paid = collected'[o] - refunded'[o] /\ refunded'[o] <= order'[o].final
    BY <1>1, <1>2, <1>3, <1>6, <2>1 DEF LedgerRow
  <2>4. /\ order'[o].settled <=> order'[o].status = "settled"
        /\ order'[o].voided <=> order'[o].status = "void"
    <3> HIDE DEF paid, status
    <3> QED BY <1>6, <1>7, <2>2
  <2>5. /\ order'[o].status = "none" => order'[o].paid = 0 /\ refunded'[o] = 0
        /\ order'[o].status = "pending" => order'[o].paid = 0
        /\ order'[o].status = "partially_paid" =>
              0 < order'[o].paid /\ order'[o].paid < order'[o].final
        /\ order'[o].status = "settled" => order'[o].paid = order'[o].final
    <3> HIDE DEF paid, status
    <3> QED BY <1>3, <1>5, <1>6, <1>7
  <2> QED BY <2>3, <2>4, <2>5 DEF LedgerRow
<1>9. ASSUME NEW q \in Orders \ {o} PROVE LedgerRow(q)'
  BY <1>1, <1>4, <1>6 DEF SerialInv, Inv, TypeOK, LedgerRow
<1>10. SerialInv'
  <2>1. Exclusive' /\ \A v \in Workers : Current(v)' /\ Stage(v)'
    BY <1>1, <1>4, <1>6, SerialCommit
  <2>2. Inv'
    BY SettleCommitInv DEF SerialInv
  <2>3. (\A q \in Orders : LedgerRow(q))'
    BY <1>8, <1>9
  <2> QED BY <2>1, <2>2, <2>3 DEF SerialInv
<1>11. Atomic!Collect(o, a)
  <2>1. order[o].paid = collected[o] - refunded[o] /\ Order(w).final = order[o].final
    BY <1>2, <1>3 DEF LedgerRow
  <2>2. [q \in Orders |-> order'[q].final] = [q \in Orders |-> order[q].final]
    BY <1>6
  <2>3. [q \in Orders |-> order'[q].status] =
            [[q \in Orders |-> order[q].status] EXCEPT ![o] = status]
    BY <1>6
  <2>4. status = Atomic!StatusFor(collected[o] - refunded[o] + a, order[o].final)
    BY <1>2, <2>1 DEF SettledStatus, Atomic!StatusFor
  <2>5. collected[o] - refunded[o] + a <= order[o].final
    BY <1>2, <1>5, <2>1
  <2> HIDE DEF status
  <2> QED
    BY <1>1, <1>2, <1>4, <2>2, <2>3, <2>4, <2>5
    DEF Atomic!Collect, Atomic!Paid, Atomic!Unsettled, Unsettled
<1>12. \E q \in Orders, b \in Amounts : Atomic!Collect(q, b)
  BY <1>1, <1>11
<1> QED BY <1>10, <1>12 DEF SerialStep, Atomic!Next

\* A reverse settlement is one Refund.
LEMMA SerialRefund ==
    ASSUME NEW w \in Workers, SerialInv, RefundCommit(w)
    PROVE  SerialStep
<1>a. req[w].order \in Orders /\ Amount(w) \in Amounts /\ req[w].key \in Keys
  BY DEF SerialInv, Stage, Inv, RequestOK, RefundCommit, OneOrderSteps, RefundSteps, Request
<1>o. PICK o \in Orders, a \in Amounts, k \in Keys :
          o = req[w].order /\ a = Amount(w) /\ k = req[w].key
  BY <1>a
<1> DEFINE paid == Order(w).paid - a
           status == RefundedStatus(paid, Order(w).final)
<1>1. /\ o \in Targets(w) /\ a \in Nat /\ 0 < a
      /\ a <= Order(w).paid /\ Order(w).status \in {"partially_paid", "settled"}
      /\ refunded[o] + a <= Order(w).final
  BY <1>o, CheckoutAssumption
  DEF SerialInv, Stage, WithinCeiling, Inv, RequestOK, RefundCommit, OneOrderSteps, RefundSteps
<1>2. Order(w) = order[o] /\ order[o] \in Row /\ collected[o] \in Nat /\ refunded[o] \in Nat
  BY <1>o, <1>1 DEF SerialInv, Current, Order, Inv, TypeOK
<1>3. LedgerRow(o) /\ order[o].paid \in Int /\ order[o].final \in Nat
  BY <1>1, <1>2 DEF SerialInv, Row
<1>4. /\ refunded' = [refunded EXCEPT ![o] = @ + a]
      /\ UNCHANGED collected
      /\ refundOf[k] = Null
      /\ refundOf' = [refundOf EXCEPT ![k] = [order |-> o, amount |-> a]]
      /\ Finish(w)
  BY <1>o DEF RefundCommit
<1>5. paid # order[o].paid /\ paid \in Int /\ 0 <= paid /\ paid < order[o].final
  BY <1>1, <1>2, <1>3 DEF Inv, SerialInv, RowsOK, PaidWithinPrice
<1>6. /\ \A q \in Orders \ {o} : order'[q] = order[q]
      /\ order'[o].paid = paid /\ order'[o].status = status
      /\ order'[o].settled =
            IF status # "settled" /\ order[o].settled THEN FALSE ELSE order[o].settled
      /\ order'[o].final = order[o].final /\ order'[o].voided = order[o].voided
  <2>1. order' = [order EXCEPT
              ![o].paid = Written(Order(w).paid, paid, @),
              ![o].status = Written(Order(w).status, status, @),
              ![o].settled = IF status # "settled" /\ Order(w).settled THEN FALSE ELSE @]
    BY <1>o DEF RefundCommit
  <2> HIDE DEF paid, status
  <2> QED BY <1>1, <1>2, <1>5, <2>1 DEF Written, SerialInv, Inv, TypeOK, Row
<1>7. status = IF paid = 0 THEN "pending" ELSE "partially_paid"
  BY <1>2, <1>5 DEF RefundedStatus
<1>8. LedgerRow(o)'
  <2>1. refunded'[o] = refunded[o] + a /\ collected'[o] = collected[o]
    BY <1>1, <1>2, <1>4 DEF SerialInv, Inv, TypeOK
  <2>2. order[o].settled \in BOOLEAN /\ order[o].voided = FALSE
    BY <1>1, <1>2, <1>3 DEF LedgerRow, Row
  <2>3. order'[o].paid = collected'[o] - refunded'[o] /\ refunded'[o] <= order'[o].final
    BY <1>1, <1>2, <1>3, <1>6, <2>1 DEF LedgerRow
  <2>4. /\ order'[o].settled <=> order'[o].status = "settled"
        /\ order'[o].voided <=> order'[o].status = "void"
    <3> HIDE DEF paid, status
    <3> QED BY <1>6, <1>7, <2>2
  <2>5. /\ order'[o].status = "none" => order'[o].paid = 0 /\ refunded'[o] = 0
        /\ order'[o].status = "pending" => order'[o].paid = 0
        /\ order'[o].status = "partially_paid" =>
              0 < order'[o].paid /\ order'[o].paid < order'[o].final
        /\ order'[o].status = "settled" => order'[o].paid = order'[o].final
    <3> HIDE DEF paid, status
    <3> QED BY <1>3, <1>5, <1>6, <1>7
  <2> QED BY <2>3, <2>4, <2>5 DEF LedgerRow
<1>9. ASSUME NEW q \in Orders \ {o} PROVE LedgerRow(q)'
  BY <1>1, <1>4, <1>6 DEF SerialInv, Inv, TypeOK, LedgerRow
<1>10. SerialInv'
  <2>1. \A q \in Orders \ Targets(w) : order'[q] = order[q] /\ refunded'[q] = refunded[q]
    BY <1>1, <1>4, <1>6 DEF SerialInv, Inv, TypeOK
  <2>2. Exclusive' /\ \A v \in Workers : Current(v)' /\ Stage(v)'
    BY <1>4, <2>1, SerialCommit
  <2>3. Inv'
    BY RefundCommitInv DEF SerialInv
  <2>4. (\A q \in Orders : LedgerRow(q))'
    BY <1>8, <1>9
  <2> QED BY <2>2, <2>3, <2>4 DEF SerialInv
<1>11. Atomic!Refund(o, a, k)
  <2>1. order[o].paid = collected[o] - refunded[o] /\ Order(w).final = order[o].final
    BY <1>2, <1>3 DEF LedgerRow
  <2>2. [q \in Orders |-> order'[q].final] = [q \in Orders |-> order[q].final]
    BY <1>6
  <2>3. [q \in Orders |-> order'[q].status] =
            [[q \in Orders |-> order[q].status] EXCEPT ![o] = status]
    BY <1>6
  <2>4. status = Atomic!StatusFor(collected[o] - refunded[o] - a, order[o].final)
    BY <1>2, <1>5, <1>7, <2>1 DEF Atomic!StatusFor
  <2>5. {j \in Keys : refundOf'[j] # Null} = {j \in Keys : refundOf[j] # Null} \union {k}
    <3>1. [order |-> o, amount |-> a] # Null
      BY NullIsNoRefund, <1>1 DEF RefundRecord
    <3>2. refundOf'[k] # Null /\ \A j \in Keys \ {k} : refundOf'[j] = refundOf[j]
      BY <1>1, <1>4, <3>1 DEF SerialInv, Inv, TypeOK
    <3> QED BY <1>1, <3>2
  <2> HIDE DEF status
  <2> QED
    BY <1>1, <1>2, <1>4, <2>1, <2>2, <2>3, <2>4, <2>5
    DEF Atomic!Refund, Atomic!Paid
<1>12. \E q \in Orders, b \in Amounts, j \in Keys : Atomic!Refund(q, b, j)
  BY <1>1, <1>11
<1> QED BY <1>10, <1>12 DEF SerialStep, Atomic!Next

\* An expiry run is one VoidUnsettled, or nothing when no order is overdue.
LEMMA SerialExpire ==
    ASSUME NEW w \in Workers, SerialInv, ExpireCommit(w)
    PROVE  SerialStep
<1>e. {o \in Targets(w) : Overdue(snap[w][o])} \in SUBSET Orders
  BY DEF Targets
<1>o. PICK E \in SUBSET Orders : E = {o \in Targets(w) : Overdue(snap[w][o])}
  BY <1>e
<1>1. E \subseteq Targets(w) /\ E \in SUBSET Orders /\ \A o \in E : order[o].status \in Unsettled
  BY <1>o DEF SerialInv, Current, Stage, ExpireCommit
<1>2. /\ order' = [o \in Orders |->
                     IF o \in E THEN [order[o] EXCEPT !.status = "void", !.voided = TRUE]
                     ELSE order[o]]
      /\ UNCHANGED <<collected, refunded, refundOf>>
      /\ Finish(w)
  BY <1>o DEF ExpireCommit
<1>3. \A o \in Orders \ E : order'[o] = order[o]
  BY <1>2
<1>4. ASSUME NEW o \in E
      PROVE  /\ order'[o].status = "void" /\ order'[o].voided = TRUE
             /\ order'[o].paid = order[o].paid /\ order'[o].final = order[o].final
             /\ order'[o].settled = order[o].settled
  BY <1>1, <1>2 DEF SerialInv, Inv, TypeOK, Row
<1>5. ASSUME NEW o \in Orders PROVE LedgerRow(o)'
  <2>1. CASE o \in E
    <3>1. order[o].settled = FALSE
      <4>1. order[o].status # "settled" /\ order[o].settled \in BOOLEAN
        BY <1>1, <2>1 DEF SerialInv, Inv, TypeOK, Row, Unsettled
      <4> QED BY <4>1 DEF SerialInv, LedgerRow
    <3> QED BY <1>2, <1>4, <2>1, <3>1 DEF SerialInv, LedgerRow
  <2>2. CASE o \notin E
    BY <1>2, <1>3, <2>2 DEF SerialInv, LedgerRow
  <2> QED BY <2>1, <2>2
<1>6. SerialInv'
  <2>1. Exclusive' /\ \A v \in Workers : Current(v)' /\ Stage(v)'
    BY <1>1, <1>2, <1>3, SerialCommit
  <2> QED BY <1>5, <2>1, ExpireCommitInv DEF SerialInv
<1>7. [o \in Orders |-> order'[o].final] = [o \in Orders |-> order[o].final]
  BY <1>1, <1>3, <1>4
<1>8. [o \in Orders |-> order'[o].status] =
          [o \in Orders |-> IF o \in E THEN "void" ELSE [q \in Orders |-> order[q].status][o]]
  BY <1>1, <1>3, <1>4
<1>9. CASE E = {}
  <2>1. [o \in Orders |-> order'[o].status] = [o \in Orders |-> order[o].status]
    BY <1>8, <1>9
  <2> QED BY <1>2, <1>6, <1>7, <2>1 DEF SerialStep, LedgerVars
<1>10. CASE E # {}
  <2>1. Atomic!VoidUnsettled(E)
    BY <1>1, <1>2, <1>7, <1>8, <1>10 DEF Atomic!VoidUnsettled, Atomic!Unsettled, Unsettled
  <2>2. \E S \in SUBSET Orders : Atomic!VoidUnsettled(S)
    BY <1>1, <2>1
  <2> QED BY <1>6, <2>2 DEF SerialStep, Atomic!Next
<1> QED BY <1>9, <1>10

\* A new order opens an account; nobody has loaded it.
LEMMA SerialCreate ==
    ASSUME NEW o \in Orders, NEW price \in Prices, SerialInv, Inv', CreateOrder(o, price)
    PROVE  SerialStep
<1>1. /\ \A q \in Orders \ {o} : order'[q] = order[q]
      /\ order'[o] = [NoRow EXCEPT !.status = "pending", !.final = price, !.created = now]
      /\ order[o].status = "none"
      /\ UNCHANGED <<overlap, collected, refunded, returned, exchanged, refundOf, now, pc, req, snap>>
  BY DEF CreateOrder, SerialInv, Inv, TypeOK, sessions
<1>2. /\ order'[o].status = "pending" /\ order'[o].final = price /\ order'[o].paid = 0
      /\ order'[o].settled = FALSE /\ order'[o].voided = FALSE /\ price \in Nat
  BY <1>1, CheckoutAssumption DEF NoRow
<1>3. LedgerRow(o)'
  <2>1. order[o].paid = 0 /\ refunded[o] = 0 /\ order[o].paid = collected[o] - refunded[o]
    BY <1>1 DEF SerialInv, LedgerRow
  <2>2. collected[o] \in Nat
    BY DEF SerialInv, Inv, TypeOK
  <2> QED BY <1>1, <1>2, <2>1, <2>2 DEF LedgerRow
<1>4. ASSUME NEW q \in Orders \ {o} PROVE LedgerRow(q)'
  BY <1>1 DEF SerialInv, LedgerRow
<1>5. ASSUME NEW v \in Workers PROVE Targets(v)' = Targets(v) /\ Current(v)' /\ Stage(v)'
  <2>1. o \notin Targets(v)
    BY <1>1 DEF SerialInv, Inv, SnapshotOK
  <2> QED BY <1>1, <2>1, SerialFrame DEF SerialInv, Inv, Targets
<1>6. Exclusive'
  BY <1>5 DEF SerialInv, Exclusive
<1>7. Atomic!Open(o, price)
  <2>1. [q \in Orders |-> order'[q].status] =
            [[q \in Orders |-> order[q].status] EXCEPT ![o] = "pending"]
    BY <1>1, <1>2
  <2>2. [q \in Orders |-> order'[q].final] =
            [[q \in Orders |-> order[q].final] EXCEPT ![o] = price]
    BY <1>1, <1>2
  <2> QED BY <1>1, <2>1, <2>2 DEF Atomic!Open
<1> QED BY <1>3, <1>4, <1>5, <1>6, <1>7 DEF SerialStep, SerialInv, Atomic!Next

\* A return or an exchange is a row of its own: the ledger stutters.
LEMMA SerialAside ==
    ASSUME NEW w \in Workers, SerialInv, ReturnCommit(w) \/ ExchangeCommit(w)
    PROVE  SerialStep
<1>1. UNCHANGED <<order, collected, refunded, refundOf>> /\ Finish(w)
  BY DEF ReturnCommit, ExchangeCommit
<1>2. Inv'
  BY CommitInv DEF Commit, SerialInv
<1>3. Exclusive' /\ \A v \in Workers : Current(v)' /\ Stage(v)'
  BY <1>1, SerialCommit
<1>4. (\A o \in Orders : LedgerRow(o))' /\ UNCHANGED LedgerVars
  BY <1>1, SameRows, Stutter DEF SerialInv
<1> QED BY <1>2, <1>3, <1>4 DEF SerialStep, SerialInv

\* The clock is no concern of the ledger.
LEMMA SerialTick ==
    ASSUME SerialInv, Inv', Tick \/ UNCHANGED vars
    PROVE  SerialStep
<1>1. UNCHANGED <<order, collected, refunded, refundOf>> /\ UNCHANGED <<pc, req, snap>>
  BY DEF Tick, vars, database, sessions
<1>2. ASSUME NEW v \in Workers PROVE Targets(v)' = Targets(v) /\ Current(v)' /\ Stage(v)'
  BY <1>1, SerialFrame DEF SerialInv, Inv
<1>3. Exclusive'
  BY <1>2 DEF SerialInv, Exclusive
<1>4. (\A o \in Orders : LedgerRow(o))' /\ UNCHANGED LedgerVars
  BY <1>1, SameRows, Stutter DEF SerialInv
<1> QED BY <1>2, <1>3, <1>4 DEF SerialStep, SerialInv

\* Every step keeps the invariant and is a step of the ledger or a stutter.
LEMMA StepSerial ==
    ASSUME ~overlap, SerialInv, [Next]_vars
    PROVE  SerialStep
<1>1. Inv'
  BY StepInv DEF SerialInv
<1>2. CASE Tick \/ UNCHANGED vars
  BY <1>1, <1>2, SerialTick
<1>3. CASE \E o \in Orders, price \in Prices : CreateOrder(o, price)
  BY <1>1, <1>3, SerialCreate
<1>4. ASSUME NEW w \in Workers, Begin(w) \/ Continue(w) PROVE SerialStep
  BY <1>4, SerialBegin, SerialContinue
<1>5. ASSUME NEW w \in Workers, Commit(w) PROVE SerialStep
  BY <1>5, SerialSettle, SerialRefund, SerialExpire, SerialAside DEF Commit
<1> QED BY <1>2, <1>3, <1>4, <1>5 DEF Next

-----------------------------------------------------------------------------

\* Whether requests overlap is settled once.
LEMMA OverlapFixed == [Next]_vars => overlap' = overlap
<1> SUFFICES ASSUME [Next]_vars PROVE overlap' = overlap
  OBVIOUS
<1>1. CASE Tick \/ UNCHANGED vars
  BY <1>1 DEF Tick, vars, sessions
<1>2. ASSUME NEW o \in Orders, NEW price \in Prices, CreateOrder(o, price) PROVE overlap' = overlap
  BY <1>2 DEF CreateOrder, sessions
<1>3. ASSUME NEW w \in Workers, Begin(w) PROVE overlap' = overlap
  BY <1>3 DEF Begin, ExpireLoad, ExchangeLoad, SettleLoad, ReturnLoad, RefundLoad, Load
<1>4. ASSUME NEW w \in Workers, Continue(w) PROVE overlap' = overlap
  BY <1>4 DEF Continue, CeilingCheck, KeyLookup, Reject, Abort, Finish
<1>5. ASSUME NEW w \in Workers, Commit(w) PROVE overlap' = overlap
  BY <1>5 DEF Commit, SettleCommit, ReturnCommit, ExchangeCommit, RefundCommit, ExpireCommit, Finish
<1> QED BY <1>1, <1>2, <1>3, <1>4, <1>5 DEF Next

\* The inductive invariant of sessions that do not overlap on an order.
THEOREM SerialInvariance ==
    Spec => [](overlap \/ SerialInv)
<1>1. Init => overlap \/ SerialInv
  BY InitSerial
<1>2. (overlap \/ SerialInv) /\ [Next]_vars => (overlap \/ SerialInv)'
  BY StepSerial, OverlapFixed DEF SerialStep
<1> QED BY <1>1, <1>2, PTL DEF Spec

\* The paid amount is what was collected minus what was refunded.
THEOREM LedgerBalancedSerial ==
    Spec => []LedgerBalanced
<1>1. overlap \/ SerialInv => LedgerBalanced
  BY DEF SerialInv, LedgerRow, LedgerBalanced
<1> QED BY <1>1, SerialInvariance, PTL

\* However often an order is paid again, it is never refunded more than it costs.
THEOREM RefundCeilingSerial ==
    Spec => []RefundCeiling
<1>1. overlap \/ SerialInv => RefundCeiling
  BY DEF SerialInv, LedgerRow, RefundCeiling
<1> QED BY <1>1, SerialInvariance, PTL

\* The status and the timestamps of an order tell the truth about what is paid.
THEOREM StatusMatchesPaidSerial ==
    Spec => []StatusMatchesPaid
<1>1. overlap \/ SerialInv => StatusMatchesPaid
  BY DEF SerialInv, LedgerRow, StatusMatchesPaid
<1> QED BY <1>1, SerialInvariance, PTL

\* A void order is dead: nothing is recorded for it and its row stays as it is.
THEOREM VoidIsFinalSerial ==
    Spec => VoidIsFinal
<1> DEFINE Dead == \A o \in Orders :
        ~overlap /\ order[o].status = "void" =>
            /\ order'[o] = order[o]
            /\ collected'[o] = collected[o]
            /\ refunded'[o] = refunded[o]
            /\ returned'[o] = returned[o]
            /\ exchanged'[o] = exchanged[o]
<1>1. (overlap \/ SerialInv) /\ [Next]_vars => [Dead]_vars
  <2> SUFFICES ASSUME SerialInv, Next, NEW o \in Orders, order[o].status = "void"
               PROVE  /\ order'[o] = order[o]
                      /\ collected'[o] = collected[o]
                      /\ refunded'[o] = refunded[o]
                      /\ returned'[o] = returned[o]
                      /\ exchanged'[o] = exchanged[o]
    OBVIOUS
  <2> DEFINE Goal == /\ order'[o] = order[o]
                     /\ collected'[o] = collected[o]
                     /\ refunded'[o] = refunded[o]
                     /\ returned'[o] = returned[o]
                     /\ exchanged'[o] = exchanged[o]
  <2>1. CASE Tick
    BY <2>1 DEF Tick, database
  <2>2. ASSUME NEW q \in Orders, NEW price \in Prices, CreateOrder(q, price) PROVE Goal
    BY <2>2 DEF CreateOrder, SerialInv, Inv, TypeOK
  <2>3. ASSUME NEW w \in Workers, Begin(w) \/ Continue(w) PROVE Goal
    BY <2>3
    DEF Begin, ExpireLoad, ExchangeLoad, SettleLoad, ReturnLoad, RefundLoad,
        Continue, CeilingCheck, KeyLookup, Reject, Abort, database
  <2>4. ASSUME NEW w \in Workers, pc[w] \in OneOrderSteps PROVE req[w].order # o
    <3>1. req[w].order \in Targets(w)
      BY <2>4 DEF SerialInv, Inv, RequestOK
    <3>2. Order(w) = order[req[w].order]
      BY <3>1 DEF SerialInv, Current, Order
    <3>3. Order(w).status # "void"
      BY <2>4 DEF SerialInv, Stage, OneOrderSteps, RefundSteps, Unsettled
    <3> QED BY <3>2, <3>3
  <2>5. ASSUME NEW w \in Workers, SettleCommit(w) PROVE Goal
    BY <2>4, <2>5 DEF SettleCommit, OneOrderSteps, SerialInv, Inv, TypeOK
  <2>6. ASSUME NEW w \in Workers, RefundCommit(w) PROVE Goal
    BY <2>4, <2>6 DEF RefundCommit, OneOrderSteps, RefundSteps, SerialInv, Inv, TypeOK
  <2>7. ASSUME NEW w \in Workers, ReturnCommit(w) \/ ExchangeCommit(w) PROVE Goal
    BY <2>4, <2>7 DEF ReturnCommit, ExchangeCommit, OneOrderSteps, SerialInv, Inv, TypeOK
  <2>8. ASSUME NEW w \in Workers, ExpireCommit(w) PROVE Goal
    <3>1. o \notin Targets(w)
      BY <2>8 DEF ExpireCommit, SerialInv, Current, Stage, Unsettled
    <3> QED BY <2>8, <3>1 DEF ExpireCommit
  <2> QED BY <2>1, <2>2, <2>3, <2>5, <2>6, <2>7, <2>8 DEF Next, Commit
<1> QED BY <1>1, SerialInvariance, PTL DEF Spec, VoidIsFinal

\* The atomic ledger is what the refinement mapping shows of such sessions.
LEMMA SameLedger ==
    ASSUME ~overlap, ~overlap', [Atomic!Next]_(Atomic!vars)
    PROVE  [Ledger!Next]_(Ledger!vars)
<1>1. CASE UNCHANGED Atomic!vars
  BY <1>1 DEF Atomic!vars, Ledger!vars
<1>2. ASSUME NEW o \in Orders, NEW p \in Prices, Atomic!Open(o, p) PROVE Ledger!Open(o, p)
  BY <1>2 DEF Atomic!Open, Ledger!Open
<1>3. ASSUME NEW o \in Orders, NEW a \in Amounts, Atomic!Collect(o, a) PROVE Ledger!Collect(o, a)
  BY <1>3 DEF Atomic!Collect, Ledger!Collect, Atomic!Paid, Ledger!Paid, Atomic!Unsettled,
              Ledger!Unsettled, Atomic!StatusFor, Ledger!StatusFor
<1>4. ASSUME NEW o \in Orders, NEW a \in Amounts, NEW k \in Keys, Atomic!Refund(o, a, k)
      PROVE  Ledger!Refund(o, a, k)
  BY <1>4 DEF Atomic!Refund, Ledger!Refund, Atomic!Paid, Ledger!Paid, Atomic!StatusFor,
              Ledger!StatusFor
<1>5. ASSUME NEW S \in SUBSET Orders, Atomic!VoidUnsettled(S) PROVE Ledger!VoidUnsettled(S)
  BY <1>5 DEF Atomic!VoidUnsettled, Ledger!VoidUnsettled, Atomic!Unsettled, Ledger!Unsettled
<1> QED BY <1>1, <1>2, <1>3, <1>4, <1>5 DEF Atomic!Next, Ledger!Next

\* The sessions implement the atomic ledger: what the requests do to the money
\* of an order is what the three services promise, one operation at a time.
THEOREM Refinement ==
    Spec => ImplementsLedger
<1>1. Init => Ledger!Init
  <2> SUFFICES ASSUME Init PROVE Ledger!Init
    OBVIOUS
  <2>1. /\ [o \in Orders |-> order[o].status] = None("none")
        /\ [o \in Orders |-> order[o].final] = None(0)
        /\ collected = None(0) /\ refunded = None(0)
    BY DEF Init, NoRows, NoRow, None
  <2>2. {k \in Keys : refundOf[k] # Null} = {}
    BY DEF Init
  <2> QED BY <2>1, <2>2 DEF Ledger!Init, None
<1>2. (overlap \/ SerialInv) /\ [Next]_vars => [Ledger!Next]_(Ledger!vars)
  <2> SUFFICES ASSUME overlap \/ SerialInv, [Next]_vars PROVE [Ledger!Next]_(Ledger!vars)
    OBVIOUS
  <2>1. CASE overlap
    BY <2>1, OverlapFixed DEF Ledger!vars
  <2>2. CASE ~overlap
    <3>1. [Atomic!Next]_(Atomic!vars)
      BY <2>2, StepSerial DEF SerialStep, LedgerVars, Atomic!vars
    <3> QED BY <2>2, <3>1, OverlapFixed, SameLedger
  <2> QED BY <2>1, <2>2
<1> QED BY <1>1, <1>2, SerialInvariance, PTL DEF Spec, ImplementsLedger, Ledger!Spec
=============================================================================
