---------------------------- MODULE OrderPricing ----------------------------
(***************************************************************************)
(* What a new order costs: the lines of the request, the discounts the     *)
(* cashier gives, and the promotion rules that are active.  CreateOrder of *)
(* CheckoutSessions takes its price from here.                             *)
(*                                                                         *)
(* Amounts are cents.  Stored prices and rule parameters have two decimal  *)
(* places already, so money() changes only the discounts of the request,   *)
(* which are tenths of a cent here.  Order, line and rule ids are the      *)
(* positions in the sequences.                                             *)
(***************************************************************************)
EXTENDS Integers, Sequences, Functions

CONSTANTS
    Products,        \* product ids
    UnitPrice,       \* Product.unit_price of every product
    Rules,           \* promotion rules an administrator may create
    Baskets,         \* sequences of lines a cashier may send
    OrderDiscounts,  \* order discounts a cashier may send, in tenths of a cent
    Null,            \* a parameter that was not given
    MaxRules         \* bound: no more rules are created

\* What the request schemas let pass.  Every parameter of a rule is optional.
Positive == Nat \ {0}
Rule ==
    [type : {"spend_and_save"}, threshold : Nat \union {Null}, amount : Nat \union {Null},
     priority : Nat]
    \union [type : {"buy_and_get"}, product : Products \union {Null},
            buy : Positive \union {Null}, get : Positive \union {Null}, priority : Nat]
    \union [type : {"tiered_pricing"}, product : Products \union {Null},
            tier : Positive \union {Null}, tier_price : Nat \union {Null}, priority : Nat]
    \union [type : {"purchase_limit"}, product : Products \union {Null},
            limit : Positive \union {Null}, priority : Nat]
Line == [product : Products, quantity : Positive, discount : Nat]

ASSUME PricingAssumption ==
    /\ UnitPrice \in [Products -> Nat]
    /\ Rules \subseteq Rule
    /\ Baskets \subseteq Seq(Line)
    /\ \A basket \in Baskets : Len(basket) > 0
    /\ OrderDiscounts \subseteq Nat
    /\ Null \notin Nat \union Products

VARIABLES
    rules,   \* promotion_rules, by id
    order    \* the order this behaviour creates, once it exists

vars == <<rules, order>>

NoOrder == [lines |-> <<>>]

Init ==
    /\ rules = <<>>
    /\ order = NoOrder

\* Half a cent rounds up.
Money(tenths) == (tenths + 5) \div 10

Total(amounts) ==
    LET sum[n \in 0..Len(amounts)] == IF n = 0 THEN 0 ELSE sum[n - 1] + amounts[n]
    IN  sum[Len(amounts)]

LineSubtotal(line) == UnitPrice[line.product] * line.quantity
ItemDiscount(line) == Money(line.discount)

\* Mutant: the discounts are rounded once, after they were added.
ItemDiscountTotalRoundedLate(lines) ==
    Money(Total([i \in DOMAIN lines |-> lines[i].discount]))

ItemDiscountTotal(lines) == Total([i \in DOMAIN lines |-> ItemDiscount(lines[i])])

-----------------------------------------------------------------------------
\* The promotion engine

\* By priority, then by id.
Before(i, j) ==
    \/ rules[i].priority < rules[j].priority
    \/ rules[i].priority = rules[j].priority /\ i < j

ActiveRules ==
    LET ids == CHOOSE f \in [DOMAIN rules -> DOMAIN rules] :
                  \A m, n \in DOMAIN rules : m < n => Before(f[m], f[n])
    IN  [n \in DOMAIN rules |-> rules[ids[n]]]

NoPromotion(lines) ==
    [order_discount |-> 0, line_discounts |-> [i \in DOMAIN lines |-> 0], refused |-> FALSE]

\* Mutant: the threshold is compared with what earlier rules have left.
SpendAndSaveRemaining(result, rule, subtotal) ==
    IF subtotal - result.order_discount >= rule.threshold
    THEN [result EXCEPT !.order_discount = @ + rule.amount]
    ELSE result

SpendAndSave(result, rule, subtotal) ==
    IF subtotal >= rule.threshold
    THEN [result EXCEPT !.order_discount = @ + rule.amount]
    ELSE result

\* Mutant: a group that is not complete gives its free units too.
FreeUnitsRoundedUp(rule, quantity) ==
    ((quantity + rule.buy) \div (rule.buy + rule.get)) * rule.get

FreeUnits(rule, quantity) == (quantity \div (rule.buy + rule.get)) * rule.get

BuyAndGet(rule, line) == FreeUnits(rule, line.quantity) * UnitPrice[line.product]

\* A tier dearer than the product takes nothing off.
TieredPricing(rule, line) ==
    LET saved == (UnitPrice[line.product] - rule.tier_price) * line.quantity
    IN  IF line.quantity >= rule.tier /\ saved > 0 THEN saved ELSE 0

\* Line rules add up, rule after rule; they see one line at a time.
OnLines(result, rule, lines, saving) ==
    [result EXCEPT !.line_discounts =
        [i \in DOMAIN lines |->
            IF lines[i].product = rule.product THEN @[i] + saving[i] ELSE @[i]]]

\* Mutant: every line is compared with the limit on its own.
WithinLimitPerLine(rule, lines) ==
    \A i \in DOMAIN lines : lines[i].product = rule.product => lines[i].quantity <= rule.limit

Ordered(product, lines) ==
    Total([i \in DOMAIN lines |->
              IF lines[i].product = product THEN lines[i].quantity ELSE 0])

WithinLimit(rule, lines) == Ordered(rule.product, lines) <= rule.limit

\* A rule that lacks a parameter of its type does nothing.
Complete(rule) == \A parameter \in DOMAIN rule : rule[parameter] # Null

\* The exception of an exceeded limit ends the request: nothing that would
\* follow it can be seen, so it is enough to remember it.
ApplyRule(result, rule, lines, subtotal) ==
    IF ~Complete(rule) THEN result
    ELSE CASE rule.type = "spend_and_save" -> SpendAndSave(result, rule, subtotal)
           [] rule.type = "buy_and_get" ->
                OnLines(result, rule, lines, [i \in DOMAIN lines |-> BuyAndGet(rule, lines[i])])
           [] rule.type = "tiered_pricing" ->
                OnLines(result, rule, lines,
                        [i \in DOMAIN lines |-> TieredPricing(rule, lines[i])])
           [] rule.type = "purchase_limit" ->
                [result EXCEPT !.refused = @ \/ ~WithinLimit(rule, lines)]

Apply(active, lines, subtotal) ==
    LET result[n \in 0..Len(active)] ==
            IF n = 0 THEN NoPromotion(lines)
            ELSE ApplyRule(result[n - 1], active[n], lines, subtotal)
    IN  result[Len(active)]

-----------------------------------------------------------------------------
\* Orders

\* The order a request leads to when active are the rules in the order they
\* apply.
Priced(active, lines, discount) ==
    LET subtotal == Total([i \in DOMAIN lines |-> LineSubtotal(lines[i])])
        item_discount == ItemDiscountTotal(lines)
        promotions == Apply(active, lines, subtotal - item_discount)
        saved == promotions.line_discounts
        promotion == Total(saved)
        order_discount == Money(discount) + promotions.order_discount
    IN  [lines |-> lines,
         final_lines |-> [i \in DOMAIN lines |->
                LineSubtotal(lines[i]) - ItemDiscount(lines[i]) - saved[i]],
         subtotal |-> subtotal,
         item_discount |-> item_discount,
         promotion_discount |-> promotion,
         order_discount |-> order_discount,
         final |-> subtotal - item_discount - promotion - order_discount,
         refused |-> promotions.refused]

\* Mutant: only the lines are kept from going negative.
AcceptedAnyTotal(priced) ==
    /\ \A i \in DOMAIN priced.lines : ItemDiscount(priced.lines[i]) <= LineSubtotal(priced.lines[i])
    /\ ~priced.refused
    /\ \A i \in DOMAIN priced.lines : 0 <= priced.final_lines[i]

Accepted(priced) ==
    /\ \A i \in DOMAIN priced.lines : ItemDiscount(priced.lines[i]) <= LineSubtotal(priced.lines[i])
    /\ ~priced.refused
    /\ \A i \in DOMAIN priced.lines : 0 <= priced.final_lines[i]
    /\ 0 <= priced.final

CreatePromotionRule(rule) ==
    /\ Len(rules) < MaxRules
    /\ rules' = Append(rules, rule)
    /\ UNCHANGED order

\* One order is enough: its price depends on no other order.
CreateOrder(lines, discount) ==
    LET priced == Priced(ActiveRules, lines, discount)
    IN  /\ order = NoOrder
        /\ Accepted(priced)
        /\ order' = priced
        /\ UNCHANGED rules

Next ==
    \/ \E rule \in Rules : CreatePromotionRule(rule)
    \/ \E basket \in Baskets, discount \in OrderDiscounts : CreateOrder(basket, discount)

Spec == Init /\ [][Next]_vars

-----------------------------------------------------------------------------
\* Properties

\* The type of the rules and of the order: no amount on a stored order is
\* negative, which CheckoutSessions takes for granted of its prices.
TypeOK ==
    /\ rules \in Seq(Rules)
    /\ order # NoOrder =>
          /\ order.lines \in Baskets
          /\ order.final_lines \in [DOMAIN order.lines -> Nat]
          /\ {order.subtotal, order.item_discount, order.promotion_discount,
              order.order_discount, order.final} \subseteq Nat

\* The receipt adds up both ways: the total derived from the four sums of the
\* order is the total of the line amounts less the order discount, although
\* the two are computed by different code from differently rounded parts.
BreakdownAddsUp ==
    order # NoOrder =>
        order.final = Total(order.final_lines) - order.order_discount

Orderings(sequence) ==
    {[i \in DOMAIN sequence |-> sequence[p[i]]] :
        p \in {f \in [DOMAIN sequence -> DOMAIN sequence] : IsInjective(f)}}

\* Priorities order the rules and do not change what they do: every order of
\* application prices a basket alike, so a rule cannot be starved by another.
PriorityIrrelevant ==
    [][order' # order =>
          \A active \in Orderings(rules) :
              Priced(active, order'.lines, 0) = Priced(ActiveRules, order'.lines, 0)]_vars

\* The two lines of an order as one line of the same product.
Merged(lines) ==
    <<[product |-> lines[1].product,
       quantity |-> lines[1].quantity + lines[2].quantity,
       discount |-> 10 * (ItemDiscount(lines[1]) + ItemDiscount(lines[2]))]>>

\* A purchase limit is not got around by splitting the units over two lines:
\* whatever is sold split would be sold as one line too.
LimitSeesThroughSplits ==
    [][order' # order =>
          LET lines == order'.lines
          IN  Len(lines) = 2 /\ lines[1].product = lines[2].product =>
                  ~Priced(ActiveRules, Merged(lines), 0).refused]_vars

\* Nobody pays less by splitting a line: groups and tiers are counted per
\* line, so one line of all the units is never dearer than two.
SplitNeverPays ==
    [][order' # order =>
          LET lines == order'.lines
          IN  Len(lines) = 2 /\ lines[1].product = lines[2].product =>
                  \A discount \in OrderDiscounts :
                      Priced(ActiveRules, Merged(lines), discount).final
                          <= Priced(ActiveRules, lines, discount).final]_vars

=============================================================================
