----------------------------- MODULE MCPricing -----------------------------
(***************************************************************************)
(* Small instances of OrderPricing: two products, baskets of one or two    *)
(* lines, and rules of every type on both sides of their thresholds.       *)
(***************************************************************************)
EXTENDS OrderPricing, TLC

CONSTANTS p, q

MCUnitPrice == p :> 3 @@ q :> 1

Spend(threshold, amount, priority) ==
    [type |-> "spend_and_save", threshold |-> threshold, amount |-> amount, priority |-> priority]
BuyGet(product, buy, get, priority) ==
    [type |-> "buy_and_get", product |-> product, buy |-> buy, get |-> get, priority |-> priority]
Tiers(product, tier, price, priority) ==
    [type |-> "tiered_pricing", product |-> product, tier |-> tier, tier_price |-> price,
     priority |-> priority]
Limit(product, limit, priority) ==
    [type |-> "purchase_limit", product |-> product, limit |-> limit, priority |-> priority]

\* A rule without a threshold or without a product is stored and never applies.
MCRules ==
    {Spend(6, 2, 1), Spend(9, 4, 2), Spend(Null, Null, 2), BuyGet(p, 1, 2, 1), BuyGet(p, 2, 1, 1),
     BuyGet(Null, 1, 1, 1), Tiers(p, 3, 2, 2), Tiers(q, 2, 4, 1), Limit(p, 3, 2)}

\* A discount of 4 tenths of a cent rounds to nothing and one of 5 to a cent.
MCLines ==
    [product : {p}, quantity : 1..4, discount : {0, 5}]
        \union [product : {q}, quantity : {1, 2}, discount : {0, 4}]
MCBaskets == {<<line>> : line \in MCLines} \union (MCLines \X MCLines)
=============================================================================
