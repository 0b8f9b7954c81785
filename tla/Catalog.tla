------------------------------- MODULE Catalog -------------------------------
(***************************************************************************)
(* The products: created once, searched by whatever was scanned or typed,  *)
(* switched on and off while they are being sold.                          *)
(* A cashier may have a line checked first (precheckout); the order sends  *)
(* the text later, and the server searches again.  Order lines are         *)
(* independent of each other, so an order is one line here; what it costs  *)
(* is the matter of OrderPricing.                                          *)
(* As in UnitOfWork a request reads rows without locks and writes the      *)
(* columns it changed in one transaction at the end.                       *)
(***************************************************************************)
EXTENDS Integers, Sequences, UnitOfWork

CONSTANTS
    Texts,        \* what can be scanned: codes and names
    Creations,    \* bound: the products that are created
    Updates,      \* bound: the status updates that are sent
    MaxProducts   \* bound: no more products are created

VARIABLES
    contended,   \* the products about which any requests may be in flight, fixed
    products,    \* products, by id
    session      \* what a worker has loaded, or its client was told last

vars == <<contended, products, session>>

Flags == {"is_active", "is_available_for_sale", "is_pos_visible"}

\* No handler sets is_deleted, so it is not kept.
Product == [barcode : Texts, internal_code : Texts, name_pinyin : Texts, flags : [Flags -> BOOLEAN]]

Update == [Flags -> BOOLEAN \union {Null}]

ASSUME CatalogAssumption ==
    /\ Creations \subseteq {product \in Product : product.flags["is_active"]}
    /\ Updates \subseteq Update
    /\ Null \notin BOOLEAN \union Nat

\* A worker is done when its request was answered 200; shown is what the cart
\* showed for the text of an order, Null when it was not asked.
Idle == [step |-> "idle"]
Done == [step |-> "done"]
Session ==
    {Idle, Done}
    \union [step : {"status"}, product : Nat, update : Updates, loaded : [Flags -> BOOLEAN]]
    \union [step : {"cart"}, text : Texts, shown : Nat]
    \union [step : {"order"}, text : Texts, shown : Nat \union {Null}, product : Nat]

Init ==
    /\ contended \in SUBSET (1..MaxProducts)
    /\ products = <<>>
    /\ session = [w \in Workers |-> Idle]

-----------------------------------------------------------------------------
\* Sessions of the database

InFlight(w) == session[w].step \in {"status", "order"}

Named(update) == {f \in Flags : update[f] # Null}

\* The environment: only about a contended product may a sale be in flight with
\* an update, or two updates that name the same flag.  The code does not
\* enforce it.
Apart(request, other) ==
    \/ request.product # other.product
    \/ request.step = "order" /\ other.step = "order"
    \/ /\ request.step = "status" /\ other.step = "status"
       /\ Named(request.update) \intersect Named(other.update) = {}

CanStart(w, request) ==
    /\ ~InFlight(w)
    /\ \/ request.product \in contended
       \/ \A v \in Workers \ {w} : InFlight(v) => Apart(request, session[v])

Keep(w, record) ==
    /\ session' = [session EXCEPT ![w] = record]
    /\ UNCHANGED contended

-----------------------------------------------------------------------------
\* The catalog

\* The unique indexes refuse a barcode or an internal code that exists; a name
\* may be that of another product.
CreateProduct(product) ==
    /\ Len(products) < MaxProducts
    /\ \A i \in DOMAIN products :
          /\ products[i].barcode # product.barcode
          /\ products[i].internal_code # product.internal_code
    /\ products' = Append(products, product)
    /\ UNCHANGED <<contended, session>>

StatusLoad(w, p, update) ==
    LET request == [step |-> "status", product |-> p, update |-> update, loaded |-> products[p].flags]
    IN  /\ p \in DOMAIN products
        /\ CanStart(w, request)
        /\ Keep(w, request)
        /\ UNCHANGED products

\* Mutant: the whole row is written, with the flags as they were loaded.
StatusCommitRow(w) ==
    LET s == session[w]
    IN  /\ s.step = "status"
        /\ products' = [products EXCEPT ![s.product].flags =
              [f \in Flags |-> IF s.update[f] = Null THEN s.loaded[f] ELSE s.update[f]]]
        /\ Keep(w, Done)

StatusCommit(w) ==
    LET s == session[w]
    IN  /\ s.step = "status"
        /\ products' = [products EXCEPT ![s.product].flags =
              [f \in Flags |-> IF s.update[f] = Null THEN @[f]
                               ELSE Written(s.loaded[f], s.update[f], @[f])]]
        /\ Keep(w, Done)

-----------------------------------------------------------------------------
\* The search

\* One query over three columns, without an order: any match may come first.
Matches(text) ==
    {p \in DOMAIN products :
        text \in {products[p].barcode, products[p].internal_code, products[p].name_pinyin}}

\* What find_product_by_query and its callers let pass.
Usable(p) == products[p].flags["is_active"]
Sellable(p) == Usable(p) /\ products[p].flags["is_available_for_sale"]
Offered(p) == Sellable(p) /\ products[p].flags["is_pos_visible"]

\* build_precheckout_item answers with the line that will be sold.
Precheckout(w, text) ==
    /\ ~InFlight(w)
    /\ \E p \in Matches(text) :
          /\ Offered(p)
          /\ Keep(w, [step |-> "cart", text |-> text, shown |-> p])
    /\ UNCHANGED products

\* A client orders any text, usually one it has had checked.
Order(w, text, p) ==
    [step |-> "order", text |-> text, product |-> p,
     shown |-> IF session[w].step = "cart" /\ session[w].text = text
               THEN session[w].shown ELSE Null]

\* Mutant: the order trusts the check of the cart.
OrderLoadUnchecked(w, text) ==
    /\ ~InFlight(w)
    /\ \E p \in Matches(text) :
          /\ Usable(p)
          /\ CanStart(w, Order(w, text, p))
          /\ Keep(w, Order(w, text, p))
    /\ UNCHANGED products

\* Mutant: the query of the order does not filter by the text.
OrderLoadAny(w, text) ==
    /\ ~InFlight(w)
    /\ \E p \in DOMAIN products :
          /\ Sellable(p)
          /\ CanStart(w, Order(w, text, p))
          /\ Keep(w, Order(w, text, p))
    /\ UNCHANGED products

\* The order searches again, and does not ask whether the product is visible.
OrderLoad(w, text) ==
    /\ ~InFlight(w)
    /\ \E p \in Matches(text) :
          /\ Sellable(p)
          /\ CanStart(w, Order(w, text, p))
          /\ Keep(w, Order(w, text, p))
    /\ UNCHANGED products

OrderCommit(w) ==
    /\ session[w].step = "order"
    /\ Keep(w, Done)
    /\ UNCHANGED products

\* The worker dies, its transaction fails, or the client gives the cart up.
Abort(w) ==
    /\ session[w].step \in {"status", "order", "cart"}
    /\ Keep(w, Idle)
    /\ UNCHANGED products

Next ==
    \/ \E product \in Creations : CreateProduct(product)
    \/ \E w \in Workers :
          \/ \E p \in 1..MaxProducts, update \in Updates : StatusLoad(w, p, update)
          \/ StatusCommit(w)
          \/ \E text \in Texts : Precheckout(w, text) \/ OrderLoad(w, text)
          \/ OrderCommit(w)
          \/ Abort(w)

Spec == Init /\ [][Next]_vars

-----------------------------------------------------------------------------
\* Properties

Answered(w, step) == session[w].step = step /\ session'[w] = Done

\* The type of the table and of the sessions.
TypeOK ==
    /\ contended \subseteq 1..MaxProducts
    /\ products \in Seq(Product)
    /\ session \in [Workers -> Session]

\* When updates of one product overlap but name different flags, each takes
\* effect as asked and leaves the flags of the other alone
\* (update_product_status).
UpdatesKeepApart ==
    [][\A w \in Workers :
          LET s == session[w]
          IN  Answered(w, "status") /\ s.product \notin contended =>
                  products'[s.product].flags =
                      [f \in Flags |-> IF s.update[f] = Null THEN products[s.product].flags[f]
                                       ELSE s.update[f]]]_vars

\* A product that has been withdrawn, or taken off sale, is not sold any more,
\* however long ago it was put into the cart, unless the sale was in flight
\* when it was withdrawn (create_order).
WithdrawnNotSold ==
    [][\A w \in Workers :
          Answered(w, "order") /\ session[w].product \notin contended =>
              Sellable(session[w].product)]_vars

\* The columns in which a product answers to a text.
Columns(p, text) ==
    {column \in {"barcode", "internal_code", "name_pinyin"} : products[p][column] = text}

\* What is sold answers to what was scanned, and it is another product than the
\* cart showed only if that one answers to it as well, in another column or by
\* the same name: whatever is created and switched in between, a code that is
\* no other product's code or name leads from the cart to the same product
\* (find_product_by_query in build_precheckout_item and in create_order).
ShownIsSold ==
    \A w \in Workers :
        LET s == session[w]
            sold == Columns(s.product, s.text)
            shown == Columns(s.shown, s.text)
        IN  s.step = "order" =>
                /\ sold # {}
                /\ s.shown \notin {Null, s.product} =>
                      shown # {} /\ sold \intersect shown \subseteq {"name_pinyin"}
=============================================================================
