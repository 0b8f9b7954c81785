---------------------------- MODULE CatalogProofs ----------------------------
(***************************************************************************)
(* The catalog keeps its promises for any texts, products, updates and     *)
(* workers, and however many products there are.                           *)
(*                                                                         *)
(* The promises about a commit are promises about what a request loaded,   *)
(* so the invariant says what is still true of it: outside the contended   *)
(* products, requests in flight keep apart, and therefore the flags an     *)
(* update names are as it loaded them and a product being sold is still    *)
(* sellable.                                                               *)
(***************************************************************************)
EXTENDS Catalog, TLAPS

\* A session refers to products that exist, and those it looked up by a text
\* still answer to it.
Referenced(s) ==
    /\ s.step = "status" => s.product \in DOMAIN products
    /\ s.step = "cart" => s.shown \in Matches(s.text)
    /\ s.step = "order" => s.product \in Matches(s.text) /\ s.shown \in Matches(s.text) \union {Null}

\* The unique indexes of the table.
Unique ==
    \A i, j \in DOMAIN products :
        i # j => /\ products[i].barcode # products[j].barcode
                 /\ products[i].internal_code # products[j].internal_code

\* The environment keeps its word while requests are in flight.
FlightsApart ==
    \A v, w \in Workers :
        v # w /\ InFlight(v) /\ InFlight(w) /\ session[v].product \notin contended =>
            Apart(session[v], session[w])

\* What a session loaded about a product nobody contends for is still true, as
\* far as it matters.
StillTrue(s) ==
    /\ s.step = "status" /\ s.product \notin contended =>
          \A f \in Named(s.update) : s.loaded[f] = products[s.product].flags[f]
    /\ s.step = "order" /\ s.product \notin contended => Sellable(s.product)

Inv ==
    /\ TypeOK
    /\ \A w \in Workers : Referenced(session[w])
    /\ Unique
    /\ FlightsApart
    /\ \A w \in Workers : StillTrue(session[w])

-----------------------------------------------------------------------------
\* What a session is

LEMMA SessionTypes ==
    ASSUME TypeOK, NEW w \in Workers
    PROVE  /\ session[w].step \in {"idle", "done", "status", "cart", "order"}
           /\ session[w].step = "status" =>
                 /\ session[w].product \in Nat
                 /\ session[w].update \in Updates
                 /\ session[w].update \in [Flags -> BOOLEAN \union {Null}]
                 /\ session[w].loaded \in [Flags -> BOOLEAN]
           /\ session[w].step = "cart" => session[w].text \in Texts /\ session[w].shown \in Nat
           /\ session[w].step = "order" =>
                 /\ session[w].text \in Texts
                 /\ session[w].shown \in Nat \union {Null}
                 /\ session[w].product \in Nat
<1>1. session[w] \in Session
  BY DEF TypeOK
<1>2. Updates \subseteq [Flags -> BOOLEAN \union {Null}]
  BY CatalogAssumption DEF Update
<1>3. QED
  BY <1>1, <1>2 DEF Session, Idle, Done

\* A product has flags.
LEMMA ProductTypes ==
    ASSUME TypeOK, NEW p \in DOMAIN products
    PROVE  /\ products[p] \in Product
           /\ products[p].flags \in [Flags -> BOOLEAN]
<1>1. products[p] \in Product
  <2>1. products \in Seq(Product)
    BY DEF TypeOK
  <2>2. QED
    BY <2>1
<1>2. QED
  BY <1>1 DEF Product

LEMMA ApartSymmetric ==
    ASSUME NEW request, NEW other
    PROVE  Apart(request, other) <=> Apart(other, request)
BY DEF Apart

-----------------------------------------------------------------------------
\* Steps that leave the products alone

\* Such a step preserves the invariant if what it keeps for the worker fits in.
LEMMA KeptFits ==
    ASSUME Inv, NEW w \in Workers, NEW record \in Session,
           Keep(w, record), UNCHANGED products,
           Referenced(record), StillTrue(record),
           record.step \in {"status", "order"} =>
               \A v \in Workers \ {w} :
                   InFlight(v) /\ record.product \notin contended => Apart(record, session[v])
    PROVE  Inv'
<1>1. /\ session' = [session EXCEPT ![w] = record]
      /\ contended' = contended /\ products' = products
      /\ session \in [Workers -> Session]
  BY DEF Keep, Inv, TypeOK
<1>2. session'[w] = record /\ \A v \in Workers \ {w} : session'[v] = session[v]
  BY <1>1
<1>3. TypeOK'
  BY <1>1 DEF Inv, TypeOK
<1>4. ASSUME NEW v \in Workers
      PROVE  Referenced(session[v])' /\ StillTrue(session[v])'
  <2>1. CASE v = w
    BY <1>1, <1>2, <2>1 DEF Referenced, StillTrue, Sellable, Usable, Matches
  <2>2. CASE v # w
    BY <1>1, <1>2, <2>2 DEF Inv, Referenced, StillTrue, Sellable, Usable, Matches
  <2>3. QED
    BY <2>1, <2>2
<1>5. Unique'
  BY <1>1 DEF Inv, Unique
<1>6. FlightsApart'
  <2> SUFFICES ASSUME NEW u \in Workers, NEW v \in Workers, u # v, InFlight(u)', InFlight(v)',
                      session'[u].product \notin contended
               PROVE  Apart(session'[u], session'[v])
    BY <1>1 DEF FlightsApart, Apart
  <2>1. CASE u # w /\ v # w
    BY <1>2, <2>1 DEF Inv, FlightsApart, InFlight
  <2>2. CASE u = w
    BY <1>2, <2>2 DEF InFlight
  <2>3. CASE v = w
    <3>1. CASE session'[u].product = record.product
      <4>1. Apart(record, session[u])
        BY <1>2, <2>3, <3>1 DEF InFlight
      <4>2. QED
        BY <1>2, <2>3, <4>1, ApartSymmetric
    <3>2. CASE session'[u].product # record.product
      BY <1>2, <2>3, <3>2 DEF Apart
    <3>3. QED
      BY <3>1, <3>2
  <2>4. QED
    BY <2>1, <2>2, <2>3
<1>7. QED
  BY <1>3, <1>4, <1>5, <1>6 DEF Inv

LEMMA StatusLoadInv ==
    ASSUME Inv, NEW w \in Workers, NEW p \in 1..MaxProducts, NEW update \in Updates,
           StatusLoad(w, p, update)
    PROVE  Inv'
<1> DEFINE request ==
        [step |-> "status", product |-> p, update |-> update, loaded |-> products[p].flags]
<1>1. /\ p \in DOMAIN products /\ CanStart(w, request) /\ Keep(w, request)
      /\ UNCHANGED products
  BY DEF StatusLoad
<1>2. request \in Session
  BY <1>1, ProductTypes DEF Session, Inv
<1>3. Referenced(request) /\ StillTrue(request)
  BY <1>1 DEF Referenced, StillTrue
<1> HIDE DEF request
<1>4. \A v \in Workers \ {w} :
          InFlight(v) /\ request.product \notin contended => Apart(request, session[v])
  BY <1>1 DEF CanStart
<1>5. QED
  BY <1>1, <1>2, <1>3, <1>4, KeptFits

LEMMA PrecheckoutInv ==
    ASSUME Inv, NEW w \in Workers, NEW text \in Texts, Precheckout(w, text)
    PROVE  Inv'
<1>1. PICK p \in Matches(text) : Keep(w, [step |-> "cart", text |-> text, shown |-> p])
  BY DEF Precheckout
<1> DEFINE cart == [step |-> "cart", text |-> text, shown |-> p]
<1>2. p \in DOMAIN products /\ p \in Nat
  BY DEF Matches, Inv, TypeOK
<1>3. cart \in Session /\ cart.step = "cart"
  BY <1>2 DEF Session
<1>4. Referenced(cart) /\ StillTrue(cart)
  BY <1>2 DEF Referenced, StillTrue
<1>5. UNCHANGED products /\ Keep(w, cart)
  BY <1>1 DEF Precheckout
<1> HIDE DEF cart
<1>6. QED
  BY <1>3, <1>4, <1>5, KeptFits

LEMMA OrderLoadInv ==
    ASSUME Inv, NEW w \in Workers, NEW text \in Texts, OrderLoad(w, text)
    PROVE  Inv'
<1>1. PICK p \in Matches(text) :
         Sellable(p) /\ CanStart(w, Order(w, text, p)) /\ Keep(w, Order(w, text, p))
  BY DEF OrderLoad
<1>2. UNCHANGED products /\ p \in DOMAIN products /\ p \in Nat
  BY DEF OrderLoad, Matches, Inv, TypeOK
<1>3. PICK request : request = Order(w, text, p)
  OBVIOUS
<1>4. /\ request.step = "order" /\ request.text = text /\ request.product = p
      /\ request.shown \in Matches(text) \union {Null}
  BY <1>3, SessionTypes DEF Order, Inv, Referenced
<1>5. request \in Session
  <2>1. request.shown \in Nat \union {Null}
    BY <1>4 DEF Matches, Inv, TypeOK
  <2>2. request = [step |-> "order", text |-> text, product |-> p, shown |-> request.shown]
    BY <1>3 DEF Order
  <2>3. QED
    BY <1>2, <2>1, <2>2 DEF Session
<1>6. Referenced(request) /\ StillTrue(request)
  BY <1>1, <1>4 DEF Referenced, StillTrue
<1>7. CanStart(w, request) /\ Keep(w, request)
  BY <1>1, <1>3
<1>8. \A v \in Workers \ {w} :
          InFlight(v) /\ request.product \notin contended => Apart(request, session[v])
  BY <1>7 DEF CanStart
<1>9. QED
  BY <1>2, <1>5, <1>6, <1>7, <1>8, KeptFits

\* A session that ends has nothing left to say.
LEMMA EndInv ==
    ASSUME Inv, NEW w \in Workers, NEW record \in {Idle, Done}, Keep(w, record),
           UNCHANGED products
    PROVE  Inv'
<1>1. record \in Session /\ record.step \notin {"status", "cart", "order"}
  BY DEF Session, Idle, Done
<1>2. Referenced(record) /\ StillTrue(record)
  BY <1>1 DEF Referenced, StillTrue
<1>3. QED
  BY <1>1, <1>2, KeptFits

-----------------------------------------------------------------------------
\* Steps that write products

LEMMA CreateProductInv ==
    ASSUME Inv, NEW product \in Creations, CreateProduct(product)
    PROVE  Inv'
<1> DEFINE n == Len(products)
<1>1. /\ products' = Append(products, product) /\ UNCHANGED <<contended, session>>
      /\ \A i \in DOMAIN products : /\ products[i].barcode # product.barcode
                                    /\ products[i].internal_code # product.internal_code
  BY DEF CreateProduct
<1>2. product \in Product /\ products \in Seq(Product)
  BY CatalogAssumption DEF Inv, TypeOK
<1>3. /\ n \in Nat /\ DOMAIN products = 1..n
      /\ products' \in Seq(Product) /\ DOMAIN products' = 1..n + 1
      /\ products'[n + 1] = product
      /\ \A i \in 1..n : products'[i] = products[i]
  BY <1>1, <1>2
<1>4. TypeOK'
  BY <1>1, <1>3 DEF Inv, TypeOK
<1>5. Unique'
  <2> SUFFICES ASSUME NEW i \in DOMAIN products', NEW j \in DOMAIN products', i # j
               PROVE  /\ products'[i].barcode # products'[j].barcode
                      /\ products'[i].internal_code # products'[j].internal_code
    BY DEF Unique
  <2>1. CASE i \in 1..n /\ j \in 1..n
    BY <1>3, <2>1 DEF Inv, Unique
  <2>2. CASE i = n + 1 /\ j \in 1..n
    BY <1>1, <1>3, <2>2
  <2>3. CASE j = n + 1 /\ i \in 1..n
    BY <1>1, <1>3, <2>3
  <2>4. QED
    BY <1>3, <2>1, <2>2, <2>3
<1>6. ASSUME NEW w \in Workers
      PROVE  Referenced(session[w])' /\ StillTrue(session[w])'
  <2>1. Referenced(session[w]) /\ StillTrue(session[w])
    BY DEF Inv
  <2> HIDE DEF n
  <2>2. Referenced(session[w])'
    BY <1>1, <1>3, <2>1 DEF Referenced, Matches
  <2>3. StillTrue(session[w])'
    BY <1>1, <1>3, <2>1 DEF Referenced, StillTrue, Sellable, Usable, Matches
  <2>4. QED
    BY <2>2, <2>3
<1>7. FlightsApart'
  BY <1>1 DEF Inv, FlightsApart, InFlight, Apart
<1>8. QED
  BY <1>4, <1>5, <1>6, <1>7 DEF Inv

\* What a status update does to the table.
LEMMA StatusCommitIs ==
    ASSUME Inv, NEW w \in Workers, StatusCommit(w)
    PROVE  LET s == session[w]
           IN  /\ s.step = "status"
               /\ Keep(w, Done)
               /\ s.product \in DOMAIN products
               /\ products' \in Seq(Product)
               /\ DOMAIN products' = DOMAIN products
               /\ \A p \in DOMAIN products :
                     /\ products'[p].barcode = products[p].barcode
                     /\ products'[p].internal_code = products[p].internal_code
                     /\ products'[p].name_pinyin = products[p].name_pinyin
                     /\ p # s.product => products'[p] = products[p]
               /\ products'[s.product].flags =
                     [f \in Flags |->
                         IF s.update[f] = Null THEN products[s.product].flags[f]
                         ELSE Written(s.loaded[f], s.update[f], products[s.product].flags[f])]
<1> DEFINE s == session[w]
<1> DEFINE flags == [f \in Flags |->
                        IF s.update[f] = Null THEN products[s.product].flags[f]
                        ELSE Written(s.loaded[f], s.update[f], products[s.product].flags[f])]
<1>1. /\ s.step = "status" /\ Keep(w, Done)
      /\ products' = [products EXCEPT ![s.product].flags = flags]
  BY DEF StatusCommit
<1>2. s.product \in DOMAIN products
  BY <1>1 DEF Inv, Referenced
<1>3. /\ s.update \in [Flags -> BOOLEAN \union {Null}]
      /\ s.loaded \in [Flags -> BOOLEAN]
      /\ products[s.product] \in Product
      /\ products[s.product].flags \in [Flags -> BOOLEAN]
  BY <1>1, <1>2, SessionTypes, ProductTypes DEF Inv
<1>4. flags \in [Flags -> BOOLEAN]
  BY <1>3, Zenon DEF Written
<1>5. products \in Seq(Product)
  BY DEF Inv, TypeOK
<1> HIDE DEF flags
<1>6. [products[s.product] EXCEPT !.flags = flags] \in Product
  BY <1>3, <1>4 DEF Product
<1>7. products' \in Seq(Product)
  BY <1>1, <1>2, <1>5, <1>6
<1>8. /\ DOMAIN products' = DOMAIN products
      /\ \A p \in DOMAIN products :
            /\ products'[p].barcode = products[p].barcode
            /\ products'[p].internal_code = products[p].internal_code
            /\ products'[p].name_pinyin = products[p].name_pinyin
            /\ p # s.product => products'[p] = products[p]
      /\ products'[s.product].flags = flags
  BY <1>1, <1>2, <1>3, <1>5, ProductTypes DEF Inv, Product
<1>9. QED
  BY <1>1, <1>2, <1>7, <1>8 DEF flags

\* Outside the contended products the flags an update names are written as
\* asked.
LEMMA NamedFlagsWritten ==
    ASSUME Inv, NEW w \in Workers, StatusCommit(w), session[w].product \notin contended
    PROVE  products'[session[w].product].flags =
              [f \in Flags |-> IF session[w].update[f] = Null
                               THEN products[session[w].product].flags[f]
                               ELSE session[w].update[f]]
<1> DEFINE s == session[w]
<1>1. s.step = "status"
  BY StatusCommitIs
<1>2. \A f \in Flags : s.update[f] # Null => s.loaded[f] = products[s.product].flags[f]
  BY <1>1 DEF Inv, StillTrue, Named
<1>3. \A f \in Flags : s.update[f] # Null =>
         Written(s.loaded[f], s.update[f], products[s.product].flags[f]) = s.update[f]
  BY <1>2, Zenon DEF Written
<1>4. products'[s.product].flags =
         [f \in Flags |->
             IF s.update[f] = Null THEN products[s.product].flags[f]
             ELSE Written(s.loaded[f], s.update[f], products[s.product].flags[f])]
  BY StatusCommitIs
<1>5. QED
  BY <1>3, <1>4, Zenon

LEMMA StatusCommitInv ==
    ASSUME Inv, NEW w \in Workers, StatusCommit(w)
    PROVE  Inv'
<1> DEFINE s == session[w]
<1>1. /\ s.step = "status" /\ s.product \in DOMAIN products
      /\ products' \in Seq(Product)
      /\ DOMAIN products' = DOMAIN products
      /\ \A p \in DOMAIN products :
            /\ products'[p].barcode = products[p].barcode
            /\ products'[p].internal_code = products[p].internal_code
            /\ products'[p].name_pinyin = products[p].name_pinyin
            /\ p # s.product => products'[p] = products[p]
      /\ contended' = contended
      /\ session' = [session EXCEPT ![w] = Done]
      /\ session \in [Workers -> Session]
  BY StatusCommitIs DEF Keep, Inv, TypeOK
<1>2. session'[w] = Done /\ \A v \in Workers \ {w} : session'[v] = session[v]
  BY <1>1
<1>3. TypeOK'
  <2>1. Done \in Session
    BY DEF Session
  <2>2. QED
    BY <1>1, <2>1 DEF Inv, TypeOK
<1>4. Unique'
  BY <1>1 DEF Inv, Unique
<1>5. FlightsApart'
  BY <1>1, <1>2 DEF Inv, FlightsApart, InFlight, Apart, Done
<1>6. ASSUME NEW v \in Workers
      PROVE  Referenced(session[v])'
  <2>1. Referenced(session[v])
    BY DEF Inv
  <2>2. CASE v = w
    BY <1>2, <2>2 DEF Referenced, Done
  <2>3. CASE v # w
    BY <1>1, <1>2, <2>1, <2>3 DEF Referenced, Matches
  <2>4. QED
    BY <2>2, <2>3
<1>7. ASSUME NEW v \in Workers
      PROVE  StillTrue(session[v])'
  <2>1. StillTrue(session[v]) /\ Referenced(session[v])
    BY DEF Inv
  <2>2. CASE v = w
    BY <1>2, <2>2 DEF StillTrue, Done
  <2>3. CASE v # w /\ InFlight(v) /\ session[v].product \notin contended
    <3>1. Apart(s, session[v])
      <4>1. InFlight(w)
        BY <1>1 DEF InFlight
      <4>2. Apart(session[v], s)
        BY <2>3, <4>1 DEF Inv, FlightsApart
      <4>3. QED
        BY <4>2, ApartSymmetric
    <3>2. CASE s.product # session[v].product
      <4>1. products'[session[v].product] = products[session[v].product]
        BY <1>1, <2>1, <2>3, <3>2 DEF Referenced, InFlight, Matches
      <4>2. QED
        BY <1>1, <1>2, <2>1, <2>3, <4>1 DEF StillTrue, Sellable, Usable
    <3>3. CASE s.product = session[v].product
      <4>1. session[v].step = "status" /\ Named(s.update) \intersect Named(session[v].update) = {}
        BY <1>1, <3>1, <3>3 DEF Apart
      <4>2. \A f \in Named(session[v].update) : f \in Flags /\ s.update[f] = Null
        BY <4>1 DEF Named
      <4>3. \A f \in Named(session[v].update) :
               products'[s.product].flags[f] = products[s.product].flags[f]
        <5>1. products'[s.product].flags =
                 [f \in Flags |->
                     IF s.update[f] = Null THEN products[s.product].flags[f]
                     ELSE Written(s.loaded[f], s.update[f], products[s.product].flags[f])]
          BY StatusCommitIs
        <5>2. QED
          BY <4>2, <5>1, Zenon
      <4>4. QED
        BY <1>1, <1>2, <2>1, <2>3, <3>3, <4>1, <4>3 DEF StillTrue
    <3>4. QED
      BY <3>2, <3>3
  <2>4. CASE v # w /\ ~(InFlight(v) /\ session[v].product \notin contended)
    BY <1>1, <1>2, <2>4 DEF StillTrue, InFlight
  <2>5. QED
    BY <2>2, <2>3, <2>4
<1>8. QED
  BY <1>3, <1>4, <1>5, <1>6, <1>7 DEF Inv

-----------------------------------------------------------------------------
\* The theorems

\* Only its own commit answers an update.
LEMMA WhoAnswers ==
    ASSUME Inv, Next, NEW w \in Workers, Answered(w, "status")
    PROVE  StatusCommit(w)
<1>1. session[w].step = "status" /\ session'[w] = Done /\ Done.step = "done"
  BY DEF Answered, Done
<1>2. session' # session
  BY <1>1
<1>3. PICK v \in Workers :
         \/ \E p \in 1..MaxProducts, update \in Updates : StatusLoad(v, p, update)
         \/ StatusCommit(v)
         \/ \E text \in Texts : Precheckout(v, text)
         \/ \E text \in Texts : OrderLoad(v, text)
         \/ OrderCommit(v)
         \/ Abort(v)
  BY <1>2 DEF Next, CreateProduct
<1>4. \E record : Keep(v, record)
  BY <1>3, Zenon DEF StatusLoad, StatusCommit, Precheckout, OrderLoad, OrderCommit, Abort
<1>5. v = w
  BY <1>1, <1>2, <1>4 DEF Keep, Inv, TypeOK
<1>6. ~\E p \in 1..MaxProducts, update \in Updates : StatusLoad(w, p, update)
  BY <1>1 DEF StatusLoad, CanStart, InFlight
<1>7. ~\E text \in Texts : Precheckout(w, text)
  BY <1>1 DEF Precheckout, InFlight
<1>8. ~(\E text \in Texts : OrderLoad(w, text)) /\ ~OrderCommit(w)
  BY <1>1 DEF OrderLoad, OrderCommit, InFlight
<1>9. ~Abort(w)
  BY <1>1 DEF Abort, Keep, Inv, TypeOK, Idle
<1>10. QED
  BY <1>3, <1>5, <1>6, <1>7, <1>8, <1>9

LEMMA InitInv == Init => Inv
<1> SUFFICES ASSUME Init
             PROVE  Inv
  OBVIOUS
<1>1. products = <<>> /\ contended \subseteq 1..MaxProducts
  BY DEF Init
<1>2. \A w \in Workers : session[w] = Idle
  BY DEF Init
<1>3. TypeOK
  BY <1>1 DEF Init, TypeOK, Session
<1>4. QED
  BY <1>1, <1>2, <1>3 DEF Inv, Referenced, Unique, FlightsApart, StillTrue, InFlight, Idle

LEMMA StepInv == Inv /\ [Next]_vars => Inv'
<1> SUFFICES ASSUME Inv, [Next]_vars
             PROVE  Inv'
  OBVIOUS
<1>1. ASSUME NEW product \in Creations, CreateProduct(product)
      PROVE  Inv'
  BY <1>1, CreateProductInv
<1>2. ASSUME NEW w \in Workers, NEW p \in 1..MaxProducts, NEW update \in Updates,
             StatusLoad(w, p, update)
      PROVE  Inv'
  BY <1>2, StatusLoadInv
<1>3. ASSUME NEW w \in Workers, StatusCommit(w)
      PROVE  Inv'
  BY <1>3, StatusCommitInv
<1>4. ASSUME NEW w \in Workers, NEW text \in Texts, Precheckout(w, text)
      PROVE  Inv'
  BY <1>4, PrecheckoutInv
<1>5. ASSUME NEW w \in Workers, NEW text \in Texts, OrderLoad(w, text)
      PROVE  Inv'
  BY <1>5, OrderLoadInv
<1>6. ASSUME NEW w \in Workers, OrderCommit(w)
      PROVE  Inv'
  BY <1>6, EndInv DEF OrderCommit
<1>7. ASSUME NEW w \in Workers, Abort(w)
      PROVE  Inv'
  BY <1>7, EndInv DEF Abort
<1>8. CASE UNCHANGED vars
  BY <1>8 DEF vars, Inv, TypeOK, Referenced, Unique, FlightsApart, StillTrue, InFlight,
              Sellable, Usable, Apart, Matches
<1>9. QED
  BY <1>1, <1>2, <1>3, <1>4, <1>5, <1>6, <1>7, <1>8 DEF Next

\* The inductive invariant of the catalog.
THEOREM Invariance == Spec => []Inv
BY InitInv, StepInv, PTL DEF Spec

\* The table and the sessions have their types.
THEOREM TypeCorrect == Spec => []TypeOK
<1>1. Inv => TypeOK
  BY DEF Inv
<1>2. QED
  BY <1>1, Invariance, PTL

\* What the order sells answers to the text, as does what the cart showed: the
\* texts of a product never change.  The unique indexes leave one product with
\* a code, so two that answer to it do so in different columns or by name.
THEOREM ShownIsSoldHolds == Spec => []ShownIsSold
<1>1. ASSUME Inv, NEW w \in Workers, session[w].step = "order"
      PROVE  LET s == session[w]
                 sold == Columns(s.product, s.text)
                 shown == Columns(s.shown, s.text)
             IN  /\ sold # {}
                 /\ s.shown \notin {Null, s.product} =>
                       shown # {} /\ sold \intersect shown \subseteq {"name_pinyin"}
  <2> DEFINE s == session[w]
  <2>1. s.product \in Matches(s.text) /\ s.shown \in Matches(s.text) \union {Null}
    BY <1>1 DEF Inv, Referenced
  <2>2. ASSUME NEW p \in Matches(s.text) PROVE p \in DOMAIN products /\ Columns(p, s.text) # {}
    BY DEF Matches, Columns
  <2>3. ASSUME s.shown \notin {Null, s.product}, NEW column \in {"barcode", "internal_code"},
               products[s.product][column] = s.text, products[s.shown][column] = s.text
        PROVE  FALSE
    <3>1. s.product \in DOMAIN products /\ s.shown \in DOMAIN products
      BY <2>1, <2>2, <2>3
    <3>2. CASE column = "barcode"
      BY <1>1, <2>3, <3>1, <3>2 DEF Inv, Unique
    <3>3. CASE column = "internal_code"
      BY <1>1, <2>3, <3>1, <3>3 DEF Inv, Unique
    <3>4. QED
      BY <2>3, <3>2, <3>3
  <2>4. s.shown \notin {Null, s.product} =>
            Columns(s.product, s.text) \intersect Columns(s.shown, s.text) \subseteq {"name_pinyin"}
    BY <2>3 DEF Columns
  <2>5. QED
    BY <2>1, <2>2, <2>4
<1>2. Inv => ShownIsSold
  BY <1>1 DEF ShownIsSold
<1>3. QED
  BY <1>2, Invariance, PTL

\* Overlapping updates that name different flags never undo one another: the
\* commit writes a flag only if it was named and changed, and for a flag nobody
\* else names what was loaded is what is stored.
THEOREM UpdatesKeepApartHolds == Spec => UpdatesKeepApart
<1> DEFINE KeptApart ==
        \A w \in Workers :
          LET s == session[w]
          IN  Answered(w, "status") /\ s.product \notin contended =>
                  products'[s.product].flags =
                      [f \in Flags |-> IF s.update[f] = Null THEN products[s.product].flags[f]
                                       ELSE s.update[f]]
<1>1. Inv /\ [Next]_vars => [KeptApart]_vars
  <2> SUFFICES ASSUME Inv, Next, NEW w \in Workers, Answered(w, "status"),
                      session[w].product \notin contended
               PROVE  products'[session[w].product].flags =
                         [f \in Flags |-> IF session[w].update[f] = Null
                                          THEN products[session[w].product].flags[f]
                                          ELSE session[w].update[f]]
    OBVIOUS
  <2>1. StatusCommit(w)
    BY WhoAnswers
  <2>2. QED
    BY <2>1, NamedFlagsWritten
<1>2. QED
  BY <1>1, Invariance, PTL DEF Spec, UpdatesKeepApart

\* A product taken off sale is not sold from a cart, however old: the order
\* searches again, and an update cannot come between that and its commit.
THEOREM WithdrawnNotSoldHolds == Spec => WithdrawnNotSold
<1> DEFINE NotSold ==
        \A w \in Workers :
          Answered(w, "order") /\ session[w].product \notin contended =>
              Sellable(session[w].product)
<1>1. Inv /\ [Next]_vars => [NotSold]_vars
  BY DEF Inv, StillTrue, Answered
<1>2. QED
  BY <1>1, Invariance, PTL DEF Spec, WithdrawnNotSold
=============================================================================
