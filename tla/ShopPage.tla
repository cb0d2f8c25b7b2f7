------------------------------ MODULE ShopPage ------------------------------
(***************************************************************************)
(* The storefront's pages: which shop is shown, which goods a page lists,  *)
(* the cart of one customer, and the checkout it leads to.                 *)
(*                                                                         *)
(* What a shop is called and whether it is shown is read through a cache   *)
(* of one minute.  A miss queries first and stores after, with no lock in  *)
(* between; a change of the settings writes first and clears the caches    *)
(* after.  Prices are those of one piece: the query for bulk tiers fails   *)
(* (see EcomBill), and a failed query leaves the plain price.              *)
(*                                                                         *)
(* A definition X_Y just above X is X with a bug Y this code could have; it *)
(* is used by no other, only to test the properties.                       *)
(***************************************************************************)
EXTENDS Integers, FiniteSets, FiniteSetsExt

CONSTANTS
    Products,
    Shop,          \* the shop of a product
    Slots,         \* slots in which handlers run
    Names,
    FirstName,
    Minimums,      \* order minimums and smallest quantities the admin sets
    NoName, NoProduct,
    MaxStock,
    MaxEdits       \* bound: edits of settings and products, and sales

Home == "home"
Store == "store"
Shops == {Home, Store}
NoPrice == 0
Price == 1         \* selling_price
EcomPrice == 2     \* the ecom_price an admin may set
NotRead == {"?"}   \* an empty cache of shown shops
ShownKey == "shown" \* that cache, among the caches of names

VARIABLES
    settings,   \* ecom_settings, one row a shop: [on, name, min]
    shown,      \* tempatAktif, or NotRead
    names,      \* per shop, namaTokoCache, or NoName
    goods,      \* products: [avail, active, gone, stock, min, ecom]
    cart,       \* ecom_cart_items of one customer: quantities, 0 for no row
    behind,     \* caches that a reader has filled with what a write has replaced
    edits, req

caches == <<shown, names, behind>>
vars == <<settings, caches, goods, cart, edits, req>>

Idle == [op |-> "idle", shop |-> Home, set |-> {}, name |-> NoName, p |-> NoProduct, n |-> 0]

Init ==
    /\ settings = [l \in Shops |-> [on |-> l = Home, name |-> FirstName, min |-> 0]]
    /\ shown = NotRead /\ names = [l \in Shops |-> NoName] /\ behind = {}
    /\ goods = [p \in Products |->
           [avail |-> TRUE, active |-> TRUE, gone |-> FALSE, stock |-> MaxStock, min |-> 1, ecom |-> NoPrice]]
    /\ cart = [p \in Products |-> 0]
    /\ edits = 0
    /\ req = [s \in Slots |-> Idle]

Edit == edits < MaxEdits /\ edits' = edits + 1
Done(s) == req' = [req EXCEPT ![s] = Idle]
Take(s, r) == req[s] = Idle /\ req' = [req EXCEPT ![s] = r]

-----------------------------------------------------------------------------
(* Shown shops and their names.                                            *)

\* With no shop switched on, and when the query fails, home is shown.
Visible == LET on == {l \in Shops : settings[l].on} IN IF on = {} THEN {Home} ELSE on

BeginTempatTayang(s) ==
    /\ shown = NotRead
    /\ Take(s, [Idle EXCEPT !.op = "tayang", !.set = Visible])
    /\ UNCHANGED <<settings, caches, goods, cart, edits>>
StoreTempatTayang(s) ==
    /\ req[s].op = "tayang"
    /\ shown' = req[s].set
    /\ behind' = IF req[s].set = Visible THEN behind \ {ShownKey} ELSE behind \cup {ShownKey}
    /\ Done(s)
    /\ UNCHANGED <<settings, names, goods, cart, edits>>

BeginNamaToko(s, l) ==
    /\ names[l] = NoName
    /\ Take(s, [Idle EXCEPT !.op = "nama", !.shop = l, !.name = settings[l].name])
    /\ UNCHANGED <<settings, caches, goods, cart, edits>>
StoreNamaToko(s) ==
    /\ req[s].op = "nama"
    /\ LET l == req[s].shop IN
       /\ names' = [names EXCEPT ![l] = req[s].name]
       /\ behind' = IF req[s].name = settings[l].name THEN behind \ {l} ELSE behind \cup {l}
    /\ Done(s)
    /\ UNCHANGED <<settings, shown, goods, cart, edits>>

\* A minute passes.
ShownExpires ==
    /\ shown # NotRead
    /\ shown' = NotRead /\ behind' = behind \ {ShownKey}
    /\ UNCHANGED <<settings, names, goods, cart, edits, req>>
NameExpires(l) ==
    /\ names[l] # NoName
    /\ names' = [names EXCEPT ![l] = NoName] /\ behind' = behind \ {l}
    /\ UNCHANGED <<settings, shown, goods, cart, edits, req>>

\* Update of the settings: the row, ...
WriteSettings(s, l, row) ==
    /\ Edit
    /\ settings' = [settings EXCEPT ![l] = row]
    /\ Take(s, [Idle EXCEPT !.op = "forget"])
    /\ UNCHANGED <<caches, goods, cart>>
\* ... then both caches.
LupakanTempatTayang_NamesOnly(s) ==
    /\ req[s].op = "forget"
    /\ names' = [l \in Shops |-> NoName] /\ behind' = behind \ Shops
    /\ Done(s)
    /\ UNCHANGED <<settings, shown, goods, cart, edits>>
LupakanTempatTayang(s) ==
    /\ req[s].op = "forget"
    /\ shown' = NotRead /\ names' = [l \in Shops |-> NoName] /\ behind' = {}
    /\ Done(s)
    /\ UNCHANGED <<settings, goods, cart, edits>>

\* What a request that asks now is answered, whether from the cache or not.
TempatTayang == IF shown = NotRead THEN Visible ELSE shown
TempatBolehTayang(l) == l \in TempatTayang

-----------------------------------------------------------------------------
(* Pages.                                                                  *)

\* A deletion marks the row, and every query of the entity leaves it out.
Catalogue == {p \in Products : ~goods[p].gone}
ListProducts == {p \in Catalogue :
    goods[p].active /\ goods[p].avail /\ goods[p].stock > 0 /\ TempatBolehTayang(Shop[p])}
ListedIn(l) == IF TempatBolehTayang(l) THEN {p \in ListProducts : Shop[p] = l} ELSE {}
ListCategories == {l \in Shops : ListedIn(l) # {}}
GetProduct(p) ==
    p \in Catalogue /\ goods[p].active /\ goods[p].avail /\ TempatBolehTayang(Shop[p])
\* The shop of p is not among the columns that are read, and an empty one
\* stands for home.
GetRelated_SoldOut(p) == {q \in Catalogue \ {p} : Shop[q] = Home /\ goods[q].active}
GetRelated(p) == {q \in Catalogue \ {p} :
    Shop[q] = Home /\ goods[q].active /\ goods[q].avail /\ goods[q].stock > 0}

-----------------------------------------------------------------------------
(* The admin's product panel, which knows the goods of the home shop only, *)
(* and what else changes a product.                                        *)

EditGoods(p, row) ==
    /\ Edit /\ p \in Catalogue
    /\ goods' = [goods EXCEPT ![p] = row]
    /\ UNCHANGED <<settings, caches, cart, req>>

BulkSetAvailable(p, b) == Shop[p] = Home /\ EditGoods(p, [goods[p] EXCEPT !.avail = b])
BulkSyncPrice(p) == Shop[p] = Home /\ EditGoods(p, [goods[p] EXCEPT !.ecom = Price])
BulkResetPrice(p) == Shop[p] = Home /\ EditGoods(p, [goods[p] EXCEPT !.ecom = NoPrice])
UpdateEcomFields(p, b, ecom, min) ==
    /\ Shop[p] = Home /\ min >= 1
    /\ EditGoods(p, [goods[p] EXCEPT !.avail = b, !.ecom = ecom, !.min = min])
ToggleActive(p) == EditGoods(p, [goods[p] EXCEPT !.active = ~@])
Delete(p) == EditGoods(p, [goods[p] EXCEPT !.gone = TRUE])
Sell(p) == goods[p].stock > 0 /\ EditGoods(p, [goods[p] EXCEPT !.stock = @ - 1])

-----------------------------------------------------------------------------
(* The cart.  A row is unique for a customer and a product.                *)

CanAdd(p, n) ==
    /\ p \in Catalogue /\ goods[p].avail /\ TempatBolehTayang(Shop[p])
    /\ n >= goods[p].min /\ cart[p] + n <= goods[p].stock

\* Product and row are read, checked, and the row saved with the sum.
BeginAddItem(s, p, n) ==
    /\ CanAdd(p, n)
    /\ Take(s, [Idle EXCEPT !.op = "add", !.p = p, !.n = cart[p] + n])
    /\ UNCHANGED <<settings, caches, goods, cart, edits>>
CommitAddItem(s) ==
    /\ req[s].op = "add"
    /\ cart' = [cart EXCEPT ![req[s].p] = req[s].n]
    /\ Done(s)
    /\ UNCHANGED <<settings, caches, goods, edits>>

\* The row of a product that was deleted takes any quantity.
UpdateItem(p, n) ==
    /\ cart[p] > 0
    /\ n # 0 /\ p \in Catalogue => n >= goods[p].min /\ n <= goods[p].stock
    /\ cart' = [cart EXCEPT ![p] = n]
    /\ UNCHANGED <<settings, caches, goods, edits, req>>
RemoveItem(p) ==
    /\ cart[p] > 0
    /\ cart' = [cart EXCEPT ![p] = 0]
    /\ UNCHANGED <<settings, caches, goods, edits, req>>
Clear ==
    /\ \E p \in Products : cart[p] > 0
    /\ cart' = [p \in Products |-> 0]
    /\ UNCHANGED <<settings, caches, goods, edits, req>>

-----------------------------------------------------------------------------
(* What the cart shows and what the checkout charges.                      *)

ecomBasePrice(p) == IF goods[p].ecom # NoPrice THEN goods[p].ecom ELSE Price
InCart == {p \in Products : cart[p] > 0}

\* buildResponse: a line that cannot be had is shown, and left out of the sums;
\* a line whose product was deleted is not shown.  Whether the shop is still
\* shown is not asked.
Unavailable(p) == ~goods[p].avail \/ goods[p].stock = 0 \/ cart[p] > goods[p].stock
ShownLines(l) == {p \in InCart \cap Catalogue : Shop[p] = l}
buildResponse_PlainPrice(l) ==
    MapThenSumSet(LAMBDA p : Price * cart[p], {p \in ShownLines(l) : ~Unavailable(p)})
buildResponse(l) ==
    MapThenSumSet(LAMBDA p : ecomBasePrice(p) * cart[p], {p \in ShownLines(l) : ~Unavailable(p)})
minimalBelanja(l) == settings[l].min
CartLooksGood(l) ==
    /\ ShownLines(l) # {}
    /\ \A p \in ShownLines(l) : ~Unavailable(p)
    /\ buildResponse(l) >= minimalBelanja(l)

\* CreateOrder for lines n(p), as far as goods and prices go: a buy-now brings
\* its own lines, past the cart and its checks.
Subtotal(n, l) ==
    MapThenSumSet(LAMBDA p : ecomBasePrice(p) * n[p], {p \in Products : n[p] > 0 /\ Shop[p] = l})
Accepts_Oversells(n) ==
    /\ \A p \in Products : n[p] > 0 =>
          p \in Catalogue /\ TempatBolehTayang(Shop[p]) /\ goods[p].avail
    /\ \A l \in Shops : (\E p \in Products : n[p] > 0 /\ Shop[p] = l) =>
          Subtotal(n, l) >= minimalBelanja(l)
Accepts(n) ==
    /\ \A p \in Products : n[p] > 0 =>
          /\ p \in Catalogue /\ TempatBolehTayang(Shop[p])
          /\ goods[p].avail /\ n[p] <= goods[p].stock
    /\ \A l \in Shops : (\E p \in Products : n[p] > 0 /\ Shop[p] = l) =>
          Subtotal(n, l) >= minimalBelanja(l)

\* The chosen lines leave the cart.
CreateOrder(chosen) ==
    /\ chosen # {} /\ chosen \subseteq InCart /\ Edit
    /\ LET n == [p \in Products |-> IF p \in chosen THEN cart[p] ELSE 0] IN
       /\ Accepts(n)
       /\ goods' = [p \in Products |-> [goods[p] EXCEPT !.stock = @ - n[p]]]
    /\ cart' = [p \in Products |-> IF p \in chosen THEN 0 ELSE cart[p]]
    /\ UNCHANGED <<settings, caches, req>>

-----------------------------------------------------------------------------
Next ==
    \/ \E s \in Slots :
          \/ BeginTempatTayang(s) \/ StoreTempatTayang(s)
          \/ \E l \in Shops :
                \/ BeginNamaToko(s, l)
                \/ \E b \in BOOLEAN, v \in Names, m \in Minimums :
                      WriteSettings(s, l, [on |-> b, name |-> v, min |-> m])
          \/ StoreNamaToko(s) \/ LupakanTempatTayang(s)
          \/ \E p \in Products, n \in 1..MaxStock : BeginAddItem(s, p, n)
          \/ CommitAddItem(s)
    \/ ShownExpires \/ \E l \in Shops : NameExpires(l)
    \/ \E p \in Products :
          \/ \E b \in BOOLEAN :
                \/ BulkSetAvailable(p, b)
                \/ \E ecom \in {NoPrice, EcomPrice}, m \in Minimums : UpdateEcomFields(p, b, ecom, m)
          \/ BulkSyncPrice(p) \/ BulkResetPrice(p) \/ ToggleActive(p)
          \/ Delete(p) \/ Sell(p)
          \/ \E n \in 0..MaxStock : UpdateItem(p, n)
          \/ RemoveItem(p)
    \/ Clear
    \/ \E chosen \in SUBSET Products : CreateOrder(chosen)

Spec == Init /\ [][Next]_vars

\* Entries grow old, and a handler that began ends.
Fairness ==
    /\ WF_vars(ShownExpires) /\ \A l \in Shops : WF_vars(NameExpires(l))
    /\ \A s \in Slots : WF_vars(StoreTempatTayang(s)) /\ WF_vars(StoreNamaToko(s))
FairSpec == Spec /\ Fairness

-----------------------------------------------------------------------------
TypeOK ==
    /\ settings \in [Shops -> [on : BOOLEAN, name : Names, min : Minimums \cup {0}]]
    /\ shown \in (SUBSET Shops) \cup {NotRead} /\ names \in [Shops -> Names \cup {NoName}]
    /\ behind \subseteq Shops \cup {ShownKey}
    /\ goods \in [Products -> [avail : BOOLEAN, active : BOOLEAN, gone : BOOLEAN,
                               stock : 0..MaxStock, min : Minimums \cup {1}, ecom : {NoPrice, Price, EcomPrice}]]
    /\ cart \in [Products -> 0..MaxStock]
    /\ edits \in 0..MaxEdits
    /\ req \in [Slots -> [op : {"idle", "tayang", "nama", "forget", "add"}, shop : Shops,
                          set : SUBSET Shops, name : Names \cup {NoName},
                          p : Products \cup {NoProduct}, n : 0..MaxStock]]

\* A change of the settings shows at once: while no change is between its two
\* steps, a cache holds what the row says, unless a page was loading the old
\* value while the change was made.
ChangesShowAtOnce ==
    (\A s \in Slots : req[s].op # "forget") =>
        /\ shown \in {NotRead, Visible} \/ ShownKey \in behind
        /\ \A l \in Shops : names[l] \in {NoName, settings[l].name} \/ l \in behind

\* Whatever loads and changes overlap, the pages follow the settings in the
\* end: no value outlives its minute for good.
PagesCorrect ==
    /\ shown \in {NotRead, Visible}
    /\ \A l \in Shops : names[l] \in {NoName, settings[l].name}
PagesCatchUp == <>[]PagesCorrect

\* Pages, cart and checkout each have their own code for what can be had and
\* what it costs.  What a list offers can be opened, and its smallest quantity
\* goes into an empty cart.  The lines the cart shows of some shops are accepted,
\* for the sums it showed, if and only if it shows no problem with them and
\* their shops are still shown: of a hidden shop the cart says nothing, and the
\* checkout refuses it.  And while the cart holds a product that was deleted,
\* which it does not show, the checkout of the whole cart is refused.
CartForetellsCheckout ==
    /\ LET offered == UNION {ListedIn(l) : l \in ListCategories}
           suggested == IF TempatBolehTayang(Home) THEN UNION {GetRelated(p) : p \in offered} ELSE {}
       IN \A p \in offered \cup suggested :
             GetProduct(p) /\ (cart[p] = 0 /\ goods[p].min <= goods[p].stock => CanAdd(p, goods[p].min))
    /\ \A chosen \in SUBSET {l \in Shops : ShownLines(l) # {}} :
        LET lines == UNION {ShownLines(l) : l \in chosen}
            n == [p \in Products |-> IF p \in lines THEN cart[p] ELSE 0]
        IN /\ Accepts(n) <=> \A l \in chosen : CartLooksGood(l) /\ TempatBolehTayang(l)
           /\ Accepts(n) => \A l \in chosen : buildResponse(l) = Subtotal(n, l)
    /\ ~(InCart \subseteq Catalogue) => ~Accepts(cart)
=============================================================================
