------------------------------ MODULE EcomBill ------------------------------
(***************************************************************************)
(* What a storefront checkout charges, and how often vouchers are used.    *)
(*                                                                         *)
(* A checkout reads tiers and vouchers in the snapshot of its transaction, *)
(* computes one bill per shop, and counts each voucher with one UPDATE.    *)
(* The admin edits a voucher by saving the whole row as it was read.  Time *)
(* passes, so schedules open and close.                                    *)
(***************************************************************************)
EXTENDS PackPrice

CONSTANTS
    Shops,          \* the two places goods are sold from
    Base,           \* [Shops -> Nat], the normal price of the shop's product
    Carts,          \* possible carts: [S -> Nat], S the shops bought from
    Shipping,       \* [Shops -> Nat]
    MinOrder,       \* [Shops -> Nat], ecom_settings.min_order_amount
    Tiers,          \* the tier rows an admin may make
    TierColumns,    \* columns of product_price_tiers
    Vouchers,       \* voucher codes
    Forms,          \* [Vouchers -> SUBSET forms], what an admin may enter
    Edited,         \* the vouchers an admin may edit or delete
    Checkouts,      \* checkouts that may happen
    Slots,          \* slots in which handlers run
    NoCode,         \* no voucher entered
    LastTime,       \* bound of the clock
    MaxTiers,       \* bound: tiers at a time
    Quantities      \* bound: quantities the price properties range over

ASSUME BillAssumption ==
    /\ NoCode \notin Vouchers
    /\ \A cart \in Carts : DOMAIN cart \subseteq Shops /\ \A shop \in DOMAIN cart : cart[shop] \in Nat
    /\ Base \in [Shops -> Nat]
    /\ Tiers \subseteq [shop : Shops, min : Nat \ {0}, price : Nat, target : STRING,
                        starts : Nat \union {Never}, ends : Nat \union {Never}]
    /\ \A v \in Vouchers :
         /\ NoCode \notin Forms[v]
         /\ \A f \in Forms[v] : /\ f.limit \in Nat /\ f.min \in Nat
                                /\ {f.starts, f.ends} \subseteq Nat \union {Never}
    /\ Edited \subseteq Vouchers
    /\ IsFiniteSet(Slots)
    /\ LastTime \in Nat
    /\ Quantities \subseteq Nat

VARIABLES
    now,
    tiers,          \* [shop, min, price, target, starts, ends]
    voucher,        \* per code, its row or NoRow
    takers,         \* per code, the <<checkout, shop>> whose order carries it
    done,           \* checkouts whose orders exist
    req             \* per slot, what its handler has decided

vars == <<now, tiers, voucher, takers, done, req>>

NoRow == [form |-> NoCode, used |-> 0, deleted |-> FALSE]
Live(row) == row.form # NoCode /\ ~row.deleted

Idle == [op |-> "idle", c |-> NoCode, v |-> NoCode, row |-> NoRow, bills |-> {}]

Init ==
    /\ now = 0
    /\ tiers = {}
    /\ voucher = [v \in Vouchers |-> NoRow]
    /\ takers = [v \in Vouchers |-> {}]
    /\ done = {}
    /\ req = [s \in Slots |-> Idle]

-----------------------------------------------------------------------------
(* The admin.                                                              *)

SaveTier(t) ==
    /\ Cardinality(tiers) < MaxTiers
    /\ tiers' = tiers \union {t}
    /\ UNCHANGED <<now, voucher, takers, done, req>>

DeleteTier(t) ==
    /\ t \in tiers
    /\ tiers' = tiers \ {t}
    /\ UNCHANGED <<now, voucher, takers, done, req>>

\* The unique index on code also covers deleted rows.
CreateVoucher(v, form) ==
    /\ voucher[v] = NoRow
    /\ voucher' = [voucher EXCEPT ![v] = [form |-> form, used |-> 0, deleted |-> FALSE]]
    /\ UNCHANGED <<now, tiers, takers, done, req>>

DeleteVoucher(v) ==
    /\ v \in Edited /\ Live(voucher[v])
    /\ voucher' = [voucher EXCEPT ![v].deleted = TRUE]
    /\ UNCHANGED <<now, tiers, takers, done, req>>

\* Reads the row, used_count with it, and overwrites the fields of the form.
BeginEdit(s, v, form) ==
    /\ v \in Edited /\ Live(voucher[v])
    /\ req[s] = Idle
    /\ req' = [req EXCEPT ![s] =
         [Idle EXCEPT !.op = "edit", !.v = v, !.row = [voucher[v] EXCEPT !.form = form]]]
    /\ UNCHANGED <<now, tiers, voucher, takers, done>>

\* Save writes every column; a row deleted meanwhile is inserted again.
CommitEdit(s) ==
    /\ req[s].op = "edit"
    /\ voucher' = [voucher EXCEPT ![req[s].v] = req[s].row]
    /\ req' = [req EXCEPT ![s] = Idle]
    /\ UNCHANGED <<now, tiers, takers, done>>

-----------------------------------------------------------------------------
(* Checkout.                                                               *)

\* The query asks for `deleted_at IS NULL`; it fails if there is no such
\* column, and the line then costs the normal price.
TiersRead(shop) ==
    IF "deleted_at" \in TierColumns THEN {t \in tiers : t.shop = shop} ELSE {}

Subtotal(shop, qty) == LinePrice(TiersRead(shop), qty, Base[shop], now)

cocokTempat_Any(row, shop) == TRUE
cocokTempat(row, shop) == row.form.shop = shop

BelowLimit_OneMore(row) == row.form.limit > 0 => row.used <= row.form.limit
BelowLimit(row) == row.form.limit > 0 => row.used < row.form.limit

InTime(form) ==
    /\ form.starts = Never \/ form.starts <= now
    /\ form.ends = Never \/ form.ends >= now

\* What ApplyOnCheckout asks of the row it reads.
Usable(row, subtotal, shop) ==
    /\ Live(row)
    /\ cocokTempat(row, shop)
    /\ row.form.active
    /\ InTime(row.form)
    /\ BelowLimit(row)
    /\ subtotal >= row.form.min

Discount(v, subtotal) ==
    IF v = NoCode THEN 0 ELSE ComputeVoucherDiscount(voucher[v].form, subtotal)

Bill(shop, qty, v) ==
    LET sub == Subtotal(shop, qty)  off == Discount(v, sub) IN
    [shop |-> shop, qty |-> qty, code |-> v, subtotal |-> sub, discount |-> off,
     total |-> OrderTotal(sub, off, Shipping[shop])]

\* What the cart asks of a code before the checkout: the cart's sum at one shop,
\* and the checks of Validate, which counts nothing.
CartSubtotal(cart, location) ==
    IF location \in DOMAIN cart THEN Subtotal(location, cart[location]) ELSE 0
Validates_NoLimit(row, subtotal, location) ==
    /\ Live(row) /\ cocokTempat(row, location) /\ row.form.active
    /\ ~(row.form.starts # Never /\ row.form.starts > now)
    /\ ~(row.form.ends # Never /\ row.form.ends < now)
    /\ ~(subtotal < row.form.min)
Validates(row, subtotal, location) ==
    /\ Live(row) /\ cocokTempat(row, location) /\ row.form.active
    /\ ~(row.form.starts # Never /\ row.form.starts > now)
    /\ ~(row.form.ends # Never /\ row.form.ends < now)
    /\ ~(row.form.limit > 0 /\ row.used >= row.form.limit)
    /\ ~(subtotal < row.form.min)
Quote(v, subtotal) == ComputeVoucherDiscount(voucher[v].form, subtotal)

\* One order per shop; any shop that fails rolls the whole checkout back.
BeginCheckout(s, c, cart, codes) ==
    /\ req[s] = Idle
    /\ c \notin done
    /\ \A t \in Slots : req[t].c # c
    /\ \A shop \in DOMAIN cart :
         LET sub == Subtotal(shop, cart[shop]) IN
         /\ sub >= MinOrder[shop]
         /\ codes[shop] # NoCode => Usable(voucher[codes[shop]], sub, shop)
    /\ req' = [req EXCEPT ![s] =
         [Idle EXCEPT !.op = "checkout", !.c = c,
             !.bills = {Bill(shop, cart[shop], codes[shop]) : shop \in DOMAIN cart}]]
    /\ UNCHANGED <<now, tiers, voucher, takers, done>>

Uses(B, v) == Cardinality({b \in B : b.code = v})

\* used_count + 1, on the row as it is then; a deleted row is not touched.
Counted_Down(B) == [v \in Vouchers |-> [voucher[v] EXCEPT !.used = @ - Uses(B, v)]]
Counted(B) ==
    [v \in Vouchers |->
        IF voucher[v].deleted THEN voucher[v]
        ELSE [voucher[v] EXCEPT !.used = @ + Uses(B, v)]]

CommitCheckout(s) ==
    LET B == req[s].bills IN
    /\ req[s].op = "checkout"
    /\ voucher' = Counted(B)
    /\ takers' = [v \in Vouchers |->
         takers[v] \union {<<req[s].c, b.shop>> : b \in {x \in B : x.code = v}}]
    /\ done' = done \union {req[s].c}
    /\ req' = [req EXCEPT ![s] = Idle]
    /\ UNCHANGED <<now, tiers>>

\* The stock ran out, the database refused or the process died: the
\* increments were made in the transaction and go with it.
RolledBack_Kept(s) == Counted(req[s].bills)
RolledBack(s) == voucher

Abandon(s) ==
    /\ req[s] # Idle
    /\ voucher' = RolledBack(s)
    /\ req' = [req EXCEPT ![s] = Idle]
    /\ UNCHANGED <<now, tiers, takers, done>>

Tick ==
    /\ now < LastTime
    /\ now' = now + 1
    /\ UNCHANGED <<tiers, voucher, takers, done, req>>

-----------------------------------------------------------------------------
AdminStep ==
    \/ \E t \in Tiers : SaveTier(t) \/ DeleteTier(t)
    \/ \E v \in Vouchers : \/ \E form \in Forms[v] : CreateVoucher(v, form)
                           \/ DeleteVoucher(v)
    \/ \E s \in Slots, v \in Vouchers : \E form \in Forms[v] : BeginEdit(s, v, form)
    \/ \E s \in Slots : CommitEdit(s)

CustomerStep ==
    \/ \E s \in Slots, c \in Checkouts, cart \in Carts :
         \E codes \in [DOMAIN cart -> Vouchers \union {NoCode}] : BeginCheckout(s, c, cart, codes)
    \/ \E s \in Slots : CommitCheckout(s) \/ Abandon(s)

Next == AdminStep \/ CustomerStep \/ Tick

Spec == Init /\ [][Next]_vars
-----------------------------------------------------------------------------
(* Properties.                                                             *)

TypeOK ==
    /\ now \in 0..LastTime
    /\ tiers \subseteq Tiers
    /\ \A v \in Vouchers : /\ voucher[v].form \in Forms[v] \union {NoCode}
                           /\ voucher[v].used \in Nat
                           /\ voucher[v].deleted \in BOOLEAN
                           /\ takers[v] \subseteq done \X Shops
    /\ done \subseteq Checkouts
    /\ \A s \in Slots : req[s].op \in {"idle", "edit", "checkout"}

\* used_count never runs ahead of the orders that carry the code, whatever
\* rolls back, is deleted, or is saved from a stale row.
NeverOvercounted == \A v \in Vouchers : voucher[v].used <= Cardinality(takers[v])

\* Both shops of a checkout never spend the same code: a voucher belongs to
\* one shop, even if the admin moves it while the checkout runs.
OncePerCheckout ==
    \A v \in Vouchers : \A x, y \in takers[v] : x[1] = y[1] => x = y

\* Every use that is counted is an order of its own checkout.
CountsAddUp == NeverOvercounted /\ OncePerCheckout

\* A voucher nobody edits is used at most as often as its limit says, plus
\* once for each other handler that read it before the last use.
OverrunBounded ==
    \A v \in Vouchers \ Edited :
        (voucher[v] # NoRow /\ voucher[v].form.limit > 0) =>
            Cardinality(takers[v]) <= voucher[v].form.limit + Cardinality(Slots) - 1

OfShop(shop) == {t \in tiers : t.shop = shop}

\* Bulk prices never make a customer pay more than the normal price.
NeverDearer ==
    \A shop \in Shops : \A q \in Quantities :
        LinePrice(OfShop(shop), q, Base[shop], now) <= Plain(q, Base[shop])

\* The shop's rule: "2 for 33" makes 3 cost 33 and one single, 4 cost 66.
PackRule ==
    \A t \in tiers : \A q \in Quantities :
        LET Pay[n \in 0..q] ==
                IF n < t.min THEN n * Base[t.shop] ELSE t.min * t.price + Pay[n - t.min]
        IN  t.min > 0 => InPacks(t, q, Base[t.shop]) = Round(Pay[q])

\* "3 for 10.000" is stored per piece, in hundredths; every pack still costs
\* 10.000 and not a rupiah less or more.
QuotedPacksExact ==
    \A t \in tiers : \A quote \in {10000, 29000} : \A k \in Quantities :
        LET each == (2 * quote * Rupiah + t.min) \div (2 * t.min) IN
        InPacks([t EXCEPT !.price = each], k * t.min, 0) = k * quote * Rupiah

\* With one tier, what is bought together never costs more than bought in two
\* goes, but for the rupiah that rounding moves.
TogetherNotDearer ==
    \A t \in tiers : \A q, r \in Quantities :
        LET Pay(n) == LinePrice({t}, n, Base[t.shop], now) IN
        Pay(q + r) <= Pay(q) + Pay(r) + Rupiah

\* A tier announced "from the a-th until the b-th" is in force on exactly those
\* days, the last one to its end.
LastDayCounts ==
    \A a, b \in 0..DayOf(LastTime) :
        tierSedangBerlaku([starts |-> parseJadwalTier(a, FALSE),
                           ends |-> parseJadwalTier(b, TRUE)], now)
            <=> DayOf(now) \in a..b

\* What the cart is told of a code is what a checkout at that moment does with
\* it: the same carts may use it, for the same money.
QuoteHonoured ==
    \A v \in Vouchers : \A cart \in Carts : \A shop \in DOMAIN cart :
        LET told == CartSubtotal(cart, shop)
            bill == Bill(shop, cart[shop], v)
        IN /\ Validates(voucher[v], told, shop) <=> Usable(voucher[v], bill.subtotal, shop)
           /\ Usable(voucher[v], bill.subtotal, shop) => Quote(v, told) = bill.discount

\* Prices are the ones announced: bulk prices to the rupiah and the day, a
\* code's discount to what the cart was told.
PricesAsAnnounced ==
    PackRule /\ QuotedPacksExact /\ TogetherNotDearer /\ LastDayCounts /\ QuoteHonoured

\* A checkout charges the bulk price the shop has set.
TierCharged ==
    [][\A s \in Slots : \A b \in req'[s].bills \ req[s].bills :
         b.subtotal = LinePrice(OfShop(b.shop), b.qty, Base[b.shop], now)]_vars
=============================================================================
