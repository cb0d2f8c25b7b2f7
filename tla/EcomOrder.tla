----------------------------- MODULE EcomOrder -----------------------------
(***************************************************************************)
(* The life of a storefront order and of the stock it holds.               *)
(*                                                                         *)
(* A checkout reserves stock for one order per store, all of them paid by  *)
(* one payment.  From then on ten HTTP handlers, two webhooks and two cron *)
(* jobs write the same order rows and the same products.stock column.      *)
(* Almost every one of them first reads the order (outside any             *)
(* transaction), decides, and writes later; the database serialises the    *)
(* writes and nothing re-checks the decision.  So a handler is two         *)
(* actions here: Begin... reads and decides, Commit... writes what was     *)
(* decided.  A slot holds what one running handler has decided.            *)
(*                                                                         *)
(* A definition X_Y just above X is X with a bug Y this code could have    *)
(* (or once had); it is used by no action, only to test the properties.    *)
(***************************************************************************)
EXTENDS Integers, FiniteSets

CONSTANTS
    Orders,         \* orders that may be created
    Groups,         \* checkout groups: one payment each
    Group,          \* [Orders -> Groups], orders.checkout_group_id
    Products,
    Qty,            \* [Orders -> [Products -> Nat]], the order_items rows
    InitStock,      \* [Products -> Nat]
    Http,           \* slots in which HTTP handlers run
    Cron,           \* the slot of the expire-unpaid goroutine
    PgEnabled,      \* ecom_settings.payment_pg_enabled of the home row
    BiteshipReady,  \* the courier client can create orders
    Attempts,       \* bound: which of a group's payments, "first" and "retry"
    MaxReturns,     \* bound: times the stock of one order is given back
    MaxBookings,    \* bound: courier bookings of one order
    MayLose         \* bound: products on which a statement may fail unseen

Slots == Http \union {Cron}

ASSUME ConstAssumption ==
    /\ Group \in [Orders -> Groups]
    /\ Qty \in [Orders -> [Products -> Nat]]
    /\ InitStock \in [Products -> Nat]
    /\ PgEnabled \in BOOLEAN /\ BiteshipReady \in BOOLEAN
    /\ Attempts \subseteq {"first", "retry"}
    /\ MaxReturns \in Nat /\ MaxBookings \in Nat
    /\ MayLose \subseteq Products

\* A product is sold by one store and a checkout makes one order per store,
\* so two orders of one group never hold the same product.
ASSUME OneStorePerProduct ==
    \A o1, o2 \in Orders : \A p \in Products :
        (o1 # o2 /\ Group[o1] = Group[o2]) => (Qty[o1][p] = 0 \/ Qty[o2][p] = 0)

\* A cart holds lines of finitely many stores.
ASSUME FiniteGroups == \A g \in Groups : IsFiniteSet({o \in Orders : Group[o] = g})

VARIABLES
    stock,      \* products.stock
    ledger,     \* per product, the signed sum of its stock_movements rows
    ecom,       \* orders.ecom_status, "none" before the row exists
    status,     \* orders.status, what the reports filter on
    proof,      \* orders with a payment_proof
    aged,       \* orders created more than ecomUnpaidTTL ago
    ripe,       \* orders whose ecom_delivered_at is seven days old
    returned,   \* per order, the times all its goods went back to the shelf
    slipped,    \* history: products whose shelf moved without its row, or
                \* the row without the shelf
    links,      \* payment transactions the gateway knows
    notif,      \* outcomes the gateway has reported or will report
    unmatched,  \* transactions whose notification was answered 404
    resi,       \* orders with a biteship_order_id
    bookings,   \* per order, courier bookings that exist at Biteship
    req         \* per slot, what its handler has decided to write

stockVars == <<stock, ledger, returned, slipped>>
rowVars   == <<ecom, status>>
timeVars  == <<aged, ripe>>
pgVars    == <<links, notif, unmatched>>
shipVars  == <<resi, bookings>>
vars == <<stockVars, rowVars, proof, timeVars, pgVars, shipVars, req>>

EcomStatus == {"pending_payment", "paid", "processing", "shipped",
               "delivered", "completed", "cancelled", "expired"}
PosStatus  == {"pending", "completed", "cancelled"}
PgStatus   == {"SUCCESS", "FAILED", "VOIDED"}
Courier    == {"confirmed", "picked", "delivered", "return_in_transit", "returned"}

\* The first payment of a group carries the group id; the one made by
\* RetryPayment carries that id with a suffix.
Trx == Groups \X Attempts

Ops == {"idle", "checkout", "customerCancel", "proof", "retry", "sync",
        "pg", "admin", "resi", "book", "courier", "courierSave",
        "courierSync", "confirm", "expire"}

Request == [op : Ops, orders : SUBSET Orders, to : EcomStatus \union {"none"}]
Idle == [op |-> "idle", orders |-> {}, to |-> "none"]

TypeOK ==
    /\ stock \in [Products -> Int]
    /\ ledger \in [Products -> Int]
    /\ returned \in [Orders -> Nat]
    /\ slipped \subseteq Products
    /\ ecom \in [Orders -> EcomStatus \union {"none"}]
    /\ status \in [Orders -> PosStatus]
    /\ proof \subseteq Orders
    /\ aged \subseteq Orders
    /\ ripe \subseteq Orders
    /\ links \subseteq Trx
    /\ notif \subseteq Trx \X PgStatus
    /\ unmatched \subseteq Trx
    /\ resi \subseteq Orders
    /\ bookings \in [Orders -> Nat]
    /\ req \in [Slots -> Request]

Init ==
    /\ stock = InitStock
    /\ ledger = [p \in Products |-> 0]
    /\ returned = [o \in Orders |-> 0]
    /\ slipped = {}
    /\ ecom = [o \in Orders |-> "none"]
    /\ status = [o \in Orders |-> "pending"]
    /\ proof = {} /\ aged = {} /\ ripe = {}
    /\ links = {} /\ notif = {} /\ unmatched = {}
    /\ resi = {}
    /\ bookings = [o \in Orders |-> 0]
    /\ req = [s \in Slots |-> Idle]

-----------------------------------------------------------------------------
(* What the handlers share.                                                *)

OrdersOf(g) == {o \in Orders : Group[o] = g}

\* Orders a group-wide UPDATE ... WHERE ecom_status = 'pending_payment' hits.
PendingOf(g) == {o \in OrdersOf(g) : ecom[o] = "pending_payment"}

Begin(s, op, S, to) ==
    /\ req[s] = Idle
    /\ req' = [req EXCEPT ![s] = [op |-> op, orders |-> S, to |-> to]]

Running(s, op) == req[s].op = op
Done(s) == req' = [req EXCEPT ![s] = Idle]

\* Units of p that the orders of S, all of one checkout, hold together.
Units(S, p) ==
    IF \E o \in S : Qty[o][p] > 0
    THEN LET o == CHOOSE x \in S : Qty[x][p] > 0 IN Qty[o][p]
    ELSE 0

SetStatus(S, e) == ecom' = [o \in Orders |-> IF o \in S THEN e ELSE ecom[o]]
SetPos(S, e) == status' = [o \in Orders |-> IF o \in S THEN e ELSE status[o]]

\* restoreStockForCancelled and the copies of its loop: every item goes back
\* to the shelf and leaves a movement row.
MovementIn_Silent(S) == ledger' = ledger
MovementIn(S) == ledger' = [p \in Products |-> ledger[p] + Units(S, p)]
Restock(S) ==
    /\ \A o \in S : returned[o] < MaxReturns
    /\ stock' = [p \in Products |-> stock[p] + Units(S, p)]
    /\ MovementIn(S)
    /\ returned' = [o \in Orders |-> IF o \in S THEN returned[o] + 1 ELSE returned[o]]
    /\ UNCHANGED slipped

\* All of o's goods are among the products of P.
AllAmong(o, P) == \A p \in Products : Qty[o][p] > 0 => p \in P

\* The same loop as the gateway's webhook has it: neither the read of the items
\* nor the two statements of an item are looked at, so those that fail are
\* skipped and the rest is committed.  The shelf moves for the products of
\* `moved`, the rows are written for those of `logged`.
RestockUnchecked(S) ==
    \E moved, logged \in SUBSET Products :
      LET held == {p \in Products : Units(S, p) > 0}
          apart == held \cap ((moved \ logged) \union (logged \ moved)) IN
      /\ held \ (moved \cap logged) \subseteq MayLose
      /\ apart \cap slipped = {}
      /\ \A o \in S : returned[o] < MaxReturns
      /\ stock' = [p \in Products |-> IF p \in moved THEN stock[p] + Units(S, p) ELSE stock[p]]
      /\ ledger' = [p \in Products |-> IF p \in logged THEN ledger[p] + Units(S, p) ELSE ledger[p]]
      /\ returned' = [o \in Orders |->
                        IF o \in S /\ AllAmong(o, moved) THEN returned[o] + 1 ELSE returned[o]]
      /\ slipped' = slipped \union apart

-----------------------------------------------------------------------------
(* Checkout: one transaction over both stores.                             *)

\* `ln.Quantity > p.Stock`, on the row as first read.
SeemsAvailable(S) == \A o \in S : \A p \in Products : Qty[o][p] <= stock[p]

\* `WHERE stock >= ?` of the decrements: one that touches no row rolls the
\* orders of both stores back.
Reservable_Unguarded(S) == S
Reservable_SkipShort(S) == {o \in S : \A p \in Products : stock[p] >= Qty[o][p]}
Reservable(S) ==
    IF \A o \in S : \A p \in Products : stock[p] >= Qty[o][p] THEN S ELSE {}

BeginCheckout(s, g) ==
    /\ OrdersOf(g) # {}
    /\ \A o \in OrdersOf(g) : ecom[o] = "none"
    /\ \A t \in Slots : ~(Running(t, "checkout") /\ req[t].orders = OrdersOf(g))
    /\ SeemsAvailable(OrdersOf(g))
    /\ Begin(s, "checkout", OrdersOf(g), "pending_payment")
    /\ UNCHANGED <<stockVars, rowVars, proof, timeVars, pgVars, shipVars>>

\* The link, if the gateway made one; its failure falls back to transfer.
CreatePayment(S) ==
    \/ UNCHANGED links
    \/ /\ PgEnabled /\ "first" \in Attempts
       /\ links' = links \union {<<Group[o], "first">> : o \in S}

CommitCheckout(s) ==
    LET S == Reservable(req[s].orders) IN
    /\ Running(s, "checkout")
    /\ S # {}
    /\ stock' = [p \in Products |-> stock[p] - Units(S, p)]
    /\ ledger' = [p \in Products |-> ledger[p] - Units(S, p)]
    /\ SetStatus(S, "pending_payment")
    /\ SetPos(S, "pending")
    /\ CreatePayment(S)
    /\ Done(s)
    /\ UNCHANGED <<returned, slipped, proof, timeVars, notif, unmatched, shipVars>>

-----------------------------------------------------------------------------
(* The customer.                                                           *)

BeginCustomerCancel(s, o) ==
    /\ ecom[o] = "pending_payment"
    /\ Begin(s, "customerCancel", {o}, "cancelled")
    /\ UNCHANGED <<stockVars, rowVars, proof, timeVars, pgVars, shipVars>>

CommitCustomerCancel(s) ==
    /\ Running(s, "customerCancel")
    /\ Restock(req[s].orders)
    /\ SetStatus(req[s].orders, "cancelled")
    /\ SetPos(req[s].orders, "cancelled")
    /\ Done(s)
    /\ UNCHANGED <<proof, timeVars, pgVars, shipVars>>

BeginProof(s, o) ==
    /\ ecom[o] = "pending_payment"
    /\ Begin(s, "proof", {o}, "none")
    /\ UNCHANGED <<stockVars, rowVars, proof, timeVars, pgVars, shipVars>>

\* One transfer closes the whole checkout, so its proof is attached to every
\* order of the group that still waits for payment.
ProofTargets_OwnOrder(o) == {o} \intersect PendingOf(Group[o])
ProofTargets(o) == PendingOf(Group[o])

CommitProof(s) ==
    /\ Running(s, "proof")
    /\ proof' = proof \union UNION {ProofTargets(o) : o \in req[s].orders}
    /\ Done(s)
    /\ UNCHANGED <<stockVars, rowVars, timeVars, pgVars, shipVars>>

\* Shipped or delivered; the customer says the goods arrived.
BeginConfirmReceived(s, o) ==
    /\ ecom[o] \in {"shipped", "delivered"}
    /\ Begin(s, "confirm", {o}, "completed")
    /\ UNCHANGED <<stockVars, rowVars, proof, timeVars, pgVars, shipVars>>

CommitConfirmReceived(s) ==
    /\ Running(s, "confirm")
    /\ SetStatus(req[s].orders, "completed")
    /\ SetPos(req[s].orders, "completed")
    /\ Done(s)
    /\ UNCHANGED <<stockVars, proof, timeVars, pgVars, shipVars>>

-----------------------------------------------------------------------------
(* The payment gateway and what reads it.                                  *)

\* External: what the customer does on the pay page.  An attempt can fail and
\* a later one succeed; a success can be voided; a paid link stays paid.
GatewayOutcome(t, e) ==
    /\ t \in links
    /\ <<t, e>> \notin notif
    /\ \/ e \in {"SUCCESS", "FAILED"} /\ <<t, "SUCCESS">> \notin notif
       \/ e = "VOIDED" /\ <<t, "SUCCESS">> \in notif
    /\ notif' = notif \union {<<t, e>>}
    /\ UNCHANGED <<stockVars, rowVars, proof, timeVars, links, unmatched, shipVars, req>>

\* CheckStatus, always asked with the id of the first payment.
PgSaysPaid(g) ==
    LET t == <<g, "first">> IN <<t, "SUCCESS">> \in notif /\ <<t, "VOIDED">> \notin notif

PgTarget(e) == IF e = "SUCCESS" THEN "paid" ELSE "cancelled"

\* Idempotency per order: the ones already in the target status are skipped.
PgTodo(g, e) == {o \in OrdersOf(g) : ecom[o] \notin {"none", PgTarget(e)}}

\* A notification is delivered at any time, any number of times.  Only the
\* group id (or an order id) finds orders; anything else is a 404.
BeginPgNotification(s, t, e) ==
    /\ <<t, e>> \in notif
    /\ \/ /\ t[2] = "first"
          /\ PgTodo(t[1], e) # {}
          /\ Begin(s, "pg", PgTodo(t[1], e), PgTarget(e))
          /\ UNCHANGED unmatched
       \/ /\ t[2] = "retry"
          /\ unmatched' = unmatched \union {t}
          /\ UNCHANGED req
    /\ UNCHANGED <<stockVars, rowVars, proof, timeVars, links, notif, shipVars>>

\* A failed payment writes ecom_status only: orders.status keeps its value.
\* Only the error of that UPDATE rolls back (Abandon).
CommitPgNotification(s) ==
    LET S == req[s].orders IN
    /\ Running(s, "pg")
    /\ SetStatus(S, req[s].to)
    /\ \/ /\ req[s].to = "paid"
          /\ SetPos(S, "completed")
          /\ UNCHANGED stockVars
       \/ /\ req[s].to = "cancelled"
          /\ RestockUnchecked(S)
          /\ UNCHANGED status
    /\ Done(s)
    /\ UNCHANGED <<proof, timeVars, pgVars, shipVars>>

\* List, GetDetail and RetryPayment ask the gateway about a pending order.
BeginSync(s, o) ==
    /\ ecom[o] = "pending_payment"
    /\ PgSaysPaid(Group[o])
    /\ Begin(s, "sync", {o}, "paid")
    /\ UNCHANGED <<stockVars, rowVars, proof, timeVars, pgVars, shipVars>>

\* The orders the UPDATE of the sync touches: the WHERE clause re-checks.
SyncTargets_OwnOrder(o) == {o} \intersect PendingOf(Group[o])
SyncTargets_Unguarded(o) == OrdersOf(Group[o])
SyncTargets(o) == PendingOf(Group[o])

CommitSync(s) ==
    LET S == UNION {SyncTargets(o) : o \in req[s].orders} IN
    /\ Running(s, "sync")
    /\ SetStatus(S, "paid")
    /\ SetPos(S, "completed")
    /\ Done(s)
    /\ UNCHANGED <<stockVars, proof, timeVars, pgVars, shipVars>>

\* RetryPayment, when the gateway does not say PAID.
BeginRetry(s, o) ==
    /\ PgEnabled /\ "retry" \in Attempts
    /\ ecom[o] = "pending_payment"
    /\ ~PgSaysPaid(Group[o])
    /\ Begin(s, "retry", {o}, "none")
    /\ UNCHANGED <<stockVars, rowVars, proof, timeVars, pgVars, shipVars>>

CommitRetry(s) ==
    /\ Running(s, "retry") /\ "retry" \in Attempts
    /\ links' = links \union {<<Group[o], "retry">> : o \in req[s].orders}
    /\ Done(s)
    /\ UNCHANGED <<stockVars, rowVars, proof, timeVars, notif, unmatched, shipVars>>

-----------------------------------------------------------------------------
(* The admin panel.                                                        *)

Allowed ==
    [pending_payment |-> {"paid", "cancelled", "expired"},
     paid            |-> {"processing", "shipped", "cancelled"},
     processing      |-> {"shipped", "cancelled"},
     shipped         |-> {"delivered", "completed", "cancelled"},
     delivered       |-> {"completed", "cancelled"},
     completed       |-> {},
     cancelled       |-> {},
     expired         |-> {}]

IsValidTransition(from, to) == from \in EcomStatus /\ to \in Allowed[from]

BeginUpdateStatus(s, o, to) ==
    /\ IsValidTransition(ecom[o], to)
    /\ Begin(s, "admin", {o}, to)
    /\ UNCHANGED <<stockVars, rowVars, proof, timeVars, pgVars, shipVars>>

\* orders.status follows: cancelled and expired leave the revenue, paid and
\* completed enter it, the rest keep it.
PosAfter_KeepOnCancel(o, to) ==
    IF to \in {"paid", "completed"} THEN "completed" ELSE status[o]
PosAfter_KeepOnPaid(o, to) ==
    IF to \in {"cancelled", "expired"} THEN "cancelled" ELSE status[o]
PosAfter(o, to) ==
    CASE to \in {"cancelled", "expired"} -> "cancelled"
      [] to \in {"paid", "completed"}    -> "completed"
      [] OTHER                           -> status[o]

\* The statuses whose transition gives the stock back.
Releases_CancelOnly(to) == to = "cancelled"
Releases(to) == to \in {"cancelled", "expired"}

CommitUpdateStatus(s) ==
    LET S == req[s].orders  to == req[s].to IN
    /\ Running(s, "admin")
    /\ SetStatus(S, to)
    /\ status' = [o \in Orders |-> IF o \in S THEN PosAfter(o, to) ELSE status[o]]
    /\ IF Releases(to) THEN Restock(S) ELSE UNCHANGED stockVars
    /\ ripe' = IF to = "delivered" THEN ripe \ S ELSE ripe
    /\ Done(s)
    /\ UNCHANGED <<proof, aged, pgVars, shipVars>>

BeginSetShipping(s, o) ==
    /\ ecom[o] \in {"paid", "processing", "shipped"}
    /\ Begin(s, "resi", {o}, "shipped")
    /\ UNCHANGED <<stockVars, rowVars, proof, timeVars, pgVars, shipVars>>

CommitSetShipping(s) ==
    /\ Running(s, "resi")
    /\ SetStatus(req[s].orders, "shipped")
    /\ Done(s)
    /\ UNCHANGED <<stockVars, status, proof, timeVars, pgVars, shipVars>>

-----------------------------------------------------------------------------
(* The courier (Biteship).                                                 *)

\* No booking for an order that carries one already.
Unbooked(o) == o \notin resi

\* Checks the row, then books at Biteship; the id is saved afterwards.
BeginBooking(s, o) ==
    /\ BiteshipReady
    /\ ecom[o] \in {"paid", "processing"}
    /\ Unbooked(o)
    /\ bookings[o] < MaxBookings
    /\ bookings' = [bookings EXCEPT ![o] = @ + 1]
    /\ Begin(s, "book", {o}, "processing")
    /\ UNCHANGED <<stockVars, rowVars, proof, timeVars, pgVars, resi>>

CommitBooking(s) ==
    /\ Running(s, "book")
    /\ resi' = resi \union req[s].orders
    /\ SetStatus(req[s].orders, "processing")
    /\ Done(s)
    /\ UNCHANGED <<stockVars, status, proof, timeVars, pgVars, bookings>>

\* The status a courier event moves the order to, "none" to leave it.
MapBiteshipStatus_Reopens(b, current) ==
    IF current = "cancelled" THEN "none"
    ELSE CASE b = "confirmed" -> IF current = "paid" THEN "processing" ELSE "none"
           [] b = "picked"    -> "shipped"
           [] b = "delivered" -> "delivered"
           [] b = "returned"  -> "cancelled"
           [] OTHER           -> "none"
MapBiteshipStatus_Raw(b, current) ==
    IF current \in {"completed", "cancelled"} THEN "none" ELSE b
MapBiteshipStatus(b, current) ==
    IF current \in {"completed", "cancelled"} THEN "none"
    ELSE CASE b = "confirmed" -> IF current = "paid" THEN "processing" ELSE "none"
           [] b = "picked"    -> "shipped"
           [] b = "delivered" -> "delivered"
           [] b = "returned"  -> "cancelled"
           [] OTHER           -> "none"

\* The webhook, found by biteship_order_id or by reference_id.  Events arrive
\* late, twice and out of order.
BeginBiteshipWebhook(s, o, b) ==
    LET to == MapBiteshipStatus(b, ecom[o]) IN
    /\ bookings[o] > 0
    /\ to # "none"
    /\ Begin(s, "courier", {o}, to)
    /\ UNCHANGED <<stockVars, rowVars, proof, timeVars, pgVars, shipVars>>

\* A cancelled, returned or disposed parcel gives its stock back in a
\* transaction of its own, before the row is written.
BiteshipRestock(s) ==
    /\ Running(s, "courier") /\ req[s].to = "cancelled"
    /\ Restock(req[s].orders)
    /\ req' = [req EXCEPT ![s].op = "courierSave"]
    /\ UNCHANGED <<rowVars, proof, timeVars, pgVars, shipVars>>

CommitBiteshipWebhook(s) ==
    LET S == req[s].orders  to == req[s].to IN
    /\ \/ Running(s, "courier") /\ to # "cancelled"
       \/ Running(s, "courierSave")
    /\ SetStatus(S, to)
    /\ IF to = "cancelled" THEN SetPos(S, "cancelled") ELSE UNCHANGED status
    /\ ripe' = IF to = "delivered" THEN ripe \ S ELSE ripe
    /\ Done(s)
    /\ UNCHANGED <<stockVars, proof, aged, pgVars, shipVars>>

\* The admin's "Sync dari Biteship": same mapping, one UPDATE.
BeginSyncBiteship(s, o, b) ==
    LET to == MapBiteshipStatus(b, ecom[o]) IN
    /\ o \in resi
    /\ to \notin {"none", ecom[o]}
    /\ Begin(s, "courierSync", {o}, to)
    /\ UNCHANGED <<stockVars, rowVars, proof, timeVars, pgVars, shipVars>>

CommitSyncBiteship(s) ==
    LET S == req[s].orders  to == req[s].to IN
    /\ Running(s, "courierSync")
    /\ SetStatus(S, to)
    /\ ripe' = IF to = "delivered" THEN ripe \ S ELSE ripe
    /\ Done(s)
    /\ UNCHANGED <<stockVars, status, proof, aged, pgVars, shipVars>>

-----------------------------------------------------------------------------
(* Cron jobs and time.                                                     *)

\* What the scan selects and the re-check inside the transaction confirms.
Expirable_OnlyProven(o) == ecom[o] = "pending_payment" /\ o \in proof
Expirable(o) == ecom[o] = "pending_payment" /\ o \notin proof

BeginExpire(o) ==
    /\ o \in aged
    /\ Expirable(o)
    /\ Begin(Cron, "expire", {o}, "expired")
    /\ UNCHANGED <<stockVars, rowVars, proof, timeVars, pgVars, shipVars>>

\* The re-check was a plain SELECT and this UPDATE has only the id in its
\* WHERE clause.
CommitExpire(s) ==
    /\ Running(s, "expire")
    /\ Restock(req[s].orders)
    /\ SetStatus(req[s].orders, "expired")
    /\ SetPos(req[s].orders, "cancelled")
    /\ Done(s)
    /\ UNCHANGED <<proof, timeVars, pgVars, shipVars>>

\* One UPDATE that carries its own condition.
AutoCompletable_Shipped == {o \in ripe : ecom[o] = "shipped"}
AutoCompletable == {o \in ripe : ecom[o] = "delivered"}

AutoComplete ==
    /\ AutoCompletable # {}
    /\ SetPos(AutoCompletable, "completed")
    /\ SetStatus(AutoCompletable, "completed")
    /\ UNCHANGED <<stockVars, proof, timeVars, pgVars, shipVars, req>>

\* 24 hours pass since created_at; only of interest while unpaid.
Age(o) ==
    /\ ecom[o] = "pending_payment" /\ o \notin aged
    /\ aged' = aged \union {o}
    /\ UNCHANGED <<stockVars, rowVars, proof, ripe, pgVars, shipVars, req>>

\* Seven days pass since ecom_delivered_at.
Ripen(o) ==
    /\ ecom[o] = "delivered" /\ o \notin ripe
    /\ ripe' = ripe \union {o}
    /\ UNCHANGED <<stockVars, rowVars, proof, aged, pgVars, shipVars, req>>

\* The handler fails, its transaction rolls back or the process restarts:
\* what it had decided is lost, what it had committed stays.
Abandon(s) ==
    /\ req[s] # Idle
    /\ Done(s)
    /\ UNCHANGED <<stockVars, rowVars, proof, timeVars, pgVars, shipVars>>

-----------------------------------------------------------------------------
CustomerStep(s) ==
    \/ \E g \in Groups : BeginCheckout(s, g)
    \/ \E o \in Orders : BeginCustomerCancel(s, o) \/ BeginProof(s, o)
                            \/ BeginConfirmReceived(s, o)
    \/ CommitCheckout(s) \/ CommitCustomerCancel(s)
    \/ CommitProof(s) \/ CommitConfirmReceived(s)

GatewayStep(s) ==
    \/ \E t \in Trx, e \in PgStatus : BeginPgNotification(s, t, e)
    \/ \E o \in Orders : BeginSync(s, o) \/ BeginRetry(s, o)
    \/ CommitPgNotification(s) \/ CommitSync(s) \/ CommitRetry(s)

AdminStep(s) ==
    \/ \E o \in Orders, to \in EcomStatus : BeginUpdateStatus(s, o, to)
    \/ \E o \in Orders : BeginSetShipping(s, o)
    \/ CommitUpdateStatus(s) \/ CommitSetShipping(s)

CourierStep(s) ==
    \/ \E o \in Orders : BeginBooking(s, o)
    \/ \E o \in Orders, b \in Courier : BeginBiteshipWebhook(s, o, b) \/ BeginSyncBiteship(s, o, b)
    \/ CommitBooking(s) \/ BiteshipRestock(s)
    \/ CommitBiteshipWebhook(s) \/ CommitSyncBiteship(s)

CronStep ==
    \/ \E o \in Orders : BeginExpire(o)
    \/ CommitExpire(Cron)
    \/ AutoComplete

Environment ==
    \/ \E o \in Orders : Age(o) \/ Ripen(o)
    \/ \E t \in Trx, e \in PgStatus : GatewayOutcome(t, e)
    \/ \E s \in Slots : Abandon(s)

Next ==
    \/ \E s \in Http : CustomerStep(s) \/ GatewayStep(s) \/ AdminStep(s) \/ CourierStep(s)
    \/ CronStep
    \/ Environment

Spec == Init /\ [][Next]_vars

\* One handler at a time: none starts while another runs, and no job outside
\* the slots writes between the read and the write of one.
OneAtATime ==
    /\ \A s, t \in Slots : req'[s] # Idle /\ req'[t] # Idle => s = t
    /\ (ecom' # ecom /\ req' = req) => \A s \in Slots : req[s] = Idle

SerialSpec == Init /\ [][Next /\ OneAtATime]_vars

\* Time passes, and the hourly and daily jobs run for ever: every pass starts
\* on each order it selected, and its write succeeds if tried again and again.
Fairness ==
    /\ \A o \in Orders : /\ WF_vars(Age(o)) /\ WF_vars(Ripen(o))
                         /\ SF_vars(BeginExpire(o))
    /\ SF_vars(CommitExpire(Cron))
    /\ WF_vars(AutoComplete)

FairSpec == Spec /\ Fairness

-----------------------------------------------------------------------------
(* Properties.                                                             *)

Sold == {"paid", "processing", "shipped", "delivered", "completed"}
Terminal == {"completed", "cancelled", "expired"}

\* No interleaving of checkouts with each other and with cancellations drives
\* products.stock below zero: the decrement carries `stock >= ?` itself.
StockNonNegative == \A p \in Products : stock[p] >= 0

\* products.stock is what stock_movements adds up to, on every path of this
\* subsystem that touches it: no stock "rises by itself" in the audit tab.  The
\* one exception is a product of a failed or voided payment one of whose two
\* statements failed unseen; it keeps the others exact.
LedgerExact == \A p \in Products \ slipped : stock[p] = InitStock[p] + ledger[p]

\* A checkout over two stores exists as a whole or not at all: half of it
\* is never committed when the other store's goods just sold out.
StoresTogether ==
    \A o1, o2 \in Orders :
        Group[o1] = Group[o2] => (ecom[o1] = "none" <=> ecom[o2] = "none")

\* The transfer's proof covers every unpaid order of its checkout, so the
\* expire job cannot take the other store's order for an unpaid one.
ProofCoversGroup ==
    \A o1, o2 \in Orders :
        /\ Group[o1] = Group[o2] /\ o1 \in proof
        /\ ecom[o2] = "pending_payment"
        => o2 \in proof

\* The orders of one checkout are made together and proven together.
GroupsTogether == StoresTogether /\ ProofCoversGroup

\* This handler records a gateway payment in this step.
PgWrites(s) ==
    /\ req[s].op \in {"pg", "sync"} /\ req[s].to = "paid"
    /\ req'[s] = Idle /\ ecom' # ecom
\* When a gateway payment is recorded, by webhook or by sync, no order of its
\* checkout is left waiting for payment.
PgPaysWholeGroup ==
    [][\A s \in Slots : PgWrites(s) =>
         \A o1 \in req[s].orders : \A o2 \in OrdersOf(Group[o1]) :
            ecom'[o2] # "pending_payment"]_vars

\* The PG sync never overwrites what another handler decided after the sync
\* read the order: only an order still waiting for payment becomes paid.
SyncKeepsDecisions ==
    [][\A s \in Slots : (req[s].op = "sync" /\ req'[s] = Idle) =>
         \A o \in Orders : ecom'[o] # ecom[o] => ecom[o] = "pending_payment"]_vars

\* Requests served one at a time: the stock of a dead order has been given
\* back exactly once and the stock of a live one never.
StockBackExactlyOnce ==
    \A o \in Orders :
        returned[o] = IF ecom[o] \in {"cancelled", "expired"} THEN 1 ELSE 0

\* Requests served one at a time: seen from the shelf, every path through the
\* statuses is one reservation per checkout and at most one release per order.
Held(o) ==
    CASE ecom[o] = "none"                    -> "free"
      [] ecom[o] \in {"cancelled", "expired"} -> "released"
      [] OTHER                               -> "held"
Shelf == INSTANCE Reservation WITH avail <- stock, hold <- [o \in Orders |-> Held(o)]
KeepsReservations == Shelf!Spec

\* Requests served one at a time: every order that was paid for counts as
\* revenue in the reports, which filter on status = 'completed'.
SoldIsRevenue == \A o \in Orders : ecom[o] \in Sold => status[o] = "completed"

\* Requests served one at a time: and nothing else does; a cancelled or
\* unpaid order is not in Arus Kas or Laba Rugi.
RevenueIsSold == \A o \in Orders : status[o] = "completed" => ecom[o] \in Sold
\* Revenue is what was sold, no more and no less.
RevenueExact == SoldIsRevenue /\ RevenueIsSold

\* Requests served one at a time: no panel, courier event, customer or job
\* takes an order out of completed, cancelled or expired; only a notification
\* of the gateway does.
TerminalUnlessGateway ==
    [][\A o \in Orders : (ecom[o] \in Terminal /\ ecom'[o] # ecom[o]) =>
         \E s \in Slots : req[s].op = "pg" /\ o \in req[s].orders]_vars

\* A cancelled order's stock is back on the shelf, whichever panel, webhook or
\* job cancelled it.  Syncing a returned parcel by hand breaks this.
CancelledIsReturned ==
    \A o \in Orders : ecom[o] = "cancelled" => returned[o] >= 1

\* An abandoned checkout does not hold its stock for ever.
ReservationEnds ==
    \A o \in Orders : (ecom[o] = "pending_payment" /\ o \notin proof)
                        ~> (ecom[o] # "pending_payment" \/ o \in proof)

\* A delivered order is closed even if the customer never confirms it.
DeliveredCloses == \A o \in Orders : ecom[o] = "delivered" ~> ecom[o] # "delivered"

\* Neither end of an order's life is left hanging.
OrdersEnd == ReservationEnds /\ DeliveredCloses
=============================================================================
