------------------------------ MODULE PosSale ------------------------------
(***************************************************************************)
(* The cash register: sales at the counter, pending orders, cancellations, *)
(* refunds and member points, on one product, its batches and one member.  *)
(*                                                                         *)
(* A ticket is what a cashier means to sell once.  The till may submit it  *)
(* several times: again with the same client_request_id (double click,     *)
(* lost answer) or with a new one (page refresh).  Create has two defences *)
(* against recording it twice; they and every other decision are read      *)
(* before the transaction that writes, so each handler is Begin... and     *)
(* Commit..., with what it has read kept in its slot.                      *)
(*                                                                         *)
(* A definition X_Y just above X is X with a bug Y this code could have;   *)
(* it is used by no action, only to test the properties.                   *)
(***************************************************************************)
EXTENDS Integers, Sequences, FiniteSets

CONSTANTS
    Tickets,
    Cart,         \* [Tickets -> [units, gift, points, cash, total, reseller]]
    Gifts,        \* redeemable items
    InitStock,    \* products.stock
    InitBatches,  \* stock_batches of the product, oldest first
    InitGifts,    \* redeemable_items.stock of every gift
    InitPoints,   \* members.points
    Http,         \* slots in which handlers run
    Desk,         \* other writers of members.points: "update", "expire"
    Unseen,       \* writes that may fail with nobody looking: "stock",
                  \* "status", "batch"
    MaxReturns,   \* bound: how often one order's units are refunded unsold
    MaxOrders,    \* bound: orders one ticket can become
    MaxClients    \* bound: client_request_ids one ticket is sent with

OrderIds == Tickets \X (1 .. MaxOrders)
ClientIds == Tickets \X (1 .. MaxClients)

\* Units of the product; the gift redeemed ("none": no such line), its price
\* in points; the cash part and the total the till computed, in steps of
\* Rp 50.000; a line sold at a member-specific tier price.
CartType == [units : Nat, gift : Gifts \union {"none"}, points : Nat,
             cash : Nat, total : Nat, reseller : BOOLEAN]

ASSUME RegisterAssumption ==
    /\ Cart \in [Tickets -> CartType]
    /\ \A t \in Tickets : Cart[t].points > 0 <=> Cart[t].gift # "none"
    /\ InitStock \in Nat /\ InitGifts \in Nat /\ InitPoints \in Nat
    /\ InitBatches \in Seq(Nat)
    /\ Desk \subseteq {"update", "expire"}
    /\ Unseen \subseteq {"stock", "status", "batch"}
    /\ MaxReturns \in Nat
    /\ MaxOrders \in Nat /\ MaxClients \in Nat

VARIABLES
    stock,     \* products.stock
    batches,   \* stock_batches.quantity, oldest first
    moves,     \* signed sum of the product's stock_movements rows
    gifts,     \* redeemable_items.stock
    points,    \* members.points
    pointLog,  \* signed sum of the member_point_movements rows
    status,    \* orders.status, "none" before the row exists
    out,       \* per order, times its units left the stock minus times back
    paid,      \* per order, full sets of order_payments rows
    cache,     \* Redis: client_request_id -> order
    recent,    \* orders created less than dedupWindow ago
    answers,   \* <<ticket, order>>: the order Create returned for the ticket
    missed,    \* orders refunded without becoming "refunded"
    skipped,   \* history: consumeFIFO has left a batch unwritten
    req        \* per slot, what its handler has read

shelfVars == <<stock, batches, moves, gifts, skipped>>
pointVars == <<points, pointLog>>
rowVars == <<status, out, paid, missed>>
dedupVars == <<cache, recent, answers>>
vars == <<shelfVars, pointVars, rowVars, dedupVars, req>>

PosStatus == {"none", "pending", "completed", "cancelled", "refunded"}
Idle == [op |-> "idle"]

\* What the slots hold: an order or a ticket and, where the handler uses
\* them later, the values it has read.
Request ==
    {Idle}
    \union [op : {"create"}, client : ClientIds, batches : Seq(Int)]
    \union [op : {"remember"}, client : ClientIds, order : OrderIds]
    \union [op : {"paid"}, order : OrderIds, batches : Seq(Int)]
    \union [op : {"cancel", "drop", "edit", "refund"}, order : OrderIds]
    \union [op : {"update", "expire"}, points : Int]

TypeOK ==
    /\ stock \in Int /\ moves \in Int
    /\ batches \in Seq(Nat)
    /\ gifts \in [Gifts -> Int]
    /\ points \in Int /\ pointLog \in Int
    /\ status \in [OrderIds -> PosStatus]
    /\ out \in [OrderIds -> Int]
    /\ paid \in [OrderIds -> Nat]
    /\ cache \subseteq ClientIds \X OrderIds
    /\ recent \subseteq OrderIds
    /\ answers \subseteq Tickets \X OrderIds
    /\ missed \subseteq OrderIds
    /\ skipped \in BOOLEAN
    /\ req \in [Http -> Request]

Init ==
    /\ stock = InitStock /\ moves = 0
    /\ batches = InitBatches
    /\ gifts = [g \in Gifts |-> InitGifts]
    /\ points = InitPoints /\ pointLog = 0
    /\ status = [i \in OrderIds |-> "none"]
    /\ out = [i \in OrderIds |-> 0]
    /\ paid = [i \in OrderIds |-> 0]
    /\ cache = {} /\ recent = {} /\ answers = {}
    /\ missed = {} /\ skipped = FALSE
    /\ req = [s \in Http |-> Idle]

-----------------------------------------------------------------------------
(* What the handlers share.                                                *)

CartOf(i) == Cart[i[1]]
Made(t) == {i \in OrderIds : i[1] = t /\ status[i] # "none"}
NewOrder(t) == <<t, Cardinality(Made(t)) + 1>>

Running(s, op) == req[s].op = op
Begin(s, r) == req[s] = Idle /\ req' = [req EXCEPT ![s] = r]
Done(s) == req' = [req EXCEPT ![s] = Idle]

\* Rp 100.000 earns a point, rounded down; a reseller price earns none.
calculateEarnedPoints(cash) == cash \div 2
Earned(c) == IF c.reseller THEN 0 ELSE calculateEarnedPoints(c.cash)

\* consumeFIFO: what the loop still has to take when it reaches each batch
\* of b, and the batch it leaves.  Only batches the loop changed are saved,
\* over whatever the row holds by then.
Remaining(b, q) ==
    LET left[i \in 1 .. Len(b) + 1] ==
            IF i = 1 THEN q
            ELSE IF b[i - 1] >= left[i - 1] THEN 0 ELSE left[i - 1] - b[i - 1]
    IN left
consumeFIFO_NewestFirst(b, q) ==
    LET n == Len(b)
        left == Remaining([i \in 1 .. n |-> b[n + 1 - i]], q)
    IN [i \in DOMAIN batches |->
          IF left[n + 1 - i] > 0 /\ b[i] > 0
          THEN (IF b[i] >= left[n + 1 - i] THEN b[i] - left[n + 1 - i] ELSE 0)
          ELSE batches[i]]
consumeFIFO_Overdraws(b, q) ==
    [i \in DOMAIN batches |-> IF i = 1 THEN b[1] - q ELSE batches[i]]
consumeFIFO_KeepsShortBatch(b, q) ==
    LET left == Remaining(b, q)
    IN [i \in DOMAIN batches |->
          IF left[i] > 0 /\ b[i] >= left[i] THEN b[i] - left[i] ELSE batches[i]]
consumeFIFO(b, q) ==
    LET left == Remaining(b, q)
    IN [i \in DOMAIN batches |->
          IF left[i] > 0 /\ b[i] > 0
          THEN (IF b[i] >= left[i] THEN b[i] - left[i] ELSE 0)
          ELSE batches[i]]

\* `WHERE stock >= ?` of the decrement.
Sellable_Unguarded(c) == TRUE
Sellable(c) == stock >= c.units

\* Nobody looks at the errors of the read and of the saves of consumeFIFO:
\* some batches, or all, may stay as they are.
KeptBatches == {kept \in SUBSET DOMAIN batches : kept = {} \/ "batch" \in Unseen}
WriteBatches(new) ==
    /\ \E kept \in KeptBatches :
         batches' = [i \in DOMAIN new |-> IF i \in kept THEN batches[i] ELSE new[i]]
    /\ skipped' = (skipped \/ batches' # new)

\* The sale's part of the shelf: the product's row, its batches as last read
\* and a movement; the gift's row, decremented without a condition.
Deduct(c, seen) ==
    /\ Sellable(c)
    /\ stock' = stock - c.units
    /\ WriteBatches(consumeFIFO(seen, c.units))
    /\ moves' = moves - c.units
    /\ gifts' = [g \in Gifts |-> IF g = c.gift THEN gifts[g] - 1 ELSE gifts[g]]

\* The gift's row as the transaction first sees it.
GiftLeft(c) == \A g \in Gifts : g = c.gift => gifts[g] >= 1

\* applyPointsChange: locks the member's row, so it works on the balance as
\* it is now; redeems first, then earns, and logs both.
Affords_Trusting(c) == TRUE
Affords(c) == points >= c.points
LoggedPoints_RedeemOnly(c) == 0 - c.points
LoggedPoints(c) == Earned(c) - c.points
applyPointsChange(c) ==
    /\ Affords(c)
    /\ points' = points - c.points + Earned(c)
    /\ pointLog' = pointLog + LoggedPoints(c)

-----------------------------------------------------------------------------
(* Create.                                                                 *)

\* Items are compared by product, unit and quantity; a gift line has no
\* product, so it is the same line whatever the gift.
itemsSignature_NoQuantity(c) == <<c.units > 0, c.gift # "none">>
itemsSignature(c) == <<c.units, c.gift # "none">>

\* FindRecentByUserAndTotal: the stored total is the cash part, the request's
\* is the till's.
RecentDuplicates_Off(t) == {}
RecentDuplicates(t) ==
    {i \in recent : /\ status[i] = "completed"
                    /\ CartOf(i).cash = Cart[t].total
                    /\ itemsSignature(CartOf(i)) = itemsSignature(Cart[t])}

Cached(c) == {i \in OrderIds : <<c, i>> \in cache}

\* The orders a submission may be answered with instead of a sale.
Known(c) == IF Cached(c) # {} THEN Cached(c) ELSE RecentDuplicates(c[1])

AnswerCreate(s, c) ==
    /\ req[s] = Idle
    /\ \E i \in Known(c) : answers' = answers \union {<<c[1], i>>}
    /\ UNCHANGED <<shelfVars, pointVars, rowVars, cache, recent, req>>

BeginCreate(s, c) ==
    LET cart == Cart[c[1]] IN
    /\ Known(c) = {}
    /\ points >= cart.points
    /\ stock >= cart.units
    /\ GiftLeft(cart)
    /\ Begin(s, [op |-> "create", client |-> c, batches |-> batches])
    /\ UNCHANGED <<shelfVars, pointVars, rowVars, dedupVars>>

\* With a gift line the snapshot of the transaction is as old as its first
\* read; without one it is taken under the product's row lock.
SeenBatches(s, c) == IF c.gift = "none" THEN batches ELSE req[s].batches

CommitCreate(s) ==
    LET c == req[s].client
        t == c[1]
        i == NewOrder(t)
    IN
    /\ Running(s, "create")
    /\ i \in OrderIds
    /\ Deduct(Cart[t], SeenBatches(s, Cart[t]))
    /\ applyPointsChange(Cart[t])
    /\ status' = [status EXCEPT ![i] = "completed"]
    /\ out' = [out EXCEPT ![i] = @ + 1]
    /\ paid' = [paid EXCEPT ![i] = 1]
    /\ recent' = recent \union {i}
    /\ answers' = answers \union {<<t, i>>}
    /\ req' = [req EXCEPT ![s] = [op |-> "remember", client |-> c, order |-> i]]
    /\ UNCHANGED <<cache, missed>>

\* Redis is told after the commit; when it is down nobody is.
RememberCreate(s) ==
    /\ Running(s, "remember")
    /\ cache' = {e \in cache : e[1] # req[s].client} \union {<<req[s].client, req[s].order>>}
    /\ Done(s)
    /\ UNCHANGED <<shelfVars, pointVars, rowVars, recent, answers>>

-----------------------------------------------------------------------------
(* Pending orders.                                                         *)

CreatePending(t) ==
    LET i == NewOrder(t) IN
    /\ i \in OrderIds
    /\ points >= Cart[t].points
    /\ status' = [status EXCEPT ![i] = "pending"]
    /\ recent' = recent \union {i}
    /\ UNCHANGED <<shelfVars, pointVars, out, paid, missed, cache, answers, req>>

Payable_Again(i) == status[i] \in {"pending", "completed"}
Payable(i) == status[i] = "pending"

BeginMarkAsPaid(s, i) ==
    /\ Payable(i)
    /\ stock >= CartOf(i).units
    /\ GiftLeft(CartOf(i))
    /\ Begin(s, [op |-> "paid", order |-> i, batches |-> batches])
    /\ UNCHANGED <<shelfVars, pointVars, rowVars, dedupVars>>

CommitMarkAsPaid(s) ==
    LET i == req[s].order IN
    /\ Running(s, "paid")
    /\ Deduct(CartOf(i), req[s].batches)
    /\ applyPointsChange(CartOf(i))
    /\ status' = [status EXCEPT ![i] = "completed"]
    /\ out' = [out EXCEPT ![i] = @ + 1]
    /\ paid' = [paid EXCEPT ![i] = @ + 1]
    /\ Done(s)
    /\ UNCHANGED <<missed, dedupVars>>

BeginCancelPending(s, i) ==
    /\ status[i] = "pending"
    /\ Begin(s, [op |-> "drop", order |-> i])
    /\ UNCHANGED <<shelfVars, pointVars, rowVars, dedupVars>>

CommitCancelPending(s) ==
    /\ Running(s, "drop")
    /\ status' = [status EXCEPT ![req[s].order] = "cancelled"]
    /\ Done(s)
    /\ UNCHANGED <<shelfVars, pointVars, out, paid, missed, dedupVars>>

-----------------------------------------------------------------------------
(* Corrections by an admin.                                                *)

\* Returns the units of any line to the stock, without a movement row and
\* without touching batches, gifts or points.  Nobody looks at the error of
\* the UPDATE.
Return(i) ==
    \/ /\ stock' = stock + CartOf(i).units
       /\ out' = [out EXCEPT ![i] = @ - 1]
    \/ "stock" \in Unseen /\ UNCHANGED <<stock, out>>

Cancellable == {"completed", "pending"}

BeginCancelOrder(s, i) ==
    /\ status[i] \in Cancellable
    /\ Begin(s, [op |-> "cancel", order |-> i])
    /\ UNCHANGED <<shelfVars, pointVars, rowVars, dedupVars>>

CommitCancelOrder(s) ==
    LET i == req[s].order IN
    /\ Running(s, "cancel")
    /\ Return(i)
    /\ status' = [status EXCEPT ![i] = "cancelled"]
    /\ Done(s)
    /\ UNCHANGED <<batches, moves, gifts, skipped, pointVars, paid, missed, dedupVars>>

BeginEditPayments(s, i) ==
    /\ status[i] = "completed"
    /\ Begin(s, [op |-> "edit", order |-> i])
    /\ UNCHANGED <<shelfVars, pointVars, rowVars, dedupVars>>

\* The old rows go, the new ones add up to the total.
EditedPayments_Appended(i) == paid[i] + 1
EditedPayments(i) == 1

CommitEditPayments(s) ==
    /\ Running(s, "edit")
    /\ paid' = [paid EXCEPT ![req[s].order] = EditedPayments(req[s].order)]
    /\ Done(s)
    /\ UNCHANGED <<shelfVars, pointVars, status, out, missed, dedupVars>>

\* The refund of a whole sale.  The handler asks nothing of the order, nor
\* whether the order could be saved as refunded.
BeginRefund(s, i) ==
    /\ status[i] # "none"
    /\ Begin(s, [op |-> "refund", order |-> i])
    /\ UNCHANGED <<shelfVars, pointVars, rowVars, dedupVars>>

CommitRefund(s) ==
    LET i == req[s].order IN
    /\ Running(s, "refund")
    /\ out[i] + MaxReturns > 0
    /\ Return(i)
    /\ \/ status' = [status EXCEPT ![i] = "refunded"] /\ UNCHANGED missed
       \/ "status" \in Unseen /\ missed' = missed \union {i} /\ UNCHANGED status
    /\ Done(s)
    /\ UNCHANGED <<batches, moves, gifts, skipped, pointVars, paid, dedupVars>>

-----------------------------------------------------------------------------
(* Other writers of the member's balance, and time.                        *)

\* Edit Member reads the row, later saves all of it.
BeginUpdateMember(s) ==
    /\ "update" \in Desk
    /\ Begin(s, [op |-> "update", points |-> points])
    /\ UNCHANGED <<shelfVars, pointVars, rowVars, dedupVars>>

CommitUpdateMember(s) ==
    /\ Running(s, "update")
    /\ points' = req[s].points
    /\ Done(s)
    /\ UNCHANGED <<shelfVars, pointLog, rowVars, dedupVars>>

\* The first of January: reads the balances, then logs and clears them.
BeginPointsExpiry(s) ==
    /\ "expire" \in Desk
    /\ points > 0
    /\ Begin(s, [op |-> "expire", points |-> points])
    /\ UNCHANGED <<shelfVars, pointVars, rowVars, dedupVars>>

CommitPointsExpiry(s) ==
    /\ Running(s, "expire")
    /\ pointLog' = pointLog - req[s].points
    /\ points' = IF points > 0 THEN 0 ELSE points
    /\ Done(s)
    /\ UNCHANGED <<shelfVars, rowVars, dedupVars>>

\* dedupWindow has passed since the order was made.
WindowPasses(i) ==
    /\ i \in recent
    /\ recent' = recent \ {i}
    /\ UNCHANGED <<shelfVars, pointVars, rowVars, cache, answers, req>>

\* idempotencyTTL, five minutes, is longer than the window.
CacheExpires(e) ==
    /\ e[2] \notin recent
    /\ cache' = cache \ {e}
    /\ UNCHANGED <<shelfVars, pointVars, rowVars, recent, answers, req>>

\* The handler fails or the process dies; its transaction, if any is open,
\* rolls back.  So does one whose COMMIT fails, at which nobody looks: what
\* Redis is then told names no row, and no submission is answered with it.
Abandon(s) ==
    /\ req[s] # Idle
    /\ Done(s)
    /\ UNCHANGED <<shelfVars, pointVars, rowVars, dedupVars>>

-----------------------------------------------------------------------------
TillStep(s) ==
    \/ \E c \in ClientIds : AnswerCreate(s, c) \/ BeginCreate(s, c)
    \/ CommitCreate(s) \/ RememberCreate(s)
    \/ \E i \in OrderIds : BeginMarkAsPaid(s, i) \/ BeginCancelPending(s, i)
    \/ CommitMarkAsPaid(s) \/ CommitCancelPending(s)

CorrectionStep(s) ==
    \/ \E i \in OrderIds : BeginCancelOrder(s, i) \/ BeginEditPayments(s, i)
                              \/ BeginRefund(s, i)
    \/ CommitCancelOrder(s) \/ CommitEditPayments(s) \/ CommitRefund(s)

DeskStep(s) ==
    \/ BeginUpdateMember(s) \/ CommitUpdateMember(s)
    \/ BeginPointsExpiry(s) \/ CommitPointsExpiry(s)

Next ==
    \/ \E s \in Http : TillStep(s) \/ CorrectionStep(s) \/ DeskStep(s) \/ Abandon(s)
    \/ \E t \in Tickets : CreatePending(t)
    \/ \E i \in OrderIds : WindowPasses(i)
    \/ \E e \in cache : CacheExpires(e)

Spec == Init /\ [][Next]_vars

-----------------------------------------------------------------------------
(* Properties.                                                             *)

\* The shelf is never oversold: two tills that both saw enough stock cannot
\* both take it.
StockNonNegative == stock >= 0

\* A member's balance is what its point movements add up to.
PointsExact == points = InitPoints + pointLog

\* No two sales that redeem the same points both succeed.
PointsNonNegative == points >= 0

\* Neither goods nor points are given out twice.
NothingOverdrawn == StockNonNegative /\ PointsNonNegative

\* A sale that is submitted again inside the window, with the same request id
\* or after a page refresh, is not recorded a second time.
NoDoubleSale ==
    [][\A i, j \in OrderIds :
         /\ i[1] = j[1] /\ i # j
         /\ j \in recent /\ status[j] = "completed"
         /\ status[i] = "none"
         => status'[i] # "completed"]_vars

\* A submission is answered with an existing order only if that order sold the
\* same quantity and redeemed a gift exactly if this one does (which gift it
\* was is not compared by the code).
DedupOnlySameItems ==
    \A a \in answers :
        /\ Cart[a[1]].units = CartOf(a[2]).units
        /\ Cart[a[1]].gift = "none" <=> CartOf(a[2]).gift = "none"

\* Requests served one at a time: the units of every completed sale have left
\* the stock exactly once, whichever way it was completed, but for an order
\* that a refund could not save.
CompletedTookStock ==
    \A i \in OrderIds \ missed : status[i] = "completed" => out[i] = 1

\* Requests served one at a time: a completed sale carries one set of payment
\* rows, which add up to its total, also after its payments were edited.
PaidOnce == \A i \in OrderIds : status[i] = "completed" => paid[i] = 1

\* A completed sale is one sale, and whoever is answered with it asked for it.
CompletedOnce == CompletedTookStock /\ PaidOnce /\ DedupOnlySameItems

BatchUnits(b) ==
    LET upTo[i \in 0 .. Len(b)] == IF i = 0 THEN 0 ELSE upTo[i - 1] + b[i] IN upTo[Len(b)]
\* Requests served one at a time: the batches have lost what the movements
\* say was sold, as far as they reach.
BatchesFollowSales ==
    LET left == BatchUnits(InitBatches) + moves
    IN BatchUnits(batches) = IF left > 0 THEN left ELSE 0

\* Requests served one at a time: a batch is opened only when every older one
\* is used up.
OldestFirst ==
    \A i, j \in DOMAIN batches :
        i < j /\ batches[j] < InitBatches[j] => batches[i] = 0

\* Batches lose what is sold, the oldest first, as long as every one of them
\* could be saved.
BatchesInOrder == skipped \/ (BatchesFollowSales /\ OldestFirst)
=============================================================================
