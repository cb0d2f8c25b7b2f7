----------------------------- MODULE StockRoom -----------------------------
(***************************************************************************)
(* The shelf as the stock room sees it: products, movements in and out,    *)
(* stock counts, batches, and what sells from the same row.                *)
(*                                                                         *)
(* Quantities are pieces; a box is converted before anything is written.   *)
(* A handler reads the product outside its transaction and writes by id,   *)
(* so each is a Begin and a Commit; what is done by one statement, or      *)
(* under the row lock of one, is one action.                               *)
(*                                                                         *)
(* A definition X_Y just above X is X with a bug Y this code could have; it *)
(* is used by no other, only to test the properties.                       *)
(***************************************************************************)
EXTENDS Integers, FiniteSets, Sequences

CONSTANTS
    Products,
    Slots,         \* slots in which handlers run
    Amounts,       \* pieces one operation moves
    Alone,         \* operations done while the shop is closed
    NoProduct,
    MaxAmount,
    MaxStock,      \* bound: nothing is added beyond
    MaxOffCard,    \* bound: pieces moved without a movement row, each way
    MaxBatches,    \* bound: deliveries of a product
    Unseen         \* statements whose errors may strike: "shelf", "row", "batch"

ASSUME RoomAssumption ==
    /\ MaxAmount \in Nat /\ Amounts \subseteq 1..MaxAmount
    /\ MaxStock \in Nat /\ MaxOffCard \in Nat /\ MaxBatches \in Nat
    /\ IsFiniteSet(Slots)
    /\ NoProduct \notin Products

VARIABLES
    status,     \* "absent", "live" or "deleted" (deleted_at)
    stock,      \* products.stock
    card,       \* signed sum of the product's stock_movements
    batches,    \* stock_batches, oldest first: [got, left]
    added,      \* pieces put on the shelf with no movement row
    removed,    \* pieces taken off it with no movement row
    gone,       \* products that have ever been deleted
    slipped,    \* history: products with a movement row that never moved the
                \* shelf, or moved with no row, by a statement that failed unseen
    req         \* per slot, what its handler has read and will do

vars == <<status, stock, card, batches, added, removed, gone, slipped, req>>

Ops == {"in", "out", "count", "consume", "save"}
Idle == [op |-> "idle", p |-> NoProduct, n |-> 0, seen |-> 0, rows |-> <<>>]

Init ==
    /\ status = [p \in Products |-> "absent"]
    /\ stock = [p \in Products |-> 0]
    /\ card = [p \in Products |-> 0]
    /\ batches = [p \in Products |-> <<>>]
    /\ added = [p \in Products |-> 0]
    /\ removed = [p \in Products |-> 0]
    /\ gone = {}
    /\ slipped = {}
    /\ req = [s \in Slots |-> Idle]

Live(p) == status[p] = "live"
Room(p, n) == stock[p] + n <= MaxStock

\* Nothing else is written between the read and the write of an operation
\* that is done while the shop is closed.
Undisturbed(S) == \A s \in Slots \ S : req[s].op \notin Alone

\* The card of p still explains its shelf: p was never deleted and no statement
\* about it failed unseen.  Bound: one that does not drifts only so far, and by
\* no second such statement.
Explained(p) == p \notin gone \union slipped
Bounded(p, d) == Explained(p) \/ card[p] + d \in -MaxOffCard..MaxStock

\* An UPDATE on a soft-deleted row matches nothing and is no error.
Stocked(p, n) == IF Live(p) THEN [stock EXCEPT ![p] = n] ELSE stock
OnCard(p, d) == [card EXCEPT ![p] = @ + d]

Begin(s, r) ==
    /\ req[s] = Idle
    /\ req' = [req EXCEPT ![s] = r]
    /\ UNCHANGED <<status, stock, card, batches, added, removed, gone, slipped>>
Done(s) == req' = [req EXCEPT ![s] = Idle]

-----------------------------------------------------------------------------
(* Batches, first in first out.                                            *)

\* What the loop still has to take when it reaches each batch.
Remaining(rows, n) ==
    LET due[i \in 1..Len(rows) + 1] ==
            IF i = 1 THEN n
            ELSE IF rows[i - 1].left >= due[i - 1] THEN 0 ELSE due[i - 1] - rows[i - 1].left
    IN due

consumeFIFO_Overdraws(rows, n) ==
    [i \in DOMAIN rows |-> IF i = 1 THEN [rows[i] EXCEPT !.left = @ - n] ELSE rows[i]]
consumeFIFO(rows, n) ==
    LET due == Remaining(rows, n)
    IN [i \in DOMAIN rows |-> [rows[i] EXCEPT !.left = IF @ >= due[i] THEN @ - due[i] ELSE 0]]

\* Nobody looks at the errors of its read and of its saves: the rows of K are
\* saved, the others stay as they are.
Savings(rows) == IF "batch" \in Unseen THEN SUBSET DOMAIN rows ELSE {DOMAIN rows}
Consume(p, n) ==
    LET used == consumeFIFO(batches[p], n) IN
    \E K \in Savings(used) :
        batches' = [batches EXCEPT ![p] =
                      [i \in DOMAIN used |-> IF i \in K THEN used[i] ELSE batches[p][i]]]

-----------------------------------------------------------------------------
(* The shelf and its card in one transaction.                              *)

\* d pieces and their row.  In CreateMovement the error of the row rolls back
\* (Abandon), that of the UPDATE is not looked at: then the row stands alone.
Moved(p, d) ==
    /\ card' = OnCard(p, d)
    /\ \/ /\ Room(p, d) /\ Bounded(p, d)
          /\ stock' = Stocked(p, stock[p] + d)
          /\ UNCHANGED slipped
       \/ /\ "shelf" \in Unseen /\ Explained(p)
          /\ UNCHANGED stock
          /\ slipped' = slipped \union {p}

-----------------------------------------------------------------------------
(* Products.                                                               *)

\* The row and the movement of its first stock are one transaction; there is
\* no batch for it.  A deleted product keeps its SKU in the unique index.
CreateProduct(p, n) ==
    /\ Undisturbed({})
    /\ status[p] = "absent"
    /\ status' = [status EXCEPT ![p] = "live"]
    /\ stock' = [stock EXCEPT ![p] = n]
    /\ card' = OnCard(p, n)
    /\ UNCHANGED <<batches, added, removed, gone, slipped, req>>

\* Update, ToggleActive and SetRedeemable read the row and save all of it but
\* the stock; a row deleted meanwhile is inserted again.
SavedStock_Whole(s, p) == req[s].seen
SavedStock(s, p) == stock[p]
BeginSave(s, p) ==
    /\ Live(p)
    /\ Begin(s, [Idle EXCEPT !.op = "save", !.p = p, !.seen = stock[p]])
CommitSave(s) ==
    /\ Undisturbed({s})
    /\ req[s].op = "save"
    /\ status' = [status EXCEPT ![req[s].p] = "live"]
    /\ stock' = [stock EXCEPT ![req[s].p] = SavedStock(s, req[s].p)]
    /\ Done(s)
    /\ UNCHANGED <<card, batches, added, removed, gone, slipped>>

DeleteProduct(p) ==
    /\ Undisturbed({})
    /\ Live(p)
    /\ status' = [status EXCEPT ![p] = "deleted"]
    /\ gone' = gone \union {p}
    /\ UNCHANGED <<stock, card, batches, added, removed, slipped, req>>

\* PATCH /products/:id/stock: any delta, no movement row.
PatchUp(p, n) ==
    /\ Undisturbed({})
    /\ Live(p) /\ Room(p, n) /\ added[p] + n <= MaxOffCard
    /\ stock' = [stock EXCEPT ![p] = @ + n]
    /\ added' = [added EXCEPT ![p] = @ + n]
    /\ UNCHANGED <<status, card, batches, removed, gone, slipped, req>>
PatchDown(p, n) ==
    /\ Undisturbed({})
    /\ Live(p) /\ removed[p] + n <= MaxOffCard
    /\ stock' = [stock EXCEPT ![p] = @ - n]
    /\ removed' = [removed EXCEPT ![p] = @ + n]
    /\ UNCHANGED <<status, card, batches, added, gone, slipped, req>>

-----------------------------------------------------------------------------
(* Movements.                                                              *)

BeginMovementIn(s, p, n) ==
    /\ Live(p)
    /\ Begin(s, [Idle EXCEPT !.op = "in", !.p = p, !.n = n])

Enough_Any(p, n) == TRUE
Enough(p, n) == stock[p] >= n
BeginMovementOut(s, p, n) ==
    /\ Live(p) /\ Enough(p, n)
    /\ Begin(s, [Idle EXCEPT !.op = "out", !.p = p, !.n = n])

CommitMovementIn(s) ==
    LET p == req[s].p  n == req[s].n IN
    /\ Undisturbed({s})
    /\ req[s].op = "in"
    /\ Moved(p, n)
    /\ \/ /\ Len(batches[p]) < MaxBatches
          /\ batches' = [batches EXCEPT ![p] = Append(@, [got |-> n, left |-> n])]
       \/ "batch" \in Unseen /\ UNCHANGED batches
    /\ Done(s)
    /\ UNCHANGED <<status, added, removed, gone>>

\* The check was on the row as read; the UPDATE repeats no condition.
CommitMovementOut(s) ==
    LET p == req[s].p  n == req[s].n IN
    /\ Undisturbed({s})
    /\ req[s].op = "out"
    /\ Moved(p, -n)
    /\ Consume(p, n)
    /\ Done(s)
    /\ UNCHANGED <<status, added, removed, gone>>

\* POST /inventory/batches/consume-fifo: batches only, read in a snapshot and
\* saved by id, with no lock on the product.
BeginConsume(s, p, n) ==
    Begin(s, [Idle EXCEPT !.op = "consume", !.p = p, !.n = n, !.rows = batches[p]])
CommitConsume(s) ==
    LET p == req[s].p
        seen == req[s].rows
        saved == consumeFIFO(seen, req[s].n)
        Row(i, K) == IF i \in K /\ saved[i] # seen[i] THEN saved[i] ELSE batches[p][i]
    IN
    /\ Undisturbed({s})
    /\ req[s].op = "consume"
    /\ \E K \in Savings(seen) :
         batches' = [batches EXCEPT ![p] = [i \in DOMAIN batches[p] |-> Row(i, K)]]
    /\ Done(s)
    /\ UNCHANGED <<status, stock, card, added, removed, gone, slipped>>

\* AdjustStock: the shelf becomes what was counted, the row says by how much
\* that differs from what was read.
BeginCount(s, p, n) ==
    /\ Live(p) /\ n # stock[p]
    /\ Begin(s, [Idle EXCEPT !.op = "count", !.p = p, !.n = n, !.seen = stock[p]])
CommitCount(s) ==
    LET p == req[s].p  n == req[s].n IN
    /\ Undisturbed({s})
    /\ req[s].op = "count" /\ Bounded(p, n - req[s].seen)
    /\ stock' = Stocked(p, n)
    /\ card' = OnCard(p, n - req[s].seen)
    /\ Done(s)
    /\ UNCHANGED <<status, batches, added, removed, gone, slipped>>

Abandon(s) ==
    /\ req[s] # Idle
    /\ Done(s)
    /\ UNCHANGED <<status, stock, card, batches, added, removed, gone, slipped>>

-----------------------------------------------------------------------------
(* What sells from the shelf.                                              *)

\* UPDATE ... WHERE stock >= ?, and a movement row.
Take(p, n) ==
    /\ Undisturbed({})
    /\ Live(p) /\ stock[p] >= n /\ Bounded(p, -n)
    /\ stock' = [stock EXCEPT ![p] = @ - n]
    /\ card' = OnCard(p, -n)
    /\ UNCHANGED <<status, added, removed, gone, slipped, req>>

\* A counter sale of one line: its first read in the transaction is of the
\* batches, after the UPDATE has locked the product.
Sell(p, n) ==
    /\ Take(p, n)
    /\ Consume(p, n)

\* A line of a storefront checkout: no batches.
StorefrontSell(p, n) ==
    /\ Take(p, n)
    /\ UNCHANGED batches

\* A counter cancellation or refund: stock only.
CounterReturn(p, n) ==
    /\ Undisturbed({})
    /\ Room(p, n) /\ added[p] + n <= MaxOffCard /\ Live(p)
    /\ stock' = [stock EXCEPT ![p] = @ + n]
    /\ added' = [added EXCEPT ![p] = @ + n]
    /\ UNCHANGED <<status, card, batches, removed, gone, slipped, req>>

\* A storefront order given back: stock and a row, whether or not the
\* product still exists.  After a failed payment the errors of both statements
\* go unseen, so the shelf can move without its row too.
StorefrontReturn(p, n) ==
    /\ Undisturbed({})
    /\ status[p] # "absent"
    /\ \/ Moved(p, n)
       \/ /\ "row" \in Unseen /\ Explained(p) /\ Room(p, n)
          /\ stock' = Stocked(p, stock[p] + n)
          /\ slipped' = slipped \union {p}
          /\ UNCHANGED card
    /\ UNCHANGED <<status, batches, added, removed, gone, req>>

-----------------------------------------------------------------------------
Catalogue(p) ==
    \/ \E n \in Amounts \union {0} : CreateProduct(p, n)
    \/ DeleteProduct(p)
    \/ \E n \in Amounts : PatchUp(p, n) \/ PatchDown(p, n)

Trade(p) ==
    \E n \in Amounts : \/ Sell(p, n)
                       \/ StorefrontSell(p, n)
                       \/ CounterReturn(p, n)
                       \/ StorefrontReturn(p, n)

Start(s, p) ==
    \/ BeginSave(s, p)
    \/ \E n \in Amounts : \/ BeginMovementIn(s, p, n)
                          \/ BeginMovementOut(s, p, n)
                          \/ BeginConsume(s, p, n)
    \/ \E n \in Amounts \union {0} : BeginCount(s, p, n)

Finish(s) ==
    \/ CommitSave(s)
    \/ CommitMovementIn(s)
    \/ CommitMovementOut(s)
    \/ CommitConsume(s)
    \/ CommitCount(s)
    \/ Abandon(s)

Next ==
    \/ \E p \in Products : Catalogue(p) \/ Trade(p)
    \/ \E s \in Slots, p \in Products : Start(s, p)
    \/ \E s \in Slots : Finish(s)

Spec == Init /\ [][Next]_vars
-----------------------------------------------------------------------------
(* Properties.                                                             *)

TypeOK ==
    /\ status \in [Products -> {"absent", "live", "deleted"}]
    /\ stock \in [Products -> Int]
    /\ card \in [Products -> Int]
    /\ \A p \in Products : \A i \in DOMAIN batches[p] :
         batches[p][i].got \in Nat /\ batches[p][i].left \in 0..batches[p][i].got
    /\ added \in [Products -> 0..MaxOffCard]
    /\ removed \in [Products -> 0..MaxOffCard]
    /\ gone \union slipped \subseteq Products
    /\ \A s \in Slots : req[s].op \in Ops \union {"idle"}

\* The stock card explains the shelf: movements, sales, counts and first
\* stock, whichever overlap and whoever saves a product page meanwhile, add up
\* to products.stock, but for what the code moves without a row.  Counts must
\* be done while nothing moves.  Excepted are the products once deleted, and
\* those one of whose statements failed unseen.
StockOnCard ==
    "count" \in Alone =>
        \A p \in Products : Explained(p) => stock[p] = card[p] + added[p] - removed[p]

\* The shelf goes below zero only by outgoing movements that overlap: by at most
\* one for each handler, beside what patches took.
OverdrawBounded ==
    \A p \in Products : stock[p] + removed[p] >= -(Cardinality(Slots) * MaxAmount)
=============================================================================
