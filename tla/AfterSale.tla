------------------------------ MODULE AfterSale ------------------------------
(***************************************************************************)
(* One storefront order after it was shipped: complaints, refunds, the     *)
(* customer's review, and the mail to customers who wait for its product.  *)
(*                                                                         *)
(* A complaint or a review is checked with one statement and written with  *)
(* a later one; a refund is one transaction.  The rest of the order's life *)
(* is EcomOrder's.                                                         *)
(*                                                                         *)
(* A definition X_Y just above X is X with a bug Y this code could have; it *)
(* is used by no other, only to test the properties.                       *)
(***************************************************************************)
EXTENDS Integers, FiniteSets

CONSTANTS
    Complaints,    \* complaints that can be submitted
    NoComplaint,
    Waiting,       \* customers who wait for the product
    NoOne,
    Slots,         \* slots in which handlers and mail jobs run
    Quantity,      \* the order's units
    Total,         \* the order's total
    Ratings,       \* 1..5
    MaxRefunds, MaxReopened, MaxArmed, MaxLost  \* bounds

VARIABLES
    status,     \* the order's ecom_status
    received,   \* the order was completed
    complaint,  \* ecom_complaints: [st, dated]
    settled,    \* complaints whose rows a refund updated, until an admin replies
    reopened,   \* replies that made a closed complaint active again
    refunds,    \* ecom_refunds: [amount, units] in order
    shelf,      \* units of the product
    review,     \* ecom_reviews, unique for customer and product: [rating, hidden]
    hide,       \* what the admin last decided about the review
    raced,      \* a review was edited while the admin decided
    alert,      \* ecom_restock_alerts, unique: "none", "armed" or "told"
    armed, mails, \* per customer, alerts set and mails sent
    lost,       \* statements nobody saw fail: marks that did not follow a mail, counts
    req

order == <<status, received>>
complaints == <<complaint, settled, reopened>>
reviews == <<review, hide, raced>>
alerts == <<alert, armed, mails>>
vars == <<order, complaints, refunds, shelf, reviews, alerts, lost, req>>

NoReview == [rating |-> 0, hidden |-> FALSE]
Idle == [op |-> "idle", c |-> NoComplaint, row |-> NoReview, whom |-> {}, u |-> NoOne]

Init ==
    /\ status = "shipped" /\ received = FALSE
    /\ complaint = [c \in Complaints |-> [st |-> "none", dated |-> FALSE]]
    /\ settled = {} /\ reopened = 0
    /\ refunds = [n |-> 0, amount |-> 0, units |-> 0]
    /\ shelf = 0
    /\ review = NoReview /\ hide = FALSE /\ raced = FALSE
    /\ alert = [u \in Waiting |-> "none"]
    /\ armed = [u \in Waiting |-> 0] /\ mails = [u \in Waiting |-> 0]
    /\ lost = 0
    /\ req = [s \in Slots |-> Idle]

Take(s, r) == req[s] = Idle /\ req' = [req EXCEPT ![s] = r]
Done(s) == req' = [req EXCEPT ![s] = Idle]

-----------------------------------------------------------------------------
(* The order goes on; a courier's return or an admin's cancellation puts   *)
(* every unit back on the shelf.  Completed and cancelled are final.       *)

Advance(from, to) ==
    /\ status = from /\ status' = to
    /\ received' = (received \/ to = "completed")
    /\ UNCHANGED <<complaints, refunds, shelf, reviews, alerts, lost, req>>
Return ==
    /\ status \in {"shipped", "delivered"}
    /\ status' = "cancelled" /\ shelf' = shelf + Quantity
    /\ UNCHANGED <<received, complaints, refunds, reviews, alerts, lost, req>>

-----------------------------------------------------------------------------
(* Complaints and refunds.                                                 *)

Active == {"open", "in_review"}
Closed == {"resolved", "rejected"}
ActiveOnes == {c \in Complaints : complaint[c].st \in Active}

MaySubmit_OpenOnly == {c \in Complaints : complaint[c].st = "open"} = {}
MaySubmit == ActiveOnes = {}

\* The count's error is not looked at: when it fails, no complaint is found.
BeginSubmit(s, c) ==
    /\ status \in {"delivered", "completed"}
    /\ IF MaySubmit THEN UNCHANGED lost ELSE lost < MaxLost /\ lost' = lost + 1
    /\ complaint[c].st = "none" /\ \A t \in Slots : req[t].c # c
    /\ Take(s, [Idle EXCEPT !.op = "submit", !.c = c])
    /\ UNCHANGED <<order, complaints, refunds, shelf, reviews, alerts>>
CommitSubmit(s) ==
    /\ req[s].op = "submit"
    /\ complaint' = [complaint EXCEPT ![req[s].c].st = "open"]
    /\ Done(s)
    /\ UNCHANGED <<order, settled, reopened, refunds, shelf, reviews, alerts, lost>>

\* Any status may follow any other; the date of a resolution stays.
Reply(c, st) ==
    /\ complaint[c].st # "none"
    /\ IF complaint[c].st \in Closed /\ st \in Active
       THEN reopened < MaxReopened /\ reopened' = reopened + 1 ELSE UNCHANGED reopened
    /\ complaint' = [complaint EXCEPT ![c] = [st |-> st, dated |-> @.dated \/ st \in Closed]]
    /\ settled' = settled \ {c}
    /\ UNCHANGED <<order, refunds, shelf, reviews, alerts, lost, req>>

\* The amount is compared with the order's total, whatever was refunded
\* before; the units to put back are the admin's to say; the complaint, if
\* named, is resolved when it is active.  The error of that last UPDATE is not
\* looked at: when it fails, the refund is one that names no complaint.
Refunded_Takes(amount, units) ==
    /\ refunds.n < MaxRefunds /\ amount <= Total
    /\ refunds' = [n |-> refunds.n + 1, amount |-> refunds.amount + amount, units |-> refunds.units + units]
    /\ shelf' = shelf - units
Refunded(amount, units) ==
    /\ refunds.n < MaxRefunds /\ amount <= Total
    /\ refunds' = [n |-> refunds.n + 1, amount |-> refunds.amount + amount, units |-> refunds.units + units]
    /\ shelf' = shelf + units
Create_LeavesReview(amount, units, c) ==
    /\ Refunded(amount, units)
    /\ c # NoComplaint => complaint[c].st # "none"
    /\ complaint' = [d \in Complaints |->
           IF d = c /\ complaint[d].st = "open" THEN [st |-> "resolved", dated |-> TRUE] ELSE complaint[d]]
    /\ settled' = settled \cup ({c} \ {NoComplaint})
    /\ UNCHANGED <<order, reopened, reviews, alerts, lost, req>>
Create(amount, units, c) ==
    /\ Refunded(amount, units)
    /\ c # NoComplaint => complaint[c].st # "none"
    /\ complaint' = [d \in Complaints |->
           IF d = c /\ complaint[d].st \in Active THEN [st |-> "resolved", dated |-> TRUE] ELSE complaint[d]]
    /\ settled' = settled \cup ({c} \ {NoComplaint})
    /\ UNCHANGED <<order, reopened, reviews, alerts, lost, req>>

-----------------------------------------------------------------------------
(* The review: eligible, then looked up, then saved whole or inserted.     *)

CanReview_Delivered == status \in {"delivered", "completed"}
CanReview == status = "completed"

BeginUpsert(s) ==
    /\ CanReview
    /\ Take(s, [Idle EXCEPT !.op = "review", !.row = review])
    /\ UNCHANGED <<order, complaints, refunds, shelf, reviews, alerts, lost>>
\* A row found is saved with the flag it was read with; an insert that meets
\* the unique key fails.
CommitUpsert(s, rating) ==
    /\ req[s].op = "review"
    /\ review' = IF req[s].row.rating # 0 THEN [req[s].row EXCEPT !.rating = rating]
                 ELSE IF review.rating = 0 THEN [rating |-> rating, hidden |-> FALSE] ELSE review
    /\ Done(s)
    /\ UNCHANGED <<order, complaints, refunds, shelf, hide, raced, alerts, lost>>
ToggleHide(b) ==
    /\ review.rating # 0
    /\ review' = [review EXCEPT !.hidden = b] /\ hide' = b
    /\ raced' = (raced \/ \E s \in Slots : req[s].op = "review")
    /\ UNCHANGED <<order, complaints, refunds, shelf, alerts, lost, req>>

\* What the product page counts.
ListForProduct == IF review.rating # 0 /\ ~review.hidden THEN {review.rating} ELSE {}

-----------------------------------------------------------------------------
(* Restock alerts.  The job is started by an admin's button; nothing else  *)
(* that fills the shelf starts it.                                         *)

Subscribe(u) ==
    /\ armed[u] < MaxArmed
    /\ alert' = [alert EXCEPT ![u] = "armed"]
    /\ armed' = [armed EXCEPT ![u] = @ + 1]
    /\ UNCHANGED <<order, complaints, refunds, shelf, reviews, mails, lost, req>>
Unsubscribe(u) ==
    /\ alert[u] # "none"
    /\ alert' = [alert EXCEPT ![u] = "none"]
    /\ UNCHANGED <<order, complaints, refunds, shelf, reviews, armed, mails, lost, req>>

Unnotified_All == {u \in Waiting : alert[u] # "none"}
Unnotified == {u \in Waiting : alert[u] = "armed"}

TriggerRestockNotif(s) ==
    /\ shelf > 0 /\ Unnotified # {}
    /\ Take(s, [Idle EXCEPT !.op = "notify", !.whom = Unnotified])
    /\ UNCHANGED <<order, complaints, refunds, shelf, reviews, alerts, lost>>
SendAlert(s, u) ==
    /\ req[s].op = "notify" /\ req[s].u = NoOne /\ u \in req[s].whom
    /\ mails' = [mails EXCEPT ![u] = @ + 1]
    /\ req' = [req EXCEPT ![s].u = u]
    /\ UNCHANGED <<order, complaints, refunds, shelf, reviews, alert, armed, lost>>
\* The mark lands on whatever the row is by then; a row that is gone has none,
\* and a mark that fails is not missed: the job goes on.
MarkAlert(s) ==
    /\ req[s].u # NoOne
    /\ LET u == req[s].u
           rest == req[s].whom \ {u}
       IN /\ \/ /\ alert' = [alert EXCEPT ![u] = IF @ = "none" THEN "none" ELSE "told"]
                /\ UNCHANGED lost
             \/ lost < MaxLost /\ lost' = lost + 1 /\ UNCHANGED alert
          /\ req' = [req EXCEPT ![s] = IF rest = {} THEN Idle ELSE [@ EXCEPT !.whom = rest, !.u = NoOne]]
    /\ UNCHANGED <<order, complaints, refunds, shelf, reviews, armed, mails>>

Abandon(s) ==
    /\ req[s] # Idle
    /\ req[s].u # NoOne => lost < MaxLost
    /\ lost' = IF req[s].u # NoOne THEN lost + 1 ELSE lost
    /\ Done(s)
    /\ UNCHANGED <<order, complaints, refunds, shelf, reviews, alerts>>

-----------------------------------------------------------------------------
Next ==
    \/ Advance("shipped", "delivered") \/ Advance("shipped", "completed")
    \/ Advance("delivered", "completed") \/ Return
    \/ \E c \in Complaints, st \in Active \cup Closed : Reply(c, st)
    \/ \E amount \in 1..Total, units \in 0..Quantity, c \in Complaints \cup {NoComplaint} :
          Create(amount, units, c)
    \/ \E b \in BOOLEAN : ToggleHide(b)
    \/ \E u \in Waiting : Subscribe(u) \/ Unsubscribe(u)
    \/ \E s \in Slots :
          \/ \E c \in Complaints : BeginSubmit(s, c)
          \/ CommitSubmit(s)
          \/ BeginUpsert(s) \/ \E rating \in Ratings : CommitUpsert(s, rating)
          \/ TriggerRestockNotif(s) \/ \E u \in Waiting : SendAlert(s, u)
          \/ MarkAlert(s) \/ Abandon(s)

Spec == Init /\ [][Next]_vars

-----------------------------------------------------------------------------
Reviews == [rating : Ratings \cup {0}, hidden : BOOLEAN]

TypeOK ==
    /\ status \in {"shipped", "delivered", "completed", "cancelled"} /\ received \in BOOLEAN
    /\ complaint \in [Complaints -> [st : Active \cup Closed \cup {"none"}, dated : BOOLEAN]]
    /\ settled \subseteq Complaints /\ reopened \in 0..MaxReopened
    /\ refunds \in [n : 0..MaxRefunds, amount : Nat, units : Nat] /\ shelf \in Nat
    /\ review \in Reviews /\ hide \in BOOLEAN /\ raced \in BOOLEAN
    /\ alert \in [Waiting -> {"none", "armed", "told"}]
    /\ armed \in [Waiting -> 0..MaxArmed] /\ mails \in [Waiting -> Nat] /\ lost \in 0..MaxLost
    /\ req \in [Slots -> [op : {"idle", "submit", "review", "notify"}, c : Complaints \cup {NoComplaint},
                          row : Reviews, whom : SUBSET Waiting, u : Waiting \cup {NoOne}]]

\* A customer has one active complaint an order: more only as submissions
\* overlapped, as an admin opened a closed one again, or as a count failed.
OneActiveBounded == Cardinality(ActiveOnes) <= Cardinality(Slots) + reopened + lost

\* A refund ends the complaint it names, with a date, until an admin says
\* otherwise, whichever of the two active states it was in; unless its UPDATE of
\* the complaint failed, which nobody sees.
RefundCloses == \A c \in settled : complaint[c].st \in Closed /\ complaint[c].dated

\* A product page counts reviews only of customers whose order was completed,
\* and, as long as no edit overlapped an admin's decision, none that the admin
\* hid.
ReviewsCount == ListForProduct # {} => received /\ (hide => raced)

\* One mail for each time an alert was set: more only as jobs overlapped, or
\* stopped between the mail and the mark, or could not write the mark.
AlertsBounded == \A u \in Waiting : mails[u] <= armed[u] * Cardinality(Slots) + lost

\* What was decided stays decided, for a complaint and for a review.
DecisionsHold == RefundCloses /\ ReviewsCount
=============================================================================
