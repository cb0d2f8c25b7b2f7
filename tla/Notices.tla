------------------------------- MODULE Notices -------------------------------
(***************************************************************************)
(* What the shop tells by mail and by push: the milestones of a storefront *)
(* order, broadcasts to the customers, and the digest of seven o'clock.    *)
(*                                                                         *)
(* A handler that moves an order reads it, writes it, and starts a         *)
(* goroutine that mails and pushes to its customer; here the goroutine     *)
(* runs on in the handler's slot.  A push goes to every row of a list read *)
(* once; a browser that is gone has its rows deleted on the way.  Stock,   *)
(* payment and cancellation (which tells nobody) are EcomOrder's, the mails *)
(* to customers who wait for a product AfterSale's, messages by WhatsApp   *)
(* WhatsApp's.                                                             *)
(*                                                                         *)
(* A definition X_Y just above X is X with a bug Y this code could have; it *)
(* is used by no other, only to test the properties.                       *)
(***************************************************************************)
EXTENDS Integers, FiniteSets, FiniteSetsExt

CONSTANTS
    Slots,
    Customers, Staff,  \* accounts
    Owner,             \* the order's customer
    Browsers,          \* push endpoints
    MaxCalls           \* bound

VARIABLES
    ecom,       \* the order's ecom_status
    paidMails,  \* mails "payment received"
    raced,      \* paid was written over another status than the one read
    replayed,   \* a payment was reported for an order that had moved on
    rows,       \* push_subscriptions per account and browser: how many
    gone,       \* browsers that no longer accept a push
    active,
    overlaps,   \* subscriptions of one browser that overlapped
    history,    \* the last broadcast recorded
    job, calls

orderVars == <<ecom, paidMails, raced, replayed>>
pushVars == <<rows, gone, active, overlaps>>
vars == <<orderVars, pushVars, history, job, calls>>

Users == Customers \cup Staff
NoRows == [u \in Users |-> [b \in Browsers |-> 0]]
Idle == [op |-> "idle", from |-> "", to |-> "", u |-> Owner, b |-> CHOOSE b \in Browsers : TRUE,
         todo |-> NoRows, total |-> 0, delivered |-> 0, failed |-> 0]
NoHistory == [total |-> 0, delivered |-> 0, failed |-> 0]

Copies(b) == MapThenSumSet(LAMBDA u : rows[u][b], Users)
Count(list) == MapThenSumSet(LAMBDA u : MapThenSumSet(LAMBDA b : list[u][b], Browsers), Users)

Init ==
    /\ ecom = "pending_payment" /\ paidMails = 0 /\ raced = 0 /\ replayed = 0
    /\ rows = NoRows /\ gone = {} /\ active = Users /\ overlaps = 0
    /\ history = NoHistory
    /\ job = [s \in Slots |-> Idle] /\ calls = 0

Begin(s, r) ==
    /\ job[s] = Idle /\ calls < MaxCalls
    /\ job' = [job EXCEPT ![s] = r] /\ calls' = calls + 1
Becomes(s, r) == job' = [job EXCEPT ![s] = r] /\ UNCHANGED calls

-----------------------------------------------------------------------------
(* The handlers that move the order, and what each starts.                 *)

Moves ==
    {<<"pending_payment", "paid">>, <<"paid", "processing">>, <<"paid", "shipped">>,
     <<"processing", "shipped">>, <<"shipped", "delivered">>, <<"shipped", "completed">>,
     <<"delivered", "completed">>}
Allowed_Again == Moves \cup {<<"paid", "paid">>}
Allowed == Moves
Milestones == {"paid", "shipped", "delivered", "completed"}
Statuses == Milestones \cup {"pending_payment", "processing"}

BeginMove(s, op, to) ==
    /\ Begin(s, [Idle EXCEPT !.op = op, !.from = ecom, !.to = to])
    /\ UNCHANGED <<orderVars, pushVars, history>>

BeginPgNotification(s) == ecom # "paid" /\ BeginMove(s, "gateway", "paid")
BeginUpdateStatus(s, to) == <<ecom, to>> \in Allowed /\ BeginMove(s, "handler", to)
BeginSetShipping(s) == ecom \in {"paid", "processing", "shipped"} /\ BeginMove(s, "handler", "shipped")
\* A report is mailed however often the courier sends it.
BeginBiteshipWebhook(s, to) ==
    /\ ecom \notin {"pending_payment", "completed"} /\ to \in {"shipped", "delivered"}
    /\ BeginMove(s, "handler", to)
BeginConfirmReceived(s) == ecom \in {"shipped", "delivered"} /\ BeginMove(s, "handler", "completed")

Commit(s) ==
    /\ job[s].op \in {"gateway", "handler"}
    /\ ecom' = job[s].to
    /\ raced' = IF job[s].to = "paid" /\ ecom # job[s].from THEN raced + 1 ELSE raced
    /\ replayed' = IF job[s].op = "gateway" /\ job[s].from # "pending_payment"
                   THEN replayed + 1 ELSE replayed
    /\ Becomes(s, IF job[s].to \notin Milestones THEN Idle
                  ELSE [job[s] EXCEPT !.op = IF job[s].op = "gateway" THEN "paidMail" ELSE "statusMail"])
    /\ UNCHANGED <<paidMails, pushVars, history>>
\* Asking the gateway marks the order too, and mails nothing.
SyncPaymentStatus ==
    /\ ecom = "pending_payment" /\ ecom' = "paid"
    /\ UNCHANGED <<paidMails, raced, replayed, pushVars, history, job, calls>>

-----------------------------------------------------------------------------
(* The goroutines: a mail goes out or fails, and is not tried again; the   *)
(* status mail is followed by a push to the customer's browsers.           *)

Mailed(s, ok) == paidMails' = IF ok /\ job[s].to = "paid" THEN paidMails + 1 ELSE paidMails

sendOrderPaidEmail(s, ok) ==
    /\ job[s].op = "paidMail" /\ Mailed(s, ok)
    /\ Becomes(s, Idle)
    /\ UNCHANGED <<ecom, raced, replayed, pushVars, history>>
Push(op, list) == [Idle EXCEPT !.op = op, !.todo = list, !.total = Count(list)]
FindByUserID(u) == [NoRows EXCEPT ![u] = rows[u]]
SendOrderStatusEmail(s, ok) ==
    /\ job[s].op = "statusMail" /\ Mailed(s, ok)
    /\ Becomes(s, Push("push", FindByUserID(Owner)))
    /\ UNCHANGED <<ecom, raced, replayed, pushVars, history>>

-----------------------------------------------------------------------------
(* Push.  A browser is subscribed once, for whom it was first; there is no *)
(* unique index.  Any account may end the subscription of a browser.       *)

BeginSubscribe(s, u, b) ==
    /\ Copies(b) = 0
    /\ Begin(s, [Idle EXCEPT !.op = "subscribe", !.u = u, !.b = b])
    /\ overlaps' = overlaps + Cardinality({t \in Slots : job[t].op = "subscribe" /\ job[t].b = b})
    /\ UNCHANGED <<orderVars, rows, gone, active, history>>
CommitSubscribe(s) ==
    /\ job[s].op = "subscribe"
    /\ rows' = [rows EXCEPT ![job[s].u][job[s].b] = @ + 1]
    /\ Becomes(s, Idle)
    /\ UNCHANGED <<orderVars, gone, active, overlaps, history>>

DeleteByEndpoint(b) == [u \in Users |-> [rows[u] EXCEPT ![b] = 0]]
Unsubscribe(b) ==
    /\ Copies(b) > 0 /\ rows' = DeleteByEndpoint(b)
    /\ UNCHANGED <<orderVars, gone, active, overlaps, history, job, calls>>

\* Of the active customers only; the digest goes to every row.
PromoRows == [u \in Users |-> IF u \in Customers \cap active THEN rows[u] ELSE NoRows[u]]
SendToEcomCustomers(s) ==
    /\ Begin(s, Push("broadcast", PromoRows))
    /\ UNCHANGED <<orderVars, pushVars, history>>
checkAndNotify(s) ==
    /\ Begin(s, Push("push", rows))
    /\ UNCHANGED <<orderVars, pushVars, history>>

Loops == {"push", "broadcast"}
Failed_Gone(n, b) == IF b \in gone THEN n ELSE n + 1
Failed(n, b) == n + 1
sendPush(s, u, b, ok) ==
    /\ job[s].op \in Loops /\ job[s].todo[u][b] > 0
    /\ ok => b \notin gone
    /\ rows' = IF b \in gone THEN DeleteByEndpoint(b) ELSE rows
    /\ Becomes(s, [job[s] EXCEPT !.todo[u][b] = @ - 1,
                                 !.delivered = IF ok THEN @ + 1 ELSE @,
                                 !.failed = IF ok THEN @ ELSE Failed(@, b)])
    /\ UNCHANGED <<orderVars, gone, active, overlaps, history>>
\* A broadcast is recorded when everyone was tried.
EndPush(s) ==
    /\ job[s].op \in Loops /\ Count(job[s].todo) = 0
    /\ history' = IF job[s].op = "broadcast"
                  THEN [total |-> job[s].total, delivered |-> job[s].delivered, failed |-> job[s].failed]
                  ELSE history
    /\ Becomes(s, Idle)
    /\ UNCHANGED <<orderVars, pushVars>>

SetActive(u) ==
    /\ active' = (active \ {u}) \cup ({u} \ active)
    /\ UNCHANGED <<orderVars, rows, gone, overlaps, history, job, calls>>
BrowserGone(b) ==
    /\ gone' = gone \cup {b}
    /\ UNCHANGED <<orderVars, rows, active, overlaps, history, job, calls>>

-----------------------------------------------------------------------------
Next ==
    \/ \E s \in Slots :
          \/ BeginPgNotification(s) \/ BeginSetShipping(s) \/ BeginConfirmReceived(s)
          \/ \E to \in Statuses : BeginUpdateStatus(s, to) \/ BeginBiteshipWebhook(s, to)
          \/ Commit(s)
          \/ \E ok \in BOOLEAN :
                \/ sendOrderPaidEmail(s, ok) \/ SendOrderStatusEmail(s, ok)
                \/ \E u \in Users, b \in Browsers : sendPush(s, u, b, ok)
          \/ \E u \in Users, b \in Browsers : BeginSubscribe(s, u, b)
          \/ CommitSubscribe(s) \/ SendToEcomCustomers(s) \/ checkAndNotify(s) \/ EndPush(s)
    \/ \E b \in Browsers : Unsubscribe(b) \/ BrowserGone(b)
    \/ \E u \in Customers : SetActive(u)
    \/ SyncPaymentStatus

Spec == Init /\ [][Next]_vars

-----------------------------------------------------------------------------
TypeOK ==
    /\ ecom \in Statuses
    /\ {paidMails, raced, replayed, overlaps} \subseteq Nat
    /\ rows \in [Users -> [Browsers -> Nat]] /\ gone \subseteq Browsers /\ active \subseteq Users
    /\ history \in [total : Nat, delivered : Nat, failed : Nat]
    /\ job \in [Slots -> [op : Loops \cup {"idle", "gateway", "handler", "paidMail", "statusMail", "subscribe"},
                          from : Statuses \cup {""}, to : Statuses \cup {""}, u : Users, b : Browsers,
                          todo : [Users -> [Browsers -> Nat]], total : Nat, delivered : Nat, failed : Nat]]
    /\ calls \in 0..MaxCalls

\* The customer hears of his payment once, whichever of the two sources tells
\* him, unless both wrote it at once or the gateway reported a payment of an
\* order that had gone on.
PaidToldBounded == paidMails <= 1 + raced + replayed

\* A browser has one subscription, whoever made it, unless two requests for it
\* overlapped.
CopiesBounded == \A b \in Browsers : Copies(b) <= 1 + overlaps

\* The record of a broadcast covers every subscription it was meant for, each
\* delivered or failed, even if a browser is found gone half way or its
\* subscription is ended meanwhile; and it was meant for no more browsers than
\* there are, but for overlapping subscriptions.
BroadcastAddsUp ==
    /\ history.delivered + history.failed = history.total
    /\ history.total <= Cardinality(Browsers) + overlaps
=============================================================================
