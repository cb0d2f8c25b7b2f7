--------------------------------- MODULE Back ---------------------------------
(***************************************************************************)
(* What comes after an order, and the office: the courier, refunds and     *)
(* complaints, supplier invoices, the reports, messages, price history.    *)
(* They share no row and no lock here, so a behaviour is one of them from  *)
(* its first state on: part says which.                                    *)
(*                                                                         *)
(* Invoices is extended and keeps its names; the others are instances.     *)
(***************************************************************************)
EXTENDS Invoices, Sequences

CONSTANTS
    MaxLost,
    Complaints, NoComplaint, Waiting, NoOne, Quantity, Charged, Ratings,
    MaxRefunds, MaxReopened, MaxArmed,
    Parcels, TempatDariOrderSource, NoParcel, Env, Pickups, Areas, Weights, MaxEdits, MaxBooked,
    Orders, Expenses, Categories, Methods, Online, Goods, PurchasePrices, Shipping, Window,
    Customers, Buyer, MemberRows, Old, MaxChange, FirstHalf, LastHalf,
    Accounts, Staff, Owner, Browsers, MaxNotices,
    Sales, Phones, Digits, NoPhone, Admins, Gap, ReceiptLimit, NoticeLimit, LastTick, MaxLostAnswers, MaxCalls,
    Tags, MaxMissed, MaxChanges

VARIABLES
    part,
    status, received, complaint, settled, reopened, refunds, shelf, review, hide, raced,
    alert, armed, mails, lostMails, afterReq,
    pickup, address, weight, parcel, shipments, lostShipments, edits, courierReq,
    order, price, expense, now, crossed, apart,
    ecom, paidMails, racedPaid, replayed, rows, gone, active, overlaps, history, notice, notices,
    sale, lastSent, tick, call, arrived, bursts, overlapping, lostAnswers, calls,
    priced, opened, newest, missed, writer, astray, changes

Claims == INSTANCE AfterSale WITH Total <- Charged, lost <- lostMails, req <- afterReq
Parcel == INSTANCE Courier WITH
        Orders <- Parcels, NoOrder <- NoParcel, order <- parcel, lost <- lostShipments, req <- courierReq
Ledger == INSTANCE Books WITH Prices <- PurchasePrices
News == INSTANCE Notices WITH
        Customers <- Accounts, MaxCalls <- MaxNotices, raced <- racedPaid, job <- notice, calls <- notices
Chat == INSTANCE WhatsApp WITH
        Orders <- Sales, MaxLost <- MaxLostAnswers, order <- sale, now <- tick, job <- call,
        overlaps <- overlapping, lost <- lostAnswers
Log == INSTANCE PriceLog

-----------------------------------------------------------------------------
(* What is assumed of the constants: sets that are finite, bounds that are *)
(* numbers, and names of nothing that name nothing.                        *)

InvoicesAssumed ==
    /\ LastDay \in Nat /\ MaxSaves \in Nat /\ MaxRestarts \in Nat
    /\ Terms \subseteq Nat \cup {NoTerms}

AfterSaleAssumed ==
    /\ IsFiniteSet(Slots) /\ IsFiniteSet(Complaints) /\ NoComplaint \notin Complaints /\ NoOne \notin Waiting
    /\ 0 \notin Ratings \* the rating of no review
    /\ MaxRefunds \in Nat /\ MaxReopened \in Nat /\ MaxArmed \in Nat /\ MaxLost \in Nat
    /\ Quantity \in Nat /\ Charged \in Nat

\* Shops have pickup points, weights are numbers.
CourierAssumed ==
    /\ TempatDariOrderSource \in [Parcels -> Parcel!Shops]
    /\ Pickups \cup {Env} \subseteq [area : Areas \cup {Parcel!Empty}, contact : BOOLEAN, coords : BOOLEAN]
    /\ IsFiniteSet(Slots) /\ Weights \subseteq Nat
    /\ MaxEdits \in Nat /\ MaxBooked \in Nat /\ MaxLost \in Nat

\* An earlier order is one the same handlers left, none of the counter's on an
\* order of the storefront.
Earlier(r) ==
    /\ r \in Ledger!Row /\ r.st # "none" /\ r.at \in 0..FirstHalf
    /\ r.source \in Ledger!Shops \cup {"pos"} /\ (r.source = "pos" <=> r.ecom = "")
    /\ r.paid \in Ledger!Never..FirstHalf /\ (r.ecom \in Ledger!Active => r.paid # Ledger!Never)
    /\ r.pays = Ledger!NoPays \/ Ledger!Sum(r.pays) >= r.total
    /\ r.source \in Ledger!Shops => r.st # "refunded" /\ r.pays = Ledger!NoPays
BooksAssumed ==
    /\ IsFiniteSet(Orders) /\ IsFiniteSet(Customers) /\ Buyer \in [Orders -> Customers]
    /\ IsFiniteSet(Expenses) /\ IsFiniteSet(Categories) /\ Categories # {}
    /\ IsFiniteSet(Methods) /\ Online \in Methods
    /\ Goods \in Nat /\ PurchasePrices \subseteq Nat /\ Shipping \subseteq Nat /\ MaxChange \in Nat
    /\ Window \in Nat \ {0} /\ MemberRows \in Nat \ {0} /\ FirstHalf \in Nat /\ LastHalf \in Nat /\ FirstHalf <= LastHalf
    /\ \A o \in DOMAIN Old : Earlier(Old[o])

NoticesAssumed ==
    /\ IsFiniteSet(Slots) /\ IsFiniteSet(Accounts) /\ IsFiniteSet(Staff) /\ Owner \in Accounts
    /\ IsFiniteSet(Browsers) /\ Browsers # {} /\ MaxNotices \in Nat

WhatsAppAssumed ==
    /\ IsFiniteSet(Slots) /\ IsFiniteSet(Chat!Contacts) /\ NoPhone \notin Phones
    /\ Admins \in Seq(Phones)
    /\ {Gap, ReceiptLimit, NoticeLimit, LastTick, MaxLostAnswers, MaxCalls} \subseteq Nat

PriceLogAssumed ==
    IsFiniteSet(Slots) /\ Tags \subseteq Nat \ {0} /\ MaxMissed \in Nat /\ MaxChanges \in Nat

ASSUME BackAssumption ==
    /\ InvoicesAssumed /\ AfterSaleAssumed /\ CourierAssumed /\ BooksAssumed
    /\ NoticesAssumed /\ WhatsAppAssumed /\ PriceLogAssumed

-----------------------------------------------------------------------------
(* The state and the steps.                                                *)

afterVars ==
    <<status, received, complaint, settled, reopened, refunds, shelf, review, hide, raced,
      alert, armed, mails, lostMails, afterReq>>
courierVars == <<pickup, address, weight, parcel, shipments, lostShipments, edits, courierReq>>
bookVars == <<order, price, expense, now, crossed, apart>>
noticeVars ==
    <<ecom, paidMails, racedPaid, replayed, rows, gone, active, overlaps, history, notice, notices>>
whatsAppVars == <<sale, lastSent, tick, call, arrived, bursts, overlapping, lostAnswers, calls>>
priceVars == <<priced, opened, newest, missed, writer, astray, changes>>

BackInit ==
    /\ part \in {"after", "courier", "invoices", "books", "notices", "whatsapp", "prices"}
    /\ Claims!Init /\ Parcel!Init /\ Init /\ Ledger!Init /\ News!Init /\ Chat!Init /\ Log!Init
    /\ part # "courier" => pickup = [l \in Parcel!Shops |-> CHOOSE p \in Pickups : TRUE]
    /\ part # "books" => price = CHOOSE p \in PurchasePrices : TRUE

BackNext ==
    /\ UNCHANGED part
    /\ \/ part = "after" /\ Claims!Next
          /\ UNCHANGED <<courierVars, vars, bookVars, noticeVars, whatsAppVars, priceVars>>
       \/ part = "courier" /\ Parcel!Next
          /\ UNCHANGED <<afterVars, vars, bookVars, noticeVars, whatsAppVars, priceVars>>
       \/ part = "invoices" /\ Next
          /\ UNCHANGED <<afterVars, courierVars, bookVars, noticeVars, whatsAppVars, priceVars>>
       \/ part = "books" /\ Ledger!Next
          /\ UNCHANGED <<afterVars, courierVars, vars, noticeVars, whatsAppVars, priceVars>>
       \/ part = "notices" /\ News!Next
          /\ UNCHANGED <<afterVars, courierVars, vars, bookVars, whatsAppVars, priceVars>>
       \/ part = "whatsapp" /\ Chat!Next
          /\ UNCHANGED <<afterVars, courierVars, vars, bookVars, noticeVars, priceVars>>
       \/ part = "prices" /\ Log!Next
          /\ UNCHANGED <<afterVars, courierVars, vars, bookVars, noticeVars, whatsAppVars>>

backVars == <<part, afterVars, courierVars, vars, bookVars, noticeVars, whatsAppVars, priceVars>>
BackSpec == BackInit /\ [][BackNext]_backVars

-----------------------------------------------------------------------------
AllTypesOK ==
    /\ part = "after" => Claims!TypeOK
    /\ part = "courier" => Parcel!TypeOK
    /\ part = "invoices" => TypeOK
    /\ part = "books" => Ledger!TypeOK
    /\ part = "notices" => News!TypeOK
    /\ part = "whatsapp" => Chat!TypeOK
    /\ part = "prices" => Log!TypeOK

\* What overlapping handlers can double, and no more than that: complaints of
\* one order, mails to one customer, shipments of one order, subscriptions of
\* one browser, messages to one contact within the gap, open rows
\* of the price history.
DoublesBounded ==
    /\ part = "after" => Claims!OneActiveBounded /\ Claims!AlertsBounded
    /\ part = "courier" => Parcel!BookedBounded
    /\ part = "notices" => News!PaidToldBounded /\ News!CopiesBounded
    /\ part = "whatsapp" => Chat!GapKept
    /\ part = "prices" => Log!OpenBounded

DecisionsHold == part = "after" => Claims!DecisionsHold
BookedAsQuoted == part = "courier" => Parcel!BookedAsQuoted

\* Two places that say the same thing agree: reports, panels and lists, paid invoices,
\* broadcasts, the price history.
ReportsAddUp ==
    /\ part = "books" => Ledger!ReportsAddUp /\ Ledger!CustomersAddUp /\ Ledger!PanelsAgree /\ Ledger!ListComplete
    /\ part = "invoices" => PaidIsDated
    /\ part = "notices" => News!BroadcastAddsUp
    /\ part = "prices" => Log!HistoryTells

\* What is past does not change behind it: a day's report, a payment.
PastStands ==
    [][(part = "books" => Ledger!DayKept) /\ (part = "invoices" => PaymentKept)]_backVars
=============================================================================
