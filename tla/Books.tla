------------------------------- MODULE Books -------------------------------
(***************************************************************************)
(* The reports on sales and money: what the counter's reports, the profit  *)
(* and loss statement and the storefront's panels compute from the same    *)
(* rows, and the steps that change those rows.                             *)
(*                                                                         *)
(* How an order comes to be paid or cancelled is EcomOrder's and PosSale's; *)
(* here a handler is the one step that leaves its mark on the order's row. *)
(* What suppliers are paid is Invoices'.                                   *)
(* Time runs in half days, as the shop's day and the day of UTC differ: the *)
(* first half ends at seven, when the day of UTC begins.                   *)
(*                                                                         *)
(* A definition X_Y just above X is X with a bug Y this code could have; it *)
(* is used by no other, only to test the properties.                       *)
(***************************************************************************)
EXTENDS Integers, FiniteSets, FiniteSetsExt

CONSTANTS
    Orders,
    Expenses,
    Categories,
    Methods,       \* of payment
    Online,        \* the method of a storefront order
    Goods,         \* an order's price without shipping
    Prices,        \* purchase prices of the goods
    Shipping,      \* shipping costs
    Window,        \* days of the storefront's chart, 30 in the code
    Customers, Buyer,   \* members and storefront accounts, and whose an order is
    MemberRows,    \* rows a member's page reads, 1000 in the code
    Old,           \* bound: rows of earlier orders that no handler touches
    MaxChange,     \* bound: paid beyond the total
    FirstHalf, LastHalf \* bounds: the half days

VARIABLES
    order,      \* [source, st, ecom, at, paid, total, ship, cost, pays]
    price,      \* the purchase price
    expense,    \* [st, day, cat]
    now,
    \* Two of history, that only the properties read.
    crossed,    \* a handler of the counter was used on a storefront order
    apart       \* orders that a storefront handler last wrote in one column alone

vars == <<order, price, expense, now, crossed, apart>>

Never == -1
Shops == {"ecom", "home"} \* the storefront's sources: Bekasi and the home shop
DayOf(t) == t \div 2
Days == 0..DayOf(LastHalf)
\* The storefront's own status: shipped is processing, shipped or delivered, and
\* cancelled is cancelled or expired.
Ecom == {"", "pending_payment", "paid", "shipped", "completed", "cancelled"}
Active == {"paid", "shipped", "completed"}
Parted(r) == r.source \in Shops /\ ~(r.st = "completed" <=> r.ecom \in Active)
NoPays == [m \in Methods |-> 0]
Sum(f) == MapThenSumSet(LAMBDA x : f[x], DOMAIN f)

NoOrder == [source |-> "", st |-> "none", ecom |-> "", at |-> Never, paid |-> Never, total |-> 0, ship |-> 0,
            cost |-> 0, pays |-> NoPays]
NoExpense == [st |-> "none", day |-> 0, cat |-> CHOOSE c \in Categories : TRUE]

Init ==
    /\ order = [o \in Orders |-> IF o \in DOMAIN Old THEN Old[o] ELSE NoOrder]
    /\ price \in Prices
    /\ expense = [e \in Expenses |-> NoExpense]
    /\ now = FirstHalf /\ crossed = FALSE
    /\ apart = {o \in Orders \cap DOMAIN Old : Parted(Old[o])}

Rest == <<price, expense, now, crossed, apart>>
Cross(o) ==
    /\ crossed' = (crossed \/ order[o].source \in Shops)
    /\ UNCHANGED <<price, expense, now, apart>>

-----------------------------------------------------------------------------
(* Sales.  Every item keeps the purchase price of its product.             *)

New(source, st) ==
    [NoOrder EXCEPT !.source = source, !.st = st, !.at = now, !.total = Goods, !.cost = price]

\* Split payments may exceed the total, not fall short of it.
Splits(total) == {p \in [Methods -> 0..total + MaxChange] : Sum(p) \in total..total + MaxChange}

SaleCreate(o, p) ==
    /\ order[o].st = "none" /\ p \in Splits(Goods)
    /\ order' = [order EXCEPT ![o] = [New("pos", "completed") EXCEPT !.pays = p]]
    /\ UNCHANGED Rest
CreatePending(o) ==
    /\ order[o].st = "none"
    /\ order' = [order EXCEPT ![o] = New("pos", "pending")]
    /\ UNCHANGED Rest
CreateOrder(o, source, ship) ==
    /\ order[o].st = "none"
    /\ order' = [order EXCEPT ![o] =
           [New(source, "pending") EXCEPT !.ecom = "pending_payment", !.ship = ship, !.total = Goods + ship]]
    /\ UNCHANGED Rest

\* The storefront's steps that write both columns: the gateway, whatever the
\* status, or an admin confirms the money, ...
BothColumns(o, st, ecom) ==
    /\ order' = [order EXCEPT ![o] = [@ EXCEPT !.st = st, !.ecom = ecom]]
    /\ apart' = apart \ {o} /\ UNCHANGED <<price, expense, now, crossed>>
ConfirmPaid(o) ==
    /\ order[o].source \in Shops /\ order[o].ecom # "paid"
    /\ order' = [order EXCEPT ![o].st = "completed", ![o].ecom = "paid", ![o].paid = now]
    /\ apart' = apart \ {o} /\ UNCHANGED <<price, expense, now, crossed>>
\* ... the customer, an admin, the courier's event or the clock cancels, ...
CancelEcom_OneColumn(o) ==
    /\ order[o].ecom \in Active \cup {"pending_payment"}
    /\ order' = [order EXCEPT ![o].ecom = "cancelled"] /\ UNCHANGED Rest
CancelEcom(o) ==
    /\ order[o].ecom \in Active \cup {"pending_payment"}
    /\ BothColumns(o, "cancelled", "cancelled")
\* ... and the customer, an admin or the clock completes what was shipped.
ConfirmReceived(o) ==
    /\ order[o].source \in Shops /\ order[o].paid # Never
    /\ BothColumns(o, "completed", "completed")

\* Those that write the storefront's column alone.  The gateway tells of a
\* failure or a refund, before or after the payment; ...
NotifyFailed(o) ==
    /\ order[o].source \in Shops /\ order[o].ecom # "cancelled"
    /\ order' = [order EXCEPT ![o].ecom = "cancelled"]
    /\ apart' = apart \cup {o} /\ UNCHANGED <<price, expense, now, crossed>>
\* ... an admin asks the courier, who has cancelled; ...
SyncBiteshipStatus(o) ==
    /\ order[o].ecom \in {"paid", "shipped"}
    /\ order' = [order EXCEPT ![o].ecom = "cancelled"]
    /\ apart' = apart \cup {o} /\ UNCHANGED <<price, expense, now, crossed>>
\* ... and the parcel goes its way.  The handlers read the order before they
\* write it, so it may have been cancelled or completed meanwhile.
SetShipping(o) ==
    /\ order[o].source \in Shops /\ order[o].paid # Never
    /\ order' = [order EXCEPT ![o].ecom = "shipped"]
    /\ apart' = apart \cup {x \in {o} : order[o].ecom \notin Active}
    /\ UNCHANGED <<price, expense, now, crossed>>
\* The courier weighs the parcel again: what the customer paid stays.
AdjustShipping(o, ship) ==
    /\ order[o].paid # Never
    /\ order' = [order EXCEPT ![o].ship = ship]
    /\ UNCHANGED Rest

\* The counter's handlers find an order by its id, whatever its source.
MarkAsPaid(o, p) ==
    /\ order[o].st = "pending" /\ p \in Splits(order[o].total)
    /\ order' = [order EXCEPT ![o].st = "completed", ![o].pays = p]
    /\ Cross(o)
CancelOrder(o) ==
    /\ order[o].st \in {"completed", "pending"}
    /\ order' = [order EXCEPT ![o].st = "cancelled"]
    /\ Cross(o)
RefundCreate(o) ==
    /\ order[o].st # "none"
    /\ order' = [order EXCEPT ![o].st = "refunded"]
    /\ Cross(o)
EditPayments(o, p) ==
    /\ order[o].st = "completed" /\ Sum(p) = order[o].total
    /\ order' = [order EXCEPT ![o].pays = p]
    /\ Cross(o)

-----------------------------------------------------------------------------
(* Expenses of one unit each, prices and the clock.                        *)

CreateExpense(e, cat, day) ==
    /\ expense[e].st = "none"
    /\ expense' = [expense EXCEPT ![e] = [st |-> "live", day |-> day, cat |-> cat]]
    /\ UNCHANGED <<order, price, now, crossed, apart>>
UpdateExpense(e, cat, day) ==
    /\ expense[e].st = "live"
    /\ expense' = [expense EXCEPT ![e] = [st |-> "live", day |-> day, cat |-> cat]]
    /\ UNCHANGED <<order, price, now, crossed, apart>>
DeleteExpense(e) ==
    /\ expense[e].st = "live"
    /\ expense' = [expense EXCEPT ![e] = NoExpense]
    /\ UNCHANGED <<order, price, now, crossed, apart>>
UpdatePrice(p) ==
    /\ p # price /\ price' = p
    /\ UNCHANGED <<order, expense, now, crossed, apart>>
Tick ==
    /\ now < LastHalf /\ now' = now + 1
    /\ UNCHANGED <<order, price, expense, crossed, apart>>

-----------------------------------------------------------------------------
(* The counter's reports, over days from..to and one source or all ("").   *)

Total(os) == MapThenSumSet(LAMBDA o : order[o].total, os)

OfSource_PosOnly(o, source) ==
    \/ source = ""
    \/ source = "home" /\ order[o].source = "home"
    \/ source = "store" /\ order[o].source = "pos"
OfSource(o, source) ==
    \/ source = ""
    \/ source = "home" /\ order[o].source = "home"
    \/ source = "store" /\ order[o].source \in {"pos", "ecom"}

FindCompletedForAggregate(from, to, source) ==
    {o \in Orders : /\ order[o].st = "completed" /\ OfSource(o, source)
                    /\ DayOf(order[o].at) \in from..to}

\* The rows of the split, or the whole total by the order's own method.
PaymentBreakdown(os, m) ==
    MapThenSumSet(LAMBDA o : IF order[o].pays # NoPays THEN order[o].pays[m]
                             ELSE IF m = Online THEN order[o].total ELSE 0, os)
Aggregate(from, to, source) ==
    LET os == FindCompletedForAggregate(from, to, source) IN
    [orders |-> Cardinality(os),
     revenue |-> Total(os),
     payments |-> [m \in Methods |-> PaymentBreakdown(os, m)]]

CostOf_Current(o) == price
CostOf(o) == order[o].cost

SumByCategory(from, to, cat) ==
    Cardinality({e \in Expenses : expense[e].st = "live" /\ expense[e].cat = cat /\ expense[e].day \in from..to})
SumTotal(from, to) ==
    Cardinality({e \in Expenses : expense[e].st = "live" /\ expense[e].day \in from..to})

\* The courier's money is not revenue; expenses have no shop.
ProfitLoss(from, to, source) ==
    LET os == FindCompletedForAggregate(from, to, source)
        revenue == MapThenSumSet(LAMBDA o : order[o].total - order[o].ship, os)
        cogs == MapThenSumSet(CostOf, os)
        spent == SumTotal(from, to)
    IN [revenue |-> revenue, cogs |-> cogs, spent |-> spent, net |-> revenue - cogs - spent]

\* The first page: everything ever completed.
Completed == {o \in Orders : order[o].st = "completed"}
GetRevenueStats == [revenue |-> Total(Completed), count |-> Cardinality(Completed)]

\* The newest rows before a cursor or up to a limit, in any order where the
\* times are equal.
Pages(os, limit) ==
    {page \in SUBSET os : /\ Cardinality(page) = Min({limit, Cardinality(os)})
                          /\ \A o \in page, x \in os \ page : order[o].at >= order[x].at}

\* A member's page, for a range of days and for life, reads the newest rows.
OfMember(c, from, to) ==
    {o \in Completed : Buyer[o] = c /\ order[o].source = "pos" /\ DayOf(order[o].at) \in from..to}
Newest(os) == CHOOSE page \in Pages(os, MemberRows) : TRUE
FindByMember_AnyStatus(c, from, to) ==
    {o \in Orders : Buyer[o] = c /\ order[o].source = "pos" /\ DayOf(order[o].at) \in from..to}
FindByMember(c, from, to) == Newest(OfMember(c, from, to))
GetStats(c, from, to) ==
    [spend |-> Total(FindByMember(c, from, to)), count |-> Cardinality(FindByMember(c, from, to)),
     lifetime |-> Total(FindByMember(c, 0, DayOf(LastHalf)))]
\* The members in the report of a period.
SpentByMember(c, from, to) ==
    Total({o \in FindCompletedForAggregate(from, to, "") : Buyer[o] = c /\ order[o].source = "pos"})

-----------------------------------------------------------------------------
(* The storefront's panels.                                                *)

SumberPesananTempat(location) ==
    CASE location = "store" -> {"ecom"} [] location = "home" -> {"home"} [] OTHER -> Shops

\* The list of customers counts the orders of the shop asked for, whatever
\* their status, and the money of the completed; the page of one, of both shops.
CustomerOrders(c, location) == {o \in Orders : Buyer[o] = c /\ order[o].source \in SumberPesananTempat(location)}
CustomerRow(c, location) ==
    LET os == CustomerOrders(c, location)
    IN [count |-> Cardinality(os), spent |-> Total(os \cap Completed)]
CustomerDetail(c) ==
    LET in(st) == Cardinality({o \in CustomerOrders(c, "") : order[o].st = st})
    IN [count |-> Cardinality(CustomerOrders(c, "")), spent |-> Total(CustomerOrders(c, "") \cap Completed),
        completed |-> in("completed"), pending |-> in("pending"), cancelled |-> in("cancelled")]

\* The list of orders: a page of the newest before the cursor, and the cursor it
\* leaves when it is full.  The counts beside it are of the same shops.
InList(status, location) ==
    {o \in Orders : /\ order[o].source \in SumberPesananTempat(location)
                    /\ status \in {"all", order[o].ecom}}
Before_Again(os, cursor) == {o \in os : order[o].at <= cursor}
Before(os, cursor) == {o \in os : order[o].at < cursor}
NextCursor(page) == Min({order[o].at : o \in page})
CountsByStatus_BothShops(status, location) == Cardinality({o \in InList("all", "") : order[o].ecom = status})
CountsByStatus(status, location) == Cardinality({o \in InList("all", location) : order[o].ecom = status})

Storefront == {o \in Orders : order[o].source \in Shops}

\* The month so far, by the day of payment and the storefront's own status.
GetDashboard(from) ==
    LET os == {o \in Storefront : order[o].ecom \in Active /\ DayOf(order[o].paid) >= from}
    IN [orders |-> Cardinality(os), revenue |-> Total(os)]

\* The chart: from and to are cut at the days of UTC, the bars are the shop's
\* days from the first on.
UtcStart(t) == IF t % 2 = 1 THEN t ELSE t - 1
ChartFrom == UtcStart(now - 2 * (Window - 1))
ChartTo == UtcStart(now + 2)
ChartOrders == {o \in Storefront : order[o].st = "completed" /\ order[o].at >= ChartFrom /\ order[o].at < ChartTo}
Daily(day) == Total({o \in ChartOrders : DayOf(order[o].at) = day})
Bars == {DayOf(ChartFrom + 2 * i) : i \in 0..Window - 1}
Kpi == Total(ChartOrders)
\* The split by method knows only orders with rows of payment.
Channel(m) == MapThenSumSet(LAMBDA o : order[o].pays[m], ChartOrders)

-----------------------------------------------------------------------------
Payments == UNION {Splits(Goods + ship) : ship \in Shipping \cup {0}}

Next ==
    \/ \E o \in Orders \ DOMAIN Old :
          \/ \E p \in Payments :
                SaleCreate(o, p) \/ MarkAsPaid(o, p) \/ EditPayments(o, p)
          \/ \E ship \in Shipping :
                AdjustShipping(o, ship) \/ \E source \in Shops : CreateOrder(o, source, ship)
          \/ CreatePending(o) \/ ConfirmPaid(o) \/ CancelEcom(o) \/ ConfirmReceived(o)
          \/ NotifyFailed(o) \/ SyncBiteshipStatus(o) \/ SetShipping(o)
          \/ CancelOrder(o) \/ RefundCreate(o)
    \/ \E e \in Expenses :
          \/ \E cat \in Categories, day \in Days : CreateExpense(e, cat, day) \/ UpdateExpense(e, cat, day)
          \/ DeleteExpense(e)
    \/ \E p \in Prices : UpdatePrice(p)
    \/ Tick

Spec == Init /\ [][Next]_vars

-----------------------------------------------------------------------------
Row == [source : Shops \cup {"", "pos"}, st : {"none", "pending", "completed", "cancelled", "refunded"},
        ecom : Ecom, at : Never..LastHalf, paid : Never..LastHalf, total : Nat,
        ship : Nat, cost : Nat, pays : [Methods -> Nat]]

TypeOK ==
    /\ order \in [Orders -> Row]
    /\ price \in Prices
    /\ expense \in [Expenses -> [st : {"none", "live"}, day : Days, cat : Categories]]
    /\ now \in FirstHalf..LastHalf /\ crossed \in BOOLEAN /\ apart \subseteq Orders

\* One total, however it is cut: the two shops add up to the whole and the days
\* to the period, for the revenue, the profit and every method of payment; the
\* methods cover the revenue, and expenses add up by category.  From seven on
\* the chart has a bar for today, and its bars add up to its total.  (Before
\* seven it has none: the range is cut at the days of UTC.)
ReportsAddUp ==
    LET last == DayOf(LastHalf)
        whole == Aggregate(0, last, "")
        store == Aggregate(0, last, "store")
        home == Aggregate(0, last, "home")
    IN /\ whole.revenue = store.revenue + home.revenue
       /\ \A m \in Methods : whole.payments[m] = store.payments[m] + home.payments[m]
       /\ Sum(whole.payments) >= whole.revenue
       /\ whole.revenue = MapThenSumSet(LAMBDA d : Aggregate(d, d, "").revenue, Days)
       /\ ProfitLoss(0, last, "").net = MapThenSumSet(LAMBDA d : ProfitLoss(d, d, "").net, Days)
       /\ SumTotal(0, last) = MapThenSumSet(LAMBDA c : SumByCategory(0, last, c), Categories)
       /\ whole.revenue = GetRevenueStats.revenue /\ whole.orders = GetRevenueStats.count
       /\ now % 2 = 1 => DayOf(now) \in Bars /\ Kpi = MapThenSumSet(Daily, Bars)

\* And it is the customers' money: what the members spent, day by day or in all,
\* is what the report says of them, what the list of customers says of the two
\* shops is what their pages say, and together they are the revenue.  A page
\* shows every order under some status, but for one refunded at the counter.
\* A member with more orders than a page reads has a page that shows less.
Overfull(c) == Cardinality(OfMember(c, 0, DayOf(LastHalf))) > MemberRows
CustomersAddUp ==
    LET last == DayOf(LastHalf)
    IN /\ \A c \in Customers :
             /\ ~Overfull(c) =>
                   /\ GetStats(c, 0, last).lifetime
                          = MapThenSumSet(LAMBDA d : GetStats(c, d, d).spend, Days)
                   /\ GetStats(c, 0, last).spend = SpentByMember(c, 0, last)
             /\ CustomerDetail(c).spent = CustomerRow(c, "store").spent + CustomerRow(c, "home").spent
             /\ CustomerDetail(c).count = CustomerRow(c, "").count
             /\ ~crossed => CustomerDetail(c).count
                    = CustomerDetail(c).completed + CustomerDetail(c).pending + CustomerDetail(c).cancelled
       /\ (\A c \in Customers : ~Overfull(c)) =>
             GetRevenueStats.revenue
                 = MapThenSumSet(LAMBDA c : GetStats(c, 0, last).lifetime + CustomerDetail(c).spent, Customers)

\* Nobody misses an order in the list: the next page repeats none and leaves out
\* only orders of the very moment the page ended with, and the counts are those
\* of the list.
ListComplete ==
    \A location \in {"", "store", "home"} :
        /\ \A status \in Ecom \ {""} :
              CountsByStatus(status, location) = Cardinality(InList(status, location))
        /\ \A limit \in 1..Cardinality(InList("all", location)) :
              \A page \in Pages(InList("all", location), limit) :
                 LET cursor == NextCursor(page)
                     rest == Before(InList("all", location), cursor)
                 IN /\ page \cap rest = {}
                    /\ \A o \in InList("all", location) \ (page \cup rest) : order[o].at = cursor

\* The report of a day changes only when an order of that very day becomes or
\* ceases to be completed or a completed one's parcel is weighed again, or with
\* an expense dated to it.  A new price, the sales and cancellations of other
\* days, an edit of the payments, what the storefront alone records and the
\* clock leave it alone.
Reopened(o) == (o \in Completed) # (o \in Completed')
Reweighed(o) == o \in Completed /\ order[o].ship' # order[o].ship
DayKept ==
    \A d \in Days :
        \/ ProfitLoss(d, d, "")' = ProfitLoss(d, d, "")
        \/ \E o \in Orders : DayOf(order[o].at') = d /\ (Reopened(o) \/ Reweighed(o))
        \/ \E e \in Expenses : expense[e]' # expense[e] /\ d \in {expense[e].day, expense[e].day'}
DaysStand == [][DayKept]_vars

\* What the storefront's panel counts as money taken, by its own status, is what
\* the reports count by the order's, but for the orders that a failure told by
\* the gateway, an admin's look at the courier or a late shipment set apart:
\* until a handler of the counter, which writes only one of the two, was used on
\* a storefront order.  Until then, too, the panel's split by method is empty:
\* only the counter writes its rows.
PanelsAgree ==
    ~crossed =>
        /\ GetDashboard(0).revenue + Total({o \in Storefront \cap apart : order[o].st = "completed" /\ order[o].ecom \notin Active})
               = Total({o \in Storefront : order[o].st = "completed"})
                 + Total({o \in Storefront \cap apart : order[o].st # "completed" /\ order[o].ecom \in Active})
        /\ \A m \in Methods : Channel(m) = 0
=============================================================================
