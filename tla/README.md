# Verification of the Toko Bahan Kue Santi backend

TLA+ models, TLC runs and TLAPS proofs for the Go backend in `src/`: a cash
register (POS) and a storefront that share one database, two shops ("home" and
"second"), a payment gateway and a courier. The models are translated from
the code; `PROJECT.json` maps every definition to the lines it stands for.

## 1. The system

The process is one Fiber HTTP server over MySQL (InnoDB, gorm, REPEATABLE
READ) with Redis beside it and a scheduler in the same process
(`internal/cron/scheduler.go`). Each request runs in its own goroutine. Two
patterns decide what can go wrong:

* A handler **reads first and writes later**. `First(&order)` runs outside the
  transaction, the checks look at that copy, and the transaction writes by
  primary key. Only a few UPDATEs repeat the condition in their WHERE clause
  (the stock decrements of checkout and sales, the group updates of proof and
  sync, auto-complete), and only member points and counter cancellations lock
  the row.
* Some entities are written by **full saves** (`db.Save(&row)`): the write
  carries every column as it was read.

So each handler is modelled as `Begin…` (what it reads and decides) and
`Commit…` (what it writes, with the guard the WHERE clause carries), with
`Abandon` for a failure, a rollback or a restart between the two.

### Components

| Component | State it keeps | Operations | Interacts with |
|---|---|---|---|
| Storefront orders (`ecom_checkout`, `ecom_orders`, `ecom_admin_orders`, scheduler) | `orders.ecom_status`, `orders.status`, payment proof, courier id, `products.stock`, `stock_movements` | checkout, customer cancel, proof, retry, sync, confirm; gateway webhook; admin status, AWB, booking, sync; courier webhook; expire and auto-complete jobs | gateway, courier, stock, vouchers, cart |
| Counter sales (`order_usecase`, `refund_usecase`) | `orders`, `order_payments`, `stock_batches`, Redis request ids | create, park, pay, drop, cancel, edit payments, refund | stock, batches, members, gifts |
| Members and gifts (`member_usecase`, `redeemable_usecase`) | `members.points`, point movements, gift stock | edit, earn, redeem, yearly reset | counter sales |
| Stock (`inventory_usecase`, `product_usecase`) | `products.stock`, `stock_batches`, `stock_movements` | movement in/out, stock count, product create/edit, admin stock edit | everything that sells |
| Prices and vouchers (`ecom_pricing`, `ecom_voucher`, `product_usecase`) | `vouchers.used_count`, tiers, the rows of the price history | price a line, validate, apply, edit; save a price and log it | checkout, product page |
| Pages and cart (`tempat.go`, `ecom_public`, `ecom_cart`) | a settings row per shop, two 60 s caches, `ecom_cart_items` | which shop is shown, lists and pages, add, change, remove | checkout |
| Addresses (`ecom_address`) | `ecom_addresses` and which is the default | create, update, delete, set default | checkout |
| Accounts (`auth_usecase`, `rbac.go`) | `users`, reset codes and session copies in Redis, issued tokens | register, log in, renew, edit, block, reset a password | every request |
| Courier bookings (`biteship.go`, `ecom_shipping`, `ecom_admin_orders`) | pickup points, weights, the order's copy of the address, the shipments at the courier | quote, book, save the id | storefront orders |
| After the sale (`ecom_admin_refunds`, `ecom_complaint`, `ecom_review`, `ecom_restock_alert`) | `ecom_refunds`, `ecom_complaints`, `ecom_reviews`, `ecom_restock_alerts` | submit, reply, refund, review, hide, notify | orders, stock, e-mail |
| Supplier invoices (`purchase_invoice_usecase`, scheduler) | header, lines, payment status, reminder mark | create, edit, pay, delete, remind at nine | WhatsApp |
| Mails and push (`ecom_admin_orders`, `push_usecase`, `ecom_admin_broadcasts`) | push subscriptions, the record of a broadcast | tell a customer of a milestone, subscribe, broadcast | storefront orders, accounts |
| WhatsApp (`whatsapp.go`, receipts, bills) | the time of the last message to each contact | send a receipt or a bill again, tell the admins | counter sales |
| Reports and panels (`order_usecase`, `dashboard`, `ecom_admin_*`, `expense`, `member`) | `orders`, `order_items`, `order_payments`, `expenses` (read) | revenue, profit and loss, customers, chart, list of orders | everything that sells |
| Cash sessions, capital, cash book, suppliers, categories, devices, HTTP surface, start-up | rows written once, wiring | – | – |

`PROJECT.json` lists every one with its sources and what is or is not
modelled; "not modelled" is said with the reason.

### What is hard

`PROJECT.json` "hazards" lists, each at its line, what a test would hardly
reach: overlapping handlers that decided on the same stale row, gateway and
courier messages that are late, duplicated or out of order, cron jobs racing
customers, crashes between two transactions of one handler, resubmitted sales,
full saves over newer values, and the long sequences of cancellations that must
return stock exactly once.

What makes each component correct, in a sentence:

* storefront orders: stock is never oversold and explained by its movements wherever
  no statement failed unseen; a dead order gave its stock back exactly once; one payment or
  proof covers every order of its checkout; what counts as revenue is what was
  sold; reservations end;
* counter sales: a sale submitted twice is recorded once; a completed sale took
  its stock once and is paid once; batches lose what was sold, oldest first;
* members: the balance is never negative and is explained by its movements;
* stock: the movement rows explain the balance, but where a statement failed unseen; it is overdrawn by a bounded amount at
  most, and batches are opened oldest first;
* prices: a bulk price is the shop's rule to the rupiah and never dearer than the
  plain price; the history's newest row is the price in force;
* vouchers: a count never runs ahead of the orders that carry the code, and goes
  over its limit by no more than the handlers that overlap; the discount the cart
  was told is the one the checkout gives;
* pages and cart: a change of the settings shows at once unless a page was just
  loading, and in the end always; what the pages offer and the cart shows is what
  the checkout accepts, at that price, but for hidden shops and deleted products;
* addresses: one default;
* accounts: one password per reset code, up to handlers that overlap; every copy of
  a role follows its row in the end;
* courier: it is asked for what it quoted; no shipment is booked twice but by
  overlapping clicks and lost answers;
* after the sale: one active complaint an order, a refund ends the complaint it
  names, a hidden review is not counted, one mail for each alert;
* invoices: paid stays paid and dated, one reminder on the day one is due;
* messages: a payment is told once, a contact is not written to within the gap;
* reports: two places that compute the same figure agree, but for orders whose two
  status columns part; a day's profit changes only with that day's own orders and
  expenses.

## 2. Modules

### EcomOrder — the life of a storefront order

One row per order: `ecom` is `orders.ecom_status`, `status` is `orders.status`
(the column the revenue reports filter on), `proof` the orders with a
`payment_proof`, `resi` the ones with a `biteship_order_id`. `stock` and
`ledger` are `products.stock` and the signed sum of `stock_movements`.
`returned` counts, per order, the movement rows of reason "cancel". The
gateway is `links` (payments it knows) and `notif` (outcomes it may report, any
number of times); `unmatched` are notifications answered 404. `bookings` counts
what exists at the courier. `slipped` are the products that a failed payment's restock
put back without a movement row, or logged without putting back: the gateway's branch
looks at no error but the first, so any of its statements may fail while the rest is
committed (`RestockUnchecked`; `MayLose` says on which products TLC lets that happen).
`req[s]` is what the handler running in slot `s`
has decided: its operation, the orders and the target status.

Every handler of `EcomOrderService`, `EcomAdminOrderService`, the two webhooks
and the two cron jobs is an action pair. The handlers' own re-checks are where
the code has them: `Reservable` (the decrement's `stock >= ?`), `PendingOf`
(WHERE `ecom_status = 'pending_payment'` of proof and sync), `AutoCompletable`
(one UPDATE, one action). Where the code re-checks with a plain SELECT in the
transaction (expire job) the re-check belongs to `Begin`.

Simplifications: quantities are per order and product; vouchers, prices,
addresses and shipping cost do not influence the life cycle and are left out;
checkout reads and clears the cart in the same request, so the cart is not a
variable; `created_at` and `ecom_delivered_at` are the sets `aged` and `ripe`;
several courier states that map to the same order status are one event each; the
courier webhook finds an order by the booked id or by reference id, so it needs
a booking, not a saved id.

### PosSale — the cash register

One product with its batches, gifts to redeem, one member. A ticket is what the
cashier means to sell once; `<<ticket, n>>` are the orders it became and
`<<ticket, k>>` the request ids it was sent with. `cache` is Redis, `recent`
the orders younger than the duplicate window, `answers` which order a submission
was answered with. `out` counts how often an order's units left the stock minus
how often they came back, `paid` its sets of payment rows. `Unseen` names the writes
whose errors the code does not look at: the stock of a cancellation or refund, the
status of a refund (`missed` are such orders) and the batches (`skipped` once one was
not saved).

`Create` is `AnswerCreate` (found in Redis or in the window) or `BeginCreate`,
`CommitCreate`, `RememberCreate`: Redis is told after the commit. `consumeFIFO`
works on the batches the transaction's snapshot shows: with a gift line (or in
`MarkAsPaid`) the first read is before the row lock, so the snapshot can be
older than the lock.

Simplifications: one product and one member; a refund takes the whole order
(partial refunds are planned); gifts are read before product lines; a full save
of the order in `MarkAsPaid` re-inserts no payment rows.

### Reservation — what EcomOrder promises

`Reservation` is what a customer expects: the orders of one checkout get their
goods together or not at all, and each order's goods go back once, all of them.
The mapping sends `stock` to the free goods and an order to "free", "held" or
"released" by what has been returned for it (`Held`); the statuses disappear.

### PackPrice, EcomBill — what a checkout charges

`PackPrice` holds the pure rules: which tier fits (`tierSedangBerlaku`,
`parseJadwalTier`), the line price in packs, the voucher's discount. Money is in
hundredths of a rupiah, as DECIMAL(15,2) stores it, so quotients are rounded where
the code rounds them. Time is counted in thirds of a day: midnight, 07:00 and noon
are the instants the two date parsers (one in Asia/Jakarta, one in UTC) tell apart.

`EcomBill` puts them in a checkout, and the cart's question beside it (`Validates`,
`CartSubtotal`, `Quote`: the same voucher over the cart's own sum): `tiers` and `voucher` are the tables, `takers`
says which orders carry a code, `done` which checkouts exist. A checkout reads both
tables in its snapshot and computes one bill per shop (`BeginCheckout`), then counts
each voucher by one UPDATE (`CommitCheckout`) or rolls back (`Abandon`). An admin's
edit of a voucher is a read and a full save, so it writes back the `used_count` and
`deleted_at` it read. A tier's edit is a delete and a save. `TierColumns` is the
table as the migrations make it: the tier query names `deleted_at`, which it lacks,
and falls back to the plain price (section 6); the price properties are therefore
stated of the rule itself. The home panel's tier update and delete
(`ecom_admin_catalog_usecase.go:147-154`) have the same query and answer 404; the
counter's endpoint, which the model follows, works.

### StockRoom — what moves the shelf beside a sale

Per product: `status` is the row and its `deleted_at`, `stock` is
`products.stock`, `card` the signed sum of its `stock_movements` in pieces,
`batches` its `stock_batches` in the order of `received_at`. `added` and `removed`
count what the code moves with no movement row: patches of the stock, and the
counter's cancellations and refunds. `gone` remembers products that were once
deleted, `slipped` those whose shelf moved without a movement row, or whose row was
written without moving the shelf, because a statement failed and nobody looked: `Moved`
has both outcomes, `Consume` saves any part of the batches, and `Unseen` says which of
these failures may strike. `req[s]` holds what a handler has read outside its
transaction.

Movements in and out, counts, hand consumption and the saves of the product page
(`Update`, `ToggleActive`, `SetRedeemable`) are `Begin` and `Commit`; creation,
deletion and patches are one transaction or one statement. An UPDATE of a deleted
product matches nothing (`Stocked`), its movement row is written all the same. A
counter sale is one action: the UPDATE locks the product before the transaction
reads the batches. `MarkAsPaid`, whose snapshot is older, is in PosSale.

`Alone` names the operations that are done while the shop is closed: nothing is
written between their read and their write. The properties say which of them they need; a
count over a sale, or batches consumed by hand over one, is a race the code does not
guard (section 6).

Simplifications: boxes are pieces; a counter sale has one line (the batches of a
second one are read in the snapshot of the first); two batches never arrive in the same second; the
payment status of a movement is left out; the price history is PriceLog's.

### ShopPage — pages, caches and the cart

`settings` are the two rows of `ecom_settings`, `shown` and `names` the two caches of
`tempat.go`, `goods` the product rows, `cart` the rows of one customer. A cache miss is
two actions, the query and the store, for nothing is locked between them; a change of
the settings is the write and, later, the clearing of both caches. `behind` remembers
caches that a reader filled with a value already replaced. Lists, product pages,
suggestions, the cart's lines and problems, and what a checkout accepts are four
pieces of code with their own conditions; here they are operators over the same rows,
so that one invariant can compare them. A deleted product (`gone`) leaves every query;
the cart does not show it, and the checkout of a cart that holds it fails. A hidden shop
leaves the pages and the checkout, not the cart. Prices are those of one piece, which is what
the tier query leaves (section 6). "Buy now" and guests' carts are left out.

### Addresses — one default

Every handler reads, clears the mark on the other rows and saves a whole row, in
statements of their own. Whether the count or the clearing succeeded is not looked at
(`Create`, `UnsetOthers`): the row is saved as default in any case. `torn` says that
handlers overlapped, stopped half way or failed to clear the mark since a default was
last set: then the code promises nothing.

### Accounts — rows, tokens, sessions, codes

An e-mail address is an account for good. Each edit reads the row and saves all of
it; `session` is the role in `user:session:<id>`, `tokens` the roles in tokens not yet
expired. `ConfirmPasswordResetOTP` is call by call: `MatchCode`, `ReadForReset`,
`SaveReset`, `SpendCode`. `uses[c]` counts the passwords saved with a code.

### Courier — quoted and booked

`GetRates` and `CreateBiteshipShipment` build their requests from rows that may change
in between: `pickup` (per shop, over the environment's), `address`, `weight`. An order
keeps courier and service as the page sent them, possibly by the display name an older
page used, and the booking normalises both. `quote` is what the price was made from, `shipments`
what the courier was asked for. The booking is read, call and save; `lost` counts
answers that never came back. The life of the order is EcomOrder's.

### AfterSale — complaints, refunds, reviews, alerts

One storefront order that was shipped. Submitting a complaint and editing a review are
a check and a later write; a refund with its goods and its complaint is one
transaction; the restock job reads the waiting customers once and mails and marks them
one at a time. A count of complaints that failed is taken for none, and a mark that failed
is not missed: `lost` counts both.

### Invoices — supplier invoices and their reminder

`invoices` is the header row, `lines` which request's items are in the table, `day` and
`nine` the calendar. Edits and payments read and save the whole header. The reminder
loop sleeps to the next nine o'clock, reads what is due (`ReadDue`), sends
(`SendReminder`) and marks (`MarkReminderSent`); the process may stop anywhere and is
started again (`Stop`, `Start`). `silent` are the days nobody could be reached, `late`
the invoices whose due date was entered too late for its own morning.

### Books — reports over the same rows

Each order is its row: source, both status columns, day, payment day, total, shipping,
cost and payment rows. The handlers that leave a mark on it are one action each; the
reports, panels, pages and lists are operators. Most storefront handlers write both
status columns; a failure told by the gateway (`NotifyFailed`), the courier sync
(`SyncBiteshipStatus`) and the shipping steps (`SetShipping`) write `ecom_status`
alone, and `apart` are the orders last written so that the two columns may disagree.
`crossed` says that a handler of the counter was used on a storefront order. A member's
page reads the newest `MemberRows` orders, 1000 in the code. Time runs in half days, because the chart cuts
its range at the days of UTC.

### Notices, WhatsApp — who is told, how often

`Notices`: an order's milestones and the goroutines that mail them, push subscriptions,
broadcasts with their record, and the seven o'clock digest. `WhatsApp`: the process-wide
time of the last message per contact, read under a lock and written under it again, with
the wait between; numbers are a prefix and the rest, because they are typed in several
forms and normalised (`normalizePhone`).

### PriceLog — the history of prices and tiers

A change saves the price, then closes the open rows, then writes a new one, with no
transaction around the three. `astray` are the kinds whose last change overlapped another
one or was not logged.

### Front — accounts, pages and addresses in one specification

Accounts, ShopPage and Addresses share no row and no lock, so interleaving them would only
multiply the states: `part` is chosen once, and the behaviour is that component's; the
others keep their initial state, in which their properties hold.

### Back — what happens behind the counter

Back extends Invoices and takes AfterSale, Courier, Books, Notices, WhatsApp and PriceLog
as instances; `part` chooses one of the seven as in Front. `BackAssumption` is what
their constants have to be.

### MCEcomOrder, MCPosSale, MCEcomBill, MCStockRoom, MCFront, MCBack

The instances TLC checks: orders and carts chosen so that the interesting case
happens (flour for one of the two orders that want it; two tills that want three
units of two; a voucher with one use and three checkouts; "3 for 29.000", whose
price per piece does not divide), and the bounds named below.

`MCFront` is an instance of Front, `MCBack` one of Back.

### The `*_proofs` modules

The theorems of EcomOrder, PosSale, EcomBill, StockRoom, Front (Accounts, ShopPage and
Addresses), AfterSale, Courier and Back (all seven of its parts); see section 5.

## 3. Runs

| Run | Question | Bounds |
|---|---|---|
| `ecom_concurrent` | two overlapping handlers, the gateway and the expire job over a two-store checkout and a rival: nothing oversold (`StockNonNegative`), a checkout and its transfer proof are all or nothing (`GroupsTogether` = `StoresTogether` and `ProofCoversGroup`), movements explain the stock (`LedgerExact`, but for `slipped` products), a payment covers the checkout (`PgPaysWholeGroup`), and the sync respects others' decisions (`SyncKeepsDecisions`) | 3 orders, 2 slots (one is also the cron's), `MaxReturns` 1, `MayLose` the flour, `RivalOnlyChecksOut` |
| `ecom_serial_manual` | bank transfer, one request at a time: `StockBackExactlyOnce`, `RevenueExact` (revenue counts the sold orders and no other: `RevenueIsSold` and `SoldIsRevenue`), and the orders are a `Reservation` (`KeepsReservations`) | 3 orders, `OneAtATime`, `MaxReturns` 2 |
| `ecom_serial_full` | gateway, courier and retry on, one request at a time: `TypeOK`, `TerminalUnlessGateway` | 1 order, both payment attempts, `MaxReturns` 2, `MaxBookings` 2, `MayLose` the sugar |
| `ecom_liveness` | `OrdersEnd` under the cron's fairness: an abandoned reservation ends (`ReservationEnds`), a delivered order closes (`DeliveredCloses`) | 2 orders, one HTTP slot beside the cron |
| `pos_concurrent` | two tills after the same units and points, corrections in between: `NothingOverdrawn` (stock and points), `PointsExact` | 2 tickets, 1 order each, 2 slots, `Unseen` the stock of a return |
| `pos_serial` | resubmissions with old and new request ids, one request at a time: `NoDoubleSale`, `CompletedOnce` (a completed sale took its stock and is paid once, and a repeated answer is for the same items: `CompletedTookStock`, `PaidOnce`, `DedupOnlySameItems`), `BatchesInOrder` (`BatchesFollowSales`, `OldestFirst`), `TypeOK` | 2 tickets, 2 orders and 2 request ids each, `FewOrders` (3 orders and lost writes together), every write of `Unseen`, batches `<<1, 2>>` |
| `bill_checkout` | two overlapping handlers, an admin who edits and deletes, a clock: voucher counts (`CountsAddUp`: never ahead of the orders, one use a checkout; `OverrunBounded`), prices (`NeverDearer`; `PricesAsAnnounced`: the pack rule, the quoted pack, together never dearer, first and last day, and the code's discount the cart was told), `TypeOK` | 3 checkouts, 2 slots, 2 vouchers (one with a limit of 1, one edited), `MaxTiers` 2, `LastTime` 3 (a day and the next midnight), `Quantities` up to 7 |
| `stock_room` | two overlapping handlers of the stock room beside sales, returns and the product page: movements explain the shelf (`StockOnCard`), a bounded overdraft (`OverdrawBounded`), `TypeOK`; any statement whose error the code ignores may fail (`Unseen`) | 1 product, 2 slots, `Amounts` 1 and 2, `MaxStock` 2, `MaxOffCard` 1, `MaxBatches` 2, counts `Alone` |
| `front_of_shop` | one of Accounts, ShopPage, Addresses, with overlapping handlers: `CodeSpentBounded`; `ChangesShowAtOnce`, `CartForetellsCheckout`; `OneDefault`; under fairness `EveryCopyCatchesUp` (session copies, tokens and both caches follow their rows in the end); `AllTypesOK` | 2 slots; 1 account, `MaxCodes`, `MaxEdits`, `MaxRenewals`, `MaxLost` 1; 2 products of two shops, `MaxStock` 2, `MaxPageEdits` 2, deletions among them; 3 addresses |
| `back_office` | one of AfterSale, Courier, Invoices, Books, Notices, WhatsApp, PriceLog: `DoublesBounded` (how often overlaps and lost answers can double a complaint, an alert's mail, a shipment, a payment mail, a subscription, a message, an open price), `DecisionsHold`, `BookedAsQuoted`, `RemindedOnce`, `ReportsAddUp` (with `CustomersAddUp`, `PanelsAgree`, `ListComplete`, `PaidIsDated`, `BroadcastAddsUp`, `HistoryTells`), `PastStands` (`DayKept`: a day's profit changes only with its own orders and expenses; `PaymentKept`), `AllTypesOK` | 2 slots; 3 complaints, 1 refund, `OneMishap`; 1 parcel, 2 pickup points and areas, 1 edit, 3 shipments; 1 invoice, 3 days, 2 saves, 1 restart; 4 orders (3 `Old`), `MemberRows` 2, 1 expense, 2 prices, half days 2 and 3; 2 accounts, 1 browser, 3 calls; 1 contact in 2 spellings, 3 ticks, 3 calls; 4 price changes |
| `find_tier_ignored` | violated: a checkout charges the plain price though a bulk price is set | 1 checkout |
| `find_sync_no_restock` | violated: the admin's courier sync cancels an order without returning its stock | 1 order |

The bounds. `MaxReturns` bounds how often one order's stock is given back; one
more than is right shows every wrong return. `MaxBookings` bounds the courier
bookings of an order. `Attempts` is which payments of a group are made.
`RivalOnlyChecksOut` cuts what the rival does after it has checked out in the
concurrent run; the serial runs go through those phases. `OneAtATime` keeps the outside
jobs from running between a read and a write when there is one slot.
`LastTime` is one day and
the midnight after it, enough for a schedule to open and close at both of its ends;
`MaxTiers` lets a good tier and one dearer than the plain price compete;
`Quantities` holds less than a pack, whole packs and packs with a rest. Checkouts
and slots of `bill_checkout` are interchangeable, nothing tells them apart, so the
run reduces by their symmetry; its properties are invariants.
`MaxStock` 2 holds one large movement or two small ones, `MaxOffCard` one piece moved
without a row each way, and `MaxBatches` an older and a newer batch; `Bounded` keeps
the card of a deleted or `slipped` product, which drifts, in the same range. `Unseen`
holds every statement the code does not look at; a second failure about one product
changes nothing the properties say, so there is one. The two slots of
`stock_room` are interchangeable too.
`MaxOrders`, `MaxClients` and `FewOrders` bound resubmissions: a duplicate is
two orders of one ticket. Two slots are enough for every race of the code: each
decides on one stale read against one other handler's write, and the second
handler may run any number of complete requests in between.

In the two composed runs each bound is the least at which the case it is for happens:
one code and two slots let two submissions use it, a third address makes deleting the
default choose among two, two products of two shops make a cart with both. In
`back_office`, `MaxBooked` 3 is one shipment for each slot and one whose answer was lost;
`LastDay` 2 with `Terms` 0 and 1 gives a due day that is today's, tomorrow's or past,
before and after nine; `Old` rows are what earlier customers left, which no handler
touches, so that sums and pages have something to get wrong; `MemberRows` 2 is what a
member has before the run, so the next sale overfills the page; `FirstHalf` and `LastHalf`
put seven o'clock into the range and the earlier rows before midnight; `Gap` is two ticks of 15 seconds,
`ReceiptLimit` one and `NoticeLimit` four, as in the code; `MaxMissed` and `MaxLost` allow
one failed statement or lost answer (`OneMishap`: not beside a complaint opened
again), `MaxChange` 0 leaves out payments beyond the total, `MaxChanges`, `MaxNotices`, `MaxCalls` enough calls
for two to overlap and one to follow. Slots and complaints are interchangeable there
(`Alike`), and its temporal property is about single steps; `front_of_shop`, which
checks liveness, uses no symmetry.

All runs say `CHECK_DEADLOCK FALSE`: an instance has finitely many orders (or
tickets), and when each is finished there is nothing left to do. The server
waits for requests; it does not stop.

Why some runs are serial. The code's read-then-write pattern lets overlapping
requests break several promises that hold when requests do not overlap (section
6). Those properties are checked with one slot: they are about the sequences of
operations, of every length, and the concurrent runs check what must survive
the overlap.

## 4. Fairness

`FairSpec` of EcomOrder assumes only time and the scheduler: `Age` and `Ripen`
(24 hours and 7 days do pass) are weakly fair; the hourly job loops over every
order its query selects and, an order failing, logs and goes on to try it again
next hour, so `BeginExpire(o)` and `CommitExpire` are strongly fair (a handler in
the way disables them for a while); the daily auto-complete is one UPDATE and is
weakly fair. Nothing is assumed of customers, admins, the gateway or the
courier.

`FairSpec` of Accounts and of ShopPage, which `front_of_shop` takes together, assume that
copies age and that handlers end: the session key has an hour to live and a token a date
(`SessionExpires`, `TokenExpires`; renewals are bounded, for a token renewed for ever
keeps its role for ever, section 6), the page caches a minute (`ShownExpires`, `NameExpires`), and a handler that has read a row
stores it or stops. Nothing is assumed of the admin whose edits the copies follow; the
number of edits is bounded.

## 5. Proofs

TLAPS proves, for any number of orders, products, slots, tickets, batches,
checkouts, vouchers, tiers, invoices, days, complaints, parcels, accounts, carts and
addresses, every property of the passing runs but the two liveness properties, each under
the hypotheses named here:

* `EcomOrder_proofs`, under every overlap: `TypeCorrect`, `NeverOversold`
  (`StockNonNegative`), `LedgerAlwaysExact` (`LedgerExact`), `GroupsStayTogether` (`GroupsTogether`),
  `PaymentsAreWhole` (`PgPaysWholeGroup`), `SyncOnlyPays` (`SyncKeepsDecisions`). With one
  request at a time (`SerialSpec`): `TerminalStays` (`TerminalUnlessGateway`). With one at a time, bank transfer and
  manual shipping (`~PgEnabled`, `~BiteshipReady`, as `ecom_serial_manual` has them):
  `StockBackOnce` (`StockBackExactlyOnce`), `RevenueIsExact` (`RevenueExact`),
  `ImplementsReservation` (`KeepsReservations`, the refinement).
* `PosSale_proofs`, under every overlap: `TypeCorrect`, `NothingGivenTwice`
  (`NothingOverdrawn`, whichever stale edits and resets run) from `NeverOversold` and
  `NeverOverdrawn`, `SalesKeepLog` (`PointsExact`, when only sales write the balance,
  `Desk = {}`), `AnswersAlike` (`DedupOnlySameItems`). With one slot (`Http = {h}`):
  `CompletedExactlyOnce` (`CompletedOnce`), `BatchesKeepOrder` (`BatchesInOrder`),
  `SoldOnlyOnce` (`NoDoubleSale`, for carts whose total is paid in cash, without points:
  with points the window misses the sale, section 6).
* `EcomBill_proofs`: `TypeCorrect`; `CountsAlwaysAddUp` (`CountsAddUp`) from
  `CountNeverInvented` and `CodeUsedOnce`; `LimitOverrun` (`OverrunBounded`: limit plus
  slots less one), `BulkNeverDearer` (`NeverDearer`), `PricesAlwaysAnnounced`
  (`PricesAsAnnounced`, for packs and quantities whose product is below a hundred
  pieces: a price per piece is stored to the hundredth, and a hundred halves of a
  hundredth are half a rupiah).
* `StockRoom_proofs`: `TypeCorrect`, `CardExplainsShelf` (`StockOnCard`),
  `OverdrawIsBounded` (`OverdrawBounded`: slots times the largest movement).
* `Front_proofs`: `CodesNeverOverspent` (`CodeSpentBounded`), `ChangesShow`
  (`ChangesShowAtOnce`), `CartAndCheckoutAgree` (`CartForetellsCheckout`), `OneDefaultAlways`
  (`OneDefault`), `TypesAreCorrect` (`AllTypesOK`).
* `AfterSale_proofs` and `Courier_proofs`: the same facts as Back's about these two parts
  alone, `DoublesStayBounded` and `ShipmentsBounded`, on which Back's rest.
* `Back_proofs`: `TypesAreCorrect` (`AllTypesOK`), `DoublesStayBounded` (`DoublesBounded`),
  `DecisionsAlwaysHold` (`DecisionsHold`), `AlwaysBookedAsQuoted` (`BookedAsQuoted`),
  `RemindersPunctual` (`RemindedOnce`), `ReportsAlwaysAddUp` (`ReportsAddUp`),
  `PastAlwaysStands` (`PastStands`).

### The argument

**Orders.** `StockNonNegative` alone is not inductive: a handler in flight
will add the units of the orders it holds, and those must be natural numbers of
orders that exist. So `IInv` says that stock is a natural number, that each
slot is idle or holds existing orders with a target status its commit may
write, and that the log identity holds. The step proof goes through the actions
one by one; `CommitCheckout` uses the decrement's own guard (`Reservable`) and
`OneStorePerProduct` (a product is sold by one shop, so the orders of a checkout
do not both take it), and the restocks use that `Units` is a natural number.
`LedgerExact` survives a restock whose errors nobody looks at because that step adds to
`slipped` exactly the products for which one of the two statements went through.

`GroupsTogether` needs to know what a handler can still rely on when it writes, whatever
ran since it read (`Sound`): the orders of a checkout in flight are a whole group that does
not exist and that no other checkout is making, everyone else's orders exist, and a
notification of payment holds every order of its group that still waits. `Aimed` says which
orders and targets an operation may hold, `OnlyReal` that only orders that exist have a proof or
a booking. The two action properties follow from the same `GroupInv`, step by step.

For one request at a time the specification is `SerialSpec`: Init, and the steps of Next
that `OneAtATime`, the runs' action constraint, lets through. `SerialInv` says what overlap
destroys: only one slot is busy, what its handler read is still so when it writes, and an
order that was given to a courier has been sold. With gateway and courier off a step does
to each order one of four things (`OneOrder`: nothing, makes it, moves it on, or ends it and
returns its stock), so the two invariants carry themselves, and each of the four is a step
of `Reservation` or none.

**The counter.** For points, the invariant adds that a slot which will write a balance back
(`update`) holds one that was read, hence not negative. `TypeInv` types batches of any
number; a sale walks them with a recursive function whose values are shown to exist
at each index by taking the least index where they would not. `AnswerInv` says that all
Redis holds of a request id, or will be told of one, is an order of the same ticket. The
serial facts rest on `SerialInv`: status, units out and payment rows of each order fit
together (`RowOK`), and what the one handler at work has read still stands (`StillTrue`),
the batches included.

**Bills.** For vouchers the count is not enough either. `IInv` of EcomBill_proofs adds what
the handlers in flight carry: the bills of a checkout name a shop once and a code
once, because a voucher belongs to one shop; checkouts in flight are distinct and
not made yet; the row an admin will save back was not ahead when it was read, and
`takers` only grows. For the limit the measure is uses made plus handlers that have
read the voucher: reading needs `used < limit`, which makes room for at most all
other slots, and a commit turns a holder into a use. The price theorems split a
quantity into what is packed and the rest; only the packed part gets cheaper, two goes hold
no more packs than one (`PacksJoin`), rounding is monotone, and a price per piece is
off by at most half a hundredth (`QuoteKept`). That paying pack by pack, which is how the
shop states its rule, comes to the same (`PaidByPack`) is shown by the least quantity at
which it would not.

**The stock room.** `StockOnCard` needs that a count in flight has read the shelf as
it still is (nothing is written beside it) and that a product whose row is deleted
is in `gone`; a movement one of whose statements failed puts its product into `slipped`. The overdraft's measure is `Slack`: the slots not about to take from the
product, times the largest movement. A handler that starts taking has seen enough,
so the shelf is not negative and no slack is needed; when it takes, it frees its slot,
which pays for what it took. `BatchInv` types the batches, as at the counter.

**Front.** For reset codes uses alone cannot be bounded: `AccountInv` counts uses and the
handlers that hold the code unused together, at most the slots and the handlers lost,
and says that, while the code is still in Redis, everyone who used it is either about
to delete it or lost; so a handler that matches the code finds room. For pages, `ChangesShowAtOnce` is
inductive with its types (`PageInv`); cart and checkout agree, hidden shops and deleted
products apart, in every typed state.
`AddressInv` says, while nothing is `torn`, that one handler at most is at work, and which
rows carry the mark at each of its stages (`OnItsWay`).

**Behind the counter.** `BackSpec` runs one part and leaves the others in their initial
state, so it implements the specification of every part (`PartsRun`), and each part's own
invariant holds wherever the whole goes.

For reminders the invariant follows the clock: a running process sleeps to today's
nine or tomorrow's (`CronOK`), nothing was sent for a day whose nine o'clock is still
ahead (`ToldOK`), and an unpaid invoice whose nine o'clock is behind was told, or its day
is in `silent`, or the job that holds it is still running (`DueOK`); a job is over before
its day is. Payment and date travel together in every copy a handler holds (`RowOK`),
which is what makes a stale edit undo both or neither.

A refund's complaint stays ended because a complaint being submitted has no row yet
and is nobody else's (`ComplaintsOK`), so no late insert reaches a settled one. A review
that a customer's edit has read is hidden if the admin's decision came first, or `raced`
is set (`ReviewOK`). For bookings, a quote is `Fresh`: while nothing was edited since it was
made, its pickup area, destination and weight are those of the rows; the order's
spelling of the service normalises to the quoted one (`NormalOption`), and a booking in
flight agrees with its order's quote in all but the pickup point, which is read last.
The bounds on doubles are all counted as reset codes are: what was done, and the handlers
about to do it again, together.

The reports are sums over the same rows, grouped differently. The lemmas about them say
that a sum over a finite set is the sum over any split of it, and that an order moves between
groups by its own handlers only; the orders of earlier days must be rows the same
handlers could have left (part of `BackAssumption`; `Parted` says which of them the two
columns disagree about). Outside `apart` the two columns agree, so panel and reports
differ by sums over `apart` alone. For `PastStands`, a step that is none of those `DayKept`
names leaves the day's set of completed orders and every figure of theirs
(`FiguresAreKept`).

### Assumptions

`ConstAssumption`, `OneStorePerProduct` and `FiniteGroups` (EcomOrder), `RegisterAssumption`,
`BillAssumption`, `RoomAssumption`, `FrontAssumption` and `BackAssumption` are named in their
modules, and TLC evaluates them in every run. The theorems of `AfterSale_proofs` and
`Courier_proofs` state their own hypotheses (`Names`, `Bounds`, `Configured`, finitely many
slots), because these modules are checked as parts of Back; `Back_proofs` discharges them
from `BackAssumption`, as `Front_proofs` does `Finite` from `FrontAssumption`. The hypotheses
of the serial theorems are the settings of the runs that check the same properties.

### Only model-checked

`OrdersEnd` and `EveryCopyCatchesUp`: fairness is out of this prover's reach. The library's
induction theorems cannot be instantiated with the provers installed, for they take an
operator; where a recursive function or a sum over a set had to be followed, the proof takes
a least counterexample instead (`WFMin`, whose parameter is a set). What holds for serial
requests or manual orders only is not claimed for others: section 6 says what overlaps break.

## 6. Disagreements between code and comments

Two are kept as runs (`find_*`), with the line they contradict quoted in
`PROJECT.json`. The others, met while modelling; first those about orders, stock and
prices, each reproduced with the same modules at the time:

* **Duplicate FAILED notification.** `HandlePGNotification` reads the orders
  before its transaction (`ecom_checkout_usecase.go:597`) and compares that
  copy (`:659`); two overlapping deliveries both restock. The comment at `:652`
  claims idempotency per order.
* **Courier webhook crash.** Restock commits on its own
  (`ecom_admin_orders_usecase.go:1024`), the row is written after (`:1039`); a
  failure in between restocks again at the next delivery.
* **Expire job against proof or payment.** The re-check in the transaction
  (`scheduler.go:181,185`) is a plain SELECT and the UPDATE (`:212`) carries only
  the id: a proof or a payment that lands in between is overwritten.
* **Courier going backwards.** `picked` maps to shipped whatever the status
  (`ecom_admin_orders_usecase.go:1180`), against the comment at `:1161`.
* **Double booking.** The booked id is checked on the row first read (`:789`),
  saved after the courier answered (`:914`).
* **SUCCESS after cancel.** The notification writes paid over cancelled or
  expired (`ecom_checkout_usecase.go:663`) though its stock is back on the
  shelf; `ecom_admin_orders_usecase.go:532` calls those states terminal.
* **Refresh of a sale with redeemed points.** The window compares `req.Total` with
  the stored cash part (`order_usecase.go:200,427`): never equal.
* **Gift swallowed.** A gift line has no product id in the signature (`:94`): a
  sale with another gift inside the window is answered with the first order.
* **CancelOrder of a parked order** adds stock that never left (`:744-761`).
* **Two overlapping MarkAsPaid** both pass the check (`:1264`) and both write.
* **FIFO from a stale snapshot** (`:865`): batches saved over another sale's.
* **Edit Member** saves the balance it read (`member_repository.go:58`), and the
  **yearly reset** logs balances read before its transaction
  (`scheduler.go:264,281`): balance and movements drift apart.
* **The last gift** is checked on a plain read and decremented without a
  condition (`order_usecase.go:328-336`).
* **usage_limit.** `ApplyOnCheckout` reads the voucher without the lock its
  comment names (`ecom_voucher_usecase.go:123-125`) and counts without a
  condition (`:151`): overlapping checkouts go over the limit, by at most one for
  each other handler (`OverrunBounded`).
* **Voucher edit** saves the `used_count` it read (`:236`): uses counted meanwhile
  are forgotten (never invented: `CountsAddUp`), and a voucher deleted
  meanwhile is inserted again.
* **Voucher dates** are read in UTC (`:268`) where tier dates are read in
  Asia/Jakarta: a voucher "until the 31st" ends at 07:00 on the 31st.
* **Two tiers** of one product: the largest that fits takes the whole line, so buying
  in two goes can cost less than buying at once (with one tier it never does).
* **Overlapping outgoing movements** are checked on a plain read
  (`inventory_usecase.go:140`) and decrement without a condition (`:144`): stock goes
  negative, by at most one movement for each handler (`OverdrawBounded`).
* **A count over a sale.** `AdjustStock` sets the stock it was told (`:289`) and
  logs the difference to what it read (`:281`), outside the transaction: a sale in
  between is put back on the shelf, and the rows no longer add up.
* **PATCH of the stock** (`product_repository.go:109`) and the counter's cancellations
  and refunds move stock without a movement row; the comment at `:88-98` lists four
  flows and asks for an audit trail of the third only.
* **Ignored errors of a movement.** `CreateMovement` looks at the error of the movement's
  INSERT only: the stock's UPDATE (`inventory_usecase.go:119`, `:144`), the batch
  (`:138`) and the FIFO read and saves (`:223`, `:237`) may fail and the rest is
  committed. `StockOnCard` excepts such a product by name (`slipped`).
* **A movement of a deleted product** writes its row and its batch while the stock's
  UPDATE matches nothing, and no error is looked for (`inventory_usecase.go:119`).
* **Saving a product page** over a deletion inserts the row again: the save carries an
  empty `deleted_at`.
* **First stock has no batch**, and neither storefront sales nor returns touch
  batches: they do not add up to the stock, and no property says so.
* **Box movements** are written in boxes (`:77`) where box sales are written in pieces
  with unit type "box" (`order_usecase.go:410-411`).
* **Retried payment.** The retry gives the gateway an id with a suffix
  (`ecom_orders_usecase.go:344`) that the notification's lookup does not find: it is
  answered and forgotten.
* **Double click.** The request id is remembered after the commit
  (`order_usecase.go:176`): two submissions that overlap are two sales.

Those met in the modules around the orders. Where a property is named, its statement
makes room for the exception, by name:

* **A reset code** sets one password for every submission that overlaps
  (`auth_usecase.go:541`; `CodeSpentBounded`).
* **Registered, but cannot log in.** A customer may register or reset with six
  characters (`dto/auth.go:27`); the login form asks for eight (`:32`).
* **A token keeps its role** until it ends and is renewed with the claims it has
  (`rbac.go`), never with the row's; the session copy may be an hour old, for nothing
  deletes its key (`EveryCopyCatchesUp` needs renewals to end).
* **Suggestions** are meant for the same shop (`ecom_public_usecase.go:265`), but the
  product is read without its location (`:257`): they are always the home shop's, shown
  or not.
* **Both shops off** still shows the home shop (`tempat.go`), and an inactive product
  can be put into a cart and bought: only the lists ask `is_active`.
* **Flat rates** offer "REG" of J&T (`biteship.go:363`), a service the courier does not
  have (`ecom_admin_orders_usecase.go:711`); such an order cannot be booked.
* **Cancelling an order** never tells the courier: its cancel call has no caller.
* **An order that is booked twice** is charged twice (`:789`, `:914`; `DoublesBounded`).
* **A milestone** is mailed at every repeat of the courier's event although the comment
  says only on a change (near `:1050`); a payment is mailed twice when gateway and admin
  overlap (`PaidToldBounded`) and not at all when the sync finds it.
* **Refunds of one order** are each capped by its total, not together
  (`ecom_admin_refunds_usecase.go:41`).
* **A hidden review** comes back when its customer was just editing it
  (`ecom_review_usecase.go:130`; `ReviewsCount`).
* **An edit of an invoice** begun before a payment undoes it
  (`purchase_invoice_usecase.go:261`; `PaymentKept`).
* **The chart** cuts its range at the days of UTC (`ecom_admin_analytics_usecase.go:34-35`):
  before seven it has no bar for today. Its split by payment method is empty, for only
  the counter writes payment rows (`PanelsAgree`).
* **A member's page** reads 1000 orders at most (`order_repository.go:171-174`) where the
  comment says lifetime totals are over all (`member_usecase.go:175`); `CustomersAddUp`
  leaves out members with more.
* **A hidden shop or a deleted product** is not flagged in the cart, whose comment promises
  a flag for both kinds (`ecom_cart_usecase.go:26-27`): the lines of a hidden shop look
  buyable and the checkout refuses them (`ecom_checkout_usecase.go:161`); a deleted
  product is not shown (`:139-141`) and fails the checkout of the whole cart (`:153`).
  `CartForetellsCheckout` says exactly that.
* **The list of orders** pages by the second (`ecom_admin_orders_usecase.go:237,281`): of two
  orders of one checkout the second is skipped when the page ends between them
  (`ListComplete` leaves out that moment).
* **The counter's handlers** accept a storefront order and move only one of its two
  status columns (`order_usecase.go:744`). From then on `PanelsAgree` says nothing.
* **Storefront handlers that write `ecom_status` alone** let panel and reports part with no
  handler of the counter: the courier sync (`ecom_admin_orders_usecase.go:1100-1111`), a
  FAILED or VOIDED after the payment (`ecom_checkout_usecase.go:663`, `:670` is for SUCCESS
  only), and a late AWB over a cancellation (`:493-504`, `:916-929`). `PanelsAgree` states
  the difference as the sum over these orders (`apart`).
* **Price edits that overlap** leave several rows active, or a history that ends with the
  wrong price (`product_usecase.go:49`; `OpenBounded`, `HistoryTells`); the product page's two
  toggles save the prices they read, over an edit, and write no history.
* **A browser already subscribed** keeps its first account; the seven o'clock digest of
  the staff goes to every browser, customers' too.
* **A refund's complaint** may stay active: the error of its UPDATE inside the refund's
  transaction is not looked at (`ecom_admin_refunds_usecase.go:101-107`). The model counts
  such a refund as one that names no complaint.
* **A reminder** is marked as sent even when every send failed (`scheduler.go:332-344`):
  `told` in Invoices counts attempts. And an edit that read the invoice before the mark
  saves it away, with a later due day: a second reminder, on another day, where the
  comment says once for each invoice (`:302`). `RemindedOnce` is about one day.
* **A receipt** has 15 seconds and the gap to the last message is 30: in the first 15
  seconds of the gap it always fails, although `whatsapp.go:143` says the caller can still
  send.
* **A notification whose handling failed** is answered 200 on purpose
  (`ecom_checkout_handler.go:143`): after a database error only the sync finds the payment.

The third kind is errors that nobody looks at inside work that is then committed. Each
is an outcome of the model; the property named says what it can spoil, and that
it can spoil nothing else:

* the failed-payment branch of the gateway's webhook: read of the items, stock, movement
  (`ecom_checkout_usecase.go:679-701`; `LedgerExact`, but for `slipped`);
* the stock, the batch and the FIFO saves of a movement (`inventory_usecase.go:119-148`,
  `:223`, `:237`; `StockOnCard`, but for `slipped`);
* the FIFO saves of a sale (`order_usecase.go:865`, `:879`; `BatchesInOrder`, until `skipped`);
* the stock of a counter cancellation or refund (`order_usecase.go:758`,
  `refund_usecase.go:76`) and the status of a refund (`:88`; `CompletedOnce`, but for `missed`
  orders);
* the count and the clearing of the mark among addresses
  (`ecom_address_usecase.go:42,47-49,85-87`; `OneDefault`, unless `torn`);
* the count of active complaints (`ecom_complaint_usecase.go:67-69`) and the mark of an
  alert (`ecom_restock_alert_usecase.go:161-164`; `DoublesBounded`, which counts them in `lost`).

Four more have no action of their own, because what they leave behind is a state the model
reaches anyway: a duplicate search that failed is taken for "none"
(`order_usecase.go:201-202`), which is the model's `WindowPasses`, and `NoDoubleSale` holds as
long as the search answers; the re-arming of an alert
(`ecom_restock_alert_usecase.go:68`) that fails changes nothing; a dead push subscription
that could not be deleted (`push_usecase.go:134,141`) is tried again; and two vouchers of one
code, after a count that failed (`ecom_voucher_usecase.go:180`), are for the unique index.

## 7. Not modelled, and the plan

Not modelled, and why:

* **A transaction rolled back under its handler.** MySQL ends only the statement at a
  lock-wait timeout, which is the failure modelled wherever an error is not looked at
  (`Unseen`, `MayLose`); at a deadlock it ends the whole transaction, and a handler that
  does not look goes on with statements that commit one by one. A COMMIT whose error
  nobody reads (`order_usecase.go:458,769,1243,1398`, `refund_usecase.go:90`) is
  taken to succeed.
* **Durations.** The gateway is called inside the checkout's transaction
  (`ecom_checkout_usecase.go:510`) with row locks held; how long is a measurement,
  not a state.
* **Device approval**: `deviceGatedRoles` is empty (`device_usecase.go:33`); no
  login reaches it.
* **Cash sessions, capital, the cash book's opening balances**: one INSERT or UPDATE
  each, with no condition, of figures the client sends.
* **Suppliers, categories, store settings, the audit trail**: edits of one row, and no
  other operation decides on them.
* **Top lists, the funnel, the activity feed**: queries whose result nothing else
  repeats. (The funnel groups by `status`, which is both a column and an alias of
  its SELECT, `ecom_admin_analytics_usecase.go:82`.)
* **HTTP, roles, signatures, text layout**: parsing and I/O around one use case
  operation.
* **Update's "ends after starts" check, member tiers** of the price rules: entry
  validation, and a counter feature the storefront's query excludes.
* **Expiry dates of batches and a movement's payment status**: columns saved whole
  with their row and read by lists only.

What a next step would take, in order:

1. **Counter corrections in full** (PosSale): partial refunds (`refund_usecase`),
   `UpdatePending` with its re-pricing, and box and piece units, whose factor is read
   again at cancellation (`order_usecase.go:755,1304`).
2. **One machine of both kinds of order**: Books has the mark each handler leaves on a
   row; EcomOrder and PosSale over the same rows and the same shelf would show what the
   counter's CancelOrder does to a storefront reservation in flight.
3. **Courier events on Courier's shipments**: which of two shipments of one order an
   event is about.
4. **Buy now and guests' carts** (ShopPage), which bypass the minimum of a shop.

Theorems worth proving next: the serial theorems of EcomOrder with gateway and courier on,
each with the exceptions of section 6 written into it; `BatchesInOrder` for overlapping
sales, up to the sales whose snapshot was stale; and the abstract payment that
`PaymentsAreWhole` and `SyncOnlyPays` suggest, one decision for each checkout, as a second
refinement.
