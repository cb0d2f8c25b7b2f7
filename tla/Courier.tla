------------------------------- MODULE Courier -------------------------------
(***************************************************************************)
(* The courier broker (Biteship): what the checkout page is quoted, and    *)
(* the shipment the admin books later for the order it became.             *)
(*                                                                         *)
(* Quote and booking are built by two handlers from rows that may change   *)
(* in between: the shop's pickup point, the product's weight, the          *)
(* customer's address (the order keeps a copy of it).  The life of an      *)
(* order besides is EcomOrder's; only what decides about a booking is here. *)
(*                                                                         *)
(* A definition X_Y just above X is X with a bug Y this code could have; it *)
(* is used by no other, only to test the properties.                       *)
(***************************************************************************)
EXTENDS Integers, FiniteSets, Sequences

CONSTANTS
    Orders,
    TempatDariOrderSource, \* the shop of an order
    Slots,         \* slots in which handlers run
    NoOrder,
    Env,           \* the pickup point of the environment variables
    Pickups,       \* pickup points of ecom_settings; an empty field is Empty or FALSE
    Areas,         \* area ids; an address without one has its zip code
    Weights,       \* ecom_weight_grams, 0 for none
    MaxEdits,      \* bound: edits of settings, addresses and weights
    MaxBooked,     \* bound: shipments booked
    MaxLost        \* bound: handlers stopped before the id was saved

VARIABLES
    pickup,     \* per shop, ecom_settings: [area, contact, coords]
    address,    \* the customer's: [area, coords]
    weight,     \* the product's
    order,      \* [st, opt, live, quote, area, key]
    shipments,  \* external: what the courier was asked for, by its id
    lost,       \* handlers that stopped with a shipment booked and not saved
    edits, req

vars == <<pickup, address, weight, order, shipments, lost, edits, req>>
rows == <<pickup, address, weight>>

Empty == "-"   \* the empty string
Home == "home"
Store == "store"
Shops == {Home, Store}

-----------------------------------------------------------------------------
(* Options: a courier and its service, by name.                            *)

\* external: the services there are; J&T has no "reg".
Services == {<<"jne", "reg">>, <<"jnt", "ez">>, <<"gojek", "instant">>}
Instant == {<<"gojek", "instant">>}

\* Flat rates that stand in when the courier is not configured or not there.
stubRates == {<<"jne", "REG">>, <<"jnt", "REG">>}

\* external: a page older than the codes (migration 61) may send the courier's
\* display name for its code.
Spellings(courier) == IF courier = "jnt" THEN {"jnt", "J&T Express"} ELSE {courier}

\* Codes pass; names and capitals become codes.
normalizeCourierCompany(courier) == IF courier = "J&T Express" THEN "jnt" ELSE courier
normalizeCourierService(service) == IF service = "REG" THEN "reg" ELSE service
Normal(opt) == <<normalizeCourierCompany(opt[1]), normalizeCourierService(opt[2])>>

\* A weight that is not set counts as 200 grams; the page and the booking each
\* have their own code for it.
PageGrams == IF weight > 0 THEN weight ELSE 200
BookingGrams_Fixed == 200
BookingGrams == IF weight > 0 THEN weight ELSE 200

-----------------------------------------------------------------------------
(* The client for a shop: its settings, field by field, over the           *)
(* environment; coordinates come from the settings alone.                  *)

WithOriginOverride(base, p) ==
    [area |-> IF p.area # Empty THEN p.area ELSE base.area,
     contact |-> p.contact \/ base.contact, coords |-> base.coords]
WithOriginCoords(base, p) == [base EXCEPT !.coords = p.coords]
biteshipWithStoreOrigin(l) == WithOriginOverride(WithOriginCoords(Env, pickup[l]), pickup[l])

IsConfigured(client) == client.area # Empty
CanCreateOrder(client) == IsConfigured(client) /\ client.contact

\* The address form looks areas up; without an answer only the zip code stays.
SearchAreas(answers) ==
    IF answers /\ IsConfigured(biteshipWithStoreOrigin(Home)) THEN Areas ELSE {}

\* external: a courier that drives from door to door quotes by coordinates.
Pricing(client) ==
    {opt \in Services : opt \in Instant => client.coords /\ address.coords}

-----------------------------------------------------------------------------
NoQuote == [opt |-> <<Empty, Empty>>, from |-> Empty, to |-> Empty, grams |-> 0, at |-> 0]
NewOrder == [st |-> "none", opt |-> <<Empty, Empty>>, live |-> FALSE, quote |-> NoQuote, area |-> Empty, key |-> 0]
Idle == [op |-> "idle", o |-> NoOrder, offers |-> {}, live |-> FALSE, quote |-> NoQuote, id |-> 0]

Init ==
    /\ pickup \in [Shops -> Pickups]
    /\ address = [area |-> Empty, coords |-> FALSE]
    /\ weight = 0
    /\ order = [o \in Orders |-> NewOrder]
    /\ shipments = <<>>
    /\ lost = 0 /\ edits = 0
    /\ req = [s \in Slots |-> Idle]

Edit == edits < MaxEdits /\ edits' = edits + 1
Take(s, r) == req[s] = Idle /\ req' = [req EXCEPT ![s] = r]
Done(s) == req' = [req EXCEPT ![s] = Idle]

UpdatePickup(l, p) ==
    /\ Edit /\ pickup' = [pickup EXCEPT ![l] = p]
    /\ UNCHANGED <<address, weight, order, shipments, lost, req>>
UpdateAddress(answers, area, coords) ==
    /\ Edit /\ area \in SearchAreas(answers) \cup {Empty}
    /\ address' = [area |-> area, coords |-> coords]
    /\ UNCHANGED <<pickup, weight, order, shipments, lost, req>>
UpdateWeight(w) ==
    /\ Edit /\ weight' = w
    /\ UNCHANGED <<pickup, address, order, shipments, lost, req>>

-----------------------------------------------------------------------------
(* Checkout.                                                               *)

\* A page for the goods of order o: the courier's rates, or the flat ones.
GetRates(s, o, answers) ==
    LET client == biteshipWithStoreOrigin(TempatDariOrderSource[o])
        live == answers /\ IsConfigured(client) /\ Pricing(client) # {}
    IN /\ order[o].st = "none"
       /\ Take(s, [op |-> "page", o |-> o, live |-> live, id |-> 0,
                   offers |-> IF live THEN Pricing(client) ELSE stubRates,
                   quote |-> [NoQuote EXCEPT !.from = client.area, !.to = address.area,
                                             !.grams = PageGrams, !.at = edits]])
       /\ UNCHANGED <<rows, order, shipments, lost, edits>>

\* The order keeps courier and service as the page sent them, and the address
\* as it is now; the sum is the page's.
CreateOrder(s, opt, courier) ==
    /\ req[s].op = "page" /\ opt \in req[s].offers /\ courier \in Spellings(opt[1])
    /\ order[req[s].o].st = "none"
    /\ order' = [order EXCEPT ![req[s].o] =
           [st |-> "pending", opt |-> <<courier, opt[2]>>, live |-> req[s].live,
            quote |-> [req[s].quote EXCEPT !.opt = opt], area |-> address.area, key |-> 0]]
    /\ Done(s)
    /\ UNCHANGED <<rows, shipments, lost, edits>>

Pay(o) ==
    /\ order[o].st = "pending"
    /\ order' = [order EXCEPT ![o].st = "paid"]
    /\ UNCHANGED <<rows, shipments, lost, edits, req>>
\* Nobody tells the courier: its CancelOrder has no caller.
Cancel(o) ==
    /\ order[o].st \in {"pending", "paid", "processing"}
    /\ order' = [order EXCEPT ![o].st = "cancelled"]
    /\ UNCHANGED <<rows, shipments, lost, edits, req>>

-----------------------------------------------------------------------------
(* CreateBiteshipShipment: read and check, ask the courier, save its id.   *)

Unbooked_Retry(o) == TRUE
Unbooked(o) == order[o].key = 0

BeginShipment(s, o) ==
    LET client == biteshipWithStoreOrigin(TempatDariOrderSource[o]) IN
    /\ CanCreateOrder(client)
    /\ order[o].st \in {"paid", "processing"} /\ Unbooked(o)
    /\ Take(s, [Idle EXCEPT !.op = "book", !.o = o,
           !.quote = [opt |-> Normal(order[o].opt), from |-> Empty, to |-> order[o].area,
                      grams |-> BookingGrams, at |-> edits]])
    /\ UNCHANGED <<rows, order, shipments, lost, edits>>

\* The client is built again, then the courier books what it has.
AskCourier(s) ==
    LET client == biteshipWithStoreOrigin(TempatDariOrderSource[req[s].o]) IN
    /\ req[s].op = "book" /\ Len(shipments) < MaxBooked
    /\ CanCreateOrder(client) /\ req[s].quote.opt \in Services
    /\ shipments' = Append(shipments,
           [o |-> req[s].o, ask |-> [req[s].quote EXCEPT !.from = client.area]])
    /\ req' = [req EXCEPT ![s].op = "booked", ![s].id = Len(shipments) + 1]
    /\ UNCHANGED <<rows, order, lost, edits>>

\* Whatever the order has become meanwhile.
SaveShipment(s) ==
    /\ req[s].op = "booked"
    /\ order' = [order EXCEPT ![req[s].o].key = req[s].id, ![req[s].o].st = "processing"]
    /\ Done(s)
    /\ UNCHANGED <<rows, shipments, lost, edits>>

\* A page is left; a booking is refused; the process stops.  An answer that
\* never came back is a shipment nobody knows.
Abandon(s) ==
    /\ req[s] # Idle
    /\ req[s].op = "booked" => lost < MaxLost
    /\ lost' = IF req[s].op = "booked" THEN lost + 1 ELSE lost
    /\ Done(s)
    /\ UNCHANGED <<rows, order, shipments, edits>>

-----------------------------------------------------------------------------
Next ==
    \/ \E l \in Shops, p \in Pickups : UpdatePickup(l, p)
    \/ \E answers, coords \in BOOLEAN, area \in Areas \cup {Empty} : UpdateAddress(answers, area, coords)
    \/ \E w \in Weights : UpdateWeight(w)
    \/ \E o \in Orders : Pay(o) \/ Cancel(o)
    \/ \E s \in Slots :
          \/ \E o \in Orders :
                \/ \E answers \in BOOLEAN : GetRates(s, o, answers)
                \/ BeginShipment(s, o)
          \/ \E opt \in Services \cup stubRates : \E courier \in Spellings(opt[1]) : CreateOrder(s, opt, courier)
          \/ AskCourier(s) \/ SaveShipment(s) \/ Abandon(s)

Spec == Init /\ [][Next]_vars

-----------------------------------------------------------------------------
Options ==
    Services \cup stubRates \cup {<<"jnt", "reg">>, <<"J&T Express", "ez">>, <<"J&T Express", "REG">>}
Quotes ==
    [opt : Options \cup {NoQuote.opt}, from : Areas \cup {Empty}, to : Areas \cup {Empty},
     grams : Nat, at : 0..MaxEdits]

TypeOK ==
    /\ pickup \in [Shops -> Pickups]
    /\ address \in [area : Areas \cup {Empty}, coords : BOOLEAN] /\ weight \in Weights \cup {0}
    /\ order \in [Orders -> [st : {"none", "pending", "paid", "processing", "cancelled"},
                             opt : Options \cup {NoQuote.opt}, live : BOOLEAN, quote : Quotes,
                             area : Areas \cup {Empty}, key : 0..MaxBooked]]
    /\ shipments \in Seq([o : Orders, ask : Quotes]) /\ Len(shipments) <= MaxBooked
    /\ lost \in 0..MaxLost /\ edits \in 0..MaxEdits
    /\ req \in [Slots -> [op : {"idle", "page", "book", "booked"}, o : Orders \cup {NoOrder},
                          offers : SUBSET Options, live : BOOLEAN, quote : Quotes, id : 0..MaxBooked]]

Shipped(o) == {i \in DOMAIN shipments : shipments[i].o = o}

\* What the courier is asked for is what it quoted: unless something was edited
\* between the page and the booking, the shipment has the service, the pickup
\* area, the destination and the weight the customer's price was made from.
BookedAsQuoted ==
    \A i \in DOMAIN shipments :
        LET o == shipments[i].o IN
        order[o].live /\ edits = order[o].quote.at => shipments[i].ask = order[o].quote

\* One shipment an order.  The id is saved after the courier has answered, so
\* clicks that overlap and answers that got lost can book it again, and nothing
\* else can.
BookedBounded ==
    \A o \in Orders : Cardinality(Shipped(o)) <= Cardinality(Slots) + lost
=============================================================================
