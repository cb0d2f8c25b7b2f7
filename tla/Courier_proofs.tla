---------------------------- MODULE Courier_proofs ----------------------------
(***************************************************************************)
(* What holds of Courier for any number of orders, areas, handlers and     *)
(* edits: a shipment is booked as it was quoted, unless something was      *)
(* edited between the page and the booking; and it is booked at most as    *)
(* often as handlers overlap and answers are lost.                         *)
(***************************************************************************)
EXTENDS Courier, FiniteSetTheorems, TLAPS

\* Shops have pickup points, weights are numbers.
Configured ==
    /\ TempatDariOrderSource \in [Orders -> Shops]
    /\ Pickups \subseteq [area : Areas \cup {Empty}, contact : BOOLEAN, coords : BOOLEAN]
    /\ Env \in [area : Areas \cup {Empty}, contact : BOOLEAN, coords : BOOLEAN]
    /\ Weights \subseteq Nat
    /\ MaxEdits \in Nat /\ MaxBooked \in Nat /\ MaxLost \in Nat

-----------------------------------------------------------------------------
(* The inductive invariant.                                                *)

PickupArea(o) == biteshipWithStoreOrigin(TempatDariOrderSource[o]).area

\* A quote made from the rows as they are, as long as nothing was edited since.
Fresh(q, o) ==
    /\ q.at <= edits
    /\ edits = q.at => q.from = PickupArea(o) /\ q.to = address.area /\ q.grams = PageGrams

Unedited(o) == order[o].live /\ edits = order[o].quote.at
OrdersOK ==
    \A o \in Orders : order[o].live =>
        /\ Fresh(order[o].quote, o)
        /\ Normal(order[o].opt) = order[o].quote.opt
        /\ Unedited(o) => order[o].area = order[o].quote.to

\* A page of the courier's rates is fresh; a booking under way asks for what
\* its order was quoted, the pickup area apart.
SlotOK(r) ==
    /\ r.op # "idle" => r.o \in Orders
    /\ r.op = "page" /\ r.live => r.offers \subseteq Services /\ Fresh(r.quote, r.o)
    /\ r.op \in {"book", "booked"} => order[r.o].st # "none"
    /\ r.op = "book" /\ Unedited(r.o) =>
          /\ r.quote.opt = order[r.o].quote.opt /\ r.quote.to = order[r.o].quote.to
          /\ r.quote.grams = order[r.o].quote.grams /\ r.quote.at = order[r.o].quote.at
SlotsOK == \A s \in Slots : SlotOK(req[s])

ShipmentsOK ==
    \A i \in DOMAIN shipments :
        /\ order[shipments[i].o].st # "none"
        /\ Unedited(shipments[i].o) => shipments[i].ask = order[shipments[i].o].quote

IInv == TypeOK /\ OrdersOK /\ SlotsOK /\ ShipmentsOK

-----------------------------------------------------------------------------
(* Lemmas.                                                                 *)

NoOpt == <<Empty, Empty>>

\* However a page spells a service the courier has, the booking asks for that one.
LEMMA NormalOption ==
    /\ \A opt \in Options \cup {NoOpt} : Normal(opt) \in Options \cup {NoOpt}
    /\ \A opt \in Services : \A courier \in Spellings(opt[1]) : Normal(<<courier, opt[2]>>) = opt
    /\ \A opt \in Services \cup stubRates : \A courier \in Spellings(opt[1]) : <<courier, opt[2]>> \in Options
<1>1. /\ Normal(<<"jne", "reg">>) = <<"jne", "reg">>
      /\ Normal(<<"jnt", "ez">>) = <<"jnt", "ez">>
      /\ Normal(<<"gojek", "instant">>) = <<"gojek", "instant">>
      /\ Normal(<<"jne", "REG">>) = <<"jne", "reg">>
      /\ Normal(<<"jnt", "REG">>) = <<"jnt", "reg">>
      /\ Normal(<<"jnt", "reg">>) = <<"jnt", "reg">>
      /\ Normal(<<Empty, Empty>>) = <<Empty, Empty>>
      /\ Normal(<<"J&T Express", "ez">>) = <<"jnt", "ez">>
      /\ Normal(<<"J&T Express", "REG">>) = <<"jnt", "reg">>
  BY DEF Empty, Normal, normalizeCourierService, normalizeCourierCompany
<1>2. \A opt \in Options \cup {NoOpt} : Normal(opt) \in Options \cup {NoOpt}
  BY <1>1, Zenon DEF Options, Services, stubRates, NoOpt
<1>3. \A opt \in Services : Normal(opt) = opt
  BY <1>1, Zenon DEF Services
<1>4. \A opt \in Services : \A courier \in Spellings(opt[1]) : Normal(<<courier, opt[2]>>) = opt
  <2> SUFFICES ASSUME NEW opt \in Services, NEW courier \in Spellings(opt[1])
               PROVE  Normal(<<courier, opt[2]>>) = opt
    OBVIOUS
  <2>1. normalizeCourierCompany(courier) = normalizeCourierCompany(opt[1])
    BY DEF Spellings, normalizeCourierCompany
  <2>2. Normal(<<courier, opt[2]>>) = Normal(opt)
    BY <2>1 DEF Normal
  <2> QED
    BY <1>3, <2>2
<1>5. \A opt \in Services \cup stubRates : \A courier \in Spellings(opt[1]) : <<courier, opt[2]>> \in Options
  <2> SUFFICES ASSUME NEW opt \in Services \cup stubRates, NEW courier \in Spellings(opt[1])
               PROVE  <<courier, opt[2]>> \in Options
    OBVIOUS
  <2>1. CASE opt = <<"jnt", "ez">>
    <3>1. <<courier, opt[2]>> = <<"jnt", "ez">> \/ <<courier, opt[2]>> = <<"J&T Express", "ez">>
      BY <2>1 DEF Spellings
    <3> QED
      BY <3>1, Zenon DEF Options, Services
  <2>2. CASE opt = <<"jnt", "REG">>
    <3>1. <<courier, opt[2]>> = <<"jnt", "REG">> \/ <<courier, opt[2]>> = <<"J&T Express", "REG">>
      BY <2>2 DEF Spellings
    <3> QED
      BY <3>1, Zenon DEF Options, stubRates
  <2>3. CASE opt = <<"jne", "reg">>
    <3>1. <<courier, opt[2]>> = <<"jne", "reg">>
      BY <2>3 DEF Spellings
    <3> QED
      BY <3>1, Zenon DEF Options, Services
  <2>4. CASE opt = <<"gojek", "instant">>
    <3>1. <<courier, opt[2]>> = <<"gojek", "instant">>
      BY <2>4 DEF Spellings
    <3> QED
      BY <3>1, Zenon DEF Options, Services
  <2>5. CASE opt = <<"jne", "REG">>
    <3>1. <<courier, opt[2]>> = <<"jne", "REG">>
      BY <2>5 DEF Spellings
    <3> QED
      BY <3>1, Zenon DEF Options, stubRates
  <2> QED
    BY <2>1, <2>2, <2>3, <2>4, <2>5, Zenon DEF Services, stubRates
<1> QED
  BY <1>2, <1>4, <1>5

LEMMA AreaOK ==
    ASSUME Configured, TypeOK, NEW l \in Shops
    PROVE  biteshipWithStoreOrigin(l).area \in Areas \cup {Empty}
<1>1. pickup[l].area \in Areas \cup {Empty} /\ Env.area \in Areas \cup {Empty}
  BY DEF Configured, TypeOK
<1>2. biteshipWithStoreOrigin(l).area = IF pickup[l].area # Empty THEN pickup[l].area ELSE Env.area
  BY DEF Configured, biteshipWithStoreOrigin, WithOriginOverride, WithOriginCoords
<1> QED
  BY <1>1, <1>2

LEMMA ShipmentOrder ==
    ASSUME TypeOK, NEW i \in DOMAIN shipments
    PROVE  shipments[i] \in [o : Orders, ask : Quotes] /\ shipments[i].o \in Orders
<1> DEFINE S == [o : Orders, ask : Quotes]
<1>1. shipments \in Seq(S)
  BY DEF TypeOK
<1> HIDE DEF S
<1>2. shipments[i] \in S
  BY <1>1
<1> QED
  BY <1>2 DEF S

LEMMA InitIInv == ASSUME Configured, Init PROVE IInv
<1>1. NoQuote \in Quotes
  <2>1. 0 \in 0..MaxEdits /\ 0 \in Nat
    BY DEF Configured
  <2> QED
    BY <2>1 DEF NoQuote, Quotes
<1>2. TypeOK
  <2>1. order \in [Orders -> [st : {"none", "pending", "paid", "processing", "cancelled"},
                             opt : Options \cup {NoQuote.opt}, live : BOOLEAN, quote : Quotes,
                             area : Areas \cup {Empty}, key : 0..MaxBooked]]
    BY <1>1 DEF Init, NewOrder, Configured, NoQuote
  <2>2. req \in [Slots -> [op : {"idle", "page", "book", "booked"}, o : Orders \cup {NoOrder},
                          offers : SUBSET Options, live : BOOLEAN, quote : Quotes, id : 0..MaxBooked]]
    BY <1>1 DEF Init, Idle, Configured
  <2>3. shipments \in Seq([o : Orders, ask : Quotes]) /\ Len(shipments) = 0
    BY DEF Init
  <2> QED
    BY <2>1, <2>2, <2>3 DEF Init, TypeOK, Configured
<1>3. OrdersOK /\ SlotsOK /\ ShipmentsOK
  BY DEF Init, OrdersOK, SlotsOK, SlotOK, ShipmentsOK, NewOrder, Idle
<1> QED
  BY <1>2, <1>3 DEF IInv

\* An edit ages every quote.
LEMMA EditKeeps ==
    ASSUME Configured, IInv, TypeOK', edits' = edits + 1, UNCHANGED <<order, shipments, req>>
    PROVE  IInv'
<1>1. edits \in Nat
  BY DEF IInv, TypeOK, Configured
<1>2. \A o \in Orders : order[o].live => order[o].quote.at <= edits /\ order[o].quote.at \in Nat
  BY DEF IInv, TypeOK, OrdersOK, Fresh, Quotes, Configured
<1>3. \A o \in Orders : ~Unedited(o)'
  BY <1>1, <1>2 DEF Unedited
<1>4. OrdersOK'
  BY <1>1, <1>2, <1>3 DEF IInv, OrdersOK, Fresh
<1>5. SlotsOK'
  <2> SUFFICES ASSUME NEW s \in Slots PROVE SlotOK(req[s])'
    BY DEF SlotsOK
  <2>1. SlotOK(req[s]) /\ req[s].quote.at \in Nat
    BY DEF IInv, SlotsOK, TypeOK, Quotes, Configured
  <2>2. req[s].op = "page" /\ req[s].live => Fresh(req[s].quote, req[s].o)'
    BY <1>1, <2>1 DEF SlotOK, Fresh
  <2> QED
    BY <1>3, <2>1, <2>2 DEF SlotOK
<1>6. ShipmentsOK'
  BY <1>3, ShipmentOrder DEF IInv, ShipmentsOK
<1> QED
  BY <1>4, <1>5, <1>6 DEF IInv

\* An order's status or key changes, and a slot is filled or emptied; nothing
\* is edited, quoted or booked.
LEMMA StatusKeeps ==
    ASSUME Configured, IInv, TypeOK', UNCHANGED <<rows, shipments, edits>>,
           \A o \in Orders : /\ order'[o].live = order[o].live /\ order'[o].quote = order[o].quote
                             /\ order'[o].opt = order[o].opt /\ order'[o].area = order[o].area
                             /\ order[o].st # "none" => order'[o].st # "none",
           \A s \in Slots : req'[s] = req[s] \/ SlotOK(req[s])'
    PROVE  IInv'
<1>1. UNCHANGED <<pickup, address, weight>>
  BY DEF rows
<1>2. \A q, o : Fresh(q, o)' <=> Fresh(q, o)
  BY <1>1 DEF Fresh, PickupArea, PageGrams, biteshipWithStoreOrigin
<1>3. \A o \in Orders : Unedited(o)' <=> Unedited(o)
  BY DEF Unedited
<1>4. OrdersOK'
  BY <1>1, <1>3 DEF IInv, OrdersOK, Fresh, PickupArea, PageGrams, biteshipWithStoreOrigin
<1>5. SlotsOK'
  <2> SUFFICES ASSUME NEW s \in Slots, req'[s] = req[s] PROVE SlotOK(req[s])'
    BY DEF SlotsOK
  <2>1. SlotOK(req[s])
    BY DEF IInv, SlotsOK
  <2>2. req[s].op = "page" /\ req[s].live => Fresh(req[s].quote, req[s].o)'
    BY <1>1, <2>1 DEF SlotOK, Fresh, PickupArea, PageGrams, biteshipWithStoreOrigin
  <2> QED
    BY <1>3, <2>1, <2>2 DEF SlotOK
<1>6. ShipmentsOK'
  BY <1>3, ShipmentOrder DEF IInv, ShipmentsOK
<1> QED
  BY <1>4, <1>5, <1>6 DEF IInv
-----------------------------------------------------------------------------
(* The actions.                                                            *)

\* What an order may become.
OrderType ==
    [st : {"none", "pending", "paid", "processing", "cancelled"},
     opt : Options \cup {NoQuote.opt}, live : BOOLEAN, quote : Quotes,
     area : Areas \cup {Empty}, key : 0..MaxBooked]
SlotType ==
    [op : {"idle", "page", "book", "booked"}, o : Orders \cup {NoOrder},
     offers : SUBSET Options, live : BOOLEAN, quote : Quotes, id : 0..MaxBooked]

LEMMA Types ==
    ASSUME TypeOK
    PROVE  order \in [Orders -> OrderType] /\ req \in [Slots -> SlotType]
BY DEF TypeOK, OrderType, SlotType

\* An edit of the shop, the address or the product.
LEMMA RowsEdited ==
    ASSUME Configured, IInv,
           \/ \E l \in Shops, p \in Pickups : UpdatePickup(l, p)
           \/ \E answers, coords \in BOOLEAN, area \in Areas \cup {Empty} : UpdateAddress(answers, area, coords)
           \/ \E w \in Weights : UpdateWeight(w)
    PROVE  IInv'
<1>1. edits' = edits + 1 /\ edits < MaxEdits /\ UNCHANGED <<order, shipments, lost, req>>
  BY DEF UpdatePickup, UpdateAddress, UpdateWeight, Edit
<1>2. edits' \in 0..MaxEdits
  BY <1>1 DEF IInv, TypeOK, Configured
<1>3. pickup' \in [Shops -> Pickups]
  BY DEF UpdatePickup, UpdateAddress, UpdateWeight, IInv, TypeOK
<1>4. address' \in [area : Areas \cup {Empty}, coords : BOOLEAN]
  BY DEF UpdatePickup, UpdateAddress, UpdateWeight, IInv, TypeOK
<1>5. weight' \in Weights \cup {0}
  BY DEF UpdatePickup, UpdateAddress, UpdateWeight, IInv, TypeOK
<1>6. TypeOK'
  BY <1>1, <1>2, <1>3, <1>4, <1>5 DEF IInv, TypeOK
<1> QED
  BY <1>1, <1>6, EditKeeps

\* A payment or a cancellation.
LEMMA StatusChanged ==
    ASSUME Configured, IInv, NEW o \in Orders, Pay(o) \/ Cancel(o)
    PROVE  IInv'
<1>1. PICK st \in {"paid", "cancelled"} : order' = [order EXCEPT ![o].st = st]
  BY DEF Pay, Cancel
<1>2. UNCHANGED <<pickup, address, weight, shipments, lost, edits, req>> /\ UNCHANGED rows
  BY DEF Pay, Cancel, rows
<1>3. order \in [Orders -> OrderType]
  BY Types DEF IInv
<1>4. /\ order' \in [Orders -> OrderType]
      /\ \A p \in Orders : /\ order'[p].live = order[p].live /\ order'[p].quote = order[p].quote
                           /\ order'[p].opt = order[p].opt /\ order'[p].area = order[p].area
                           /\ order[p].st # "none" => order'[p].st # "none"
  BY <1>1, <1>3 DEF OrderType
<1>5. TypeOK'
  BY <1>2, <1>4 DEF IInv, TypeOK, OrderType
<1>6. \A t \in Slots : req'[t] = req[t] \/ SlotOK(req[t])'
  BY <1>2
<1>7. UNCHANGED rows /\ UNCHANGED shipments /\ UNCHANGED edits
  BY <1>2
<1> QED
  BY <1>4, <1>5, <1>6, <1>7, StatusKeeps

\* A slot is filled with r or emptied; the orders stay.
LEMMA SlotChanged ==
    ASSUME Configured, IInv, NEW s \in Slots, NEW r \in SlotType, req' = [req EXCEPT ![s] = r],
           SlotOK(r), lost' \in 0..MaxLost, UNCHANGED <<rows, order, shipments, edits>>
    PROVE  IInv'
<1>1. req \in [Slots -> SlotType] /\ UNCHANGED <<pickup, address, weight>>
  BY Types DEF IInv, rows
<1>2. TypeOK'
  BY <1>1 DEF IInv, TypeOK, SlotType
<1>3. \A t \in Slots : req'[t] = IF t = s THEN r ELSE req[t]
  BY <1>1
<1>4. SlotOK(r)'
  BY <1>1 DEF SlotOK, Fresh, PickupArea, PageGrams, biteshipWithStoreOrigin, Unedited
<1>5. \A t \in Slots : req'[t] = req[t] \/ SlotOK(req[t])'
  BY <1>3, <1>4 DEF SlotOK, Fresh, PickupArea, PageGrams, biteshipWithStoreOrigin, Unedited
<1> QED
  BY <1>2, <1>5, StatusKeeps

LEMMA IdleOK == ASSUME Configured PROVE Idle \in SlotType /\ SlotOK(Idle)
<1>1. 0 \in 0..MaxEdits /\ 0 \in Nat /\ 0 \in 0..MaxBooked
  BY DEF Configured
<1>2. NoQuote \in Quotes
  BY <1>1 DEF NoQuote, Quotes
<1> QED
  BY <1>1, <1>2 DEF Idle, SlotType, SlotOK

LEMMA GetRatesKeeps ==
    ASSUME Configured, IInv, NEW s \in Slots, NEW o \in Orders, NEW answers \in BOOLEAN,
           GetRates(s, o, answers)
    PROVE  IInv'
<1> DEFINE client == biteshipWithStoreOrigin(TempatDariOrderSource[o])
           live == answers /\ IsConfigured(client) /\ Pricing(client) # {}
           q == [NoQuote EXCEPT !.from = client.area, !.to = address.area, !.grams = PageGrams, !.at = edits]
           r == [op |-> "page", o |-> o, live |-> live, id |-> 0,
                 offers |-> IF live THEN Pricing(client) ELSE stubRates, quote |-> q]
<1>1. req' = [req EXCEPT ![s] = r] /\ UNCHANGED <<rows, order, shipments, lost, edits>>
  BY DEF GetRates, Take
<1>2. client.area \in Areas \cup {Empty} /\ PickupArea(o) = client.area
  BY AreaOK DEF Configured, IInv, PickupArea
<1>3. PageGrams \in Nat /\ edits \in 0..MaxEdits /\ address.area \in Areas \cup {Empty}
  BY DEF PageGrams, IInv, TypeOK, Configured
<1>4. /\ q \in Quotes /\ q.from = client.area /\ q.to = address.area
      /\ q.grams = PageGrams /\ q.at = edits
  BY <1>2, <1>3 DEF NoQuote, Quotes
<1>5. Pricing(client) \subseteq Services /\ Services \subseteq Options /\ stubRates \subseteq Options
  BY DEF Pricing, Options
<1>6. live \in BOOLEAN
  OBVIOUS
<1> HIDE DEF client, live, q
<1>7. r \in SlotType
  BY <1>4, <1>5, <1>6 DEF SlotType, Configured
<1>8. SlotOK(r)
  BY <1>2, <1>3, <1>4, <1>5 DEF SlotOK, Fresh, Configured
<1>9. lost' \in 0..MaxLost
  BY <1>1 DEF IInv, TypeOK
<1> HIDE DEF r
<1> QED
  BY <1>1, <1>7, <1>8, <1>9, SlotChanged

LEMMA CreateOrderKeeps ==
    ASSUME Configured, IInv, NEW s \in Slots, NEW opt \in Services \cup stubRates,
           NEW courier \in Spellings(opt[1]), CreateOrder(s, opt, courier)
    PROVE  IInv'
<1> DEFINE o == req[s].o
           q == [req[s].quote EXCEPT !.opt = opt]
           kept == <<courier, opt[2]>>
           n == [st |-> "pending", opt |-> kept, live |-> req[s].live, quote |-> q,
                 area |-> address.area, key |-> 0]
<1>1. /\ req[s].op = "page" /\ opt \in req[s].offers /\ order[o].st = "none"
      /\ order' = [order EXCEPT ![o] = n] /\ req' = [req EXCEPT ![s] = Idle]
      /\ UNCHANGED <<pickup, address, weight, shipments, lost, edits>>
  BY DEF CreateOrder, Done, rows
<1>2. /\ req \in [Slots -> SlotType] /\ order \in [Orders -> OrderType] /\ o \in Orders
      /\ SlotOK(req[s]) /\ req[s].quote \in Quotes
  BY <1>1, Types DEF IInv, SlotsOK, SlotOK, SlotType
<1>3. /\ q \in Quotes /\ q.opt = opt /\ q.from = req[s].quote.from /\ q.to = req[s].quote.to
      /\ q.grams = req[s].quote.grams /\ q.at = req[s].quote.at
  BY <1>2 DEF Quotes, Options
<1>14. kept \in Options /\ (opt \in Services => Normal(kept) = opt)
  BY NormalOption
<1> HIDE DEF o, q, kept
<1>4. n \in OrderType
  BY <1>2, <1>3, <1>14 DEF OrderType, SlotType, IInv, TypeOK, Configured
<1>5. /\ \A p \in Orders : order'[p] = IF p = o THEN n ELSE order[p]
      /\ \A t \in Slots : req'[t] = IF t = s THEN Idle ELSE req[t]
  BY <1>1, <1>2
<1>6. order' \in [Orders -> OrderType] /\ req' \in [Slots -> SlotType]
  BY <1>1, <1>2, <1>4, IdleOK
<1>7. TypeOK'
  BY <1>1, <1>6 DEF IInv, TypeOK, OrderType, SlotType
<1>8. \A p : PickupArea(p)' = PickupArea(p)
  BY <1>1 DEF PickupArea, biteshipWithStoreOrigin
<1>9. OrdersOK'
  <2> SUFFICES ASSUME NEW p \in Orders, order'[p].live
               PROVE  (/\ Fresh(order[p].quote, p)
                       /\ Normal(order[p].opt) = order[p].quote.opt
                       /\ Unedited(p) => order[p].area = order[p].quote.to)'
    BY DEF OrdersOK
  <2>1. CASE p # o
    BY <1>1, <1>5, <1>8, <2>1 DEF IInv, OrdersOK, Fresh, Unedited, PageGrams
  <2>2. CASE p = o
    <3>1. /\ order'[p].quote = q /\ order'[p].opt = kept /\ order'[p].area = address.area
          /\ req[s].live
      BY <1>5, <2>2
    <3>2. opt \in Services /\ Fresh(req[s].quote, o)
      BY <1>1, <1>2, <3>1 DEF SlotOK, o
    <3> QED
      BY <1>1, <1>3, <1>14, <1>8, <2>2, <3>1, <3>2 DEF Fresh, Unedited, PageGrams
  <2> QED
    BY <2>1, <2>2
<1>10. SlotsOK'
  <2> SUFFICES ASSUME NEW t \in Slots PROVE SlotOK(req[t])'
    BY DEF SlotsOK
  <2>1. CASE t = s
    BY <1>5, <2>1 DEF SlotOK, Idle
  <2>2. CASE t # s
    <3>1. SlotOK(req[t]) /\ req'[t] = req[t]
      BY <1>5, <2>2 DEF IInv, SlotsOK
    <3>2. req[t].op \in {"book", "booked"} => req[t].o # o /\ req[t].o \in Orders
      BY <1>1, <3>1 DEF SlotOK
    <3>3. req[t].op = "page" /\ req[t].live => Fresh(req[t].quote, req[t].o)'
      BY <1>1, <1>8, <3>1 DEF SlotOK, Fresh, PageGrams
    <3> QED
      BY <1>1, <1>5, <3>1, <3>2, <3>3 DEF SlotOK, Unedited
  <2> QED
    BY <2>1, <2>2
<1>11. ShipmentsOK'
  <2>1. \A i \in DOMAIN shipments : shipments[i].o \in Orders /\ shipments[i].o # o
    BY <1>1, ShipmentOrder DEF IInv, ShipmentsOK
  <2> QED
    BY <1>1, <1>5, <2>1 DEF IInv, ShipmentsOK, Unedited
<1> QED
  BY <1>7, <1>9, <1>10, <1>11 DEF IInv

LEMMA BeginShipmentKeeps ==
    ASSUME Configured, IInv, NEW s \in Slots, NEW o \in Orders, BeginShipment(s, o)
    PROVE  IInv'
<1> DEFINE q == [opt |-> Normal(order[o].opt), from |-> Empty, to |-> order[o].area,
                 grams |-> BookingGrams, at |-> edits]
           r == [Idle EXCEPT !.op = "book", !.o = o, !.quote = q]
<1>1. /\ req' = [req EXCEPT ![s] = r] /\ order[o].st \in {"paid", "processing"}
      /\ UNCHANGED <<rows, order, shipments, lost, edits>>
  BY DEF BeginShipment, Take
<1>2. order[o] \in OrderType
  BY Types DEF IInv
<1>3. BookingGrams \in Nat /\ BookingGrams = PageGrams /\ edits \in 0..MaxEdits
  BY DEF BookingGrams, PageGrams, IInv, TypeOK, Configured
<1>4. order[o].opt \in Options \cup {NoOpt}
  BY <1>2 DEF OrderType, NoQuote, NoOpt
<1>5. Normal(order[o].opt) \in Options \cup {NoQuote.opt}
  BY <1>4, NormalOption DEF NoQuote, NoOpt
<1>6. q \in Quotes
  BY <1>2, <1>3, <1>5 DEF Quotes, OrderType
<1>7. r \in SlotType /\ r.op = "book" /\ r.o = o /\ r.quote = q
  BY <1>6, IdleOK DEF SlotType, Idle
<1>8. Unedited(o) => /\ q.opt = order[o].quote.opt /\ q.to = order[o].quote.to
                     /\ q.grams = order[o].quote.grams /\ q.at = order[o].quote.at
  <2> HAVE Unedited(o)
  <2>1. /\ Fresh(order[o].quote, o) /\ edits = order[o].quote.at
        /\ Normal(order[o].opt) = order[o].quote.opt
        /\ order[o].area = order[o].quote.to
    BY DEF IInv, OrdersOK, Unedited
  <2> QED
    BY <1>3, <2>1 DEF Fresh
<1> HIDE DEF q
<1>9. SlotOK(r)
  BY <1>1, <1>7, <1>8 DEF SlotOK
<1>10. lost' \in 0..MaxLost
  BY <1>1 DEF IInv, TypeOK
<1> HIDE DEF r
<1> QED
  BY <1>1, <1>7, <1>9, <1>10, SlotChanged

LEMMA AskKeeps ==
    ASSUME Configured, IInv, NEW s \in Slots, AskCourier(s)
    PROVE  IInv'
<1> DEFINE o == req[s].o
           a == [req[s].quote EXCEPT !.from = PickupArea(o)]
           x == [o |-> o, ask |-> a]
           r == [req[s] EXCEPT !.op = "booked", !.id = Len(shipments) + 1]
<1>1. /\ req[s].op = "book" /\ Len(shipments) < MaxBooked
      /\ shipments' = Append(shipments, x) /\ req' = [req EXCEPT ![s] = r]
      /\ UNCHANGED <<pickup, address, weight, order, lost, edits>>
  BY DEF AskCourier, rows, PickupArea
<1>2. /\ req \in [Slots -> SlotType] /\ SlotOK(req[s]) /\ o \in Orders /\ order[o].st # "none"
      /\ req[s].quote \in Quotes
  BY <1>1, Types DEF IInv, SlotsOK, SlotOK, SlotType
<1>3. PickupArea(o) \in Areas \cup {Empty}
  BY <1>2, AreaOK DEF PickupArea, IInv, Configured
<1>4. /\ a \in Quotes /\ a.from = PickupArea(o) /\ a.opt = req[s].quote.opt
      /\ a.to = req[s].quote.to /\ a.grams = req[s].quote.grams /\ a.at = req[s].quote.at
  BY <1>2, <1>3 DEF Quotes
<1>5. shipments \in Seq([o : Orders, ask : Quotes]) /\ Len(shipments) \in Nat
  BY DEF IInv, TypeOK
<1> HIDE DEF o, a
<1>6. /\ shipments' \in Seq([o : Orders, ask : Quotes]) /\ Len(shipments') <= MaxBooked
      /\ Len(shipments) + 1 \in 0..MaxBooked
      /\ \A i \in DOMAIN shipments' : shipments'[i] = IF i \in DOMAIN shipments THEN shipments[i] ELSE x
  BY <1>1, <1>2, <1>4, <1>5 DEF Configured
<1>7. r \in SlotType /\ r.op = "booked" /\ r.o = o /\ r.live = req[s].live
  BY <1>2, <1>6 DEF SlotType, o
<1> HIDE DEF r
<1>8. req' \in [Slots -> SlotType] /\ \A t \in Slots : req'[t] = IF t = s THEN r ELSE req[t]
  BY <1>1, <1>2, <1>7
<1>9. TypeOK'
  BY <1>1, <1>6, <1>8 DEF IInv, TypeOK, SlotType
<1>10. \A p : PickupArea(p)' = PickupArea(p)
  BY <1>1 DEF PickupArea, biteshipWithStoreOrigin
<1>11. OrdersOK'
  BY <1>1, <1>10 DEF IInv, OrdersOK, Fresh, Unedited, PageGrams
<1>12. SlotsOK'
  <2> SUFFICES ASSUME NEW t \in Slots PROVE SlotOK(req[t])'
    BY DEF SlotsOK
  <2>1. CASE t = s
    BY <1>1, <1>2, <1>7, <1>8, <2>1 DEF SlotOK
  <2>2. CASE t # s
    <3>1. SlotOK(req[t]) /\ req'[t] = req[t]
      BY <1>8, <2>2 DEF IInv, SlotsOK
    <3> QED
      BY <1>1, <1>10, <3>1 DEF SlotOK, Fresh, PageGrams, Unedited
  <2> QED
    BY <2>1, <2>2
<1>13. ShipmentsOK'
  <2> SUFFICES ASSUME NEW i \in DOMAIN shipments'
               PROVE  (/\ order[shipments[i].o].st # "none"
                       /\ Unedited(shipments[i].o) => shipments[i].ask = order[shipments[i].o].quote)'
    BY DEF ShipmentsOK
  <2>1. CASE i \in DOMAIN shipments
    BY <1>1, <1>6, <2>1 DEF IInv, ShipmentsOK, Unedited
  <2>2. CASE i \notin DOMAIN shipments
    <3>1. shipments'[i] = x /\ x.o = o /\ x.ask = a
      BY <1>6, <2>2
    <3>2. Unedited(o) => a = order[o].quote
      <4> HAVE Unedited(o)
      <4>1. /\ a.opt = order[o].quote.opt /\ a.to = order[o].quote.to
            /\ a.grams = order[o].quote.grams /\ a.at = order[o].quote.at
        BY <1>1, <1>2, <1>4 DEF SlotOK, o
      <4>2. a.from = order[o].quote.from
        BY <1>2, <1>4 DEF IInv, OrdersOK, Fresh, Unedited
      <4>3. order[o].quote \in Quotes
        BY <1>2, Types DEF IInv, OrderType
      <4> QED
        BY <1>4, <4>1, <4>2, <4>3 DEF Quotes
    <3> QED
      BY <1>1, <1>2, <3>1, <3>2 DEF Unedited
  <2> QED
    BY <2>1, <2>2
<1> QED
  BY <1>9, <1>11, <1>12, <1>13 DEF IInv

LEMMA SaveKeeps ==
    ASSUME Configured, IInv, NEW s \in Slots, SaveShipment(s)
    PROVE  IInv'
<1> DEFINE o == req[s].o
<1>1. /\ req[s].op = "booked"
      /\ order' = [order EXCEPT ![o].key = req[s].id, ![o].st = "processing"]
      /\ req' = [req EXCEPT ![s] = Idle]
      /\ UNCHANGED <<pickup, address, weight, shipments, lost, edits>> /\ UNCHANGED rows
  BY DEF SaveShipment, Done, rows
<1>2. /\ order \in [Orders -> OrderType] /\ req \in [Slots -> SlotType]
      /\ o \in Orders /\ req[s].id \in 0..MaxBooked
  BY <1>1, Types DEF IInv, SlotsOK, SlotOK, SlotType
<1>3. /\ order' \in [Orders -> OrderType]
      /\ \A p \in Orders : /\ order'[p].live = order[p].live /\ order'[p].quote = order[p].quote
                           /\ order'[p].opt = order[p].opt /\ order'[p].area = order[p].area
                           /\ order[p].st # "none" => order'[p].st # "none"
  BY <1>1, <1>2 DEF OrderType
<1>4. req' \in [Slots -> SlotType]
  BY <1>1, <1>2, IdleOK
<1>5. TypeOK'
  BY <1>1, <1>3, <1>4 DEF IInv, TypeOK, OrderType, SlotType
<1>6. \A t \in Slots : req'[t] = req[t] \/ SlotOK(req[t])'
  BY <1>1, <1>2 DEF SlotOK, Idle
<1> QED
  BY <1>1, <1>3, <1>5, <1>6, StatusKeeps

LEMMA AbandonKeeps ==
    ASSUME Configured, IInv, NEW s \in Slots, Abandon(s)
    PROVE  IInv'
<1>1. /\ req' = [req EXCEPT ![s] = Idle] /\ UNCHANGED <<rows, order, shipments, edits>>
      /\ (req[s].op = "booked" => lost < MaxLost)
      /\ lost' = IF req[s].op = "booked" THEN lost + 1 ELSE lost
  BY DEF Abandon, Done
<1>2. lost' \in 0..MaxLost
  BY <1>1 DEF IInv, TypeOK, Configured
<1> QED
  BY <1>1, <1>2, IdleOK, SlotChanged

-----------------------------------------------------------------------------
LEMMA NextIInv ==
    ASSUME Configured, IInv, [Next]_vars
    PROVE  IInv'
<1>1. CASE UNCHANGED vars
  <2>1. UNCHANGED <<pickup, address, weight, order, shipments, lost, edits, req>>
    BY <1>1 DEF vars
  <2>2. TypeOK'
    BY <2>1 DEF IInv, TypeOK
  <2> QED
    BY <2>1, <2>2, StatusKeeps DEF rows
<1>2. ASSUME \/ \E l \in Shops, p \in Pickups : UpdatePickup(l, p)
             \/ \E answers, coords \in BOOLEAN, area \in Areas \cup {Empty} : UpdateAddress(answers, area, coords)
             \/ \E w \in Weights : UpdateWeight(w)
      PROVE  IInv'
  BY <1>2, RowsEdited
<1>3. ASSUME NEW o \in Orders, Pay(o) \/ Cancel(o)
      PROVE  IInv'
  BY <1>3, StatusChanged
<1>4. ASSUME NEW s \in Slots, NEW o \in Orders, NEW answers \in BOOLEAN, GetRates(s, o, answers)
      PROVE  IInv'
  BY <1>4, GetRatesKeeps
<1>5. ASSUME NEW s \in Slots, NEW o \in Orders, BeginShipment(s, o)
      PROVE  IInv'
  BY <1>5, BeginShipmentKeeps
<1>6. ASSUME NEW s \in Slots, NEW opt \in Services \cup stubRates,
             NEW courier \in Spellings(opt[1]), CreateOrder(s, opt, courier)
      PROVE  IInv'
  BY <1>6, CreateOrderKeeps
<1>7. ASSUME NEW s \in Slots, AskCourier(s) \/ SaveShipment(s) \/ Abandon(s)
      PROVE  IInv'
  BY <1>7, AskKeeps, SaveKeeps, AbandonKeeps
<1> QED
  BY <1>1, <1>2, <1>3, <1>4, <1>5, <1>6, <1>7 DEF Next

\* The invariant holds in every state.
THEOREM AlwaysIInv == ASSUME Configured PROVE Spec => []IInv
<1>1. Init => IInv
  BY InitIInv
<1>2. IInv /\ [Next]_vars => IInv'
  BY NextIInv
<1> QED
  BY <1>1, <1>2, PTL DEF Spec

\* Whatever pages, orders and bookings overlap: as long as nobody has edited the
\* shop, the address or the weight since the page, the courier is asked for
\* exactly what the customer's price was made from.
THEOREM AlwaysBookedAsQuoted == ASSUME Configured PROVE Spec => []BookedAsQuoted
<1>1. IInv => BookedAsQuoted
  BY ShipmentOrder DEF IInv, ShipmentsOK, Unedited, BookedAsQuoted
<1> QED
  BY <1>1, AlwaysIInv, PTL

-----------------------------------------------------------------------------
(* How many shipments an order gets.  While it has no key, each was booked *)
(* by a handler that is still to save the key, or was lost; a handler that *)
(* is about to book comes on top, within the slots.                        *)

ShippedIn(sh, o) == {i \in DOMAIN sh : sh[i].o = o}
Doing(r, op, o) == {s \in Slots : r[s].op = op /\ r[s].o = o}

CountOK(sh, r, k, l, o) ==
    /\ Cardinality(ShippedIn(sh, o)) + Cardinality(Doing(r, "book", o)) <= Cardinality(Slots) + l
    /\ k = 0 => Cardinality(ShippedIn(sh, o)) <= Cardinality(Doing(r, "booked", o)) + l
CountInv ==
    /\ \A s \in Slots : req[s].op = "booked" => req[s].id # 0
    /\ \A o \in Orders : CountOK(shipments, req, order[o].key, lost, o)

\* What is counted is finite.
LEMMA DoingFinite ==
    ASSUME IsFiniteSet(Slots), NEW r, NEW op, NEW o
    PROVE  /\ IsFiniteSet(Doing(r, op, o)) /\ Cardinality(Doing(r, op, o)) \in Nat
           /\ Cardinality(Slots) \in Nat
<1>1. Doing(r, op, o) \in SUBSET Slots
  BY DEF Doing
<1> QED
  BY <1>1, FS_Subset, FS_CardinalityType

\* The shipments of an order are finitely many.
LEMMA ShippedFinite ==
    ASSUME NEW S, NEW sh \in Seq(S), NEW o
    PROVE  IsFiniteSet(ShippedIn(sh, o)) /\ Cardinality(ShippedIn(sh, o)) \in Nat
<1>1. ShippedIn(sh, o) \in SUBSET (1..Len(sh)) /\ Len(sh) \in Nat
  BY DEF ShippedIn
<1>2. IsFiniteSet(1..Len(sh))
  BY <1>1, FS_Interval
<1> QED
  BY <1>1, <1>2, FS_Subset, FS_CardinalityType

\* Two kinds of handlers are different slots.
LEMMA BookOrBooked ==
    ASSUME IsFiniteSet(Slots), NEW r, NEW o
    PROVE  Cardinality(Doing(r, "book", o)) + Cardinality(Doing(r, "booked", o)) <= Cardinality(Slots)
<1> DEFINE D == Doing(r, "book", o)
           S == Doing(r, "booked", o)
<1>1. IsFiniteSet(D) /\ IsFiniteSet(S) /\ Cardinality(D) \in Nat /\ Cardinality(S) \in Nat
  BY DoingFinite
<1>2. D \cap S = {} /\ D \cup S \in SUBSET Slots
  BY DEF Doing
<1> HIDE DEF D, S
<1>3. Cardinality(D \cup S) = Cardinality(D) + Cardinality(S) - Cardinality(D \cap S)
  BY <1>1, FS_Union
<1>4. Cardinality(D \cup S) <= Cardinality(Slots)
  BY <1>2, FS_Subset
<1>5. Cardinality(D) + Cardinality(S) <= Cardinality(Slots)
  BY <1>1, <1>2, <1>3, <1>4, FS_EmptySet
<1> QED
  BY <1>5 DEF D, S

\* No shipment is added, nobody starts to book, who has booked goes on; or the
\* order got its key.
LEMMA CountFewer ==
    ASSUME IsFiniteSet(Slots), NEW S, NEW sh \in Seq(S), NEW r, NEW r2, NEW k, NEW k2, NEW l \in Nat, NEW o,
           CountOK(sh, r, k, l, o), Doing(r2, "book", o) \subseteq Doing(r, "book", o),
           k2 = 0 => k = 0 /\ Doing(r, "booked", o) \subseteq Doing(r2, "booked", o)
    PROVE  CountOK(sh, r2, k2, l, o)
<1>1. Cardinality(Doing(r2, "book", o)) <= Cardinality(Doing(r, "book", o))
  BY DoingFinite, FS_Subset
<1>2. k2 = 0 => Cardinality(Doing(r, "booked", o)) <= Cardinality(Doing(r2, "booked", o))
  BY DoingFinite, FS_Subset
<1>3. Cardinality(ShippedIn(sh, o)) \in Nat
  BY ShippedFinite
<1>4. /\ Cardinality(Doing(r, "book", o)) \in Nat /\ Cardinality(Doing(r2, "book", o)) \in Nat
      /\ Cardinality(Doing(r, "booked", o)) \in Nat /\ Cardinality(Doing(r2, "booked", o)) \in Nat
      /\ Cardinality(Slots) \in Nat
  BY DoingFinite
<1> QED
  BY <1>1, <1>2, <1>3, <1>4 DEF CountOK

\* A handler starts to book: the order has no key.
LEMMA BeginCounts ==
    ASSUME IsFiniteSet(Slots), NEW S, NEW sh \in Seq(S), NEW r, NEW r2, NEW l \in Nat, NEW o,
           CountOK(sh, r, 0, l, o), Doing(r2, "booked", o) = Doing(r, "booked", o)
    PROVE  CountOK(sh, r2, 0, l, o)
<1>1. Cardinality(Doing(r2, "book", o)) + Cardinality(Doing(r2, "booked", o)) <= Cardinality(Slots)
  BY BookOrBooked
<1>2. Cardinality(ShippedIn(sh, o)) \in Nat
  BY ShippedFinite
<1>3. /\ Cardinality(Doing(r2, "book", o)) \in Nat /\ Cardinality(Doing(r2, "booked", o)) \in Nat
      /\ Cardinality(Slots) \in Nat
  BY DoingFinite
<1> QED
  BY <1>1, <1>2, <1>3 DEF CountOK

\* The courier books: one shipment more, and one handler that has booked.
LEMMA AskCounts ==
    ASSUME IsFiniteSet(Slots), NEW S, NEW sh \in Seq(S), NEW r, NEW r2, NEW k, NEW l \in Nat, NEW o,
           CountOK(sh, r, k, l, o), NEW s, NEW x \in S, x.o = o,
           s \in Doing(r, "book", o), s \notin Doing(r, "booked", o),
           Doing(r2, "book", o) = Doing(r, "book", o) \ {s},
           Doing(r2, "booked", o) = Doing(r, "booked", o) \cup {s}
    PROVE  CountOK(Append(sh, x), r2, k, l, o)
<1>1. ShippedIn(Append(sh, x), o) = ShippedIn(sh, o) \cup {Len(sh) + 1} /\ Len(sh) + 1 \notin ShippedIn(sh, o)
  BY DEF ShippedIn
<1>2. IsFiniteSet(ShippedIn(sh, o)) /\ Cardinality(ShippedIn(sh, o)) \in Nat
  BY ShippedFinite
<1>3. Cardinality(ShippedIn(Append(sh, x), o)) = Cardinality(ShippedIn(sh, o)) + 1
  BY <1>1, <1>2, FS_AddElement
<1>4. /\ IsFiniteSet(Doing(r, "book", o)) /\ Cardinality(Doing(r, "book", o)) \in Nat
      /\ IsFiniteSet(Doing(r, "booked", o)) /\ Cardinality(Doing(r, "booked", o)) \in Nat
      /\ Cardinality(Slots) \in Nat
  BY DoingFinite
<1>5. Cardinality(Doing(r2, "book", o)) = Cardinality(Doing(r, "book", o)) - 1
  BY <1>4, FS_RemoveElement
<1>6. Cardinality(Doing(r2, "booked", o)) = Cardinality(Doing(r, "booked", o)) + 1
  BY <1>4, FS_AddElement
<1> QED
  BY <1>2, <1>3, <1>4, <1>5, <1>6 DEF CountOK

\* A handler that has booked stops: one more lost.
LEMMA LostCounts ==
    ASSUME IsFiniteSet(Slots), NEW S, NEW sh \in Seq(S), NEW r, NEW r2, NEW k, NEW l \in Nat, NEW o,
           CountOK(sh, r, k, l, o), NEW s, Doing(r2, "book", o) \subseteq Doing(r, "book", o),
           Doing(r2, "booked", o) = Doing(r, "booked", o) \ {s}
    PROVE  CountOK(sh, r2, k, l + 1, o)
<1>1. Cardinality(Doing(r2, "book", o)) <= Cardinality(Doing(r, "book", o))
  BY DoingFinite, FS_Subset
<1>2. Cardinality(ShippedIn(sh, o)) \in Nat
  BY ShippedFinite
<1>3. /\ Cardinality(Doing(r, "book", o)) \in Nat /\ Cardinality(Doing(r2, "book", o)) \in Nat
      /\ IsFiniteSet(Doing(r, "booked", o)) /\ Cardinality(Doing(r, "booked", o)) \in Nat
      /\ Cardinality(Slots) \in Nat
  BY DoingFinite
<1>4. Cardinality(Doing(r2, "booked", o)) >= Cardinality(Doing(r, "booked", o)) - 1
  <2> DEFINE D == Doing(r, "booked", o)
  <2>1. IsFiniteSet(D) /\ Cardinality(D) \in Nat
    BY <1>3
  <2> HIDE DEF D
  <2>2. Cardinality(D \ {s}) = IF s \in D THEN Cardinality(D) - 1 ELSE Cardinality(D)
    BY <2>1, FS_RemoveElement
  <2>3. Cardinality(D \ {s}) >= Cardinality(D) - 1
    BY <2>1, <2>2
  <2> QED
    BY <2>3 DEF D
<1>5. Cardinality(Doing(r2, "booked", o)) \in Nat
  BY DoingFinite
<1> QED
  BY <1>1, <1>2, <1>3, <1>4, <1>5 DEF CountOK

\* No step books more than the handlers at work and the losses account for.
LEMMA CountNext ==
    ASSUME IsFiniteSet(Slots), Configured, IInv, CountInv, [Next]_vars
    PROVE  CountInv'
<1> DEFINE S == [o : Orders, ask : Quotes]
<1>0. /\ order \in [Orders -> OrderType] /\ req \in [Slots -> SlotType]
      /\ shipments \in Seq(S) /\ lost \in Nat
  BY Types DEF IInv, TypeOK, Configured
<1> HIDE DEF S
<1>1. \A o \in Orders : CountOK(shipments, req, order[o].key, lost, o)
  BY DEF CountInv
<1>2. \A s \in Slots : req[s].op = "booked" => req[s].id # 0
  BY DEF CountInv
<1>3. Idle.op = "idle"
  BY DEF Idle
\* A handler that has booked nothing yet ends, or one begins that will not book.
<1>4. ASSUME UNCHANGED <<shipments, lost>>, \A o \in Orders : order'[o].key = order[o].key,
             NEW s \in Slots, NEW r, req' = [req EXCEPT ![s] = r],
             r.op \notin {"book", "booked"}, req[s].op # "booked"
      PROVE  CountInv'
  <2>1. \A t \in Slots : req'[t] = IF t = s THEN r ELSE req[t]
    BY <1>0, <1>4
  <2>2. ASSUME NEW o \in Orders PROVE CountOK(shipments', req', order'[o].key, lost', o)
    <3>1. Doing(req', "book", o) \subseteq Doing(req, "book", o)
      BY <1>4, <2>1 DEF Doing
    <3>2. Doing(req, "booked", o) \subseteq Doing(req', "booked", o)
      BY <1>4, <2>1 DEF Doing
    <3> QED
      BY <1>0, <1>1, <1>4, <3>1, <3>2, CountFewer
  <2> QED
    BY <1>2, <1>4, <2>1, <2>2 DEF CountInv
<1>5. ASSUME UNCHANGED <<shipments, lost, req>>, \A o \in Orders : order'[o].key = order[o].key
      PROVE  CountInv'
  BY <1>1, <1>2, <1>5 DEF CountInv
<1>6. ASSUME NEW s \in Slots, NEW o \in Orders, NEW answers \in BOOLEAN, GetRates(s, o, answers) PROVE CountInv'
  <2> DEFINE client == biteshipWithStoreOrigin(TempatDariOrderSource[o])
             live == answers /\ IsConfigured(client) /\ Pricing(client) # {}
             q == [NoQuote EXCEPT !.from = client.area, !.to = address.area, !.grams = PageGrams, !.at = edits]
             offers == IF live THEN Pricing(client) ELSE stubRates
             r == [op |-> "page", o |-> o, live |-> live, id |-> 0, offers |-> offers, quote |-> q]
  <2>1. req' = [req EXCEPT ![s] = r] /\ req[s] = Idle /\ UNCHANGED <<shipments, lost, order>>
    BY <1>6 DEF GetRates, Take
  <2> HIDE DEF client, live, q, offers
  <2>2. r.op = "page"
    OBVIOUS
  <2> HIDE DEF r
  <2> QED
    BY <1>3, <1>4, <2>1, <2>2
<1>7. ASSUME NEW s \in Slots, NEW opt, NEW courier, CreateOrder(s, opt, courier) PROVE CountInv'
  <2> DEFINE p == req[s].o
  <2>1. /\ req[s].op = "page" /\ order[p].st = "none" /\ req' = [req EXCEPT ![s] = Idle]
        /\ UNCHANGED <<shipments, lost>>
        /\ \E n : n.key = 0 /\ order' = [order EXCEPT ![p] = n]
    BY <1>7 DEF CreateOrder, Done
  <2>2. p \in Orders
    BY <2>1 DEF IInv, SlotsOK, SlotOK
  <2>3. \A t \in Slots : req'[t] = IF t = s THEN Idle ELSE req[t]
    BY <1>0, <2>1
  <2>4. ASSUME NEW o \in Orders PROVE CountOK(shipments', req', order'[o].key, lost', o)
    <3>1. Doing(req', "book", o) \subseteq Doing(req, "book", o)
      BY <1>3, <2>1, <2>3 DEF Doing
    <3>2. Doing(req, "booked", o) \subseteq Doing(req', "booked", o)
      BY <1>3, <2>1, <2>3 DEF Doing
    <3>3. CASE o # p
      <4>1. order'[o].key = order[o].key
        BY <1>0, <2>1, <3>3
      <4> QED
        BY <1>0, <1>1, <2>1, <3>1, <3>2, <4>1, CountFewer
    <3>4. CASE o = p
      <4>1. ShippedIn(shipments, o) = {}
        BY <2>1, <3>4 DEF IInv, ShipmentsOK, ShippedIn
      <4>2. CountOK(shipments, req, 0, lost, o)
        <5>1. Cardinality(ShippedIn(shipments, o)) = 0
          BY <4>1, FS_EmptySet
        <5>2. Cardinality(Doing(req, "booked", o)) \in Nat
          BY DoingFinite
        <5> QED
          BY <1>0, <1>1, <5>1, <5>2 DEF CountOK
      <4>3. order'[o].key = 0
        BY <1>0, <2>1, <2>2, <3>4
      <4> QED
        BY <1>0, <2>1, <3>1, <3>2, <4>2, <4>3, CountFewer
    <3> QED
      BY <3>3, <3>4
  <2> QED
    BY <1>2, <1>3, <2>3, <2>4 DEF CountInv
<1>8. ASSUME NEW o \in Orders, Pay(o) \/ Cancel(o) PROVE CountInv'
  <2>1. PICK st : order' = [order EXCEPT ![o].st = st]
    BY <1>8 DEF Pay, Cancel
  <2>2. \A p \in Orders : order'[p].key = order[p].key
    BY <1>0, <2>1 DEF OrderType
  <2> QED
    BY <1>5, <1>8, <2>2 DEF Pay, Cancel
<1>9. ASSUME NEW s \in Slots, NEW p \in Orders, BeginShipment(s, p) PROVE CountInv'
  <2>1. PICK r : req' = [req EXCEPT ![s] = r] /\ r.op = "book" /\ r.o = p /\ req[s] = Idle
    <3> DEFINE q == [opt |-> Normal(order[p].opt), from |-> Empty, to |-> order[p].area,
                     grams |-> BookingGrams, at |-> edits]
               r == [Idle EXCEPT !.op = "book", !.o = p, !.quote = q]
    <3>1. req' = [req EXCEPT ![s] = r] /\ req[s] = Idle
      BY <1>9 DEF BeginShipment, Take
    <3> HIDE DEF q
    <3>2. r.op = "book" /\ r.o = p
      BY DEF Idle
    <3> QED
      BY <3>1, <3>2
  <2>2. order[p].key = 0 /\ UNCHANGED <<shipments, order, lost>>
    BY <1>9 DEF BeginShipment, Unbooked
  <2>3. \A t \in Slots : req'[t] = IF t = s THEN r ELSE req[t]
    BY <1>0, <2>1
  <2>4. ASSUME NEW o \in Orders PROVE CountOK(shipments', req', order'[o].key, lost', o)
    <3>1. Doing(req', "booked", o) = Doing(req, "booked", o)
      BY <1>3, <2>1, <2>3 DEF Doing
    <3>2. CASE o = p
      BY <1>0, <1>1, <2>2, <3>1, <3>2, BeginCounts
    <3>3. CASE o # p
      <4>1. Doing(req', "book", o) \subseteq Doing(req, "book", o)
        BY <2>1, <2>3, <3>3 DEF Doing
      <4> QED
        BY <1>0, <1>1, <2>2, <3>1, <4>1, CountFewer
    <3> QED
      BY <3>2, <3>3
  <2> QED
    BY <1>2, <2>1, <2>3, <2>4 DEF CountInv
<1>10. ASSUME NEW s \in Slots, AskCourier(s) PROVE CountInv'
  <2> DEFINE p == req[s].o
             a == [req[s].quote EXCEPT !.from = biteshipWithStoreOrigin(TempatDariOrderSource[p]).area]
             x == [o |-> p, ask |-> a]
             r == [req[s] EXCEPT !.op = "booked", !.id = Len(shipments) + 1]
  <2>1. /\ req[s].op = "book" /\ shipments' = Append(shipments, x) /\ req' = [req EXCEPT ![s] = r]
        /\ UNCHANGED <<order, lost>>
    BY <1>10 DEF AskCourier
  <2>2. p \in Orders /\ req[s] \in SlotType /\ Len(shipments) \in Nat
    BY <1>0, <2>1 DEF IInv, SlotsOK, SlotOK
  <2>3. x \in S /\ x.o = p
    <3>1. biteshipWithStoreOrigin(TempatDariOrderSource[p]).area \in Areas \cup {Empty}
      BY <2>2, AreaOK DEF IInv, Configured
    <3>2. a \in Quotes
      BY <2>2, <3>1 DEF SlotType, Quotes
    <3> HIDE DEF a, p
    <3> QED
      BY <2>2, <3>2 DEF S
  <2>4. r.op = "booked" /\ r.o = p /\ r.id = Len(shipments) + 1
    BY <2>2 DEF SlotType
  <2> HIDE DEF r, x, p
  <2>5. \A t \in Slots : req'[t] = IF t = s THEN r ELSE req[t]
    BY <1>0, <2>1
  <2>6. ASSUME NEW o \in Orders PROVE CountOK(shipments', req', order'[o].key, lost', o)
    <3>1. CASE o = p
      <4>1. s \in Doing(req, "book", o) /\ s \notin Doing(req, "booked", o)
        BY <2>1, <3>1 DEF Doing, p
      <4>2. Doing(req', "book", o) = Doing(req, "book", o) \ {s}
        BY <2>4, <2>5 DEF Doing
      <4>3. Doing(req', "booked", o) = Doing(req, "booked", o) \cup {s}
        BY <2>4, <2>5, <3>1 DEF Doing
      <4> QED
        BY <1>0, <1>1, <2>1, <2>3, <3>1, <4>1, <4>2, <4>3, AskCounts
    <3>2. CASE o # p
      <4>1. ShippedIn(shipments', o) = ShippedIn(shipments, o)
        BY <1>0, <2>1, <2>2, <2>3, <3>2 DEF ShippedIn
      <4>2. /\ Doing(req', "book", o) = Doing(req, "book", o)
            /\ Doing(req', "booked", o) = Doing(req, "booked", o)
        BY <2>1, <2>4, <2>5, <3>2 DEF Doing, p
      <4> QED
        BY <1>1, <2>1, <4>1, <4>2 DEF CountOK
    <3> QED
      BY <3>1, <3>2
  <2> QED
    BY <1>2, <2>2, <2>4, <2>5, <2>6 DEF CountInv
<1>11. ASSUME NEW s \in Slots, SaveShipment(s) PROVE CountInv'
  <2> DEFINE p == req[s].o
  <2>1. /\ req[s].op = "booked" /\ order' = [order EXCEPT ![p].key = req[s].id, ![p].st = "processing"]
        /\ req' = [req EXCEPT ![s] = Idle] /\ UNCHANGED <<shipments, lost>>
    BY <1>11 DEF SaveShipment, Done
  <2>2. p \in Orders /\ req[s].id # 0
    BY <1>2, <2>1 DEF IInv, SlotsOK, SlotOK
  <2>3. \A o \in Orders : order'[o].key = IF o = p THEN req[s].id ELSE order[o].key
    BY <1>0, <2>1 DEF OrderType
  <2>4. \A t \in Slots : req'[t] = IF t = s THEN Idle ELSE req[t]
    BY <1>0, <2>1
  <2>5. ASSUME NEW o \in Orders PROVE CountOK(shipments', req', order'[o].key, lost', o)
    <3>1. Doing(req', "book", o) \subseteq Doing(req, "book", o)
      BY <1>3, <2>4 DEF Doing
    <3>2. order'[o].key = 0 => order[o].key = 0 /\ o # p
      BY <2>2, <2>3
    <3>3. o # p => Doing(req, "booked", o) \subseteq Doing(req', "booked", o)
      BY <2>4 DEF Doing
    <3>4. CountOK(shipments, req, order[o].key, lost, o) /\ UNCHANGED <<shipments, lost>>
      BY <1>1, <2>1
    <3> DEFINE k == order[o].key
               k2 == order'[o].key
    <3>5. k2 = 0 => k = 0 /\ Doing(req, "booked", o) \subseteq Doing(req', "booked", o)
      BY <3>2, <3>3
    <3>6. CountOK(shipments, req, k, lost, o)
      BY <3>4
    <3> HIDE DEF k, k2
    <3>7. CountOK(shipments, req', k2, lost, o)
      BY <1>0, <3>1, <3>5, <3>6, CountFewer
    <3> QED
      BY <3>4, <3>7 DEF k2
  <2> QED
    BY <1>2, <1>3, <2>4, <2>5 DEF CountInv
<1>12. ASSUME NEW s \in Slots, Abandon(s) PROVE CountInv'
  <2>1. /\ req' = [req EXCEPT ![s] = Idle] /\ UNCHANGED <<order, shipments>>
        /\ lost' = IF req[s].op = "booked" THEN lost + 1 ELSE lost
    BY <1>12 DEF Abandon, Done
  <2>2. CASE req[s].op # "booked"
    BY <1>3, <1>4, <2>1, <2>2
  <2>3. CASE req[s].op = "booked"
    <3>1. \A t \in Slots : req'[t] = IF t = s THEN Idle ELSE req[t]
      BY <1>0, <2>1
    <3>2. ASSUME NEW o \in Orders PROVE CountOK(shipments', req', order'[o].key, lost', o)
      <4>1. Doing(req', "book", o) \subseteq Doing(req, "book", o)
        BY <1>3, <3>1 DEF Doing
      <4>2. Doing(req', "booked", o) = Doing(req, "booked", o) \ {s}
        BY <1>3, <3>1 DEF Doing
      <4>3. CountOK(shipments, req', order[o].key, lost + 1, o)
        BY <1>0, <1>1, <4>1, <4>2, LostCounts
      <4> QED
        BY <2>1, <2>3, <4>3
    <3> QED
      BY <1>2, <1>3, <3>1, <3>2 DEF CountInv
  <2> QED
    BY <2>2, <2>3
<1>13. UNCHANGED vars => UNCHANGED <<shipments, lost, req, order>>
  BY DEF vars
<1>14. ASSUME \/ \E l \in Shops, p \in Pickups : UpdatePickup(l, p)
              \/ \E answers, coords \in BOOLEAN, area \in Areas \cup {Empty} : UpdateAddress(answers, area, coords)
              \/ \E w \in Weights : UpdateWeight(w)
       PROVE  UNCHANGED <<shipments, lost, req, order>>
  BY <1>14 DEF UpdatePickup, UpdateAddress, UpdateWeight
<1> QED
  BY <1>5, <1>6, <1>7, <1>8, <1>9, <1>10, <1>11, <1>12, <1>13, <1>14 DEF Next

\* Nothing is booked at first.
LEMMA InitCountInv == ASSUME IsFiniteSet(Slots), Init PROVE CountInv
<1>1. \A s \in Slots : req[s].op = "idle"
  BY DEF Init, Idle
<1>2. shipments = <<>> /\ lost = 0
  BY DEF Init
<1>3. ASSUME NEW o \in Orders PROVE CountOK(shipments, req, order[o].key, lost, o)
  <2>1. ShippedIn(shipments, o) = {} /\ Doing(req, "book", o) = {}
    BY <1>1, <1>2 DEF ShippedIn, Doing
  <2>2. Cardinality(ShippedIn(shipments, o)) = 0 /\ Cardinality(Doing(req, "book", o)) = 0
    BY <2>1, FS_EmptySet
  <2>3. Cardinality(Slots) \in Nat /\ Cardinality(Doing(req, "booked", o)) \in Nat
    BY DoingFinite
  <2> QED
    BY <1>2, <2>2, <2>3 DEF CountOK
<1> QED
  BY <1>1, <1>3 DEF CountInv

\* What the counts say of a state.
LEMMA CountsBound == ASSUME IsFiniteSet(Slots), Configured, IInv, CountInv PROVE BookedBounded
<1> SUFFICES ASSUME NEW o \in Orders
             PROVE  Cardinality(Shipped(o)) <= Cardinality(Slots) + lost
  BY DEF BookedBounded
<1> DEFINE S == [o : Orders, ask : Quotes]
<1>1. shipments \in Seq(S) /\ lost \in Nat
  BY DEF IInv, TypeOK, Configured
<1> HIDE DEF S
<1>2. Shipped(o) = ShippedIn(shipments, o)
  BY DEF Shipped, ShippedIn
<1>3. Cardinality(ShippedIn(shipments, o)) \in Nat
  BY <1>1, ShippedFinite
<1>4. Cardinality(Doing(req, "book", o)) \in Nat /\ Cardinality(Slots) \in Nat
  BY DoingFinite
<1> QED
  BY <1>1, <1>2, <1>3, <1>4 DEF CountInv, CountOK

\* However clicks overlap and answers get lost, an order has at most as many
\* shipments as handlers work at once, and one more for each that was lost.
THEOREM ShipmentsBounded ==
    ASSUME IsFiniteSet(Slots), Configured
    PROVE  Spec => []BookedBounded
<1>1. Init => IInv /\ CountInv
  BY InitIInv, InitCountInv
<1>2. IInv /\ CountInv /\ [Next]_vars => (IInv /\ CountInv)'
  BY NextIInv, CountNext
<1>3. IInv /\ CountInv => BookedBounded
  BY CountsBound
<1> QED
  BY <1>1, <1>2, <1>3, PTL DEF Spec
=============================================================================
