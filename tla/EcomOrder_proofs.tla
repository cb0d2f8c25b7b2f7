-------------------------- MODULE EcomOrder_proofs --------------------------
(***************************************************************************)
(* What holds of EcomOrder for every set of orders, products and handler   *)
(* slots.  Under every overlap: type correctness, the exact stock ledger,  *)
(* no negative stock, and that the orders of a checkout are paid and       *)
(* proved together.  With one handler at a time (SerialSpec): terminal     *)
(* states, stock that comes back once, exact revenue, and the refinement   *)
(* of Reservation.                                                         *)
(***************************************************************************)
EXTENDS EcomOrder, FiniteSetTheorems, WellFoundedInduction, TLAPS

-----------------------------------------------------------------------------
(* Lemmas about the shared operators.                                      *)

\* The units an order set holds of a product are a natural number, covered by
\* any bound that covers each of its orders.
LEMMA UnitsNat ==
    ASSUME NEW S \in SUBSET Orders, NEW p \in Products
    PROVE  /\ Units(S, p) \in Nat
           /\ \A n \in Nat : (\A o \in S : Qty[o][p] <= n) => Units(S, p) <= n
<1>1. CASE \E o \in S : Qty[o][p] > 0
  <2> DEFINE c == CHOOSE x \in S : Qty[x][p] > 0
  <2>1. c \in S /\ Qty[c][p] > 0
    BY <1>1
  <2>2. Units(S, p) = Qty[c][p]
    BY <1>1 DEF Units
  <2>3. Qty[c][p] \in Nat
    BY <2>1, ConstAssumption
  <2> HIDE DEF c
  <2> QED
    BY <2>1, <2>2, <2>3
<1>2. CASE ~ \E o \in S : Qty[o][p] > 0
  BY <1>2 DEF Units
<1> QED
  BY <1>1, <1>2

\* A request record written by Begin keeps the slots well typed.
LEMMA BeginType ==
    ASSUME req \in [Slots -> Request], NEW s \in Slots, NEW op \in Ops,
           NEW S \in SUBSET Orders, NEW to \in EcomStatus \union {"none"},
           Begin(s, op, S, to)
    PROVE  req' \in [Slots -> Request]
BY DEF Begin, Request

\* So does emptying a slot.
LEMMA DoneType ==
    ASSUME req \in [Slots -> Request], NEW s \in Slots, Done(s)
    PROVE  req' \in [Slots -> Request]
<1>1. Idle \in Request
  BY DEF Idle, Request, Ops
<1> QED
  BY <1>1 DEF Done

\* What a slot holds.
LEMMA RequestFields ==
    ASSUME req \in [Slots -> Request], NEW s \in Slots
    PROVE  /\ req[s].orders \in SUBSET Orders
           /\ req[s].to \in EcomStatus \union {"none"}
           /\ req[s].op \in Ops
BY DEF Request

\* Writing a status keeps the two status columns well typed.
LEMMA SetStatusType ==
    ASSUME ecom \in [Orders -> EcomStatus \union {"none"}], NEW S,
           NEW e \in EcomStatus \union {"none"}, SetStatus(S, e)
    PROVE  ecom' \in [Orders -> EcomStatus \union {"none"}]
BY DEF SetStatus

\* The same for orders.status.
LEMMA SetPosType ==
    ASSUME status \in [Orders -> PosStatus], NEW S, NEW e \in PosStatus, SetPos(S, e)
    PROVE  status' \in [Orders -> PosStatus]
BY DEF SetPos

-----------------------------------------------------------------------------
(* The stock part.                                                         *)

\* What the stock variables satisfy between any two steps.
StockInv ==
    /\ stock \in [Products -> Int]
    /\ ledger \in [Products -> Int]
    /\ returned \in [Orders -> Nat]
    /\ slipped \subseteq Products
    /\ StockNonNegative
    /\ LedgerExact

\* Giving stock back keeps it non-negative and equal to its ledger.
LEMMA RestockKeeps ==
    ASSUME StockInv, NEW S \in SUBSET Orders, Restock(S)
    PROVE  StockInv'
<1>1. \A p \in Products : Units(S, p) \in Nat
  BY UnitsNat
<1>2. returned' \in [Orders -> Nat]
  BY DEF StockInv, Restock
<1>3. /\ stock' \in [Products -> Int]
      /\ \A p \in Products : stock'[p] = stock[p] + Units(S, p)
  BY <1>1 DEF StockInv, Restock
<1>4. /\ ledger' \in [Products -> Int]
      /\ \A p \in Products : ledger'[p] = ledger[p] + Units(S, p)
  BY <1>1 DEF StockInv, Restock, MovementIn
<1>5. StockNonNegative'
  BY <1>1, <1>3 DEF StockInv, StockNonNegative
<1>6. slipped' = slipped
  BY DEF Restock
<1>7. LedgerExact'
  BY <1>1, <1>3, <1>4, <1>6, ConstAssumption DEF StockInv, LedgerExact
<1> QED
  BY <1>2, <1>3, <1>4, <1>5, <1>6, <1>7 DEF StockInv

\* Giving it back with statements that may fail unseen: a product of which both
\* or neither went through keeps its ledger, any other is known to have slipped.
LEMMA RestockUncheckedKeeps ==
    ASSUME StockInv, NEW S \in SUBSET Orders, RestockUnchecked(S)
    PROVE  StockInv'
<1>1. \A p \in Products : Units(S, p) \in Nat
  BY UnitsNat
<1>2. PICK moved \in SUBSET Products, logged \in SUBSET Products :
        /\ stock' = [p \in Products |-> IF p \in moved THEN stock[p] + Units(S, p) ELSE stock[p]]
        /\ ledger' = [p \in Products |-> IF p \in logged THEN ledger[p] + Units(S, p) ELSE ledger[p]]
        /\ returned' = [o \in Orders |->
                          IF o \in S /\ AllAmong(o, moved) THEN returned[o] + 1 ELSE returned[o]]
        /\ slipped' = slipped \union ({p \in Products : Units(S, p) > 0}
                                        \cap ((moved \ logged) \union (logged \ moved)))
  BY DEF RestockUnchecked
<1>3. returned' \in [Orders -> Nat] /\ slipped' \subseteq Products
  BY <1>2 DEF StockInv
<1>4. /\ stock' \in [Products -> Int] /\ ledger' \in [Products -> Int]
      /\ \A p \in Products : stock'[p] >= stock[p]
  BY <1>1, <1>2 DEF StockInv
<1>5. StockNonNegative'
  BY <1>4 DEF StockInv, StockNonNegative
<1>6. ASSUME NEW p \in Products, p \notin slipped'
      PROVE  stock'[p] = InitStock[p] + ledger'[p]
  <2>1. Units(S, p) = 0 \/ (p \in moved <=> p \in logged)
    BY <1>1, <1>2, <1>6
  <2>2. stock[p] = InitStock[p] + ledger[p]
    BY <1>2, <1>6 DEF StockInv, LedgerExact
  <2> QED
    BY <1>1, <1>2, <2>1, <2>2, ConstAssumption DEF StockInv
<1>7. LedgerExact'
  BY <1>6 DEF LedgerExact
<1> QED
  BY <1>3, <1>4, <1>5, <1>7 DEF StockInv

\* So does a checkout, because the decrement carries its own guard.
LEMMA CheckoutKeeps ==
    ASSUME StockInv, req \in [Slots -> Request], NEW s \in Slots, CommitCheckout(s)
    PROVE  StockInv'
<1> DEFINE S == Reservable(req[s].orders)
<1>1. S \in SUBSET Orders /\ \A o \in S : \A p \in Products : stock[p] >= Qty[o][p]
  BY RequestFields DEF Reservable
<1>2. /\ stock' = [p \in Products |-> stock[p] - Units(S, p)]
      /\ ledger' = [p \in Products |-> ledger[p] - Units(S, p)]
      /\ returned' = returned /\ slipped' = slipped
  BY DEF CommitCheckout
<1> HIDE DEF S
<1>3. \A p \in Products : stock[p] \in Nat
  BY DEF StockInv, StockNonNegative
<1>4. \A o \in S : \A p \in Products : Qty[o][p] \in Nat
  BY <1>1, ConstAssumption
<1>5. \A p \in Products : Units(S, p) \in Nat /\ Units(S, p) <= stock[p]
  BY <1>1, <1>3, <1>4, UnitsNat
<1>6. \A p \in Products : /\ stock'[p] = stock[p] - Units(S, p)
                          /\ ledger'[p] = ledger[p] - Units(S, p)
                          /\ stock'[p] \in Int /\ ledger'[p] \in Int
  BY <1>2, <1>5 DEF StockInv
<1>7. StockNonNegative'
  BY <1>3, <1>5, <1>6 DEF StockNonNegative
<1>8. LedgerExact'
  BY <1>2, <1>3, <1>5, <1>6, ConstAssumption DEF StockInv, LedgerExact
<1> QED
  BY <1>2, <1>6, <1>7, <1>8 DEF StockInv

-----------------------------------------------------------------------------
(* The inductive invariant and the steps of each group of handlers.        *)

\* TypeOK is needed for the slots: the orders a handler writes are orders, and
\* the status it writes is a status.
IInv == TypeOK /\ StockInv

\* A step that only fills or empties a slot.
LEMMA SlotStep ==
    ASSUME IInv, req' \in [Slots -> Request],
           UNCHANGED <<stockVars, rowVars, proof, timeVars, pgVars, shipVars>>
    PROVE  IInv'
BY DEF IInv, TypeOK, StockInv, StockNonNegative, LedgerExact, stockVars,
       rowVars, timeVars, pgVars, shipVars

\* A step that leaves the stock alone.
LEMMA StockUnchanged ==
    ASSUME StockInv, UNCHANGED stockVars
    PROVE  StockInv'
BY DEF StockInv, StockNonNegative, LedgerExact, stockVars

\* Every step of the customer's handlers keeps the invariant.
LEMMA CustomerKeeps ==
    ASSUME IInv, NEW s \in Slots, CustomerStep(s)
    PROVE  IInv'
<1> USE DEF IInv
<1>1. ASSUME NEW g \in Groups, BeginCheckout(s, g) PROVE IInv'
  <2>1. OrdersOf(g) \in SUBSET Orders
    BY DEF OrdersOf
  <2>2. req' \in [Slots -> Request]
    BY <1>1, <2>1, BeginType DEF BeginCheckout, TypeOK, Ops, EcomStatus
  <2> QED
    BY <1>1, <2>2, SlotStep DEF BeginCheckout
<1>2. ASSUME NEW o \in Orders, BeginCustomerCancel(s, o) PROVE IInv'
  <2>1. req' \in [Slots -> Request]
    BY <1>2, BeginType DEF BeginCustomerCancel, TypeOK, Ops, EcomStatus
  <2> QED
    BY <1>2, <2>1, SlotStep DEF BeginCustomerCancel
<1>3. ASSUME NEW o \in Orders, BeginProof(s, o) PROVE IInv'
  <2>1. req' \in [Slots -> Request]
    BY <1>3, BeginType DEF BeginProof, TypeOK, Ops
  <2> QED
    BY <1>3, <2>1, SlotStep DEF BeginProof
<1>4. ASSUME NEW o \in Orders, BeginConfirmReceived(s, o) PROVE IInv'
  <2>1. req' \in [Slots -> Request]
    BY <1>4, BeginType DEF BeginConfirmReceived, TypeOK, Ops, EcomStatus
  <2> QED
    BY <1>4, <2>1, SlotStep DEF BeginConfirmReceived
<1>5. ASSUME CommitCheckout(s) PROVE IInv'
  <2>1. StockInv'
    BY <1>5, CheckoutKeeps DEF TypeOK
  <2>2. Reservable(req[s].orders) \in SUBSET Orders
    BY RequestFields DEF Reservable, TypeOK
  <2>3. ecom' \in [Orders -> EcomStatus \union {"none"}]
    BY <1>5, SetStatusType DEF CommitCheckout, TypeOK, EcomStatus
  <2>4. status' \in [Orders -> PosStatus]
    BY <1>5, SetPosType DEF CommitCheckout, TypeOK, PosStatus
  <2>5. links' \subseteq Trx
    BY <1>5, <2>2, ConstAssumption DEF CommitCheckout, CreatePayment, TypeOK, Trx
  <2>6. req' \in [Slots -> Request]
    BY <1>5, DoneType DEF CommitCheckout, TypeOK
  <2> QED
    BY <1>5, <2>1, <2>3, <2>4, <2>5, <2>6
    DEF CommitCheckout, TypeOK, StockInv, timeVars, shipVars
<1>6. ASSUME CommitCustomerCancel(s) PROVE IInv'
  <2>1. req[s].orders \in SUBSET Orders
    BY RequestFields DEF TypeOK
  <2>2. StockInv'
    BY <1>6, <2>1, RestockKeeps DEF CommitCustomerCancel
  <2>3. ecom' \in [Orders -> EcomStatus \union {"none"}]
    BY <1>6, SetStatusType DEF CommitCustomerCancel, TypeOK, EcomStatus
  <2>4. status' \in [Orders -> PosStatus]
    BY <1>6, SetPosType DEF CommitCustomerCancel, TypeOK, PosStatus
  <2>5. req' \in [Slots -> Request]
    BY <1>6, DoneType DEF CommitCustomerCancel, TypeOK
  <2> QED
    BY <1>6, <2>2, <2>3, <2>4, <2>5
    DEF CommitCustomerCancel, TypeOK, StockInv, timeVars, pgVars, shipVars
<1>7. ASSUME CommitProof(s) PROVE IInv'
  <2>1. proof' \subseteq Orders
    BY <1>7 DEF CommitProof, TypeOK, ProofTargets, PendingOf, OrdersOf
  <2>2. req' \in [Slots -> Request]
    BY <1>7, DoneType DEF CommitProof, TypeOK
  <2>3. StockInv'
    BY <1>7, StockUnchanged DEF CommitProof
  <2> QED
    BY <1>7, <2>1, <2>2, <2>3
    DEF CommitProof, TypeOK, StockInv, rowVars, timeVars, pgVars, shipVars
<1>8. ASSUME CommitConfirmReceived(s) PROVE IInv'
  <2>1. ecom' \in [Orders -> EcomStatus \union {"none"}]
    BY <1>8, SetStatusType DEF CommitConfirmReceived, TypeOK, EcomStatus
  <2>2. status' \in [Orders -> PosStatus]
    BY <1>8, SetPosType DEF CommitConfirmReceived, TypeOK, PosStatus
  <2>3. req' \in [Slots -> Request]
    BY <1>8, DoneType DEF CommitConfirmReceived, TypeOK
  <2>4. StockInv'
    BY <1>8, StockUnchanged DEF CommitConfirmReceived
  <2> QED
    BY <1>8, <2>1, <2>2, <2>3, <2>4
    DEF CommitConfirmReceived, TypeOK, StockInv, timeVars, pgVars, shipVars
<1> QED
  BY <1>1, <1>2, <1>3, <1>4, <1>5, <1>6, <1>7, <1>8 DEF CustomerStep

\* So does every step that notifications, sync and retry make.
LEMMA GatewayKeeps ==
    ASSUME IInv, NEW s \in Slots, GatewayStep(s)
    PROVE  IInv'
<1> USE DEF IInv
<1>1. ASSUME NEW t \in Trx, NEW e \in PgStatus, BeginPgNotification(s, t, e) PROVE IInv'
  <2>1. CASE t[2] = "first" /\ Begin(s, "pg", PgTodo(t[1], e), PgTarget(e)) /\ UNCHANGED unmatched
    <3>1. PgTodo(t[1], e) \in SUBSET Orders /\ PgTarget(e) \in EcomStatus
      BY DEF PgTodo, OrdersOf, PgTarget, EcomStatus
    <3>2. req' \in [Slots -> Request]
      BY <2>1, <3>1, BeginType DEF TypeOK, Ops
    <3> QED
      BY <1>1, <2>1, <3>2, SlotStep DEF BeginPgNotification, pgVars
  <2>2. CASE unmatched' = unmatched \union {t} /\ UNCHANGED req
    <3>1. StockInv'
      BY <1>1, StockUnchanged DEF BeginPgNotification
    <3> QED
      BY <1>1, <2>2, <3>1 DEF BeginPgNotification, TypeOK, StockInv, rowVars, timeVars, shipVars
  <2> QED
    BY <1>1, <2>1, <2>2 DEF BeginPgNotification
<1>2. ASSUME NEW o \in Orders, BeginSync(s, o) PROVE IInv'
  <2>1. req' \in [Slots -> Request]
    BY <1>2, BeginType DEF BeginSync, TypeOK, Ops, EcomStatus
  <2> QED
    BY <1>2, <2>1, SlotStep DEF BeginSync
<1>3. ASSUME NEW o \in Orders, BeginRetry(s, o) PROVE IInv'
  <2>1. req' \in [Slots -> Request]
    BY <1>3, BeginType DEF BeginRetry, TypeOK, Ops
  <2> QED
    BY <1>3, <2>1, SlotStep DEF BeginRetry
<1>4. ASSUME CommitPgNotification(s) PROVE IInv'
  <2>1. req[s].orders \in SUBSET Orders /\ req[s].to \in EcomStatus \union {"none"}
    BY RequestFields DEF TypeOK
  <2>2. ecom' \in [Orders -> EcomStatus \union {"none"}]
    BY <1>4, <2>1, SetStatusType DEF CommitPgNotification, TypeOK
  <2>3. req' \in [Slots -> Request]
    BY <1>4, DoneType DEF CommitPgNotification, TypeOK
  <2>4. CASE SetPos(req[s].orders, "completed") /\ UNCHANGED stockVars
    <3>1. status' \in [Orders -> PosStatus]
      BY <2>4, SetPosType DEF TypeOK, PosStatus
    <3>2. StockInv'
      BY <2>4, StockUnchanged
    <3> QED
      BY <1>4, <2>2, <2>3, <3>1, <3>2
      DEF CommitPgNotification, TypeOK, StockInv, timeVars, pgVars, shipVars
  <2>5. CASE RestockUnchecked(req[s].orders) /\ UNCHANGED status
    <3>1. StockInv'
      BY <2>1, <2>5, RestockUncheckedKeeps
    <3> QED
      BY <1>4, <2>2, <2>3, <2>5, <3>1
      DEF CommitPgNotification, TypeOK, StockInv, timeVars, pgVars, shipVars
  <2> QED
    BY <1>4, <2>4, <2>5 DEF CommitPgNotification
<1>5. ASSUME CommitSync(s) PROVE IInv'
  <2>1. ecom' \in [Orders -> EcomStatus \union {"none"}]
    BY <1>5, SetStatusType DEF CommitSync, TypeOK, EcomStatus
  <2>2. status' \in [Orders -> PosStatus]
    BY <1>5, SetPosType DEF CommitSync, TypeOK, PosStatus
  <2>3. req' \in [Slots -> Request]
    BY <1>5, DoneType DEF CommitSync, TypeOK
  <2>4. StockInv'
    BY <1>5, StockUnchanged DEF CommitSync
  <2> QED
    BY <1>5, <2>1, <2>2, <2>3, <2>4
    DEF CommitSync, TypeOK, StockInv, timeVars, pgVars, shipVars
<1>6. ASSUME CommitRetry(s) PROVE IInv'
  <2>1. \A o \in req[s].orders : o \in Orders
    BY RequestFields DEF TypeOK
  <2>2. "retry" \in Attempts => links' \subseteq Trx
    BY <1>6, <2>1, ConstAssumption DEF CommitRetry, TypeOK, Trx
  <2>3. req' \in [Slots -> Request]
    BY <1>6, DoneType DEF CommitRetry, TypeOK
  <2>4. StockInv'
    BY <1>6, StockUnchanged DEF CommitRetry
  <2>5. "retry" \in Attempts
    BY <1>6 DEF CommitRetry
  <2> QED
    BY <1>6, <2>2, <2>3, <2>4, <2>5
    DEF CommitRetry, TypeOK, StockInv, rowVars, timeVars, shipVars
<1> QED
  BY <1>1, <1>2, <1>3, <1>4, <1>5, <1>6 DEF GatewayStep

\* So does every step of the admin panel.
LEMMA AdminKeeps ==
    ASSUME IInv, NEW s \in Slots, AdminStep(s)
    PROVE  IInv'
<1> USE DEF IInv
<1>1. ASSUME NEW o \in Orders, NEW to \in EcomStatus, BeginUpdateStatus(s, o, to) PROVE IInv'
  <2>1. req' \in [Slots -> Request]
    BY <1>1, BeginType DEF BeginUpdateStatus, TypeOK, Ops
  <2> QED
    BY <1>1, <2>1, SlotStep DEF BeginUpdateStatus
<1>2. ASSUME NEW o \in Orders, BeginSetShipping(s, o) PROVE IInv'
  <2>1. req' \in [Slots -> Request]
    BY <1>2, BeginType DEF BeginSetShipping, TypeOK, Ops, EcomStatus
  <2> QED
    BY <1>2, <2>1, SlotStep DEF BeginSetShipping
<1>3. ASSUME CommitUpdateStatus(s) PROVE IInv'
  <2>1. req[s].orders \in SUBSET Orders /\ req[s].to \in EcomStatus \union {"none"}
    BY RequestFields DEF TypeOK
  <2>2. ecom' \in [Orders -> EcomStatus \union {"none"}]
    BY <1>3, <2>1, SetStatusType DEF CommitUpdateStatus, TypeOK
  <2>3. \A o \in Orders : PosAfter(o, req[s].to) \in PosStatus
    BY DEF PosAfter, PosStatus, TypeOK
  <2>4. status' \in [Orders -> PosStatus]
    BY <1>3, <2>3 DEF CommitUpdateStatus, TypeOK
  <2>5. StockInv'
    BY <1>3, <2>1, RestockKeeps, StockUnchanged DEF CommitUpdateStatus
  <2>6. ripe' \subseteq Orders
    BY <1>3 DEF CommitUpdateStatus, TypeOK
  <2>7. req' \in [Slots -> Request]
    BY <1>3, DoneType DEF CommitUpdateStatus, TypeOK
  <2> QED
    BY <1>3, <2>2, <2>4, <2>5, <2>6, <2>7
    DEF CommitUpdateStatus, TypeOK, StockInv, pgVars, shipVars
<1>4. ASSUME CommitSetShipping(s) PROVE IInv'
  <2>1. ecom' \in [Orders -> EcomStatus \union {"none"}]
    BY <1>4, SetStatusType DEF CommitSetShipping, TypeOK, EcomStatus
  <2>2. req' \in [Slots -> Request]
    BY <1>4, DoneType DEF CommitSetShipping, TypeOK
  <2>3. StockInv'
    BY <1>4, StockUnchanged DEF CommitSetShipping
  <2> QED
    BY <1>4, <2>1, <2>2, <2>3
    DEF CommitSetShipping, TypeOK, StockInv, timeVars, pgVars, shipVars
<1> QED
  BY <1>1, <1>2, <1>3, <1>4 DEF AdminStep

\* So does every step about the courier, the split webhook included.
LEMMA CourierKeeps ==
    ASSUME IInv, NEW s \in Slots, CourierStep(s)
    PROVE  IInv'
<1> USE DEF IInv
<1>0. req[s].orders \in SUBSET Orders /\ req[s].to \in EcomStatus \union {"none"}
  BY RequestFields DEF TypeOK
<1>1. ASSUME NEW o \in Orders, BeginBooking(s, o) PROVE IInv'
  <2>1. req' \in [Slots -> Request]
    BY <1>1, BeginType DEF BeginBooking, TypeOK, Ops, EcomStatus
  <2>2. bookings' \in [Orders -> Nat]
    BY <1>1 DEF BeginBooking, TypeOK
  <2>3. StockInv'
    BY <1>1, StockUnchanged DEF BeginBooking
  <2> QED
    BY <1>1, <2>1, <2>2, <2>3
    DEF BeginBooking, TypeOK, StockInv, rowVars, timeVars, pgVars
<1>2. \A b, current : MapBiteshipStatus(b, current) \in EcomStatus \union {"none"}
  BY DEF MapBiteshipStatus, EcomStatus
<1>3. ASSUME NEW o \in Orders, NEW b \in Courier, BeginBiteshipWebhook(s, o, b) PROVE IInv'
  <2>1. req' \in [Slots -> Request]
    BY <1>2, <1>3, BeginType DEF BeginBiteshipWebhook, TypeOK, Ops
  <2> QED
    BY <1>3, <2>1, SlotStep DEF BeginBiteshipWebhook
<1>4. ASSUME NEW o \in Orders, NEW b \in Courier, BeginSyncBiteship(s, o, b) PROVE IInv'
  <2>1. req' \in [Slots -> Request]
    BY <1>2, <1>4, BeginType DEF BeginSyncBiteship, TypeOK, Ops
  <2> QED
    BY <1>4, <2>1, SlotStep DEF BeginSyncBiteship
<1>5. ASSUME CommitBooking(s) PROVE IInv'
  <2>1. ecom' \in [Orders -> EcomStatus \union {"none"}]
    BY <1>5, SetStatusType DEF CommitBooking, TypeOK, EcomStatus
  <2>2. req' \in [Slots -> Request]
    BY <1>5, DoneType DEF CommitBooking, TypeOK
  <2>3. StockInv'
    BY <1>5, StockUnchanged DEF CommitBooking
  <2>4. resi' \subseteq Orders
    BY <1>0, <1>5 DEF CommitBooking, TypeOK
  <2> QED
    BY <1>5, <2>1, <2>2, <2>3, <2>4
    DEF CommitBooking, TypeOK, StockInv, timeVars, pgVars
<1>6. ASSUME BiteshipRestock(s) PROVE IInv'
  <2>1. StockInv'
    BY <1>0, <1>6, RestockKeeps DEF BiteshipRestock
  <2>2. req' \in [Slots -> Request]
    BY <1>6 DEF BiteshipRestock, TypeOK, Request, Ops
  <2> QED
    BY <1>6, <2>1, <2>2
    DEF BiteshipRestock, TypeOK, StockInv, rowVars, timeVars, pgVars, shipVars
<1>7. ASSUME CommitBiteshipWebhook(s) PROVE IInv'
  <2>1. ecom' \in [Orders -> EcomStatus \union {"none"}]
    BY <1>0, <1>7, SetStatusType DEF CommitBiteshipWebhook, TypeOK
  <2>2. status' \in [Orders -> PosStatus]
    BY <1>7, SetPosType DEF CommitBiteshipWebhook, TypeOK, PosStatus
  <2>3. req' \in [Slots -> Request]
    BY <1>7, DoneType DEF CommitBiteshipWebhook, TypeOK
  <2>4. StockInv'
    BY <1>7, StockUnchanged DEF CommitBiteshipWebhook
  <2>5. ripe' \subseteq Orders
    BY <1>7 DEF CommitBiteshipWebhook, TypeOK
  <2> QED
    BY <1>7, <2>1, <2>2, <2>3, <2>4, <2>5
    DEF CommitBiteshipWebhook, TypeOK, StockInv, pgVars, shipVars
<1>8. ASSUME CommitSyncBiteship(s) PROVE IInv'
  <2>1. ecom' \in [Orders -> EcomStatus \union {"none"}]
    BY <1>0, <1>8, SetStatusType DEF CommitSyncBiteship, TypeOK
  <2>2. req' \in [Slots -> Request]
    BY <1>8, DoneType DEF CommitSyncBiteship, TypeOK
  <2>3. StockInv'
    BY <1>8, StockUnchanged DEF CommitSyncBiteship
  <2>4. ripe' \subseteq Orders
    BY <1>8 DEF CommitSyncBiteship, TypeOK
  <2> QED
    BY <1>8, <2>1, <2>2, <2>3, <2>4
    DEF CommitSyncBiteship, TypeOK, StockInv, pgVars, shipVars
<1> QED
  BY <1>1, <1>3, <1>4, <1>5, <1>6, <1>7, <1>8 DEF CourierStep

\* So do the cron jobs.
LEMMA CronKeeps ==
    ASSUME IInv, CronStep
    PROVE  IInv'
<1> USE DEF IInv
<1>0. Cron \in Slots
  BY DEF Slots
<1>1. ASSUME NEW o \in Orders, BeginExpire(o) PROVE IInv'
  <2>1. req' \in [Slots -> Request]
    BY <1>0, <1>1, BeginType DEF BeginExpire, TypeOK, Ops, EcomStatus
  <2> QED
    BY <1>1, <2>1, SlotStep DEF BeginExpire
<1>2. ASSUME CommitExpire(Cron) PROVE IInv'
  <2>1. req[Cron].orders \in SUBSET Orders
    BY <1>0, RequestFields DEF TypeOK
  <2>2. StockInv'
    BY <1>2, <2>1, RestockKeeps DEF CommitExpire
  <2>3. ecom' \in [Orders -> EcomStatus \union {"none"}]
    BY <1>2, SetStatusType DEF CommitExpire, TypeOK, EcomStatus
  <2>4. status' \in [Orders -> PosStatus]
    BY <1>2, SetPosType DEF CommitExpire, TypeOK, PosStatus
  <2>5. req' \in [Slots -> Request]
    BY <1>0, <1>2, DoneType DEF CommitExpire, TypeOK
  <2> QED
    BY <1>2, <2>2, <2>3, <2>4, <2>5
    DEF CommitExpire, TypeOK, StockInv, timeVars, pgVars, shipVars
<1>3. ASSUME AutoComplete PROVE IInv'
  <2>1. ecom' \in [Orders -> EcomStatus \union {"none"}]
    BY <1>3, SetStatusType DEF AutoComplete, TypeOK, EcomStatus
  <2>2. status' \in [Orders -> PosStatus]
    BY <1>3, SetPosType DEF AutoComplete, TypeOK, PosStatus
  <2>3. StockInv'
    BY <1>3, StockUnchanged DEF AutoComplete
  <2> QED
    BY <1>3, <2>1, <2>2, <2>3
    DEF AutoComplete, TypeOK, StockInv, timeVars, pgVars, shipVars
<1> QED
  BY <1>1, <1>2, <1>3 DEF CronStep

\* So do the passing of time, the gateway and a failing handler.
LEMMA EnvironmentKeeps ==
    ASSUME IInv, Environment
    PROVE  IInv'
<1> USE DEF IInv
<1>1. ASSUME NEW o \in Orders, Age(o) \/ Ripen(o) PROVE IInv'
  <2>1. StockInv'
    BY <1>1, StockUnchanged DEF Age, Ripen
  <2> QED
    BY <1>1, <2>1 DEF Age, Ripen, TypeOK, StockInv, rowVars, pgVars, shipVars
<1>2. ASSUME NEW t \in Trx, NEW e \in PgStatus, GatewayOutcome(t, e) PROVE IInv'
  <2>1. StockInv'
    BY <1>2, StockUnchanged DEF GatewayOutcome
  <2> QED
    BY <1>2, <2>1 DEF GatewayOutcome, TypeOK, StockInv, rowVars, timeVars, shipVars
<1>3. ASSUME NEW s \in Slots, Abandon(s) PROVE IInv'
  <2>1. req' \in [Slots -> Request]
    BY <1>3, DoneType DEF Abandon, TypeOK
  <2> QED
    BY <1>3, <2>1, SlotStep DEF Abandon
<1> QED
  BY <1>1, <1>2, <1>3 DEF Environment

-----------------------------------------------------------------------------
(* The theorems.                                                           *)

\* The initial state satisfies the invariant.
LEMMA InitIInv == Init => IInv
<1> SUFFICES ASSUME Init PROVE IInv
  OBVIOUS
<1>1. Idle \in Request
  BY DEF Idle, Request, Ops
<1>2. TypeOK
  BY <1>1, ConstAssumption DEF Init, TypeOK, PosStatus
<1>3. StockInv
  BY ConstAssumption DEF Init, StockInv, StockNonNegative, LedgerExact
<1> QED
  BY <1>2, <1>3 DEF IInv

\* Every step keeps it.
LEMMA NextIInv == IInv /\ [Next]_vars => IInv'
<1> SUFFICES ASSUME IInv, [Next]_vars PROVE IInv'
  OBVIOUS
<1>1. CASE UNCHANGED vars
  <2>1. req' \in [Slots -> Request]
    BY <1>1 DEF vars, IInv, TypeOK
  <2> QED
    BY <1>1, <2>1, SlotStep DEF vars
<1>2. ASSUME NEW s \in Http,
             CustomerStep(s) \/ GatewayStep(s) \/ AdminStep(s) \/ CourierStep(s)
      PROVE  IInv'
  <2>1. s \in Slots
    BY DEF Slots
  <2> QED
    BY <1>2, <2>1, CustomerKeeps, GatewayKeeps, AdminKeeps, CourierKeeps
<1> QED
  BY <1>1, <1>2, CronKeeps, EnvironmentKeeps DEF Next

\* So it holds in every reachable state.
LEMMA AlwaysIInv == Spec => []IInv
BY InitIInv, NextIInv, PTL DEF Spec

\* Every row, flag and slot keeps its type on every path.
THEOREM TypeCorrect == Spec => []TypeOK
<1>1. IInv => TypeOK
  BY DEF IInv
<1> QED
  BY <1>1, AlwaysIInv, PTL

\* However many checkouts, cancellations, webhooks and jobs interleave, with
\* whatever data, no product's stock becomes negative.
THEOREM NeverOversold == Spec => []StockNonNegative
<1>1. IInv => StockNonNegative
  BY DEF IInv, StockInv
<1> QED
  BY <1>1, AlwaysIInv, PTL

\* The stock column always equals the initial stock plus the movement rows,
\* even when the same order's stock is given back twice, but for the products on
\* which a statement of a failed payment's webhook failed unseen.
THEOREM LedgerAlwaysExact == Spec => []LedgerExact
<1>1. IInv => LedgerExact
  BY DEF IInv, StockInv
<1> QED
  BY <1>1, AlwaysIInv, PTL

-----------------------------------------------------------------------------
(* Steps by what they do to the rows.                                      *)

\* What a handler has read, and decided to write, when it starts: everything
\* its Begin action looks at in the rows.
Read(r) ==
    /\ r.op = "checkout" =>
         /\ \E g \in Groups : r.orders = OrdersOf(g)
         /\ \A o \in r.orders : ecom[o] = "none"
    /\ r.op \in {"customerCancel", "proof", "sync", "retry", "expire"} =>
         \A o \in r.orders : ecom[o] = "pending_payment"
    /\ r.op = "expire" => \A o \in r.orders : o \notin proof
    /\ r.op = "pg" =>
         /\ \A o \in r.orders : ecom[o] # "none"
         /\ r.to = "paid" => \A o1 \in r.orders : \A o2 \in OrdersOf(Group[o1]) :
                                ecom[o2] = "pending_payment" => o2 \in r.orders
    /\ r.op = "admin" => \A o \in r.orders : IsValidTransition(ecom[o], r.to)
    /\ r.op = "resi" => \A o \in r.orders : ecom[o] \in {"paid", "processing", "shipped"}
    /\ r.op = "book" => \A o \in r.orders : ecom[o] \in {"paid", "processing"}
    /\ r.op \in {"courier", "courierSave", "courierSync"} =>
         \A o \in r.orders : /\ bookings[o] > 0 \/ o \in resi
                             /\ ecom[o] \notin {"completed", "cancelled"}
    /\ r.op = "confirm" => \A o \in r.orders : ecom[o] \in {"shipped", "delivered"}

\* No two checkouts of the same orders run at once.
NoTwin(r) ==
    r.op = "checkout" =>
      \A t \in Slots : ~(Running(t, "checkout") /\ req[t].orders = r.orders)

\* A handler's orders are all of one checkout.
SameGroup(S) == \A o1, o2 \in S : Group[o1] = Group[o2]

\* The orders and the status each handler writes.
Aim(r) ==
    /\ SameGroup(r.orders)
    /\ r.op = "customerCancel" => r.to = "cancelled"
    /\ r.op = "pg" => r.to \in {"paid", "cancelled"}
    /\ r.op = "sync" => r.to = "paid"
    /\ r.op = "admin" => r.to \in EcomStatus \ {"pending_payment"}
    /\ r.op = "resi" => r.to = "shipped"
    /\ r.op = "book" => r.to = "processing"
    /\ r.op \in {"courier", "courierSync"} => r.to \in {"processing", "shipped", "delivered", "cancelled"}
    /\ r.op = "courierSave" => r.to = "cancelled"
    /\ r.op = "confirm" => r.to = "completed"
    /\ r.op = "expire" => r.to = "expired"
    /\ r.op = "idle" => r.orders = {}

Aimed == \A s \in Slots : Aim(req[s])

\* A handler starts.
Starts(s) ==
    /\ req[s] = Idle
    /\ \E r \in Request :
         /\ r.op # "idle"
         /\ Read(r) /\ NoTwin(r) /\ Aim(r)
         /\ req' = [req EXCEPT ![s] = r]
         /\ bookings' = IF r.op = "book"
                        THEN [o \in Orders |-> IF o \in r.orders THEN bookings[o] + 1 ELSE bookings[o]]
                        ELSE bookings
    /\ UNCHANGED <<stockVars, rowVars, proof, resi>>

\* Time, the gateway, a handler that stops without touching an order row.
Waits ==
    /\ req' = req \/ \E s \in Slots : Done(s)
    /\ UNCHANGED <<stockVars, rowVars, proof, shipVars>>

\* A handler writes the status it decided on to the orders it read.
WriteStep(s) ==
    \/ CommitCustomerCancel(s) \/ CommitConfirmReceived(s) \/ CommitPgNotification(s)
    \/ CommitUpdateStatus(s) \/ CommitSetShipping(s) \/ CommitBooking(s)
    \/ CommitBiteshipWebhook(s) \/ CommitSyncBiteship(s) \/ CommitExpire(s)

Writers == {"customerCancel", "confirm", "pg", "admin", "resi", "book", "courier",
            "courierSave", "courierSync", "expire"}

\* The request record Begin writes.
Req(op, S, to) == [op |-> op, orders |-> S, to |-> to]

\* Begin, with what it read, starts a handler.
LEMMA StartBy ==
    ASSUME NEW s \in Slots, NEW op \in Ops, NEW S \in SUBSET Orders,
           NEW to \in EcomStatus \union {"none"}, op \notin {"book", "idle"},
           Begin(s, op, S, to), Read(Req(op, S, to)), Aim(Req(op, S, to)),
           op = "checkout" => NoTwin(Req(op, S, to)),
           UNCHANGED <<stockVars, rowVars, proof, shipVars>>
    PROVE  Starts(s)
<1>1. Req(op, S, to) \in Request /\ Req(op, S, to).op \notin {"book", "idle"}
  BY DEF Req, Request
<1>2. NoTwin(Req(op, S, to))
  BY DEF NoTwin, Req
<1>3. req[s] = Idle /\ req' = [req EXCEPT ![s] = Req(op, S, to)]
  BY DEF Begin, Req
<1>4. UNCHANGED <<stockVars, rowVars, proof, resi, bookings>>
  BY DEF shipVars
<1> HIDE DEF Req
<1> QED
  BY <1>1, <1>2, <1>3, <1>4 DEF Starts

\* The customer's handlers start on an order they have just read.
LEMMA CustomerStarts ==
    ASSUME NEW s \in Slots, NEW o \in Orders,
           BeginCustomerCancel(s, o)
             \/ BeginProof(s, o)
             \/ BeginConfirmReceived(s, o)
    PROVE  Starts(s)
<1>1. CASE BeginCustomerCancel(s, o)
  <2>1. Read(Req("customerCancel", {o}, "cancelled")) /\ Aim(Req("customerCancel", {o}, "cancelled"))
    BY <1>1 DEF BeginCustomerCancel, Read, Aim, Req, SameGroup
  <2> QED
    BY <1>1, <2>1, StartBy DEF BeginCustomerCancel, Ops, EcomStatus
<1>2. CASE BeginProof(s, o)
  <2>1. Read(Req("proof", {o}, "none")) /\ Aim(Req("proof", {o}, "none"))
    BY <1>2 DEF BeginProof, Read, Aim, Req, SameGroup
  <2> QED
    BY <1>2, <2>1, StartBy DEF BeginProof, Ops, EcomStatus
<1>3. CASE BeginConfirmReceived(s, o)
  <2>1. Read(Req("confirm", {o}, "completed")) /\ Aim(Req("confirm", {o}, "completed"))
    BY <1>3 DEF BeginConfirmReceived, Read, Aim, Req, SameGroup
  <2> QED
    BY <1>3, <2>1, StartBy DEF BeginConfirmReceived, Ops, EcomStatus
<1> QED
  BY <1>1, <1>2, <1>3

\* So do the sync, the retry and the tracking number's form.
LEMMA PaymentStarts ==
    ASSUME NEW s \in Slots, NEW o \in Orders,
           BeginSync(s, o) \/ BeginRetry(s, o) \/ BeginSetShipping(s, o)
    PROVE  Starts(s)
<1>1. CASE BeginSync(s, o)
  <2>1. Read(Req("sync", {o}, "paid")) /\ Aim(Req("sync", {o}, "paid"))
    BY <1>1 DEF BeginSync, Read, Aim, Req, SameGroup
  <2> QED
    BY <1>1, <2>1, StartBy DEF BeginSync, Ops, EcomStatus
<1>2. CASE BeginRetry(s, o)
  <2>1. Read(Req("retry", {o}, "none")) /\ Aim(Req("retry", {o}, "none"))
    BY <1>2 DEF BeginRetry, Read, Aim, Req, SameGroup
  <2> QED
    BY <1>2, <2>1, StartBy DEF BeginRetry, Ops, EcomStatus
<1>3. CASE BeginSetShipping(s, o)
  <2>1. Read(Req("resi", {o}, "shipped")) /\ Aim(Req("resi", {o}, "shipped"))
    BY <1>3 DEF BeginSetShipping, Read, Aim, Req, SameGroup
  <2> QED
    BY <1>3, <2>1, StartBy DEF BeginSetShipping, Ops, EcomStatus
<1> QED
  BY <1>1, <1>2, <1>3

\* The panel starts with a transition that is valid for what it read.
LEMMA PanelStarts ==
    ASSUME NEW s \in Slots, NEW o \in Orders, NEW to \in EcomStatus, BeginUpdateStatus(s, o, to)
    PROVE  Starts(s)
<1>1. Read(Req("admin", {o}, to)) /\ Aim(Req("admin", {o}, to))
  BY DEF BeginUpdateStatus, Read, Aim, Req, SameGroup, IsValidTransition, Allowed, EcomStatus
<1> QED
  BY <1>1, StartBy DEF BeginUpdateStatus, Ops

\* A notification starts on the orders of the group that are not done yet.
LEMMA PgStarts ==
    ASSUME NEW s \in Slots, NEW t \in Trx, NEW e \in PgStatus, BeginPgNotification(s, t, e)
    PROVE  Starts(s) \/ Waits
<1>1. CASE t[2] = "first" /\ Begin(s, "pg", PgTodo(t[1], e), PgTarget(e)) /\ UNCHANGED unmatched
  <2>1. Read(Req("pg", PgTodo(t[1], e), PgTarget(e))) /\ Aim(Req("pg", PgTodo(t[1], e), PgTarget(e)))
    BY DEF Read, Aim, Req, SameGroup, PgTodo, PgTarget, OrdersOf
  <2>2. PgTodo(t[1], e) \in SUBSET Orders /\ PgTarget(e) \in EcomStatus
    BY DEF PgTodo, OrdersOf, PgTarget, EcomStatus
  <2> QED
    BY <1>1, <2>1, <2>2, StartBy DEF BeginPgNotification, Ops
<1>2. CASE UNCHANGED req
  BY <1>2 DEF BeginPgNotification, Waits
<1> QED
  BY <1>1, <1>2 DEF BeginPgNotification

\* The booking exists at the courier before anything is saved.
LEMMA BookingStarts ==
    ASSUME TypeOK, NEW s \in Slots, NEW o \in Orders, BeginBooking(s, o)
    PROVE  Starts(s)
<1> DEFINE r == Req("book", {o}, "processing")
<1>1. r \in Request
  BY DEF Req, Request, Ops, EcomStatus
<1>2. Read(r) /\ Aim(r) /\ NoTwin(r)
  BY DEF BeginBooking, Read, Aim, NoTwin, Req, SameGroup
<1>3. req[s] = Idle /\ req' = [req EXCEPT ![s] = r]
  BY DEF BeginBooking, Begin, Req
<1>4. bookings' = [x \in Orders |-> IF x \in r.orders THEN bookings[x] + 1 ELSE bookings[x]]
  BY DEF BeginBooking, Req, TypeOK
<1>5. r.op = "book"
  BY DEF Req
<1>6. UNCHANGED <<stockVars, rowVars, proof, resi>>
  BY DEF BeginBooking
<1> HIDE DEF r
<1> QED
  BY <1>1, <1>2, <1>3, <1>4, <1>5, <1>6 DEF Starts

\* What a courier event may move an order to, and from where.
LEMMA MapTargets ==
    ASSUME NEW b \in Courier, NEW current, MapBiteshipStatus(b, current) # "none"
    PROVE  /\ MapBiteshipStatus(b, current) \in {"processing", "shipped", "delivered", "cancelled"}
           /\ current \notin {"completed", "cancelled"}
BY DEF MapBiteshipStatus, Courier

\* An event of the courier starts on an order that was booked and is not over.
LEMMA CourierStarts ==
    ASSUME NEW s \in Slots, NEW o \in Orders, NEW b \in Courier,
           BeginBiteshipWebhook(s, o, b) \/ BeginSyncBiteship(s, o, b)
    PROVE  Starts(s)
<1> DEFINE to == MapBiteshipStatus(b, ecom[o])
<1>1. to \in {"processing", "shipped", "delivered", "cancelled"} /\ ecom[o] \notin {"completed", "cancelled"}
  BY MapTargets DEF BeginBiteshipWebhook, BeginSyncBiteship
<1>2. to \in EcomStatus
  BY <1>1 DEF EcomStatus
<1>3. CASE BeginBiteshipWebhook(s, o, b)
  <2>1. Begin(s, "courier", {o}, to) /\ bookings[o] > 0
        /\ UNCHANGED <<stockVars, rowVars, proof, shipVars>>
    BY <1>3 DEF BeginBiteshipWebhook
  <2> HIDE DEF to
  <2>2. Read(Req("courier", {o}, to)) /\ Aim(Req("courier", {o}, to))
    BY <1>1, <2>1 DEF Read, Aim, Req, SameGroup
  <2> QED
    BY <1>2, <2>1, <2>2, StartBy DEF Ops
<1>4. CASE BeginSyncBiteship(s, o, b)
  <2>1. Begin(s, "courierSync", {o}, to) /\ o \in resi
        /\ UNCHANGED <<stockVars, rowVars, proof, shipVars>>
    BY <1>4 DEF BeginSyncBiteship
  <2> HIDE DEF to
  <2>2. Read(Req("courierSync", {o}, to)) /\ Aim(Req("courierSync", {o}, to))
    BY <1>1, <2>1 DEF Read, Aim, Req, SameGroup
  <2> QED
    BY <1>2, <2>1, <2>2, StartBy DEF Ops
<1> QED
  BY <1>3, <1>4

\* The expire job starts on an unpaid order without a proof.
LEMMA ExpireStarts ==
    ASSUME NEW o \in Orders, BeginExpire(o)
    PROVE  Starts(Cron)
<1>1. Read(Req("expire", {o}, "expired")) /\ Aim(Req("expire", {o}, "expired"))
  BY DEF BeginExpire, Expirable, Read, Aim, Req, SameGroup
<1> QED
  BY <1>1, StartBy DEF BeginExpire, Ops, EcomStatus, Slots

\* Every step is one of these.
StepKinds ==
    \/ Waits
    \/ \E s \in Slots : \/ Starts(s) \/ WriteStep(s) \/ CommitCheckout(s)
                        \/ CommitProof(s) \/ CommitSync(s) \/ BiteshipRestock(s)
    \/ AutoComplete

\* What the slots of the HTTP handlers do.
LEMMA HandlerKinds ==
    ASSUME TypeOK, NEW s \in Slots,
           CustomerStep(s) \/ GatewayStep(s) \/ AdminStep(s) \/ CourierStep(s)
    PROVE  StepKinds
<1>1. CASE CustomerStep(s)
  <2>1. ASSUME NEW g \in Groups, BeginCheckout(s, g) PROVE Starts(s)
    <3>1. SameGroup(OrdersOf(g))
      BY DEF SameGroup, OrdersOf
    <3>2. Read(Req("checkout", OrdersOf(g), "pending_payment"))
          /\ Aim(Req("checkout", OrdersOf(g), "pending_payment"))
          /\ NoTwin(Req("checkout", OrdersOf(g), "pending_payment"))
      BY <2>1, <3>1 DEF BeginCheckout, Read, Aim, Req, NoTwin
    <3> QED
      BY <2>1, <3>2, StartBy DEF BeginCheckout, Ops, EcomStatus, OrdersOf
  <2>2. ASSUME NEW o \in Orders,
               BeginCustomerCancel(s, o) \/ BeginProof(s, o) \/ BeginConfirmReceived(s, o)
        PROVE  Starts(s)
    BY <2>2, CustomerStarts
  <2>3. CommitCheckout(s) \/ CommitCustomerCancel(s) \/ CommitProof(s) \/ CommitConfirmReceived(s)
        => StepKinds
    BY DEF StepKinds, WriteStep
  <2> QED
    BY <1>1, <2>1, <2>2, <2>3 DEF CustomerStep, StepKinds
<1>2. CASE GatewayStep(s)
  <2>1. CommitRetry(s) => Waits
    BY DEF CommitRetry, Waits
  <2>2. CommitPgNotification(s) \/ CommitSync(s) => StepKinds
    BY DEF StepKinds, WriteStep
  <2> QED
    BY <1>2, <2>1, <2>2, PgStarts, PaymentStarts DEF GatewayStep, StepKinds
<1>3. CASE AdminStep(s)
  BY <1>3, PaymentStarts, PanelStarts DEF AdminStep, StepKinds, WriteStep
<1>4. CASE CourierStep(s)
  BY <1>4, BookingStarts, CourierStarts DEF CourierStep, StepKinds, WriteStep
<1> QED
  BY <1>1, <1>2, <1>3, <1>4

\* And what all of them, the jobs and the world around do.
LEMMA NextKinds == TypeOK /\ [Next]_vars => StepKinds
<1> SUFFICES ASSUME TypeOK, [Next]_vars PROVE StepKinds
  OBVIOUS
<1>1. CASE UNCHANGED vars
  BY <1>1 DEF vars, StepKinds, Waits
<1>2. ASSUME NEW s \in Http,
             CustomerStep(s) \/ GatewayStep(s) \/ AdminStep(s) \/ CourierStep(s)
      PROVE  StepKinds
  BY <1>2, HandlerKinds DEF Slots
<1>3. CASE CronStep
  BY <1>3, ExpireStarts DEF CronStep, StepKinds, WriteStep, Slots
<1>4. CASE Environment
  BY <1>4 DEF Environment, StepKinds, Waits, Age, Ripen, GatewayOutcome, Abandon
<1> QED
  BY <1>1, <1>2, <1>3, <1>4 DEF Next

-----------------------------------------------------------------------------
(* The orders of one checkout.                                             *)

\* What a running handler can still rely on when it writes, whatever ran since
\* it read: a checkout's orders are a whole group that does not exist yet and
\* that no other checkout makes; any other handler's orders exist; a payment
\* notification holds every order of its group that waits for payment.
Sound(s) ==
    /\ Running(s, "checkout") =>
         /\ \E g \in Groups : req[s].orders = OrdersOf(g)
         /\ \A o \in req[s].orders : ecom[o] = "none"
         /\ \A t \in Slots : Running(t, "checkout") /\ req[t].orders = req[s].orders => t = s
    /\ ~Running(s, "checkout") => \A o \in req[s].orders : ecom[o] # "none"
    /\ Running(s, "pg") /\ req[s].to = "paid" =>
         \A o1 \in req[s].orders : \A o2 \in OrdersOf(Group[o1]) :
            ecom[o2] = "pending_payment" => o2 \in req[s].orders

\* Only an order that exists is proven or shipped.
OnlyReal ==
    \A o \in Orders : (o \in proof \/ o \in resi \/ bookings[o] > 0) => ecom[o] # "none"

GroupInv == Aimed /\ (\A s \in Slots : Sound(s)) /\ OnlyReal /\ GroupsTogether

\* What every write of a status has in common.
LEMMA WriteFacts ==
    ASSUME TypeOK, Aimed, NEW s \in Slots, WriteStep(s)
    PROVE  /\ SetStatus(req[s].orders, req[s].to)
           /\ Done(s) /\ req[s].op \in Writers
           /\ req[s].to \notin {"none", "pending_payment"}
           /\ resi' = resi \/ resi' = resi \union req[s].orders
           /\ UNCHANGED <<proof, bookings, links, notif, unmatched>>
<1> USE DEF Aimed, Aim, Running, Writers, shipVars, pgVars
<1>1. CASE CommitCustomerCancel(s)
  BY <1>1 DEF CommitCustomerCancel
<1>2. CASE CommitConfirmReceived(s)
  BY <1>2 DEF CommitConfirmReceived
<1>3. CASE CommitPgNotification(s)
  BY <1>3 DEF CommitPgNotification
<1>4. CASE CommitUpdateStatus(s)
  <2>1. req[s].to \in EcomStatus \ {"pending_payment"}
    BY <1>4 DEF CommitUpdateStatus
  <2> QED
    BY <1>4, <2>1 DEF CommitUpdateStatus, EcomStatus
<1>5. CASE CommitSetShipping(s)
  BY <1>5 DEF CommitSetShipping
<1>6. CASE CommitBooking(s)
  BY <1>6 DEF CommitBooking
<1>7. CASE CommitBiteshipWebhook(s)
  BY <1>7 DEF CommitBiteshipWebhook
<1>8. CASE CommitSyncBiteship(s)
  BY <1>8 DEF CommitSyncBiteship
<1>9. CASE CommitExpire(s)
  BY <1>9 DEF CommitExpire
<1> QED
  BY <1>1, <1>2, <1>3, <1>4, <1>5, <1>6, <1>7, <1>8, <1>9 DEF WriteStep

\* A slot after a step in which no handler starts: as it was, empty, or past
\* the first half of a courier's cancellation.
Carried(s) ==
    \/ req'[s] = req[s] \/ req'[s] = Idle
    \/ /\ req[s].op = "courier" /\ req[s].to = "cancelled"
       /\ req'[s] = [req[s] EXCEPT !.op = "courierSave"]

\* A step that makes no order, and puts none back to waiting for payment.
Calm ==
    /\ \A o \in Orders : /\ ecom'[o] = "none" <=> ecom[o] = "none"
                         /\ ecom'[o] = "pending_payment" => ecom[o] = "pending_payment"
    /\ \A s \in Slots : Carried(s)
    /\ bookings' = bookings
    /\ \A o \in Orders : (o \in proof' \ proof \/ o \in resi' \ resi) => ecom[o] # "none"

\* The steps that are neither a handler's start nor a checkout are calm.
LEMMA CalmSteps ==
    ASSUME TypeOK, GroupInv,
           Waits \/ AutoComplete \/ \E s \in Slots :
             WriteStep(s) \/ CommitProof(s) \/ CommitSync(s) \/ BiteshipRestock(s)
    PROVE  Calm
<1> USE DEF TypeOK
<1>0. ASSUME NEW s \in Slots, Done(s) PROVE \A t \in Slots : Carried(t)
  BY <1>0 DEF Done, Carried
<1>1. CASE Waits
  BY <1>0, <1>1 DEF Waits, Calm, Carried, rowVars, shipVars
<1>2. CASE AutoComplete
  BY <1>2 DEF AutoComplete, AutoCompletable, Calm, Carried, SetStatus, shipVars
<1>3. ASSUME NEW s \in Slots, WriteStep(s) PROVE Calm
  <2>1. /\ SetStatus(req[s].orders, req[s].to)
        /\ Done(s) /\ req[s].op \in Writers
        /\ req[s].to \notin {"none", "pending_payment"}
        /\ resi' = resi \/ resi' = resi \union req[s].orders
        /\ UNCHANGED <<proof, bookings>>
    BY <1>3, WriteFacts DEF GroupInv
  <2>2. \A o \in req[s].orders : ecom[o] # "none"
    BY <2>1 DEF GroupInv, Sound, Running, Writers
  <2>3. \A t \in Slots : Carried(t)
    BY <1>0, <2>1
  <2>4. \A o \in Orders : ecom'[o] = IF o \in req[s].orders THEN req[s].to ELSE ecom[o]
    BY <2>1 DEF SetStatus
  <2> QED
    BY <2>1, <2>2, <2>3, <2>4 DEF Calm
<1>4. ASSUME NEW s \in Slots, CommitProof(s) PROVE Calm
  <2>1. \A o \in proof' \ proof : ecom[o] = "pending_payment"
    BY <1>4 DEF CommitProof, ProofTargets, PendingOf
  <2> QED
    BY <1>0, <1>4, <2>1 DEF CommitProof, Calm, rowVars, shipVars
<1>5. ASSUME NEW s \in Slots, CommitSync(s) PROVE Calm
  <2> DEFINE S == UNION {SyncTargets(o) : o \in req[s].orders}
  <2>1. \A o \in S : ecom[o] = "pending_payment"
    BY DEF SyncTargets, PendingOf
  <2>2. \A o \in Orders : ecom'[o] = IF o \in S THEN "paid" ELSE ecom[o]
    BY <1>5 DEF CommitSync, SetStatus
  <2> HIDE DEF S
  <2> QED
    BY <1>0, <1>5, <2>1, <2>2 DEF CommitSync, Calm, shipVars
<1>6. ASSUME NEW s \in Slots, BiteshipRestock(s) PROVE Calm
  BY <1>6 DEF BiteshipRestock, Running, Calm, Carried, rowVars, shipVars
<1> QED
  BY <1>1, <1>2, <1>3, <1>4, <1>5, <1>6

\* A calm step leaves every running handler what it relied on.
LEMMA CalmKeeps ==
    ASSUME TypeOK, TypeOK', GroupInv, Calm
    PROVE  Aimed' /\ (\A s \in Slots : Sound(s)') /\ OnlyReal' /\ StoresTogether'
<1> USE DEF Calm, GroupInv
<1>1. ASSUME NEW s \in Slots PROVE Aim(req[s])'
  <2>1. CASE req'[s] = req[s] \/ req'[s] = Idle
    BY <2>1 DEF Aimed, Aim, Idle, SameGroup
  <2>2. CASE req[s].to = "cancelled" /\ req'[s] = [req[s] EXCEPT !.op = "courierSave"]
    <3>1. /\ req'[s].op = "courierSave" /\ req'[s].to = "cancelled"
          /\ req'[s].orders = req[s].orders
      BY <2>2 DEF TypeOK, Request
    <3> QED
      BY <3>1 DEF Aim, Aimed
  <2> QED
    BY <2>1, <2>2 DEF Carried
<1>2. ASSUME NEW s \in Slots PROVE Sound(s)'
  <2>1. /\ req'[s].orders \subseteq req[s].orders
        /\ req'[s].op = "checkout" <=> req[s].op = "checkout" /\ req'[s] = req[s]
        /\ req'[s].op = "pg" => req'[s] = req[s]
    BY DEF Carried, Idle, TypeOK, Request
  <2>2. \A t \in Slots : Running(t, "checkout")' => Running(t, "checkout") /\ req'[t] = req[t]
    BY DEF Carried, Idle, TypeOK, Request, Running
  <2>3. Sound(s) /\ req[s].orders \in SUBSET Orders
    BY RequestFields DEF TypeOK
  <2>4. CASE req'[s] = req[s]
    BY <2>2, <2>3, <2>4 DEF Sound, Running, OrdersOf
  <2>5. CASE req'[s] = Idle
    BY <2>5 DEF Sound, Running, Idle
  <2>6. CASE req[s].op = "courier" /\ req'[s] = [req[s] EXCEPT !.op = "courierSave"]
    <3>1. req'[s].op = "courierSave" /\ req'[s].orders = req[s].orders
      BY <2>6 DEF TypeOK, Request
    <3> QED
      BY <2>3, <2>6, <3>1 DEF Sound, Running
  <2> QED
    BY <2>4, <2>5, <2>6 DEF Carried
<1>3. OnlyReal'
  BY DEF OnlyReal
<1>4. StoresTogether'
  BY DEF GroupsTogether, StoresTogether
<1> QED
  BY <1>1, <1>2, <1>3, <1>4 DEF Aimed

\* And the proofs it has cover what still waits, because a proof is attached to
\* all of a group that waits.
LEMMA CalmCovers ==
    ASSUME TypeOK, GroupInv, Calm,
           proof' = proof \/ \E s \in Slots : CommitProof(s)
    PROVE  ProofCoversGroup'
<1>1. CASE proof' = proof
  BY <1>1 DEF Calm, GroupInv, GroupsTogether, ProofCoversGroup
<1>2. ASSUME NEW s \in Slots, CommitProof(s) PROVE ProofCoversGroup'
  <2>1. /\ ecom' = ecom
        /\ proof' = proof \union UNION {ProofTargets(o) : o \in req[s].orders}
    BY <1>2 DEF CommitProof, rowVars
  <2>2. ASSUME NEW o1 \in Orders, NEW o2 \in Orders, Group[o1] = Group[o2],
               o1 \in proof', ecom'[o2] = "pending_payment"
        PROVE  o2 \in proof'
    <3>1. CASE o1 \in proof
      BY <2>1, <2>2, <3>1 DEF GroupInv, GroupsTogether, ProofCoversGroup
    <3>2. ASSUME NEW o \in req[s].orders, o1 \in ProofTargets(o) PROVE o2 \in proof'
      <4>1. o2 \in ProofTargets(o)
        BY <2>1, <2>2, <3>2 DEF ProofTargets, PendingOf, OrdersOf
      <4> QED
        BY <2>1, <4>1
    <3> QED
      BY <2>1, <2>2, <3>1, <3>2
  <2> QED
    BY <2>2 DEF ProofCoversGroup
<1> QED
  BY <1>1, <1>2

\* A handler that starts has just read what it relies on.
LEMMA StartKeeps ==
    ASSUME TypeOK, GroupInv, NEW s \in Slots, Starts(s)
    PROVE  GroupInv'
<1>1. PICK r \in Request :
         /\ r.op # "idle"
         /\ Read(r) /\ NoTwin(r) /\ Aim(r)
         /\ req' = [req EXCEPT ![s] = r]
         /\ bookings' = IF r.op = "book"
                        THEN [o \in Orders |-> IF o \in r.orders THEN bookings[o] + 1 ELSE bookings[o]]
                        ELSE bookings
  BY DEF Starts
<1>2. req[s] = Idle /\ UNCHANGED <<ecom, proof, resi>>
  BY DEF Starts, rowVars
<1>3. req'[s] = r /\ \A t \in Slots \ {s} : req'[t] = req[t]
  BY <1>1 DEF TypeOK
<1>4. Aimed'
  BY <1>1, <1>3 DEF GroupInv, Aimed, Aim
<1>5. ASSUME NEW t \in Slots, t # s PROVE Sound(t)'
  <2>1. req'[t] = req[t] /\ Sound(t)
    BY <1>3, <1>5 DEF GroupInv
  <2>2. Running(t, "checkout") => ~(r.op = "checkout" /\ r.orders = req[t].orders)
    BY <1>1 DEF NoTwin
  <2> QED
    BY <1>2, <1>3, <2>1, <2>2 DEF Sound, Running
<1>6. Sound(s)'
  <2>1. r.op \notin {"checkout"} => \A o \in r.orders : ecom[o] # "none"
    <3>1. r.op \in {"courier", "courierSave", "courierSync"} =>
            \A o \in r.orders : ecom[o] # "none"
      BY <1>1 DEF Read, GroupInv, OnlyReal, Request
    <3>2. r.op = "admin" => \A o \in r.orders : ecom[o] # "none"
      BY <1>1 DEF Read, IsValidTransition, EcomStatus
    <3>3. r.op \in Ops
      BY DEF Request
    <3> QED
      BY <1>1, <3>1, <3>2, <3>3 DEF Read, Ops
  <2>2. Running(s, "checkout")' => \A t \in Slots :
          (Running(t, "checkout") /\ req[t].orders = req[s].orders)' => t = s
    BY <1>1, <1>3 DEF NoTwin, Running
  <2> QED
    BY <1>1, <1>2, <1>3, <2>1, <2>2 DEF Sound, Running, Read
<1>7. OnlyReal'
  <2>1. ASSUME NEW o \in Orders, bookings'[o] > 0 PROVE ecom[o] # "none"
    <3>1. CASE r.op = "book" /\ o \in r.orders
      BY <1>1, <3>1 DEF Read
    <3>2. CASE ~(r.op = "book" /\ o \in r.orders)
      BY <1>1, <2>1, <3>2 DEF GroupInv, OnlyReal
    <3> QED
      BY <3>1, <3>2
  <2> QED
    BY <1>2, <2>1 DEF GroupInv, OnlyReal
<1>8. GroupsTogether'
  BY <1>2 DEF GroupInv, GroupsTogether, StoresTogether, ProofCoversGroup
<1> QED
  BY <1>3, <1>4, <1>5, <1>6, <1>7, <1>8 DEF GroupInv

\* A checkout makes a whole group, none of which existed.
LEMMA CheckoutWhole ==
    ASSUME TypeOK, GroupInv, NEW s \in Slots, CommitCheckout(s)
    PROVE  /\ \E g \in Groups : req[s].orders = OrdersOf(g)
           /\ \A o \in req[s].orders : ecom[o] = "none"
           /\ \A o \in Orders : ecom'[o] = IF o \in req[s].orders THEN "pending_payment" ELSE ecom[o]
           /\ Done(s) /\ UNCHANGED <<proof, resi, bookings>>
<1>1. Reservable(req[s].orders) = req[s].orders
  BY DEF CommitCheckout, Reservable
<1> QED
  BY <1>1 DEF CommitCheckout, SetStatus, Running, GroupInv, Sound, shipVars

\* So it disturbs no other handler and splits no group.
LEMMA CheckoutGroups ==
    ASSUME TypeOK, GroupInv, NEW s \in Slots, CommitCheckout(s)
    PROVE  GroupInv'
<1> DEFINE S == req[s].orders
<1>1. PICK g \in Groups : S = OrdersOf(g)
  BY CheckoutWhole
<1>2. \A o \in S : ecom[o] = "none"
  BY CheckoutWhole
<1>3. \A o \in Orders : ecom'[o] = IF o \in S THEN "pending_payment" ELSE ecom[o]
  BY CheckoutWhole
<1>4. Done(s) /\ UNCHANGED <<proof, resi, bookings>> /\ Running(s, "checkout")
  BY CheckoutWhole DEF CommitCheckout
<1>5. req'[s] = Idle /\ \A t \in Slots \ {s} : req'[t] = req[t]
  BY <1>4 DEF Done, TypeOK
<1>6. \A t \in Slots : req[t].orders \in SUBSET Orders
  BY RequestFields DEF TypeOK
<1>7. \A o \in Orders : o \in S <=> Group[o] = g
  BY <1>1 DEF OrdersOf
<1>8. Sound(s)'
  BY <1>5 DEF Sound, Running, Idle
<1>9. ASSUME NEW t \in Slots, t # s PROVE Sound(t)'
  <2>1. req'[t] = req[t] /\ Sound(t)
    BY <1>5, <1>9 DEF GroupInv
  <2>2. CASE Running(t, "checkout")
    <3>1. PICK h \in Groups : req[t].orders = OrdersOf(h)
      BY <2>1, <2>2 DEF Sound
    <3>2. req[t].orders # S
      BY <1>4, <1>9, <2>2 DEF GroupInv, Sound
    <3>3. \A o \in req[t].orders : o \notin S
      BY <1>1, <3>1, <3>2 DEF OrdersOf
    <3>4. \A o \in req[t].orders : ecom'[o] = "none"
      BY <1>3, <1>6, <2>1, <2>2, <3>3 DEF Sound
    <3>5. \A u \in Slots : Running(u, "checkout")' => Running(u, "checkout") /\ req'[u] = req[u]
      BY <1>5 DEF Running, Idle
    <3>6. \A u \in Slots : (Running(u, "checkout") /\ req[u].orders = req[t].orders)' => u = t
      BY <2>1, <2>2, <3>5 DEF Sound, Running
    <3> QED
      BY <2>1, <2>2, <3>1, <3>4, <3>6 DEF Sound, Running, OrdersOf
  <2>3. CASE ~Running(t, "checkout")
    <3>1. \A o \in req[t].orders : ecom[o] # "none"
      BY <2>1, <2>3 DEF Sound
    <3>2. \A o \in req[t].orders : Group[o] # g
      BY <1>2, <1>6, <1>7, <3>1
    <3>3. \A o1 \in req[t].orders : \A o2 \in OrdersOf(Group[o1]) : ecom'[o2] = ecom[o2]
      BY <1>3, <1>7, <3>2 DEF OrdersOf
    <3>4. \A o \in req[t].orders : ecom'[o] = ecom[o]
      BY <1>2, <1>3, <1>6, <3>1
    <3> QED
      BY <2>1, <2>3, <3>1, <3>3, <3>4 DEF Sound, Running, OrdersOf
  <2> QED
    BY <2>2, <2>3
<1>10. Aimed'
  <2>1. Aim(Idle)
    BY DEF Aim, Idle, SameGroup
  <2> QED
    BY <1>5, <2>1 DEF GroupInv, Aimed, Aim
<1>11. OnlyReal'
  BY <1>3, <1>4 DEF GroupInv, OnlyReal
<1>12. StoresTogether'
  BY <1>2, <1>3, <1>7 DEF GroupInv, GroupsTogether, StoresTogether
<1>13. ProofCoversGroup'
  <2>1. ASSUME NEW o1 \in Orders, NEW o2 \in Orders, Group[o1] = Group[o2],
               o1 \in proof, ecom'[o2] = "pending_payment"
        PROVE  o2 \in proof
    <3>1. ecom[o1] # "none"
      BY <2>1 DEF GroupInv, OnlyReal
    <3>2. o2 \notin S
      BY <1>2, <1>7, <2>1, <3>1
    <3> QED
      BY <1>3, <2>1, <3>2 DEF GroupInv, GroupsTogether, ProofCoversGroup
  <2> QED
    BY <1>4, <2>1 DEF ProofCoversGroup
<1> QED
  BY <1>5, <1>8, <1>9, <1>10, <1>11, <1>12, <1>13 DEF GroupInv, GroupsTogether

\* The initial state has no order and no handler.
LEMMA InitGroups == Init => GroupInv
BY DEF Init, GroupInv, Aimed, Aim, SameGroup, Sound, Running, Idle, OnlyReal, GroupsTogether,
       StoresTogether, ProofCoversGroup

\* Every step keeps what the groups and the running handlers rely on.
LEMMA NextGroups == TypeOK /\ TypeOK' /\ GroupInv /\ [Next]_vars => GroupInv'
<1> SUFFICES ASSUME TypeOK, TypeOK', GroupInv, [Next]_vars PROVE GroupInv'
  OBVIOUS
<1>1. ASSUME NEW s \in Slots, Starts(s) PROVE GroupInv'
  BY <1>1, StartKeeps
<1>2. ASSUME NEW s \in Slots, CommitCheckout(s) PROVE GroupInv'
  BY <1>2, CheckoutGroups
<1>3. CASE Waits \/ AutoComplete \/ \E s \in Slots :
             WriteStep(s) \/ CommitProof(s) \/ CommitSync(s) \/ BiteshipRestock(s)
  <2>1. Calm
    BY <1>3, CalmSteps
  <2>2. Aimed' /\ (\A s \in Slots : Sound(s)') /\ OnlyReal' /\ StoresTogether'
    BY <2>1, CalmKeeps
  <2>3. proof' = proof \/ \E s \in Slots : CommitProof(s)
    BY <1>3, WriteFacts DEF GroupInv, Waits, AutoComplete, CommitSync, BiteshipRestock
  <2>4. ProofCoversGroup'
    BY <2>1, <2>3, CalmCovers
  <2> QED
    BY <2>2, <2>4 DEF GroupInv, GroupsTogether
<1> QED
  BY <1>1, <1>2, <1>3, NextKinds DEF StepKinds

\* So it holds in every reachable state.
LEMMA AlwaysGroups == Spec => [](TypeOK /\ GroupInv)
<1>1. Init => TypeOK
  BY InitIInv DEF IInv
<1> QED
  BY <1>1, InitGroups, NextGroups, TypeCorrect, PTL DEF Spec

\* However checkouts, notifications, proofs and cancellations overlap, the
\* orders of one checkout are made together and proven together.
THEOREM GroupsStayTogether == Spec => []GroupsTogether
<1>1. GroupInv => GroupsTogether
  BY DEF GroupInv
<1> QED
  BY <1>1, AlwaysGroups, PTL

\* No step is a payment being recorded unless it is the notification's or the
\* sync's own write.
PgRecords(s) == CommitPgNotification(s) \/ CommitSync(s)

\* Which step empties the slot of a notification or a sync and writes a row.
LEMMA WhoRecords ==
    ASSUME TypeOK, GroupInv, StepKinds, NEW s \in Slots,
           req[s].op \in {"pg", "sync"}, req'[s] = Idle
    PROVE  PgRecords(s) \/ UNCHANGED rowVars
<1> USE DEF TypeOK
<1>1. req'[s] # req[s]
  BY DEF Idle
<1>2. ASSUME NEW t \in Slots, Done(t) PROVE t = s
  BY <1>1, <1>2 DEF Done
<1>3. CASE Waits
  BY <1>3 DEF Waits
<1>4. CASE AutoComplete
  BY <1>1, <1>4 DEF AutoComplete
<1>5. ASSUME NEW t \in Slots, Starts(t) PROVE UNCHANGED rowVars
  BY <1>5 DEF Starts, rowVars
<1>6. ASSUME NEW t \in Slots, CommitCheckout(t) PROVE FALSE
  BY <1>2, <1>6 DEF CommitCheckout, Running
<1>7. ASSUME NEW t \in Slots, CommitProof(t) \/ BiteshipRestock(t) PROVE UNCHANGED rowVars
  BY <1>7 DEF CommitProof, BiteshipRestock, rowVars
<1>8. ASSUME NEW t \in Slots, CommitSync(t) PROVE PgRecords(s)
  BY <1>2, <1>8 DEF CommitSync, PgRecords
<1>9. ASSUME NEW t \in Slots, WriteStep(t) PROVE PgRecords(s)
  <2>1. t = s
    BY <1>2, <1>9, WriteFacts DEF GroupInv
  <2>2. CASE CommitPgNotification(t)
    BY <2>1, <2>2 DEF PgRecords
  <2>3. CASE ~CommitPgNotification(t)
    BY <1>9, <2>1, <2>3
    DEF WriteStep, Running, CommitCustomerCancel, CommitConfirmReceived, CommitUpdateStatus,
        CommitSetShipping, CommitBooking, CommitBiteshipWebhook, CommitSyncBiteship, CommitExpire
  <2> QED
    BY <2>2, <2>3
<1> QED
  BY <1>3, <1>4, <1>5, <1>6, <1>7, <1>8, <1>9 DEF StepKinds

\* A recorded payment leaves no order of its checkout waiting.
LEMMA RecordsWhole ==
    ASSUME TypeOK, GroupInv, StepKinds, NEW s \in Slots, PgWrites(s),
           NEW o1 \in req[s].orders, NEW o2 \in OrdersOf(Group[o1])
    PROVE  ecom'[o2] # "pending_payment"
<1>1. PgRecords(s)
  BY WhoRecords DEF PgWrites, rowVars
<1>2. o2 \in Orders
  BY DEF OrdersOf
<1>3. CASE CommitPgNotification(s)
  <2>1. ecom'[o2] = IF o2 \in req[s].orders THEN "paid" ELSE ecom[o2]
    BY <1>2, <1>3 DEF CommitPgNotification, SetStatus, PgWrites
  <2>2. ecom[o2] = "pending_payment" => o2 \in req[s].orders
    BY <1>3 DEF CommitPgNotification, GroupInv, Sound, PgWrites
  <2> QED
    BY <2>1, <2>2
<1>4. CASE CommitSync(s)
  <2> DEFINE S == UNION {SyncTargets(o) : o \in req[s].orders}
  <2>1. ecom'[o2] = IF o2 \in S THEN "paid" ELSE ecom[o2]
    BY <1>2, <1>4 DEF CommitSync, SetStatus
  <2>2. ecom[o2] = "pending_payment" => o2 \in SyncTargets(o1)
    BY DEF SyncTargets, PendingOf
  <2>3. ecom[o2] = "pending_payment" => o2 \in S
    BY <2>2
  <2> HIDE DEF S
  <2> QED
    BY <2>1, <2>3
<1> QED
  BY <1>1, <1>3, <1>4 DEF PgRecords

\* When the gateway's payment is recorded, no order of its checkout is left
\* waiting, whatever other handlers did since it was read: a notification
\* holds all that waited, and the sync's UPDATE finds all that wait.
THEOREM PaymentsAreWhole == Spec => PgPaysWholeGroup
<1> DEFINE Whole == \A s \in Slots : PgWrites(s) =>
              \A o1 \in req[s].orders : \A o2 \in OrdersOf(Group[o1]) :
                 ecom'[o2] # "pending_payment"
<1>1. TypeOK /\ GroupInv /\ [Next]_vars => Whole
  BY NextKinds, RecordsWhole
<1>2. TypeOK /\ GroupInv /\ [Next]_vars => [Whole]_vars
  BY <1>1
<1> HIDE DEF Whole
<1>3. Spec => [][Whole]_vars
  BY <1>2, AlwaysGroups, PTL DEF Spec
<1> QED
  BY <1>3 DEF Whole, PgPaysWholeGroup

\* The sync of a payment overwrites only an order that still waits for payment
\* at the moment of its write, not one that another handler decided about since
\* the sync read it.
THEOREM SyncOnlyPays == Spec => SyncKeepsDecisions
<1> DEFINE Kept == \A s \in Slots : (req[s].op = "sync" /\ req'[s] = Idle) =>
              \A o \in Orders : ecom'[o] # ecom[o] => ecom[o] = "pending_payment"
<1>1. ASSUME TypeOK, GroupInv, [Next]_vars,
             NEW s \in Slots, req[s].op = "sync", req'[s] = Idle,
             NEW o \in Orders, ecom'[o] # ecom[o]
      PROVE  ecom[o] = "pending_payment"
  <2>1. StepKinds
    BY <1>1, NextKinds
  <2>2. PgRecords(s)
    BY <1>1, <2>1, WhoRecords DEF rowVars
  <2>3. CommitSync(s)
    BY <1>1, <2>2 DEF PgRecords, CommitPgNotification, Running
  <2>4. o \in UNION {SyncTargets(x) : x \in req[s].orders}
    BY <1>1, <2>3 DEF CommitSync, SetStatus
  <2> QED
    BY <2>4 DEF SyncTargets, PendingOf
<1>2. TypeOK /\ GroupInv /\ [Next]_vars => [Kept]_vars
  BY <1>1
<1> HIDE DEF Kept
<1>3. Spec => [][Kept]_vars
  BY <1>2, AlwaysGroups, PTL DEF Spec
<1> QED
  BY <1>3 DEF Kept, SyncKeepsDecisions
-----------------------------------------------------------------------------
(* Requests served one at a time.                                          *)

\* An order a courier carries, or carried, has been sold.
Carries == \A o \in Orders :
    (o \in resi \/ bookings[o] > 0) => ecom[o] \in Sold \union {"cancelled"}

\* With nobody in between, what a handler read is still true when it writes.
SerialInv ==
    /\ \A s, t \in Slots : req[s] # Idle /\ req[t] # Idle => s = t
    /\ \A s \in Slots : Read(req[s])
    /\ Carries

\* An empty slot has read nothing.
LEMMA IdleReads == Read(Idle) /\ Read(Idle)'
BY DEF Read, Idle

\* The slots after a step, but for the one that took it, are empty.
LEMMA AloneAfter ==
    ASSUME TypeOK, SerialInv, NEW s \in Slots, req[s] # Idle, Done(s)
    PROVE  \A t \in Slots : req'[t] = Idle
BY DEF Done, TypeOK, SerialInv

\* When a handler writes, the orders it writes are as it read them.
LEMMA StillTrue ==
    ASSUME TypeOK, GroupInv, SerialInv, NEW s \in Slots, WriteStep(s), NEW o \in req[s].orders
    PROVE  /\ ecom'[o] = req[s].to
           /\ req[s].op = "customerCancel" => ecom[o] = "pending_payment"
           /\ req[s].op = "expire" => ecom[o] = "pending_payment" /\ o \notin proof
           /\ req[s].op = "pg" => ecom[o] # "none"
           /\ req[s].op = "admin" => IsValidTransition(ecom[o], req[s].to)
           /\ req[s].op = "resi" => ecom[o] \in {"paid", "processing", "shipped"}
           /\ req[s].op = "book" => ecom[o] \in {"paid", "processing"}
           /\ req[s].op \in {"courier", "courierSave", "courierSync"} =>
                ecom[o] \in Sold \ {"completed"}
           /\ req[s].op = "confirm" => ecom[o] \in {"shipped", "delivered"}
<1>1. SetStatus(req[s].orders, req[s].to)
  BY WriteFacts DEF GroupInv
<1>2. o \in Orders
  BY RequestFields DEF TypeOK
<1>3. Read(req[s])
  BY DEF SerialInv
<1>4. (o \in resi \/ bookings[o] > 0) => ecom[o] \in Sold \union {"cancelled"}
  BY <1>2 DEF SerialInv, Carries
<1>5. ecom'[o] = req[s].to
  BY <1>1, <1>2 DEF SetStatus
<1> QED
  BY <1>3, <1>4, <1>5 DEF Read, Sold

\* A step after which all slots are empty keeps what the handlers had read.
LEMMA EmptySlots ==
    ASSUME \A t \in Slots : req'[t] = Idle
    PROVE  /\ \A s, t \in Slots : req'[s] # Idle /\ req'[t] # Idle => s = t
           /\ \A s \in Slots : Read(req[s])'
BY IdleReads DEF Read, Idle

\* A handler that starts is the only one, and has just read.
LEMMA SerialStart ==
    ASSUME TypeOK, SerialInv, OneAtATime, NEW s \in Slots, Starts(s)
    PROVE  SerialInv'
<1>1. PICK r \in Request :
         /\ r.op # "idle"
         /\ Read(r)
         /\ req' = [req EXCEPT ![s] = r]
         /\ bookings' = IF r.op = "book"
                        THEN [o \in Orders |-> IF o \in r.orders THEN bookings[o] + 1 ELSE bookings[o]]
                        ELSE bookings
  BY DEF Starts
<1>2. UNCHANGED <<ecom, proof, resi>>
  BY DEF Starts, rowVars
<1>3. req'[s] = r /\ r # Idle
  BY <1>1 DEF TypeOK, Idle
<1>4. \A t \in Slots \ {s} : req'[t] = Idle
  BY <1>3 DEF OneAtATime
<1>5. Read(r)'
  BY <1>1, <1>2 DEF Read, OrdersOf
<1>6. \A t \in Slots : Read(req[t])'
  BY <1>3, <1>4, <1>5 DEF Read, Idle
<1>7. Carries'
  <2>1. ASSUME NEW o \in Orders, bookings'[o] > 0 \/ o \in resi
        PROVE  ecom[o] \in Sold \union {"cancelled"}
    <3>1. CASE r.op = "book" /\ o \in r.orders
      BY <1>1, <3>1 DEF Read, Sold
    <3>2. CASE ~(r.op = "book" /\ o \in r.orders)
      BY <1>1, <2>1, <3>2 DEF SerialInv, Carries
    <3> QED
      BY <3>1, <3>2
  <2> QED
    BY <1>2, <2>1 DEF Carries
<1> QED
  BY <1>4, <1>6, <1>7 DEF SerialInv

\* A handler that writes leaves its slot, and only sold orders with a courier.
LEMMA SerialWrite ==
    ASSUME TypeOK, GroupInv, SerialInv, NEW s \in Slots, WriteStep(s)
    PROVE  SerialInv'
<1>1. /\ SetStatus(req[s].orders, req[s].to)
      /\ Done(s) /\ req[s].op \in Writers
      /\ resi' = resi \/ resi' = resi \union req[s].orders
      /\ UNCHANGED bookings
  BY WriteFacts DEF GroupInv
<1>2. \A t \in Slots : req'[t] = Idle
  BY <1>1, AloneAfter DEF Writers, Idle
<1>3. ASSUME NEW o \in Orders, o \in resi' \/ bookings'[o] > 0
      PROVE  ecom'[o] \in Sold \union {"cancelled"}
  <2>1. CASE o \notin req[s].orders
    BY <1>1, <1>3, <2>1 DEF SetStatus, SerialInv, Carries
  <2>2. CASE o \in req[s].orders
    <3>1. ecom'[o] = req[s].to /\ Aim(req[s])
      BY <2>2, StillTrue DEF GroupInv, Aimed
    <3>2. CASE o \in resi \/ bookings[o] > 0
      <4>1. ecom[o] \in Sold \union {"cancelled"}
        BY <3>2 DEF SerialInv, Carries
      <4>2. req[s].op = "admin" => req[s].to \in Sold \union {"cancelled"}
        BY <2>2, <4>1, StillTrue DEF IsValidTransition, Allowed, Sold, EcomStatus
      <4>3. req[s].op \notin {"customerCancel", "expire"} \/ req[s].to = "cancelled"
        BY <2>2, <3>1, <4>1, StillTrue DEF Aim, Sold
      <4> QED
        BY <1>1, <3>1, <4>2, <4>3 DEF Aim, Writers, Sold
    <3>3. CASE CommitBooking(s)
      BY <3>1, <3>3 DEF CommitBooking, Running, Aim, Sold
    <3>4. ~CommitBooking(s) => resi' = resi
      BY DEF WriteStep, shipVars, CommitCustomerCancel, CommitConfirmReceived, CommitPgNotification,
             CommitUpdateStatus, CommitSetShipping, CommitBiteshipWebhook, CommitSyncBiteship, CommitExpire
    <3> QED
      BY <1>1, <1>3, <3>2, <3>3, <3>4
  <2> QED
    BY <2>1, <2>2
<1> QED
  BY <1>2, <1>3, EmptySlots DEF SerialInv, Carries

\* The other writes leave their slot too, and sell rather than unsell.
LEMMA SerialOther ==
    ASSUME TypeOK, GroupInv, SerialInv, OneAtATime, NEW s \in Slots,
           CommitCheckout(s) \/ CommitProof(s) \/ CommitSync(s)
    PROVE  SerialInv'
<1>1. \A t \in Slots : req'[t] = Idle
  BY AloneAfter DEF CommitCheckout, CommitProof, CommitSync, Running, Idle
<1>2. resi' = resi /\ bookings' = bookings
  BY DEF CommitCheckout, CommitProof, CommitSync, shipVars
<1>3. \A o \in Orders : ecom'[o] = ecom[o] \/ ecom[o] = "none" \/ ecom'[o] = "paid"
  <2>1. CASE CommitCheckout(s)
    BY <2>1, CheckoutWhole
  <2>2. CASE CommitProof(s)
    BY <2>2 DEF CommitProof, rowVars
  <2>3. CASE CommitSync(s)
    BY <2>3 DEF CommitSync, SetStatus
  <2> QED
    BY <2>1, <2>2, <2>3
<1>4. Carries'
  BY <1>2, <1>3 DEF SerialInv, Carries, Sold
<1> QED
  BY <1>1, <1>4, EmptySlots DEF SerialInv

\* Half a courier's cancellation: the rows stay as they were read.
LEMMA SerialHalf ==
    ASSUME TypeOK, SerialInv, NEW s \in Slots, BiteshipRestock(s)
    PROVE  SerialInv'
<1>1. UNCHANGED <<ecom, proof, resi, bookings>> /\ req[s].op = "courier"
      /\ req' = [req EXCEPT ![s].op = "courierSave"]
  BY DEF BiteshipRestock, Running, rowVars, shipVars
<1>2. /\ \A t \in Slots \ {s} : req'[t] = Idle
      /\ req'[s].op = "courierSave" /\ req'[s].orders = req[s].orders
  BY <1>1 DEF SerialInv, TypeOK, Request, Idle
<1>3. Read(req[s])'
  BY <1>1, <1>2 DEF SerialInv, Read
<1>4. \A t \in Slots : Read(req[t])'
  BY <1>2, <1>3 DEF Read, Idle
<1> QED
  BY <1>1, <1>2, <1>4 DEF SerialInv, Carries

\* Nothing else runs while a handler does.
LEMMA SerialWaits ==
    ASSUME TypeOK, SerialInv, OneAtATime, Waits \/ AutoComplete
    PROVE  SerialInv'
<1>1. CASE Waits
  <2>1. UNCHANGED <<ecom, proof, resi, bookings>>
    BY <1>1 DEF Waits, rowVars, shipVars
  <2>2. \A s \in Slots : req'[s] = req[s] \/ req'[s] = Idle
    BY <1>1 DEF Waits, Done, TypeOK
  <2>3. ASSUME NEW s \in Slots PROVE Read(req[s])'
    <3>1. CASE req'[s] = Idle
      BY <3>1 DEF Read, Idle
    <3>2. CASE req'[s] = req[s]
      BY <2>1, <3>2 DEF SerialInv, Read, OrdersOf
    <3> QED
      BY <2>2, <3>1, <3>2
  <2> QED
    BY <2>1, <2>2, <2>3 DEF SerialInv, Carries
<1>2. CASE AutoComplete
  <2>1. /\ UNCHANGED <<proof, resi, bookings, req>>
        /\ \A o \in Orders : ecom'[o] = IF o \in AutoCompletable THEN "completed" ELSE ecom[o]
    BY <1>2 DEF AutoComplete, SetStatus, shipVars
  <2>2. CASE ecom' = ecom
    BY <2>1, <2>2 DEF SerialInv, Read, Carries, OrdersOf
  <2>3. CASE ecom' # ecom
    <3>1. \A s \in Slots : req'[s] = Idle
      BY <2>1, <2>3 DEF OneAtATime
    <3>2. Carries'
      BY <2>1 DEF SerialInv, Carries, Sold
    <3> QED
      BY <3>1, <3>2, EmptySlots DEF SerialInv
  <2> QED
    BY <2>2, <2>3
<1> QED
  BY <1>1, <1>2

\* So one handler at a time never acts on what is no longer true.
LEMMA NextSerial ==
    TypeOK /\ GroupInv /\ SerialInv /\ [Next /\ OneAtATime]_vars => SerialInv'
<1> SUFFICES ASSUME TypeOK, GroupInv, SerialInv, [Next /\ OneAtATime]_vars PROVE SerialInv'
  OBVIOUS
<1>1. CASE UNCHANGED vars
  BY <1>1 DEF vars, rowVars, shipVars, SerialInv, Read, Carries, OrdersOf
<1>2. CASE Next /\ OneAtATime
  <2>1. StepKinds
    BY <1>2, NextKinds
  <2> QED
    BY <1>2, <2>1, SerialStart, SerialWrite, SerialOther, SerialHalf, SerialWaits DEF StepKinds
<1> QED
  BY <1>1, <1>2

\* In every state of the serial specification.
LEMMA AlwaysSerial == SerialSpec => [](TypeOK /\ GroupInv /\ SerialInv)
<1>1. Init => TypeOK /\ GroupInv /\ SerialInv
  <2>1. Init => SerialInv
    BY IdleReads DEF Init, SerialInv, Carries
  <2> QED
    BY <2>1, InitIInv, InitGroups DEF IInv
<1>2. IInv /\ GroupInv /\ SerialInv /\ [Next /\ OneAtATime]_vars => (IInv /\ GroupInv /\ SerialInv)'
  BY NextIInv, NextGroups, NextSerial DEF IInv
<1>3. IInv => TypeOK
  BY DEF IInv
<1> QED
  BY <1>1, <1>2, <1>3, InitIInv, PTL DEF SerialSpec

\* Requests served one at a time: only a notification of the gateway takes an
\* order out of completed, cancelled or expired.
THEOREM TerminalStays == SerialSpec => TerminalUnlessGateway
<1> DEFINE Stays == \A o \in Orders : (ecom[o] \in Terminal /\ ecom'[o] # ecom[o]) =>
                       \E s \in Slots : req[s].op = "pg" /\ o \in req[s].orders
<1>1. ASSUME TypeOK, GroupInv, SerialInv, [Next /\ OneAtATime]_vars,
             NEW o \in Orders, ecom[o] \in Terminal, ecom'[o] # ecom[o]
      PROVE  \E s \in Slots : req[s].op = "pg" /\ o \in req[s].orders
  <2>1. StepKinds
    BY <1>1, NextKinds
  <2>2. ~Waits /\ \A s \in Slots : ~Starts(s) /\ ~CommitProof(s) /\ ~BiteshipRestock(s)
    BY <1>1 DEF Waits, Starts, CommitProof, BiteshipRestock, rowVars
  <2>3. ~AutoComplete
    BY <1>1 DEF AutoComplete, AutoCompletable, SetStatus, Terminal
  <2>4. \A s \in Slots : ~CommitCheckout(s)
    BY <1>1, CheckoutWhole DEF Terminal
  <2>5. ASSUME NEW s \in Slots PROVE ~CommitSync(s)
    <3>1. \A x \in UNION {SyncTargets(y) : y \in req[s].orders} : ecom[x] = "pending_payment"
      BY DEF SyncTargets, PendingOf
    <3> QED
      BY <1>1, <3>1 DEF CommitSync, SetStatus, Terminal
  <2>6. PICK s \in Slots : WriteStep(s)
    BY <2>1, <2>2, <2>3, <2>4, <2>5 DEF StepKinds
  <2>7. req[s].op \in Writers /\ SetStatus(req[s].orders, req[s].to)
    BY <1>1, <2>6, WriteFacts DEF GroupInv
  <2>8. o \in req[s].orders
    BY <1>1, <2>7 DEF SetStatus
  <2>9. req[s].op # "admin"
    BY <1>1, <2>6, <2>8, StillTrue DEF IsValidTransition, Allowed, Terminal
  <2>10. req[s].op = "pg"
    BY <1>1, <2>6, <2>7, <2>8, <2>9, StillTrue DEF Writers, Terminal, Sold
  <2> QED
    BY <2>8, <2>10
<1>2. TypeOK /\ GroupInv /\ SerialInv /\ [Next /\ OneAtATime]_vars => [Stays]_vars
  BY <1>1
<1> HIDE DEF Stays
<1>3. SerialSpec => [][Stays]_vars
  BY <1>2, AlwaysSerial, PTL DEF SerialSpec
<1> QED
  BY <1>3 DEF Stays, TerminalUnlessGateway

\* A function on the finite set's subsets that starts at zero and grows by one
\* member at a time is the one Reservation's sum is defined by.
LEMMA NeedsIs ==
    ASSUME NEW S, IsFiniteSet(S), NEW p, NEW f \in [SUBSET S -> Nat],
           \A o \in S : Qty[o][p] \in Nat,
           f[{}] = 0,
           \A T \in SUBSET S : \A o \in T : f[T] = Qty[o][p] + f[T \ {o}]
    PROVE  Shelf!Needs(S, p) = f[S]
<1> DEFINE Sums(g) == g = [T \in SUBSET S |->
              IF T = {} THEN 0
              ELSE Qty[CHOOSE o \in T : TRUE][p] + g[T \ {CHOOSE o \in T : TRUE}]]
           sum == CHOOSE g : Sums(g)
<1>1. Shelf!Needs(S, p) = sum[S]
  BY DEF Shelf!Needs, Shelf!MapThenSumSet, Shelf!MapThenFoldSet
<1>2. Sums(f)
  <2>1. ASSUME NEW T \in SUBSET S, T # {}
        PROVE  f[T] = Qty[CHOOSE o \in T : TRUE][p] + f[T \ {CHOOSE o \in T : TRUE}]
    <3>1. (CHOOSE o \in T : TRUE) \in T
      BY <2>1
    <3> QED
      BY <3>1
  <2> QED
    BY <2>1
<1>3. Sums(sum)
  <2> HIDE DEF Sums
  <2> QED
    BY <1>2
<1>4. \A T \in SUBSET S : T # {} =>
        \E o \in T : sum[T] = Qty[o][p] + sum[T \ {o}]
  <2> HIDE DEF sum
  <2>1. ASSUME NEW T \in SUBSET S, T # {}
        PROVE  \E o \in T : sum[T] = Qty[o][p] + sum[T \ {o}]
    <3>1. (CHOOSE o \in T : TRUE) \in T
      BY <2>1
    <3>2. sum[T] = Qty[CHOOSE o \in T : TRUE][p] + sum[T \ {CHOOSE o \in T : TRUE}]
      BY <1>3, <2>1
    <3> QED
      BY <3>1, <3>2
  <2> QED
    BY <2>1
<1>5. sum[{}] = 0
  <2> HIDE DEF sum
  <2> QED
    BY <1>3
<1> HIDE DEF sum, Sums
<1>6. ASSUME NEW T \in SUBSET S, sum[T] # f[T] PROVE FALSE
  <2> DEFINE Bad == {U \in SUBSET S : sum[U] # f[U]}
             R == StrictSubsetOrdering(S)
  <2>1. IsWellFoundedOn(R, SUBSET S)
    BY FS_StrictSubsetOrderingWellFounded, FS_FiniteSubsetsOfFinite
  <2>2. \A U, V \in SUBSET S : V \subseteq U /\ V # U => <<V, U>> \in R
    BY DEF StrictSubsetOrdering
  <2>3. Bad \subseteq SUBSET S /\ Bad # {}
    BY <1>6
  <2> HIDE DEF R
  <2>4. PICK U \in Bad : \A V \in Bad : ~(<<V, U>> \in R)
    <3> HIDE DEF Bad
    <3> QED
      BY <2>1, <2>3, WFMin
  <2>5. U # {}
    BY <1>5
  <2>6. PICK o \in U : sum[U] = Qty[o][p] + sum[U \ {o}]
    BY <1>4, <2>5
  <2>7. U \ {o} \in SUBSET S /\ U \ {o} \notin Bad
    <3>1. U \ {o} \subseteq U /\ U \ {o} # U /\ U \in SUBSET S
      BY <2>3
    <3>2. <<U \ {o}, U>> \in R
      BY <2>2, <3>1
    <3> QED
      BY <2>4, <3>1, <3>2
  <2>8. sum[U \ {o}] = f[U \ {o}]
    BY <2>7
  <2>9. sum[U] = f[U]
    BY <2>6, <2>8
  <2> QED
    BY <2>9
<1> QED
  BY <1>1, <1>6

\* Orders of one checkout sell different products, so what they need together
\* is what one of them needs.
LEMMA NeedsUnits ==
    ASSUME NEW S \in SUBSET Orders, SameGroup(S), NEW p \in Products
    PROVE  Shelf!Needs(S, p) = Units(S, p)
<1> DEFINE f == [T \in SUBSET S |-> Units(T, p)]
<1>1. IsFiniteSet(S)
  <2>1. CASE S = {}
    BY <2>1, FS_EmptySet
  <2>2. ASSUME NEW o \in S PROVE IsFiniteSet(S)
    <3>1. S \subseteq {x \in Orders : Group[x] = Group[o]}
      BY DEF SameGroup
    <3>2. Group[o] \in Groups
      BY ConstAssumption
    <3> QED
      BY <3>1, <3>2, FiniteGroups, FS_Subset
  <2> QED
    BY <2>1, <2>2
<1>2. \A o \in S : Qty[o][p] \in Nat
  BY ConstAssumption
<1>3. f \in [SUBSET S -> Nat]
  BY UnitsNat
<1>4. f[{}] = 0
  BY DEF Units
<1>5. ASSUME NEW T \in SUBSET S, NEW o \in T PROVE f[T] = Qty[o][p] + f[T \ {o}]
  <2>1. \A x \in T \ {o} : Qty[x][p] = 0 \/ Qty[o][p] = 0
    BY OneStorePerProduct DEF SameGroup
  <2>2. \A x \in T : Qty[x][p] \in Nat
    BY <1>2
  <2>3. CASE Qty[o][p] > 0
    <3>1. \A x \in T : Qty[x][p] > 0 <=> x = o
      BY <2>1, <2>2, <2>3
    <3>2. Units(T, p) = Qty[o][p] /\ Units(T \ {o}, p) = 0
      BY <3>1 DEF Units
    <3> QED
      BY <2>2, <3>2
  <2>4. CASE Qty[o][p] = 0
    <3>1. \A x : x \in T /\ Qty[x][p] > 0 <=> x \in T \ {o} /\ Qty[x][p] > 0
      BY <2>4
    <3>2. (CHOOSE x \in T : Qty[x][p] > 0) = (CHOOSE x \in T \ {o} : Qty[x][p] > 0)
      BY <3>1
    <3>3. Units(T, p) = Units(T \ {o}, p)
      BY <3>1, <3>2 DEF Units
    <3> QED
      BY <1>3, <2>4, <3>3
  <2> QED
    BY <2>2, <2>3, <2>4
<1> HIDE DEF f
<1>6. Shelf!Needs(S, p) = f[S]
  BY <1>1, <1>2, <1>3, <1>4, <1>5, NeedsIs
<1> QED
  BY <1>6 DEF f

-----------------------------------------------------------------------------
(* One handler at a time, bank transfer and manual shipping.               *)

\* With the gateway off and no courier client, nothing of either ever runs.
Manual ==
    /\ links = {} /\ notif = {} /\ resi = {}
    /\ \A o \in Orders : bookings[o] = 0
    /\ \A s \in Slots : req[s].op \in
         {"idle", "checkout", "customerCancel", "proof", "admin", "resi", "confirm", "expire"}

\* A step that sends nothing to the gateway or the courier.
LEMMA ManualSlots ==
    ASSUME Manual, UNCHANGED <<links, notif, resi, bookings>>,
           \A s \in Slots :
             \/ req'[s] = req[s] \/ req'[s] = Idle
             \/ req'[s].op \in {"checkout", "customerCancel", "proof", "admin", "resi", "confirm", "expire"}
    PROVE  Manual'
BY DEF Manual, Idle

\* What Begin and Done do to the other slots: nothing.
LEMMA OneSlot ==
    ASSUME req \in [Slots -> Request], NEW s \in Slots
    PROVE  /\ \A op, S, to : Begin(s, op, S, to) =>
                \A t \in Slots : req'[t] = req[t] \/ req'[t].op = op
           /\ Done(s) => \A t \in Slots : req'[t] = req[t] \/ req'[t] = Idle
BY DEF Begin, Done

\* No step of the whole subsystem wakes the gateway or the courier.
LEMMA NextManual ==
    ASSUME TypeOK, Manual, ~PgEnabled, ~BiteshipReady, [Next]_vars
    PROVE  Manual'
<1> USE DEF TypeOK, pgVars, shipVars
<1>1. CASE UNCHANGED vars
  BY <1>1, ManualSlots DEF vars
<1>2. ASSUME NEW s \in Slots, CustomerStep(s) PROVE Manual'
  <2>1. CommitCheckout(s) => Manual'
    BY OneSlot, ManualSlots DEF CommitCheckout, CreatePayment
  <2>2. CommitCustomerCancel(s) \/ CommitProof(s) \/ CommitConfirmReceived(s) => Manual'
    BY OneSlot, ManualSlots DEF CommitCustomerCancel, CommitProof, CommitConfirmReceived
  <2>3. \A g \in Groups : BeginCheckout(s, g) => Manual'
    BY OneSlot, ManualSlots DEF BeginCheckout
  <2>4. \A o \in Orders : BeginCustomerCancel(s, o) \/ BeginProof(s, o)
                             \/ BeginConfirmReceived(s, o) => Manual'
    BY OneSlot, ManualSlots DEF BeginCustomerCancel, BeginProof, BeginConfirmReceived
  <2> QED
    BY <1>2, <2>1, <2>2, <2>3, <2>4 DEF CustomerStep
<1>3. ASSUME NEW s \in Slots PROVE ~GatewayStep(s)
  BY DEF GatewayStep, BeginPgNotification, BeginSync, PgSaysPaid, BeginRetry,
         CommitPgNotification, CommitSync, CommitRetry, Running, Manual
<1>4. ASSUME NEW s \in Slots, AdminStep(s) PROVE Manual'
  <2>1. CommitUpdateStatus(s) \/ CommitSetShipping(s) => Manual'
    BY OneSlot, ManualSlots DEF CommitUpdateStatus, CommitSetShipping
  <2>2. \A o \in Orders : BeginSetShipping(s, o) => Manual'
    BY OneSlot, ManualSlots DEF BeginSetShipping
  <2>3. \A o \in Orders, to \in EcomStatus : BeginUpdateStatus(s, o, to) => Manual'
    BY OneSlot, ManualSlots DEF BeginUpdateStatus
  <2> QED
    BY <1>4, <2>1, <2>2, <2>3 DEF AdminStep
<1>5. ASSUME NEW s \in Slots PROVE ~CourierStep(s)
  <2>1. \A o \in Orders : ~BeginBooking(s, o)
    BY DEF BeginBooking
  <2>2. \A o \in Orders, b \in Courier : ~BeginBiteshipWebhook(s, o, b) /\ ~BeginSyncBiteship(s, o, b)
    BY DEF BeginBiteshipWebhook, BeginSyncBiteship, Manual
  <2>3. ~CommitBooking(s) /\ ~BiteshipRestock(s) /\ ~CommitBiteshipWebhook(s) /\ ~CommitSyncBiteship(s)
    BY DEF CommitBooking, BiteshipRestock, CommitBiteshipWebhook, CommitSyncBiteship, Running, Manual
  <2> QED
    BY <2>1, <2>2, <2>3 DEF CourierStep
<1>6. CASE CronStep
  <2>1. Cron \in Slots
    BY DEF Slots
  <2>2. \A o \in Orders : BeginExpire(o) => Manual'
    BY <2>1, OneSlot, ManualSlots DEF BeginExpire
  <2>3. CommitExpire(Cron) \/ AutoComplete => Manual'
    BY <2>1, OneSlot, ManualSlots DEF CommitExpire, AutoComplete
  <2> QED
    BY <1>6, <2>2, <2>3 DEF CronStep
<1>7. CASE Environment
  <2>1. \A o \in Orders : Age(o) \/ Ripen(o) => Manual'
    BY ManualSlots DEF Age, Ripen
  <2>2. \A t \in Trx, e \in PgStatus : ~GatewayOutcome(t, e)
    BY DEF GatewayOutcome, Manual
  <2>3. \A s \in Slots : Abandon(s) => Manual'
    BY OneSlot, ManualSlots DEF Abandon
  <2> QED
    BY <1>7, <2>1, <2>2, <2>3 DEF Environment
<1> QED
  BY <1>1, <1>2, <1>3, <1>4, <1>5, <1>6, <1>7 DEF Next, Slots

\* What a step does to one order, seen from the shelf and from the reports.
Dead == {"cancelled", "expired"}
OneOrder(o) ==
    \/ \* nothing
       /\ ecom'[o] = ecom[o] /\ returned'[o] = returned[o] /\ status'[o] = status[o]
    \/ \* it is made
       /\ ecom[o] = "none" /\ ecom'[o] = "pending_payment" /\ status'[o] = "pending"
       /\ returned'[o] = returned[o]
    \/ \* it moves on
       /\ ecom[o] \in EcomStatus \ Dead /\ ecom'[o] \in Sold
       /\ returned'[o] = returned[o]
       /\ status'[o] = "completed" \/ (status'[o] = status[o] /\ ecom[o] \in Sold)
    \/ \* it ends and its stock comes back
       /\ ecom[o] \in EcomStatus \ Dead /\ ecom'[o] \in Dead
       /\ returned'[o] = returned[o] + 1
       /\ status'[o] = "cancelled"

\* A handler that writes moves its own orders on, or ends them.
LEMMA WriteOneOrder ==
    ASSUME TypeOK, GroupInv, SerialInv, Manual, NEW s \in Slots, WriteStep(s), NEW o \in Orders
    PROVE  OneOrder(o)
<1> USE DEF TypeOK
<1>1. \A x \in req[s].orders :
        /\ ecom'[x] = req[s].to
        /\ req[s].op = "customerCancel" => ecom[x] = "pending_payment"
        /\ req[s].op = "expire" => ecom[x] = "pending_payment"
        /\ req[s].op = "admin" => IsValidTransition(ecom[x], req[s].to)
        /\ req[s].op = "resi" => ecom[x] \in {"paid", "processing", "shipped"}
        /\ req[s].op = "confirm" => ecom[x] \in {"shipped", "delivered"}
  BY StillTrue
<1>2. req[s].op \in {"customerCancel", "confirm", "admin", "resi", "expire"}
  BY WriteFacts DEF GroupInv, Writers, Manual
<1>3. Aim(req[s]) /\ (o \notin req[s].orders => ecom'[o] = ecom[o])
  BY WriteFacts DEF GroupInv, Aimed, SetStatus
<1>4. CASE CommitCustomerCancel(s)
  BY <1>1, <1>3, <1>4 DEF CommitCustomerCancel, Running, Restock, SetPos, OneOrder, Aim, EcomStatus, Dead
<1>5. CASE CommitConfirmReceived(s)
  BY <1>1, <1>3, <1>5 DEF CommitConfirmReceived, Running, stockVars, SetPos, OneOrder, Aim, EcomStatus, Sold, Dead
<1>6. CASE CommitUpdateStatus(s)
  <2> DEFINE to == req[s].to
  <2>1. CASE o \notin req[s].orders
    BY <1>3, <1>6, <2>1 DEF CommitUpdateStatus, Restock, stockVars, OneOrder
  <2>2. CASE o \in req[s].orders
    <3>1. /\ ecom'[o] = to /\ ecom[o] \in EcomStatus \ Dead /\ to \in Dead \union Sold
          /\ to \in {"processing", "shipped", "delivered"} => ecom[o] \in Sold
      BY <1>1, <1>6, <2>2 DEF CommitUpdateStatus, Running, IsValidTransition, Allowed, EcomStatus, Dead, Sold
    <3>2. status'[o] = PosAfter(o, to)
      BY <1>6, <2>2 DEF CommitUpdateStatus
    <3>3. CASE to \in Dead
      BY <1>6, <2>2, <3>1, <3>2, <3>3
      DEF CommitUpdateStatus, Releases, Restock, PosAfter, OneOrder, Dead
    <3>4. CASE to \in Sold
      <4>1. returned'[o] = returned[o]
        BY <1>6, <3>4 DEF CommitUpdateStatus, Releases, stockVars, Sold
      <4>2. to \in {"paid", "completed"} => status'[o] = "completed"
        BY <3>2 DEF PosAfter
      <4>3. to \in {"processing", "shipped", "delivered"} => status'[o] = status[o]
        BY <3>2 DEF PosAfter
      <4> QED
        BY <3>1, <3>4, <4>1, <4>2, <4>3 DEF OneOrder, Sold
    <3> QED
      BY <3>1, <3>3, <3>4
  <2> QED
    BY <2>1, <2>2
<1>7. CASE CommitSetShipping(s)
  BY <1>1, <1>3, <1>7 DEF CommitSetShipping, Running, stockVars, OneOrder, Aim, EcomStatus, Sold, Dead
<1>8. CASE CommitExpire(s)
  BY <1>1, <1>3, <1>8 DEF CommitExpire, Running, Restock, SetPos, OneOrder, Aim, EcomStatus, Dead
<1> QED
  BY <1>2, <1>4, <1>5, <1>6, <1>7, <1>8
  DEF WriteStep, Running, CommitPgNotification, CommitBooking, CommitBiteshipWebhook, CommitSyncBiteship

\* So does every other step.
LEMMA StepOneOrder ==
    ASSUME TypeOK, GroupInv, SerialInv, Manual, StepKinds, NEW o \in Orders
    PROVE  OneOrder(o)
<1>1. CASE Waits \/ \E s \in Slots : Starts(s) \/ CommitProof(s)
  BY <1>1 DEF Waits, Starts, CommitProof, OneOrder, stockVars, rowVars
<1>2. ASSUME NEW s \in Slots, CommitCheckout(s) PROVE OneOrder(o)
  <2>1. Reservable(req[s].orders) = req[s].orders
    BY <1>2 DEF CommitCheckout, Reservable
  <2>2. status'[o] = IF o \in req[s].orders THEN "pending" ELSE status[o]
    BY <1>2, <2>1 DEF CommitCheckout, SetPos
  <2>3. returned' = returned
    BY <1>2 DEF CommitCheckout
  <2> QED
    BY <1>2, <2>2, <2>3, CheckoutWhole DEF OneOrder
<1>3. \A s \in Slots : ~CommitSync(s) /\ ~BiteshipRestock(s)
  BY DEF CommitSync, BiteshipRestock, Running, Manual
<1>4. CASE AutoComplete
  BY <1>4 DEF AutoComplete, AutoCompletable, SetPos, SetStatus, OneOrder, stockVars, EcomStatus, Dead, Sold
<1> QED
  BY <1>1, <1>2, <1>3, <1>4, WriteOneOrder DEF StepKinds

\* The books of each order: what came back, and what counts as revenue.
ManualInv == Manual /\ StockBackExactlyOnce /\ RevenueExact

\* Every serial step of a manual shop keeps them, and changes each order in
\* one of the ways OneOrder lists.
LEMMA NextManualInv ==
    ASSUME TypeOK, GroupInv, SerialInv, ManualInv, ~PgEnabled, ~BiteshipReady,
           [Next /\ OneAtATime]_vars
    PROVE  ManualInv' /\ \A o \in Orders : OneOrder(o)
<1>1. Manual'
  BY NextManual DEF ManualInv
<1>2. StepKinds
  BY NextKinds
<1>3. \A o \in Orders : OneOrder(o)
  BY <1>2, StepOneOrder DEF ManualInv
<1>4. StockBackExactlyOnce'
  BY <1>3 DEF ManualInv, StockBackExactlyOnce, OneOrder, Dead, Sold, EcomStatus
<1>5. RevenueExact'
  BY <1>3 DEF ManualInv, RevenueExact, SoldIsRevenue, RevenueIsSold, OneOrder, Dead, Sold, EcomStatus
<1> QED
  BY <1>1, <1>3, <1>4, <1>5 DEF ManualInv

\* In every state of a shop that takes transfers and ships by hand.
LEMMA AlwaysManual ==
    ASSUME ~PgEnabled, ~BiteshipReady
    PROVE  SerialSpec => [](TypeOK /\ GroupInv /\ SerialInv /\ ManualInv)
<1>1. Init => ManualInv
  <2>1. Init => Manual
    BY DEF Init, Manual, Idle
  <2>2. Init => StockBackExactlyOnce /\ RevenueExact
    BY DEF Init, StockBackExactlyOnce, RevenueExact, SoldIsRevenue, RevenueIsSold, Sold
  <2> QED
    BY <2>1, <2>2 DEF ManualInv
<1>2. TypeOK /\ GroupInv /\ SerialInv /\ ManualInv /\ [Next /\ OneAtATime]_vars => ManualInv'
  BY NextManualInv
<1> QED
  BY <1>1, <1>2, AlwaysSerial, PTL DEF SerialSpec

\* Requests served one at a time, transfer and manual shipping: the stock of a
\* dead order has come back exactly once, that of a live one never.
THEOREM StockBackOnce ==
    ASSUME ~PgEnabled, ~BiteshipReady
    PROVE  SerialSpec => []StockBackExactlyOnce
<1>1. ManualInv => StockBackExactlyOnce
  BY DEF ManualInv
<1> QED
  BY <1>1, AlwaysManual, PTL

\* And the reports count as revenue exactly the orders that were sold.
THEOREM RevenueIsExact ==
    ASSUME ~PgEnabled, ~BiteshipReady
    PROVE  SerialSpec => []RevenueExact
<1>1. ManualInv => RevenueExact
  BY DEF ManualInv
<1> QED
  BY <1>1, AlwaysManual, PTL

-----------------------------------------------------------------------------
(* EcomOrder implements Reservation.                                       *)

\* All a step does to the shelf: nothing, a whole checkout, or the orders of
\* one request giving their goods back together.
LEMMA ShelfMoves ==
    ASSUME TypeOK, Manual, StepKinds
    PROVE  \/ UNCHANGED stockVars
           \/ \E s \in Slots : CommitCheckout(s)
           \/ \E s \in Slots : WriteStep(s) /\ Restock(req[s].orders)
<1>1. ASSUME NEW s \in Slots, WriteStep(s)
      PROVE  UNCHANGED stockVars \/ Restock(req[s].orders)
  <2>1. ~CommitPgNotification(s)
    BY DEF CommitPgNotification, Running, Manual
  <2> QED
    BY <1>1, <2>1 DEF WriteStep, CommitCustomerCancel, CommitConfirmReceived,
                      CommitUpdateStatus, CommitSetShipping, CommitBooking,
                      CommitBiteshipWebhook, CommitSyncBiteship, CommitExpire
<1>2. ASSUME NEW s \in Slots, Starts(s) \/ CommitProof(s) \/ CommitSync(s)
      PROVE  UNCHANGED stockVars
  BY <1>2 DEF Starts, CommitProof, CommitSync
<1>3. \A s \in Slots : ~BiteshipRestock(s)
  BY DEF BiteshipRestock, Running, Manual
<1>4. Waits \/ AutoComplete => UNCHANGED stockVars
  BY DEF Waits, AutoComplete
<1> QED
  BY <1>1, <1>2, <1>3, <1>4 DEF StepKinds

\* A step that gives nothing back releases no order.
LEMMA HeldStays ==
    ASSUME TypeOK, ManualInv, ManualInv', NEW o \in Orders, OneOrder(o),
           returned'[o] = returned[o], ecom[o] # "none" \/ ecom'[o] = "none"
    PROVE  Held(o)' = Held(o)
BY DEF TypeOK, OneOrder, Held, Dead, Sold, EcomStatus

\* Each step is a step of Reservation or leaves the shelf and the holds alone.
LEMMA StepOnShelf ==
    ASSUME TypeOK, StockInv, StockInv', GroupInv, SerialInv, ManualInv,
           ~PgEnabled, ~BiteshipReady, [Next /\ OneAtATime]_vars
    PROVE  [Shelf!Next]_(Shelf!holdVars)
<1> DEFINE hold == [o \in Orders |-> Held(o)]
<1>1. ManualInv' /\ \A o \in Orders : OneOrder(o)
  BY NextManualInv
<1>2. StepKinds
  BY NextKinds
<1>3. stock \in [Products -> Int] /\ returned \in [Orders -> Nat]
  BY DEF TypeOK
<1>4. \A s \in Slots : /\ req[s].orders \in SUBSET Orders
                       /\ SameGroup(req[s].orders)
  BY RequestFields DEF TypeOK, GroupInv, Aimed, Aim
<1>5. CASE UNCHANGED stockVars /\ \A s \in Slots : ~CommitCheckout(s)
  <2>1. \A o \in Orders : ecom[o] # "none" \/ ecom'[o] = "none"
    <3>1. \A s \in Slots : ~Starts(s) \/ ecom' = ecom
      BY DEF Starts, rowVars
    <3>2. CASE Calm
      BY <3>2 DEF Calm
    <3>3. CASE \E s \in Slots : Starts(s)
      BY <3>1, <3>3
    <3> QED
      BY <1>2, <1>5, <3>2, <3>3, CalmSteps DEF StepKinds
  <2>2. \A o \in Orders : Held(o)' = Held(o)
    BY <1>1, <1>5, <2>1, HeldStays DEF stockVars
  <2> QED
    BY <1>5, <2>2 DEF Shelf!holdVars, stockVars
<1>6. ASSUME NEW s \in Slots, CommitCheckout(s) PROVE Shelf!Next
  <2> DEFINE S == req[s].orders
  <2>1. /\ \A o \in S : ecom[o] = "none"
        /\ \A o \in Orders : ecom'[o] = IF o \in S THEN "pending_payment" ELSE ecom[o]
    BY <1>6, CheckoutWhole
  <2>2. Reservable(S) = S /\ stock' = [p \in Products |-> stock[p] - Units(S, p)]
    BY <1>6 DEF CommitCheckout, Reservable
  <2>3. S \in SUBSET Orders /\ SameGroup(S)
    BY <1>4
  <2> HIDE DEF S
  <2>4. \A o \in Orders : Held(o)' = IF o \in S THEN "held" ELSE Held(o)
    BY <2>1 DEF Held
  <2>5. \A o \in S : Held(o) = "free"
    BY <2>1 DEF Held
  <2>6. \A p \in Products : Shelf!Needs(S, p) = Units(S, p) /\ Units(S, p) \in Nat
    BY <2>3, NeedsUnits, UnitsNat
  <2>7. \A p \in Products : Units(S, p) <= stock[p]
    BY <1>3, <2>2, <2>6 DEF StockInv, StockNonNegative
  <2>8. stock' = [p \in Products |-> stock[p] - Shelf!Needs(S, p)]
    BY <2>2, <2>6
  <2>9. Shelf!Move(S, "free", "held")
    BY <2>3, <2>4, <2>5 DEF Shelf!Move
  <2>10. Shelf!Reserve(S)
    BY <2>6, <2>7, <2>8, <2>9 DEF Shelf!Reserve
  <2> QED
    BY <2>3, <2>10 DEF Shelf!Next
<1>7. ASSUME NEW s \in Slots, WriteStep(s), Restock(req[s].orders) PROVE Shelf!Next
  <2> DEFINE S == req[s].orders
  <2>1. S \in SUBSET Orders /\ SameGroup(S)
    BY <1>4
  <2>2. /\ stock' = [p \in Products |-> stock[p] + Units(S, p)]
        /\ \A o \in Orders : returned'[o] = IF o \in S THEN returned[o] + 1 ELSE returned[o]
    BY <1>7 DEF Restock
  <2>3. \A o \in Orders : o \notin S => ecom'[o] = ecom[o]
    BY <1>7, WriteFacts DEF GroupInv, SetStatus
  <2> HIDE DEF S
  <2>4. ASSUME NEW o \in S PROVE Held(o) = "held" /\ Held(o)' = "released"
    <3>1. o \in Orders /\ OneOrder(o) /\ returned'[o] = returned[o] + 1
      BY <1>1, <2>1, <2>2
    <3>2. returned[o] \in Nat
      BY <1>3, <3>1
    <3>3. ecom[o] \in EcomStatus \ Dead /\ ecom'[o] \in Dead
      BY <3>1, <3>2 DEF OneOrder
    <3> QED
      BY <3>3 DEF Held, Dead, EcomStatus
  <2>5. \A o \in Orders : Held(o)' = IF o \in S THEN "released" ELSE Held(o)
    BY <2>3, <2>4 DEF Held
  <2>6. Shelf!Move(S, "held", "released")
    BY <2>1, <2>4, <2>5 DEF Shelf!Move
  <2>7. \A p \in Products : Shelf!Needs(S, p) = Units(S, p)
    BY <2>1, NeedsUnits
  <2>8. stock' = [p \in Products |-> stock[p] + Shelf!Needs(S, p)]
    BY <2>2, <2>7
  <2>9. Shelf!Release(S)
    BY <2>6, <2>8 DEF Shelf!Release
  <2> QED
    BY <2>1, <2>9 DEF Shelf!Next
<1> QED
  BY <1>2, <1>5, <1>6, <1>7, ShelfMoves DEF ManualInv

\* Requests served one at a time, transfer and manual shipping: whatever the
\* statuses are called, the orders of one checkout get their goods together or
\* not at all, and each order's goods come back at most once, all of them, and
\* only if it had them.
THEOREM ImplementsReservation ==
    ASSUME ~PgEnabled, ~BiteshipReady
    PROVE  SerialSpec => KeepsReservations
<1> DEFINE J == StockInv /\ TypeOK /\ GroupInv /\ SerialInv /\ ManualInv
<1>1. Init => Shelf!Init
  BY DEF Init, Shelf!Init, Held
<1>2. J /\ J' /\ [Next /\ OneAtATime]_vars => [Shelf!Next]_(Shelf!holdVars)
  BY StepOnShelf
<1>3. SerialSpec => []StockInv
  <2>1. SerialSpec => Spec
    <3>1. [Next /\ OneAtATime]_vars => [Next]_vars
      OBVIOUS
    <3> QED
      BY <3>1, PTL DEF Spec, SerialSpec
  <2>2. IInv => StockInv
    BY DEF IInv
  <2> QED
    BY <2>1, <2>2, AlwaysIInv, PTL
<1> QED
  BY <1>1, <1>2, <1>3, AlwaysManual, PTL DEF SerialSpec, KeepsReservations, Shelf!Spec
=============================================================================
