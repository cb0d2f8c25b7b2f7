-------------------------- MODULE EcomBill_proofs --------------------------
(***************************************************************************)
(* What holds of storefront bills for any number of handlers, checkouts,   *)
(* vouchers and tiers: how far the count of a voucher can be off, and that *)
(* bulk prices are the ones announced, never dearer.                       *)
(***************************************************************************)
EXTENDS EcomBill, FiniteSetTheorems, NaturalsInduction, WellFoundedInduction, TLAPS

-----------------------------------------------------------------------------
(* Prices.                                                                 *)

\* A bulk price below the normal one makes the line no dearer.
LEMMA PacksNotDearer ==
    ASSUME NEW t, t.min \in Nat \ {0}, t.price \in Nat,
           NEW base \in Nat, NEW q \in Nat, t.price < base
    PROVE  InPacks(t, q, base) <= Plain(q, base)
<1> DEFINE packed == (q \div t.min) * t.min
           rest == q % t.min
<1>1. packed \in Nat /\ rest \in Nat
  OBVIOUS
<1>2. q = packed + rest
  OBVIOUS
<1>. HIDE DEF packed, rest
<1>3. packed * t.price <= packed * base
  BY <1>1
<1>4. packed * t.price \in Nat /\ rest * base \in Nat /\ base * q \in Nat
  BY <1>1
<1>5. packed * base + rest * base = base * q
  BY <1>1, <1>2
<1>6. packed * t.price + rest * base <= base * q
  BY <1>1, <1>3, <1>4, <1>5
<1>7. ASSUME NEW x \in Nat, NEW y \in Nat, x <= y
      PROVE  Round(x) <= Round(y)
  BY <1>7 DEF Round, Rupiah
<1>8. Round(packed * t.price + rest * base) <= Round(base * q)
  BY <1>4, <1>6, <1>7
<1> QED
  BY <1>8 DEF InPacks, Plain, packed, rest

LEMMA LineNotDearer ==
    ASSUME NEW S \in SUBSET Tiers, NEW base \in Nat, NEW q \in Nat, NEW time
    PROVE  LinePrice(S, q, base, time) <= Plain(q, base)
<1> DEFINE best == {t \in BestTiers(S, q, time) : Worthwhile(t, base)}
           pick == CHOOSE t \in best : TRUE
<1>1. CASE best = {}
  <2>1. base * q + 50 \in Int
    OBVIOUS
  <2>2. Plain(q, base) <= Plain(q, base)
    BY <2>1 DEF Plain, Round, Rupiah
  <2> QED
    BY <1>1, <2>2 DEF LinePrice
<1>2. CASE best # {}
  <2>1. pick \in best
    BY <1>2
  <2>2. pick \in Tiers /\ pick.price < base
    BY <2>1 DEF BestTiers, Fitting, Worthwhile
  <2>3. pick.min \in Nat \ {0} /\ pick.price \in Nat
    BY <2>2, BillAssumption
  <2>4. InPacks(pick, q, base) <= Plain(q, base)
    BY <2>2, <2>3, PacksNotDearer
  <2> QED
    BY <1>2, <2>4 DEF LinePrice
<1> QED
  BY <1>1, <1>2

-----------------------------------------------------------------------------
(* The inductive invariant.                                                *)

Rows(v) == [form : Forms[v] \union {NoCode}, used : Nat, deleted : BOOLEAN]

\* The handlers whose checkout has read v and not yet ended.
Holding(v) == {s \in Slots : \E b \in req[s].bills : b.code = v}

\* A checkout bills a shop once and a voucher once.
BillsOK(B) ==
    /\ \A b \in B : b.shop \in Shops
    /\ \A b, d \in B : (b.shop = d.shop \/ (b.code = d.code /\ b.code # NoCode)) => b = d

\* What a handler carries: a checkout not made yet, or a row whose count was
\* right when it was read.
ReqOK(r) ==
    /\ r.op \in {"idle", "edit", "checkout"}
    /\ r.op # "checkout" => r.bills = {}
    /\ BillsOK(r.bills)
    /\ r.op = "checkout" => r.c \in Checkouts \ done
    /\ r.op = "edit" => /\ r.v \in Edited
                        /\ r.row \in Rows(r.v)
                        /\ r.row.form # NoCode
                        /\ r.row.used <= Cardinality(takers[r.v])

\* A voucher nobody edits counts exactly; those who hold it read it before its
\* last use.
UneditedOK(v) ==
    /\ ~voucher[v].deleted
    /\ voucher[v].used = Cardinality(takers[v])
    /\ voucher[v] # NoRow /\ voucher[v].form.limit > 0 =>
         Cardinality(takers[v]) + Cardinality(Holding(v))
            <= voucher[v].form.limit + Cardinality(Slots) - 1

VoucherOK(v) ==
    /\ voucher[v] \in Rows(v)
    /\ takers[v] \subseteq done \X Shops
    /\ IsFiniteSet(takers[v])
    /\ \A x, y \in takers[v] : x[1] = y[1] => x = y
    /\ voucher[v].used <= Cardinality(takers[v])
    /\ voucher[v] = NoRow => takers[v] = {} /\ Holding(v) = {}
    /\ voucher[v].form = NoCode => voucher[v] = NoRow
    /\ v \notin Edited => UneditedOK(v)

IInv ==
    /\ now \in 0..LastTime
    /\ tiers \subseteq Tiers
    /\ done \subseteq Checkouts
    /\ voucher = [v \in Vouchers |-> voucher[v]]
    /\ takers = [v \in Vouchers |-> takers[v]]
    /\ req = [s \in Slots |-> req[s]]
    /\ \A v \in Vouchers : VoucherOK(v)
    /\ \A s \in Slots : ReqOK(req[s])
    /\ \A s, t \in Slots :
         s # t /\ req[s].op = "checkout" /\ req[t].op = "checkout" => req[s].c # req[t].c

-----------------------------------------------------------------------------
(* Lemmas about the steps.                                                 *)

\* A checkout uses a voucher once or not at all.
LEMMA OneUse ==
    ASSUME NEW B, BillsOK(B), NEW v \in Vouchers
    PROVE  Uses(B, v) = IF \E b \in B : b.code = v THEN 1 ELSE 0
<1> DEFINE with == {b \in B : b.code = v}
<1>1. CASE \E b \in B : b.code = v
  <2>1. PICK b \in B : b.code = v
    BY <1>1
  <2>2. v # NoCode
    BY BillAssumption
  <2>3. with = {b}
    BY <2>1, <2>2 DEF BillsOK
  <2> QED
    BY <1>1, <2>3, FS_Singleton DEF Uses
<1>2. CASE ~ \E b \in B : b.code = v
  <2>1. with = {}
    BY <1>2
  <2> QED
    BY <1>2, <2>1, FS_EmptySet DEF Uses
<1> QED
  BY <1>1, <1>2

\* Filling a slot with a request, or emptying it.
LEMMA SlotSet ==
    ASSUME req = [s \in Slots |-> req[s]],
           NEW s \in Slots, NEW r, req' = [req EXCEPT ![s] = r]
    PROVE  /\ req' = [t \in Slots |-> req'[t]]
           /\ \A t \in Slots : req'[t] = IF t = s THEN r ELSE req[t]
           /\ \A v : Holding(v)' = IF \E b \in r.bills : b.code = v
                                   THEN Holding(v) \union {s} ELSE Holding(v) \ {s}
<1>1. /\ req' = [t \in Slots |-> req'[t]]
      /\ \A t \in Slots : req'[t] = IF t = s THEN r ELSE req[t]
  OBVIOUS
<1> QED
  BY <1>1 DEF Holding

\* An empty slot is good.
LEMMA IdleOK == ReqOK(Idle) /\ Idle.op = "idle" /\ Idle.bills = {}
BY DEF ReqOK, BillsOK, Idle

\* The holders are finitely many.
LEMMA HoldingFinite ==
    /\ \A v : IsFiniteSet(Holding(v)) /\ Cardinality(Holding(v)) \in Nat
    /\ \A v : Cardinality(Holding(v)) <= Cardinality(Slots)
    /\ Cardinality(Slots) \in Nat
<1>1. \A v : Holding(v) \subseteq Slots
  BY DEF Holding
<1>2. IsFiniteSet(Slots) /\ Cardinality(Slots) \in Nat
  BY BillAssumption, FS_CardinalityType
<1>3. \A v : IsFiniteSet(Holding(v)) /\ Cardinality(Holding(v)) <= Cardinality(Slots)
  BY <1>1, <1>2, FS_Subset
<1> QED
  BY <1>2, <1>3, FS_CardinalityType

\* A code without a row is typed like one with a row.
LEMMA NoRowTyped == \A v : NoRow \in Rows(v) /\ NoRow.form = NoCode
BY DEF NoRow, Rows

-----------------------------------------------------------------------------
(* The admin's steps.                                                      *)

LEMMA QuietKeeps ==
    ASSUME IInv, now' \in 0..LastTime, tiers' \subseteq Tiers,
           UNCHANGED <<voucher, takers, done, req>>
    PROVE  IInv'
<1>1. \A v : Holding(v)' = Holding(v)
  BY DEF Holding
<1>2. \A v \in Vouchers : VoucherOK(v)'
  BY <1>1 DEF IInv, VoucherOK, UneditedOK, Rows
<1>3. \A s \in Slots : ReqOK(req[s])'
  BY DEF IInv, ReqOK, Rows
<1> QED
  BY <1>2, <1>3 DEF IInv

LEMMA CreateVoucherKeeps ==
    ASSUME IInv, NEW v \in Vouchers, NEW form \in Forms[v], CreateVoucher(v, form)
    PROVE  IInv'
<1> DEFINE row == [form |-> form, used |-> 0, deleted |-> FALSE]
<1>1. /\ voucher[v] = NoRow
      /\ voucher' = [voucher EXCEPT ![v] = row]
      /\ UNCHANGED <<now, tiers, takers, done, req>>
  BY DEF CreateVoucher
<1>2. /\ voucher' = [w \in Vouchers |-> voucher'[w]]
      /\ \A w \in Vouchers : voucher'[w] = IF w = v THEN row ELSE voucher[w]
  BY <1>1 DEF IInv
<1>3. \A w : Holding(w)' = Holding(w)
  BY <1>1 DEF Holding
<1>4. \A w \in Vouchers : VoucherOK(w)'
  <2> SUFFICES ASSUME NEW w \in Vouchers
               PROVE  VoucherOK(w)'
    OBVIOUS
  <2>0. VoucherOK(w)
    BY DEF IInv
  <2>1. CASE w # v
    BY <1>1, <1>2, <1>3, <2>0, <2>1 DEF VoucherOK, UneditedOK, Rows
  <2>2. CASE w = v
    <3>1. takers[v] = {} /\ Holding(v) = {}
      BY <1>1, <2>0, <2>2 DEF VoucherOK
    <3>2. Cardinality(takers[v]) = 0 /\ Cardinality(Holding(v)) = 0
      BY <3>1, FS_EmptySet
    <3>3. row \in Rows(v) /\ row # NoRow /\ form # NoCode /\ form.limit \in Nat
      BY BillAssumption DEF Rows, NoRow
    <3>4. voucher'[v] = row /\ takers'[v] = {} /\ Holding(v)' = {}
      BY <1>1, <1>2, <1>3, <3>1
    <3>5. UneditedOK(v)'
      BY HoldingFinite, <3>2, <3>3, <3>4, <3>1 DEF UneditedOK
    <3> QED
      BY <2>2, <3>2, <3>3, <3>4, <3>5, <3>1, FS_EmptySet DEF VoucherOK, Rows
  <2> QED
    BY <2>1, <2>2
<1>5. \A s \in Slots : ReqOK(req[s])'
  BY <1>1 DEF IInv, ReqOK, Rows
<1> QED
  BY <1>1, <1>2, <1>4, <1>5 DEF IInv

LEMMA DeleteVoucherKeeps ==
    ASSUME IInv, NEW v \in Vouchers, DeleteVoucher(v)
    PROVE  IInv'
<1> DEFINE row == [voucher[v] EXCEPT !.deleted = TRUE]
<1>1. /\ v \in Edited
      /\ voucher' = [voucher EXCEPT ![v] = row]
      /\ UNCHANGED <<now, tiers, takers, done, req>>
  BY DEF DeleteVoucher, IInv
<1>0. voucher[v].form # NoCode
  BY DEF DeleteVoucher, Live
<1>2. /\ voucher' = [w \in Vouchers |-> voucher'[w]]
      /\ \A w \in Vouchers : voucher'[w] = IF w = v THEN row ELSE voucher[w]
  BY <1>1 DEF IInv
<1>3. \A w : Holding(w)' = Holding(w)
  BY <1>1 DEF Holding
<1>4. \A w \in Vouchers : VoucherOK(w)'
  <2> SUFFICES ASSUME NEW w \in Vouchers
               PROVE  VoucherOK(w)'
    OBVIOUS
  <2>0. VoucherOK(w)
    BY DEF IInv
  <2>1. CASE w # v
    BY <1>1, <1>2, <1>3, <2>0, <2>1 DEF VoucherOK, UneditedOK, Rows
  <2>2. CASE w = v
    <3>1. /\ row \in Rows(v) /\ row.used = voucher[v].used
          /\ row # NoRow /\ row.form # NoCode
      BY <1>0, <2>0, <2>2 DEF VoucherOK, Rows, NoRow
    <3> QED
      BY <1>1, <1>2, <1>3, <2>0, <2>2, <3>1 DEF VoucherOK, Rows
  <2> QED
    BY <2>1, <2>2
<1>5. \A s \in Slots : ReqOK(req[s])'
  BY <1>1 DEF IInv, ReqOK, Rows
<1> QED
  BY <1>1, <1>2, <1>4, <1>5 DEF IInv

\* Putting anything but a checkout into a slot.
LEMMA SlotKeeps ==
    ASSUME IInv, NEW s \in Slots, NEW r, req' = [req EXCEPT ![s] = r],
           ReqOK(r), r.op # "checkout",
           UNCHANGED <<now, tiers, voucher, takers, done>>
    PROVE  IInv'
<1>1. /\ req' = [t \in Slots |-> req'[t]]
      /\ \A t \in Slots : req'[t] = IF t = s THEN r ELSE req[t]
      /\ \A v : Holding(v)' = IF \E b \in r.bills : b.code = v
                              THEN Holding(v) \union {s} ELSE Holding(v) \ {s}
  BY SlotSet DEF IInv
<1>2. r.bills = {}
  BY DEF ReqOK
<1>3. \A v : Holding(v)' = Holding(v) \ {s}
  BY <1>1, <1>2
<1>4. \A v : /\ Cardinality(Holding(v)') \in Nat
             /\ Cardinality(Holding(v)') <= Cardinality(Holding(v))
             /\ Holding(v) = {} => Holding(v)' = {}
  <2> SUFFICES ASSUME NEW v
               PROVE  /\ Cardinality(Holding(v)') \in Nat
                      /\ Cardinality(Holding(v)') <= Cardinality(Holding(v))
                      /\ Holding(v) = {} => Holding(v)' = {}
    OBVIOUS
  <2>1. IsFiniteSet(Holding(v))
    BY HoldingFinite
  <2>2. Holding(v)' \in SUBSET Holding(v)
    BY <1>3
  <2>3. IsFiniteSet(Holding(v)') /\ Cardinality(Holding(v)') <= Cardinality(Holding(v))
    BY <2>1, <2>2, FS_Subset
  <2> QED
    BY <2>2, <2>3, FS_CardinalityType
<1>5. \A v \in Vouchers : VoucherOK(v)'
  <2> SUFFICES ASSUME NEW v \in Vouchers
               PROVE  VoucherOK(v)'
    OBVIOUS
  <2>1. VoucherOK(v)
    BY DEF IInv
  <2>2. v \notin Edited => UneditedOK(v)'
    <3> SUFFICES ASSUME v \notin Edited, voucher[v] # NoRow, voucher[v].form.limit > 0
                 PROVE  Cardinality(takers[v]) + Cardinality(Holding(v)')
                           <= voucher[v].form.limit + Cardinality(Slots) - 1
      BY <2>1 DEF VoucherOK, UneditedOK
    <3>1. Cardinality(takers[v]) + Cardinality(Holding(v))
             <= voucher[v].form.limit + Cardinality(Slots) - 1
      BY <2>1 DEF VoucherOK, UneditedOK
    <3>2. Cardinality(takers[v]) \in Nat
      BY <2>1, FS_CardinalityType DEF VoucherOK
    <3>3. voucher[v].form.limit \in Nat
      BY <2>1, BillAssumption DEF VoucherOK, Rows
    <3> QED
      BY <1>4, <3>1, <3>2, <3>3, HoldingFinite
  <2> QED
    BY <1>4, <2>1, <2>2 DEF VoucherOK, Rows
<1>6. \A t \in Slots : ReqOK(req[t])'
  BY <1>1 DEF IInv, ReqOK, Rows
<1>7. \A t, u \in Slots :
         t # u /\ req'[t].op = "checkout" /\ req'[u].op = "checkout" => req'[t].c # req'[u].c
  BY <1>1 DEF IInv
<1> QED
  BY <1>1, <1>5, <1>6, <1>7 DEF IInv

LEMMA BeginEditKeeps ==
    ASSUME IInv, NEW s \in Slots, NEW v \in Vouchers, NEW form \in Forms[v],
           BeginEdit(s, v, form)
    PROVE  IInv'
<1> DEFINE row == [voucher[v] EXCEPT !.form = form]
           r == [Idle EXCEPT !.op = "edit", !.v = v, !.row = row]
<1>1. /\ v \in Edited
      /\ req' = [req EXCEPT ![s] = r]
      /\ UNCHANGED <<now, tiers, voucher, takers, done>>
  BY DEF BeginEdit
<1>2. r.op = "edit" /\ r.v = v /\ r.row = row /\ r.bills = {}
  BY DEF Idle
<1>3. voucher[v] \in Rows(v) /\ voucher[v].used <= Cardinality(takers[v])
  BY DEF IInv, VoucherOK
<1>4. row \in Rows(v) /\ row.form # NoCode /\ row.used = voucher[v].used
  BY <1>3, BillAssumption DEF Rows
<1>5. ReqOK(r)
  BY <1>1, <1>2, <1>3, <1>4 DEF ReqOK, BillsOK
<1>. HIDE DEF r
<1> QED
  BY <1>1, <1>2, <1>5, SlotKeeps

LEMMA AbandonKeeps ==
    ASSUME IInv, NEW s \in Slots, Abandon(s)
    PROVE  IInv'
<1>1. req' = [req EXCEPT ![s] = Idle] /\ UNCHANGED <<now, tiers, voucher, takers, done>>
  BY DEF Abandon, RolledBack
<1> QED
  BY <1>1, IdleOK, SlotKeeps

LEMMA CommitEditKeeps ==
    ASSUME IInv, NEW s \in Slots, CommitEdit(s)
    PROVE  IInv'
<1> DEFINE e == req[s].v
           row == req[s].row
<1>1. /\ req[s].op = "edit"
      /\ voucher' = [voucher EXCEPT ![e] = row]
      /\ req' = [req EXCEPT ![s] = Idle]
      /\ UNCHANGED <<now, tiers, takers, done>>
  BY DEF CommitEdit
<1>2. ReqOK(req[s])
  BY DEF IInv
<1>3. /\ e \in Edited /\ e \in Vouchers
      /\ row \in Rows(e) /\ row.form # NoCode /\ row.used <= Cardinality(takers[e])
      /\ req[s].bills = {}
  BY <1>1, <1>2, BillAssumption DEF ReqOK
<1>4. /\ voucher' = [w \in Vouchers |-> voucher'[w]]
      /\ \A w \in Vouchers : voucher'[w] = IF w = e THEN row ELSE voucher[w]
  BY <1>1 DEF IInv
<1>5. /\ req' = [t \in Slots |-> req'[t]]
      /\ \A t \in Slots : req'[t] = IF t = s THEN Idle ELSE req[t]
  BY <1>1, SlotSet DEF IInv
<1>6. \A w : Holding(w)' = Holding(w)
  BY <1>3, <1>5, IdleOK DEF Holding
<1>7. \A w \in Vouchers : VoucherOK(w)'
  <2> SUFFICES ASSUME NEW w \in Vouchers
               PROVE  VoucherOK(w)'
    OBVIOUS
  <2>0. VoucherOK(w)
    BY DEF IInv
  <2>1. CASE w # e
    BY <1>1, <1>4, <1>6, <2>0, <2>1 DEF VoucherOK, UneditedOK, Rows
  <2>2. CASE w = e
    <3>1. row # NoRow
      BY <1>3, NoRowTyped
    <3> QED
      BY <1>1, <1>3, <1>4, <1>6, <2>0, <2>2, <3>1 DEF VoucherOK, Rows
  <2> QED
    BY <2>1, <2>2
<1>8. \A t \in Slots : ReqOK(req[t])'
  BY <1>1, <1>5, IdleOK DEF IInv, ReqOK, Rows
<1>9. \A t, u \in Slots :
         t # u /\ req'[t].op = "checkout" /\ req'[u].op = "checkout" => req'[t].c # req'[u].c
  BY <1>5, IdleOK DEF IInv
<1> QED
  BY <1>1, <1>4, <1>5, <1>7, <1>8, <1>9 DEF IInv

-----------------------------------------------------------------------------
(* The customer's steps.                                                   *)

\* The bills of one checkout: one for a shop, at most one for a voucher,
\* because a voucher belongs to a shop.
LEMMA BillsAreOK ==
    ASSUME NEW cart \in Carts, NEW codes \in [DOMAIN cart -> Vouchers \union {NoCode}],
           \A shop \in DOMAIN cart :
              codes[shop] # NoCode => voucher[codes[shop]].form.shop = shop
    PROVE  BillsOK({Bill(shop, cart[shop], codes[shop]) : shop \in DOMAIN cart})
<1>1. \A shop \in DOMAIN cart : /\ Bill(shop, cart[shop], codes[shop]).shop = shop
                                /\ Bill(shop, cart[shop], codes[shop]).code = codes[shop]
  BY DEF Bill
<1>2. DOMAIN cart \subseteq Shops
  BY BillAssumption
<1> QED
  BY <1>1, <1>2 DEF BillsOK

LEMMA BeginCheckoutKeeps ==
    ASSUME IInv, NEW s \in Slots, NEW c \in Checkouts, NEW cart \in Carts,
           NEW codes \in [DOMAIN cart -> Vouchers \union {NoCode}],
           BeginCheckout(s, c, cart, codes)
    PROVE  IInv'
<1> DEFINE B == {Bill(shop, cart[shop], codes[shop]) : shop \in DOMAIN cart}
           r == [Idle EXCEPT !.op = "checkout", !.c = c, !.bills = B]
<1>1. /\ req[s] = Idle
      /\ c \notin done
      /\ \A t \in Slots : req[t].c # c
      /\ req' = [req EXCEPT ![s] = r]
      /\ UNCHANGED <<now, tiers, voucher, takers, done>>
  BY DEF BeginCheckout
<1>2. \A shop \in DOMAIN cart : codes[shop] # NoCode =>
         /\ Live(voucher[codes[shop]])
         /\ voucher[codes[shop]].form.shop = shop
         /\ BelowLimit(voucher[codes[shop]])
  BY DEF BeginCheckout, Usable, cocokTempat
<1>3. BillsOK(B)
  BY <1>2, BillsAreOK
<1>4. \A v \in Vouchers : (\E b \in B : b.code = v) =>
         Live(voucher[v]) /\ BelowLimit(voucher[v])
  <2> SUFFICES ASSUME NEW v \in Vouchers, NEW shop \in DOMAIN cart,
                      Bill(shop, cart[shop], codes[shop]).code = v
               PROVE  Live(voucher[v]) /\ BelowLimit(voucher[v])
    OBVIOUS
  <2>1. codes[shop] = v
    BY DEF Bill
  <2> QED
    BY <1>2, <2>1, BillAssumption
<1>5. r.op = "checkout" /\ r.c = c /\ r.bills = B
  BY DEF Idle
<1>. HIDE DEF B, r
<1>6. /\ req' = [t \in Slots |-> req'[t]]
      /\ \A t \in Slots : req'[t] = IF t = s THEN r ELSE req[t]
      /\ \A v : Holding(v)' = IF \E b \in B : b.code = v
                              THEN Holding(v) \union {s} ELSE Holding(v) \ {s}
  BY <1>1, <1>5, SlotSet DEF IInv
<1>7. \A v : s \notin Holding(v)
  BY <1>1, IdleOK DEF Holding
<1>8. \A v \in Vouchers : VoucherOK(v)'
  <2> SUFFICES ASSUME NEW v \in Vouchers
               PROVE  VoucherOK(v)'
    OBVIOUS
  <2>0. VoucherOK(v)
    BY DEF IInv
  <2>1. CASE \E b \in B : b.code = v
    <3>1. voucher[v].form # NoCode /\ BelowLimit(voucher[v])
      BY <1>4, <2>1 DEF Live
    <3>2. v \notin Edited => UneditedOK(v)'
      <4> SUFFICES ASSUME v \notin Edited, voucher[v].form.limit > 0
                   PROVE  Cardinality(takers[v]) + Cardinality(Holding(v)')
                             <= voucher[v].form.limit + Cardinality(Slots) - 1
        BY <1>1, <2>0 DEF VoucherOK, UneditedOK
      <4>1. Cardinality(takers[v]) < voucher[v].form.limit
        BY <2>0, <3>1 DEF VoucherOK, UneditedOK, BelowLimit
      <4>2. Cardinality(takers[v]) \in Nat /\ voucher[v].form.limit \in Nat
        BY <2>0, <3>1, BillAssumption, FS_CardinalityType DEF VoucherOK, Rows
      <4>3. Holding(v)' \in SUBSET Slots
        BY <1>6 DEF Holding
      <4>4. IsFiniteSet(Holding(v)') /\ Cardinality(Holding(v)') <= Cardinality(Slots)
        BY <4>3, BillAssumption, FS_Subset
      <4>5. Cardinality(Holding(v)') \in Nat
        BY <4>4, FS_CardinalityType
      <4> QED
        BY <4>1, <4>2, <4>4, <4>5, HoldingFinite
    <3>3. voucher[v] # NoRow
      BY <3>1, NoRowTyped
    <3> QED
      BY <1>1, <2>0, <3>2, <3>3 DEF VoucherOK, Rows
  <2>2. CASE ~ \E b \in B : b.code = v
    <3>1. Holding(v)' = Holding(v)
      BY <1>6, <1>7, <2>2
    <3> QED
      BY <1>1, <2>0, <3>1 DEF VoucherOK, UneditedOK, Rows
  <2> QED
    BY <2>1, <2>2
<1>9. \A t \in Slots : ReqOK(req[t])'
  <2>1. \A t \in Slots : t # s => ReqOK(req[t])'
    BY <1>1, <1>6 DEF IInv, ReqOK, Rows
  <2>2. ReqOK(req[s])'
    <3>1. req'[s].op = "checkout" /\ req'[s].c = c /\ req'[s].bills = B
      BY <1>5, <1>6
    <3>2. BillsOK(req'[s].bills)
      BY <1>3, <3>1
    <3> QED
      BY <1>1, <3>1, <3>2 DEF ReqOK
  <2> QED
    BY <2>1, <2>2
<1>10. \A t, u \in Slots :
         t # u /\ req'[t].op = "checkout" /\ req'[u].op = "checkout" => req'[t].c # req'[u].c
  BY <1>1, <1>5, <1>6 DEF IInv
<1> QED
  BY <1>1, <1>6, <1>8, <1>9, <1>10 DEF IInv

\* What the commit of a checkout does to one voucher.
LEMMA VoucherCounted ==
    ASSUME IInv, NEW s \in Slots, CommitCheckout(s), NEW v \in Vouchers,
           Holding(v)' = Holding(v) \ {s}
    PROVE  VoucherOK(v)' /\ Cardinality(takers[v]) <= Cardinality(takers'[v])
<1> DEFINE B == req[s].bills
           c == req[s].c
           new == {<<c, b.shop>> : b \in {x \in B : x.code = v}}
<1>1. /\ req[s].op = "checkout"
      /\ voucher'[v] = IF voucher[v].deleted THEN voucher[v]
                       ELSE [voucher[v] EXCEPT !.used = @ + Uses(B, v)]
      /\ takers'[v] = takers[v] \union new
      /\ done' = done \union {c}
  BY DEF CommitCheckout, Counted
<1>2. BillsOK(B) /\ c \in Checkouts \ done
  BY <1>1 DEF IInv, ReqOK
<1>3. /\ voucher[v] \in Rows(v)
      /\ takers[v] \subseteq done \X Shops
      /\ IsFiniteSet(takers[v])
      /\ \A x, y \in takers[v] : x[1] = y[1] => x = y
      /\ voucher[v].used <= Cardinality(takers[v])
      /\ voucher[v] = NoRow => takers[v] = {} /\ Holding(v) = {}
      /\ voucher[v].form = NoCode => voucher[v] = NoRow
      /\ v \notin Edited => UneditedOK(v)
  BY DEF IInv, VoucherOK
<1>4. voucher[v].used \in Nat /\ Cardinality(takers[v]) \in Nat
  BY <1>3, FS_CardinalityType DEF Rows
<1>5. CASE \E b \in B : b.code = v
  <2>1. PICK b \in B : b.code = v
    BY <1>5
  <2>2. {x \in B : x.code = v} = {b}
    BY <1>2, <2>1, BillAssumption DEF BillsOK
  <2>3. new = {<<c, b.shop>>}
    BY <2>2
  <2>4. Uses(B, v) = 1
    BY <1>2, <1>5, OneUse
  <2>5. <<c, b.shop>> \notin takers[v]
    BY <1>2, <1>3
  <2>6. /\ IsFiniteSet(takers'[v])
        /\ Cardinality(takers'[v]) = Cardinality(takers[v]) + 1
    <3>1. IsFiniteSet(takers[v])
      BY <1>3
    <3>2. takers'[v] = takers[v] \union {<<c, b.shop>>}
      BY <1>1, <2>3
    <3>3. ASSUME NEW T, IsFiniteSet(T), NEW x, x \notin T
          PROVE  /\ IsFiniteSet(T \union {x})
                 /\ Cardinality(T \union {x}) = Cardinality(T) + 1
      BY <3>3, FS_AddElement
    <3> QED
      BY <2>5, <3>1, <3>2, <3>3
  <2>7. s \in Holding(v)
    BY <1>5 DEF Holding
  <2>8. Cardinality(Holding(v)') = Cardinality(Holding(v)) - 1
    BY <2>7, HoldingFinite, FS_RemoveElement
  <2>9. voucher[v] # NoRow /\ voucher[v].form # NoCode
    BY <1>3, <2>7
  <2>10. /\ voucher'[v] \in Rows(v)
         /\ voucher'[v].form = voucher[v].form
         /\ voucher'[v].deleted = voucher[v].deleted
         /\ voucher'[v].used =
              IF voucher[v].deleted THEN voucher[v].used ELSE voucher[v].used + 1
    BY <1>1, <1>3, <1>4, <2>4 DEF Rows
  <2>11. voucher'[v] # NoRow
    BY <2>9, <2>10, NoRowTyped
  <2>12. voucher'[v].used <= Cardinality(takers'[v])
    BY <1>3, <1>4, <2>6, <2>10
  <2>13. takers'[v] \subseteq done' \X Shops
    BY <1>1, <1>2, <1>3, <2>1, <2>3 DEF BillsOK
  <2>14. \A x, y \in takers'[v] : x[1] = y[1] => x = y
    BY <1>1, <1>2, <1>3, <2>3
  <2>15. v \notin Edited => UneditedOK(v)'
    <3> SUFFICES ASSUME v \notin Edited
                 PROVE  UneditedOK(v)'
      OBVIOUS
    <3>1. voucher'[v].used = Cardinality(takers'[v]) /\ ~voucher'[v].deleted
      BY <1>3, <1>4, <2>6, <2>10 DEF UneditedOK
    <3>2. ASSUME voucher[v].form.limit > 0
          PROVE  Cardinality(takers'[v]) + Cardinality(Holding(v)')
                    <= voucher[v].form.limit + Cardinality(Slots) - 1
      <4>1. Cardinality(takers[v]) + Cardinality(Holding(v))
               <= voucher[v].form.limit + Cardinality(Slots) - 1
        BY <1>3, <2>9, <3>2 DEF UneditedOK
      <4>2. voucher[v].form.limit \in Nat
        BY <1>3, <2>9, BillAssumption DEF Rows
      <4> QED
        BY <1>4, <2>6, <2>8, <4>1, <4>2, HoldingFinite
    <3> QED
      BY <2>10, <3>1, <3>2 DEF UneditedOK
  <2>16. VoucherOK(v)'
    BY <2>6, <2>9, <2>10, <2>11, <2>12, <2>13, <2>14, <2>15 DEF VoucherOK, Rows
  <2> QED
    BY <1>4, <2>6, <2>16
<1>6. CASE ~ \E b \in B : b.code = v
  <2>1. new = {}
    BY <1>6
  <2>2. Uses(B, v) = 0
    BY <1>2, <1>6, OneUse
  <2>3. takers'[v] = takers[v]
    BY <1>1, <2>1
  <2>4. voucher'[v] = voucher[v]
    BY <1>1, <1>3, <1>4, <2>2 DEF Rows
  <2>5. Holding(v)' = Holding(v)
    BY <1>6 DEF Holding
  <2>6. takers'[v] \subseteq done' \X Shops
    BY <1>1, <1>3, <2>3
  <2>7. v \notin Edited => UneditedOK(v)'
    BY <1>3, <2>3, <2>4, <2>5 DEF UneditedOK
  <2>8. VoucherOK(v)'
    BY <1>3, <2>3, <2>4, <2>5, <2>6, <2>7 DEF VoucherOK, Rows
  <2> QED
    BY <1>4, <2>3, <2>8
<1> QED
  BY <1>5, <1>6

LEMMA CommitCheckoutKeeps ==
    ASSUME IInv, NEW s \in Slots, CommitCheckout(s)
    PROVE  IInv'
<1>1. /\ req[s].op = "checkout"
      /\ req' = [req EXCEPT ![s] = Idle]
      /\ done' = done \union {req[s].c}
      /\ voucher' = [v \in Vouchers |-> voucher'[v]]
      /\ takers' = [v \in Vouchers |-> takers'[v]]
      /\ UNCHANGED <<now, tiers>>
  BY DEF CommitCheckout, Counted
<1>2. req[s].c \in Checkouts
  BY <1>1 DEF IInv, ReqOK
<1>3. /\ req' = [t \in Slots |-> req'[t]]
      /\ \A t \in Slots : req'[t] = IF t = s THEN Idle ELSE req[t]
      /\ \A v : Holding(v)' = IF \E b \in Idle.bills : b.code = v
                              THEN Holding(v) \union {s} ELSE Holding(v) \ {s}
  BY <1>1, SlotSet DEF IInv
<1>4. \A v : Holding(v)' = Holding(v) \ {s}
  BY <1>3, IdleOK
<1>5. \A v \in Vouchers : VoucherOK(v)' /\ Cardinality(takers[v]) <= Cardinality(takers'[v])
  BY <1>4, VoucherCounted
<1>6. \A t \in Slots : ReqOK(req[t])'
  <2> SUFFICES ASSUME NEW t \in Slots
               PROVE  ReqOK(req[t])'
    OBVIOUS
  <2>1. CASE t = s
    BY <1>3, <2>1, IdleOK DEF ReqOK
  <2>2. CASE t # s
    <3>1. req'[t] = req[t] /\ ReqOK(req[t])
      BY <1>3, <2>2 DEF IInv
    <3>2. req[t].op = "checkout" => req[t].c \in Checkouts \ done'
      BY <1>1, <2>2, <3>1 DEF IInv, ReqOK
    <3>3. ASSUME req[t].op = "edit"
          PROVE  req[t].row.used <= Cardinality(takers'[req[t].v])
      <4> DEFINE v == req[t].v
      <4>1. v \in Vouchers /\ req[t].row.used \in Nat
        BY <3>1, <3>3, BillAssumption DEF ReqOK, Rows
      <4>2. req[t].row.used <= Cardinality(takers[v])
        BY <3>1, <3>3 DEF ReqOK
      <4>3. Cardinality(takers[v]) \in Nat /\ Cardinality(takers'[v]) \in Nat
        BY <1>5, <4>1, FS_CardinalityType DEF IInv, VoucherOK
      <4> QED
        BY <1>5, <4>1, <4>2, <4>3
    <3> QED
      BY <3>1, <3>2, <3>3 DEF ReqOK, Rows
  <2> QED
    BY <2>1, <2>2
<1>7. \A t, u \in Slots :
         t # u /\ req'[t].op = "checkout" /\ req'[u].op = "checkout" => req'[t].c # req'[u].c
  BY <1>3, IdleOK DEF IInv
<1> QED
  BY <1>1, <1>2, <1>3, <1>5, <1>6, <1>7 DEF IInv

-----------------------------------------------------------------------------
(* The invariant, and what follows from it.                                *)

LEMMA InitIInv == Init => IInv
<1> SUFFICES ASSUME Init
             PROVE  IInv
  OBVIOUS
<1>1. \A v : Holding(v) = {}
  BY IdleOK DEF Init, Holding
<1>2. \A v \in Vouchers : voucher[v] = NoRow /\ takers[v] = {}
  BY DEF Init
<1>3. \A v \in Vouchers : VoucherOK(v)
  <2>1. NoRow.used = 0 /\ ~NoRow.deleted
    BY DEF NoRow
  <2> QED
    BY <1>1, <1>2, <2>1, NoRowTyped, FS_EmptySet DEF VoucherOK, UneditedOK
<1>4. \A s \in Slots : ReqOK(req[s])
  BY IdleOK DEF Init
<1>5. 0 \in 0..LastTime
  BY BillAssumption
<1> QED
  BY <1>3, <1>4, <1>5, IdleOK DEF Init, IInv

LEMMA NextIInv == IInv /\ [Next]_vars => IInv'
<1> SUFFICES ASSUME IInv, [Next]_vars
             PROVE  IInv'
  OBVIOUS
<1>1. CASE UNCHANGED vars
  BY <1>1, QuietKeeps DEF vars, IInv
<1>2. CASE Tick
  <2>1. now + 1 \in 0..LastTime
    BY <1>2, BillAssumption DEF Tick, IInv
  <2> QED
    BY <1>2, <2>1, QuietKeeps DEF Tick, IInv
<1>3. ASSUME NEW t \in Tiers, SaveTier(t) \/ DeleteTier(t)
      PROVE  IInv'
  BY <1>3, QuietKeeps DEF SaveTier, DeleteTier, IInv
<1>4. ASSUME NEW v \in Vouchers, NEW form \in Forms[v], CreateVoucher(v, form)
      PROVE  IInv'
  BY <1>4, CreateVoucherKeeps
<1>5. ASSUME NEW v \in Vouchers, DeleteVoucher(v)
      PROVE  IInv'
  BY <1>5, DeleteVoucherKeeps
<1>6. ASSUME NEW s \in Slots, NEW v \in Vouchers, NEW form \in Forms[v], BeginEdit(s, v, form)
      PROVE  IInv'
  BY <1>6, BeginEditKeeps
<1>7. ASSUME NEW s \in Slots, CommitEdit(s) \/ CommitCheckout(s) \/ Abandon(s)
      PROVE  IInv'
  BY <1>7, CommitEditKeeps, CommitCheckoutKeeps, AbandonKeeps
<1>8. ASSUME NEW s \in Slots, NEW c \in Checkouts, NEW cart \in Carts,
             NEW codes \in [DOMAIN cart -> Vouchers \union {NoCode}],
             BeginCheckout(s, c, cart, codes)
      PROVE  IInv'
  BY <1>8, BeginCheckoutKeeps
<1> QED
  BY <1>1, <1>2, <1>3, <1>4, <1>5, <1>6, <1>7, <1>8 DEF Next, AdminStep, CustomerStep

LEMMA AlwaysIInv == Spec => []IInv
BY InitIInv, NextIInv, PTL DEF Spec

-----------------------------------------------------------------------------
(* Announced prices.                                                       *)

\* A quotient is the number of packs, whatever the rest.
LEMMA DivIs ==
    ASSUME NEW n \in Nat, NEW m \in Nat \ {0}, NEW k \in Nat, NEW r \in 0..m - 1, n = k * m + r
    PROVE  n \div m = k /\ n % m = r
<1> DEFINE d == n \div m
           e == n % m
<1>1. d \in Nat /\ e \in 0..m - 1 /\ n = d * m + e
  OBVIOUS
<1> HIDE DEF d, e
<1>2. CASE d > k
  <2>1. d * m >= (k + 1) * m
    BY <1>1, <1>2
  <2>2. (k + 1) * m = k * m + m /\ k * m \in Nat /\ d * m \in Nat
    BY <1>1
  <2> QED
    BY <1>1, <2>1, <2>2
<1>3. CASE d < k
  <2>1. k * m >= (d + 1) * m
    BY <1>1, <1>3
  <2>2. (d + 1) * m = d * m + m /\ k * m \in Nat /\ d * m \in Nat
    BY <1>1
  <2> QED
    BY <1>1, <2>1, <2>2
<1>4. CASE d = k
  <2>1. k * m \in Nat
    OBVIOUS
  <2>2. e = r
    BY <1>1, <1>4, <2>1
  <2> QED
    BY <1>4, <2>2 DEF d, e
<1> QED
  BY <1>1, <1>2, <1>3, <1>4

\* Taking a pack away takes one from the packs and nothing from the rest.
LEMMA OnePackLess ==
    ASSUME NEW n \in Nat, NEW m \in Nat \ {0}
    PROVE  /\ n < m => n \div m = 0 /\ n % m = n
           /\ n >= m => /\ (n - m) \div m = (n \div m) - 1 /\ (n - m) % m = n % m
                        /\ n \div m \in Nat \ {0}
           /\ n \div m \in Nat /\ n % m \in 0..m - 1 /\ n = (n \div m) * m + (n % m)
<1> DEFINE d == n \div m
           e == n % m
<1>1. d \in Nat /\ e \in 0..m - 1 /\ n = d * m + e
  OBVIOUS
<1>2. ASSUME n < m PROVE d = 0 /\ e = n
  <2>1. n = 0 * m + n /\ n \in 0..m - 1
    BY <1>2
  <2> QED
    BY <2>1, DivIs
<1>3. ASSUME n >= m PROVE d # 0
  BY <1>1, <1>3
<1>4. ASSUME n >= m PROVE (n - m) \div m = d - 1 /\ (n - m) % m = e
  <2> HIDE DEF d, e
  <2>1. d - 1 \in Nat
    BY <1>1, <1>3, <1>4
  <2>2. (d - 1) * m = d * m - m /\ d * m \in Nat
    BY <1>1
  <2>3. n - m \in Nat /\ n - m = (d - 1) * m + e
    BY <1>1, <1>4, <2>2
  <2> QED
    BY <1>1, <2>1, <2>3, DivIs
<1>5. d \in Nat /\ e \in 0..m - 1 /\ n = d * m + e
  BY <1>1
<1> QED
  BY <1>2, <1>3, <1>4, <1>5

\* A nonempty set of natural numbers has a least member.
LEMMA Least ==
    ASSUME NEW T \in SUBSET Nat, T # {}
    PROVE  \E m \in T : \A k \in T : m <= k
<1> DEFINE R == OpToRel(<, Nat)
<1>1. IsWellFoundedOn(R, Nat)
  BY NatLessThanWellFounded
<1>2. \A x, y \in Nat : y < x => <<y, x>> \in R
  BY DEF OpToRel
<1> HIDE DEF R
<1>3. PICK m \in T : \A y \in T : ~(<<y, m>> \in R)
  BY <1>1, WFMin
<1>4. \A k \in T : k \in Nat /\ m \in Nat /\ ~(k < m)
  BY <1>2, <1>3
<1> QED
  BY <1>4

\* What q pieces cost before rounding: whole packs at p, the rest at the base.
Packed(q, m, p, base) == (q \div m) * m * p + (q % m) * base

\* It costs what comes of paying pack by pack, as long as there is a pack.
LEMMA PackByPack ==
    ASSUME NEW m \in Nat \ {0}, NEW p \in Nat, NEW base \in Nat, NEW n \in Nat
    PROVE  /\ n < m => Packed(n, m, p, base) = n * base
           /\ n >= m => Packed(n, m, p, base) = m * p + Packed(n - m, m, p, base)
           /\ Packed(n, m, p, base) \in Nat
<1> DEFINE d == n \div m
           e == n % m
<1>1. d \in Nat /\ e \in Nat
  BY OnePackLess
<1>2. ASSUME n < m PROVE Packed(n, m, p, base) = n * base
  <2>1. d = 0 /\ e = n
    BY <1>2, OnePackLess
  <2> QED
    BY <2>1 DEF Packed
<1>3. ASSUME n >= m PROVE Packed(n, m, p, base) = m * p + Packed(n - m, m, p, base)
  <2>1. (n - m) \div m = d - 1 /\ (n - m) % m = e
    BY <1>3, OnePackLess
  <2> HIDE DEF d, e
  <2>2. (d - 1) * m * p = d * m * p - m * p
    BY <1>1
  <2>3. d * m * p \in Int /\ m * p \in Int /\ e * base \in Int
    BY <1>1
  <2>4. Packed(n, m, p, base) = d * m * p + e * base
    BY DEF Packed, d, e
  <2>5. Packed(n - m, m, p, base) = (d - 1) * m * p + e * base
    BY <2>1 DEF Packed
  <2> QED
    BY <2>2, <2>3, <2>4, <2>5
<1>4. Packed(n, m, p, base) \in Nat
  <2>1. Packed(n, m, p, base) = d * m * p + e * base
    BY DEF Packed
  <2> HIDE DEF d, e
  <2> QED
    BY <1>1, <2>1
<1> QED
  BY <1>2, <1>3, <1>4

\* PackRule's way of paying is a function with one value.
Pays(f, q, m, p, base) ==
    f = [n \in 0..q |-> IF n < m THEN n * base ELSE m * p + f[n - m]]

\* Paying pack by pack comes to the packs and the rest.
LEMMA PaidByPack ==
    ASSUME NEW m \in Nat \ {0}, NEW p \in Nat, NEW base \in Nat, NEW q \in Nat
    PROVE  (CHOOSE f : Pays(f, q, m, p, base))[q] = Packed(q, m, p, base)
<1> DEFINE h == [n \in 0..q |-> Packed(n, m, p, base)]
           g == CHOOSE f : Pays(f, q, m, p, base)
<1>1. Pays(h, q, m, p, base)
  <2>1. ASSUME NEW n \in 0..q
        PROVE  h[n] = IF n < m THEN n * base ELSE m * p + h[n - m]
    <3>1. CASE n < m
      BY <3>1, PackByPack
    <3>2. CASE n >= m
      <4>1. n - m \in 0..q
        BY <3>2
      <4>2. h[n - m] = Packed(n - m, m, p, base) /\ h[n] = Packed(n, m, p, base)
        BY <4>1
      <4>3. ~(n < m)
        BY <3>2
      <4> HIDE DEF h
      <4> QED
        BY <3>2, <4>2, <4>3, PackByPack
    <3> QED
      BY <3>1, <3>2
  <2> QED
    BY <2>1 DEF Pays
<1>2. Pays(g, q, m, p, base)
  BY <1>1
<1> HIDE DEF g
<1>3. \A n \in 0..q : g[n] = IF n < m THEN n * base ELSE m * p + g[n - m]
  BY <1>2 DEF Pays
<1> DEFINE Bad == {n \in 0..q : g[n] # Packed(n, m, p, base)}
<1>4. Bad = {}
  <2> SUFFICES ASSUME Bad # {} PROVE FALSE
    OBVIOUS
  <2>1. PICK n \in Bad : \A k \in Bad : n <= k
    <3>1. Bad \in SUBSET Nat
      OBVIOUS
    <3> HIDE DEF Bad
    <3> QED
      BY <3>1, Least
  <2>2. n \in 0..q /\ g[n] # Packed(n, m, p, base)
    OBVIOUS
  <2>3. CASE n < m
    BY <1>3, <2>2, <2>3, PackByPack
  <2>4. CASE n >= m
    <3>1. n - m \in 0..q /\ ~(n <= n - m) /\ ~(n < m)
      BY <2>2, <2>4
    <3>2. g[n - m] = Packed(n - m, m, p, base)
      BY <2>1, <3>1
    <3>3. g[n] = m * p + g[n - m]
      BY <1>3, <2>2, <3>1
    <3> QED
      BY <2>2, <2>4, <3>2, <3>3, PackByPack
  <2> QED
    BY <2>2, <2>3, <2>4
<1>5. q \in 0..q
  OBVIOUS
<1> QED
  BY <1>4, <1>5 DEF g

\* The shop's rule is what InPacks computes.
LEMMA PacksFollowRule == ASSUME IInv PROVE PackRule
<1> SUFFICES ASSUME NEW t \in tiers, NEW q \in Quantities
             PROVE  InPacks(t, q, Base[t.shop])
                      = Round((CHOOSE f : Pays(f, q, t.min, t.price, Base[t.shop]))[q])
  BY DEF PackRule, Pays
<1>1. t.min \in Nat \ {0} /\ t.price \in Nat /\ Base[t.shop] \in Nat /\ q \in Nat
  BY BillAssumption DEF IInv
<1>2. InPacks(t, q, Base[t.shop]) = Round(Packed(q, t.min, t.price, Base[t.shop]))
  BY DEF InPacks, Packed
<1> QED
  BY <1>1, <1>2, PaidByPack

\* The price of a piece as it is stored, and what k packs of it come to.
Each(quote, m) == (2 * quote * 100 + m) \div (2 * m)
Few(k, m) == k * m < 100
Rounded(k, m, each) == Round((k * m) * each)

\* A price for a pack, stored for a piece to the hundredth, still gives the price
\* of the pack, as long as fewer than a hundred pieces share the rounding.
LEMMA QuoteKept ==
    ASSUME NEW m \in Nat \ {0}, NEW k \in Nat, NEW quote \in Nat, Few(k, m)
    PROVE  Rounded(k, m, Each(quote, m)) = k * quote * 100
<1> DEFINE each == Each(quote, m)
<1>0. each = (2 * quote * 100 + m) \div (2 * m) /\ k * m < 100
  BY DEF Each, Few
<1> HIDE DEF each
<1> DEFINE a == 2 * quote * 100 + m
           c == k * m
<1>1. a \in Nat /\ 2 * m \in Nat \ {0} /\ c \in Nat /\ c < 100
  BY <1>0
<1>2. each \in Nat /\ a % (2 * m) \in 0..(2 * m) - 1 /\ a = each * (2 * m) + (a % (2 * m))
  BY <1>0, <1>1, OnePackLess
<1> DEFINE rest == a % (2 * m)
<1>3. rest \in 0..(2 * m) - 1 /\ each * (2 * m) + rest = a
  BY <1>2
<1> HIDE DEF rest
\* The error of a piece, in halves of a hundredth.
<1> DEFINE off == m - rest
<1>4. off \in Int /\ off <= m /\ off > -m /\ each * (2 * m) = 2 * quote * 100 + off
  <2>1. each * (2 * m) \in Nat
    BY <1>2
  <2> QED
    BY <1>3, <2>1
<1> HIDE DEF off
<1>5. k * off <= k * m /\ k * off >= -(k * m) /\ k * off \in Int
  <2>1. k * off <= k * m
    BY <1>4
  <2>2. k * (-off) <= k * m
    BY <1>4
  <2>3. k * (-off) = -(k * off)
    BY <1>4
  <2>4. k * off \in Int /\ k * m \in Int
    BY <1>4
  <2> QED
    BY <2>1, <2>2, <2>3, <2>4
<1>6. 2 * (c * each) = 2 * (k * quote * 100) + k * off
  <2>1. k * (each * (2 * m)) = k * (2 * quote * 100 + off)
    BY <1>4
  <2>2. k * (each * (2 * m)) = 2 * (c * each)
    BY <1>2
  <2>3. k * (2 * quote * 100 + off) = 2 * (k * quote * 100) + k * off
    BY <1>4
  <2> QED
    BY <2>1, <2>2, <2>3
<1> DEFINE x == c * each
           y == k * quote
           z == k * off
<1>7. x \in Nat /\ y \in Nat /\ z \in Int /\ z <= c /\ z >= -c /\ 2 * x = 200 * y + z
  <2>1. 2 * (k * quote * 100) = 200 * (k * quote)
    OBVIOUS
  <2> QED
    BY <1>1, <1>2, <1>5, <1>6, <2>1
<1> HIDE DEF a, c, x, y, z
<1>8. 100 * ((x + 50) \div 100) = 100 * y
  BY <1>1, <1>7
<1>9. k * quote * 100 = 100 * y
  BY DEF y
<1> QED
  BY <1>8, <1>9 DEF x, c, Rounded, Round, Rupiah, each

\* What InPacks charges for k packs.
Whole(k, m, each) == Round(((k * m) \div m) * m * each + ((k * m) % m) * 0)

\* So a line of whole packs costs the packs' prices.
LEMMA WholePacks ==
    ASSUME NEW m \in Nat \ {0}, NEW k \in Nat, NEW quote \in Nat, Few(k, m)
    PROVE  Whole(k, m, Each(quote, m)) = k * quote * 100
<1> DEFINE each == Each(quote, m)
<1>0. each = (2 * quote * 100 + m) \div (2 * m) /\ k * m < 100
  BY DEF Each, Few
<1> HIDE DEF each
<1> DEFINE n == k * m
<1>1. n \in Nat /\ n = k * m + 0 /\ 0 \in 0..m - 1
  OBVIOUS
<1>2. n \div m = k /\ n % m = 0
  <2> HIDE DEF n
  <2> QED
    BY <1>1, DivIs
<1>3. each \in Nat
  <2> DEFINE a == 2 * quote * 100 + m
             b == 2 * m
  <2>1. a \in Nat /\ b \in Nat \ {0}
    OBVIOUS
  <2>2. each = a \div b
    BY <1>0
  <2> HIDE DEF a, b
  <2> QED
    BY <2>1, <2>2, OnePackLess
<1>4. (n \div m) * m * each + (n % m) * 0 = n * each /\ n * each \in Nat
  <2> HIDE DEF n
  <2>1. (n \div m) * m = n /\ (n % m) * 0 = 0
    BY <1>1, <1>2
  <2>2. n * each \in Nat
    BY <1>1, <1>3
  <2> QED
    BY <2>1, <2>2
<1>5. Round(n * each) = k * quote * 100
  BY QuoteKept DEF Rounded, each
<1>6. Whole(k, m, each) = Round((n \div m) * m * each + (n % m) * 0)
  BY DEF Whole
<1> QED
  BY <1>4, <1>5, <1>6 DEF each

\* Every tier's packs cost what was announced.
LEMMA QuotesKept ==
    ASSUME IInv, \A t \in Tiers, k \in Quantities : k * t.min < 100
    PROVE  QuotedPacksExact
<1> SUFFICES ASSUME NEW t \in tiers, NEW quote \in {10000, 29000}, NEW k \in Quantities, NEW each,
                    each = (2 * quote * Rupiah + t.min) \div (2 * t.min)
             PROVE  InPacks([t EXCEPT !.price = each], k * t.min, 0) = k * quote * Rupiah
  BY DEF QuotedPacksExact
<1>1. /\ t \in [shop : Shops, min : Nat \ {0}, price : Nat, target : STRING,
                starts : Nat \union {Never}, ends : Nat \union {Never}]
      /\ t.min \in Nat \ {0} /\ k \in Nat /\ quote \in Nat /\ k * t.min < 100
  BY BillAssumption DEF IInv
<1> DEFINE u == [t EXCEPT !.price = each]
           m == t.min
<1>2. u.min = m /\ u.price = each
  BY <1>1
<1>3. m \in Nat \ {0} /\ Few(k, m) /\ each = Each(quote, m)
  BY <1>1 DEF Rupiah, Few, Each
<1>4. InPacks(u, k * m, 0) = Whole(k, m, each)
  BY <1>2 DEF InPacks, Whole
<1> HIDE DEF u, m
<1>5. k \in Nat /\ quote \in Nat
  BY <1>1
<1>6. Whole(k, m, Each(quote, m)) = k * quote * 100
  BY <1>3, <1>5, WholePacks
<1>7. InPacks(u, k * m, 0) = k * quote * 100
  BY <1>3, <1>4, <1>6
<1> QED
  BY <1>7 DEF u, m, Rupiah

\* Two goes hold no more packs than one.
LEMMA PacksJoin ==
    ASSUME NEW m \in Nat \ {0}, NEW p \in Nat, NEW base \in Nat, p < base, NEW q \in Nat, NEW r \in Nat
    PROVE  Packed(q + r, m, p, base) <= Packed(q, m, p, base) + Packed(r, m, p, base)
<1> DEFINE a == q \div m
           b == r \div m
           c == (q + r) \div m
           x == q % m
           y == r % m
           z == (q + r) % m
<1>1. /\ a \in Nat /\ x \in 0..m - 1 /\ q = a * m + x
      /\ b \in Nat /\ y \in 0..m - 1 /\ r = b * m + y
      /\ c \in Nat /\ z \in 0..m - 1 /\ q + r = c * m + z
  <2>1. q + r \in Nat
    OBVIOUS
  <2> QED
    BY <2>1, OnePackLess
<1>2. /\ Packed(q, m, p, base) = a * m * p + x * base
      /\ Packed(r, m, p, base) = b * m * p + y * base
      /\ Packed(q + r, m, p, base) = c * m * p + z * base
  BY DEF Packed
<1> HIDE DEF a, b, c, x, y, z
<1>3. c >= a + b
  <2> SUFFICES ASSUME c + 1 <= a + b PROVE FALSE
    BY <1>1
  <2>1. (c + 1) * m <= (a + b) * m
    BY <1>1
  <2>2. (c + 1) * m = c * m + m /\ (a + b) * m = a * m + b * m
    BY <1>1
  <2>3. a * m \in Nat /\ b * m \in Nat /\ c * m \in Nat
    BY <1>1
  <2> QED
    BY <1>1, <2>1, <2>2, <2>3
\* As many pieces each way, more of them in packs.
<1> DEFINE s == a * m + b * m
           w == c * m
<1>4. s \in Nat /\ w \in Nat /\ s <= w /\ w + z = s + x + y
  <2>1. (a + b) * m <= c * m
    BY <1>1, <1>3
  <2>2. (a + b) * m = a * m + b * m
    BY <1>1
  <2>3. a * m \in Nat /\ b * m \in Nat /\ c * m \in Nat
    BY <1>1
  <2> QED
    BY <1>1, <2>1, <2>2, <2>3
<1>5. a * m * p + b * m * p = s * p /\ c * m * p = w * p
  BY <1>1
<1> HIDE DEF s, w
<1> DEFINE n == w - s
<1>6. n \in Nat /\ w = s + n /\ x + y = z + n
  BY <1>1, <1>4
<1> HIDE DEF n
<1>7. w * p = s * p + n * p /\ (x + y) * base = z * base + n * base /\ n * p <= n * base
  <2>1. w * p = s * p + n * p
    BY <1>4, <1>6
  <2>2. (x + y) * base = z * base + n * base
    BY <1>1, <1>6
  <2>3. n * p <= n * base
    BY <1>6
  <2> QED
    BY <2>1, <2>2, <2>3
<1>8. x * base + y * base = (x + y) * base
  BY <1>1
<1>9. /\ a * m * p \in Int /\ b * m * p \in Int /\ c * m * p \in Int /\ s * p \in Int /\ w * p \in Int
      /\ x * base \in Int /\ y * base \in Int /\ z * base \in Int /\ n * p \in Int /\ n * base \in Int
      /\ (x + y) * base \in Int
  BY <1>1, <1>4, <1>6
<1>10. c * m * p + z * base <= (a * m * p + x * base) + (b * m * p + y * base)
  BY <1>5, <1>7, <1>8, <1>9
<1> QED
  BY <1>2, <1>10

\* Rounding twice for once moves a rupiah at most.
LEMMA RoundJoins ==
    ASSUME NEW x \in Nat, NEW y \in Nat, NEW z \in Nat, z <= x + y
    PROVE  Round(z) <= Round(x) + Round(y) + Rupiah
BY DEF Round, Rupiah

\* What is bought together costs no more than in two goes.
LEMMA TogetherCheaper == ASSUME IInv PROVE TogetherNotDearer
<1> SUFFICES ASSUME NEW t \in tiers, NEW q \in Quantities, NEW r \in Quantities
             PROVE  LinePrice({t}, q + r, Base[t.shop], now)
                      <= LinePrice({t}, q, Base[t.shop], now) + LinePrice({t}, r, Base[t.shop], now) + Rupiah
  BY DEF TogetherNotDearer
<1> DEFINE base == Base[t.shop]
           good == t.target = "all_customers" /\ tierSedangBerlaku(t, now) /\ t.price < base
<1>1. t.min \in Nat \ {0} /\ t.price \in Nat /\ base \in Nat /\ q \in Nat /\ r \in Nat
  BY BillAssumption DEF IInv
<1> HIDE DEF base
<1>2. ASSUME NEW n \in Nat
      PROVE  LinePrice({t}, n, base, now)
               = IF good THEN Round(Packed(n, t.min, t.price, base)) ELSE Round(base * n)
  <2> DEFINE best == {u \in BestTiers({t}, n, now) : Worthwhile(u, base)}
  <2>1. CASE good /\ n >= t.min
    <3>1. t.min > 0 /\ t.price <= t.price
      BY <1>1
    <3>2. t \in Fitting({t}, n, now)
      BY <2>1, <3>1 DEF Fitting
    <3>3. t \in BestTiers({t}, n, now)
      BY <3>1, <3>2 DEF BestTiers, Better, Fitting
    <3>4. best = {t}
      BY <2>1, <3>3 DEF Worthwhile, BestTiers, Fitting
    <3>5. (CHOOSE u \in best : TRUE) = t /\ best # {}
      BY <3>4
    <3>6. LinePrice({t}, n, base, now) = InPacks(t, n, base)
      BY <3>5 DEF LinePrice
    <3> QED
      BY <2>1, <3>6 DEF InPacks, Packed
  <2>2. CASE ~(good /\ n >= t.min)
    <3>1. best = {}
      BY <2>2 DEF BestTiers, Fitting, Worthwhile
    <3>2. LinePrice({t}, n, base, now) = Round(base * n)
      BY <3>1 DEF LinePrice, Plain
    <3>3. n < t.min => Packed(n, t.min, t.price, base) = n * base
      <4>1. \A m \in Nat \ {0}, p \in Nat, b \in Nat : n < m => Packed(n, m, p, b) = n * b
        BY PackByPack
      <4> QED
        BY <1>1, <4>1
    <3>4. n * base = base * n /\ (~(n >= t.min) => n < t.min)
      BY <1>1
    <3> QED
      BY <2>2, <3>2, <3>3, <3>4
  <2> QED
    BY <2>1, <2>2
<1>3. q + r \in Nat
  BY <1>1
<1>4. CASE good
  <2>1. /\ Packed(q, t.min, t.price, base) \in Nat /\ Packed(r, t.min, t.price, base) \in Nat
        /\ Packed(q + r, t.min, t.price, base) \in Nat
    BY <1>1, <1>3, PackByPack
  <2>2. Packed(q + r, t.min, t.price, base) <= Packed(q, t.min, t.price, base) + Packed(r, t.min, t.price, base)
    BY <1>1, <1>4, PacksJoin
  <2> QED
    BY <1>1, <1>2, <1>3, <1>4, <2>1, <2>2, RoundJoins DEF base
<1>5. CASE ~good
  <2>1. base * q \in Nat /\ base * r \in Nat /\ base * (q + r) \in Nat /\ base * (q + r) = base * q + base * r
    BY <1>1
  <2>2. base * (q + r) <= base * q + base * r
    BY <2>1
  <2> QED
    BY <1>1, <1>2, <1>3, <1>5, <2>1, <2>2, RoundJoins DEF base
<1> QED
  BY <1>4, <1>5

\* A day is over at its midnight, three thirds after it began.
LEMMA DaysCount == ASSUME IInv PROVE LastDayCounts
<1> SUFFICES ASSUME NEW a \in 0..DayOf(LastTime), NEW b \in 0..DayOf(LastTime)
             PROVE  tierSedangBerlaku([starts |-> parseJadwalTier(a, FALSE),
                                       ends |-> parseJadwalTier(b, TRUE)], now)
                      <=> DayOf(now) \in a..b
  BY DEF LastDayCounts
<1>1. now \in Nat /\ a \in Nat /\ b \in Nat
  BY BillAssumption DEF IInv, DayOf
<1>2. parseJadwalTier(a, FALSE) = 3 * a /\ parseJadwalTier(b, TRUE) = 3 * (b + 1)
  BY <1>1 DEF parseJadwalTier, Never, Midnight
<1>3. 3 * a # Never /\ 3 * (b + 1) # Never
  BY <1>1 DEF Never
<1>4. DayOf(now) \in a..b <=> 3 * a <= now /\ 3 * (b + 1) > now
  BY <1>1 DEF DayOf
<1> QED
  BY <1>2, <1>3, <1>4 DEF tierSedangBerlaku

\* What a line costs is a number.
LEMMA LineType ==
    ASSUME NEW S \in SUBSET Tiers, NEW base \in Nat, NEW q \in Nat, NEW time
    PROVE  LinePrice(S, q, base, time) \in Int
<1> DEFINE best == {t \in BestTiers(S, q, time) : Worthwhile(t, base)}
           pick == CHOOSE t \in best : TRUE
<1>1. ASSUME NEW x \in Nat PROVE Round(x) \in Int
  BY DEF Round, Rupiah
<1>2. CASE best = {}
  BY <1>1, <1>2 DEF LinePrice, Plain
<1>3. CASE best # {}
  <2>1. pick \in Tiers
    BY <1>3 DEF BestTiers, Fitting
  <2>2. pick.min \in Nat \ {0} /\ pick.price \in Nat
    BY <2>1, BillAssumption
  <2>3. InPacks(pick, q, base) = Round(Packed(q, pick.min, pick.price, base))
    BY DEF InPacks, Packed
  <2>4. Packed(q, pick.min, pick.price, base) \in Nat
    BY <2>2, PackByPack
  <2> QED
    BY <1>1, <1>3, <2>3, <2>4 DEF LinePrice
<1> QED
  BY <1>2, <1>3

\* The cart and the checkout ask the same of a code and take the same off.
LEMMA QuotesHonoured == ASSUME IInv PROVE QuoteHonoured
<1> SUFFICES ASSUME NEW v \in Vouchers, NEW cart \in Carts, NEW shop \in DOMAIN cart
             PROVE  /\ Validates(voucher[v], CartSubtotal(cart, shop), shop)
                         <=> Usable(voucher[v], Bill(shop, cart[shop], v).subtotal, shop)
                    /\ Usable(voucher[v], Bill(shop, cart[shop], v).subtotal, shop) =>
                          Quote(v, CartSubtotal(cart, shop)) = Bill(shop, cart[shop], v).discount
  BY DEF QuoteHonoured
<1> DEFINE sub == Subtotal(shop, cart[shop])
           row == voucher[v]
<1>1. sub \in Int
  <2>1. TiersRead(shop) \in SUBSET Tiers
    BY DEF TiersRead, IInv
  <2>2. Base[shop] \in Nat /\ cart[shop] \in Nat
    BY BillAssumption
  <2> QED
    BY <2>1, <2>2, LineType DEF Subtotal
<1>2. CartSubtotal(cart, shop) = sub /\ Bill(shop, cart[shop], v).subtotal = sub
      /\ Bill(shop, cart[shop], v).discount = Discount(v, sub)
  BY DEF CartSubtotal, Bill
<1>3. v # NoCode
  BY BillAssumption
<1>4. Quote(v, sub) = Discount(v, sub)
  BY <1>3 DEF Quote, Discount
<1> HIDE DEF sub
<1>5. Validates(row, sub, shop) <=> Usable(row, sub, shop)
  <2>1. CASE ~Live(row)
    BY <2>1 DEF Validates, Usable
  <2>2. CASE Live(row)
    <3>1. row.form \in Forms[v] /\ row.used \in Nat /\ now \in Nat
      BY <2>2, BillAssumption DEF IInv, VoucherOK, Rows, Live
    <3>2. /\ row.form.limit \in Nat /\ row.form.min \in Nat
          /\ row.form.starts \in Int /\ row.form.ends \in Int
      BY <3>1, BillAssumption DEF Never
    <3>3. InTime(row.form) <=> /\ ~(row.form.starts # Never /\ row.form.starts > now)
                               /\ ~(row.form.ends # Never /\ row.form.ends < now)
      BY <3>1, <3>2 DEF InTime
    <3>4. BelowLimit(row) <=> ~(row.form.limit > 0 /\ row.used >= row.form.limit)
      BY <3>1, <3>2 DEF BelowLimit
    <3>5. sub >= row.form.min <=> ~(sub < row.form.min)
      BY <1>1, <3>2
    <3> QED
      BY <3>3, <3>4, <3>5 DEF Validates, Usable
  <2> QED
    BY <2>1, <2>2
<1> QED
  BY <1>2, <1>4, <1>5

-----------------------------------------------------------------------------
(* Theorems.                                                               *)

\* Every row, order and handler stays within its type.
THEOREM TypeCorrect == Spec => []TypeOK
<1>1. IInv => TypeOK
  BY DEF IInv, VoucherOK, ReqOK, Rows, TypeOK
<1> QED
  BY <1>1, AlwaysIInv, PTL

\* Stale edits and rollbacks lose uses of a voucher but never invent one, for
\* any number of handlers.
THEOREM CountNeverInvented == Spec => []NeverOvercounted
<1>1. IInv => NeverOvercounted
  BY DEF IInv, VoucherOK, NeverOvercounted
<1> QED
  BY <1>1, AlwaysIInv, PTL

\* A checkout over any number of shops uses a code once.
THEOREM CodeUsedOnce == Spec => []OncePerCheckout
<1>1. IInv => OncePerCheckout
  BY DEF IInv, VoucherOK, OncePerCheckout
<1> QED
  BY <1>1, AlwaysIInv, PTL

\* So every use that is counted is an order of its own checkout.
THEOREM CountsAlwaysAddUp == Spec => []CountsAddUp
BY CountNeverInvented, CodeUsedOnce, PTL DEF CountsAddUp

\* The unlocked read costs at most one use for each other handler.
THEOREM LimitOverrun == Spec => []OverrunBounded
<1>1. ASSUME IInv
      PROVE  OverrunBounded
  <2> SUFFICES ASSUME NEW v \in Vouchers \ Edited,
                      voucher[v] # NoRow, voucher[v].form.limit > 0
               PROVE  Cardinality(takers[v]) <= voucher[v].form.limit + Cardinality(Slots) - 1
    BY DEF OverrunBounded
  <2>1. VoucherOK(v) /\ UneditedOK(v)
    BY <1>1 DEF IInv, VoucherOK
  <2>2. Cardinality(takers[v]) + Cardinality(Holding(v))
           <= voucher[v].form.limit + Cardinality(Slots) - 1
    BY <2>1 DEF UneditedOK
  <2>3. Cardinality(takers[v]) \in Nat /\ voucher[v].form.limit \in Nat
    BY <2>1, BillAssumption, FS_CardinalityType DEF VoucherOK, Rows
  <2> QED
    BY <2>2, <2>3, HoldingFinite
<1> QED
  BY <1>1, AlwaysIInv, PTL

\* Whatever tiers a shop makes, no quantity of its product costs more than the
\* normal price, at any time.
THEOREM BulkNeverDearer == Spec => []NeverDearer
<1>1. ASSUME IInv
      PROVE  NeverDearer
  <2> SUFFICES ASSUME NEW shop \in Shops, NEW q \in Quantities
               PROVE  LinePrice(OfShop(shop), q, Base[shop], now) <= Plain(q, Base[shop])
    BY DEF NeverDearer
  <2>1. OfShop(shop) \in SUBSET Tiers
    BY <1>1 DEF IInv, OfShop
  <2>2. Base[shop] \in Nat /\ q \in Nat
    BY BillAssumption
  <2> QED
    BY <2>1, <2>2, LineNotDearer
<1> QED
  BY <1>1, AlwaysIInv, PTL

\* Bulk prices are the ones announced, for any tiers, quantities and vouchers: by
\* whole packs, to the rupiah and the day, and the cart is told what checkout
\* charges.  A pack's price, stored per piece to the hundredth, is exact as long
\* as fewer than a hundred pieces share the rounding.
THEOREM PricesAlwaysAnnounced ==
    ASSUME \A t \in Tiers, k \in Quantities : k * t.min < 100
    PROVE  Spec => []PricesAsAnnounced
<1>1. IInv => PricesAsAnnounced
  BY PacksFollowRule, QuotesKept, TogetherCheaper, DaysCount, QuotesHonoured DEF PricesAsAnnounced
<1> QED
  BY <1>1, AlwaysIInv, PTL
=============================================================================
