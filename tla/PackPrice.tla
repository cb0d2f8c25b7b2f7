----------------------------- MODULE PackPrice -----------------------------
(***************************************************************************)
(* What a storefront line costs and what a voucher takes off it.  Money is *)
(* in hundredths of a rupiah (the columns are DECIMAL(15,2)); a line is    *)
(* charged in whole rupiah.  Time is counted in thirds of a day: 00:00,    *)
(* 07:00 and noon of each day, the instants the two date parsers tell      *)
(* apart (the vouchers' reads dates in UTC).                               *)
(*                                                                         *)
(* A definition X_Y just above X is X with a bug Y this code could have; it *)
(* is used by no other, only to test the properties.                       *)
(***************************************************************************)
EXTENDS Integers, FiniteSets

Rupiah == 100
Midnight(day) == 3 * day
DayOf(now) == now \div 3

\* math.Round to whole rupiah.
Round_Down(x) == Rupiah * (x \div Rupiah)
Round(x) == Rupiah * ((x + 50) \div Rupiah)

-----------------------------------------------------------------------------
(* Bulk tiers: [min, price, target, starts, ends].                         *)

Never == -1     \* a schedule left open (NULL)

\* tierSedangBerlaku: the end is exclusive.
tierSedangBerlaku(t, now) ==
    /\ t.starts = Never \/ t.starts <= now
    /\ t.ends = Never \/ t.ends > now

\* parseJadwalTier: "until the 31st" is stored as the 1st, 00:00.
parseJadwalTier_SameDay(day, last) == IF day = Never THEN Never ELSE Midnight(day)
parseJadwalTier(day, last) ==
    CASE day = Never -> Never
      [] last        -> Midnight(day + 1)
      [] OTHER       -> Midnight(day)

\* The tiers a public customer may get for this quantity now.
Fitting(tiers, qty, now) ==
    {t \in tiers : /\ t.target = "all_customers"
                   /\ t.min > 0 /\ qty >= t.min
                   /\ tierSedangBerlaku(t, now)}

\* The largest min_qty that fits; of equal ones the cheapest.
Better(t, u) == t.min > u.min \/ (t.min = u.min /\ t.price <= u.price)
BestTiers(tiers, qty, now) ==
    {t \in Fitting(tiers, qty, now) : \A u \in Fitting(tiers, qty, now) : Better(t, u)}

Plain(qty, base) == Round(base * qty)

\* Whole packs at the tier's price, the rest at the normal one.
InPacks_AllCheap(t, qty, base) == Round(qty * t.price)
InPacks_OnePack(t, qty, base) == Round(t.min * t.price + (qty - t.min) * base)
InPacks(t, qty, base) ==
    Round((qty \div t.min) * t.min * t.price + (qty % t.min) * base)

\* A tier dearer than the normal price is ignored.
Worthwhile_Any(t, base) == TRUE
Worthwhile(t, base) == t.price < base

LinePrice(tiers, qty, base, now) ==
    LET best == {t \in BestTiers(tiers, qty, now) : Worthwhile(t, base)} IN
    IF best = {} THEN Plain(qty, base)
                 ELSE InPacks(CHOOSE t \in best : TRUE, qty, base)

-----------------------------------------------------------------------------
(* Vouchers.                                                               *)

ComputeVoucherDiscount(v, subtotal) ==
    IF v.kind = "percent"
    THEN LET d == (subtotal * v.value) \div 100 IN
         IF v.cap # Never /\ d > v.cap THEN v.cap ELSE d
    ELSE IF v.value > subtotal THEN subtotal ELSE v.value

OrderTotal(subtotal, discount, shipping) ==
    IF subtotal - discount + shipping < 0 THEN 0 ELSE subtotal - discount + shipping
=============================================================================
