----------------------------- MODULE MCEcomBill -----------------------------
(* Two shops, one voucher the admin leaves alone and one it keeps changing. *)
EXTENDS EcomBill, TLC

MCShops == {"home", "store"}
MCBase == [home |-> 1100000, store |-> 500000]
MCShipping == [home |-> 900000, store |-> 0]
MCMinOrder == [home |-> 0, store |-> 1000000]

\* A home cart of four, a store cart of three, and both at once.
MCCarts == {[home |-> 4], [home |-> 4, store |-> 3], [store |-> 1]}

\* "3 for 29.000" at home, scheduled for the first day, and a dearer one.
Tier(shop, min, price, target, from, until) ==
    [shop |-> shop, min |-> min, price |-> price, target |-> target,
     starts |-> parseJadwalTier(from, FALSE), ends |-> parseJadwalTier(until, TRUE)]
MCTiers ==
    {Tier("home", 3, 966667, "all_customers", 0, 0),
     Tier("home", 2, 1200000, "all_customers", Never, Never)}

Form(shop, kind, value, cap, min, limit, ends) ==
    [shop |-> shop, active |-> TRUE, kind |-> kind, value |-> value, cap |-> cap,
     min |-> min, limit |-> limit, starts |-> Never, ends |-> ends]
MCForms ==
    [A |-> {Form("home", "fixed", 5000000, Never, 0, 1, 1)},
     B |-> {Form("home", "percent", 10, 300000, 2000000, 0, Never),
            Form("store", "fixed", 100000, Never, 0, 0, Never)}]

\* The columns migrations 000034, 000042 and 000079 give the table.
Migrated == {"id", "product_id", "min_qty", "price", "target_type", "note",
             "created_at", "updated_at", "expires_at", "starts_at"}

Alike == Permutations(Checkouts) \union Permutations(Slots)
=============================================================================
