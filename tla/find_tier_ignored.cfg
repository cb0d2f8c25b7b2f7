SPECIFICATION Spec
CONSTANTS
    Shops <- MCShops
    Base <- MCBase
    Carts <- MCCarts
    Shipping <- MCShipping
    MinOrder <- MCMinOrder
    Tiers <- MCTiers
    TierColumns <- Migrated
    Vouchers = {"A", "B"}
    Forms <- MCForms
    Edited = {"B"}
    Checkouts = {c1}
    Slots = {s1}
    NoCode = NoCode
    LastTime = 3
    MaxTiers = 2
    Quantities = {1, 2, 3, 4, 5, 7}
PROPERTIES TierCharged
CHECK_DEADLOCK FALSE
