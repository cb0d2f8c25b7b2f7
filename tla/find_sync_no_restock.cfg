\* One handler at a time; the admin syncs a returned parcel.
SPECIFICATION Spec
CONSTANTS
    Orders <- OrdersOne
    Group <- GroupOne
    Qty <- QtyOne
    Groups = {"g1"}
    Products <- MCProducts
    InitStock <- StockScarce
    Http = {h1}
    Cron = h1
    PgEnabled = FALSE
    BiteshipReady = TRUE
    Attempts = {}
    MaxReturns = 1
    MaxBookings = 1
    MayLose = {}
INVARIANTS CancelledIsReturned
ACTION_CONSTRAINT OneAtATime
CHECK_DEADLOCK FALSE
