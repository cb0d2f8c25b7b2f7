\* One handler at a time, bank transfer and manual shipping.
SPECIFICATION Spec
CONSTANTS
    Orders <- OrdersRival
    Group <- GroupRival
    Qty <- QtyRival
    Groups = {"g1", "g2"}
    Products <- MCProducts
    InitStock <- StockScarce
    Http = {h1}
    Cron = h1
    PgEnabled = FALSE
    BiteshipReady = FALSE
    Attempts = {}
    MaxReturns = 2
    MaxBookings = 1
    MayLose = {}
INVARIANTS StockBackExactlyOnce RevenueExact
PROPERTIES KeepsReservations
ACTION_CONSTRAINT OneAtATime
CHECK_DEADLOCK FALSE
