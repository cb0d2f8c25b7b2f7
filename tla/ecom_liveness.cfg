\* The cron jobs beside one HTTP slot, bank transfer and manual shipping.
SPECIFICATION FairSpec
CONSTANTS
    Orders <- OrdersPair
    Group <- GroupPair
    Qty <- QtyPair
    Groups = {"g1"}
    Products <- MCProducts
    InitStock <- StockScarce
    Http = {h1}
    Cron = c
    PgEnabled = FALSE
    BiteshipReady = FALSE
    Attempts = {}
    MaxReturns = 3
    MaxBookings = 1
    MayLose = {}
PROPERTIES OrdersEnd
CHECK_DEADLOCK FALSE
