\* One handler at a time, gateway and courier on, retried payments.
SPECIFICATION Spec
CONSTANTS
    Orders <- OrdersOne
    Group <- GroupOne
    Qty <- QtyOne
    Groups = {"g1"}
    Products <- MCProducts
    InitStock <- StockScarce
    Http = {h1}
    Cron = h1
    PgEnabled = TRUE
    BiteshipReady = TRUE
    Attempts = {"first", "retry"}
    MaxReturns = 2
    MaxBookings = 2
    MayLose = {"sugar"}
INVARIANTS TypeOK
PROPERTIES TerminalUnlessGateway
ACTION_CONSTRAINT OneAtATime
CHECK_DEADLOCK FALSE
