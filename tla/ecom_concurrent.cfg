\* Two handlers in flight, gateway on: one checkout over two stores and a rival.
SPECIFICATION Spec
CONSTANTS
    Orders <- OrdersRival
    Group <- GroupRival
    Qty <- QtyRival
    Groups = {"g1", "g2"}
    Products <- MCProducts
    InitStock <- StockScarce
    Http = {h1, h2}
    Cron = h2
    PgEnabled = TRUE
    BiteshipReady = FALSE
    Attempts = {"first"}
    MaxReturns = 1
    MaxBookings = 1
    MayLose = {"flour"}
INVARIANTS LedgerExact StockNonNegative GroupsTogether
PROPERTIES PgPaysWholeGroup SyncKeepsDecisions
CONSTRAINT RivalOnlyChecksOut
CHECK_DEADLOCK FALSE
