\* Two tills redeem gifts while admins correct sales.
SPECIFICATION Spec
CONSTANTS
    Tickets = {"a", "b"}
    Cart <- CartsRival
    Gifts = {"mug"}
    InitStock = 2
    InitBatches <- MCBatches
    InitGifts = 2
    InitPoints = 1
    Http = {h1, h2}
    Desk = {}
    Unseen = {"stock"}
    MaxReturns = 1
    MaxOrders = 1
    MaxClients = 1
INVARIANTS NothingOverdrawn PointsExact
CHECK_DEADLOCK FALSE
