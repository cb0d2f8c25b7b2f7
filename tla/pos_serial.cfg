\* One request at a time: two tickets, each submitted again and again.
SPECIFICATION Spec
CONSTANTS
    Tickets = {"a", "b"}
    Cart <- CartsPlain
    Gifts = {"mug"}
    InitStock = 3
    InitBatches <- MCBatches
    InitGifts = 1
    InitPoints = 1
    Http = {h1}
    Desk = {"update", "expire"}
    Unseen = {"stock", "status", "batch"}
    MaxReturns = 0
    MaxOrders = 2
    MaxClients = 2
INVARIANTS TypeOK CompletedOnce BatchesInOrder
PROPERTIES NoDoubleSale
CONSTRAINT FewOrders
CHECK_DEADLOCK FALSE
