SPECIFICATION BackSpec
CONSTANTS
    Slots = {s1, s2}
    MaxLost = 1
    Complaints = {c1, c2, c3}
    NoComplaint = NoComplaint
    Waiting = {u}
    NoOne = NoOne
    Quantity = 1
    Charged = 1
    Ratings = {1}
    MaxRefunds = 1
    MaxReopened = 1
    MaxArmed = 1
    Parcels = {p}
    TempatDariOrderSource <- SecondShop
    NoParcel = NoParcel
    Env <- NoPickup
    Pickups <- TwoPickups
    Areas = {"a", "b"}
    Weights = {500}
    MaxEdits = 1
    MaxBooked = 3
    Invoices = {i}
    Terms = {0, 1}
    Amounts = {1}
    NoInvoice = NoInvoice
    LastDay = 2
    MaxSaves = 2
    MaxRestarts = 1
    Orders = {"o", "e0", "p0", "p1"}
    Customers = {"c1", "c2"}
    Buyer <- BuyerOf
    MemberRows = 2
    Old <- OldRows
    Expenses = {e}
    Categories = {"rent", "fuel"}
    Methods = {"cash", "online"}
    Online = "online"
    Goods = 1
    PurchasePrices = {0, 1}
    Shipping = {0, 1}
    Window = 2
    MaxChange = 0
    FirstHalf = 2
    LastHalf = 3
    Accounts = {"c"}
    Staff = {"k"}
    Owner = "c"
    Browsers = {"b"}
    MaxNotices = 3
    Sales = {"order"}
    Phones <- TwoForms
    Digits <- DigitsOf
    NoPhone = NoPhone
    Admins <- OneAdmin
    Gap = 2
    ReceiptLimit = 1
    NoticeLimit = 4
    LastTick = 2
    MaxLostAnswers = 1
    MaxCalls = 3
    Tags = {1}
    MaxMissed = 1
    MaxChanges = 4
INVARIANTS AllTypesOK DoublesBounded DecisionsHold BookedAsQuoted RemindedOnce ReportsAddUp
PROPERTIES PastStands
CONSTRAINT OneMishap
SYMMETRY Alike
CHECK_DEADLOCK FALSE
