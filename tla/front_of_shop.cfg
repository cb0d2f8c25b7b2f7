SPECIFICATION FrontSpec
CONSTANTS
    Slots = {s1, s2}
    Accounts = {u}
    Phones = {ph}
    NoPhone = NoPhone
    Roles = {"user", "admin"}
    Customer = "user"
    Passwords = {"short", "long"}
    Short = {"short"}
    NoAccount = NoAccount
    NoRole = NoRole
    MaxCodes = 1
    MaxEdits = 1
    MaxRenewals = 1
    MaxLost = 1
    Products = {"flour", "butter"}
    Shop <- TwoShops
    Names = {"a", "b"}
    FirstName = "a"
    Minimums = {2}
    NoName = NoName
    NoProduct = NoProduct
    MaxStock = 2
    MaxPageEdits = 2
    Addresses = {a1, a2, a3}
    NoAddress = NoAddress
INVARIANTS AllTypesOK CodeSpentBounded ChangesShowAtOnce CartForetellsCheckout OneDefault
PROPERTIES EveryCopyCatchesUp
CHECK_DEADLOCK FALSE
