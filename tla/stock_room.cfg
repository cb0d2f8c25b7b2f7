SPECIFICATION Spec
CONSTANTS
    Products = {flour}
    Slots = {s1, s2}
    Amounts = {1, 2}
    Alone = {"count"}
    NoProduct = NoProduct
    MaxAmount = 2
    MaxStock = 2
    MaxOffCard = 1
    MaxBatches = 2
    Unseen = {"shelf", "row", "batch"}
INVARIANTS TypeOK StockOnCard OverdrawBounded
SYMMETRY Alike
CHECK_DEADLOCK FALSE
