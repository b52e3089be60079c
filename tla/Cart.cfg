CONSTANTS
    Calls = {c1, c2}
    Goods = {g1, g2}
    RowIds = {1, 2, 3}
    Amounts = {1}
    Levels = {0, 2}
    MaxNums = 2
    None = None
SPECIFICATION CartSpec
SYMMETRY Symmetry
INVARIANTS
    CartTypeOK
    OneRowPerGoods
PROPERTIES
    OrdersWhatItTakes
    CartKeepsPromise

