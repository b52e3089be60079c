CONSTANTS
    g1 = g1
    g2 = g2
    c1 = c1
    c2 = c2
    u1 = u1
    u2 = u2
    o1 = o1
    o2 = o2
    Goods = {g1, g2}
    Catalog = {g1}
    Calls = {c1, c2}
    Users = {u1}
    Orders = {o1, o2}
    Requests <- MCRequests
    Stock = 1
    Faults = {"slow"}
    None = None
SPECIFICATION Spec
INVARIANTS
    OrderHoldsStock
