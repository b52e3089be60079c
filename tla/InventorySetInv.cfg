CONSTANTS
    g1 = g1
    g2 = g2
    o1 = o1
    o2 = o2
    s1 = s1
    s2 = s2
    s3 = s3
    Goods = {g1, g2}
    Orders = {o1}
    Sessions = {s1}
    Requests <- MCRequests
    Levels = {1, 2}
    MaxConns = 3
    Faults = {"statement"}
    None = None
SPECIFICATION Spec
PROPERTIES
    SetInvSetsStocks
