CONSTANTS
    Sessions = {s1, s2}
    CategoryIds = {1, 2}
    BrandIds = {1, 2}
    LinkIds = {1, 2}
    GoodsIds = {1, 2}
    Names = {n1}
    NoDocument = NoDocument
    Editors = {e1, e2}
    EditIds = {1, 2}
    Fields = {f1, f2}
    Words = {Blank, w1}
    Blank = Blank
    Absent = Absent
    Registrations = {r1, r2, r3}
    Mobiles = {m1, m2}
    UserIds = {1, 2, 3}
    FavKeys = {k1, k2}
    RowCounts = {0, 1, 2, 9, 10, 11, 25, 101, 205}
    PageSizes <- MCPageSizes
    Processes = {p1, p2}
    Ports = {50051, 50052}
    Users = {recv, send}
    Watcher = watcher
    Finalizer = finalizer
SPECIFICATION Spec
INVARIANTS
    CatalogTypeOK
    IndexAgrees
    SearchIsTrue
    PagesPartition
    RegisteredOnce
    FavsAsAsked
    OneEntryPerPort
    RunningIsListed
    FinishedOnce
PROPERTIES
    ChecksHold
    OnlyCreateBrandAddsBrands
    EditsKeepPromise
    EntriesLeave
    SpanFinishes
CHECK_DEADLOCK FALSE
