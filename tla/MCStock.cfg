CONSTANTS
    o1 = o1
    o2 = o2
    o3 = o3
    p1 = p1
    p2 = p2
    Orders = {o1, o2, o3}
    Products = {p1, p2}
    Baskets <- MCBaskets
    StockLevels = {0, 3}
SPECIFICATION StockSpec
INVARIANTS StockTypeOK UnitsConserved ReleaseAnnouncedExactly
PROPERTIES SettledIsFinal UnitsMoveWithOneReservation
