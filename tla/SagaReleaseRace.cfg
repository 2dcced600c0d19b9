CONSTANTS
    o1 = o1
    p1 = p1
    a1 = a1
    a2 = a2
    a3 = a3
    admin = admin
    customer = customer
    Orders = {o1}
    Products = {p1}
    Baskets <- MCBaskets
    Attempts = {a1, a2}
    OrderOf <- MCOrderOf
    ItemsOf <- MCSameItems
    Keyed = {o1}
    Updaters = {}
    RoleOf <- MCRoleOf
    Workers = {w1}
    MaxCalls = 1
    StockLevels = {2}
SPECIFICATION SagaSpec
INVARIANTS LiveOrderHoldsStock
