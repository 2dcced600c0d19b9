CONSTANTS
    o1 = o1
    p1 = p1
    a1 = a1
    a2 = a2
    a3 = a3
    admin = admin
    customer = customer
    Orders = {o1}
    Products = {p1}
    Baskets <- MCBaskets
    Attempts = {a1}
    OrderOf <- MCOrderOf
    ItemsOf <- MCItemsOf
    Keyed = {}
    Updaters = {admin, customer}
    RoleOf <- MCRoleOf
    Workers = {w1, w2}
    MaxCalls = 2
    StockLevels = {0, 2}
SPECIFICATION SagaSpec
INVARIANTS SagaTypeOK LiveOrderHoldsStock CommittedWasPaid FailureOnlyWithoutStock
