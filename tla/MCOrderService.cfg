CONSTANTS
    o1 = o1
    p1 = p1
    a1 = a1
    a2 = a2
    admin = admin
    admin2 = admin2
    customer = customer
    Orders = {o1}
    Products = {p1}
    Baskets <- MCBaskets
    Attempts = {a1, a2}
    OrderOf <- MCOrderOf
    ItemsOf <- MCItemsOf
    Keyed = {o1}
    Updaters = {admin, admin2, customer}
    RoleOf <- MCRoleOf
    Workers = {w1, w2}
SPECIFICATION OrderSpec
INVARIANTS OrderTypeOK RepliesMatchOrders CancelledExactlyWhenReleaseRequested
PROPERTIES LegalTransitions PaidCancelledOnlyByAdmin
