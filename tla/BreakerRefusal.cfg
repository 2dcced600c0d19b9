CONSTANTS
    c1 = c1
    c2 = c2
    Calls = {c1, c2}
    RoutesOf <- MCRoutesOf
    RoleOf <- MCRoleOf
    LineItems <- MCLineItems
    MaxAttempts = 4
    CatalogThrows <- MCCatalogThrows
    OrderThrows <- MCOrderThrows
    OtherThrows <- MCOtherThrows
SPECIFICATION PathSpec
INVARIANTS UnavailableIs503
CHECK_DEADLOCK FALSE
