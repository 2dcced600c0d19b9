CONSTANTS
    c1 = c1
    c2 = c2
    Calls = {c1, c2}
    RoutesOf <- MCRoutesOf
    RoleOf <- MCRoleOf
    LineItems <- MCLineItems
    MaxAttempts = 2
    CatalogThrows <- MCCatalogThrows
    OrderThrows <- MCOrderThrows
    OtherThrows <- MCOtherThrows
SPECIFICATION FairPathSpec
INVARIANTS RequestTypeOK FaithfulAnswers NoLostTrial
PROPERTIES CallsEnd
CHECK_DEADLOCK FALSE
