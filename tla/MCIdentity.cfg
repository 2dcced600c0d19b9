CONSTANTS
    u1 = u1
    Users = {u1}
    RoleOf <- MCCustomer
    Tokens = {t1, t2, t3}
    NoToken = NoToken
    Requests = {r1, r2}
    AccessLife = 2
    RefreshLife = 3
    MaxTime = 4
SPECIFICATION IdentitySpec
SYMMETRY MCSymmetry
INVARIANTS IdentityTypeOK SingleUse EndedSessionsStayEnded RevocationBounded CutoffOutlivesTokens
