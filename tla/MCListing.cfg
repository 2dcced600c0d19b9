CONSTANTS
    Ids = {1, 2, 3, 4}
    Times = {1, 2}
    Limits <- MCLimits
    DefaultLimit = 2
    MaxLimit = 3
SPECIFICATION OrderListingSpec
INVARIANTS ListingTypeOK ListedOnce NothingMissed
CHECK_DEADLOCK FALSE
