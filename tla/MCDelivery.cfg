CONSTANTS
    Events = {1, 2}
    Relays = {r1, r2}
    BatchSize = 2
    MaxRetries = 2
    MaxAttempts = 2
    LateLetters = 1
    MaxIncidents = 1
SPECIFICATION FairDeliverySpec
INVARIANTS DeliveryTypeOK NothingSkipped MarkedRowsWerePublished PublishedOnceWithoutFaults
PROPERTIES ImplementsAtLeastOnce ImplementsTransport
CHECK_DEADLOCK FALSE
