CONSTANTS
    Cap = 2
    WireCap = 2
    MaxHead = 5
    MaxDrops = 2
SPECIFICATION FeedFairSpec
INVARIANTS
    HolesWereUnsent
PROPERTIES
    ImplementsOrderedDelivery
    EventuallyDelivered
CHECK_DEADLOCK FALSE
