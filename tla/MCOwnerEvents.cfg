CONSTANTS
    e1 = e1
    e2 = e2
    build = build
    Event <- MCEvent
    Consumer <- MCConsumer
    Delivery <- MCDelivery
    Refused <- MCRefused
    Courier = {k1, k2}
    Steady = {k1}
    Batch = 1
    MaxLate = 2
SPECIFICATION FairSpec
INVARIANTS OwnerEventsTypeOK RowsAreKept
PROPERTIES AtMostOnce ExactlyOnce
CHECK_DEADLOCK FALSE
