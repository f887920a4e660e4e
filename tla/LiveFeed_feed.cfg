CONSTANTS
    k1 = k1
    k2 = k2
    Keys = {k1, k2}
    Streamed = {k1, k2}
    Polled = {k1}
    Scanned = {k2}
    Retention = 1
    MaxLag = 1
    MaxSlot = 2
SPECIFICATION FairSpec
INVARIANTS
    TypeOK
    StampIsLowerBound
    StreamedStays
PROPERTIES
    StreamComesUp
    FeedCatchesUp
