SPECIFICATION Spec
CONSTANTS
    Query = {q1, q2}
    OldQuery = {q2}
    q2 = q2
    Observer = {o1}
    q1 = q1
    q2 = q2
    o1 = o1
    o2 = o2
    SegmentBytes = 1
    MaxBytesPerQuery = 1
    MaxTotalBytes = 1
    MaxObservers = 1
    ObserverBuffer = 1
    MaxFrames = 2
    MaxTroubles = 1
    MaxObserved = 2
INVARIANTS
    RecordsWhole
    ObserversServed
PROPERTIES
    ObserversEnd
CHECK_DEADLOCK FALSE
