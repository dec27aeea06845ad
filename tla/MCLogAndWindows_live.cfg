SPECIFICATION FairBothSpec
CONSTANTS
    Readers = {r1}
    Streams = {out}
    MaxObservers = 1
    SegmentBytes = 3
    MaxBytesPerProcess = 6
    Owners = {"process"}
    TailSizes = {1}
    MaxOffset = 2
    MaxCrashes = 0
    MaxFaults = 1
    r1 = r1
    r2 = r2
    out = out
    err = err
    Process = {"p1"}
    Initial <- OneProcess
    Columns = {81}
    OperationBuffer = 1
    MaxOpens = 1
    MaxHappenings = 1
PROPERTIES
    FollowersServed
    SessionServes
CHECK_DEADLOCK FALSE
