SPECIFICATION AllSpec
CONSTANTS
    Upload = {u1}
    Target = {t1}
    Content = {a}
    Empty = {}
    Bytes = 2
    a = a
    other = other
    Foreign = {other}
    None = None
    u1 = u1
    t1 = t1
    MaxUploadSessions = 1
    MaxStagingBytes = 2
    CheckpointBytes = 2
    MaxRequests = 1
    MaxTroubles = 2
    MaxTicks = 4
    MaxPlain = 0
    c1 = c1
    c2 = c2
CHECK_DEADLOCK FALSE
INVARIANTS
    AnsweredIsDurable
    FilesWhole
PROPERTIES
    ReservationsEnd
