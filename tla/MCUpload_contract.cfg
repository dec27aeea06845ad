SPECIFICATION Spec
CONSTANTS
    Upload = {u1, u2}
    Target = {t1}
    Content = {a, b}
    Empty = {}
    Bytes = 1
    a = a
    b = b
    other = other
    Foreign = {other}
    None = None
    u1 = u1
    u2 = u2
    t1 = t1
    MaxUploadSessions = 1
    MaxStagingBytes = 1
    CheckpointBytes = 1
    MaxRequests = 2
    MaxTroubles = 1
    MaxTicks = 1
    MaxPlain = 1
SYMMETRY Symmetric
INVARIANTS
    Reservations
    EndsAreSaved
PROPERTIES
    Contract
CHECK_DEADLOCK FALSE
