SPECIFICATION Spec
CONSTANTS
    Id = {u1, u2}
    Name = {n1, n2}
    Pid = {p1}
    Caller = {}
    Observable = {}
    NoId = NoId
    NoPid = NoPid
    u1 = u1
    u2 = u2
    n1 = n1
    n2 = n2
    p1 = p1
    MaxProcesses = 2
    MaxTracked = 2
    MaxBoots = 2
    MaxFaults = 1
SYMMETRY Symmetric
INVARIANTS
    SlotsAndNames
    Indexes
    EndsHold
    ShutdownComplete
PROPERTIES
    Lifecycle
CHECK_DEADLOCK FALSE
